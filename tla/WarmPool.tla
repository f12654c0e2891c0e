------------------------------ MODULE WarmPool ------------------------------
(***************************************************************************)
(* The warm pool of one SandboxClass: WarmPoolReconciler                   *)
(* (internal/controller/warm_pool.go, pool_verify.go), the coordinator's   *)
(* CreateBase (internal/snapshot/base.go), and the Sandbox side that       *)
(* stamps a pool image and picks a base.                                   *)
(*                                                                         *)
(* A pass of the reconciler works on the class, the bases and the base     *)
(* Pods that it read at its start.  The Sandbox reconciler writes the      *)
(* class status at the same time; both use the resource version.  Kubelet, *)
(* scheduler and the image check Jobs take their steps in between.         *)
(***************************************************************************)
EXTENDS Integers, FiniteSets

CONSTANTS
  Images,        \* image references by digest
  BaseNames,     \* names of base Pods and bases: a bound on how many exist
  PreWarmPoolSize,
  MaxPoolImages, \* maxPoolImages
  WarmPoolIdle,  \* warmPoolIdle
  Pools,         \* the classes: spec.preWarmImage or None, the images that
                 \* Sandboxes ask for, the ones signed and the ones whose
                 \* machine holds a secret, the nodes, and the budgets
  None

VARIABLES
  poolStatus,    \* status.warmPool of the class, with its resource version
  bases,         \* the base Snapshots, by name
  basePods,      \* the base Pods, by name
  jobs,          \* the image check Job of each image
  pass,          \* the reconcile pass under way
  asking,        \* the Sandbox start under way
  class,         \* is the pool active, the version of the launcher image,
                 \* and the member of Pools
  clock,
  budget,        \* ticks, stamps, edits, upgrades and faults left
  used           \* history: the last acknowledged stamp of each image

wpVars == <<poolStatus, bases, basePods, jobs, pass, asking, class, clock,
            budget, used>>

Present(f) == {x \in DOMAIN f : f[x] # None}

Spend(what) == budget[what] > 0 /\ budget' = [budget EXCEPT ![what] = @ - 1]
PoolFault == Spend("faults")
PoolWorks == UNCHANGED budget

(* Mutant: the launcher image is no part of the key. *)
BaseKey_NoLauncher(image) == <<image, 0>>

(* BaseKey: the inputs of a base that change here. *)
BaseKey(image) == <<image, class.launcher>>

idle(stamp) == clock - stamp > WarmPoolIdle

(* poolImages: the images of the status, and preWarmImage as of the
   creation of the class (time 0), that are not idle. *)
poolImages(images) ==
  [i \in Images |->
     LET stamp == IF images[i] # None /\ ~idle(images[i]) THEN images[i]
                  ELSE IF i = class.pool.preWarmImage THEN 0 ELSE None
     IN  IF stamp # None /\ ~idle(stamp) THEN stamp ELSE None]

(***************************************************************************)
(* A pass of WarmPoolReconciler.Reconcile.                                 *)
(***************************************************************************)

(* The resource version of the class, modulo more writes than fall between
   a read and its patch here. *)
Versions == 4
NextVersion == (poolStatus.version + 1) % Versions

NoPass == [pc |-> "idle", images |-> None, bases |-> None, pods |-> None,
           passed |-> {}, keys |-> {}, ready |-> {}, held |-> {},
           building |-> {}, todo |-> {}, cur |-> None, live |-> None]
PassAt(p) == pass.pc = p
PassTo(p) == pass' = [pass EXCEPT !.pc = p]
PassEnds == pass' = NoPass
ToStatus == pass' = [NoPass EXCEPT !.pc = "readStatus", !.images = pass.images]

Outside == <<asking, class, clock, used>>

(* The class, its bases and its base Pods are read; an active class gets
   its pool images, the pool of another one is removed. *)
readPool ==
  /\ PassAt("idle") /\ PoolWorks
  /\ pass' = [NoPass EXCEPT
                !.pc = IF class.active THEN "check" ELSE "deleteAll",
                !.images = IF class.active THEN poolImages(poolStatus.images)
                           ELSE None,
                !.bases = bases, !.pods = basePods, !.todo = Present(basePods)]
  /\ UNCHANGED <<poolStatus, bases, basePods, jobs, Outside>>

(* client.Delete of a base: its finalizer keeps it until finalizeBase. *)
DeleteBases(names) ==
  bases' = [n \in BaseNames |-> IF n \in names /\ bases[n] # None
                                  THEN [bases[n] EXCEPT !.deleting = TRUE]
                                  ELSE bases[n]]

DeletePods(names) ==
  basePods' = [n \in BaseNames |-> IF n \in names THEN None ELSE basePods[n]]

deleteAll ==
  /\ PassAt("deleteAll")
  /\ \/ /\ PoolWorks /\ ToStatus
        /\ DeleteBases(Present(pass.bases)) /\ DeletePods(Present(pass.pods))
     \/ /\ PoolFault /\ PassEnds
        /\ \E some \in SUBSET Present(pass.bases) : DeleteBases(some)
        /\ UNCHANGED basePods
  /\ UNCHANGED <<poolStatus, jobs, Outside>>

(* checkImages: a check that does not exist is started, and has no result
   in this pass. *)
checkImages ==
  /\ PassAt("check")
  /\ LET pooled == Present(pass.images) IN
     \/ /\ PoolWorks
        /\ jobs' = [i \in Images |-> IF i \in pooled /\ jobs[i] = "none"
                                       THEN "running" ELSE jobs[i]]
        /\ pass' = [pass EXCEPT !.pc = "prune",
                      !.passed = {i \in pooled : jobs[i] = "passed"},
                      !.keys = {BaseKey(i) : i \in {j \in pooled :
                                                    jobs[j] # "failed"}}]
     \/ PoolFault /\ PassEnds /\ UNCHANGED jobs
  /\ UNCHANGED <<poolStatus, bases, basePods, Outside>>

(* pruneBases: the write of a base stopped with its Pod. *)
Stopped(n) ==
  /\ pass.bases[n].phase = "Creating" /\ pass.bases[n].overdue
  /\ pass.pods[n] = None

(* pruneBases: a base of an old key, a failed one, the Ready ones above the
   wanted number in the order of the list, and one whose write stopped. *)
pruneBases ==
  /\ PassAt("prune")
  /\ LET current == {n \in Present(pass.bases) : pass.bases[n].key \in pass.keys}
         ready(k) == {n \in current : /\ pass.bases[n].phase = "Ready"
                                      /\ pass.bases[n].key = k}
     IN  \E kept \in SUBSET {n \in current : pass.bases[n].phase = "Ready"} :
           /\ \A k \in pass.keys :
                LET r == ready(k) IN
                IF Cardinality(r) <= PreWarmPoolSize THEN r \subseteq kept
                ELSE Cardinality(r \cap kept) = PreWarmPoolSize
           /\ LET written == {n \in current : /\ pass.bases[n].phase = "Creating"
                                              /\ ~Stopped(n)}
                  gone == Present(pass.bases) \ (kept \cup written)
              IN  \/ /\ PoolWorks /\ DeleteBases(gone)
                     /\ pass' = [pass EXCEPT !.pc = "pods", !.ready = kept,
                                   !.held = {<<pass.bases[n].key,
                                               pass.bases[n].node>> :
                                             n \in kept \cup written}]
                  \/ /\ PoolFault /\ gone # {} /\ PassEnds
                     /\ \E some \in SUBSET gone : DeleteBases(some)
  /\ UNCHANGED <<poolStatus, basePods, jobs, Outside>>

(* Mutant: a base Pod that ended still counts as one that builds. *)
Over_Old(p) == p.key \notin pass.keys

(* A base Pod that ended or has an old key. *)
Over(p) == p.phase = "Ended" \/ p.key \notin pass.keys

(* stepBasePod, for a Pod that needs no snapshot: one that ended or has an
   old key goes, one that is not Ready builds on, one whose base exists
   goes.  A failed Delete is logged. *)
PodDone(n) == [pass EXCEPT !.todo = @ \ {n},
                 !.held = @ \cup {<<pass.pods[n].key, pass.pods[n].node>>}]

stepBasePod(n) ==
  LET p == pass.pods[n] IN
  /\ PassAt("pods") /\ n \in pass.todo
  /\ \/ /\ Over(p) \/ (p.phase = "Ready" /\ pass.bases[n] # None)
        /\ \/ PoolWorks /\ DeletePods({n})
           \/ PoolFault /\ UNCHANGED basePods
        /\ pass' = PodDone(n)
     \/ /\ p.phase # "Ready" /\ ~Over(p)
        /\ pass' = [PodDone(n) EXCEPT !.building = @ \cup {n}]
        /\ PoolWorks /\ UNCHANGED basePods
     \/ /\ p.phase = "Ready" /\ ~Over(p) /\ pass.bases[n] = None
        /\ pass' = [PodDone(n) EXCEPT !.pc = "create", !.cur = n]
        /\ PoolWorks /\ UNCHANGED basePods
  /\ UNCHANGED <<poolStatus, bases, jobs, Outside>>

(***************************************************************************)
(* Coordinator.CreateBase for a Ready base Pod.  Every way out of it goes  *)
(* on to the Delete of the Pod.                                            *)
(***************************************************************************)

NewBase(n, phase) ==
  [key |-> pass.pods[n].key, node |-> pass.pods[n].node, phase |-> phase,
   launcher |-> pass.pods[n].launcher, clean |-> FALSE, overdue |-> FALSE, deleting |-> FALSE]

SetPhase(n, phase) ==
  bases' = IF bases[n] = None THEN bases ELSE [bases EXCEPT ![n].phase = phase]

(* The Snapshot is created and marked Creating; without the mark it has no
   phase, which pruneBases treats alike. *)
createBase ==
  /\ PassAt("create")
  /\ LET new == [bases EXCEPT ![pass.cur] = NewBase(pass.cur, "Creating")] IN
     \/ PoolWorks /\ bases' = new /\ PassTo("write")
     \/ PoolFault /\ bases' \in {bases, new} /\ PassTo("deletePod")
  /\ UNCHANGED <<poolStatus, basePods, jobs, Outside>>

(* The node agent scans and stores the machine.  It is not there and the
   Snapshot is taken back; or the write fails, or the scan finds a secret,
   and the Snapshot is Failed.  Each repair may be lost. *)
writeBase ==
  /\ PassAt("write")
  /\ LET dirty == basePods[pass.cur] # None /\ basePods[pass.cur].key[1] \in class.pool.dirty IN
     \/ ~dirty /\ PoolWorks /\ PassTo("record") /\ UNCHANGED bases
     \/ dirty /\ PoolWorks /\ PassTo("deletePod") /\ SetPhase(pass.cur, "Failed")
     \/ /\ PoolFault /\ PassTo("deletePod")
        /\ \/ DeleteBases({pass.cur})
           \/ SetPhase(pass.cur, "Failed")
           \/ UNCHANGED bases
  /\ UNCHANGED <<poolStatus, basePods, jobs, Outside>>

(* The storage reference and the clean mark, then the phase Ready. *)
recordBase ==
  /\ PassAt("record") /\ PassTo("deletePod")
  /\ LET recorded == IF bases[pass.cur] = None THEN bases
                     ELSE [bases EXCEPT ![pass.cur].clean = TRUE]
     IN  \/ PoolWorks /\ bases' = IF bases[pass.cur] = None THEN bases
                                  ELSE [recorded EXCEPT ![pass.cur].phase = "Ready"]
         \/ PoolFault /\ bases' = recorded
         \/ PoolFault /\ SetPhase(pass.cur, "Failed")
  /\ UNCHANGED <<poolStatus, basePods, jobs, Outside>>

deleteBasePod ==
  /\ PassAt("deletePod") /\ pass' = [pass EXCEPT !.pc = "pods", !.cur = None]
  /\ \/ PoolWorks /\ DeletePods({pass.cur})
     \/ PoolFault /\ UNCHANGED basePods
  /\ UNCHANGED <<poolStatus, bases, jobs, Outside>>

(***************************************************************************)
(* startBase and patchStatus.                                              *)
(***************************************************************************)

Short(i) ==
  LET k == BaseKey(i) IN
  Cardinality({n \in pass.ready : pass.bases[n].key = k})
    + Cardinality({n \in pass.building : pass.pods[n].key = k}) < PreWarmPoolSize

Free == {n \in BaseNames : bases[n] = None /\ basePods[n] = None}

(* One base Pod for each verified image that is short of bases, not on a
   node that holds one.  An error is logged; the loop goes on. *)
startBase ==
  /\ PassAt("pods") /\ pass.todo = {}
  /\ LET short == {i \in pass.passed : Short(i)}
         held(i) == {nd \in class.pool.nodes : <<BaseKey(i), nd>> \in pass.held}
         Pod(i) == [key |-> BaseKey(i), node |-> None, not |-> held(i),
                    launcher |-> class.launcher, phase |-> "Pending"]
     IN  \/ short = {} /\ ToStatus /\ PoolWorks /\ UNCHANGED basePods
         \/ \E i \in short :
              /\ pass' = [pass EXCEPT !.passed = @ \ {i}]
              /\ \/ /\ PoolWorks
                    /\ \E n \in Free : basePods' = [basePods EXCEPT ![n] = Pod(i)]
                 \/ /\ Free = {} \/ budget.faults > 0
                    /\ UNCHANGED basePods
                    /\ IF Free = {} THEN PoolWorks ELSE PoolFault
  /\ UNCHANGED <<poolStatus, bases, jobs, Outside>>

(* The live class is read again; a conflict comes back here. *)
readStatus ==
  /\ PassAt("readStatus")
  /\ \/ PoolWorks /\ pass' = [pass EXCEPT !.pc = "patch", !.live = poolStatus]
     \/ PoolFault /\ PassEnds
  /\ UNCHANGED <<poolStatus, bases, basePods, jobs, Outside>>

(* A live image that is not idle stays, with the later of two stamps. *)
mergePoolImages(live, computed) ==
  [i \in Images |->
     IF computed[i] # None
       THEN IF live[i] # None /\ live[i] > computed[i] THEN live[i] ELSE computed[i]
       ELSE IF live[i] # None /\ ~idle(live[i]) THEN live[i] ELSE None]

NoImages == [i \in Images |-> None]

patchStatus ==
  /\ PassAt("patch")
  /\ LET merged == IF pass.images = None THEN NoImages
                   ELSE mergePoolImages(pass.live.images, pass.images)
     IN  \/ /\ merged = pass.live.images /\ PassEnds /\ PoolWorks
            /\ UNCHANGED <<poolStatus, used>>
         \/ /\ merged # pass.live.images /\ PoolWorks
            /\ poolStatus.version = pass.live.version
            /\ poolStatus' = [images |-> merged, version |-> NextVersion]
            /\ used' = IF pass.images = None THEN NoImages ELSE used
            /\ PassEnds
         \/ /\ merged # pass.live.images /\ PoolWorks
            /\ poolStatus.version # pass.live.version
            /\ ToStatus /\ UNCHANGED <<poolStatus, used>>
         \/ PoolFault /\ PassEnds /\ UNCHANGED <<poolStatus, used>>
  /\ UNCHANGED <<bases, basePods, jobs, asking, class, clock>>

(***************************************************************************)
(* A Sandbox start of the class: markPoolUsed, then selectBase.            *)
(***************************************************************************)

AskTo(p) == asking' = [asking EXCEPT !.pc = p]
Pool == <<bases, basePods, jobs, pass, class, clock>>

(* The step of the stamp is one tick: an image stamped at this time is not
   stamped again. *)
markPoolUsed(i) ==
  /\ asking.pc = "idle" /\ class.active /\ Spend("stamps")
  /\ asking' = [pc |-> IF poolStatus.images[i] = clock THEN "select" ELSE "read",
                image |-> i, now |-> clock, live |-> None, base |-> None]
  /\ UNCHANGED <<poolStatus, used, Pool>>

readClass ==
  /\ asking.pc = "read" /\ PoolWorks
  /\ asking' = [asking EXCEPT !.pc = "stamp", !.live = poolStatus]
  /\ UNCHANGED <<poolStatus, used, Pool>>

(* Past maxPoolImages, an image with the oldest stamp goes. *)
stampImage(images, i, now) ==
  LET stamped == [images EXCEPT ![i] = now]
      oldest == {j \in Present(stamped) :
                   \A k \in Present(stamped) : stamped[j] <= stamped[k]}
  IN  IF images[i] # None \/ Cardinality(Present(stamped)) <= MaxPoolImages
        THEN {stamped}
        ELSE {[stamped EXCEPT ![j] = None] : j \in oldest}

patchStamp ==
  /\ asking.pc = "stamp"
  /\ \/ /\ poolStatus.version = asking.live.version /\ PoolWorks /\ AskTo("select")
        /\ \E images \in stampImage(asking.live.images, asking.image, asking.now) :
             /\ poolStatus' = [images |-> images, version |-> NextVersion]
             /\ used' = [i \in Images |->
                           IF images[i] = None THEN None
                           ELSE IF i = asking.image THEN images[i] ELSE used[i]]
     \/ /\ poolStatus.version # asking.live.version /\ PoolWorks /\ AskTo("read")
        /\ UNCHANGED <<poolStatus, used>>
     \/ PoolFault /\ AskTo("select") /\ UNCHANGED <<poolStatus, used>>
  /\ UNCHANGED Pool

(* The first Ready and clean base of the current key; without one the
   Sandbox boots cold. *)
selectBase ==
  /\ asking.pc = "select" /\ PoolWorks
  /\ LET fit == {n \in Present(bases) :
                   /\ bases[n].phase = "Ready" /\ bases[n].clean
                   /\ ~bases[n].deleting
                   /\ bases[n].key = BaseKey(asking.image)}
         base == IF fit = {} THEN None
                 ELSE bases[CHOOSE n \in fit : \A m \in fit : n <= m]
     IN  asking' = [asking EXCEPT !.pc = "idle", !.live = None, !.base = base]
  /\ UNCHANGED <<poolStatus, used, Pool>>

(***************************************************************************)
(* The cluster: scheduler, kubelet, Jobs, the finalizer of a base, time,   *)
(* an edit of the class, an upgrade and a restart of the operator.         *)
(***************************************************************************)

schedule(n) ==
  /\ basePods[n] # None /\ basePods[n].node = None
  /\ \E nd \in class.pool.nodes \ basePods[n].not : basePods' = [basePods EXCEPT ![n].node = nd]
  /\ UNCHANGED <<poolStatus, bases, jobs, pass, budget, Outside>>

boots(n) ==
  /\ basePods[n] # None /\ basePods[n].node # None /\ basePods[n].phase = "Pending"
  /\ \/ PoolWorks /\ basePods' = [basePods EXCEPT ![n].phase = "Ready"]
     \/ PoolFault /\ basePods' = [basePods EXCEPT ![n].phase = "Ended"]
  /\ UNCHANGED <<poolStatus, bases, jobs, pass, Outside>>

jobEnds(i) ==
  /\ jobs[i] = "running"
  /\ jobs' = [jobs EXCEPT ![i] = IF i \in class.pool.signed THEN "passed" ELSE "failed"]
  /\ UNCHANGED <<poolStatus, bases, basePods, pass, budget, Outside>>

finalizeBase(n) ==
  /\ bases[n] # None /\ bases[n].deleting
  /\ bases' = [bases EXCEPT ![n] = None]
  /\ UNCHANGED <<poolStatus, basePods, jobs, pass, budget, Outside>>

(* baseWriteTimeout passes. *)
baseOverdue(n) ==
  /\ bases[n] # None /\ bases[n].phase = "Creating" /\ ~bases[n].overdue
  /\ bases' = [bases EXCEPT ![n].overdue = TRUE]
  /\ UNCHANGED <<poolStatus, basePods, jobs, pass, budget, Outside>>

tick ==
  /\ Spend("ticks") /\ clock' = clock + 1
  /\ UNCHANGED <<poolStatus, bases, basePods, jobs, pass, asking, class, used>>

editClass ==
  /\ Spend("edits") /\ class' = [class EXCEPT !.active = ~@]
  /\ UNCHANGED <<poolStatus, bases, basePods, jobs, pass, asking, clock, used>>

NotAsking == [pc |-> "idle", image |-> None, now |-> 0, live |-> None, base |-> None]

(* The operator stops between any two steps; it may come back with another
   launcher image. *)
restart ==
  /\ \/ PoolFault /\ UNCHANGED class
     \/ Spend("upgrades") /\ class' = [class EXCEPT !.launcher = @ + 1]
  /\ PassEnds /\ asking' = NotAsking
  /\ UNCHANGED <<poolStatus, bases, basePods, jobs, clock, used>>

wpInit ==
  /\ poolStatus = [images |-> NoImages, version |-> 0]
  /\ bases = [n \in BaseNames |-> None] /\ basePods = [n \in BaseNames |-> None]
  /\ jobs = [i \in Images |-> "none"]
  /\ pass = NoPass /\ asking = NotAsking
  /\ class \in {[active |-> TRUE, launcher |-> 0, pool |-> p] : p \in Pools}
  /\ budget = class.pool.budget
  /\ clock = 0 /\ used = NoImages

Reconcile ==
  \/ readPool \/ deleteAll \/ checkImages \/ pruneBases
  \/ \E n \in BaseNames : stepBasePod(n)
  \/ createBase \/ writeBase \/ recordBase \/ deleteBasePod
  \/ startBase \/ readStatus \/ patchStatus

StartSandbox ==
  \/ \E i \in class.pool.asked : markPoolUsed(i)
  \/ readClass \/ patchStamp \/ selectBase

Cluster ==
  \/ \E n \in BaseNames : schedule(n) \/ boots(n) \/ finalizeBase(n) \/ baseOverdue(n)
  \/ \E i \in Images : jobEnds(i)

wpNext == Reconcile \/ StartSandbox \/ Cluster \/ tick \/ editClass \/ restart

(* Every pass is followed by the next one (RequeueAfter, and a watch of the
   base Pods); scheduler, kubelet, Jobs and the Snapshot reconciler do their
   work in the end. *)
wpFairness ==
  /\ WF_wpVars(Reconcile) /\ WF_wpVars(readClass \/ patchStamp \/ selectBase)
  /\ \A n \in BaseNames : WF_wpVars(schedule(n) \/ boots(n)) /\ WF_wpVars(finalizeBase(n))
                          /\ WF_wpVars(baseOverdue(n))
  /\ \A i \in Images : WF_wpVars(jobEnds(i))

wpSpec == wpInit /\ [][wpNext]_wpVars /\ wpFairness

(***************************************************************************)
(* Properties.                                                             *)
(***************************************************************************)

(* A stamp that a Sandbox start wrote to the class is not lost to a pass of
   the reconciler that read the class before it (patchStatus,
   mergePoolImages: "a Sandbox that asked for it since the read is not
   lost"): until the image is idle, evicted by a newer one, or the pool is
   cleared, the status holds the image with a stamp at least as late. *)
StampKept ==
  \A i \in Images :
    used[i] # None /\ ~idle(used[i]) =>
      poolStatus.images[i] # None /\ poolStatus.images[i] >= used[i]

(* A Sandbox never loads a base that another launcher image booted, or whose
   machine the secret scan did not pass (BaseKey: "a stale base is never
   loaded"; ErrBaseNotClean), whatever was edited, restarted or half written
   since that base was taken. *)
LoadedIsSound ==
  asking.base # None =>
    /\ asking.base.launcher = class.launcher
    /\ asking.base.key[1] = asking.image
    /\ asking.image \notin class.pool.dirty

Filled(i) ==
  Cardinality({n \in Present(bases) :
                 /\ bases[n].phase = "Ready" /\ bases[n].clean
                 /\ ~bases[n].deleting
                 /\ bases[n].key = BaseKey(i)}) >= PreWarmPoolSize

PoolReady ==
  \A i \in Images \ class.pool.dirty :
    IF class.active
      THEN poolImages(poolStatus.images)[i] # None /\ jobs[i] = "passed" => Filled(i)
      ELSE \A n \in BaseNames : bases[n] = None /\ basePods[n] = None

(* However a pass was cut short, a base Pod ended or a base was left half
   written, an active class holds preWarmPoolSize loadable bases of every
   verified pool image that scans clean again and again, and an inactive
   class ends with none (Reconcile, pruneBases, stepBasePod, startBase). *)
PoolFills == []<>PoolReady
=============================================================================
