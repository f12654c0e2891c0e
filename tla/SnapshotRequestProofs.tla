------------------------ MODULE SnapshotRequestProofs ------------------------
(* What a snapshot request promises, for any number of names, callers,        *)
(* requests, deletions and faults.                                            *)
EXTENDS SnapshotRequest, TLAPS

SnapFields == {"uid", "phase", "ref", "parent", "kept", "pinned", "fin", "deleting", "held"}
StateFields == {"uid", "inside"}
TaskFields == {"pc", "name", "gen", "inside"}
ForkFields == {"ref", "restored", "shown"}
CallFields == {"pc", "name"}
SandboxFields == {"phase", "want", "req", "gen"}
RequestFields == {"name", "after", "parent", "kept"}
RecFields == {"pc", "sb", "try"}
FinFields == {"pc", "name", "snap", "count"}

(* None is no Snapshot and no state in the store. *)
NoneIsNone == DOMAIN None # SnapFields /\ DOMAIN None # StateFields

(* What the reconcile of the Sandbox knows at each of its steps. *)
Named == {"mark", "parent", "create", "creating", "dial", "abandon", "rpc", "generation",
          "ref", "ready", "after", "fail"}
Owning == Named \ {"mark", "parent", "create"}
Unsent == {"creating", "dial"}
Sent == {"rpc", "generation", "ref", "ready", "after"}
Answered == Sent \ {"rpc"}
Current == {"parent", "create", "creating", "dial", "rpc", "generation"}
Finishing == {"terminating", "erase", "erased"}
Raised == {"resume", "save", "ok", "err"}
Frozen == {"raise", "resume", "save", "ok"}

IsSandbox(s) ==
  /\ DOMAIN s = SandboxFields /\ s.gen \in Nat
  /\ DOMAIN s.req = RequestFields /\ s.req.name \in Names \cup {None}

SnapsShaped ==
  DOMAIN snaps = Names /\ \A n \in Names : Exists(n) => DOMAIN snaps[n] = SnapFields

ForksShaped ==
  DOMAIN forks = Callers /\ \A c \in Callers : forks[c] # None => DOMAIN forks[c] = ForkFields

Waiting == {"wait", "pin", "fork"}
CallShaped(c) == DOMAIN call[c] = CallFields /\ (call[c].pc \in Waiting => call[c].name \in Names)
CallsShaped == DOMAIN call = Callers /\ \A c \in Callers : CallShaped(c)

TaskShaped(i) == DOMAIN na[i] = TaskFields /\ na[i].gen \in Nat /\ na[i].inside \in Nat
TasksShaped == DOMAIN na = Attempts /\ \A i \in Attempts : TaskShaped(i)

RecShaped == DOMAIN rec = RecFields /\ (rec.pc \in Named => IsSandbox(rec.sb) /\ name \in Names)
FinShaped == DOMAIN fin = FinFields /\ (fin.pc # "idle" => fin.name \in Names)

(* A request can be replaced and never goes away. *)
Asked == cache.req.name # None \/ rec.pc \in Named => sb.req.name # None

Shapes ==
  /\ IsSandbox(sb) /\ IsSandbox(cache) /\ Asked
  /\ DOMAIN vm = {"running", "gen"} /\ vm.gen \in Nat
  /\ tries \in Nat /\ tries <= MaxAttempts
  /\ DOMAIN stored = Names
  /\ SnapsShaped /\ ForksShaped /\ CallsShaped /\ TasksShaped /\ RecShaped /\ FinShaped

Users(n) == Loading(n) \cup Diffs(n)

(* The caller c can start no Sandbox any more that the operator has not seen. *)
Settled(c) == call[c].pc = "done" /\ (forks[c] = None \/ forks[c].shown)

HasState(n, i) == stored[n] # None /\ stored[n].uid = i

(* A Snapshot object and its attempt: Ready or a storage reference come after *)
(* the attempt stored the state, which stays until the object is deleted and  *)
(* nobody it was held for is left.                                            *)
GoodSnap(n) ==
  LET s == snaps[n] IN
  /\ s.uid \in 1 .. tries
  /\ s.deleting => s.fin
  /\ s.deleting => s.held \subseteq Callers \cup 1 .. tries
  /\ s.deleting => \A c \in Callers : c \in s.held => Settled(c)
  /\ na[s.uid].pc # "idle" => na[s.uid].name = n
  /\ s.phase = "Ready" \/ s.ref => na[s.uid].pc = "ok"
  /\ na[s.uid].pc = "ok" =>
       \/ HasState(n, s.uid)
       \/ s.deleting /\ s.ref /\ s.held \cap Users(n) = {}

GoodSnaps == \A n \in Names : Exists(n) => GoodSnap(n)

ForksDone == \A c \in Callers : forks[c] # None => call[c].pc = "done"

Tasks == \A i \in Attempts : i > tries => na[i].pc = "idle"

GoodRec ==
  /\ rec.pc \in Owning => /\ rec.try = tries /\ tries \in Attempts
                          /\ \A n \in Names : Exists(n) => (n = name <=> snaps[n].uid = rec.try)
  /\ rec.pc \in Unsent => na[rec.try].pc = "idle"
  /\ rec.pc \in Sent => na[rec.try].pc # "idle" /\ na[rec.try].name = name
  /\ rec.pc \in Answered => na[rec.try].pc = "ok"

GoodFin ==
  fin.pc \in Finishing =>
    /\ fin.name \in Names /\ Exists(fin.name) /\ snaps[fin.name].deleting
    /\ fin.snap.ref => snaps[fin.name].ref
    /\ fin.pc = "terminating" => fin.count \in Nat
    /\ fin.pc # "terminating" \/ fin.count = 0 => snaps[fin.name].held \cap Users(fin.name) = {}

StoreInv == Shapes /\ GoodSnaps /\ ForksDone /\ Tasks /\ GoodRec /\ GoodFin

(* The generations that attempts carry never fall, *)
Earlier(j, i) == na[j].pc # "idle" /\ na[i].pc # "idle" => na[j].gen <= na[i].gen
Gens ==
  /\ \A i \in Attempts : na[i].pc # "idle" => na[i].gen > 0 /\ na[i].gen <= sb.gen + 1
  /\ \A i \in Attempts, j \in Attempts : j < i => Earlier(j, i)
  /\ vm.gen > 0 => \E k \in 1 .. tries : na[k].pc \in Raised /\ na[k].gen = vm.gen

(* and the tokens in the memory of an attempt are of an earlier generation.   *)
Retired(i) ==
  \/ na[i].inside < na[i].gen
  \/ \E j \in 1 .. i - 1 : na[j].pc # "idle" /\ na[j].gen = na[i].gen

(* The reconcile adds one to the generation that the Sandbox has, *)
CopyCurrent == rec.pc \in Current => rec.sb.gen = sb.gen

(* and records it before it marks the Snapshot Ready.                         *)
Recording == {"rpc", "generation", "ref", "ready"}
OwnTokens ==
  /\ rec.pc \in Recording /\ na[rec.try].pc \in Frozen => Retired(rec.try)
  /\ rec.pc \in {"ref", "ready"} => na[rec.try].gen <= sb.gen

StoredTokens ==
  \A n \in Names : stored[n] # None =>
    /\ stored[n].uid \in 1 .. tries /\ na[stored[n].uid].pc = "ok"
    /\ stored[n].inside = na[stored[n].uid].inside

ReadyTokens ==
  \A n \in Names : InPhase(n, {"Ready"}) =>
    Retired(snaps[n].uid) /\ na[snaps[n].uid].gen <= sb.gen

TokenInv == Gens /\ CopyCurrent /\ OwnTokens /\ StoredTokens /\ ReadyTokens

(* The steps that change the Snapshots. *)
SnapsStep ==
  \/ \E c \in Callers : setPinned(c)
  \/ \E n \in Names : UserDeletesSnapshot(n) \/ Reconcile(n)
  \/ expire \/ finalizeSnapshot \/ removeFinalizer
  \/ createCR \/ markCreating \/ abandonSnapshot \/ recordStorageRef \/ markReady \/ failSnapshot

(* Every other step leaves the Snapshot objects alone. *)
LEMMA OnlySnapsSteps ==
  ASSUME [Next]_vars
  PROVE  UNCHANGED snaps \/ SnapsStep
  BY Zenon DEF Next, vars, SnapsStep, world, objects, bounds, operator, agent,
    UserRequest, UserSetsDesiredState, UserDeletesSandbox, snapshotAndWait, waited, Fork,
    launchFromSnapshot, ShowFork, restoreLauncher, CreateSnapshot, pause, take, raiseGeneration,
    resume, save, reconcileSandbox, reconcileSnapshot, DeleteSnapshot, SyncCache, Crash, lifecycle,
    setMachine, recordMachine, markSnapshotting, checkRequest, dial, answer,
    recordIdentityGeneration, rollBack, applyAfterCreate

(* What a step can do to a Snapshot object: keep it, *)
Stays(n) ==
  /\ Exists(n) /\ snaps'[n] # None /\ DOMAIN snaps'[n] = SnapFields
  /\ snaps'[n].uid = snaps[n].uid /\ snaps'[n].parent = snaps[n].parent
  /\ snaps[n].fin => snaps'[n].fin
  /\ snaps[n].ref => snaps'[n].ref
  /\ snaps[n].deleting => snaps'[n].deleting /\ snaps'[n].held = snaps[n].held
  /\ snaps'[n].deleting /\ ~snaps[n].deleting => snaps[n].fin /\ snaps'[n].held = Users(n)
  /\ snaps'[n].ref /\ ~snaps[n].ref => rec.pc = "ref" /\ n = name
  /\ snaps'[n].phase = "Ready" /\ snaps[n].phase # "Ready" => rec.pc = "ready" /\ n = name

(* remove it, *)
Leaves(n) ==
  /\ Exists(n) /\ snaps'[n] = None
  /\ ~snaps[n].fin \/ (fin.pc = "erased" /\ n = fin.name /\ fin' = FinIdle)

(* or create it. *)
Comes(n) ==
  /\ rec.pc = "create" /\ n = name /\ n \in Names /\ ~Exists(n)
  /\ tries' = tries + 1 /\ tries + 1 \in Attempts
  /\ snaps' = [snaps EXCEPT ![n] = newSnapshotCR(rec.sb.req, tries + 1)]
  /\ rec' = [rec EXCEPT !.pc = "creating", !.try = tries + 1]
  /\ UNCHANGED <<stored, vm, sb, na, cache, call, fin, forks>>

SnapChange(n) ==
  \/ ~Exists(n) /\ snaps'[n] = None
  \/ Stays(n) \/ Leaves(n)
  \/ Comes(n) /\ DOMAIN snaps'[n] = SnapFields

(* An edit of one object leaves the others. *)
LEMMA SameSnap ==
  ASSUME NEW n \in Names, Exists(n) => DOMAIN snaps[n] = SnapFields, snaps'[n] = snaps[n]
  PROVE  SnapChange(n)
  BY Zenon DEF SnapChange, Stays, Exists

(* Delete: at once without the finalizer, else the mark. *)
LEMMA DeletedChange ==
  ASSUME NoneIsNone, Shapes, NEW m \in Names, snaps' = Deleted(m)
  PROVE  DOMAIN snaps' = Names /\ \A n \in Names : SnapChange(n)
  <1>1. DOMAIN snaps = Names /\ \A n \in Names : Exists(n) => DOMAIN snaps[n] = SnapFields
    BY Zenon DEF Shapes, SnapsShaped
  <1>2. DOMAIN snaps' = Names
    BY <1>1, Zenon DEF Deleted
  <1>3. ASSUME NEW n \in Names, n # m PROVE SnapChange(n)
    <2>1. snaps'[n] = snaps[n]
      BY <1>1, <1>3, Zenon DEF Deleted
    <2> QED BY <1>1, <2>1, SameSnap, Zenon
  <1>4. SnapChange(m)
    <2>1. CASE ~Exists(m) \/ ~snaps[m].fin
      BY <1>1, <2>1, Zenon DEF Deleted, SnapChange, Leaves, Exists
    <2>2. CASE Exists(m) /\ snaps[m].fin /\ snaps[m].deleting
      <3>1. snaps' = snaps
        BY <2>2, Zenon DEF Deleted
      <3> QED BY <1>1, <3>1, SameSnap, Zenon
    <2>3. CASE Exists(m) /\ snaps[m].fin /\ ~snaps[m].deleting
      <3>1. snaps'[m] = [[snaps[m] EXCEPT !.deleting = TRUE] EXCEPT !.held = Users(m)]
        BY <1>1, <2>3, Zenon DEF Deleted, Users
      <3>2. DOMAIN snaps[m] = SnapFields
        BY <1>1, <2>3, Zenon
      <3>3. /\ DOMAIN snaps'[m] = SnapFields /\ snaps'[m].deleting = TRUE /\ snaps'[m].held = Users(m)
            /\ \A f \in SnapFields \ {"deleting", "held"} : snaps'[m][f] = snaps[m][f]
        BY <3>1, <3>2, Zenon DEF SnapFields
      <3>4. /\ snaps'[m].uid = snaps[m].uid /\ snaps'[m].parent = snaps[m].parent
            /\ snaps'[m].phase = snaps[m].phase /\ snaps'[m].ref = snaps[m].ref
            /\ snaps'[m].fin = snaps[m].fin
        BY <3>3, Zenon DEF SnapFields
      <3>5. snaps'[m] # None
        BY <3>3, Zenon DEF NoneIsNone
      <3> QED BY <2>3, <3>3, <3>4, <3>5, Zenon DEF SnapChange, Stays
    <2> QED BY <2>1, <2>2, <2>3, Zenon
  <1> QED BY <1>2, <1>3, <1>4, Zenon

(* An edit of one field other than deleting and held. *)
LEMMA EditChange ==
  ASSUME NoneIsNone, Shapes, NEW m \in Names, Exists(m),
         NEW f \in {"pinned", "fin", "ref", "phase"}, NEW v,
         snaps' = [snaps EXCEPT ![m] = [snaps[m] EXCEPT ![f] = v]],
         f = "fin" => v = TRUE,
         f = "ref" => v = TRUE /\ rec.pc = "ref" /\ m = name,
         f = "phase" => v # "Ready" \/ (rec.pc = "ready" /\ m = name)
  PROVE  DOMAIN snaps' = Names /\ \A n \in Names : SnapChange(n)
  <1> DEFINE r == [snaps[m] EXCEPT ![f] = v]
  <1>1. DOMAIN snaps = Names /\ \A n \in Names : Exists(n) => DOMAIN snaps[n] = SnapFields
    BY Zenon DEF Shapes, SnapsShaped
  <1>2. DOMAIN snaps' = Names
    BY <1>1, Zenon
  <1>3. ASSUME NEW n \in Names, n # m PROVE SnapChange(n)
    <2>1. snaps'[n] = snaps[n]
      BY <1>1, <1>3, Zenon
    <2> QED BY <1>1, <2>1, SameSnap, Zenon
  <1>4. SnapChange(m)
    <2>1. DOMAIN r = SnapFields /\ f \in SnapFields /\ r[f] = v
      BY <1>1, Zenon DEF SnapFields
    <2>2. \A g \in SnapFields : g # f => r[g] = snaps[m][g]
      BY <1>1, Zenon
    <2>3. snaps'[m] = r
      BY <1>1, Zenon
    <2> HIDE DEF r
    <2>4. r # None
      BY <2>1, Zenon DEF NoneIsNone
    <2>5. r.uid = snaps[m].uid /\ r.parent = snaps[m].parent /\ r.deleting = snaps[m].deleting
          /\ r.held = snaps[m].held
      BY <2>2, Zenon DEF SnapFields
    <2>6. r.fin = snaps[m].fin \/ r.fin = TRUE
      BY <2>1, <2>2, Zenon DEF SnapFields
    <2>7. r.ref = snaps[m].ref \/ (rec.pc = "ref" /\ m = name)
      BY <2>1, <2>2, Zenon DEF SnapFields
    <2>8. snaps[m].ref => r.ref
      BY <2>1, <2>2, Zenon DEF SnapFields
    <2>9. r.phase = snaps[m].phase \/ r.phase # "Ready" \/ (rec.pc = "ready" /\ m = name)
      BY <2>1, <2>2, Zenon DEF SnapFields
    <2>10. Stays(m)
      BY <1>1, <2>1, <2>3, <2>4, <2>5, <2>6, <2>7, <2>8, <2>9, Zenon DEF Stays
    <2> QED BY <2>10, Zenon DEF SnapChange
  <1> QED BY <1>2, <1>3, <1>4, Zenon

(* Every step keeps, removes or creates each Snapshot. *)
LEMMA SnapChanges ==
  ASSUME NoneIsNone, StoreInv, [Next]_vars
  PROVE  DOMAIN snaps' = Names /\ \A n \in Names : SnapChange(n)
  <1> DEFINE Goal == DOMAIN snaps' = Names /\ \A n \in Names : SnapChange(n)
  <1>0. Shapes /\ GoodFin
    BY Zenon DEF StoreInv
  <1>1. DOMAIN snaps = Names /\ \A n \in Names : Exists(n) => DOMAIN snaps[n] = SnapFields
    BY <1>0, Zenon DEF Shapes, SnapsShaped
  <1>2. CASE UNCHANGED snaps
    BY <1>1, <1>2, SameSnap, Zenon
  <1> HIDE DEF Goal
  <1>3. ASSUME NEW c \in Callers, setPinned(c) PROVE Goal
    <2>0. call[c].pc = "pin" => call[c].name \in Names
      BY <1>0, Zenon DEF Shapes, CallsShaped, CallShaped, Waiting
    <2>1. call[c].name \in Names
      BY <1>3, <2>0, Zenon DEF setPinned
    <2>2. CASE ~Exists(call[c].name)
      BY <1>2, <1>3, <2>2, Zenon DEF setPinned, Goal
    <2>3. CASE Exists(call[c].name)
      <3>1. snaps' = [snaps EXCEPT ![call[c].name] = [snaps[call[c].name] EXCEPT !["pinned"] = TRUE]]
        BY <1>3, <2>3, Zenon DEF setPinned
      <3> QED BY <1>0, <2>1, <2>3, <3>1, EditChange, Zenon DEF Goal
    <2> QED BY <2>2, <2>3, Zenon
  <1>4. ASSUME NEW n \in Names, UserDeletesSnapshot(n) PROVE Goal
    BY <1>0, <1>4, DeletedChange, Zenon DEF UserDeletesSnapshot, Goal
  <1>5. ASSUME NEW n \in Names, Reconcile(n) PROVE Goal
    <2>1. Exists(n)
      BY <1>5, Zenon DEF Reconcile
    <2>2. snaps' = snaps \/ snaps' = [snaps EXCEPT ![n] = [snaps[n] EXCEPT !["fin"] = TRUE]]
      BY <1>5, Zenon DEF Reconcile
    <2>3. CASE snaps' = [snaps EXCEPT ![n] = [snaps[n] EXCEPT !["fin"] = TRUE]]
      BY <1>0, <2>1, <2>3, EditChange, Zenon DEF Goal
    <2> QED BY <1>2, <2>2, <2>3, Zenon DEF Goal
  <1>6. ASSUME expire PROVE Goal
    <2>0. fin.name \in Names
      BY <1>0, <1>6, Zenon DEF expire, Shapes, FinShaped
    <2>1. CASE ~Exists(fin.name) \/ ~(left["delete"] > 0)
      BY <1>2, <1>6, <2>1, Zenon DEF expire, Goal
    <2>2. CASE Exists(fin.name) /\ left["delete"] > 0
      BY <1>0, <1>6, <2>0, <2>2, DeletedChange, Zenon DEF expire, Goal
    <2> QED BY <2>1, <2>2, Zenon
  <1>7. ASSUME finalizeSnapshot PROVE Goal
    <2>1. fin.name \in Names /\ Exists(fin.name)
      BY <1>0, <1>7, Zenon DEF GoodFin, Finishing, finalizeSnapshot
    <2>2. snaps' = snaps
          \/ snaps' = [snaps EXCEPT ![fin.name] = [snaps[fin.name] EXCEPT !["phase"] = "Terminating"]]
      BY <1>7, Zenon DEF finalizeSnapshot
    <2>3. CASE snaps' = [snaps EXCEPT ![fin.name] = [snaps[fin.name] EXCEPT !["phase"] = "Terminating"]]
      BY <1>0, <2>1, <2>3, EditChange, Zenon DEF Goal
    <2> QED BY <1>2, <2>2, <2>3, Zenon DEF Goal
  <1>8. ASSUME removeFinalizer PROVE Goal
    <2>1. fin.name \in Names /\ Exists(fin.name)
      BY <1>0, <1>8, Zenon DEF GoodFin, Finishing, removeFinalizer
    <2>2. /\ DOMAIN snaps' = Names /\ \A n \in Names : n # fin.name => snaps'[n] = snaps[n]
          /\ snaps'[fin.name] = snaps[fin.name] \/ snaps'[fin.name] = None
      BY <1>1, <1>8, <2>1, Zenon DEF removeFinalizer
    <2>3. ASSUME snaps'[fin.name] = None PROVE SnapChange(fin.name)
      BY <1>8, <2>1, <2>3, Zenon DEF SnapChange, Leaves, removeFinalizer
    <2> QED BY <1>1, <2>2, <2>3, SameSnap, Zenon DEF Goal
  <1>9. ASSUME createCR PROVE Goal
    <2>1. CASE UNCHANGED snaps
      BY <1>2, <2>1, Zenon DEF Goal
    <2>2. CASE snaps' # snaps
      <3>1. Comes(name)
        BY <1>0, <1>9, <2>2, Zenon
        DEF createCR, Comes, Shapes, RecShaped, Named, name, world, operator
      <3>2. DOMAIN newSnapshotCR(rec.sb.req, tries + 1) = SnapFields
        BY Zenon DEF newSnapshotCR, SnapFields
      <3>3. name \in Names /\ snaps' = [snaps EXCEPT ![name] = newSnapshotCR(rec.sb.req, tries + 1)]
        BY <3>1, Zenon DEF Comes
      <3> HIDE DEF newSnapshotCR
      <3>4. DOMAIN snaps' = Names /\ DOMAIN snaps'[name] = SnapFields
            /\ \A n \in Names : n # name => snaps'[n] = snaps[n]
        BY <1>1, <3>2, <3>3, Zenon
      <3> QED BY <1>1, <3>1, <3>4, SameSnap, Zenon DEF Goal, SnapChange
    <2> QED BY <2>1, <2>2, Zenon
  <1>10. ASSUME NEW p, p # "Ready" \/ rec.pc = "ready", markPhase(p), rec.pc \in Named PROVE Goal
    <2>1. name \in Names /\ Exists(name)
      BY <1>0, <1>10, Zenon DEF Shapes, RecShaped, markPhase
    <2>2. snaps' = [snaps EXCEPT ![name] = [snaps[name] EXCEPT !["phase"] = p]]
      BY <1>10, Zenon DEF markPhase
    <2> QED BY <1>0, <1>10, <2>1, <2>2, EditChange, Zenon DEF Goal
  <1>11. ASSUME markCreating \/ markReady \/ failSnapshot PROVE Goal
    <2>1. UNCHANGED snaps \/ \E p : (p # "Ready" \/ rec.pc = "ready") /\ markPhase(p) /\ rec.pc \in Named
      BY <1>11, Zenon DEF markCreating, markReady, failSnapshot, Named
    <2> QED BY <1>2, <1>10, <2>1, Zenon DEF Goal
  <1>12. ASSUME abandonSnapshot PROVE Goal
    <2>1. name \in Names
      BY <1>0, <1>12, Zenon DEF Shapes, RecShaped, abandonSnapshot, Named
    <2>2. UNCHANGED snaps \/ snaps' = Deleted(name)
      BY <1>12, Zenon DEF abandonSnapshot
    <2> QED BY <1>0, <1>2, <2>1, <2>2, DeletedChange, Zenon DEF Goal
  <1>13. ASSUME recordStorageRef PROVE Goal
    <2>1. name \in Names /\ rec.pc = "ref"
      BY <1>0, <1>13, Zenon DEF Shapes, RecShaped, recordStorageRef, Named
    <2>2. \/ UNCHANGED snaps
          \/ Exists(name) /\ snaps' = [snaps EXCEPT ![name] = [snaps[name] EXCEPT !["ref"] = TRUE]]
      BY <1>13, Zenon DEF recordStorageRef
    <2> QED BY <1>0, <1>2, <2>1, <2>2, EditChange, Zenon DEF Goal
  <1> QED
    BY <1>2, <1>3, <1>4, <1>5, <1>6, <1>7, <1>8, <1>9, <1>11, <1>12, <1>13, OnlySnapsSteps,
        Zenon
    DEF SnapsStep, Goal

(* An attempt is counted when its object is created. *)
LEMMA TriesGrow ==
  ASSUME StoreInv, [Next]_vars
  PROVE  tries' = tries \/ Comes(name)
  <1>1. tries' = tries \/ createCR
    BY Zenon
    DEF Next, vars, world, objects, bounds, operator, agent, Spend, Fault, Hurt, Request, Ask,
      NoSandbox, Taken, Missing, Cut,
      UserRequest, UserSetsDesiredState, UserDeletesSandbox, snapshotAndWait, waited, setPinned, Fork,
      launchFromSnapshot, ShowFork, restoreLauncher, CreateSnapshot, pause, take, raiseGeneration,
      resume, save, UserDeletesSnapshot, Reconcile, reconcileSandbox, reconcileSnapshot, expire,
      finalizeSnapshot, removeFinalizer, DeleteSnapshot, SyncCache, Crash, lifecycle,
      setMachine, recordMachine, markSnapshotting, checkRequest, dial, abandonSnapshot, answer,
      markCreating, recordStorageRef, markReady, failSnapshot,
      recordIdentityGeneration, rollBack, applyAfterCreate
  <1>2. rec.pc \in Named => name \in Names
    BY Zenon DEF StoreInv, Shapes, RecShaped
  <1>3. createCR => tries' = tries \/ Comes(name)
    BY <1>2, Zenon
    DEF createCR, Comes, name, Named, world, operator, Fault, Hurt, Spend, Taken, bounds
  <1> QED BY <1>1, <1>3, Zenon

(* What a step can do to the task of an attempt in the node agent: it is      *)
(* sent once,                                                                 *)
Starts(i) ==
  /\ rec.pc = "dial" /\ i = rec.try /\ rec' = [rec EXCEPT !.pc = "rpc"]
  /\ na'[i] = [pc |-> "pause", name |-> name, gen |-> nextIdentityGeneration(rec.sb), inside |-> 0]
  /\ UNCHANGED <<stored, vm, sb, snaps, forks, call, fin, tries>>

(* or makes a step of its own.  An attempt that was stored does no more.      *)
Works(i) ==
  /\ na[i].pc \in {"pause", "take", "raise", "resume", "save"}
  /\ DOMAIN na'[i] = TaskFields /\ na'[i].name = na[i].name /\ na'[i].gen = na[i].gen
  /\ na'[i].pc \in {"take", "raise", "resume", "save", "ok", "err"}
  /\ \/ na'[i].inside = na[i].inside
     \/ na[i].pc = "take" /\ na'[i].pc = "raise" /\ na'[i].inside = vm.gen
  /\ na[i].pc = "take" /\ na'[i].pc \in Frozen => na'[i].inside = vm.gen
  /\ na'[i].pc \in Frozen => na[i].pc \in {"take"} \cup Frozen
  /\ na[i].pc \in Raised => na'[i].pc \in Raised
  /\ na'[i].pc = "ok" => /\ na[i].pc = "save" /\ stored[na[i].name] = None
                         /\ stored' = [stored EXCEPT ![na[i].name] = [uid |-> i, inside |-> na[i].inside]]
  /\ UNCHANGED <<sb, snaps, rec, fin, forks, call, tries>>

TaskChange(i) == na'[i] = na[i] \/ Starts(i) \/ Works(i)

(* Only the call and the node agent move a task. *)
LEMMA OnlyTaskSteps ==
  ASSUME [Next]_vars
  PROVE  UNCHANGED na \/ dial \/ \E i \in Attempts : CreateSnapshot(i)
  BY Zenon DEF Next, vars, world, objects, bounds, operator, agent,
      UserRequest, UserSetsDesiredState, UserDeletesSandbox, snapshotAndWait, waited, setPinned, Fork,
      launchFromSnapshot, ShowFork, restoreLauncher,
      UserDeletesSnapshot, Reconcile, reconcileSandbox, reconcileSnapshot, expire,
      finalizeSnapshot, removeFinalizer, DeleteSnapshot, SyncCache, Crash, lifecycle,
      setMachine, recordMachine, markSnapshotting, checkRequest, abandonSnapshot, answer, createCR,
      markCreating, recordStorageRef, markReady, failSnapshot,
      recordIdentityGeneration, rollBack, applyAfterCreate

(* Goto moves one task and leaves the rest of it. *)
LEMMA GotoTask ==
  ASSUME TasksShaped, NEW i \in Attempts, NEW p, Goto(i, p)
  PROVE  /\ DOMAIN na' = Attempts /\ \A j \in Attempts : j # i => na'[j] = na[j]
         /\ DOMAIN na'[i] = TaskFields /\ na'[i].pc = p
         /\ na'[i].name = na[i].name /\ na'[i].gen = na[i].gen /\ na'[i].inside = na[i].inside
  BY Zenon DEF TasksShaped, TaskShaped, Goto, TaskFields

(* Every step sends a task, moves it on, or leaves it. *)
LEMMA TaskChanges ==
  ASSUME StoreInv, [Next]_vars
  PROVE  DOMAIN na' = Attempts /\ \A i \in Attempts : TaskChange(i)
  <1>1. TasksShaped /\ DOMAIN na = Attempts
    BY Zenon DEF StoreInv, Shapes, TasksShaped
  <1>2. CASE UNCHANGED na
    BY <1>1, <1>2, Zenon DEF TaskChange
  <1> DEFINE Goal == DOMAIN na' = Attempts /\ \A i \in Attempts : TaskChange(i)
  <1> HIDE DEF Goal
  <1>3. ASSUME dial PROVE Goal
    <2>1. rec.try \in Attempts
      BY <1>3, Zenon DEF StoreInv, GoodRec, Owning, Named, dial
    <2>2. CASE UNCHANGED na
      BY <1>2, <2>2, Zenon DEF Goal
    <2>3. CASE na' # na
      <3>1. /\ na' = [na EXCEPT ![rec.try] = [pc |-> "pause", name |-> name, inside |-> 0,
                                              gen |-> nextIdentityGeneration(rec.sb)]]
            /\ rec.pc = "dial" /\ rec' = [rec EXCEPT !.pc = "rpc"]
            /\ UNCHANGED <<stored, vm, sb, snaps, forks, call, fin, tries>>
        BY <1>3, <2>3, Zenon DEF dial, To, world, operator, bounds
      <3> QED BY <1>1, <2>1, <3>1, Zenon DEF Goal, TaskChange, Starts
    <2> QED BY <2>2, <2>3, Zenon
  <1>4. ASSUME NEW i \in Attempts, CreateSnapshot(i) PROVE Goal
    <2>0. UNCHANGED <<sb, snaps, rec, fin, forks, call, tries>>
      BY <1>4, Zenon
      DEF CreateSnapshot, pause, take, raiseGeneration, resume, save, agent, objects,
         bounds, Cut, Fault, Hurt, Spend
    <2>1. ASSUME NEW p \in {"take", "raise", "resume", "save", "ok", "err"},
                 na[i].pc \in {"pause", "take", "raise", "resume", "save"}, Goto(i, p),
                 na[i].pc = "take" => p = "err",
                 p \in Frozen => na[i].pc \in Frozen, na[i].pc \in Raised => p \in Raised,
                 p = "ok" =>
                   /\ na[i].pc = "save" /\ stored[na[i].name] = None
                   /\ stored' = [stored EXCEPT ![na[i].name] = [uid |-> i, inside |-> na[i].inside]]
          PROVE  Goal
      <3>0. na[i].pc # "take" \/ p \notin Frozen
        BY <2>1, Zenon DEF Frozen
      <3>1. /\ DOMAIN na'[i] = TaskFields /\ na'[i].pc = p
            /\ na'[i].name = na[i].name /\ na'[i].gen = na[i].gen /\ na'[i].inside = na[i].inside
        BY <1>1, <2>1, GotoTask, Zenon
      <3>2. na'[i].pc \in {"take", "raise", "resume", "save", "ok", "err"}
        BY <2>1, <3>1, Zenon
      <3>3. Works(i)
        BY <2>0, <2>1, <3>0, <3>1, <3>2, Zenon DEF Works
      <3> QED BY <1>1, <2>1, <3>3, GotoTask, Zenon DEF Goal, TaskChange
    <2>2. ASSUME pause(i) PROVE Goal
      BY <2>1, <2>2, Zenon DEF pause, Frozen, Raised
    <2>3. ASSUME take(i) PROVE Goal
      <3>1. CASE Goto(i, "err")
        BY <2>1, <2>3, <3>1, Zenon DEF take, Frozen, Raised
      <3>2. CASE na' = [na EXCEPT ![i].pc = "raise", ![i].inside = vm.gen]
        <4>1. na' = [na EXCEPT ![i] = [[na[i] EXCEPT !.pc = "raise"] EXCEPT !.inside = vm.gen]]
          BY <1>1, <3>2, Zenon
        <4>2. DOMAIN na[i] = TaskFields
          BY <1>1, Zenon DEF TasksShaped, TaskShaped
        <4>3. /\ DOMAIN na' = Attempts /\ \A j \in Attempts : j # i => na'[j] = na[j]
              /\ na'[i] = [[na[i] EXCEPT !.pc = "raise"] EXCEPT !.inside = vm.gen]
          BY <1>1, <4>1, Zenon
        <4>4. /\ DOMAIN na'[i] = TaskFields /\ na'[i].pc = "raise" /\ na'[i].inside = vm.gen
              /\ na'[i].name = na[i].name /\ na'[i].gen = na[i].gen
          BY <4>2, <4>3, Zenon DEF TaskFields
        <4>5. na[i].pc = "take"
          BY <2>3, Zenon DEF take
        <4>6. Works(i)
          BY <2>0, <4>4, <4>5, Zenon DEF Works, Frozen, Raised
        <4> QED BY <4>3, <4>6, Zenon DEF Goal, TaskChange
      <3> QED BY <2>3, <3>1, <3>2, Zenon DEF take
    <2>4. ASSUME raiseGeneration(i) PROVE Goal
      BY <2>1, <2>4, Zenon DEF raiseGeneration, Frozen, Raised
    <2>5. ASSUME resume(i) PROVE Goal
      BY <2>1, <2>5, Zenon DEF resume, Frozen, Raised
    <2>6. ASSUME save(i) PROVE Goal
      BY <2>1, <2>6, Zenon DEF save, Frozen, Raised
    <2> QED BY <1>4, <2>2, <2>3, <2>4, <2>5, <2>6, Zenon DEF CreateSnapshot
  <1> QED BY <1>2, <1>3, <1>4, OnlyTaskSteps, Zenon DEF Goal

(* What a step can do to the state in the store: an attempt saves it, *)
Saves(n, i) ==
  /\ na[i].pc = "save" /\ na[i].name = n /\ stored[n] = None
  /\ stored'[n] = [uid |-> i, inside |-> na[i].inside]
  /\ na'[i].pc = "ok" /\ na'[i].inside = na[i].inside

(* or the Snapshot reconciler erases it. *)
Erases(n) ==
  /\ fin.pc = "erase" /\ n = fin.name /\ fin.snap.ref /\ stored'[n] = None
  /\ UNCHANGED <<snaps, na, forks, call, rec, sb, tries>>

StateChange(n) ==
  stored'[n] = stored[n] \/ (\E i \in Attempts : Saves(n, i)) \/ Erases(n)

(* Every step saves a state, erases one, or leaves the store. *)
LEMMA StateChanges ==
  ASSUME StoreInv, [Next]_vars
  PROVE  DOMAIN stored' = Names /\ \A n \in Names : StateChange(n)
  <1>1. DOMAIN stored = Names /\ TasksShaped
    BY Zenon DEF StoreInv, Shapes
  <1>2. UNCHANGED stored \/ DeleteSnapshot \/ \E i \in Attempts : save(i)
    BY Zenon DEF Next, vars, world, objects, bounds, operator, agent,
      UserRequest, UserSetsDesiredState, UserDeletesSandbox, snapshotAndWait, waited, setPinned, Fork,
      launchFromSnapshot, ShowFork, restoreLauncher, CreateSnapshot, pause, take, raiseGeneration,
      resume, UserDeletesSnapshot, Reconcile, reconcileSandbox, reconcileSnapshot, expire,
      finalizeSnapshot, removeFinalizer, SyncCache, Crash, lifecycle, dial,
      setMachine, recordMachine, markSnapshotting, checkRequest, abandonSnapshot, answer, createCR,
      markCreating, recordStorageRef, markReady, failSnapshot,
      recordIdentityGeneration, rollBack, applyAfterCreate
  <1> DEFINE Goal == DOMAIN stored' = Names /\ \A n \in Names : StateChange(n)
  <1>3. CASE UNCHANGED stored
    BY <1>1, <1>3, Zenon DEF StateChange
  <1> HIDE DEF Goal
  <1>4. ASSUME DeleteSnapshot PROVE Goal
    <2>1. /\ fin.pc = "erase" /\ UNCHANGED <<snaps, na, forks, call, rec, sb, tries>>
          /\ stored' = stored \/ (fin.snap.ref /\ stored' = [stored EXCEPT ![fin.name] = None])
      BY <1>4, Zenon DEF DeleteSnapshot, objects, bounds, Fault, Spend
    <2>2. CASE stored' = stored
      BY <1>3, <2>2, Zenon DEF Goal
    <2>3. CASE fin.snap.ref /\ stored' = [stored EXCEPT ![fin.name] = None]
      <3>1. DOMAIN stored' = Names /\ \A n \in Names : stored'[n] = stored[n] \/ (n = fin.name /\ stored'[n] = None)
        BY <1>1, <2>3, Zenon
      <3> QED BY <2>1, <2>3, <3>1, Zenon DEF Goal, StateChange, Erases
    <2> QED BY <2>1, <2>2, <2>3, Zenon
  <1>5. ASSUME NEW i \in Attempts, save(i) PROVE Goal
    <2>1. CASE stored' = stored
      BY <1>3, <2>1, Zenon DEF Goal
    <2>2. CASE stored' # stored
      <3> DEFINE m == na[i].name
      <3>1. /\ na[i].pc = "save" /\ stored[m] = None /\ Goto(i, "ok")
            /\ stored' = [stored EXCEPT ![m] = [uid |-> i, inside |-> na[i].inside]]
        BY <1>5, <2>2, Zenon DEF save
      <3>2. na'[i].pc = "ok" /\ na'[i].inside = na[i].inside
        BY <1>1, <3>1, GotoTask, Zenon
      <3>3. DOMAIN stored' = Names /\ (m \in Names => stored'[m] = [uid |-> i, inside |-> na[i].inside])
            /\ \A n \in Names : n # m => stored'[n] = stored[n]
        BY <1>1, <3>1, Zenon
      <3> QED BY <3>1, <3>2, <3>3, Zenon DEF Goal, StateChange, Saves
    <2> QED BY <2>1, <2>2, Zenon
  <1> QED BY <1>2, <1>3, <1>4, <1>5, Zenon DEF Goal

(* A call that is done stays so, a Sandbox that the operator has seen stays   *)
(* seen, and one that loaded its snapshot never loads it again.               *)
CallerChange(c) ==
  /\ call'[c] = call[c] \/ CallShaped(c)'
  /\ call[c].pc = "done" => call'[c].pc = "done"
  /\ forks'[c] # None => DOMAIN forks'[c] = ForkFields
  /\ forks'[c] # None => forks[c] # None \/ call'[c].pc = "done"
  /\ Settled(c) => /\ forks'[c] = None \/ forks'[c].shown
                   /\ \A n : c \in Loading(n)' => c \in Loading(n)

(* A caller whose Sandbox a step leaves alone. *)
LEMMA SameCaller ==
  ASSUME Shapes, NEW c \in Callers, forks'[c] = forks[c],
         call'[c] = call[c] \/ CallShaped(c)', call[c].pc = "done" => call'[c].pc = "done"
  PROVE  CallerChange(c)
  <1>1. forks[c] # None => DOMAIN forks[c] = ForkFields
    BY Zenon DEF Shapes, ForksShaped
  <1>2. ASSUME NEW n, c \in Loading(n)' PROVE c \in Loading(n)
    BY <1>2, Zenon DEF Loading
  <1> QED BY <1>1, <1>2, Zenon DEF CallerChange, Settled

(* A call that moves on keeps its name. *)
LEMMA PcCall ==
  ASSUME Shapes, NEW c \in Callers, NEW p, call' = [call EXCEPT ![c].pc = p],
         p \in Waiting => call[c].pc \in Waiting
  PROVE  /\ DOMAIN call' = Callers /\ \A b \in Callers : b # c => call'[b] = call[b]
         /\ CallShaped(c)' /\ call'[c].pc = p
  <1>1. DOMAIN call = Callers /\ CallShaped(c)
    BY Zenon DEF Shapes, CallsShaped
  <1>2. /\ DOMAIN call' = Callers /\ \A b \in Callers : b # c => call'[b] = call[b]
        /\ call'[c] = [call[c] EXCEPT !.pc = p]
    BY <1>1, Zenon
  <1>3. DOMAIN call'[c] = CallFields /\ call'[c].pc = p /\ call'[c].name = call[c].name
    BY <1>1, <1>2, Zenon DEF CallShaped, CallFields
  <1> QED BY <1>1, <1>2, <1>3, Zenon DEF CallShaped

(* Every step of a caller goes one way. *)
LEMMA CallerChanges ==
  ASSUME StoreInv, [Next]_vars
  PROVE  DOMAIN call' = Callers /\ DOMAIN forks' = Callers /\ \A c \in Callers : CallerChange(c)
  <1> DEFINE Goal == DOMAIN call' = Callers /\ DOMAIN forks' = Callers /\ \A c \in Callers : CallerChange(c)
             CallerStep(c) == \/ snapshotAndWait(c) \/ waited(c) \/ setPinned(c) \/ Fork(c)
                              \/ launchFromSnapshot(c) \/ ShowFork(c) \/ restoreLauncher(c)
  <1>1. Shapes /\ DOMAIN call = Callers /\ DOMAIN forks = Callers
    BY Zenon DEF StoreInv, Shapes, ForksShaped, CallsShaped
  <1>2. UNCHANGED <<call, forks>> \/ \E c \in Callers : CallerStep(c)
    BY Zenon DEF Next, vars, world, objects, bounds, operator, agent,
      UserRequest, UserSetsDesiredState, UserDeletesSandbox,
      CreateSnapshot, pause, take, raiseGeneration, save,
      resume, UserDeletesSnapshot, Reconcile, reconcileSandbox, reconcileSnapshot, expire,
      finalizeSnapshot, DeleteSnapshot, removeFinalizer, SyncCache, Crash, lifecycle, dial,
      setMachine, recordMachine, markSnapshotting, checkRequest, abandonSnapshot, answer, createCR,
      markCreating, recordStorageRef, markReady, failSnapshot,
      recordIdentityGeneration, rollBack, applyAfterCreate
  <1>3. CASE UNCHANGED <<call, forks>>
    BY <1>1, <1>3, SameCaller, Zenon
  <1> HIDE DEF Goal
  <1>4. ASSUME NEW c \in Callers, NEW p, call' = [call EXCEPT ![c].pc = p], UNCHANGED forks,
               p \in Waiting => call[c].pc \in Waiting, call[c].pc # "done"
        PROVE  Goal
    <2>1. /\ DOMAIN call' = Callers /\ \A b \in Callers : b # c => call'[b] = call[b]
          /\ CallShaped(c)'
      BY <1>1, <1>4, PcCall, Zenon
    <2>2. \A b \in Callers : CallerChange(b)
      BY <1>1, <1>4, <2>1, SameCaller, Zenon
    <2> QED BY <1>1, <1>4, <2>1, <2>2, Zenon DEF Goal
  <1>5. ASSUME NEW c \in Callers, snapshotAndWait(c) PROVE Goal
    <2>1. PICK n \in CallNames : call' = [call EXCEPT ![c] = [pc |-> "wait", name |-> n]]
      BY <1>5, Zenon DEF snapshotAndWait
    <2>2. n \in Names /\ call[c].pc # "done" /\ forks' = forks
      BY <1>5, RequestConstants, Zenon DEF snapshotAndWait
    <2>3. /\ DOMAIN call' = Callers /\ \A b \in Callers : b # c => call'[b] = call[b]
          /\ call'[c] = [pc |-> "wait", name |-> n]
      BY <1>1, <2>1, Zenon
    <2>4. CallShaped(c)'
      <3>1. DOMAIN call'[c] = CallFields
        BY <2>3, Zenon DEF CallFields
      <3>2. call'[c].name = n
        BY <2>3, SMT
      <3> QED BY <2>2, <3>1, <3>2, Zenon DEF CallShaped
    <2>5. \A b \in Callers : CallerChange(b)
      BY <1>1, <2>2, <2>3, <2>4, SameCaller, Zenon
    <2> QED BY <1>1, <2>2, <2>3, <2>5, Zenon DEF Goal
  <1>6. ASSUME NEW c \in Callers, waited(c) PROVE Goal
    <2>1. \E p : call' = [call EXCEPT ![c].pc = p] /\ p \in {"pin", "fork", "done"}
      BY <1>6, Zenon DEF waited, Return
    <2>2. call[c].pc = "wait" /\ UNCHANGED forks
      BY <1>6, Zenon DEF waited, objects
    <2> QED BY <1>4, <2>1, <2>2, Zenon DEF Waiting
  <1>7. ASSUME NEW c \in Callers, setPinned(c) PROVE Goal
    BY <1>4, <1>7, Zenon DEF setPinned, Return, Waiting
  <1>8. ASSUME NEW c \in Callers, call[c].pc # "done", Return(c), NEW n,
               forks' = [forks EXCEPT ![c] = [ref |-> n, restored |-> FALSE, shown |-> FALSE]]
        PROVE  Goal
    <2>1. /\ DOMAIN call' = Callers /\ \A b \in Callers : b # c => call'[b] = call[b]
          /\ CallShaped(c)' /\ call'[c].pc = "done"
      BY <1>1, <1>8, PcCall, Zenon DEF Return, Waiting
    <2>2. /\ DOMAIN forks' = Callers /\ \A b \in Callers : b # c => forks'[b] = forks[b]
          /\ forks'[c] = [ref |-> n, restored |-> FALSE, shown |-> FALSE]
      BY <1>1, <1>8, Zenon
    <2>3. DOMAIN forks'[c] = ForkFields
      BY <2>2, Zenon DEF ForkFields
    <2>4. CallerChange(c)
      BY <1>8, <2>1, <2>3, Zenon DEF CallerChange, Settled
    <2>5. \A b \in Callers : b # c => CallerChange(b)
      BY <1>1, <2>1, <2>2, SameCaller, Zenon
    <2> QED BY <2>1, <2>2, <2>4, <2>5, Zenon DEF Goal
  <1>9. ASSUME NEW c \in Callers, Fork(c) PROVE Goal
    BY <1>8, <1>9, Zenon DEF Fork
  <1>10. ASSUME NEW c \in Callers, launchFromSnapshot(c) PROVE Goal
    BY <1>8, <1>10, Zenon DEF launchFromSnapshot
  <1>11. ASSUME NEW c \in Callers, forks[c] # None, UNCHANGED call, NEW r,
                forks' = [forks EXCEPT ![c] = r],
                r # None => DOMAIN r = ForkFields,
                \/ ~forks[c].shown
                \/ r = None \/ (r.shown /\ r.restored)
         PROVE  Goal
    <2>1. /\ DOMAIN forks' = Callers /\ \A b \in Callers : b # c => forks'[b] = forks[b]
          /\ forks'[c] = r
      BY <1>1, <1>11, Zenon
    <2>2. CallerChange(c)
      <3>1. ASSUME Settled(c), NEW n, c \in Loading(n)' PROVE c \in Loading(n)
        BY <1>11, <2>1, <3>1, Zenon DEF Loading, Settled
      <3>2. Settled(c) => forks'[c] = None \/ forks'[c].shown
        BY <1>11, <2>1, Zenon DEF Settled
      <3> QED BY <1>11, <2>1, <3>1, <3>2, Zenon DEF CallerChange
    <2>3. \A b \in Callers : b # c => CallerChange(b)
      BY <1>1, <1>11, <2>1, SameCaller, Zenon
    <2> QED BY <1>1, <1>11, <2>1, <2>2, <2>3, Zenon DEF Goal
  <1>12. \A c \in Callers : forks[c] # None => DOMAIN forks[c] = ForkFields
    BY <1>1, Zenon DEF Shapes, ForksShaped
  <1>13. ASSUME NEW c \in Callers, ShowFork(c) PROVE Goal
    <2> DEFINE r == [forks[c] EXCEPT !.shown = TRUE]
    <2>1. /\ forks[c] # None /\ ~forks[c].shown /\ UNCHANGED call
          /\ forks' = [forks EXCEPT ![c] = r]
      BY <1>13, Zenon DEF ShowFork
    <2>2. DOMAIN r = ForkFields
      BY <1>12, <2>1, Zenon
    <2> HIDE DEF r
    <2> QED BY <1>11, <2>1, <2>2, Zenon
  <1>14. ASSUME NEW c \in Callers, restoreLauncher(c) PROVE Goal
    <2> DEFINE r == [forks[c] EXCEPT !.restored = TRUE]
    <2>1. /\ forks[c] # None /\ forks[c].shown /\ UNCHANGED call
          /\ \/ forks' = [forks EXCEPT ![c] = r]
             \/ forks' = [forks EXCEPT ![c] = None]
      BY <1>14, Zenon DEF restoreLauncher
    <2>2. DOMAIN r = ForkFields /\ r.restored = TRUE /\ r.shown = forks[c].shown
      BY <1>12, <2>1, Zenon DEF ForkFields
    <2> HIDE DEF r
    <2> QED BY <1>11, <2>1, <2>2, Zenon
  <1> QED BY <1>2, <1>3, <1>5, <1>6, <1>7, <1>9, <1>10, <1>13, <1>14, Zenon DEF Goal

(* A new Snapshot has no storage reference and is neither Ready nor         *)
(* deleted.                                                                 *)
LEMMA NewSnap ==
  ASSUME NEW r, NEW i
  PROVE  /\ newSnapshotCR(r, i).uid = i /\ newSnapshotCR(r, i).phase # "Ready"
         /\ newSnapshotCR(r, i).ref = FALSE /\ newSnapshotCR(r, i).deleting = FALSE
  BY Zenon DEF newSnapshotCR

(* The attempts are numbered upwards and within the bound. *)
LEMMA Counting ==
  ASSUME StoreInv, [Next]_vars
  PROVE  /\ tries' \in Nat /\ tries' <= MaxAttempts
         /\ 1 .. tries \subseteq 1 .. tries' /\ 1 .. tries \subseteq Attempts
         /\ tries + 1 \notin 1 .. tries
         /\ \A i \in Attempts : i > tries' => i > tries
  <1>1. tries \in Nat /\ tries <= MaxAttempts /\ MaxAttempts \in Nat
    BY RequestConstants, Zenon DEF StoreInv, Shapes
  <1>2. tries' = tries \/ (tries' = tries + 1 /\ tries + 1 \in Attempts)
    BY TriesGrow, Zenon DEF Comes
  <1> QED BY <1>1, <1>2, SMT DEF Attempts

(* Nobody joins those that a deleted Snapshot is held for. *)
LEMMA UsersShrink ==
  ASSUME NoneIsNone, StoreInv, [Next]_vars, NEW n \in Names, Stays(n), snaps[n].deleting
  PROVE  snaps'[n].held \cap Users(n)' \subseteq snaps[n].held \cap Users(n)
  <1> SUFFICES ASSUME NEW x \in snaps'[n].held \cap Users(n)'
               PROVE  x \in snaps[n].held \cap Users(n)
    BY Zenon
  <1>1. x \in snaps[n].held
    BY Zenon DEF Stays
  <1>2. GoodSnap(n)
    BY Zenon DEF StoreInv, GoodSnaps, Stays
  <1>3. CASE x \in Loading(n)'
    <2>1. x \in Callers
      BY <1>3, Zenon DEF Loading
    <2>2. Settled(x)
      BY <1>1, <1>2, <2>1, Zenon DEF GoodSnap
    <2>3. CallerChange(x)
      BY <2>1, CallerChanges, Zenon
    <2>4. x \in Loading(n)
      BY <1>3, <2>2, <2>3, Zenon DEF CallerChange
    <2> QED BY <1>1, <2>4, Zenon DEF Users
  <1>4. CASE x \in Diffs(n)'
    <2>1. PICK m \in Names : snaps'[m] # None /\ snaps'[m].parent = n /\ snaps'[m].uid = x
      BY <1>4, Zenon DEF Diffs, Exists
    <2>2. SnapChange(m)
      BY SnapChanges, Zenon
    <2>3. CASE Stays(m)
      <3>1. Exists(m) /\ snaps[m].parent = n /\ snaps[m].uid = x
        BY <2>1, <2>3, Zenon DEF Stays
      <3> QED BY <1>1, <3>1, Zenon DEF Users, Diffs
    <2>4. CASE Comes(m)
      <3>1. DOMAIN snaps = Names
        BY Zenon DEF StoreInv, Shapes, SnapsShaped
      <3>2. snaps'[m] = newSnapshotCR(rec.sb.req, tries + 1)
        BY <2>4, <3>1, Zenon DEF Comes
      <3>3. x = tries + 1 /\ x \in Attempts
        <4>1. newSnapshotCR(rec.sb.req, tries + 1).uid = tries + 1
          BY NewSnap, Zenon
        <4>2. tries + 1 \in Attempts
          BY <2>4, Zenon DEF Comes
        <4> QED BY <2>1, <3>2, <4>1, <4>2, Zenon
      <3>4. x \in Callers \cup 1 .. tries
        BY <1>1, <1>2, Zenon DEF GoodSnap
      <3> QED BY <3>3, <3>4, Counting, RequestConstants, Zenon
    <2> QED BY <2>1, <2>2, <2>3, <2>4, Zenon DEF SnapChange, Leaves
  <1> QED BY <1>3, <1>4, Zenon DEF Users

(* The attempt of a Snapshot. *)
LEMMA SnapTask ==
  ASSUME NoneIsNone, StoreInv, [Next]_vars, NEW n \in Names, Stays(n)
  PROVE  LET i == snaps[n].uid IN
         /\ i \in Attempts /\ i \in 1 .. tries
         /\ na'[i].pc # "idle" => na'[i].name = n
         /\ na[i].pc = "ok" => na'[i] = na[i]
         /\ na'[i].pc = "ok" => na[i].pc = "ok" \/ (stored'[n] # None /\ stored'[n].uid = i)
  <1> DEFINE i == snaps[n].uid
  <1>1. GoodSnap(n)
    BY Zenon DEF StoreInv, GoodSnaps, Stays
  <1>2. i \in Attempts /\ i \in 1 .. tries
    BY <1>1, Counting, Zenon DEF GoodSnap
  <1>3. na[i].pc # "idle" => na[i].name = n
    BY <1>1, Zenon DEF GoodSnap
  <1> HIDE DEF i
  <1>4. TaskChange(i)
    BY <1>2, TaskChanges, Zenon
  <1>5. CASE na'[i] = na[i]
    BY <1>2, <1>3, <1>5, Zenon DEF i
  <1>6. CASE Starts(i)
    <2>1. rec.pc = "dial" /\ i = rec.try
      BY <1>6, Zenon DEF Starts
    <2>2. n = name /\ na[i].pc = "idle"
      <3>1. rec.pc \in Owning /\ rec.pc \in Unsent
        BY <2>1, Zenon DEF Owning, Named, Unsent
      <3>2. Exists(n)
        BY Zenon DEF Stays
      <3> QED BY <2>1, <3>1, <3>2, Zenon DEF StoreInv, GoodRec, i
    <2>3. na'[i].name = name /\ na'[i].pc = "pause"
      BY <1>6, SMT DEF Starts
    <2> QED BY <1>2, <2>2, <2>3, Zenon DEF i
  <1>7. CASE Works(i)
    <2>1. na[i].pc # "ok" /\ na[i].pc # "idle" /\ na'[i].name = n
      BY <1>3, <1>7, Zenon DEF Works
    <2>2. ASSUME na'[i].pc = "ok" PROVE (stored'[n] # None /\ stored'[n].uid = i)
      <3>1. stored' = [stored EXCEPT ![n] = [uid |-> i, inside |-> na[i].inside]]
        BY <1>3, <1>7, <2>1, <2>2, Zenon DEF Works
      <3>2. DOMAIN stored = Names
        BY Zenon DEF StoreInv, Shapes
      <3>3. stored'[n] = [uid |-> i, inside |-> na[i].inside]
        BY <3>1, <3>2, Zenon
      <3>4. stored'[n].uid = i
        BY <3>3, SMT
      <3>5. DOMAIN stored'[n] = StateFields
        BY <3>3, Zenon DEF StateFields
      <3> QED BY <3>4, <3>5, Zenon DEF HasState, NoneIsNone
    <2> QED BY <1>2, <2>1, <2>2, Zenon DEF i
  <1> QED BY <1>4, <1>5, <1>6, <1>7, Zenon DEF TaskChange

(* A Snapshot that stays keeps its promise: its state leaves the store only   *)
(* when the finalizer has nobody left to hold it for.                         *)
LEMMA StaysGood ==
  ASSUME NoneIsNone, StoreInv, [Next]_vars, NEW n \in Names, Stays(n)
  PROVE  GoodSnap(n)'
  <1> DEFINE i == snaps[n].uid
  <1>1. GoodSnap(n) /\ Exists(n) /\ snaps'[n].uid = i
    BY Zenon DEF StoreInv, GoodSnaps, Stays
  <1>2. /\ i \in Attempts /\ i \in 1 .. tries
        /\ na'[i].pc # "idle" => na'[i].name = n
        /\ na[i].pc = "ok" => na'[i] = na[i]
        /\ na'[i].pc = "ok" => na[i].pc = "ok" \/ (stored'[n] # None /\ stored'[n].uid = i)
    BY SnapTask, Zenon
  <1>3. /\ na[i].pc # "idle" => na[i].name = n
        /\ snaps[n].phase = "Ready" \/ snaps[n].ref => na[i].pc = "ok"
        /\ na[i].pc = "ok" =>
             \/ HasState(n, i)
             \/ snaps[n].deleting /\ snaps[n].ref /\ snaps[n].held \cap Users(n) = {}
    BY <1>1, Zenon DEF GoodSnap
  <1> HIDE DEF i
  <1>4. snaps'[n].uid \in 1 .. tries'
    BY <1>1, <1>2, Counting, Zenon
  <1>5. snaps'[n].deleting => snaps'[n].fin
    BY <1>1, Zenon DEF Stays, GoodSnap
  <1>6. ASSUME snaps'[n].deleting, ~snaps[n].deleting
        PROVE  /\ snaps'[n].held \subseteq Callers \cup 1 .. tries
               /\ \A c \in Callers : c \in snaps'[n].held => Settled(c)
    <2>1. snaps'[n].held = Users(n)
      BY <1>6, Zenon DEF Stays
    <2>2. Loading(n) \subseteq Callers
      BY Zenon DEF Loading
    <2>3. Diffs(n) \subseteq 1 .. tries
      <3>1. \A m \in Names : Exists(m) => snaps[m].uid \in 1 .. tries
        BY Zenon DEF StoreInv, GoodSnaps, GoodSnap
      <3> QED BY <3>1, Zenon DEF Diffs
    <2>4. ASSUME NEW c \in Callers, c \in snaps'[n].held PROVE Settled(c)
      <3>1. c \notin 1 .. tries
        BY Counting, RequestConstants, Zenon
      <3>2. c \in Loading(n)
        BY <2>1, <2>3, <2>4, <3>1, Zenon DEF Users
      <3> QED BY <3>2, Zenon DEF Loading, Settled, StoreInv, ForksDone
    <2> QED BY <2>1, <2>2, <2>3, <2>4, Zenon DEF Users
  <1>7. ASSUME snaps'[n].deleting
        PROVE  /\ snaps'[n].held \subseteq Callers \cup 1 .. tries
               /\ \A c \in Callers : c \in snaps'[n].held => Settled(c)
    <2>1. CASE snaps[n].deleting
      BY <1>1, <2>1, Zenon DEF Stays, GoodSnap
    <2> QED BY <1>6, <1>7, <2>1, Zenon
  <1>8. ASSUME snaps'[n].deleting, NEW c \in Callers, c \in snaps'[n].held PROVE Settled(c)'
    <2>1. Settled(c) /\ CallerChange(c)
      BY <1>7, <1>8, CallerChanges, Zenon
    <2> QED BY <2>1, Zenon DEF CallerChange, Settled
  <1>9. ASSUME snaps'[n].phase = "Ready" \/ snaps'[n].ref PROVE na'[i].pc = "ok"
    <2>1. CASE snaps[n].phase = "Ready" \/ snaps[n].ref
      BY <1>2, <1>3, <2>1, Zenon
    <2>2. CASE snaps[n].phase # "Ready" /\ ~snaps[n].ref
      <3>1. rec.pc \in {"ref", "ready"} /\ n = name
        BY <1>9, <2>2, Zenon DEF Stays
      <3>2. rec.pc \in Owning /\ rec.pc \in Answered
        BY <3>1, Zenon DEF Owning, Named, Answered, Sent
      <3>3. i = rec.try
        BY <1>1, <3>1, <3>2, Zenon DEF StoreInv, GoodRec, i
      <3>4. na[i].pc = "ok"
        BY <3>2, <3>3, Zenon DEF StoreInv, GoodRec
      <3> QED BY <1>2, <3>4, Zenon
    <2> QED BY <2>1, <2>2, Zenon
  <1>10. ASSUME na'[i].pc = "ok"
         PROVE  \/ (stored'[n] # None /\ stored'[n].uid = i)
                \/ snaps'[n].deleting /\ snaps'[n].ref /\ snaps'[n].held \cap Users(n)' = {}
    <2>1. CASE na[i].pc # "ok"
      BY <1>2, <1>10, <2>1, Zenon
    <2>2. CASE na[i].pc = "ok" /\ snaps[n].deleting /\ snaps[n].ref /\ snaps[n].held \cap Users(n) = {}
      <3>1. snaps'[n].held \cap Users(n)' \subseteq snaps[n].held \cap Users(n)
        BY <2>2, UsersShrink, Zenon
      <3> QED BY <2>2, <3>1, Zenon DEF Stays
    <2>3. CASE HasState(n, i)
      <3>1. StateChange(n)
        BY StateChanges, Zenon
      <3>2. CASE stored'[n] = stored[n]
        BY <2>3, <3>2, Zenon DEF HasState
      <3>3. CASE Erases(n)
        <4>1. fin.pc = "erase" /\ fin.name = n /\ fin.snap.ref /\ UNCHANGED <<snaps, forks>>
          BY <3>3, Zenon DEF Erases
        <4>2. fin.pc \in Finishing /\ fin.pc # "terminating"
          BY <4>1, Zenon DEF Finishing
        <4>3. snaps[n].deleting /\ snaps[n].ref /\ snaps[n].held \cap Users(n) = {}
          BY <4>1, <4>2, Zenon DEF StoreInv, GoodFin
        <4>4. snaps'[n].held \cap Users(n)' \subseteq snaps[n].held \cap Users(n)
          BY <4>3, UsersShrink, Zenon
        <4> QED BY <4>3, <4>4, Zenon DEF Stays
      <3> QED BY <2>3, <3>1, <3>2, <3>3, Zenon DEF StateChange, Saves, HasState
    <2> QED BY <1>3, <2>1, <2>2, <2>3, Zenon
  <1>11. ASSUME snaps'[n].deleting PROVE snaps'[n].held \subseteq Callers \cup 1 .. tries'
    BY <1>7, <1>11, Counting, Zenon
  <1> QED BY <1>1, <1>2, <1>4, <1>5, <1>8, <1>9, <1>10, <1>11, Zenon DEF GoodSnap, HasState

(* Every step keeps each Snapshot in accord with its attempt. *)
LEMMA SnapsGood ==
  ASSUME NoneIsNone, StoreInv, [Next]_vars
  PROVE  GoodSnaps'
  <1> SUFFICES ASSUME NEW n \in Names, snaps'[n] # None PROVE GoodSnap(n)'
    BY Zenon DEF GoodSnaps, Exists
  <1>1. SnapChange(n)
    BY SnapChanges, Zenon
  <1>2. CASE Stays(n)
    BY <1>2, StaysGood, Zenon
  <1>3. CASE Comes(n)
    <2>1. DOMAIN snaps = Names
      BY Zenon DEF StoreInv, Shapes, SnapsShaped
    <2>2. snaps'[n] = newSnapshotCR(rec.sb.req, tries + 1)
      BY <1>3, <2>1, Zenon DEF Comes
    <2>3. /\ snaps'[n].uid = tries + 1 /\ snaps'[n].phase # "Ready"
          /\ snaps'[n].ref = FALSE /\ snaps'[n].deleting = FALSE
      <3> DEFINE s == newSnapshotCR(rec.sb.req, tries + 1)
      <3>1. s.uid = tries + 1 /\ s.phase # "Ready" /\ s.ref = FALSE /\ s.deleting = FALSE
        <4>1. s.uid = tries + 1
          BY NewSnap, Zenon
        <4>2. s.phase # "Ready"
          BY NewSnap, Zenon
        <4>3. s.ref = FALSE /\ s.deleting = FALSE
          BY NewSnap, Zenon
        <4> QED BY <4>1, <4>2, <4>3, Zenon
      <3> HIDE DEF s
      <3>2. snaps'[n] = s
        BY <2>2, Zenon DEF s
      <3> QED BY <3>1, <3>2, Zenon
    <2>4. tries + 1 \in Attempts /\ tries' = tries + 1 /\ na' = na
      BY <1>3, Zenon DEF Comes
    <2>5. tries + 1 > tries /\ tries + 1 \in 1 .. tries'
      <3>1. tries \in Nat
        BY Zenon DEF StoreInv, Shapes
      <3> QED BY <2>4, <3>1, SMT
    <2>6. na'[tries + 1].pc = "idle"
      BY <2>4, <2>5, Zenon DEF StoreInv, Tasks
    <2> QED BY <2>3, <2>5, <2>6, Zenon DEF GoodSnap
  <1> QED BY <1>1, <1>2, <1>3, Zenon DEF SnapChange, Leaves

(* A Sandbox comes with the end of its call, a task with its attempt. *)
LEMMA ForksTasksGood ==
  ASSUME NoneIsNone, StoreInv, [Next]_vars
  PROVE  ForksDone' /\ Tasks'
  <1>1. ASSUME NEW c \in Callers, forks'[c] # None PROVE call'[c].pc = "done"
    <2>1. CallerChange(c)
      BY CallerChanges, Zenon
    <2> QED BY <1>1, <2>1, Zenon DEF CallerChange, StoreInv, ForksDone
  <1>2. ASSUME NEW i \in Attempts, i > tries' PROVE na'[i].pc = "idle"
    <2>1. i > tries /\ na[i].pc = "idle"
      BY <1>2, Counting, Zenon DEF StoreInv, Tasks
    <2>2. TaskChange(i)
      BY TaskChanges, Zenon
    <2>3. ~Starts(i)
      <3>1. SUFFICES ASSUME Starts(i) PROVE FALSE
        BY Zenon
      <3>2. rec.pc \in Owning /\ i = rec.try
        BY <3>1, Zenon DEF Starts, Owning, Named
      <3>3. i = tries /\ tries \in Nat
        BY <3>2, Zenon DEF StoreInv, GoodRec, Shapes
      <3> QED BY <2>1, <3>3, SMT
    <2>4. ~Works(i)
      BY <2>1, Zenon DEF Works
    <2> QED BY <2>1, <2>2, <2>3, <2>4, Zenon DEF TaskChange
  <1> QED BY <1>1, <1>2, Zenon DEF ForksDone, Tasks

(* How the reconcile of the Sandbox goes on while it owns a Snapshot. *)
Moves(p) ==
  \/ p \in {"abandon", "fail"}
  \/ rec.pc = "creating" /\ p = "dial"
  \/ rec.pc = "dial" /\ p = "rpc" /\ Starts(rec.try)
  \/ rec.pc = "rpc" /\ p = "generation" /\ na[rec.try].pc = "ok"
  \/ rec.pc = "generation" /\ p = "ref" /\ sb'.gen = IF sb.gen < na[rec.try].gen THEN na[rec.try].gen ELSE sb.gen
  \/ rec.pc = "ref" /\ p = "ready"
  \/ rec.pc = "ready" /\ p = "after"

OwnerStep == markCreating \/ dial \/ abandonSnapshot \/ answer \/ recordIdentityGeneration
             \/ recordStorageRef \/ markReady \/ failSnapshot

(* While it owns a Snapshot the reconcile goes on, ends, or leaves it. *)
LEMMA RecMoves ==
  ASSUME StoreInv, [Next]_vars
  PROVE  \/ rec' = rec \/ rec'.pc \notin Owning \/ Comes(name)
         \/ rec.pc \in Owning /\ \E p : rec' = [rec EXCEPT !.pc = p] /\ Moves(p)
  <1> DEFINE Goal == \/ rec' = rec \/ rec'.pc \notin Owning \/ Comes(name)
                     \/ rec.pc \in Owning /\ \E p : rec' = [rec EXCEPT !.pc = p] /\ Moves(p)
             Other == \/ lifecycle \/ setMachine \/ recordMachine \/ markSnapshotting \/ checkRequest
                      \/ rollBack \/ applyAfterCreate \/ Crash
  <1>1. UNCHANGED rec \/ Other \/ createCR \/ OwnerStep
    BY Zenon DEF Next, vars, world, objects, bounds, operator, agent, OwnerStep,
      UserRequest, UserSetsDesiredState, UserDeletesSandbox, snapshotAndWait, waited, setPinned, Fork,
      launchFromSnapshot, ShowFork, restoreLauncher, CreateSnapshot, pause, take, raiseGeneration,
      resume, save, UserDeletesSnapshot, Reconcile, reconcileSandbox, reconcileSnapshot, expire,
      finalizeSnapshot, removeFinalizer, DeleteSnapshot, SyncCache
  <1>2. DOMAIN rec = RecFields
    BY Zenon DEF StoreInv, Shapes, RecShaped
  <1>3. \A p : [rec EXCEPT !.pc = p].pc = p
    BY <1>2, Zenon DEF RecFields
  <1>4. RecIdle.pc \notin Owning
    BY Zenon DEF RecIdle, Owning, Named
  <1>5. ASSUME lifecycle PROVE Goal
    <2>1. PICK p : rec'.pc = p /\ p \in {"pause", "resume", "mark", "rollback", "idle"}
      BY <1>5, Zenon DEF lifecycle, existing
    <2> QED BY <2>1, Zenon DEF Owning, Named
  <1>6. ASSUME setMachine PROVE Goal
    <2>1. rec' = RecIdle \/ rec' = [rec EXCEPT !.pc = "paused"] \/ rec' = [rec EXCEPT !.pc = "resumed"]
      BY <1>6, Zenon DEF setMachine, To, Done
    <2>2. rec'.pc \notin Owning
      BY <1>3, <1>4, <2>1, Zenon DEF Owning, Named
    <2> QED BY <2>2, Zenon
  <1>7. ASSUME recordMachine \/ rollBack \/ applyAfterCreate \/ Crash PROVE Goal
    BY <1>4, <1>7, Zenon DEF recordMachine, rollBack, applyAfterCreate, Crash, Done
  <1>8. ASSUME markSnapshotting PROVE Goal
    <2>1. rec' = RecIdle \/ rec' = [[rec EXCEPT !.pc = "parent"] EXCEPT !.sb = sb']
      BY <1>8, Zenon DEF markSnapshotting, Done
    <2>2. [[rec EXCEPT !.pc = "parent"] EXCEPT !.sb = sb'].pc = "parent"
      BY <1>2, Zenon DEF RecFields
    <2>3. rec'.pc \notin Owning
      BY <1>4, <2>1, <2>2, Zenon DEF Owning, Named
    <2> QED BY <2>3, Zenon
  <1>9. ASSUME checkRequest PROVE Goal
    <2>1. rec' = [rec EXCEPT !.pc = "create"] \/ rec' = [rec EXCEPT !.pc = "rollback"]
      BY <1>9, Zenon DEF checkRequest, To
    <2>2. rec'.pc \notin Owning
      BY <1>3, <2>1, Zenon DEF Owning, Named
    <2> QED BY <2>2, Zenon
  <1>10. ASSUME createCR PROVE Goal
    <2>1. rec' = [rec EXCEPT !.pc = "rollback"] \/ Comes(name)
      <3>1. rec.pc = "create" => name \in Names
        BY Zenon DEF StoreInv, Shapes, RecShaped, Named
      <3> QED BY <1>10, <3>1, Zenon DEF createCR, Comes, To, name, world, operator
    <2>2. "rollback" \notin Owning
      BY Zenon DEF Owning, Named
    <2> QED BY <1>3, <2>1, <2>2, Zenon
  <1>11. ASSUME OwnerStep PROVE Goal
    <2>1. "rollback" \notin Owning
      BY Zenon DEF Owning, Named
    <2>2. ASSUME To("rollback") PROVE rec'.pc \notin Owning
      BY <1>3, <2>1, <2>2, Zenon DEF To
    <2>3. rec.pc \in Owning
      BY <1>11, Zenon DEF OwnerStep, markCreating, dial, abandonSnapshot, answer, Owning, Named,
        recordIdentityGeneration, recordStorageRef, markReady, failSnapshot
    <2>4. ASSUME NEW p, To(p), Moves(p) PROVE Goal
      BY <2>3, <2>4, Zenon DEF To
    <2> HIDE DEF Goal
    <2>5. ASSUME To("abandon") \/ To("fail") PROVE Goal
      BY <2>4, <2>5, Zenon DEF Moves
    <2>6. ASSUME markCreating PROVE Goal
      BY <2>2, <2>4, <2>6, Zenon DEF markCreating, Moves, Goal
    <2>7. ASSUME dial PROVE Goal
      <3>1. CASE To("rpc") /\ na' = [na EXCEPT ![rec.try] = [pc |-> "pause", name |-> name, inside |-> 0,
                                              gen |-> nextIdentityGeneration(rec.sb)]]
        <4>1. rec.try \in Attempts
          BY <2>3, Zenon DEF StoreInv, GoodRec
        <4>2. DOMAIN na = Attempts
          BY Zenon DEF StoreInv, Shapes, TasksShaped
        <4>3. rec.pc = "dial" /\ UNCHANGED <<stored, vm, sb, snaps, forks, call, fin>>
          BY <2>7, Zenon DEF dial, world, operator
        <4>4. UNCHANGED tries
          BY <2>7, Zenon DEF dial, bounds, Fault, Spend
        <4>5. Starts(rec.try)
          BY <3>1, <4>1, <4>2, <4>3, <4>4, Zenon DEF Starts, To
        <4> QED BY <2>4, <3>1, <4>3, <4>5, Zenon DEF Moves
      <3> QED BY <2>5, <2>7, <3>1, Zenon DEF dial
    <2>8. ASSUME abandonSnapshot \/ failSnapshot PROVE Goal
      BY <2>2, <2>5, <2>8, Zenon DEF abandonSnapshot, failSnapshot, Goal
    <2>9. ASSUME answer PROVE Goal
      BY <2>4, <2>5, <2>9, Zenon DEF answer, Moves
    <2>10. ASSUME recordIdentityGeneration PROVE Goal
      <3>1. DOMAIN sb = SandboxFields
        BY Zenon DEF StoreInv, Shapes, IsSandbox
      <3>2. CASE To("fail")
        BY <2>5, <3>2, Zenon
      <3>3. CASE To("ref") /\ sb' = [sb EXCEPT !.gen = IF @ < na[rec.try].gen THEN na[rec.try].gen ELSE @]
        <4>1. sb'.gen = IF sb.gen < na[rec.try].gen THEN na[rec.try].gen ELSE sb.gen
          BY <3>1, <3>3, Zenon DEF SandboxFields
        <4> QED BY <2>4, <2>10, <3>3, <4>1, Zenon DEF Moves, recordIdentityGeneration
      <3> QED BY <2>10, <3>2, <3>3, Zenon DEF recordIdentityGeneration
    <2>11. ASSUME recordStorageRef PROVE Goal
      BY <2>4, <2>5, <2>11, Zenon DEF recordStorageRef, Moves
    <2>12. ASSUME markReady PROVE Goal
      BY <2>4, <2>12, Zenon DEF markReady, Moves
    <2> QED BY <1>11, <2>6, <2>7, <2>8, <2>9, <2>10, <2>11, <2>12, Zenon DEF OwnerStep
  <1> QED BY <1>1, <1>5, <1>6, <1>7, <1>8, <1>9, <1>10, <1>11, Zenon

(* The Snapshot of the name that the reconcile owns is the one it created. *)
LEMMA OwnerKept ==
  ASSUME NoneIsNone, StoreInv, [Next]_vars, rec.pc \in Owning
  PROVE  /\ tries' = tries /\ rec.try = tries /\ tries \in Attempts
         /\ \A n \in Names : snaps'[n] # None => (n = name <=> snaps'[n].uid = rec.try)
  <1>1. rec.try = tries /\ tries \in Attempts
        /\ \A n \in Names : Exists(n) => (n = name <=> snaps[n].uid = rec.try)
    BY Zenon DEF StoreInv, GoodRec
  <1>2. \A n : ~Comes(n)
    BY Zenon DEF Comes, Owning, Named
  <1>3. tries' = tries
    BY <1>2, TriesGrow, Zenon
  <1>4. ASSUME NEW n \in Names, snaps'[n] # None PROVE n = name <=> snaps'[n].uid = rec.try
    <2>1. SnapChange(n)
      BY SnapChanges, Zenon
    <2>2. Stays(n)
      BY <1>2, <1>4, <2>1, Zenon DEF SnapChange, Leaves
    <2>3. Exists(n) /\ snaps'[n].uid = snaps[n].uid
      BY <2>2, Zenon DEF Stays
    <2> QED BY <1>1, <2>3, Zenon
  <1> QED BY <1>1, <1>3, <1>4, Zenon

(* Its task goes on until it is stored. *)
LEMMA OwnTask ==
  ASSUME NoneIsNone, StoreInv, [Next]_vars, rec.pc \in Owning
  PROVE  /\ na[rec.try].pc = "idle" => na'[rec.try] = na[rec.try] \/ Starts(rec.try)
         /\ na[rec.try].pc # "idle" => na'[rec.try].pc # "idle" \/ Starts(rec.try)
         /\ rec.pc \in Sent => na'[rec.try].pc # "idle" /\ na'[rec.try].name = na[rec.try].name
         /\ na[rec.try].pc = "ok" => na'[rec.try].pc = "ok" \/ Starts(rec.try)
  <1>1. rec.try \in Attempts
    BY OwnerKept, Zenon
  <1>2. TaskChange(rec.try)
    BY <1>1, TaskChanges, Zenon
  <1>3. rec.pc \in Sent => ~Starts(rec.try) /\ na[rec.try].pc # "idle"
    BY Zenon DEF Starts, Sent, StoreInv, GoodRec
  <1>4. CASE na'[rec.try] = na[rec.try]
    BY <1>3, <1>4, Zenon
  <1>5. CASE Works(rec.try)
    <2>1. na[rec.try].pc # "idle" /\ na[rec.try].pc # "ok" /\ na'[rec.try].pc # "idle"
          /\ na'[rec.try].name = na[rec.try].name
      BY <1>5, Zenon DEF Works
    <2> QED BY <2>1, Zenon
  <1>6. CASE Starts(rec.try)
    BY <1>3, <1>6, Zenon DEF StoreInv, GoodRec, Unsent, Starts
  <1> QED BY <1>2, <1>4, <1>5, <1>6, Zenon DEF TaskChange

(* The reconcile goes on with the Snapshot and the task that it started. *)
LEMMA RecGood ==
  ASSUME NoneIsNone, StoreInv, [Next]_vars
  PROVE  GoodRec'
  <1>0. Unsent \subseteq Owning /\ Sent \subseteq Owning /\ Answered \subseteq Sent
    BY Zenon DEF Unsent, Sent, Answered, Owning, Named
  <1>1. CASE rec'.pc \notin Owning
    BY <1>0, <1>1, Zenon DEF GoodRec
  <1>2. DOMAIN rec = RecFields
    BY Zenon DEF StoreInv, Shapes, RecShaped
  <1>3. ASSUME rec' = rec, rec.pc \in Owning PROVE GoodRec'
    <2>1. ~Starts(rec.try)
      <3>1. SUFFICES ASSUME Starts(rec.try) PROVE FALSE
        BY Zenon
      <3>2. rec.pc = "dial" /\ rec'.pc = "rpc"
        BY <1>2, <3>1, Zenon DEF Starts, RecFields
      <3> QED BY <1>3, <3>2, Zenon
    <2>2. rec'.pc \in Owning => /\ rec'.try = tries' /\ tries' \in Attempts
                                /\ \A n \in Names : snaps'[n] # None => (n = name' <=> snaps'[n].uid = rec'.try)
      BY <1>3, OwnerKept, Zenon DEF name
    <2>3. rec.pc \in Unsent => na'[rec.try].pc = "idle"
      BY <1>3, <2>1, OwnTask, Zenon DEF StoreInv, GoodRec
    <2>4. rec.pc \in Sent => na'[rec.try].pc # "idle" /\ na'[rec.try].name = name
      BY <1>3, OwnTask, Zenon DEF StoreInv, GoodRec
    <2>5. rec.pc \in Answered => na'[rec.try].pc = "ok"
      BY <1>3, <2>1, OwnTask, Zenon DEF StoreInv, GoodRec
    <2> QED BY <1>3, <2>2, <2>3, <2>4, <2>5, Zenon DEF GoodRec, Exists, name
  <1>4. ASSUME Comes(name) PROVE GoodRec'
    <2>1. /\ rec' = [[rec EXCEPT !.pc = "creating"] EXCEPT !.try = tries + 1]
          /\ tries' = tries + 1 /\ tries + 1 \in Attempts /\ na' = na /\ name \in Names
          /\ snaps' = [snaps EXCEPT ![name] = newSnapshotCR(rec.sb.req, tries + 1)]
      BY <1>4, Zenon DEF Comes
    <2>2. rec'.pc = "creating" /\ rec'.try = tries + 1 /\ rec'.sb = rec.sb
      BY <1>2, <2>1, Zenon DEF RecFields
    <2>3. tries + 1 > tries /\ tries + 1 \notin 1 .. tries
      <3>1. tries \in Nat
        BY Zenon DEF StoreInv, Shapes
      <3> QED BY <3>1, SMT
    <2>4. na'[rec'.try].pc = "idle"
      BY <2>1, <2>2, <2>3, Zenon DEF StoreInv, Tasks
    <2>5. name' = name
      BY <2>2, Zenon DEF name
    <2>6. newSnapshotCR(rec.sb.req, tries + 1).uid = tries + 1
      BY NewSnap, Zenon
    <2>7. DOMAIN snaps = Names
      BY Zenon DEF StoreInv, Shapes, SnapsShaped
    <2>8. snaps'[name].uid = tries + 1 /\ \A n \in Names : n # name => snaps'[n] = snaps[n]
      BY <2>1, <2>6, <2>7, Zenon
    <2>9. \A n \in Names : Exists(n) => snaps[n].uid \in 1 .. tries
      BY Zenon DEF StoreInv, GoodSnaps, GoodSnap
    <2>10. ASSUME NEW n \in Names, snaps'[n] # None PROVE n = name' <=> snaps'[n].uid = rec'.try
      BY <2>2, <2>3, <2>5, <2>8, <2>9, <2>10, Zenon DEF Exists
    <2>11. rec'.pc \notin Sent /\ rec'.pc \notin Answered
      BY <2>2, Zenon DEF Sent, Answered
    <2> QED BY <2>1, <2>2, <2>4, <2>10, <2>11, Zenon DEF GoodRec, Exists
  <1>5. ASSUME rec.pc \in Owning, NEW p, rec' = [rec EXCEPT !.pc = p], Moves(p) PROVE GoodRec'
    <2>1. rec'.pc = p /\ rec'.try = rec.try /\ rec'.sb = rec.sb
      BY <1>2, <1>5, Zenon DEF RecFields
    <2>2. name' = name
      BY <2>1, Zenon DEF name
    <2>3. rec'.pc \in Owning => /\ rec'.try = tries' /\ tries' \in Attempts
                                /\ \A n \in Names : snaps'[n] # None => (n = name' <=> snaps'[n].uid = rec'.try)
      BY <1>5, <2>1, <2>2, OwnerKept, Zenon
    <2>4. (rec.pc = "dial" /\ p = "rpc" /\ Starts(rec.try)) \/ ~Starts(rec.try)
      <3>1. SUFFICES ASSUME Starts(rec.try) PROVE rec.pc = "dial" /\ p = "rpc"
        BY Zenon
      <3>2. rec.pc = "dial" /\ rec'.pc = "rpc"
        BY <1>2, <3>1, Zenon DEF Starts, RecFields
      <3> QED BY <2>1, <3>2, Zenon
    <2>5. p \in Unsent => na'[rec.try].pc = "idle"
      <3>1. SUFFICES ASSUME p \in Unsent PROVE na'[rec.try].pc = "idle"
        BY Zenon
      <3>2. rec.pc = "creating" /\ p = "dial"
        BY <1>5, <3>1, Zenon DEF Moves, Unsent
      <3>3. na[rec.try].pc = "idle"
        BY <3>2, Zenon DEF StoreInv, GoodRec, Unsent
      <3> QED BY <1>5, <2>4, <3>2, <3>3, OwnTask, Zenon
    <2>6. p \in Sent => na'[rec.try].pc # "idle" /\ na'[rec.try].name = name
      <3>1. CASE p = "rpc"
        <4>1. Starts(rec.try)
          BY <1>5, <3>1, Zenon DEF Moves
        <4>2. na'[rec.try].name = name /\ na'[rec.try].pc = "pause"
          BY <4>1, SMT DEF Starts
        <4> QED BY <4>2, Zenon
      <3>2. CASE p # "rpc" /\ p \in Sent
        <4>1. rec.pc \in Sent
          BY <1>5, <3>2, Zenon DEF Moves, Sent
        <4> QED BY <1>5, <4>1, OwnTask, Zenon DEF StoreInv, GoodRec
      <3> QED BY <3>1, <3>2, Zenon
    <2>7. p \in Answered => na'[rec.try].pc = "ok"
      <3>1. SUFFICES ASSUME p \in Answered PROVE na'[rec.try].pc = "ok"
        BY Zenon
      <3>2. na[rec.try].pc = "ok" \/ rec.pc \in Answered
        BY <1>5, <3>1, Zenon DEF Moves, Answered, Sent
      <3>3. na[rec.try].pc = "ok"
        BY <3>2, Zenon DEF StoreInv, GoodRec
      <3>4. p # "rpc"
        BY <3>1, Zenon DEF Answered, Sent
      <3> QED BY <1>5, <2>4, <3>3, <3>4, OwnTask, Zenon
    <2> QED BY <2>1, <2>2, <2>3, <2>5, <2>6, <2>7, Zenon DEF GoodRec, Exists
  <1> QED BY <1>1, <1>3, <1>4, <1>5, RecMoves, Zenon

(* With no reference counted nobody uses the Snapshot. *)
Counts ==
  \A n \in Names : referenceCount(n) \in Nat /\ (referenceCount(n) = 0 => Users(n) = {})

(* The Snapshot that is finalized stays until its finalizer goes. *)
LEMMA FinKept ==
  ASSUME NoneIsNone, StoreInv, [Next]_vars, fin.pc \in Finishing, fin' # FinIdle,
         fin'.name = fin.name
  PROVE  /\ Stays(fin.name) /\ snaps'[fin.name].deleting
         /\ snaps'[fin.name].held \cap Users(fin.name)' \subseteq snaps[fin.name].held \cap Users(fin.name)
  <1>1. fin.name \in Names /\ Exists(fin.name) /\ snaps[fin.name].deleting
    BY Zenon DEF StoreInv, GoodFin
  <1>2. SnapChange(fin.name) /\ snaps[fin.name].fin
    BY <1>1, SnapChanges, Zenon DEF StoreInv, GoodSnaps, GoodSnap
  <1>3. Stays(fin.name)
    BY <1>1, <1>2, Zenon DEF SnapChange, Leaves, Comes
  <1>4. ASSUME NEW n \in Names, n = fin.name
        PROVE  snaps'[n].held \cap Users(n)' \subseteq snaps[n].held \cap Users(n)
    BY <1>1, <1>3, <1>4, UsersShrink, Zenon
  <1> QED BY <1>1, <1>3, <1>4, Zenon DEF Stays, Users

(* Only the Snapshot reconciler and a restart move its reconcile. *)
LEMMA FinSteps ==
  ASSUME [Next]_vars
  PROVE  \/ UNCHANGED fin \/ expire \/ finalizeSnapshot \/ DeleteSnapshot \/ removeFinalizer \/ Crash
         \/ \E n \in Names : Reconcile(n)
  BY Zenon DEF Next, vars, world, objects, bounds, operator, agent,
      UserRequest, UserSetsDesiredState, UserDeletesSandbox, snapshotAndWait, waited, setPinned, Fork,
      launchFromSnapshot, ShowFork, restoreLauncher, CreateSnapshot, pause, take, raiseGeneration,
      resume, save, UserDeletesSnapshot, reconcileSandbox, reconcileSnapshot,
      SyncCache, lifecycle, dial, createCR,
      setMachine, recordMachine, markSnapshotting, checkRequest, abandonSnapshot, answer,
      markCreating, recordStorageRef, markReady, failSnapshot,
      recordIdentityGeneration, rollBack, applyAfterCreate

(* The Snapshot reconciler erases only what nobody it counted still needs. *)
LEMMA FinGood ==
  ASSUME NoneIsNone, StoreInv, Counts, [Next]_vars
  PROVE  GoodFin' /\ FinShaped'
  <1> DEFINE Goal == GoodFin' /\ FinShaped'
  <1>0. DOMAIN fin = FinFields /\ (fin.pc # "idle" => fin.name \in Names)
    BY Zenon DEF StoreInv, Shapes, FinShaped
  <1>1. ASSUME fin' = FinIdle PROVE Goal
    <2>1. fin'.pc = "idle" /\ DOMAIN fin' = FinFields
      BY <1>1, Zenon DEF FinIdle, FinFields
    <2> QED BY <2>1, Zenon DEF GoodFin, FinShaped, Finishing
  <1> HIDE DEF Goal
  <1>2. ASSUME UNCHANGED fin, fin # FinIdle PROVE Goal
    <2>1. ASSUME fin.pc \in Finishing
          PROVE  /\ fin.name \in Names /\ snaps'[fin.name] # None /\ snaps'[fin.name].deleting
                 /\ fin.snap.ref => snaps'[fin.name].ref
                 /\ fin.pc = "terminating" => fin.count \in Nat
                 /\ fin.pc # "terminating" \/ fin.count = 0 => snaps'[fin.name].held \cap Users(fin.name)' = {}
      <3>1. /\ Stays(fin.name) /\ snaps'[fin.name].deleting
            /\ snaps'[fin.name].held \cap Users(fin.name)' \subseteq snaps[fin.name].held \cap Users(fin.name)
        BY <1>2, <2>1, FinKept, Zenon
      <3>2. /\ fin.name \in Names
            /\ fin.snap.ref => snaps[fin.name].ref
            /\ fin.pc = "terminating" => fin.count \in Nat
            /\ fin.pc # "terminating" \/ fin.count = 0 => snaps[fin.name].held \cap Users(fin.name) = {}
        BY <2>1, Zenon DEF StoreInv, GoodFin
      <3> QED BY <3>1, <3>2, Zenon DEF Stays
    <2>2. GoodFin'
      BY <1>2, <2>1, Zenon DEF GoodFin, Exists, Users
    <2>3. FinShaped'
      BY <1>0, <1>2, Zenon DEF FinShaped
    <2> QED BY <2>2, <2>3, Zenon DEF Goal
  <1>3. ASSUME NEW n \in Names, Reconcile(n), fin' # fin PROVE Goal
    <2>1. PICK p \in {"terminating", "expired"} :
            /\ fin' = [pc |-> p, name |-> n, snap |-> snaps[n], count |-> referenceCount(n)]
            /\ p = "terminating" => snaps[n].deleting
      BY <1>3, Zenon DEF Reconcile
    <2>2. snaps' = snaps /\ forks' = forks /\ Exists(n)
      BY <1>3, Zenon DEF Reconcile, bounds
    <2>3. fin'.pc = p /\ fin'.name = n /\ fin'.snap = snaps[n] /\ fin'.count = referenceCount(n)
      BY <2>1, SMT
    <2>4. DOMAIN fin' = FinFields
      BY <2>1, Zenon DEF FinFields
    <2>5. FinShaped'
      BY <2>3, <2>4, Zenon DEF FinShaped
    <2>6. Users(n)' = Users(n)
      BY <2>2, Zenon DEF Users, Loading, Diffs, Exists
    <2>7. referenceCount(n) \in Nat /\ (referenceCount(n) = 0 => Users(n) = {})
      BY Zenon DEF Counts
    <2>8. p \in Finishing => p = "terminating"
      BY <2>1, Zenon DEF Finishing
    <2>9. GoodFin'
      BY <2>1, <2>2, <2>3, <2>6, <2>7, <2>8, Zenon DEF GoodFin, Exists, Users
    <2> QED BY <2>5, <2>9, Zenon DEF Goal
  <1>4. ASSUME NEW p \in {"erase", "erased"}, NEW s, fin.pc \in Finishing,
               fin' = [[fin EXCEPT !.pc = p] EXCEPT !.snap = s],
               s.ref => snaps'[fin.name].ref,
               fin.pc # "terminating" \/ fin.count = 0
        PROVE  Goal
    <2>1. fin'.pc = p /\ fin'.name = fin.name /\ fin'.snap = s /\ DOMAIN fin' = FinFields
      BY <1>0, <1>4, Zenon DEF FinFields
    <2>2. fin' # FinIdle
      <3>1. FinIdle.pc = "idle"
        BY Zenon DEF FinIdle
      <3> QED BY <1>4, <2>1, <3>1, Zenon
    <2>3. /\ Stays(fin.name) /\ snaps'[fin.name].deleting
          /\ snaps'[fin.name].held \cap Users(fin.name)' \subseteq snaps[fin.name].held \cap Users(fin.name)
      BY <1>4, <2>1, <2>2, FinKept, Zenon
    <2>4. fin.name \in Names /\ snaps[fin.name].held \cap Users(fin.name) = {}
      BY <1>4, Zenon DEF StoreInv, GoodFin
    <2>5. snaps'[fin.name] # None /\ snaps'[fin.name].held \cap Users(fin.name)' = {}
      BY <2>3, <2>4, Zenon DEF Stays
    <2>6. GoodFin'
      BY <1>4, <2>1, <2>3, <2>4, <2>5, Zenon DEF GoodFin, Exists, Users
    <2>7. FinShaped'
      BY <2>1, <2>4, Zenon DEF FinShaped
    <2> QED BY <2>6, <2>7, Zenon DEF Goal
  <1>5. ASSUME finalizeSnapshot PROVE Goal
    <2>1. fin.pc \in Finishing /\ fin.pc = "terminating"
      BY <1>5, Zenon DEF finalizeSnapshot, Finishing
    <2>2. fin.count \in Nat /\ (fin.snap.ref => snaps[fin.name].ref)
      BY <2>1, Zenon DEF StoreInv, GoodFin
    <2>3. CASE fin.count > 0
      BY <1>1, <1>5, <2>3, Zenon DEF finalizeSnapshot
    <2>4. CASE ~(fin.count > 0)
      <3> DEFINE s == IF fin.snap.phase = "Terminating" THEN fin.snap ELSE snaps'[fin.name]
      <3>1. fin.count = 0
        BY <2>2, <2>4, SMT
      <3>2. fin' = [[fin EXCEPT !.pc = "erase"] EXCEPT !.snap = s]
        BY <1>0, <1>5, <2>4, Zenon DEF finalizeSnapshot, FinFields
      <3>3. s.ref => snaps'[fin.name].ref
        BY <1>5, <2>2, Zenon DEF finalizeSnapshot
      <3> HIDE DEF s
      <3> QED BY <1>4, <2>1, <3>1, <3>2, <3>3, Zenon
    <2> QED BY <2>3, <2>4, Zenon
  <1>6. ASSUME DeleteSnapshot, fin' # FinIdle PROVE Goal
    <2>1. fin.pc \in Finishing /\ fin.pc = "erase" /\ fin' = [fin EXCEPT !.pc = "erased"] /\ snaps' = snaps
      BY <1>6, Zenon DEF DeleteSnapshot, Finishing, objects
    <2>2. fin' = [[fin EXCEPT !.pc = "erased"] EXCEPT !.snap = fin.snap]
      BY <1>0, <2>1, Zenon DEF FinFields
    <2>3. fin.snap.ref => snaps'[fin.name].ref
      BY <2>1, Zenon DEF StoreInv, GoodFin
    <2> QED BY <1>4, <2>1, <2>2, <2>3, Zenon
  <1>7. fin' = FinIdle \/ UNCHANGED fin \/ finalizeSnapshot \/ DeleteSnapshot \/ \E n \in Names : Reconcile(n)
    BY FinSteps, Zenon DEF expire, removeFinalizer, Crash
  <1>8. Goal
    BY <1>1, <1>2, <1>3, <1>5, <1>6, <1>7, Zenon
  <1> QED BY <1>8, Zenon DEF Goal

(* What a step can do to the Sandbox object. *)
IsRequest(r) == DOMAIN r = RequestFields /\ r.name \in Names
SbChange ==
  \/ sb' = sb
  \/ \E r : IsRequest(r) /\ sb' = [sb EXCEPT !.req = r]
  \/ \E v : sb' = [sb EXCEPT !.want = v] \/ sb' = [sb EXCEPT !.phase = v]
  \/ recordIdentityGeneration /\ rec' = [rec EXCEPT !.pc = "ref"]
       /\ sb' = [sb EXCEPT !.gen = IF sb.gen < na[rec.try].gen THEN na[rec.try].gen ELSE sb.gen]

(* A request of a user names a Snapshot. *)
LEMMA WantedRequest ==
  ASSUME NEW r \in Wanted
  PROVE  IsRequest(r)
  <1>1. r \in Requests
    BY RequestConstants, Zenon
  <1>2. DOMAIN r = RequestFields
    BY <1>1, Zenon DEF Requests, RequestFields
  <1>3. r.name \in Names
    BY <1>1, Zenon DEF Requests
  <1> QED BY <1>2, <1>3, Zenon DEF IsRequest

(* Every step changes at most one field of the Sandbox. *)
LEMMA SbChanges ==
  ASSUME [Next]_vars
  PROVE  SbChange
  <1> DEFINE Patch == \/ recordMachine \/ markSnapshotting \/ rollBack \/ applyAfterCreate
  <1>1. \/ UNCHANGED sb \/ UserRequest \/ UserSetsDesiredState \/ UserDeletesSandbox
        \/ (\E c \in Callers : snapshotAndWait(c)) \/ Patch \/ recordIdentityGeneration
    BY Zenon DEF Next, vars, world, objects, bounds, operator, agent,
      waited, setPinned, Fork,
      launchFromSnapshot, ShowFork, restoreLauncher, CreateSnapshot, pause, take, raiseGeneration,
      resume, save, UserDeletesSnapshot, reconcileSandbox, reconcileSnapshot, expire, Reconcile,
      finalizeSnapshot, removeFinalizer, DeleteSnapshot, Crash,
      SyncCache, lifecycle, dial, createCR,
      setMachine, checkRequest, abandonSnapshot, answer,
      markCreating, recordStorageRef, markReady, failSnapshot
  <1>2. CASE UserRequest
    BY <1>2, WantedRequest, Zenon DEF UserRequest, Ask, SbChange
  <1>3. CASE UserSetsDesiredState \/ UserDeletesSandbox
    BY <1>3, Zenon DEF UserSetsDesiredState, UserDeletesSandbox, SbChange
  <1>4. ASSUME NEW c \in Callers, snapshotAndWait(c) PROVE SbChange
    <2>1. PICK n \in CallNames, k \in BOOLEAN :
            sb' = [sb EXCEPT !.req = [name |-> n, after |-> "Running", parent |-> None, kept |-> k]]
      BY <1>4, Zenon DEF snapshotAndWait, Ask
    <2> DEFINE r == [name |-> n, after |-> "Running", parent |-> None, kept |-> k]
    <2>2. r.name = n
      BY SMT
    <2>3. DOMAIN r = RequestFields
      BY Zenon DEF RequestFields
    <2>4. n \in Names
      BY RequestConstants, Zenon
    <2>5. IsRequest(r) /\ sb' = [sb EXCEPT !.req = r]
      BY <2>1, <2>2, <2>3, <2>4, Zenon DEF IsRequest
    <2> QED BY <2>5, Zenon DEF SbChange
  <1>5. CASE Patch
    BY <1>5, Zenon
    DEF Patch, recordMachine, markSnapshotting, rollBack, applyAfterCreate, patchPhase, SbChange
  <1>6. CASE recordIdentityGeneration
    <2>1. \/ sb' = sb
          \/ rec' = [rec EXCEPT !.pc = "ref"]
             /\ sb' = [sb EXCEPT !.gen = IF sb.gen < na[rec.try].gen THEN na[rec.try].gen ELSE sb.gen]
      BY <1>6, Zenon DEF recordIdentityGeneration, To
    <2> QED BY <1>6, <2>1, Zenon DEF SbChange
  <1> QED BY <1>1, <1>2, <1>3, <1>4, <1>5, <1>6, Zenon DEF SbChange

(* The Sandbox keeps a request, and its generation never falls. *)
LEMMA SbGood ==
  ASSUME StoreInv, [Next]_vars
  PROVE  /\ IsSandbox(sb)' /\ (sb.req.name # None => sb'.req.name # None)
         /\ sb'.gen = sb.gen \/ (/\ recordIdentityGeneration /\ rec' = [rec EXCEPT !.pc = "ref"]
                                 /\ sb'.gen = IF sb.gen < na[rec.try].gen THEN na[rec.try].gen ELSE sb.gen)
         /\ sb'.gen >= sb.gen
  <1>1. IsSandbox(sb)
    BY Zenon DEF StoreInv, Shapes
  <1>2. sb.gen \in Nat /\ sb.gen >= sb.gen
    <2>1. sb.gen \in Nat
      BY <1>1, Zenon DEF IsSandbox
    <2> QED BY <2>1, SMT
  <1>3. CASE sb' = sb
    BY <1>1, <1>2, <1>3, Zenon DEF IsSandbox
  <1>4. ASSUME NEW r, IsRequest(r), sb' = [sb EXCEPT !.req = r]
        PROVE  IsSandbox(sb)' /\ sb'.req.name # None /\ sb'.gen = sb.gen
    <2>1. sb'.req = r /\ sb'.gen = sb.gen /\ DOMAIN sb' = SandboxFields
      BY <1>1, <1>4, Zenon DEF IsSandbox, SandboxFields
    <2> QED BY <1>2, <1>4, <2>1, RequestConstants, Zenon DEF IsSandbox, IsRequest
  <1>5. ASSUME NEW v, sb' = [sb EXCEPT !.want = v] \/ sb' = [sb EXCEPT !.phase = v]
        PROVE  IsSandbox(sb)' /\ sb'.req = sb.req /\ sb'.gen = sb.gen
    <2>1. sb'.req = sb.req /\ sb'.gen = sb.gen /\ DOMAIN sb' = SandboxFields
      BY <1>1, <1>5, Zenon DEF IsSandbox, SandboxFields
    <2> QED BY <1>1, <2>1, Zenon DEF IsSandbox
  <1>6. ASSUME recordIdentityGeneration,
               sb' = [sb EXCEPT !.gen = IF sb.gen < na[rec.try].gen THEN na[rec.try].gen ELSE sb.gen]
        PROVE  /\ IsSandbox(sb)' /\ sb'.req = sb.req /\ sb'.gen >= sb.gen
               /\ sb'.gen = IF sb.gen < na[rec.try].gen THEN na[rec.try].gen ELSE sb.gen
    <2> DEFINE g == IF sb.gen < na[rec.try].gen THEN na[rec.try].gen ELSE sb.gen
    <2>1. sb'.req = sb.req /\ sb'.gen = g /\ DOMAIN sb' = SandboxFields
      BY <1>1, <1>6, Zenon DEF IsSandbox, SandboxFields
    <2>2. rec.try \in Attempts
      BY <1>6, Zenon DEF recordIdentityGeneration, StoreInv, GoodRec, Owning, Named
    <2>3. na[rec.try].gen \in Nat
      BY <2>2, Zenon DEF StoreInv, Shapes, TasksShaped, TaskShaped
    <2>4. g \in Nat /\ g >= sb.gen
      BY <1>2, <2>3, SMT
    <2> HIDE DEF g
    <2>5. IsSandbox(sb)' /\ sb'.gen >= sb.gen
      BY <1>1, <2>1, <2>4, Zenon DEF IsSandbox
    <2> QED BY <2>1, <2>5, Zenon DEF g
  <1> QED BY <1>2, <1>3, <1>4, <1>5, <1>6, SbChanges, Zenon DEF SbChange

(* The informer shows an earlier Sandbox, whose request may be replaced     *)
(* since.                                                                   *)
LEMMA CacheGood ==
  ASSUME StoreInv, [Next]_vars
  PROVE  IsSandbox(cache)' /\ (cache'.req.name # None => sb'.req.name # None)
  <1>1. UNCHANGED cache \/ SyncCache
    BY Zenon DEF Next, vars, world, objects, bounds, operator, agent,
      UserRequest, UserSetsDesiredState, UserDeletesSandbox, snapshotAndWait, waited, setPinned, Fork,
      launchFromSnapshot, ShowFork, restoreLauncher, CreateSnapshot, pause, take, raiseGeneration,
      resume, save, UserDeletesSnapshot, Reconcile, reconcileSandbox, reconcileSnapshot, expire,
      finalizeSnapshot, removeFinalizer, DeleteSnapshot, Crash, lifecycle, createCR, dial,
      setMachine, recordMachine, markSnapshotting, checkRequest, abandonSnapshot, answer,
      markCreating, recordStorageRef, markReady, failSnapshot,
      recordIdentityGeneration, rollBack, applyAfterCreate
  <1>2. IsSandbox(sb) /\ IsSandbox(cache) /\ (cache.req.name # None => sb.req.name # None)
    BY Zenon DEF StoreInv, Shapes, Asked
  <1>3. CASE UNCHANGED cache
    BY <1>2, <1>3, SbGood, Zenon DEF IsSandbox
  <1>4. CASE SyncCache
    BY <1>2, <1>4, Zenon DEF SyncCache, IsSandbox, objects
  <1> QED BY <1>1, <1>3, <1>4, Zenon

(* The generation file changes only when an attempt raises it. *)
Raises(i) ==
  /\ na[i].pc = "raise" /\ na' = [na EXCEPT ![i].pc = "resume"] /\ vm'.gen = na[i].gen
  /\ UNCHANGED <<sb, rec, tries, stored, snaps>>

(* The machine keeps its generation unless an attempt raises it. *)
LEMMA VmGood ==
  ASSUME StoreInv, [Next]_vars
  PROVE  /\ DOMAIN vm' = {"running", "gen"} /\ vm'.gen \in Nat
         /\ vm'.gen = vm.gen \/ \E i \in Attempts : Raises(i)
  <1>1. DOMAIN vm = {"running", "gen"} /\ vm.gen \in Nat /\ \A i \in Attempts : na[i].gen \in Nat
    BY Zenon DEF StoreInv, Shapes, TasksShaped, TaskShaped
  <1>2. UNCHANGED vm \/ setMachine \/ \E i \in Attempts : pause(i) \/ raiseGeneration(i) \/ resume(i)
    BY Zenon DEF Next, vars, world, objects, bounds, operator, agent,
      UserRequest, UserSetsDesiredState, UserDeletesSandbox, snapshotAndWait, waited, setPinned, Fork,
      launchFromSnapshot, ShowFork, restoreLauncher, CreateSnapshot, take,
      save, UserDeletesSnapshot, Reconcile, reconcileSandbox, reconcileSnapshot, expire,
      finalizeSnapshot, removeFinalizer, DeleteSnapshot, Crash, lifecycle, createCR, dial, SyncCache,
      recordMachine, markSnapshotting, checkRequest, abandonSnapshot, answer,
      markCreating, recordStorageRef, markReady, failSnapshot,
      recordIdentityGeneration, rollBack, applyAfterCreate
  <1>3. \/ vm' = vm \/ (\E b : vm' = [vm EXCEPT !.running = b])
        \/ \E i \in Attempts :
             /\ na[i].pc = "raise" /\ na' = [na EXCEPT ![i].pc = "resume"]
             /\ vm' = [vm EXCEPT !.gen = na[i].gen] /\ UNCHANGED <<sb, rec, tries, stored, snaps>>
    BY <1>2, Zenon DEF setMachine, pause, raiseGeneration, resume, Goto, agent, objects, bounds
  <1>4. ASSUME NEW b, vm' = [vm EXCEPT !.running = b]
        PROVE  DOMAIN vm' = {"running", "gen"} /\ vm'.gen = vm.gen
    BY <1>1, <1>4, Zenon
  <1>5. ASSUME NEW i \in Attempts, na[i].pc = "raise", na' = [na EXCEPT ![i].pc = "resume"],
               vm' = [vm EXCEPT !.gen = na[i].gen], UNCHANGED <<sb, rec, tries, stored, snaps>>
        PROVE  DOMAIN vm' = {"running", "gen"} /\ vm'.gen \in Nat /\ Raises(i)
    <2>1. DOMAIN vm' = {"running", "gen"} /\ vm'.gen = na[i].gen
      BY <1>1, <1>5, Zenon
    <2> QED BY <1>1, <1>5, <2>1, Zenon DEF Raises
  <1> QED BY <1>1, <1>3, <1>4, <1>5, Zenon

(* How the reconcile of the Sandbox comes to its copy of the object. *)
RecChange ==
  \/ rec' = rec \/ rec' = RecIdle
  \/ lifecycle
  \/ markSnapshotting /\ rec' = [rec EXCEPT !.pc = "parent", !.sb = sb']
  \/ \E p : rec' = [rec EXCEPT !.pc = p] /\ (p \in Named => rec.pc \in Named)
            /\ (p \in Current => rec.pc \in Current)
  \/ Comes(name)

(* The reconcile of the Sandbox takes its copy from the informer or from    *)
(* the answer to its own patch.                                             *)
LEMMA RecChanges ==
  ASSUME StoreInv, [Next]_vars
  PROVE  RecChange
  <1> DEFINE Idles == recordMachine \/ rollBack \/ applyAfterCreate \/ Crash
  <1>1. \/ UNCHANGED rec \/ Idles \/ lifecycle \/ setMachine \/ markSnapshotting \/ checkRequest
        \/ createCR \/ OwnerStep
    BY Zenon DEF Next, vars, world, objects, bounds, operator, agent, OwnerStep,
      UserRequest, UserSetsDesiredState, UserDeletesSandbox, snapshotAndWait, waited, setPinned, Fork,
      launchFromSnapshot, ShowFork, restoreLauncher, CreateSnapshot, pause, take, raiseGeneration,
      resume, save, UserDeletesSnapshot, Reconcile, reconcileSandbox, reconcileSnapshot, expire,
      finalizeSnapshot, removeFinalizer, DeleteSnapshot, SyncCache
  <1>2. CASE Idles
    BY <1>2, Zenon DEF recordMachine, rollBack, applyAfterCreate, Crash, Done, RecChange
  <1>3. CASE setMachine
    <2>1. rec' = RecIdle \/ \E p \in {"paused", "resumed"} : rec' = [rec EXCEPT !.pc = p]
      BY <1>3, Zenon DEF setMachine, To, Done
    <2> QED BY <2>1, Zenon DEF RecChange, Named, Current
  <1>4. CASE markSnapshotting
    BY <1>4, Zenon DEF markSnapshotting, Done, RecChange
  <1>5. CASE checkRequest
    <2>1. \E p : rec' = [rec EXCEPT !.pc = p]
      BY <1>5, Zenon DEF checkRequest, To
    <2>2. rec.pc \in Named /\ rec.pc \in Current
      BY <1>5, Zenon DEF checkRequest, Named, Current
    <2> QED BY <2>1, <2>2, Zenon DEF RecChange
  <1>6. CASE createCR
    <2>1. Comes(name) \/ rec' = [rec EXCEPT !.pc = "rollback"]
      <3>1. rec.pc = "create"
        BY <1>6, Zenon DEF createCR
      <3>2. name \in Names
        BY <3>1, Zenon DEF StoreInv, Shapes, RecShaped, Named
      <3> QED BY <1>6, <3>2, Zenon DEF createCR, Comes, name, world, operator, To, Exists
    <2>2. "rollback" \notin Named /\ "rollback" \notin Current
      BY Zenon DEF Named, Current
    <2> QED BY <2>1, <2>2, Zenon DEF RecChange
  <1>7. CASE OwnerStep
    <2>1. \E p : rec' = [rec EXCEPT !.pc = p] /\ (p \in Current => rec.pc \in Current)
      BY <1>7, Zenon
      DEF OwnerStep, markCreating, dial, abandonSnapshot, answer, recordIdentityGeneration,
        recordStorageRef, markReady, failSnapshot, To, Current
    <2>2. rec.pc \in Named
      BY <1>7, Zenon
      DEF OwnerStep, markCreating, dial, abandonSnapshot, answer, recordIdentityGeneration,
        recordStorageRef, markReady, failSnapshot, Named
    <2> QED BY <2>1, <2>2, Zenon DEF RecChange
  <1> QED BY <1>1, <1>2, <1>3, <1>4, <1>5, <1>6, <1>7, Zenon DEF RecChange

(* The copy that a snapshot is taken with names a Snapshot. *)
LEMMA RecShape ==
  ASSUME StoreInv, [Next]_vars
  PROVE  RecShaped' /\ (rec'.pc \in Named => sb'.req.name # None)
  <1> DEFINE Goal == /\ DOMAIN rec' = RecFields
                     /\ rec'.pc \in Named => /\ IsSandbox(rec'.sb) /\ rec'.sb.req.name \in Names
                                             /\ sb'.req.name # None
  <1> HIDE DEF Goal
  <1>1. /\ DOMAIN rec = RecFields
        /\ rec.pc \in Named => IsSandbox(rec.sb) /\ rec.sb.req.name \in Names /\ sb.req.name # None
        /\ IsSandbox(cache) /\ (cache.req.name # None => sb.req.name # None)
        /\ sb.req.name # None => sb'.req.name # None
    BY SbGood, Zenon DEF StoreInv, Shapes, RecShaped, name, Asked
  <1>2. ASSUME rec' = rec PROVE Goal
    BY <1>1, <1>2, Zenon DEF Goal
  <1>3. ASSUME NEW p, rec' = [rec EXCEPT !.pc = p], p \in Named => rec.pc \in Named PROVE Goal
    <2>1. rec'.pc = p /\ rec'.sb = rec.sb /\ DOMAIN rec' = RecFields
      BY <1>1, <1>3, Zenon DEF RecFields
    <2> QED BY <1>1, <1>3, <2>1, Zenon DEF Goal
  <1>4. ASSUME rec' = RecIdle PROVE Goal
    <2>1. rec'.pc = "idle" /\ DOMAIN rec' = RecFields
      BY <1>4, Zenon DEF RecIdle, RecFields
    <2> QED BY <2>1, Zenon DEF Goal, Named
  <1>5. ASSUME Comes(name) PROVE Goal
    <2>1. rec' = [[rec EXCEPT !.pc = "creating"] EXCEPT !.try = tries + 1] /\ rec.pc \in Named
      BY <1>5, Zenon DEF Comes, Named
    <2>2. rec'.sb = rec.sb /\ DOMAIN rec' = RecFields
      BY <1>1, <2>1, Zenon DEF RecFields
    <2> QED BY <1>1, <2>1, <2>2, Zenon DEF Goal
  <1>6. ASSUME markSnapshotting, rec' = [rec EXCEPT !.pc = "parent", !.sb = sb'] PROVE Goal
    <2>1. rec.pc \in Named
      BY <1>6, Zenon DEF markSnapshotting, Named
    <2>2. rec'.sb = sb' /\ DOMAIN rec' = RecFields
      BY <1>1, <1>6, Zenon DEF RecFields
    <2>3. IsSandbox(sb') /\ sb'.req.name # None
      BY <1>1, <2>1, SbGood, Zenon DEF IsSandbox
    <2>4. sb'.req.name \in Names
      BY <2>3, Zenon DEF IsSandbox
    <2> QED BY <2>2, <2>3, <2>4, Zenon DEF Goal
  <1>7. ASSUME lifecycle PROVE Goal
    <2>1. \E p : /\ rec' = [pc |-> p, sb |-> cache, try |-> 0]
                 /\ p \in {"pause", "resume", "idle"} \/ cache.req.name # None
      BY <1>7, Zenon DEF lifecycle
    <2>2. PICK p : rec' = [pc |-> p, sb |-> cache, try |-> 0] /\ (p \in Named => cache.req.name # None)
      BY <2>1, Zenon DEF Named
    <2>3. rec'.pc = p /\ rec'.sb = cache
      BY <2>2, SMT
    <2>4. DOMAIN rec' = RecFields
      BY <2>2, Zenon DEF RecFields
    <2> QED BY <1>1, <2>2, <2>3, <2>4, Zenon DEF Goal, IsSandbox
  <1>8. Goal
    BY <1>2, <1>3, <1>4, <1>5, <1>6, <1>7, RecChanges, Zenon DEF RecChange
  <1> QED BY <1>8, Zenon DEF Goal, RecShaped, IsSandbox, name

(* The tasks of the node agent keep their shape. *)
LEMMA TasksShape ==
  ASSUME StoreInv, [Next]_vars
  PROVE  TasksShaped'
  <1> SUFFICES ASSUME NEW i \in Attempts
               PROVE  DOMAIN na'[i] = TaskFields /\ na'[i].gen \in Nat /\ na'[i].inside \in Nat
    BY TaskChanges, Zenon DEF TasksShaped, TaskShaped
  <1>1. DOMAIN na[i] = TaskFields /\ na[i].gen \in Nat /\ na[i].inside \in Nat /\ vm.gen \in Nat
    BY Zenon DEF StoreInv, Shapes, TasksShaped, TaskShaped
  <1>2. TaskChange(i)
    BY TaskChanges, Zenon
  <1>3. CASE na'[i] = na[i]
    BY <1>1, <1>3, Zenon
  <1>4. CASE Starts(i)
    <2>1. na'[i] = [pc |-> "pause", name |-> name, gen |-> nextIdentityGeneration(rec.sb), inside |-> 0]
      BY <1>4, Zenon DEF Starts
    <2>2. na'[i].gen = nextIdentityGeneration(rec.sb) /\ na'[i].inside = 0
      BY <2>1, SMT
    <2>3. DOMAIN na'[i] = TaskFields
      BY <2>1, Zenon DEF TaskFields
    <2>4. rec.sb.gen \in Nat
      BY <1>4, Zenon DEF Starts, StoreInv, Shapes, RecShaped, IsSandbox, Named
    <2>5. nextIdentityGeneration(rec.sb) \in Nat
      BY <2>4, SMT DEF nextIdentityGeneration
    <2> QED BY <2>2, <2>3, <2>5, SMT
  <1>5. CASE Works(i)
    BY <1>1, <1>5, Zenon DEF Works
  <1> QED BY <1>2, <1>3, <1>4, <1>5, Zenon DEF TaskChange

(* Every step keeps the shape of the state. *)
LEMMA ShapesGood ==
  ASSUME NoneIsNone, StoreInv, Counts, [Next]_vars
  PROVE  Shapes'
  <1>1. SnapsShaped'
    <2>1. DOMAIN snaps' = Names /\ \A n \in Names : SnapChange(n)
      BY SnapChanges, Zenon
    <2>2. ASSUME NEW n \in Names, snaps'[n] # None PROVE DOMAIN snaps'[n] = SnapFields
      BY <2>1, <2>2, Zenon DEF SnapChange, Stays, Leaves
    <2> QED BY <2>1, <2>2, Zenon DEF SnapsShaped, Exists
  <1>2. ForksShaped' /\ CallsShaped'
    <2>1. DOMAIN call' = Callers /\ DOMAIN forks' = Callers /\ \A c \in Callers : CallerChange(c)
      BY CallerChanges, Zenon
    <2>2. ASSUME NEW c \in Callers PROVE CallShaped(c)'
      <3>1. CallShaped(c)
        BY Zenon DEF StoreInv, Shapes, CallsShaped
      <3>2. call'[c] = call[c] => CallShaped(c)'
        BY <3>1, Zenon DEF CallShaped
      <3> QED BY <2>1, <3>2, Zenon DEF CallerChange
    <2>3. ASSUME NEW c \in Callers, forks'[c] # None PROVE DOMAIN forks'[c] = ForkFields
      BY <2>1, <2>3, Zenon DEF CallerChange
    <2> QED BY <2>1, <2>2, <2>3, Zenon DEF ForksShaped, CallsShaped
  <1>3. DOMAIN stored' = Names
    BY StateChanges, Zenon
  <1>4. IsSandbox(sb)' /\ IsSandbox(cache)' /\ Asked'
    BY SbGood, CacheGood, RecShape, Zenon DEF Asked
  <1> QED BY <1>1, <1>2, <1>3, <1>4, VmGood, Counting, TasksShape, RecShape, FinGood, Zenon
      DEF Shapes

(* At the start nothing is asked for and nothing is stored. *)
LEMMA StoreInit ==
  ASSUME Init
  PROVE  StoreInv
  <1>1. sb.gen = 0 /\ sb.req = NoRequest /\ DOMAIN sb = SandboxFields /\ cache = sb
    <2>1. sb = [phase |-> "Running", want |-> "Running", req |-> NoRequest, gen |-> 0]
      BY Zenon DEF Init
    <2>2. sb.gen = 0 /\ sb.req = NoRequest
      BY <2>1, SMT
    <2>3. DOMAIN sb = SandboxFields
      BY <2>1, Zenon DEF SandboxFields
    <2> QED BY <2>2, <2>3, Zenon DEF Init
  <1>2. NoRequest.name = None /\ DOMAIN NoRequest = RequestFields
    BY Zenon DEF NoRequest, RequestFields
  <1>3. IsSandbox(sb) /\ IsSandbox(cache)
    <2>1. 0 \in Nat
      BY SMT
    <2> QED BY <1>1, <1>2, <2>1, Zenon DEF IsSandbox
  <1>4. rec.pc = "idle" /\ fin.pc = "idle" /\ DOMAIN rec = RecFields /\ DOMAIN fin = FinFields
    <2>1. rec = RecIdle /\ fin = FinIdle
      BY Zenon DEF Init
    <2>2. DOMAIN RecIdle = RecFields /\ RecIdle.pc = "idle"
      BY Zenon DEF RecIdle, RecFields
    <2>3. DOMAIN FinIdle = FinFields /\ FinIdle.pc = "idle"
      BY Zenon DEF FinIdle, FinFields
    <2> QED BY <2>1, <2>2, <2>3, Zenon
  <1>5. Asked /\ RecShaped /\ FinShaped
    BY <1>1, <1>2, <1>4, Zenon DEF Asked, RecShaped, FinShaped, Named
  <1>6. DOMAIN vm = {"running", "gen"} /\ vm.gen \in Nat
    <2>1. vm = [running |-> TRUE, gen |-> 0]
      BY Zenon DEF Init
    <2>2. vm.gen \in Nat
      BY <2>1, SMT
    <2> QED BY <2>1, <2>2, Zenon
  <1>7. tries \in Nat /\ tries <= MaxAttempts
    BY RequestConstants, SMT DEF Init
  <1>8. /\ DOMAIN stored = Names /\ DOMAIN snaps = Names /\ DOMAIN forks = Callers
        /\ \A n \in Names : ~Exists(n)
        /\ \A c \in Callers : forks[c] = None
    BY Zenon DEF Init, Exists
  <1>9. CallsShaped
    <2>1. DOMAIN call = Callers
      BY Zenon DEF Init
    <2>2. ASSUME NEW c \in Callers PROVE CallShaped(c)
      <3>1. PICK p \in {"idle", "done"} : call[c] = [pc |-> p, name |-> None]
        BY Zenon DEF Init
      <3>2. call[c].pc = p
        BY <3>1, SMT
      <3>3. DOMAIN call[c] = CallFields
        BY <3>1, Zenon DEF CallFields
      <3> QED BY <3>2, <3>3, Zenon DEF CallShaped, Waiting
    <2> QED BY <2>1, <2>2, Zenon DEF CallsShaped
  <1>10. TasksShaped /\ Tasks
    <2>1. DOMAIN na = Attempts
      BY Zenon DEF Init
    <2>2. ASSUME NEW i \in Attempts PROVE TaskShaped(i) /\ na[i].pc = "idle"
      <3>1. na[i] = [pc |-> "idle", name |-> None, gen |-> 0, inside |-> 0]
        BY Zenon DEF Init
      <3>2. na[i].pc = "idle" /\ na[i].gen \in Nat /\ na[i].inside \in Nat
        BY <3>1, SMT
      <3>3. DOMAIN na[i] = TaskFields
        BY <3>1, Zenon DEF TaskFields
      <3> QED BY <3>2, <3>3, Zenon DEF TaskShaped
    <2> QED BY <2>1, <2>2, Zenon DEF TasksShaped, Tasks
  <1>11. Shapes
    BY <1>3, <1>5, <1>6, <1>7, <1>8, <1>9, <1>10, Zenon DEF Shapes, SnapsShaped, ForksShaped
  <1>12. GoodRec /\ GoodFin
    BY <1>4, Zenon DEF GoodRec, GoodFin, Owning, Named, Unsent, Sent, Answered, Finishing
  <1> QED BY <1>8, <1>10, <1>11, <1>12, Zenon DEF StoreInv, GoodSnaps, ForksDone

(* Every step keeps the invariant of the store. *)
LEMMA StoreStep ==
  ASSUME NoneIsNone, StoreInv, Counts, [Next]_vars
  PROVE  StoreInv'
  BY ShapesGood, SnapsGood, ForksTasksGood, RecGood, FinGood, Zenon DEF StoreInv

(* A reconcile that is done with its snapshot left it in the store. *)
LEMMA AfterStored ==
  ASSUME StoreInv, rec.pc = "after"
  PROVE  stored[name] # None \/ ~Exists(name) \/ snaps[name].deleting
  <1>1. name \in Names
    BY Zenon DEF StoreInv, Shapes, RecShaped, Named
  <1>2. na[rec.try].pc = "ok" /\ (Exists(name) => snaps[name].uid = rec.try)
    BY <1>1, Zenon DEF StoreInv, GoodRec, Answered, Sent, Owning, Named
  <1> QED BY <1>1, <1>2, Zenon DEF StoreInv, GoodSnaps, GoodSnap, HasState

(* An attempt takes the generation above the Sandbox's with it when it is     *)
(* sent, and keeps it.                                                        *)
Sends(i) ==
  /\ na[i].pc = "idle" /\ i = tries /\ na'[i].pc = "pause" /\ na'[i].gen = sb.gen + 1
  /\ UNCHANGED <<sb, tries, vm, snaps, stored>>
Keeps(i) ==
  /\ na'[i].gen = na[i].gen /\ (na'[i].pc # "idle" <=> na[i].pc # "idle")
  /\ na[i].pc \in Raised => na'[i].pc \in Raised

(* Every step of a task sends it or keeps its generation. *)
LEMMA TaskGen ==
  ASSUME StoreInv, TokenInv, [Next]_vars, NEW i \in Attempts
  PROVE  Sends(i) \/ Keeps(i)
  <1>1. TaskChange(i)
    BY TaskChanges, Zenon
  <1>2. CASE na'[i] = na[i]
    BY <1>2, Zenon DEF Keeps
  <1>3. CASE Works(i)
    BY <1>3, Zenon DEF Works, Keeps, Raised
  <1>4. CASE Starts(i)
    <2>1. na'[i] = [pc |-> "pause", name |-> name, gen |-> nextIdentityGeneration(rec.sb), inside |-> 0]
      BY <1>4, Zenon DEF Starts
    <2>2. na'[i].gen = nextIdentityGeneration(rec.sb) /\ na'[i].pc = "pause"
      BY <2>1, SMT
    <2>3. rec.sb.gen = sb.gen
      BY <1>4, Zenon DEF Starts, TokenInv, CopyCurrent, Current
    <2>4. na[i].pc = "idle" /\ i = tries
      BY <1>4, Zenon DEF Starts, StoreInv, GoodRec, Unsent, Owning, Named
    <2> QED BY <1>4, <2>2, <2>3, <2>4, Zenon DEF Starts, Sends, nextIdentityGeneration
  <1> QED BY <1>1, <1>2, <1>3, <1>4, Zenon DEF TaskChange

(* The generations are numbers, and a task that was sent belongs to an      *)
(* attempt so far.                                                          *)
LEMMA GensNat ==
  ASSUME StoreInv
  PROVE  /\ sb.gen \in Nat /\ vm.gen \in Nat /\ tries \in Nat
         /\ \A i \in Attempts : na[i].gen \in Nat /\ na[i].inside \in Nat
         /\ \A i \in Attempts : i \in Nat /\ (na[i].pc # "idle" => i \in 1 .. tries)
  <1>1. /\ sb.gen \in Nat /\ vm.gen \in Nat /\ tries \in Nat
        /\ \A i \in Attempts : na[i].gen \in Nat /\ na[i].inside \in Nat
        /\ \A i \in Attempts : i > tries => na[i].pc = "idle"
    BY Zenon DEF StoreInv, Shapes, IsSandbox, TasksShaped, TaskShaped, Tasks
  <1>2. ASSUME NEW i \in Attempts PROVE i \in Nat /\ (~(i > tries) => i \in 1 .. tries)
    BY <1>1, RequestConstants, SMT DEF Attempts
  <1> QED BY <1>1, <1>2, Zenon

(* The order of the generations is kept. *)
LEMMA GensGood ==
  ASSUME StoreInv, StoreInv', TokenInv, [Next]_vars
  PROVE  Gens'
  <1>1. /\ sb.gen \in Nat /\ vm.gen \in Nat /\ tries \in Nat
        /\ \A i \in Attempts : na[i].gen \in Nat /\ na[i].inside \in Nat
        /\ \A i \in Attempts : i \in Nat /\ (na[i].pc # "idle" => i \in 1 .. tries)
    BY GensNat, Zenon
  <1>2. sb'.gen >= sb.gen /\ sb'.gen \in Nat
    BY SbGood, Zenon DEF IsSandbox
  <1>3. ASSUME NEW i \in Attempts, na'[i].pc # "idle" PROVE na'[i].gen > 0 /\ na'[i].gen <= sb'.gen + 1
    <2>1. CASE Sends(i)
      <3>1. na'[i].gen = sb.gen + 1 /\ sb' = sb
        BY <2>1, Zenon DEF Sends
      <3> QED BY <1>1, <3>1, SMT
    <2>2. CASE Keeps(i)
      <3>1. na'[i].gen = na[i].gen /\ na[i].gen > 0 /\ na[i].gen <= sb.gen + 1
        BY <1>3, <2>2, Zenon DEF Keeps, TokenInv, Gens
      <3> QED BY <1>1, <1>2, <3>1, SMT
    <2> QED BY <2>1, <2>2, TaskGen, Zenon
  <1>4. ASSUME NEW i \in Attempts, NEW j \in Attempts, j < i, na'[j].pc # "idle", na'[i].pc # "idle"
        PROVE  na'[j].gen <= na'[i].gen
    <2>1. CASE Sends(j)
      <3>1. j = tries /\ tries' = tries
        BY <2>1, Zenon DEF Sends
      <3>2. i > tries'
        BY <1>1, <1>4, <3>1, SMT
      <3> QED BY <1>4, <3>2, Zenon DEF StoreInv, Tasks
    <2>2. CASE Keeps(j) /\ Sends(i)
      <3>1. na'[i].gen = sb.gen + 1 /\ na'[j].gen = na[j].gen /\ na[j].gen <= sb.gen + 1
        BY <1>4, <2>2, Zenon DEF Keeps, Sends, TokenInv, Gens
      <3> QED BY <3>1, Zenon
    <2>3. CASE Keeps(j) /\ Keeps(i)
      BY <1>4, <2>3, Zenon DEF Keeps, TokenInv, Gens, Earlier
    <2> QED BY <2>1, <2>2, <2>3, TaskGen, Zenon
  <1>5. ASSUME vm'.gen > 0 PROVE \E k \in 1 .. tries' : na'[k].pc \in Raised /\ na'[k].gen = vm'.gen
    <2>1. CASE vm'.gen = vm.gen
      <3>1. PICK k \in 1 .. tries : na[k].pc \in Raised /\ na[k].gen = vm.gen
        BY <1>5, <2>1, Zenon DEF TokenInv, Gens
      <3>2. k \in Attempts /\ k \in 1 .. tries'
        BY Counting, Zenon
      <3>3. Keeps(k)
        BY <3>1, <3>2, TaskGen, Zenon DEF Sends, Raised
      <3> QED BY <2>1, <3>1, <3>2, <3>3, Zenon DEF Keeps
    <2>2. ASSUME NEW i \in Attempts, Raises(i) PROVE na'[i].pc \in Raised /\ na'[i].gen = vm'.gen /\ i \in 1 .. tries'
      <3>1. DOMAIN na = Attempts /\ DOMAIN na[i] = TaskFields
        BY Zenon DEF StoreInv, Shapes, TasksShaped, TaskShaped
      <3>2. na'[i].pc = "resume" /\ na'[i].gen = na[i].gen
        BY <2>2, <3>1, Zenon DEF Raises, TaskFields
      <3> QED BY <1>1, <2>2, <3>2, Zenon DEF Raises, Raised
    <2> QED BY <2>1, <2>2, VmGood, Zenon
  <1> QED BY <1>3, <1>4, <1>5, Zenon DEF Gens, Earlier

(* Retired tokens stay retired. *)
LEMMA RetiredKept ==
  ASSUME StoreInv, TokenInv, [Next]_vars, NEW i \in Attempts, Retired(i), na[i].pc # "idle",
         na'[i].inside = na[i].inside
  PROVE  Retired(i)'
  <1>1. na'[i].gen = na[i].gen
    BY TaskGen, Zenon DEF Sends, Keeps
  <1>2. ASSUME NEW j \in 1 .. i - 1, na[j].pc # "idle", na[j].gen = na[i].gen
        PROVE  na'[j].pc # "idle" /\ na'[j].gen = na'[i].gen
    <2>1. j \in Attempts
      BY RequestConstants, SMT DEF Attempts
    <2> QED BY <1>1, <1>2, <2>1, TaskGen, Zenon DEF Sends, Keeps
  <1> QED BY <1>1, <1>2, Zenon DEF Retired

(* The attempt that takes its snapshot has a generation that no token in the  *)
(* memory has, unless an earlier attempt came with the same.                  *)
LEMMA RetiredTaken ==
  ASSUME StoreInv, TokenInv, [Next]_vars, NEW i \in Attempts, i = tries, na[i].pc = "take",
         na'[i].inside = vm.gen
  PROVE  Retired(i)'
  <1>1. /\ vm.gen \in Nat /\ tries \in Nat /\ na[i].gen \in Nat /\ na[i].gen > 0
    BY GensNat, Zenon DEF TokenInv, Gens
  <1>2. na'[i].gen = na[i].gen
    BY TaskGen, Zenon DEF Sends, Keeps
  <1>3. CASE vm.gen = 0
    <2>1. na'[i].inside < na'[i].gen
      BY <1>1, <1>2, <1>3, SMT
    <2> QED BY <2>1, Zenon DEF Retired
  <1>4. CASE vm.gen > 0
    <2>1. PICK k \in 1 .. tries : na[k].pc \in Raised /\ na[k].gen = vm.gen
      BY <1>4, Zenon DEF TokenInv, Gens
    <2>2. k # i
      BY <2>1, Zenon DEF Raised
    <2>3. k \in Attempts /\ k < i /\ k \in 1 .. i - 1
      <3>1. k \in Attempts
        BY Counting, Zenon
      <3> QED BY <1>1, <2>2, <3>1, SMT
    <2>4. na[k].pc # "idle"
      BY <2>1, Zenon DEF Raised
    <2>5. na[k].gen <= na[i].gen
      BY <2>3, <2>4, Zenon DEF TokenInv, Gens, Earlier
    <2>6. na'[k].pc # "idle" /\ na'[k].gen = na[k].gen
      BY <2>3, <2>4, TaskGen, Zenon DEF Sends, Keeps
    <2>7. CASE vm.gen = na[i].gen
      BY <1>2, <2>1, <2>3, <2>6, <2>7, Zenon DEF Retired
    <2>8. CASE vm.gen # na[i].gen
      <3>1. na'[i].inside < na'[i].gen
        BY <1>1, <1>2, <2>1, <2>5, <2>8, SMT
      <3> QED BY <3>1, Zenon DEF Retired
    <2> QED BY <2>7, <2>8, Zenon
  <1>5. vm.gen = 0 \/ vm.gen > 0
    BY <1>1, SMT
  <1> QED BY <1>3, <1>4, <1>5, Zenon

(* The copy has the generation of the Sandbox up to where it is recorded. *)
LEMMA CopyGood ==
  ASSUME StoreInv, TokenInv, [Next]_vars
  PROVE  CopyCurrent'
  <1> SUFFICES ASSUME rec'.pc \in Current PROVE rec'.sb.gen = sb'.gen
    BY Zenon DEF CopyCurrent
  <1>1. DOMAIN rec = RecFields
    BY Zenon DEF StoreInv, Shapes, RecShaped
  <1>2. sb'.gen = sb.gen
    <2>1. rec' = [rec EXCEPT !.pc = "ref"] => rec'.pc = "ref"
      BY <1>1, Zenon DEF RecFields
    <2> QED BY <2>1, SbGood, Zenon DEF Current
  <1>3. rec.pc \in Current => rec.sb.gen = sb.gen
    BY Zenon DEF TokenInv, CopyCurrent
  <1>4. CASE rec' = rec
    BY <1>2, <1>3, <1>4, Zenon
  <1>5. CASE rec' = RecIdle
    <2>1. RecIdle.pc = "idle"
      BY Zenon DEF RecIdle
    <2> QED BY <1>5, <2>1, Zenon DEF Current
  <1>6. CASE lifecycle
    <2>1. PICK p \in {"pause", "resume", "idle", "mark", "rollback"} : rec' = [pc |-> p, sb |-> cache, try |-> 0]
      BY <1>6, Zenon DEF lifecycle, existing
    <2>2. rec'.pc = p
      BY <2>1, SMT
    <2> QED BY <2>2, Zenon DEF Current
  <1>7. CASE rec' = [rec EXCEPT !.pc = "parent", !.sb = sb']
    <2>1. rec'.sb = sb'
      BY <1>1, <1>7, Zenon DEF RecFields
    <2> QED BY <2>1, Zenon
  <1>8. ASSUME NEW p, rec' = [rec EXCEPT !.pc = p], p \in Current => rec.pc \in Current
        PROVE  rec'.sb.gen = sb'.gen
    <2>1. rec'.sb = rec.sb /\ rec'.pc = p
      BY <1>1, <1>8, Zenon DEF RecFields
    <2> QED BY <1>2, <1>3, <1>8, <2>1, Zenon
  <1>9. CASE Comes(name)
    <2>1. rec' = [[rec EXCEPT !.pc = "creating"] EXCEPT !.try = tries + 1] /\ rec.pc \in Current
      BY <1>9, Zenon DEF Comes, Current
    <2>2. rec'.sb = rec.sb
      BY <1>1, <2>1, Zenon DEF RecFields
    <2> QED BY <1>2, <1>3, <2>1, <2>2, Zenon
  <1> QED BY <1>4, <1>5, <1>6, <1>7, <1>8, <1>9, RecChanges, Zenon DEF RecChange

(* The tokens in the memory of the attempt underway are retired once it has *)
(* its snapshot.                                                            *)
LEMMA OwnGood ==
  ASSUME NoneIsNone, StoreInv, TokenInv, [Next]_vars
  PROVE  OwnTokens'
  <1> DEFINE i == rec.try
  <1>0. DOMAIN rec = RecFields
    BY Zenon DEF StoreInv, Shapes, RecShaped
  <1>1. CASE rec'.pc \notin Recording
    BY <1>1, Zenon DEF OwnTokens, Recording
  <1>2. CASE Comes(name)
    <2>1. rec' = [[rec EXCEPT !.pc = "creating"] EXCEPT !.try = tries + 1]
      BY <1>2, Zenon DEF Comes
    <2>2. rec'.pc = "creating"
      BY <1>0, <2>1, Zenon DEF RecFields
    <2> QED BY <1>1, <2>2, Zenon DEF Recording
  <1>3. ASSUME rec'.pc \in Recording, rec'.try = rec.try, rec.pc \in Owning,
               \/ rec'.pc = rec.pc
               \/ Moves(rec'.pc)
        PROVE  OwnTokens'
    <2>1. i \in Attempts /\ i = tries
      BY <1>3, OwnerKept, Zenon
    <2>2. rec.pc \in Recording \/ (rec'.pc = "rpc" /\ Starts(i))
      BY <1>3, Zenon DEF Moves, Recording
    <2>3. CASE Starts(i)
      <3>1. na'[i] = [pc |-> "pause", name |-> name, gen |-> nextIdentityGeneration(rec.sb), inside |-> 0]
            /\ rec' = [rec EXCEPT !.pc = "rpc"]
        BY <2>3, Zenon DEF Starts
      <3>2. na'[i].pc = "pause"
        BY <3>1, SMT
      <3>3. rec'.pc = "rpc"
        BY <1>0, <3>1, Zenon DEF RecFields
      <3> QED BY <1>3, <3>2, <3>3, Zenon DEF OwnTokens, Frozen
    <2>4. ASSUME ~Starts(i), na'[i].pc \in Frozen PROVE Retired(i)'
      <3>1. rec.pc \in Recording
        BY <2>2, <2>4, Zenon
      <3>2. na[i].pc \in Frozen => Retired(i) /\ na[i].pc # "idle"
        BY <3>1, Zenon DEF TokenInv, OwnTokens, Frozen
      <3>3. ASSUME NEW k \in Attempts, k = i, na[k].pc \in Frozen, na'[k].inside = na[k].inside PROVE Retired(k)'
        BY <3>2, <3>3, RetiredKept, Zenon
      <3>4. ASSUME NEW k \in Attempts, k = i, na[k].pc = "take", na'[k].inside = vm.gen PROVE Retired(k)'
        BY <2>1, <3>4, RetiredTaken, Zenon
      <3>5. \/ na[i].pc \in Frozen /\ na'[i].inside = na[i].inside
            \/ na[i].pc = "take" /\ na'[i].inside = vm.gen
        <4>1. na'[i] = na[i] \/ Works(i)
          BY <2>1, <2>4, TaskChanges, Zenon DEF TaskChange
        <4>2. "take" \notin Frozen
          BY Zenon DEF Frozen
        <4> QED BY <2>4, <4>1, <4>2, Zenon DEF Works
      <3>6. \A k \in Attempts : k = i => Retired(k)'
        BY <3>3, <3>4, <3>5, Zenon
      <3> QED BY <1>3, <2>1, <3>6, Zenon DEF Retired
    <2>5. ASSUME ~Starts(i), rec'.pc \in {"ref", "ready"} PROVE na'[i].gen <= sb'.gen
      <3>1. sb.gen \in Nat /\ sb'.gen \in Nat /\ sb'.gen >= sb.gen /\ na[i].gen \in Nat
        BY <2>1, GensNat, SbGood, Zenon DEF IsSandbox
      <3>2. na'[i].gen = na[i].gen
        <4>1. na[i].pc # "idle"
          <5>1. rec.pc \in Sent
            BY <2>2, <2>5, Zenon DEF Recording, Sent
          <5> QED BY <5>1, Zenon DEF StoreInv, GoodRec
        <4> QED BY <2>1, <4>1, TaskGen, Zenon DEF Sends, Keeps
      <3>3. \/ na[i].gen <= sb.gen
            \/ sb'.gen = IF sb.gen < na[i].gen THEN na[i].gen ELSE sb.gen
        <4>1. CASE rec'.pc = rec.pc
          BY <2>5, <4>1, Zenon DEF TokenInv, OwnTokens
        <4>2. CASE Moves(rec'.pc)
          BY <2>5, <4>2, Zenon DEF Moves, TokenInv, OwnTokens
        <4> QED BY <1>3, <4>1, <4>2, Zenon
      <3> HIDE DEF i
      <3> QED BY <3>1, <3>2, <3>3, SMT
    <2>6. ASSUME ~Starts(i) PROVE OwnTokens'
      BY <1>3, <2>4, <2>5, <2>6, Zenon DEF OwnTokens, Retired
    <2> QED BY <2>3, <2>6, Zenon
  <1>4. ASSUME NEW p, rec.pc \in Owning, rec' = [rec EXCEPT !.pc = p], Moves(p) PROVE OwnTokens'
    <2>1. rec'.pc = p /\ rec'.try = rec.try
      BY <1>0, <1>4, Zenon DEF RecFields
    <2> QED BY <1>1, <1>3, <1>4, <2>1, Zenon
  <1>5. ASSUME rec' = rec, rec'.pc \in Recording PROVE OwnTokens'
    <2>1. rec.pc \in Owning
      BY <1>5, Zenon DEF Recording, Owning, Named
    <2> QED BY <1>3, <1>5, <2>1, Zenon
  <1>6. rec'.pc \in Recording => rec'.pc \in Owning
    BY Zenon DEF Recording, Owning, Named
  <1> QED BY <1>1, <1>2, <1>4, <1>5, <1>6, RecMoves, Zenon

(* An attempt that stored its state does no more. *)
LEMMA OkKept ==
  ASSUME StoreInv, [Next]_vars, NEW i \in Attempts, na[i].pc = "ok"
  PROVE  na'[i] = na[i]
  <1>1. TaskChange(i)
    BY TaskChanges, Zenon
  <1>2. ~Starts(i)
    BY Zenon DEF Starts, StoreInv, GoodRec, Unsent
  <1> QED BY <1>1, <1>2, Zenon DEF TaskChange, Works

(* What the store holds is what the attempt that wrote it took. *)
LEMMA StoredGood ==
  ASSUME StoreInv, TokenInv, [Next]_vars
  PROVE  StoredTokens'
  <1> SUFFICES ASSUME NEW n \in Names, stored'[n] # None
               PROVE  /\ stored'[n].uid \in 1 .. tries' /\ na'[stored'[n].uid].pc = "ok"
                      /\ stored'[n].inside = na'[stored'[n].uid].inside
    BY Zenon DEF StoredTokens
  <1>1. StateChange(n) /\ ~Erases(n)
    BY StateChanges, Zenon DEF Erases
  <1>2. CASE stored'[n] = stored[n]
    <2>1. /\ stored[n].uid \in 1 .. tries /\ na[stored[n].uid].pc = "ok"
          /\ stored[n].inside = na[stored[n].uid].inside
      BY <1>2, Zenon DEF TokenInv, StoredTokens
    <2>2. stored[n].uid \in Attempts /\ stored[n].uid \in 1 .. tries'
      BY <2>1, Counting, Zenon
    <2>3. na'[stored[n].uid] = na[stored[n].uid]
      BY <2>1, <2>2, OkKept, Zenon
    <2> QED BY <1>2, <2>1, <2>2, <2>3, Zenon
  <1>3. ASSUME NEW i \in Attempts, Saves(n, i)
        PROVE  /\ stored'[n].uid \in 1 .. tries' /\ na'[stored'[n].uid].pc = "ok"
               /\ stored'[n].inside = na'[stored'[n].uid].inside
    <2>1. stored'[n] = [uid |-> i, inside |-> na[i].inside]
      BY <1>3, Zenon DEF Saves
    <2>2. stored'[n].uid = i /\ stored'[n].inside = na[i].inside
      BY <2>1, SMT
    <2>3. na[i].pc # "idle"
      BY <1>3, Zenon DEF Saves
    <2>4. i \in 1 .. tries'
      BY <2>3, GensNat, Counting, Zenon
    <2> QED BY <1>3, <2>2, <2>4, Zenon DEF Saves
  <1> QED BY <1>1, <1>2, <1>3, Zenon DEF StateChange

(* A Snapshot becomes Ready after its generation was recorded. *)
LEMMA ReadyGood ==
  ASSUME NoneIsNone, StoreInv, TokenInv, [Next]_vars
  PROVE  ReadyTokens'
  <1> SUFFICES ASSUME NEW n \in Names, InPhase(n, {"Ready"})'
               PROVE  (Retired(snaps[n].uid) /\ na[snaps[n].uid].gen <= sb.gen)'
    BY Zenon DEF ReadyTokens
  <1> DEFINE i == snaps[n].uid
  <1>1. snaps'[n] # None /\ snaps'[n].phase = "Ready"
    BY Zenon DEF InPhase, Exists
  <1>2. Stays(n)
    <2>1. SnapChange(n)
      BY SnapChanges, Zenon
    <2>2. ASSUME Comes(n) PROVE FALSE
      <3>1. DOMAIN snaps = Names
        BY Zenon DEF StoreInv, Shapes, SnapsShaped
      <3>2. snaps'[n] = newSnapshotCR(rec.sb.req, tries + 1)
        BY <2>2, <3>1, Zenon DEF Comes
      <3>3. newSnapshotCR(rec.sb.req, tries + 1).phase # "Ready"
        BY NewSnap, Zenon
      <3> QED BY <1>1, <3>2, <3>3, Zenon
    <2> QED BY <1>1, <2>1, <2>2, Zenon DEF SnapChange, Leaves
  <1>3. /\ Exists(n) /\ snaps'[n].uid = i
        /\ snaps[n].phase = "Ready" \/ (rec.pc = "ready" /\ n = name)
    BY <1>1, <1>2, Zenon DEF Stays
  <1>4. i \in 1 .. tries /\ i \in Attempts
    BY <1>3, Counting, Zenon DEF StoreInv, GoodSnaps, GoodSnap
  <1>5. na[i].pc = "ok" /\ Retired(i) /\ na[i].gen <= sb.gen
    <2>1. CASE snaps[n].phase = "Ready"
      BY <1>3, <2>1, Zenon DEF StoreInv, GoodSnaps, GoodSnap, TokenInv, ReadyTokens, InPhase
    <2>2. CASE rec.pc = "ready" /\ n = name
      <3>1. i = rec.try /\ na[rec.try].pc = "ok"
        BY <1>3, <2>2, Zenon DEF StoreInv, GoodRec, Answered, Sent, Owning, Named
      <3> QED BY <2>2, <3>1, Zenon DEF TokenInv, OwnTokens, Recording, Frozen
    <2> QED BY <1>3, <2>1, <2>2, Zenon
  <1>6. na'[i] = na[i]
    BY <1>4, <1>5, OkKept, Zenon
  <1>7. ASSUME NEW k \in Attempts, k = i PROVE Retired(k)'
    BY <1>5, <1>6, <1>7, RetiredKept, Zenon
  <1>8. na'[i].gen <= sb'.gen
    <2>1. sb.gen \in Nat /\ sb'.gen \in Nat /\ sb'.gen >= sb.gen /\ na[i].gen \in Nat
      BY <1>4, GensNat, SbGood, Zenon DEF IsSandbox
    <2> HIDE DEF i
    <2> QED BY <1>5, <1>6, <2>1, SMT
  <1> QED BY <1>3, <1>4, <1>7, <1>8, Zenon DEF Retired

(* At the start there is no token of a later generation. *)
LEMMA TokenInit ==
  ASSUME Init
  PROVE  TokenInv
  <1>1. \A i \in Attempts : na[i].pc = "idle"
    <2>1. ASSUME NEW i \in Attempts PROVE na[i].pc = "idle"
      <3>1. na[i] = [pc |-> "idle", name |-> None, gen |-> 0, inside |-> 0]
        BY Zenon DEF Init
      <3> QED BY <3>1, SMT
    <2> QED BY <2>1, Zenon
  <1>2. rec.pc = "idle"
    BY Zenon DEF Init, RecIdle
  <1>3. ~(vm.gen > 0)
    <2>1. vm = [running |-> TRUE, gen |-> 0]
      BY Zenon DEF Init
    <2> QED BY <2>1, SMT
  <1>4. \A n \in Names : stored[n] = None /\ ~Exists(n)
    BY Zenon DEF Init, Exists
  <1> QED BY <1>1, <1>2, <1>3, <1>4, Zenon DEF TokenInv, Gens, Earlier, CopyCurrent, OwnTokens,
    StoredTokens, ReadyTokens, InPhase, Current, Recording

(* What the invariant of the tokens says of a Ready Snapshot. *)
LEMMA TokenImplies ==
  ASSUME StoreInv, TokenInv
  PROVE  TokensRetired
  <1> SUFFICES ASSUME NEW n \in Names, InPhase(n, {"Ready"}), stored[n] # None,
                      stored[n].uid = snaps[n].uid
               PROVE  \/ stored[n].inside < sb.gen
                      \/ \E j \in 1 .. stored[n].uid - 1 : na[j].pc # "idle" /\ na[j].gen = na[stored[n].uid].gen
    BY Zenon DEF TokensRetired
  <1> DEFINE i == stored[n].uid
  <1>1. i \in 1 .. tries /\ stored[n].inside = na[i].inside
    BY Zenon DEF TokenInv, StoredTokens
  <1>2. Retired(i) /\ na[i].gen <= sb.gen
    BY Zenon DEF TokenInv, ReadyTokens
  <1>3. i \in Attempts
    <2>1. tries \in Nat /\ tries <= MaxAttempts /\ MaxAttempts \in Nat
      BY RequestConstants, Zenon DEF StoreInv, Shapes
    <2> HIDE DEF i
    <2> QED BY <1>1, <2>1, SMT DEF Attempts
  <1>4. na[i].gen \in Nat /\ na[i].inside \in Nat /\ sb.gen \in Nat
    BY <1>3, GensNat, Zenon
  <1>5. na[i].inside < na[i].gen => na[i].inside < sb.gen
    <2> HIDE DEF i
    <2> QED BY <1>2, <1>4, SMT
  <1> QED BY <1>1, <1>2, <1>5, Zenon DEF Retired

(* Every step keeps the invariant of the tokens. *)
LEMMA TokenStep ==
  ASSUME NoneIsNone, StoreInv, StoreInv', TokenInv, [Next]_vars
  PROVE  TokenInv'
  BY GensGood, CopyGood, OwnGood, StoredGood, ReadyGood, Zenon DEF TokenInv

------------------------------------------------------------------------------
INSTANCE FiniteSetTheorems

(* The callers and the attempts are finite, so the count is exact. *)
LEMMA NoReference ==
  ASSUME StoreInv
  PROVE  Counts
  <1> SUFFICES ASSUME NEW n \in Names
               PROVE  referenceCount(n) \in Nat /\ (referenceCount(n) = 0 => Users(n) = {})
    BY Zenon DEF Counts
  <1>1. IsFiniteSet(Loading(n))
    BY RequestConstants, FS_Subset, Zenon DEF Loading
  <1>2. IsFiniteSet(Diffs(n))
    <2>1. \A m \in Names : Exists(m) => snaps[m].uid \in 1 .. tries
      BY Zenon DEF StoreInv, GoodSnaps, GoodSnap
    <2>2. Diffs(n) \subseteq 1 .. tries
      BY <2>1, Zenon DEF Diffs
    <2>3. 1 \in Int /\ tries \in Int
      BY SMT DEF StoreInv, Shapes
    <2>4. IsFiniteSet(1 .. tries)
      BY <2>3, FS_Interval, Zenon
    <2> QED BY <2>2, <2>4, FS_Subset, Zenon
  <1>3. Cardinality(Loading(n)) \in Nat /\ (Cardinality(Loading(n)) = 0 <=> Loading(n) = {})
    BY <1>1, FS_CardinalityType, FS_EmptySet, Zenon
  <1>4. Cardinality(Diffs(n)) \in Nat /\ (Cardinality(Diffs(n)) = 0 <=> Diffs(n) = {})
    BY <1>2, FS_CardinalityType, FS_EmptySet, Zenon
  <1>5. ASSUME NEW a \in Nat, NEW b \in Nat PROVE a + b \in Nat /\ (a + b = 0 => a = 0 /\ b = 0)
    BY <1>5, SMT
  <1> QED BY <1>3, <1>4, <1>5, Zenon DEF referenceCount, Users

(* The invariant of the store: coordinator.go creates the object, calls the *)
(* node agent, records the storage reference and marks Ready, in this       *)
(* order, against deletions, lost answers, restarts and the finalizer of    *)
(* the Snapshot reconciler.                                                 *)
THEOREM StoreSafe ==
  ASSUME NoneIsNone
  PROVE  Spec => []StoreInv
  <1>1. Init => StoreInv
    BY StoreInit, Zenon
  <1>2. StoreInv /\ [Next]_vars => StoreInv'
    BY NoReference, StoreStep, Zenon
  <1> QED BY <1>1, <1>2, PTL DEF Spec

(* A Snapshot that reads Ready and is not being deleted has its state in    *)
(* the store, written by its own attempt (CreateSnapshot in                 *)
(* coordinator.go), for any names, callers, requests, deletions and faults. *)
THEOREM ReadySafe ==
  ASSUME NoneIsNone
  PROVE  Spec => []ReadyIsStored
  <1>1. StoreInv => ReadyIsStored
    BY Zenon DEF StoreInv, GoodSnaps, GoodSnap, HasState, ReadyIsStored, InPhase
  <1> QED BY <1>1, StoreSafe, PTL

(* The state of a Snapshot that is being deleted stays in the store while a *)
(* Sandbox or a diff that counted when the deletion came still needs it     *)
(* (referenceCount and finalizeSnapshot in the Snapshot reconciler).        *)
THEOREM HeldSafe ==
  ASSUME NoneIsNone
  PROVE  Spec => []HeldNotErased
  <1>1. StoreInv => HeldNotErased
    BY Zenon DEF StoreInv, GoodSnaps, GoodSnap, HasState, HeldNotErased, Users
  <1> QED BY <1>1, StoreSafe, PTL

(* The step that ends a Sandbox with afterCreate=Terminated finds the state *)
(* in the store, or the Snapshot gone or being deleted (requestSnapshot and *)
(* applyAfterCreate in the Sandbox reconciler).                             *)
THEOREM TerminatedSafe ==
  ASSUME NoneIsNone
  PROVE  Spec => TerminatedOnlyWhenStored
  <1>1. StoreInv => [rec.pc = "after" /\ ~Gone /\ Gone'
                       => stored[name] # None \/ ~Exists(name) \/ snaps[name].deleting]_vars
    BY AfterStored, Zenon
  <1> QED BY <1>1, StoreSafe, PTL DEF TerminatedOnlyWhenStored

(* No token in the memory that the attempt of a Ready Snapshot stored is of *)
(* the generation of the Sandbox, unless an earlier attempt had the same    *)
(* generation (nextIdentityGeneration and recordIdentityGeneration in       *)
(* coordinator.go).                                                         *)
THEOREM TokensRetiredSafe ==
  ASSUME NoneIsNone
  PROVE  Spec => []TokensRetired
  <1>1. Init => TokenInv
    BY TokenInit, Zenon
  <1>2. StoreInv /\ StoreInv' /\ TokenInv /\ [Next]_vars => TokenInv'
    BY TokenStep, Zenon
  <1>3. StoreInv /\ TokenInv => TokensRetired
    BY TokenImplies, Zenon
  <1> QED BY <1>1, <1>2, <1>3, StoreSafe, PTL DEF Spec
=============================================================================
