------------------------ MODULE SessionObjectsProofs ------------------------
(* Proofs about SessionCheckpoint, second part: which objects the checkpoint  *)
(* store holds, also when a reconcile starts on caches that lag.              *)
EXTENDS SessionCheckpointProofs

------------------------------------------------------------------------------
(* The stored objects are the chain of the status, also when a reconcile    *)
(* reads caches that lag.                                                   *)

Clean == happened \cap {"crash", "answer", "patch", "delete"} = {}
There == {r \in Refs : store[r].there}
Reloading == {"restore", "scrap", "consume", "recovered"}
Reading == pc \notin Condemning \cup {"idle"}

(* A cache shows the object unless it lags; a reconcile restores into       *)
(* another Pod than the one its copy of the checkpoint names.               *)
Views ==
  /\ "sb" \notin lagging => cacheSb = sb
  /\ "pod" \notin lagging => cachePod = pod
  /\ ~missed => lagging = {}
  /\ pc \in Restoring => mem.ck.pod = 0 \/ obs.uid # mem.ck.pod

(* The copies that a reconcile may start from: the chain of the status, one *)
(* that misses the last checkpoint, or one that is consumed since.          *)
Twin(k, l) == k.ref = l.ref /\ k.seq = l.seq /\ k.parents = l.parents
Bounded(k) == (\A r \in Chain(k) : r <= k.seq) /\ (k.ref = 0 => k.parents = <<>>)
Older(k, l) == l.seq = k.seq + 1 /\ l.ref = l.seq
Gone(k, l) == k.ref # 0 /\ k.seq = l.seq /\ l.ref = 0 /\ l.parents = <<>>
Lineage(k, l, uids) ==
  /\ Bounded(k)
  /\ \/ Twin(k, l) \/ Older(k, l)
     \/ Gone(k, l) /\ \A u \in uids : u = 0 \/ u # k.pod

(* No reconcile started on caches that lag yet, and one still may. *)
First == "read" \notin lagging /\ (~missed \/ lagging # {})

Matches ==
  /\ pc \notin {"replace", "record", "recovered"} => There = Chain(sb.ck)
  /\ pc = "replace" => There = {job.seq} \cup Chain(sb.ck)
  /\ pc = "record" =>
       There = {job.seq} \cup IF job.parent = 0 THEN {} ELSE Chain(sb.ck)
  /\ pc = "recovered" => There = {}

Follows ==
  /\ Bounded(sb.ck)
  /\ Reading => Lineage(mem.ck, sb.ck, {pod.uid, cachePod.uid})
  /\ pc \in Storing =>
       /\ job.seq = mem.ck.seq + 1 /\ job.parent \in {0, mem.ck.ref}
       /\ Gone(mem.ck, sb.ck) => job.parent = 0
  /\ pc \in Stored => Twin(mem.ck, sb.ck) \/ Gone(mem.ck, sb.ck)
  /\ pc \in Reloading => Twin(mem.ck, sb.ck)

Starts ==
  /\ Reading => SameRefs(mem.ck, sb.ck) /\ SameRefs(cacheSb.ck, sb.ck)
  /\ Lineage(cacheSb.ck, sb.ck, {pod.uid, cachePod.uid})
  /\ pc # "idle" => {pod.uid, cachePod.uid} \subseteq {0, obs.uid}

ExactInv == Clean /\ ~Going(sb) => Matches /\ Follows /\ (First => Starts)

(* Which steps change the numbers of the status. *)
Records == recordCheckpoint /\ sb' = Merge(sb, mem, [mem EXCEPT !.ck = NewCheckpoint])
Recovers == recordRecovery /\ sb' = Merge(sb, mem, [mem EXCEPT !.ck = Consumed(mem)])

(* Only a recorded checkpoint, a recorded recovery and the end of the       *)
(* Sandbox change the numbers of the status.                                *)
LEMMA RefsChange ==
  ASSUME TypeInv, Step
  PROVE  SameRefs(sb'.ck, sb.ck) \/ Records \/ Recovers \/ sb' = NoSandbox
  <1>0. /\ sb \in Sandboxes /\ mem \in Sandboxes
        /\ DOMAIN sb = {"live", "deleting", "want", "phase", "reason", "ck"}
        /\ DOMAIN mem = {"live", "deleting", "want", "phase", "reason", "ck"}
        /\ DOMAIN mem.ck = {"ref", "seq", "pod", "parents", "pending", "recovery"}
    BY Zenon DEF TypeInv, Objects, Control, Sandboxes, SandboxType, CheckpointType
  <1>1. sb'.ck = sb.ck => SameRefs(sb'.ck, sb.ck)
    BY Zenon DEF SameRefs
  <1>2. ASSUME NEW c, SameRefs(c.ck, mem.ck), sb' = sb \/ sb' = Merge(sb, mem, c)
        PROVE  SameRefs(sb'.ck, sb.ck)
    BY <1>0, <1>1, <1>2, MergeRefs, Zenon
  <1>3. CASE recycleIfExpired \/ DeleteSandbox \/ \E w \in Wants : SetWant(w)
    BY <1>0, <1>1, <1>3, Zenon DEF recycleIfExpired, DeleteSandbox, SetWant
  <1>4. CASE releaseFinalizer
    BY <1>4, Zenon DEF releaseFinalizer
  <1>5. CASE markPending \/ markLost
    <2>1. SameRefs([mem EXCEPT !.ck.pending = TRUE].ck, mem.ck)
      BY <1>0, Zenon DEF SameRefs
    <2> QED BY <1>2, <1>5, <2>1, Zenon DEF markPending, markLost, Patch
  <1>6. ASSUME NEW ph, NEW why PROVE SameRefs(WithPhase(mem, ph, why).ck, mem.ck)
    BY <1>0, Zenon DEF WithPhase, SameRefs
  <1>7. CASE deriveStatus
    <2>1. SameRefs(Derive(mem, obs).ck, mem.ck)
      <3>1. SameRefs(mem.ck, mem.ck)
        BY Zenon DEF SameRefs
      <3> QED BY <1>6, <3>1, Zenon DEF Derive
    <2> QED BY <1>2, <1>7, <2>1, Zenon DEF deriveStatus, Patch
  <1>8. CASE recordCheckpoint
    <2>1. sb' = sb \/ sb' = Merge(sb, mem, [mem EXCEPT !.ck = NewCheckpoint])
      BY <1>8, Zenon DEF recordCheckpoint
    <2> QED BY <1>1, <1>8, <2>1, Zenon DEF Records
  <1>9. CASE recordRecovery
    <2>1. sb' = sb \/ sb' = Merge(sb, mem, [mem EXCEPT !.ck = Consumed(mem)])
      BY <1>9, Zenon DEF recordRecovery, PatchAndEnd
    <2> QED BY <1>1, <1>9, <2>1, Zenon DEF Recovers
  <1>10. CASE restartExitedSession
    <2>1. SameRefs([mem EXCEPT !.ck.recovery = "restarted"].ck, mem.ck)
      BY <1>0, Zenon DEF SameRefs
    <2> QED BY <1>2, <1>10, <2>1, Zenon DEF restartExitedSession, Patch
  <1>11. CASE patchPhase
    BY <1>2, <1>6, <1>11, Zenon DEF patchPhase, PatchAndEnd
  <1>12. CASE suspendSession
    <2>1. SameRefs(Suspended(mem).ck, mem.ck)
      BY <1>0, Zenon DEF SameRefs, Suspended
    <2> QED BY <1>2, <1>12, <2>1, Zenon DEF suspendSession, PatchAndEnd
  <1> QED BY <1>1, <1>3, <1>4, <1>5, <1>7, <1>8, <1>9, <1>10, <1>11, <1>12, OnlySbSteps, Zenon

(* A patch from a copy with the live numbers writes its own. *)
LEMMA MergeTwin ==
  ASSUME NEW a \in Sandboxes, NEW b \in Sandboxes, NEW c \in Sandboxes, Twin(b.ck, a.ck)
  PROVE  Twin(Merge(a, b, c).ck, c.ck)
  <1>1. Merge(a, b, c).ck = MergeCk(a.ck, b.ck, c.ck)
    BY Zenon DEF Merge, Sandboxes, SandboxType
  <1>2. DOMAIN a.ck = {"ref", "seq", "pod", "parents", "pending", "recovery"}
    BY Zenon DEF Sandboxes, SandboxType, CheckpointType
  <1> QED BY <1>1, <1>2, Zenon DEF Twin, MergeCk, Pick

(* Twins have the same chain. *)
LEMMA TwinBounds ==
  ASSUME NEW k, NEW l, Twin(k, l)
  PROVE  Chain(k) = Chain(l) /\ (Bounded(l) => Bounded(k))
  <1>1. Chain(k) = Chain(l)
    BY Zenon DEF Twin, Chain
  <1> QED BY <1>1, Zenon DEF Twin, Bounded

(* Equal references make twins. *)
LEMMA RefsTwin ==
  ASSUME NEW k, NEW l, SameRefs(k, l)
  PROVE  Twin(k, l)
  BY Zenon DEF SameRefs, Twin

(* A checkpoint that is recorded becomes that of the status, also when the  *)
(* one before it is gone from it.                                           *)
LEMMA RecordsTwin ==
  ASSUME TypeInv, Records, Bounded(mem.ck), job.seq = mem.ck.seq + 1,
         Twin(mem.ck, sb.ck) \/ (Gone(mem.ck, sb.ck) /\ job.parent = 0)
  PROVE  Twin(sb'.ck, NewCheckpoint)
  <1> DEFINE c == [mem EXCEPT !.ck = NewCheckpoint]
  <1>0. pc = "record" /\ Control /\ sb \in Sandboxes /\ mem \in Sandboxes
    BY Zenon DEF Records, recordCheckpoint, TypeInv, Objects, Control
  <1>1. c \in Sandboxes
    BY <1>0, NewTyped, CkTyped, Zenon
  <1>2. c.ck = NewCheckpoint
    BY <1>0, Zenon DEF Sandboxes, SandboxType
  <1>3. sb' = Merge(sb, mem, c)
    BY Zenon DEF Records
  <1> HIDE DEF c
  <1>4. CASE Twin(mem.ck, sb.ck)
    BY <1>0, <1>1, <1>2, <1>3, <1>4, MergeTwin, Zenon
  <1>5. CASE Gone(mem.ck, sb.ck) /\ job.parent = 0
    <2>1. sb'.ck = MergeCk(sb.ck, mem.ck, NewCheckpoint)
      BY <1>0, <1>2, <1>3, Zenon DEF Merge, Sandboxes, SandboxType
    <2>2. DOMAIN sb.ck = {"ref", "seq", "pod", "parents", "pending", "recovery"}
      BY <1>0, Zenon DEF Sandboxes, SandboxType, CheckpointType
    <2>3. /\ sb'.ck.ref = Pick(sb.ck.ref, mem.ck.ref, NewCheckpoint.ref)
          /\ sb'.ck.seq = Pick(sb.ck.seq, mem.ck.seq, NewCheckpoint.seq)
          /\ sb'.ck.parents = Pick(sb.ck.parents, mem.ck.parents, NewCheckpoint.parents)
      BY <2>1, <2>2, Zenon DEF MergeCk
    <2>4. /\ NewCheckpoint.ref = job.seq /\ NewCheckpoint.seq = job.seq
          /\ NewCheckpoint.parents = <<>>
      BY <1>5, Zenon DEF NewCheckpoint
    <2>5. mem.ck.ref <= mem.ck.seq
      BY <1>5, Zenon DEF Gone, Bounded, Chain
    <2>6. mem.ck.seq \in 0 .. MaxSeq
      BY <1>0, ChainTyped, Zenon
    <2>7. job.seq # mem.ck.ref /\ job.seq # mem.ck.seq
      BY <2>5, <2>6
    <2> QED BY <1>5, <2>3, <2>4, <2>7, Zenon DEF Pick, Twin, Gone
  <1> QED BY <1>4, <1>5, Zenon

(* A recovery that is recorded clears the checkpoint of the status and      *)
(* keeps its number.                                                        *)
LEMMA RecoversTwin ==
  ASSUME TypeInv, Recovers, Twin(mem.ck, sb.ck)
  PROVE  sb'.ck.ref = 0 /\ sb'.ck.parents = <<>> /\ sb'.ck.seq = sb.ck.seq
  <1> DEFINE c == [mem EXCEPT !.ck = Consumed(mem)]
  <1>0. Control /\ sb \in Sandboxes /\ mem \in Sandboxes
    BY Zenon DEF TypeInv, Objects, Control
  <1>1. c \in Sandboxes
    BY <1>0, ConsumedTyped, Zenon
  <1>2. c.ck = Consumed(mem)
    BY <1>0, Zenon DEF Sandboxes, SandboxType
  <1>3. sb' = Merge(sb, mem, c)
    BY Zenon DEF Recovers
  <1> HIDE DEF c
  <1>4. Twin(sb'.ck, Consumed(mem))
    BY <1>0, <1>1, <1>2, <1>3, MergeTwin, Zenon
  <1>5. Consumed(mem).ref = 0 /\ Consumed(mem).parents = <<>> /\ Consumed(mem).seq = mem.ck.seq
    BY Zenon DEF Consumed, NoCheckpoint
  <1> QED BY <1>4, <1>5, Zenon DEF Twin

(* Every step keeps Views. *)
LEMMA ViewsStep ==
  ASSUME Views, Next
  PROVE  Views'
  <1>1. ASSUME pc' \in Restoring PROVE mem'.ck.pod = 0 \/ obs'.uid # mem'.ck.pod
    <2>1. ASSUME pc \in Restoring, obs' = obs, mem' = mem
          PROVE  mem'.ck.pod = 0 \/ obs'.uid # mem'.ck.pod
      BY <2>1, Zenon DEF Views
    <2>2. CASE Outside \/ CatchUp
      BY <1>1, <2>1, <2>2, Zenon DEF Outside, CatchUp, rec
    <2>3. CASE checkPending \/ RestoreSessionCheckpoint \/ deleteSessionPod
               \/ consumeCheckpoint
      <3>1. pc \in Restoring /\ obs' = obs /\ mem' = mem
        BY <1>1, <2>3, Zenon
        DEF checkPending, RestoreSessionCheckpoint, deleteSessionPod, consumeCheckpoint,
            Restored, Refused, End, Restoring, objects
      <3> QED BY <2>1, <3>1, Zenon
    <2>4. CASE reconcileSessionCheckpoint
      <3>1. PICK d \in Decisions(mem, obs) :
              \/ d = "wait" /\ End
              \/ d \in {"load", "lost", "rest"} /\ pc' = d /\ UNCHANGED <<mem, obs, job>>
              \/ pc' = "key"
        BY <2>4, Zenon DEF reconcileSessionCheckpoint
      <3>2. d = "load" /\ obs' = obs /\ mem' = mem
        BY <1>1, <3>1, Zenon DEF Restoring, End
      <3>3. restoreDue(mem, obs)
        BY <3>1, <3>2, LoadDue, Zenon
      <3> QED BY <3>2, <3>3, Zenon DEF restoreDue
    <2>5. CASE takeCheckpoint \/ CheckpointSession \/ replaceCheckpoint
               \/ recordCheckpoint \/ condemnPod \/ evictPod
      <3>1. pc' \notin Restoring
        BY <2>5, Zenon
        DEF takeCheckpoint, CheckpointSession, replaceCheckpoint,
            recordCheckpoint, condemnPod, evictPod, CheckpointFailed, End, Restoring
      <3> QED BY <1>1, <3>1, Zenon
    <2> QED BY <1>1, <2>2, <2>3, <2>4, <2>5, Enters, Zenon DEF Next
  <1>2. /\ "sb" \notin lagging' => cacheSb' = sb'
        /\ "pod" \notin lagging' => cachePod' = pod'
        /\ ~missed' => lagging' = {}
    <2>1. CASE CachesFollow
      BY <2>1, Zenon DEF CachesFollow, Views
    <2>2. CASE CachesMiss
      <3>1. "sb" \notin lagging' => sb' = sb /\ "sb" \notin lagging
        BY <2>2, Zenon DEF CachesMiss, Changed
      <3>2. "pod" \notin lagging' => pod' = pod /\ "pod" \notin lagging
        BY <2>2, Zenon DEF CachesMiss, Changed
      <3> QED BY <2>2, <3>1, <3>2, Zenon DEF CachesMiss, Views
    <2>3. CASE CatchUp
      BY <2>3, Zenon DEF CatchUp, objects
    <2> QED BY <2>1, <2>2, <2>3, Zenon DEF Next
  <1> QED BY <1>1, <1>2, Zenon DEF Views

(* The steps that touch the store or a checkpoint that is being replaced. *)
LEMMA StoreMoves ==
  ASSUME Step, Clean'
  PROVE  \/ Outside \/ CheckpointSession \/ replaceCheckpoint \/ Records
         \/ consumeCheckpoint \/ Recovers \/ purgeCheckpoints
         \/ /\ store' = store /\ ~Records /\ ~Recovers
            /\ pc \notin {"replace", "record", "recovered"}
            /\ pc' \notin {"replace", "record", "recovered"}
  <1> DEFINE Plain == /\ store' = store /\ ~Records /\ ~Recovers
                      /\ pc \notin {"replace", "record", "recovered"}
                      /\ pc' \notin {"replace", "record", "recovered"}
  <1>0. ASSUME store' = store, pc \notin {"replace", "record", "recovered"},
               pc' \notin {"replace", "record", "recovered"}
        PROVE  Plain
    BY <1>0, Zenon DEF Records, recordCheckpoint, Recovers, recordRecovery
  <1> HIDE DEF Plain
  <1>1. ~Fault("crash") /\ ~Fault("patch")
    BY Zenon DEF Fault, Clean
  <1>2. CASE Begin
    <2>1. pc' \in {"erase", "missing", "derive"} /\ pc = "idle" /\ store' = store
      BY <1>2, Zenon DEF Begin, objects
    <2> QED BY <1>0, <2>1, Zenon DEF Plain
  <1>3. CASE recycleIfExpired \/ createPod \/ hold \/ suspendSession
             \/ resumeAfterNodeLoss \/ dropExitedPod \/ patchPhase \/ deleteClaim
             \/ releaseFinalizer
    <2>1. /\ pc' = "idle" /\ store' = store
          /\ pc \notin {"replace", "record", "recovered"}
      BY <1>3, Zenon
      DEF recycleIfExpired, createPod, hold, suspendSession, resumeAfterNodeLoss,
          dropExitedPod, patchPhase, deleteClaim, releaseFinalizer, PatchAndEnd, End, objects
    <2> QED BY <1>0, <2>1, Zenon DEF Plain
  <1>4. CASE Crash
    BY <1>1, <1>4, Zenon DEF Crash
  <1>5. CASE handleMissingPod \/ ensureWorkspacePVC \/ takeCheckpoint \/ condemnPod
             \/ evictPod \/ deleteSessionPod \/ teardownSessionCheckpoint \/ teardownPod
    <2>1. /\ pc' \notin {"replace", "record", "recovered"} /\ store' = store
          /\ pc \notin {"replace", "record", "recovered"}
      BY <1>5, Zenon
      DEF handleMissingPod, ensureWorkspacePVC, takeCheckpoint, condemnPod, evictPod,
          deleteSessionPod, teardownSessionCheckpoint, teardownPod
    <2> QED BY <1>0, <2>1, Zenon DEF Plain
  <1>6. CASE markPending \/ deriveStatus \/ markLost \/ restartExitedSession
             \/ reconcilePhase3Lifecycle \/ checkPending \/ RestoreSessionCheckpoint
             \/ reconcileSessionCheckpoint
    <2>1. /\ pc' \notin {"replace", "record", "recovered"} /\ store' = store
          /\ pc \notin {"replace", "record", "recovered"}
      BY <1>6, Zenon
      DEF markPending, deriveStatus, markLost, restartExitedSession,
          reconcilePhase3Lifecycle, checkPending, RestoreSessionCheckpoint, Restored, Refused,
          reconcileSessionCheckpoint, Patch, End, objects
    <2> QED BY <1>0, <2>1, Zenon DEF Plain
  <1>7. CASE recordCheckpoint
    BY <1>1, <1>7, Zenon DEF recordCheckpoint, Records
  <1>8. CASE recordRecovery
    BY <1>1, <1>8, Zenon DEF recordRecovery, PatchAndEnd, Recovers
  <1>9. CASE World \/ Disruption
    BY <1>9, Zenon
    DEF World, Disruption, SetWant, DeleteSandbox, PodStarts, KubeletReports, PodStops,
        CollectOwned, NodeReturns, EvictPod, MachineExits, NodeChanges, Outside
  <1> QED BY <1>2, <1>3, <1>4, <1>5, <1>6, <1>7, <1>8, <1>9, Zenon DEF Step, Reconcile, Plain

(* What is left after deleteCheckpointChain. *)
LEMMA WithoutThere ==
  ASSUME TypeInv, NEW S, store' = Without(S)
  PROVE  There' = There \ S
  <1>1. \A r \in Refs : store'[r] = IF r \in S THEN [store[r] EXCEPT !.there = FALSE]
                                    ELSE store[r]
    BY Zenon DEF Without
  <1>2. \A r \in Refs : [store[r] EXCEPT !.there = FALSE].there = FALSE
    BY Zenon DEF TypeInv, Objects, ObjectType
  <1>3. \A r \in Refs : r \in S => ~store'[r].there
    BY <1>1, <1>2, Zenon
  <1>4. \A r \in Refs : r \notin S => store'[r] = store[r]
    BY <1>1, Zenon
  <1> QED BY <1>3, <1>4, Zenon DEF There

(* The number of a new checkpoint is past its parents. *)
LEMMA NextFree ==
  ASSUME NEW s \in Sandboxes, Bounded(s.ck)
  PROVE  s.ck.seq + 1 \notin Chain(s.ck) /\ s.ck.seq + 1 # s.ck.ref /\ s.ck.seq + 1 # 0
  <1>1. s.ck.seq \in 0 .. MaxSeq
    BY ChainTyped, Zenon
  <1>2. \A r \in Chain(s.ck) : r <= s.ck.seq
    BY Zenon DEF Bounded
  <1>3. ~(s.ck.seq + 1 <= s.ck.seq) /\ s.ck.seq + 1 # 0
    BY <1>1
  <1>4. s.ck.ref # 0 => s.ck.ref \in Chain(s.ck)
    BY Zenon DEF Chain
  <1> QED BY <1>2, <1>3, <1>4, Zenon

(* Every step without a lost outcome keeps the store equal to what the      *)
(* status, and the checkpoint under way, name.                              *)
LEMMA MatchesStep ==
  ASSUME TypeInv, EraseInv, Step, Clean', ~Going(sb), ~Going(sb'), Matches, Follows
  PROVE  Matches'
  <1>0. /\ sb \in Sandboxes /\ mem \in Sandboxes /\ Control
        /\ store \in [Refs -> ObjectType] /\ pc \notin Deletes /\ sb' # NoSandbox
    BY Zenon
    DEF TypeInv, Objects, Control, EraseInv, Going, NoSandbox, NewSandbox
  <1>1. /\ ~Fault("answer") /\ ~Fault("delete")
    BY Zenon DEF Fault, Clean
  <1>2. ASSUME pc' \notin {"replace", "record", "recovered"}, There' = Chain(sb'.ck)
        PROVE  Matches'
    BY <1>2, Zenon DEF Matches
  <1>3. store' = store => There' = There
    BY Zenon DEF There
  <1>4. CASE Outside
    <2>1. pc' = pc /\ job' = job /\ store' = store /\ sb'.ck = sb.ck
      BY <1>4, OutsideKeeps, Zenon DEF Outside, rec
    <2> QED BY <1>3, <2>1, Zenon DEF Matches
  <1>5. CASE CheckpointSession
    <2>1. pc = "checkpoint" /\ sb' = sb /\ There = Chain(sb.ck)
      BY <1>5, Zenon DEF CheckpointSession, Matches
    <2>2. CASE CheckpointFailed(mem) /\ store' = store
      <3>1. pc' \in {"condemn", "idle"}
        BY <2>2, Zenon DEF CheckpointFailed, End
      <3>2. pc' \notin {"replace", "record", "recovered"}
        BY <3>1, Zenon
      <3> QED BY <1>2, <1>3, <2>1, <2>2, <3>2, Zenon
    <2>3. CASE Stores /\ pc' = "replace" /\ job' = job
      <3>1. job.seq \in Refs
        BY <1>0, <2>1, Zenon DEF Control, Storing
      <3>2. store' = [store EXCEPT ![job.seq] = StoredCheckpoint(cachePod.uid)]
        BY <2>3, Zenon DEF Stores
      <3>3. store'[job.seq].there /\ \A r \in Refs : r # job.seq => store'[r] = store[r]
        BY <1>0, <3>1, <3>2, Zenon DEF StoredCheckpoint
      <3>4. There' = {job.seq} \cup There
        BY <3>1, <3>3, Zenon DEF There
      <3> QED BY <2>1, <2>3, <3>4, Zenon DEF Matches
    <2> QED BY <1>1, <1>5, <2>2, <2>3, Zenon DEF CheckpointSession, Stores
  <1>6. CASE replaceCheckpoint
    <2>1. /\ pc = "replace" /\ pc' = "record" /\ sb' = sb /\ job' = job
          /\ There = {job.seq} \cup Chain(sb.ck)
      BY <1>6, Zenon DEF replaceCheckpoint, Matches
    <2>2. /\ job.seq = mem.ck.seq + 1 /\ Bounded(mem.ck)
          /\ Twin(mem.ck, sb.ck) \/ Gone(mem.ck, sb.ck)
      BY <2>1, Zenon DEF Follows, Storing, Stored, Reading, Condemning, Lineage
    <2>3. job.seq \notin Chain(mem.ck)
      BY <1>0, <2>2, NextFree, Zenon
    <2>4. Gone(mem.ck, sb.ck) => Chain(sb.ck) = {}
      BY Zenon DEF Gone, Chain
    <2>5. Twin(mem.ck, sb.ck) => Chain(mem.ck) = Chain(sb.ck)
      BY TwinBounds, Zenon
    <2>6. CASE Superseded(mem)
      <3>1. job.parent = 0 /\ store' = Without(Chain(mem.ck))
        BY <1>1, <1>6, <2>6, Zenon DEF replaceCheckpoint, Superseded, deleteCheckpointChain
      <3>2. There' = There \ Chain(mem.ck)
        BY <3>1, WithoutThere, Zenon
      <3>3. There' = {job.seq}
        BY <2>1, <2>2, <2>3, <2>4, <2>5, <3>2, Zenon
      <3> QED BY <2>1, <3>1, <3>3, Zenon DEF Matches
    <2>7. CASE ~Superseded(mem)
      <3>1. There' = There
        BY <1>3, <1>6, <2>7, Zenon DEF replaceCheckpoint
      <3>2. job.parent # 0 \/ Chain(sb.ck) = {}
        BY <2>2, <2>4, <2>7, Zenon DEF Superseded, Twin, Chain
      <3> QED BY <2>1, <3>1, <3>2, Zenon DEF Matches
    <2> QED BY <2>6, <2>7, Zenon
  <1>7. CASE Records
    <2>1. pc = "record" /\ store' = store
      BY <1>7, Zenon DEF Records, recordCheckpoint
    <2>2. /\ job.seq = mem.ck.seq + 1 /\ Bounded(mem.ck) /\ job.parent \in {0, mem.ck.ref}
          /\ Twin(mem.ck, sb.ck) \/ (Gone(mem.ck, sb.ck) /\ job.parent = 0)
      BY <2>1, Zenon DEF Follows, Storing, Stored, Reading, Condemning, Lineage
    <2>3. Twin(sb'.ck, NewCheckpoint)
      BY <1>7, <2>2, RecordsTwin, Zenon
    <2>4. Chain(sb'.ck) = Chain(NewCheckpoint)
      BY <2>3, TwinBounds, Zenon
    <2>5. Chain(NewCheckpoint) = {job.seq} \cup IF job.parent = 0 THEN {} ELSE Chain(mem.ck)
      BY <1>0, <2>1, <2>2, NewChain, Zenon
    <2>6. There = {job.seq} \cup IF job.parent = 0 THEN {} ELSE Chain(sb.ck)
      BY <2>1, Zenon DEF Matches
    <2>7. job.parent # 0 => Chain(mem.ck) = Chain(sb.ck)
      BY <2>2, TwinBounds, Zenon
    <2>8. pc' \notin {"replace", "record", "recovered"}
      <3>1. pc' \in {"condemn", "idle"}
        BY <1>7, Zenon DEF Records, recordCheckpoint, CheckpointFailed, End
      <3> QED BY <3>1, Zenon
    <2> QED BY <1>2, <1>3, <2>1, <2>4, <2>5, <2>6, <2>7, <2>8, Zenon
  <1>8. CASE consumeCheckpoint
    <2>1. /\ pc = "consume" /\ pc' = "recovered" /\ store' = Without(Chain(mem.ck))
      BY <1>1, <1>8, Zenon DEF consumeCheckpoint, deleteCheckpointChain
    <2>2. There = Chain(sb.ck) /\ Twin(mem.ck, sb.ck)
      BY <2>1, Zenon DEF Matches, Follows, Reloading
    <2>3. There' = There \ Chain(mem.ck) /\ Chain(mem.ck) = Chain(sb.ck)
      BY <2>1, <2>2, WithoutThere, TwinBounds, Zenon
    <2>4. There' = {}
      BY <2>2, <2>3, Zenon
    <2> QED BY <2>1, <2>4, Zenon DEF Matches
  <1>9. CASE Recovers
    <2>1. pc = "recovered" /\ pc' = "idle" /\ store' = store
      BY <1>9, Zenon DEF Recovers, recordRecovery, PatchAndEnd, End
    <2>2. There = {} /\ Twin(mem.ck, sb.ck)
      BY <2>1, Zenon DEF Matches, Follows, Reloading
    <2>3. sb'.ck.ref = 0
      BY <1>9, <2>2, RecoversTwin, Zenon
    <2>4. Chain(sb'.ck) = {}
      BY <2>3, Zenon DEF Chain
    <2> QED BY <1>2, <1>3, <2>1, <2>2, <2>4, Zenon
  <1>10. CASE purgeCheckpoints
    BY <1>0, <1>10, Zenon DEF purgeCheckpoints, Deletes
  <1>11. CASE /\ store' = store /\ ~Records /\ ~Recovers
              /\ pc \notin {"replace", "record", "recovered"}
              /\ pc' \notin {"replace", "record", "recovered"}
    <2>1. SameRefs(sb'.ck, sb.ck)
      BY <1>0, <1>11, RefsChange, Zenon
    <2>2. Chain(sb'.ck) = Chain(sb.ck) /\ There = Chain(sb.ck)
      BY <1>11, <2>1, SameChain, Zenon DEF Matches
    <2> QED BY <1>2, <1>3, <1>11, <2>2, Zenon
  <1> QED BY <1>4, <1>5, <1>6, <1>7, <1>8, <1>9, <1>10, <1>11, StoreMoves, Zenon

(* A copy keeps its place when the numbers of the status stay and no other  *)
(* Pod appears.                                                             *)
LEMMA LineageStays ==
  ASSUME NEW k, NEW l, NEW m, SameRefs(m, l), NEW S, NEW T, T \subseteq S \cup {0},
         Lineage(k, l, S)
  PROVE  Lineage(k, m, T)
  <1>1. m.ref = l.ref /\ m.seq = l.seq /\ m.parents = l.parents
    BY Zenon DEF SameRefs
  <1>2. Twin(k, l) => Twin(k, m)
    BY <1>1, Zenon DEF Twin
  <1>3. Older(k, l) => Older(k, m)
    BY <1>1, Zenon DEF Older
  <1>4. Gone(k, l) => Gone(k, m)
    BY <1>1, Zenon DEF Gone
  <1> QED BY <1>2, <1>3, <1>4, Zenon DEF Lineage

(* A copy with the numbers of the status is in its lineage. *)
LEMMA TwinLineage ==
  ASSUME NEW k, Bounded(k), NEW l, Twin(k, l), NEW S
  PROVE  Lineage(k, l, S)
  BY Zenon DEF Lineage

(* The status of a reconcile that reads on keeps its numbers. *)
LEMMA ReadingKeeps ==
  ASSUME TypeInv, Step, ~Going(sb'), Reading'
  PROVE  SameRefs(sb'.ck, sb.ck)
  <1>1. pc' \notin {"idle", "condemn"}
    BY Zenon DEF Reading, Condemning
  <1>2. ~Records
    BY <1>1, Zenon DEF Records, recordCheckpoint, CheckpointFailed, End
  <1>3. ~Recovers
    BY <1>1, Zenon DEF Recovers, recordRecovery, PatchAndEnd, End
  <1>4. sb' # NoSandbox
    BY Zenon DEF Going, NoSandbox, NewSandbox
  <1> QED BY <1>2, <1>3, <1>4, RefsChange, Zenon

(* The numbers of the status stay below its sequence number. *)
LEMMA BoundedStep ==
  ASSUME TypeInv, Step, ~Going(sb'), Follows
  PROVE  Bounded(sb'.ck)
  <1>0. sb \in Sandboxes /\ mem \in Sandboxes /\ Control /\ sb' # NoSandbox
    BY Zenon DEF TypeInv, Objects, Control, Going, NoSandbox, NewSandbox
  <1>1. CASE SameRefs(sb'.ck, sb.ck)
    <2>1. Twin(sb'.ck, sb.ck) /\ Bounded(sb.ck)
      BY <1>1, RefsTwin, Zenon DEF Follows
    <2> QED BY <2>1, TwinBounds, Zenon
  <1>2. CASE Records
    <2>1. pc = "record"
      BY <1>2, Zenon DEF Records, recordCheckpoint
    <2>2. /\ job.seq = mem.ck.seq + 1 /\ Bounded(mem.ck) /\ job.parent \in {0, mem.ck.ref}
          /\ Twin(mem.ck, sb.ck) \/ (Gone(mem.ck, sb.ck) /\ job.parent = 0)
      BY <2>1, Zenon DEF Follows, Storing, Stored, Reading, Condemning, Lineage
    <2>3. Twin(sb'.ck, NewCheckpoint)
      BY <1>2, <2>2, RecordsTwin, Zenon
    <2>4. Chain(NewCheckpoint) \subseteq {job.seq} \cup Chain(mem.ck)
      BY <1>0, <2>1, <2>2, NewChain, Zenon
    <2>5. NewCheckpoint.ref = job.seq /\ NewCheckpoint.seq = job.seq
      BY Zenon DEF NewCheckpoint
    <2>6. mem.ck.seq \in 0 .. MaxSeq /\ Chain(mem.ck) \subseteq Refs
      BY <1>0, ChainTyped, Zenon
    <2>7. \A r \in Chain(mem.ck) : r <= mem.ck.seq
      BY <2>2, Zenon DEF Bounded
    <2>8. job.seq # 0 /\ job.seq <= job.seq /\ \A r \in Refs : r <= mem.ck.seq => r <= job.seq
      BY <2>2, <2>6, CheckpointConstants DEF Refs
    <2>9. Bounded(NewCheckpoint)
      BY <2>4, <2>5, <2>6, <2>7, <2>8, Zenon DEF Bounded
    <2> QED BY <2>3, <2>9, TwinBounds, Zenon
  <1>3. CASE Recovers
    <2>1. pc = "recovered"
      BY <1>3, Zenon DEF Recovers, recordRecovery
    <2>2. Twin(mem.ck, sb.ck)
      BY <2>1, Zenon DEF Follows, Reloading
    <2>3. sb'.ck.ref = 0 /\ sb'.ck.parents = <<>>
      BY <1>3, <2>2, RecoversTwin, Zenon
    <2> QED BY <2>3, Zenon DEF Bounded, Chain
  <1> QED BY <1>0, <1>1, <1>2, <1>3, RefsChange, Zenon

(* A cache shows the object or what it showed before. *)
LEMMA CachesMove ==
  ASSUME CachesFollow \/ CachesMiss
  PROVE  cacheSb' \in {cacheSb, sb'} /\ cachePod' \in {cachePod, pod'}
  BY Zenon DEF CachesFollow, CachesMiss

(* The copy of a reconcile stays one of the three kinds, also when the      *)
(* reconcile starts on caches that lag.                                     *)
LEMMA LineageStep ==
  ASSUME TypeInv, Step, CachesFollow \/ CachesMiss, Views, ~Going(sb), ~Going(sb'), Clean,
         Follows, First => Starts, Reading'
  PROVE  Lineage(mem'.ck, sb'.ck, {pod'.uid, cachePod'.uid})
  <1>1. SameRefs(sb'.ck, sb.ck) /\ Bounded(sb'.ck)
    BY ReadingKeeps, BoundedStep, Zenon
  <1>2. pc' # "idle" /\ pc' \notin Condemning
    BY Zenon DEF Reading
  <1>3. {pod'.uid, cachePod'.uid} \subseteq {pod.uid, cachePod.uid} \cup {0}
    BY <1>2, PodStays, CachesMove, Zenon
  <1> DEFINE S == {pod.uid, cachePod.uid}
             T == {pod'.uid, cachePod'.uid}
  <1> HIDE DEF S, T
  <1>0. ASSUME NEW k, Lineage(k, sb.ck, S) PROVE Lineage(k, sb'.ck, T)
    <2>1. T \subseteq S \cup {0}
      BY <1>3, Zenon DEF S, T
    <2> DEFINE l == sb.ck
               m == sb'.ck
    <2>2. SameRefs(m, l) /\ Lineage(k, l, S)
      BY <1>0, <1>1, Zenon
    <2> HIDE DEF l, m
    <2>3. Lineage(k, m, T)
      BY <2>1, <2>2, LineageStays
    <2> QED BY <2>3, Zenon DEF m
  <1>4. ASSUME mem' = mem, Reading PROVE Lineage(mem'.ck, sb'.ck, {pod'.uid, cachePod'.uid})
    BY <1>0, <1>4, Zenon DEF Follows, S, T
  <1>5. CASE Outside
    <2>1. mem' = mem /\ Reading
      BY <1>5, Zenon DEF Outside, rec, Reading
    <2> QED BY <1>4, <2>1, Zenon
  <1>6. CASE Begin
    <2>1. mem' = cacheSb /\ "read" \notin lagging
      BY <1>6, Zenon DEF Begin
    <2>2. CASE First
      <3>1. Lineage(cacheSb.ck, sb.ck, {pod.uid, cachePod.uid})
        BY <2>2, Zenon DEF Starts
      <3> QED BY <1>0, <2>1, <3>1, Zenon DEF S, T
    <2>3. CASE ~First
      <3>1. cacheSb = sb
        BY <2>1, <2>3, Zenon DEF First, Views
      <3>2. Bounded(sb.ck) /\ Twin(sb.ck, sb.ck)
        BY Zenon DEF Follows, Twin
      <3>3. Lineage(sb.ck, sb.ck, {pod.uid, cachePod.uid})
        BY <3>2, TwinLineage, Zenon
      <3> QED BY <1>0, <2>1, <3>1, <3>3, Zenon DEF S, T
    <2> QED BY <2>2, <2>3, Zenon
  <1>7. CASE Keeps
    <2>1. mem' = mem /\ Reading
      BY <1>2, <1>7, Zenon DEF Keeps, Reading
    <2> QED BY <1>4, <2>1, Zenon
  <1>8. CASE Rereads
    <2>1. mem' = sb' /\ Twin(sb'.ck, sb'.ck)
      BY <1>8, Zenon DEF Rereads, Twin
    <2> QED BY <1>1, <2>1, TwinLineage, Zenon
  <1>9. ~Unrecorded
    BY <1>2, Zenon DEF Unrecorded, Condemning
  <1> QED BY <1>2, <1>5, <1>6, <1>7, <1>8, <1>9, RecMoves, Zenon DEF RecMove

(* Whatever the copy in memory is, it is one of three. *)
LEMMA LineageKinds ==
  ASSUME NEW s \in Sandboxes, NEW t \in Sandboxes, NEW S, Lineage(s.ck, t.ck, S)
  PROVE  /\ Gone(s.ck, t.ck) => \A u \in S : u = 0 \/ u # s.ck.pod
         /\ s.ck.ref = t.ck.ref => Twin(s.ck, t.ck)
         /\ Older(s.ck, t.ck) => t.ck.ref = s.ck.seq + 1 /\ t.ck.ref # 0
  <1>1. Bounded(s.ck)
    BY Zenon DEF Lineage
  <1>2. s.ck.seq + 1 # s.ck.ref /\ s.ck.seq + 1 # 0
    BY <1>1, NextFree, Zenon
  <1>3. Older(s.ck, t.ck) => t.ck.ref = s.ck.seq + 1
    BY Zenon DEF Older
  <1>4. Gone(s.ck, t.ck) => s.ck.ref # 0 /\ t.ck.ref = 0
    BY Zenon DEF Gone
  <1>5. Twin(s.ck, t.ck) => s.ck.ref = t.ck.ref
    BY Zenon DEF Twin
  <1> QED BY <1>2, <1>3, <1>4, <1>5, Zenon DEF Lineage

(* A checkpoint that is taken has the number after that of the copy, and is *)
(* a full one when the copy was consumed.                                   *)
LEMMA StoringStep ==
  ASSUME TypeInv, Step, Follows, pc' \in Storing
  PROVE  /\ job'.seq = mem'.ck.seq + 1 /\ job'.parent \in {0, mem'.ck.ref}
         /\ Gone(mem'.ck, sb'.ck) => job'.parent = 0
  <1>1. ASSUME pc \in Storing, job' = job, mem' = mem, sb'.ck = sb.ck
        PROVE  /\ job'.seq = mem'.ck.seq + 1 /\ job'.parent \in {0, mem'.ck.ref}
               /\ Gone(mem'.ck, sb'.ck) => job'.parent = 0
    BY <1>1, Zenon DEF Follows
  <1>2. CASE Outside
    <2>1. pc' = pc /\ job' = job /\ mem' = mem /\ sb'.ck = sb.ck
      BY <1>2, OutsideKeeps, Zenon DEF Outside, rec
    <2> QED BY <1>1, <2>1, Zenon
  <1>3. CASE replaceCheckpoint
    BY <1>1, <1>3, Zenon DEF replaceCheckpoint, Storing
  <1>4. CASE CheckpointSession
    <2>1. pc = "checkpoint" /\ sb' = sb /\ job' = job /\ mem' = mem
      BY <1>4, Zenon DEF CheckpointSession, CheckpointFailed, End, Storing
    <2> QED BY <1>1, <2>1, Zenon DEF Storing
  <1>5. CASE takeCheckpoint
    <2>1. /\ pc = "key" /\ sb' = sb /\ mem' = mem
          /\ job' = [job EXCEPT !.seq = mem.ck.seq + 1, !.parent = DiffParent(mem, cachePod),
                                !.pod = cachePod.uid, !.key = kek']
      BY <1>5, Zenon DEF takeCheckpoint
    <2>2. job'.seq = mem.ck.seq + 1 /\ job'.parent = DiffParent(mem, cachePod)
      BY <2>1, Zenon DEF TypeInv, Control, JobType
    <2>3. Lineage(mem.ck, sb.ck, {pod.uid, cachePod.uid})
      BY <2>1, Zenon DEF Follows, Reading, Condemning
    <2>4. Gone(mem.ck, sb.ck) => cachePod.uid = 0 \/ cachePod.uid # mem.ck.pod
      <3>1. mem \in Sandboxes /\ sb \in Sandboxes
        BY Zenon DEF TypeInv, Objects, Control
      <3>2. Gone(mem.ck, sb.ck) => \A u \in {pod.uid, cachePod.uid} : u = 0 \/ u # mem.ck.pod
        BY <2>3, <3>1, LineageKinds, Zenon
      <3> QED BY <3>2, Zenon
    <2>5. DiffParent(mem, cachePod) \in {0, mem.ck.ref}
      BY Zenon DEF DiffParent
    <2>6. Gone(mem.ck, sb.ck) => DiffParent(mem, cachePod) = 0
      BY <2>4, Zenon DEF DiffParent
    <2> QED BY <2>1, <2>2, <2>5, <2>6, Zenon
  <1>6. CASE reconcileSessionCheckpoint \/ recordCheckpoint \/ condemnPod \/ evictPod
             \/ checkPending \/ RestoreSessionCheckpoint \/ deleteSessionPod
             \/ consumeCheckpoint
    <2>1. pc' \notin Storing
      BY <1>6, Zenon
      DEF reconcileSessionCheckpoint, recordCheckpoint, condemnPod, evictPod, checkPending,
          RestoreSessionCheckpoint, deleteSessionPod, consumeCheckpoint, CheckpointFailed,
          Restored, Refused, End, Storing
    <2> QED BY <2>1, Zenon
  <1> QED BY <1>2, <1>3, <1>4, <1>5, <1>6, Enters, Zenon

(* CheckpointSession stores nothing for a copy that misses the last         *)
(* checkpoint: its number is taken.                                         *)
LEMMA StoredStep ==
  ASSUME TypeInv, Step, Matches, Follows, pc' \in Stored
  PROVE  Twin(mem'.ck, sb'.ck) \/ Gone(mem'.ck, sb'.ck)
  <1>1. ASSUME pc \in Stored, mem' = mem, sb'.ck = sb.ck
        PROVE  Twin(mem'.ck, sb'.ck) \/ Gone(mem'.ck, sb'.ck)
    BY <1>1, Zenon DEF Follows
  <1>2. CASE Outside
    <2>1. pc' = pc /\ mem' = mem /\ sb'.ck = sb.ck
      BY <1>2, OutsideKeeps, Zenon DEF Outside, rec
    <2> QED BY <1>1, <2>1, Zenon
  <1>3. CASE replaceCheckpoint
    BY <1>1, <1>3, Zenon DEF replaceCheckpoint, Stored
  <1>4. CASE CheckpointSession
    <2>1. pc' # "condemn" /\ pc' # "idle"
      BY Zenon DEF Stored
    <2>2. ~CheckpointFailed(mem)
      BY <2>1, Zenon DEF CheckpointFailed, End
    <2>3. pc = "checkpoint" /\ sb' = sb /\ mem' = mem /\ ~store[job.seq].there
      BY <1>4, <2>2, Zenon DEF CheckpointSession
    <2>4. /\ Lineage(mem.ck, sb.ck, {pod.uid, cachePod.uid}) /\ job.seq = mem.ck.seq + 1
          /\ There = Chain(sb.ck)
      BY <2>3, Zenon DEF Follows, Matches, Reading, Condemning, Storing
    <2>5. ~Older(mem.ck, sb.ck)
      <3>1. mem \in Sandboxes /\ sb \in Sandboxes
        BY Zenon DEF TypeInv, Objects, Control
      <3>2. Older(mem.ck, sb.ck) => sb.ck.ref = job.seq /\ sb.ck.ref # 0
        BY <2>4, <3>1, LineageKinds, Zenon
      <3> QED BY <2>3, <2>4, <3>2, Zenon DEF Chain, There
    <2> QED BY <2>3, <2>4, <2>5, Zenon DEF Lineage
  <1>5. CASE reconcileSessionCheckpoint \/ takeCheckpoint \/ recordCheckpoint \/ condemnPod
             \/ evictPod \/ checkPending \/ RestoreSessionCheckpoint \/ deleteSessionPod
             \/ consumeCheckpoint
    <2>1. pc' \notin Stored
      BY <1>5, Zenon
      DEF reconcileSessionCheckpoint, takeCheckpoint, recordCheckpoint, condemnPod, evictPod,
          checkPending, RestoreSessionCheckpoint, deleteSessionPod, consumeCheckpoint,
          CheckpointFailed, Restored, Refused, End, Stored
    <2> QED BY <2>1, Zenon
  <1>6. pc' \in Storing
    BY Zenon DEF Stored, Storing
  <1> QED BY <1>2, <1>3, <1>4, <1>5, <1>6, Enters, Zenon

(* restoreStillPending lets only the live checkpoint through. *)
LEMMA ReloadingStep ==
  ASSUME TypeInv, Step, Follows, pc' \in Reloading
  PROVE  Twin(mem'.ck, sb'.ck)
  <1>1. ASSUME pc \in Reloading, mem' = mem, sb'.ck = sb.ck
        PROVE  Twin(mem'.ck, sb'.ck)
    BY <1>1, Zenon DEF Follows
  <1>2. CASE Outside
    <2>1. pc' = pc /\ mem' = mem /\ sb'.ck = sb.ck
      BY <1>2, OutsideKeeps, Zenon DEF Outside, rec
    <2> QED BY <1>1, <2>1, Zenon
  <1>3. CASE RestoreSessionCheckpoint \/ deleteSessionPod \/ consumeCheckpoint
    <2>1. pc \in Reloading /\ mem' = mem /\ sb' = sb
      BY <1>3, Zenon
      DEF RestoreSessionCheckpoint, deleteSessionPod, consumeCheckpoint, Restored, Refused,
          Reloading
    <2> QED BY <1>1, <2>1, Zenon
  <1>4. CASE checkPending
    <2>1. pc = "load" /\ restoreStillPending(mem.ck.ref) /\ mem' = mem /\ sb' = sb
      BY <1>4, Zenon DEF checkPending, End, Reloading, objects
    <2>2. Lineage(mem.ck, sb.ck, {pod.uid, cachePod.uid}) /\ mem.ck.ref = sb.ck.ref
      BY <2>1, Zenon DEF Follows, Reading, Condemning, restoreStillPending
    <2>3. mem \in Sandboxes /\ sb \in Sandboxes
      BY Zenon DEF TypeInv, Objects, Control
    <2>4. Twin(mem.ck, sb.ck)
      BY <2>2, <2>3, LineageKinds, Zenon
    <2> QED BY <2>1, <2>4, Zenon
  <1>5. CASE reconcileSessionCheckpoint \/ takeCheckpoint \/ CheckpointSession
             \/ replaceCheckpoint \/ recordCheckpoint \/ condemnPod \/ evictPod
    <2>1. pc' \notin Reloading
      BY <1>5, Zenon
      DEF reconcileSessionCheckpoint, takeCheckpoint, CheckpointSession, replaceCheckpoint,
          recordCheckpoint, condemnPod, evictPod, CheckpointFailed, End, Reloading
    <2> QED BY <2>1, Zenon
  <1>6. pc' \in Restoring
    BY Zenon DEF Reloading, Restoring
  <1> QED BY <1>2, <1>3, <1>4, <1>5, <1>6, Enters, Zenon

(* Every step keeps Follows. *)
LEMMA FollowsStep ==
  ASSUME TypeInv, Step, CachesFollow \/ CachesMiss, Views, ~Going(sb), ~Going(sb'), Clean,
         Matches, Follows, First => Starts
  PROVE  Follows'
  <1>1. Bounded(sb'.ck)
    BY BoundedStep, Zenon
  <1>2. Reading' => Lineage(mem'.ck, sb'.ck, {pod'.uid, cachePod'.uid})
    BY LineageStep, Zenon
  <1>3. pc' \in Storing =>
          /\ job'.seq = mem'.ck.seq + 1 /\ job'.parent \in {0, mem'.ck.ref}
          /\ Gone(mem'.ck, sb'.ck) => job'.parent = 0
    BY StoringStep, Zenon
  <1>4. pc' \in Stored => Twin(mem'.ck, sb'.ck) \/ Gone(mem'.ck, sb'.ck)
    BY StoredStep, Zenon
  <1>5. pc' \in Reloading => Twin(mem'.ck, sb'.ck)
    BY ReloadingStep, Zenon
  <1> QED BY <1>1, <1>2, <1>3, <1>4, <1>5, Zenon DEF Follows

(* Before a reconcile starts on caches that lag, the caches are those of    *)
(* the reconcile before it: they miss what that one wrote at its end.       *)
LEMMA FirstStep ==
  ASSUME CachesFollow \/ CachesMiss, Views, First'
  PROVE  First /\ (Begin => cacheSb = sb /\ cachePod = pod)
  <1>1. CASE CachesFollow
    <2>1. lagging \subseteq lagging' /\ missed' = missed
      BY <1>1, Zenon DEF CachesFollow
    <2>2. "read" \notin lagging'
      BY Zenon DEF First
    <2>3. lagging' = lagging /\ ~(pc = "idle" /\ pc' # "idle" /\ lagging # {})
      BY <1>1, <2>2, Zenon DEF CachesFollow
    <2>4. Begin => pc = "idle" /\ pc' # "idle"
      BY Zenon DEF Begin
    <2> QED BY <2>1, <2>3, <2>4, Zenon DEF First, Views
  <1>2. CASE CachesMiss
    <2>1. "read" \notin lagging /\ (~missed \/ lagging # {})
      BY <1>2, Zenon DEF CachesMiss
    <2>2. ~Begin
      BY <1>2, Zenon DEF CachesMiss, Changed, Begin, objects
    <2> QED BY <2>1, <2>2, Zenon DEF First
  <1> QED BY <1>1, <1>2, Zenon

(* Until a reconcile starts on caches that lag, the copy and the cache have *)
(* the numbers of the status while a reconcile reads.                       *)
LEMMA SameCopies ==
  ASSUME TypeInv, Step, CachesFollow \/ CachesMiss, ~Going(sb'),
         Begin => cacheSb = sb, Starts, Reading'
  PROVE  SameRefs(mem'.ck, sb'.ck) /\ SameRefs(cacheSb'.ck, sb'.ck)
  <1>1. SameRefs(sb'.ck, sb.ck)
    BY ReadingKeeps, Zenon
  <1>2. pc' # "idle" /\ pc' \notin Condemning
    BY Zenon DEF Reading
  <1>3. cacheSb' \in {cacheSb, sb'}
    BY CachesMove, Zenon
  <1>4. SameRefs(sb'.ck, sb'.ck)
    BY Zenon DEF SameRefs
  <1>5. SameRefs(cacheSb.ck, sb.ck) => SameRefs(cacheSb.ck, sb'.ck)
    BY <1>1, Zenon DEF SameRefs
  <1>6. SameRefs(mem.ck, sb.ck) => SameRefs(mem.ck, sb'.ck)
    BY <1>1, Zenon DEF SameRefs
  <1>7. Reading => SameRefs(mem.ck, sb.ck) /\ SameRefs(cacheSb.ck, sb.ck)
    BY Zenon DEF Starts
  <1>8. Reading => SameRefs(cacheSb'.ck, sb'.ck)
    BY <1>3, <1>4, <1>5, <1>7, Zenon
  <1>9. CASE Begin
    <2>1. mem' = sb /\ sb' = sb /\ cacheSb' = sb
      BY <1>3, <1>9, Zenon DEF Begin, objects
    <2> QED BY <1>4, <2>1, Zenon
  <1>10. CASE Outside \/ Keeps
    <2>1. mem' = mem /\ Reading
      BY <1>2, <1>10, Zenon DEF Outside, Keeps, rec, Reading
    <2> QED BY <1>6, <1>7, <1>8, <2>1, Zenon
  <1>11. CASE Rereads
    <2>1. mem' = sb' /\ Reading
      BY <1>11, Zenon DEF Rereads, Reading
    <2> QED BY <1>4, <1>8, <2>1, Zenon
  <1>12. ~Unrecorded
    BY <1>2, Zenon DEF Unrecorded, Condemning
  <1> QED BY <1>2, <1>9, <1>10, <1>11, <1>12, RecMoves, Zenon DEF RecMove

(* Until then, a reconcile knows the only Pod there can be. *)
LEMMA SamePods ==
  ASSUME TypeInv, Step, CachesFollow \/ CachesMiss, Begin => cachePod = pod, Starts,
         pc' # "idle"
  PROVE  {pod'.uid, cachePod'.uid} \subseteq {0, obs'.uid}
  <1>1. pod'.uid \in {0, pod.uid}
    BY PodStays, Zenon
  <1>2. cachePod' \in {cachePod, pod'}
    BY CachesMove, Zenon
  <1>3. CASE Begin
    <2>1. obs' = pod /\ pod' = pod /\ cachePod' = pod
      BY <1>2, <1>3, Zenon DEF Begin, objects
    <2> QED BY <2>1, Zenon
  <1>4. CASE ~Begin
    <2>1. pc # "idle" /\ obs' = obs
      BY <1>4, RecMoves, Zenon DEF RecMove, Outside, Keeps, Rereads, Unrecorded, rec
    <2>2. {pod.uid, cachePod.uid} \subseteq {0, obs.uid}
      BY <2>1, Zenon DEF Starts
    <2> QED BY <1>1, <1>2, <2>1, <2>2, Zenon
  <1> QED BY <1>3, <1>4, Zenon

(* What a cache misses when it still shows the status of before the step. *)
LEMMA CacheLineage ==
  ASSUME TypeInv, Step, CachesFollow \/ CachesMiss, Views, ~Going(sb'), Follows, Starts,
         cacheSb' = cacheSb
  PROVE  Lineage(cacheSb.ck, sb'.ck, {pod'.uid, cachePod'.uid})
  <1>0. Lineage(cacheSb.ck, sb.ck, {pod.uid, cachePod.uid}) /\ Bounded(cacheSb.ck)
    BY Zenon DEF Starts, Lineage
  <1>1. cachePod' \in {cachePod, pod'}
    BY CachesMove, Zenon
  <1>2. sb' # NoSandbox
    BY Zenon DEF Going, NoSandbox, NewSandbox
  <1>3. ASSUME Reading PROVE SameRefs(mem.ck, sb.ck) /\ SameRefs(cacheSb.ck, sb.ck)
    BY <1>3, Zenon DEF Starts
  <1>4. CASE SameRefs(sb'.ck, sb.ck)
    <2>1. CASE pod'.uid \in {0, pod.uid}
      <3> DEFINE S == {pod.uid, cachePod.uid}
                 T == {pod'.uid, cachePod'.uid}
                 k == cacheSb.ck
                 l == sb.ck
                 m == sb'.ck
      <3>1. T \subseteq S \cup {0}
        BY <1>1, <2>1, Zenon
      <3>2. SameRefs(m, l) /\ Lineage(k, l, S)
        BY <1>0, <1>4, Zenon
      <3> HIDE DEF S, T, k, l, m
      <3>3. Lineage(k, m, T)
        BY <3>1, <3>2, LineageStays
      <3> QED BY <3>3, Zenon DEF S, T, k, l, m
    <2>2. CASE pod'.uid \notin {0, pod.uid}
      <3>1. PodChange /\ NoPod.uid = 0
        BY PodChanges, Zenon DEF TypeInv, NoPod
      <3>2. pc = "createPod"
        BY <2>2, <3>1, Zenon DEF PodChange
      <3>3. SameRefs(cacheSb.ck, sb.ck)
        BY <1>3, <3>2, Zenon DEF Reading, Condemning
      <3>4. Twin(cacheSb.ck, sb'.ck)
        BY <1>4, <3>3, Zenon DEF SameRefs, Twin
      <3> QED BY <1>0, <3>4, Zenon DEF Lineage
    <2> QED BY <2>1, <2>2, Zenon
  <1>5. CASE Records
    <2>1. pc = "record"
      BY <1>5, Zenon DEF Records, recordCheckpoint
    <2>2. SameRefs(mem.ck, sb.ck) /\ SameRefs(cacheSb.ck, sb.ck)
      BY <1>3, <2>1, Zenon DEF Reading, Condemning
    <2>3. /\ job.seq = mem.ck.seq + 1 /\ Bounded(mem.ck)
          /\ Twin(mem.ck, sb.ck) \/ (Gone(mem.ck, sb.ck) /\ job.parent = 0)
      BY <2>1, Zenon DEF Follows, Storing, Stored, Reading, Condemning, Lineage
    <2>4. Twin(sb'.ck, NewCheckpoint)
      BY <1>5, <2>3, RecordsTwin, Zenon
    <2>5. NewCheckpoint.ref = job.seq /\ NewCheckpoint.seq = job.seq
      BY Zenon DEF NewCheckpoint
    <2>6. sb'.ck.ref = sb'.ck.seq /\ sb'.ck.seq = mem.ck.seq + 1
      BY <2>3, <2>4, <2>5, Zenon DEF Twin
    <2>7. cacheSb.ck.seq = mem.ck.seq
      BY <2>2, Zenon DEF SameRefs
    <2>8. Older(cacheSb.ck, sb'.ck)
      BY <2>6, <2>7, Zenon DEF Older
    <2> QED BY <1>0, <2>8, Zenon DEF Lineage
  <1>6. CASE Recovers
    <2>1. pc = "recovered" /\ pod' = pod
      BY <1>6, Zenon DEF Recovers, recordRecovery
    <2>2. SameRefs(mem.ck, sb.ck) /\ SameRefs(cacheSb.ck, sb.ck)
      BY <1>3, <2>1, Zenon DEF Reading, Condemning
    <2>3. Twin(mem.ck, sb.ck)
      BY <2>2, RefsTwin, Zenon
    <2>4. sb'.ck.ref = 0 /\ sb'.ck.parents = <<>> /\ sb'.ck.seq = sb.ck.seq
      BY <1>6, <2>3, RecoversTwin, Zenon
    <2>5. cacheSb.ck.seq = sb.ck.seq /\ cacheSb.ck.pod = mem.ck.pod
      BY <2>2, Zenon DEF SameRefs
    <2>6. CASE cacheSb.ck.ref = 0
      <3>1. cacheSb.ck.parents = <<>>
        BY <1>0, <2>6, Zenon DEF Bounded
      <3>2. Twin(cacheSb.ck, sb'.ck)
        BY <2>4, <2>5, <2>6, <3>1, Zenon DEF Twin
      <3> QED BY <1>0, <3>2, Zenon DEF Lineage
    <2>7. CASE cacheSb.ck.ref # 0
      <3>1. Gone(cacheSb.ck, sb'.ck)
        BY <2>4, <2>5, <2>7, Zenon DEF Gone
      <3>2. mem.ck.pod = 0 \/ obs.uid # mem.ck.pod
        BY <2>1, Zenon DEF Views, Restoring
      <3>3. {pod.uid, cachePod.uid} \subseteq {0, obs.uid}
        BY <2>1, Zenon DEF Starts
      <3>4. \A u \in {pod'.uid, cachePod'.uid} : u = 0 \/ u = obs.uid
        BY <1>1, <2>1, <3>3, Zenon
      <3>5. \A u \in {pod'.uid, cachePod'.uid} : u = 0 \/ u # cacheSb.ck.pod
        BY <2>5, <3>2, <3>4, Zenon
      <3> QED BY <1>0, <3>1, <3>5, Zenon DEF Lineage
    <2> QED BY <2>6, <2>7, Zenon
  <1> QED BY <1>2, <1>4, <1>5, <1>6, RefsChange, Zenon

(* Every step keeps Starts until a reconcile starts on caches that lag. *)
LEMMA StartsStep ==
  ASSUME TypeInv, Step, CachesFollow \/ CachesMiss, Views, ~Going(sb'), Follows,
         First => Starts, First'
  PROVE  Starts'
  <1>1. Starts /\ (Begin => cacheSb = sb /\ cachePod = pod)
    BY FirstStep, Zenon
  <1>2. Reading' => SameRefs(mem'.ck, sb'.ck) /\ SameRefs(cacheSb'.ck, sb'.ck)
    BY <1>1, SameCopies, Zenon
  <1>3. pc' # "idle" => {pod'.uid, cachePod'.uid} \subseteq {0, obs'.uid}
    BY <1>1, SamePods, Zenon
  <1>4. Lineage(cacheSb'.ck, sb'.ck, {pod'.uid, cachePod'.uid})
    <2>1. CASE cacheSb' = sb'
      <3>1. Bounded(sb'.ck) /\ Twin(sb'.ck, sb'.ck)
        BY BoundedStep, Zenon DEF Twin
      <3> QED BY <2>1, <3>1, TwinLineage, Zenon
    <2>2. CASE cacheSb' = cacheSb
      BY <1>1, <2>2, CacheLineage, Zenon
    <2> QED BY <2>1, <2>2, CachesMove, Zenon
  <1> QED BY <1>2, <1>3, <1>4, Zenon DEF Starts

(* Every step of the system keeps ExactInv. *)
LEMMA ExactStep ==
  ASSUME TypeInv, EraseInv, Views, ExactInv, Step, CachesFollow \/ CachesMiss
  PROVE  ExactInv'
  <1> SUFFICES ASSUME Clean', ~Going(sb')
               PROVE  Matches' /\ Follows' /\ (First' => Starts')
    BY Zenon DEF ExactInv
  <1>1. Clean /\ ~Going(sb)
    <2>1. happened \subseteq happened'
      BY FaultsTyped, Zenon DEF TypeInv
    <2>2. Clean
      BY <2>1, Zenon DEF Clean
    <2> QED BY <2>2, SbGoes, Zenon
  <1>2. Matches /\ Follows /\ (First => Starts)
    BY <1>1, Zenon DEF ExactInv
  <1>3. Matches'
    BY <1>1, <1>2, MatchesStep, Zenon
  <1>4. Follows'
    BY <1>1, <1>2, FollowsStep, Zenon
  <1>5. First' => Starts'
    BY <1>2, StartsStep, Zenon
  <1> QED BY <1>3, <1>4, <1>5, Zenon

(* Views and ExactInv are inductive, caches that catch up included. *)
LEMMA ExactNext ==
  ASSUME TypeInv, EraseInv, Views, ExactInv, [Next]_vars
  PROVE  Views' /\ ExactInv'
  <1>1. CASE Next /\ Step /\ (CachesFollow \/ CachesMiss)
    BY <1>1, ViewsStep, ExactStep, Zenon
  <1>2. CASE Next /\ CatchUp
    <2>0. Views'
      BY <1>2, ViewsStep, Zenon
    <2>1. /\ UNCHANGED <<sb, pod, store, pc, mem, obs, job, happened, missed>>
          /\ cachePod' = pod /\ lagging' = {} /\ lagging # {}
      BY <1>2, Zenon DEF CatchUp, objects, rec, NoFault
    <2>2. ~First'
      BY <2>1, Zenon DEF Views, First
    <2>3. Clean' = Clean /\ Matches' = Matches /\ Reading' = Reading
      BY <2>1, Zenon DEF Clean, Matches, There, Reading
    <2>4. Follows => Follows'
      <3> SUFFICES ASSUME Follows PROVE Follows'
        BY Zenon
      <3>1. ASSUME Reading PROVE Lineage(mem.ck, sb.ck, {pod.uid, cachePod'.uid})
        <4>1. Lineage(mem.ck, sb.ck, {pod.uid, cachePod.uid})
          BY <3>1, Zenon DEF Follows
        <4>2. {pod.uid, cachePod'.uid} \subseteq {pod.uid, cachePod.uid}
          BY <2>1, Zenon
        <4> QED BY <4>1, <4>2, Zenon DEF Lineage
      <3> QED BY <2>1, <2>3, <3>1, Zenon DEF Follows
    <2> QED BY <2>0, <2>1, <2>2, <2>3, <2>4, Zenon DEF ExactInv
  <1>3. CASE UNCHANGED vars
    <2>1. UNCHANGED <<sb, pod, store, pc, mem, obs, job, happened, missed, lagging, cacheSb,
                      cachePod>>
      BY <1>3, Zenon DEF vars, objects, rec, caches
    <2>2. Views' = Views
      BY <2>1, Zenon DEF Views
    <2>3. Clean' = Clean /\ First' = First /\ Reading' = Reading /\ There' = There
      BY <2>1, Zenon DEF Clean, First, Reading, There
    <2>4. Matches' = Matches /\ Follows' = Follows /\ Starts' = Starts
      BY <2>1, <2>3, Zenon DEF Matches, Follows, Starts
    <2> QED BY <2>1, <2>2, <2>3, <2>4, Zenon DEF ExactInv
  <1> QED BY <1>1, <1>2, <1>3, Zenon DEF Next

(* Views and ExactInv hold initially. *)
LEMMA ExactInit == Init => Views /\ ExactInv
  <1> SUFFICES ASSUME Init PROVE Views /\ ExactInv
    BY Zenon
  <1>1. /\ pc = "idle" /\ cacheSb = sb /\ cachePod = pod /\ lagging = {}
        /\ sb.ck.ref = 0 /\ sb.ck.parents = <<>> /\ \A r \in Refs : ~store[r].there
    BY Zenon DEF Init, NewSandbox, NoCheckpoint, NoObject
  <1>2. Views
    BY <1>1, Zenon DEF Views, Restoring
  <1>3. There = {} /\ Chain(sb.ck) = {} /\ Bounded(sb.ck) /\ Twin(sb.ck, sb.ck)
    BY <1>1, Zenon DEF There, Chain, Bounded, Twin
  <1>4. Matches /\ ~Reading
    BY <1>1, <1>3, Zenon DEF Matches, Reading
  <1>5. Follows
    BY <1>1, <1>3, <1>4, Zenon DEF Follows, Storing, Stored, Reloading
  <1>6. Lineage(cacheSb.ck, sb.ck, {pod.uid, cachePod.uid})
    BY <1>1, <1>3, Zenon DEF Lineage
  <1>7. Starts
    BY <1>1, <1>4, <1>6, Zenon DEF Starts
  <1> QED BY <1>2, <1>4, <1>5, <1>7, Zenon DEF ExactInv

(* SandboxCheckpointStatus: between reconciles the stored objects are       *)
(* exactly the chain that the status names, also when takeCheckpoint and    *)
(* restorePendingCheckpoint worked on stale caches, as long as the operator *)
(* learns and records the outcome of every write.                           *)
THEOREM StoredSafe == Spec => []StoredIsNamed
  <1>1. Init => TypeInv /\ Born /\ EraseInv /\ Views /\ ExactInv
    BY TypeInit, EraseInit, ExactInit, Zenon
  <1>2. TypeInv /\ Born /\ EraseInv /\ Views /\ ExactInv /\ [Next]_vars
        => (TypeInv /\ Born /\ EraseInv /\ Views /\ ExactInv)'
    BY TypeStep, EraseNext, ExactNext, Zenon
  <1>3. ExactInv => StoredIsNamed
    <2> SUFFICES ASSUME ExactInv, ~Going(sb), pc = "idle",
                        Spared({"crash", "answer", "patch", "delete"})
                 PROVE  {r \in Refs : store[r].there} = Chain(sb.ck)
      BY Zenon DEF StoredIsNamed, Going
    <2>1. Clean
      BY Zenon DEF Clean, Spared, Occurred
    <2> QED BY <2>1, Zenon DEF ExactInv, Matches, There
  <1> QED BY <1>1, <1>2, <1>3, PTL DEF Spec
=============================================================================
