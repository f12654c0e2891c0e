----------------------- MODULE SessionCheckpointProofs -----------------------
(* Proofs about SessionCheckpoint, first part: types and the bound of a diff  *)
(* chain, the erasure of a deleted session, and, from an invariant about      *)
(* reconciles on fresh caches, what a suspend keeps and what a diff counts    *)
(* from.                                                                      *)
EXTENDS SessionCheckpoint, TLAPS

------------------------------------------------------------------------------
(* Types.  Control says when a checkpoint under way may be a diff.            *)

Pcs == {"idle", "missing", "pending", "create", "createPod", "derive", "decide",
        "key", "checkpoint", "replace", "record", "condemn", "evict",
        "suspended", "load", "restore", "scrap", "consume", "recovered",
        "lost", "force", "rest", "drop", "paused", "resumed", "erase",
        "purge", "teardownPod", "release"}
Deletes == {"erase", "purge", "teardownPod", "release"}
Sandboxes == {s \in SandboxType : Len(s.ck.parents) <= MaxDiffChain}
Storing == {"checkpoint", "replace", "record"}
Condemning == {"condemn", "evict", "suspended"}

Objects ==
  /\ durable \in Durables
  /\ sb \in Sandboxes /\ pod \in PodType
  /\ vm \in [Uids -> MachineType] /\ node \in [Uids -> {"ready", "cordoned", "lost"}]
  /\ store \in [Refs -> ObjectType]
  /\ kek \in 0 .. MaxKeks /\ keks \in 0 .. MaxKeks /\ claim \in BOOLEAN

Control ==
  /\ pc \in Pcs /\ mem \in Sandboxes /\ obs \in PodType /\ job \in JobType
  /\ pc = "key" => mem.ck.seq < MaxSeq
  /\ pc \in Storing => job.seq \in Refs
  /\ pc \in Storing /\ job.parent # 0 => Len(mem.ck.parents) < MaxDiffChain
  /\ pc \in Storing \cup {"key"} => job.why \in Suspends \cup {Drain, Periodic}
  /\ pc \in Condemning => job.why \in Suspends \cup {Drain}

Copies ==
  /\ cacheSb \in Sandboxes /\ cachePod \in PodType
  /\ lagging \subseteq {"sb", "pod", "read"} /\ happened \subseteq FaultKinds
  /\ missed \in BOOLEAN /\ disruptions \in 0 .. MaxDisruptions

TypeInv == Objects /\ Control /\ Copies

(* The typing that induction needs contains the one that the runs check. *)
LEMMA TypeImplies == TypeInv => TypeOK
  BY Zenon DEF TypeInv, Objects, Control, Copies, TypeOK, Sandboxes, Pcs

(* The records that stand for no Pod, no machine, no object and no Sandbox  *)
(* are typed.                                                               *)
LEMMA Blank ==
  /\ NewSandbox \in Sandboxes /\ NoSandbox \in Sandboxes /\ NoPod \in PodType
  /\ NoJob \in JobType /\ NoMachine \in MachineType /\ NoObject \in ObjectType
  <1>1. /\ 0 \in 0 .. MaxSeq /\ 0 \in 0 .. MaxPods /\ 0 \in 0 .. MaxKeks
        /\ Len(<<>>) <= MaxDiffChain /\ <<>> \in Seq(Refs)
    BY CheckpointConstants
  <1>2. NoCheckpoint \in CheckpointType /\ NoCheckpoint.parents = <<>>
    BY <1>1, Zenon DEF NoCheckpoint, CheckpointType
  <1>3. NewSandbox \in SandboxType /\ NewSandbox.ck = NoCheckpoint
    BY <1>2, Zenon DEF NewSandbox, SandboxType
  <1>4. NoSandbox \in SandboxType /\ NoSandbox.ck = NoCheckpoint
    BY <1>3, Zenon DEF NoSandbox, SandboxType
  <1>5. NewSandbox \in Sandboxes /\ NoSandbox \in Sandboxes
    BY <1>1, <1>2, <1>3, <1>4, Zenon DEF Sandboxes
  <1>6. NoPod \in PodType /\ NoMachine \in MachineType
    BY <1>1, Zenon DEF NoPod, PodType, NoMachine, MachineType
  <1>7. NoJob \in JobType /\ NoObject \in ObjectType
    BY <1>1, Zenon DEF NoJob, JobType, NoObject, ObjectType
  <1> QED BY <1>5, <1>6, <1>7, Zenon

(* A merge patch of two checkpoint statuses of some type is of that type,   *)
(* and its diff chain is one of theirs.                                     *)
LEMMA MergeCkType ==
  ASSUME NEW a \in CheckpointType, NEW b, NEW c \in CheckpointType
  PROVE  MergeCk(a, b, c) \in CheckpointType
  <1> DEFINE m == MergeCk(a, b, c)
  <1>1. DOMAIN a = {"ref", "seq", "pod", "parents", "pending", "recovery"}
    BY Zenon DEF CheckpointType
  <1>2. m = [ref |-> m.ref, seq |-> m.seq, pod |-> m.pod, parents |-> m.parents,
             pending |-> m.pending, recovery |-> m.recovery]
    BY <1>1, SMT DEF MergeCk
  <1>3. /\ m.ref \in {a.ref, c.ref} /\ m.seq \in {a.seq, c.seq} /\ m.pod \in {a.pod, c.pod}
        /\ m.parents \in {a.parents, c.parents} /\ m.pending \in {a.pending, c.pending}
        /\ m.recovery \in {a.recovery, c.recovery}
    BY <1>1, Zenon DEF MergeCk, Pick
  <1> QED BY <1>2, <1>3, Zenon DEF CheckpointType

(* A merge patch keeps a Sandbox typed and its diff chain bounded. *)
LEMMA MergeType ==
  ASSUME NEW a \in Sandboxes, NEW b, NEW c \in Sandboxes
  PROVE  Merge(a, b, c) \in Sandboxes
  <1> DEFINE k == MergeCk(a.ck, b.ck, c.ck)
  <1>1. k \in CheckpointType
    BY MergeCkType, Zenon DEF Sandboxes, SandboxType
  <1>2. k.parents \in {a.ck.parents, c.ck.parents}
    BY Zenon DEF Sandboxes, SandboxType, CheckpointType, MergeCk, Pick
  <1> HIDE DEF k
  <1>3. Merge(a, b, c) \in SandboxType /\ Merge(a, b, c).ck = k
    BY <1>1, Zenon DEF Merge, Pick, Sandboxes, SandboxType, k
  <1> QED BY <1>2, <1>3, Zenon DEF Sandboxes
------------------------------------------------------------------------------
(* Types: how each variable changes. *)

(* The end of a reconcile leaves nothing in memory. *)
LEMMA EndTyped == End => Control' /\ pc' = "idle"
  BY Blank, Zenon DEF End, Control, Pcs, Storing, Condemning

(* The steps that write the Sandbox. *)
LEMMA OnlySbSteps ==
  ASSUME Step
  PROVE  \/ sb' = sb
         \/ recycleIfExpired \/ markPending \/ deriveStatus \/ recordCheckpoint
         \/ suspendSession \/ recordRecovery \/ markLost \/ restartExitedSession
         \/ patchPhase \/ releaseFinalizer \/ DeleteSandbox
         \/ \E w \in Wants : SetWant(w)
  BY Zenon
  DEF Step, Reconcile, World, Disruption, Crash, objects, Begin, handleMissingPod,
      ensureWorkspacePVC, createPod, hold, reconcileSessionCheckpoint, takeCheckpoint,
      CheckpointSession, replaceCheckpoint, condemnPod, evictPod, checkPending,
      RestoreSessionCheckpoint, deleteSessionPod, consumeCheckpoint, resumeAfterNodeLoss,
      dropExitedPod, reconcilePhase3Lifecycle, teardownSessionCheckpoint, purgeCheckpoints,
      teardownPod, deleteClaim, PodStarts, KubeletReports, PodStops, CollectOwned,
      NodeReturns, EvictPod, MachineExits, NodeChanges

(* The steps that write the Pod. *)
LEMMA OnlyPodSteps ==
  ASSUME Step
  PROVE  \/ pod' = pod
         \/ createPod \/ condemnPod \/ evictPod \/ deleteSessionPod \/ resumeAfterNodeLoss
         \/ dropExitedPod \/ teardownPod \/ PodStarts \/ KubeletReports \/ EvictPod
         \/ PodStops \/ CollectOwned
  BY Zenon
  DEF Step, Reconcile, World, Disruption, Crash, objects, Begin, recycleIfExpired,
      handleMissingPod, markPending, ensureWorkspacePVC, hold, deriveStatus,
      reconcileSessionCheckpoint, takeCheckpoint, CheckpointSession, replaceCheckpoint,
      recordCheckpoint, suspendSession, checkPending, RestoreSessionCheckpoint,
      consumeCheckpoint, recordRecovery, markLost, restartExitedSession,
      reconcilePhase3Lifecycle, patchPhase, teardownSessionCheckpoint, purgeCheckpoints,
      deleteClaim, releaseFinalizer, SetWant, DeleteSandbox, NodeReturns, MachineExits,
      NodeChanges

(* The steps that change a machine. *)
LEMMA OnlyVmSteps ==
  ASSUME Step
  PROVE  \/ vm' = vm
         \/ createPod \/ CheckpointSession \/ RestoreSessionCheckpoint
         \/ reconcilePhase3Lifecycle \/ PodStarts \/ PodStops
         \/ \E u \in Uids : NodeReturns(u) \/ MachineExits(u)
  BY Zenon
  DEF Step, Reconcile, World, Disruption, Crash, objects, Begin, recycleIfExpired,
      handleMissingPod, markPending, ensureWorkspacePVC, hold, deriveStatus,
      reconcileSessionCheckpoint, takeCheckpoint, replaceCheckpoint,
      recordCheckpoint, condemnPod, evictPod, suspendSession, checkPending,
      deleteSessionPod, consumeCheckpoint, recordRecovery, markLost, resumeAfterNodeLoss,
      restartExitedSession, dropExitedPod, patchPhase, teardownSessionCheckpoint,
      purgeCheckpoints, teardownPod, deleteClaim, releaseFinalizer, SetWant, DeleteSandbox,
      KubeletReports, CollectOwned, EvictPod, NodeChanges

(* The steps that write the checkpoint store. *)
LEMMA OnlyStoreSteps ==
  ASSUME Step
  PROVE  \/ store' = store
         \/ CheckpointSession \/ replaceCheckpoint \/ consumeCheckpoint \/ purgeCheckpoints
  BY Zenon
  DEF Step, Reconcile, World, Disruption, Crash, objects, Begin, recycleIfExpired,
      handleMissingPod, markPending, ensureWorkspacePVC, createPod, hold, deriveStatus,
      reconcileSessionCheckpoint, takeCheckpoint,
      recordCheckpoint, condemnPod, evictPod, suspendSession, checkPending,
      RestoreSessionCheckpoint, deleteSessionPod, recordRecovery, markLost,
      resumeAfterNodeLoss, restartExitedSession, dropExitedPod, reconcilePhase3Lifecycle,
      patchPhase, teardownSessionCheckpoint,
      teardownPod, deleteClaim, releaseFinalizer, SetWant, DeleteSandbox, PodStarts,
      KubeletReports, PodStops, CollectOwned, NodeReturns, EvictPod, MachineExits, NodeChanges

(* The key and the claim. *)
KeyChange ==
  \/ UNCHANGED <<kek, keks>>
  \/ kek' = 0 /\ keks' = keks /\ (pc = "erase" \/ ~sb.live)
  \/ /\ pc \in {"missing", "key"} /\ pc' \notin Deletes
     /\ kek = 0 /\ keks < MaxKeks /\ kek' = keks + 1 /\ keks' = keks + 1
ClaimChange ==
  \/ claim' = claim
  \/ pc = "create" /\ claim' = TRUE
  \/ pc = "release" /\ claim' = FALSE /\ End

(* The session key stays, is created by ensureSessionKEK, or is deleted by  *)
(* a teardown or with its Sandbox.                                          *)
LEMMA KeyChanges ==
  ASSUME Step
  PROVE  KeyChange
  BY Zenon
  DEF KeyChange, EraseKey, ensureSessionKEK, Deletes,
      Step, Reconcile, World, Disruption, Crash, objects, Begin, recycleIfExpired,
      handleMissingPod, markPending, ensureWorkspacePVC, createPod, hold, deriveStatus,
      reconcileSessionCheckpoint, takeCheckpoint, CheckpointSession, replaceCheckpoint,
      recordCheckpoint, condemnPod, evictPod, suspendSession, checkPending,
      RestoreSessionCheckpoint, deleteSessionPod, consumeCheckpoint, recordRecovery, markLost,
      resumeAfterNodeLoss, restartExitedSession, dropExitedPod, reconcilePhase3Lifecycle,
      patchPhase, teardownSessionCheckpoint, purgeCheckpoints,
      teardownPod, deleteClaim, releaseFinalizer, SetWant, DeleteSandbox, PodStarts,
      KubeletReports, PodStops, CollectOwned, NodeReturns, EvictPod, MachineExits, NodeChanges

(* The workspace claim stays, is created for a Pod, or is deleted by a      *)
(* teardown.                                                                *)
LEMMA ClaimChanges ==
  ASSUME Step
  PROVE  ClaimChange
  BY Zenon
  DEF ClaimChange,
      Step, Reconcile, World, Disruption, Crash, objects, Begin, recycleIfExpired,
      handleMissingPod, markPending, ensureWorkspacePVC, createPod, hold, deriveStatus,
      reconcileSessionCheckpoint, takeCheckpoint, CheckpointSession, replaceCheckpoint,
      recordCheckpoint, condemnPod, evictPod, suspendSession, checkPending,
      RestoreSessionCheckpoint, deleteSessionPod, consumeCheckpoint, recordRecovery, markLost,
      resumeAfterNodeLoss, restartExitedSession, dropExitedPod, reconcilePhase3Lifecycle,
      patchPhase, teardownSessionCheckpoint, purgeCheckpoints,
      teardownPod, deleteClaim, releaseFinalizer, SetWant, DeleteSandbox, PodStarts,
      KubeletReports, PodStops, CollectOwned, NodeReturns, EvictPod, MachineExits, NodeChanges
(* What a step writes into the status is a status. *)
LEMMA CkTyped ==
  ASSUME NEW s \in Sandboxes, NEW k \in CheckpointType, Len(k.parents) <= MaxDiffChain
  PROVE  [s EXCEPT !.ck = k] \in Sandboxes
  <1>1. [s EXCEPT !.ck = k] \in SandboxType /\ [s EXCEPT !.ck = k].ck = k
    BY Zenon DEF Sandboxes, SandboxType
  <1> QED BY <1>1, Zenon DEF Sandboxes

(* A change of phase keeps a Sandbox typed. *)
LEMMA PhaseTyped ==
  ASSUME NEW s \in Sandboxes, NEW ph \in {"Pending", "Running", "Paused", "Suspended"},
         NEW why \in {"", "SessionVMRestarting", "UserPaused", Drain} \cup Suspends
  PROVE  /\ [s EXCEPT !.phase = ph, !.reason = why] \in Sandboxes
         /\ WithPhase(s, ph, why) \in Sandboxes
  <1> DEFINE n == [s EXCEPT !.phase = ph, !.reason = why]
  <1>1. n \in SandboxType /\ n.ck = s.ck
    BY Zenon DEF Sandboxes, SandboxType
  <1>2. n \in Sandboxes
    BY <1>1, Zenon DEF Sandboxes
  <1> QED BY <1>2, Zenon DEF WithPhase

(* The pending mark keeps a Sandbox typed. *)
LEMMA PendingTyped ==
  ASSUME NEW s \in Sandboxes, NEW b \in BOOLEAN
  PROVE  [s EXCEPT !.ck.pending = b] \in Sandboxes
  <1> DEFINE k == [s.ck EXCEPT !.pending = b]
  <1>1. k \in CheckpointType /\ k.parents = s.ck.parents
    BY Zenon DEF Sandboxes, SandboxType, CheckpointType
  <1>2. [s EXCEPT !.ck.pending = b] = [s EXCEPT !.ck = k]
    BY Zenon
  <1> HIDE DEF k
  <1>3. Len(k.parents) <= MaxDiffChain
    BY <1>1, Zenon DEF Sandboxes
  <1> QED BY <1>1, <1>2, <1>3, CkTyped, Zenon

(* The recovery outcome keeps a Sandbox typed. *)
LEMMA RecoveryTyped ==
  ASSUME NEW s \in Sandboxes
  PROVE  [s EXCEPT !.ck.recovery = "restarted"] \in Sandboxes
  <1> DEFINE k == [s.ck EXCEPT !.recovery = "restarted"]
  <1>1. k \in CheckpointType /\ k.parents = s.ck.parents
    BY Zenon DEF Sandboxes, SandboxType, CheckpointType
  <1>2. [s EXCEPT !.ck.recovery = "restarted"] = [s EXCEPT !.ck = k]
    BY Zenon
  <1> HIDE DEF k
  <1>3. Len(k.parents) <= MaxDiffChain
    BY <1>1, Zenon DEF Sandboxes
  <1> QED BY <1>1, <1>2, <1>3, CkTyped, Zenon

(* The phase derived from the Pod is a phase. *)
LEMMA DeriveTyped ==
  ASSUME NEW s \in Sandboxes, NEW p
  PROVE  Derive(s, p) \in Sandboxes
  BY PhaseTyped, Zenon DEF Derive

(* The checkpoint that takeCheckpoint records is typed: it is a diff only   *)
(* below the limit of the chain.                                            *)
LEMMA NewTyped ==
  ASSUME Control, pc = "record"
  PROVE  NewCheckpoint \in CheckpointType /\ Len(NewCheckpoint.parents) <= MaxDiffChain
  <1> DEFINE ps == NewCheckpoint.parents
  <1>1. job.seq \in 0 .. MaxSeq /\ job.pod \in 0 .. MaxPods /\ job.parent \in 0 .. MaxSeq
    BY Zenon DEF Control, JobType
  <1>2. mem.ck \in CheckpointType /\ Len(mem.ck.parents) <= MaxDiffChain
    BY Zenon DEF Control, Sandboxes, SandboxType
  <1>3. mem.ck.parents \in Seq(Refs) /\ mem.ck.recovery \in {"none", "resumed", "restarted"}
    BY <1>2, Zenon DEF CheckpointType
  <1>4. ps = IF job.parent = 0 THEN <<>> ELSE Append(mem.ck.parents, job.parent)
    BY Zenon DEF NewCheckpoint
  <1>5. ps \in Seq(Refs) /\ Len(ps) <= MaxDiffChain
    <2>1. CASE job.parent = 0
      BY <2>1, <1>4, CheckpointConstants
    <2>2. CASE job.parent # 0
      <3>1. Len(mem.ck.parents) < MaxDiffChain
        BY <2>2, Zenon DEF Control, Storing
      <3>2. job.parent \in Refs
        BY <2>2, <1>1, CheckpointConstants DEF Refs
      <3> HIDE DEF ps
      <3> QED BY <2>2, <3>1, <3>2, <1>3, <1>4, CheckpointConstants, SMT
    <2> QED BY <2>1, <2>2, Zenon
  <1>6. NewCheckpoint = [ref |-> job.seq, seq |-> job.seq, pod |-> job.pod, parents |-> ps,
                         pending |-> FALSE, recovery |-> mem.ck.recovery]
    BY Zenon DEF NewCheckpoint
  <1> HIDE DEF ps
  <1>7. NewCheckpoint \in CheckpointType
    BY <1>1, <1>3, <1>5, <1>6, Zenon DEF CheckpointType
  <1> QED BY <1>5, <1>7, Zenon DEF ps

(* The status of a consumed checkpoint is typed. *)
LEMMA ConsumedTyped ==
  ASSUME Control
  PROVE  [mem EXCEPT !.ck = Consumed(mem)] \in Sandboxes
  <1>1. mem.ck.seq \in 0 .. MaxSeq /\ job.recovery \in {"none", "resumed", "restarted"}
    BY Zenon DEF Control, Sandboxes, SandboxType, CheckpointType, JobType
  <1>2. NoCheckpoint \in CheckpointType /\ Len(NoCheckpoint.parents) <= MaxDiffChain
    <2>1. 0 \in 0 .. MaxSeq /\ 0 \in 0 .. MaxPods /\ Len(<<>>) <= MaxDiffChain
          /\ <<>> \in Seq(Refs)
      BY CheckpointConstants
    <2> QED BY <2>1, Zenon DEF NoCheckpoint, CheckpointType
  <1>3. Consumed(mem) \in CheckpointType /\ Consumed(mem).parents = NoCheckpoint.parents
    BY <1>1, <1>2, Zenon DEF Consumed, CheckpointType
  <1> QED BY <1>2, <1>3, CkTyped, Zenon DEF Control

(* The status that suspendSession writes is typed. *)
LEMMA SuspendedTyped ==
  ASSUME Objects, Control, pc = "suspended"
  PROVE  Suspended(mem) \in Sandboxes
  <1> DEFINE b == mem.ck.ref # 0 /\ (~job.err \/ durable)
             n == [mem EXCEPT !.ck.pending = b]
  <1>1. n \in Sandboxes
    BY PendingTyped, Zenon DEF Control
  <1>2. job.why \in Suspends \cup {Drain}
    BY Zenon DEF Control, Condemning
  <1>3. Suspended(mem) = [n EXCEPT !.phase = "Suspended", !.reason = job.why]
    BY Zenon DEF Suspended, Control, Sandboxes, SandboxType
  <1> HIDE DEF n
  <1> QED BY <1>1, <1>2, <1>3, PhaseTyped, Zenon

------------------------------------------------------------------------------
Patching == {"pending", "derive", "record", "suspended", "recovered", "lost", "rest",
             "paused", "resumed"}

(* The Sandbox: a caller or its end of life changes one field, a patch     *)
(* merges a status into it.                                                *)
SbChange ==
  \/ sb' = sb
  \/ sb' = [sb EXCEPT !.deleting = TRUE]
  \/ \E w \in Wants : sb' = [sb EXCEPT !.want = w]
  \/ pc = "release" /\ ~claim /\ sb' = NoSandbox /\ End
  \/ pc \in Patching /\ \E new \in Sandboxes : sb' = Merge(sb, mem, new)

(* What a step can do to the Sandbox: a merge patch of a typed copy, a      *)
(* caller's change, a deletion, the release of its finalizer.               *)
LEMMA SbChanges ==
  ASSUME Objects, Control, Step
  PROVE  SbChange
  <1> USE DEF Patching
  <1> DEFINE Merged == \E new \in Sandboxes : sb' = Merge(sb, mem, new)
  <1>0. mem \in Sandboxes
    BY Zenon DEF Control
  <1>1. CASE sb' = sb
    BY <1>1, Zenon DEF SbChange
  <1>2. CASE recycleIfExpired \/ DeleteSandbox \/ \E w \in Wants : SetWant(w)
    BY <1>2, Zenon DEF SbChange, recycleIfExpired, DeleteSandbox, SetWant
  <1>3. CASE releaseFinalizer
    BY <1>3, Zenon DEF SbChange, releaseFinalizer
  <1>4. CASE markPending \/ markLost
    <2>1. [mem EXCEPT !.ck.pending = TRUE] \in Sandboxes
      BY <1>0, PendingTyped, Zenon
    <2>2. pc \in Patching /\ (sb' = sb \/ Merged)
      BY <1>4, <2>1, Zenon DEF markPending, markLost, Patch
    <2> QED BY <2>2, Zenon DEF SbChange
  <1>5. CASE deriveStatus
    <2>1. pc \in Patching /\ (sb' = sb \/ Merged)
      BY <1>0, <1>5, DeriveTyped, Zenon DEF deriveStatus, Patch
    <2> QED BY <2>1, Zenon DEF SbChange
  <1>6. CASE recordCheckpoint
    <2>1. [mem EXCEPT !.ck = NewCheckpoint] \in Sandboxes
      BY <1>0, <1>6, NewTyped, CkTyped, Zenon DEF recordCheckpoint
    <2>2. pc \in Patching /\ (sb' = sb \/ Merged)
      BY <1>6, <2>1, Zenon DEF recordCheckpoint
    <2> QED BY <2>2, Zenon DEF SbChange
  <1>7. CASE suspendSession
    <2>1. pc \in Patching /\ (sb' = sb \/ Merged)
      BY <1>7, SuspendedTyped, Zenon DEF suspendSession, PatchAndEnd
    <2> QED BY <2>1, Zenon DEF SbChange
  <1>8. CASE recordRecovery
    <2>1. pc \in Patching /\ (sb' = sb \/ Merged)
      BY <1>8, ConsumedTyped, Zenon DEF recordRecovery, PatchAndEnd
    <2> QED BY <2>1, Zenon DEF SbChange
  <1>9. CASE restartExitedSession
    <2>1. pc \in Patching /\ (sb' = sb \/ Merged)
      BY <1>0, <1>9, RecoveryTyped, Zenon DEF restartExitedSession, Patch
    <2> QED BY <2>1, Zenon DEF SbChange
  <1>10. CASE patchPhase
    <2>1. /\ WithPhase(mem, "Paused", "UserPaused") \in Sandboxes
          /\ WithPhase(mem, "Running", "") \in Sandboxes
      BY <1>0, PhaseTyped, Zenon
    <2>2. pc \in Patching /\ (sb' = sb \/ Merged)
      BY <1>10, <2>1, Zenon DEF patchPhase, PatchAndEnd
    <2> QED BY <2>2, Zenon DEF SbChange
  <1> QED BY <1>1, <1>2, <1>3, <1>4, <1>5, <1>6, <1>7, <1>8, <1>9, <1>10, OnlySbSteps, Zenon

(* The Sandbox stays typed. *)
LEMMA SbTyped ==
  ASSUME Objects, Control, Step
  PROVE  sb' \in Sandboxes
  <1>1. sb \in Sandboxes
    BY Zenon DEF Objects
  <1>2. CASE sb' = [sb EXCEPT !.deleting = TRUE]
    <2>1. sb' \in SandboxType /\ sb'.ck = sb.ck
      BY <1>1, <1>2, Zenon DEF Sandboxes, SandboxType
    <2> QED BY <1>1, <2>1, Zenon DEF Sandboxes
  <1>3. CASE \E w \in Wants : sb' = [sb EXCEPT !.want = w]
    <2>1. sb' \in SandboxType /\ sb'.ck = sb.ck
      BY <1>1, <1>3, CheckpointConstants, Zenon DEF Sandboxes, SandboxType
    <2> QED BY <1>1, <2>1, Zenon DEF Sandboxes
  <1>4. CASE \E new \in Sandboxes : sb' = Merge(sb, mem, new)
    BY <1>1, <1>4, MergeType, Zenon
  <1>5. sb' = NoSandbox => sb' \in Sandboxes
    BY Blank, Zenon
  <1>6. SbChange
    BY SbChanges, Zenon
  <1> QED BY <1>1, <1>2, <1>3, <1>4, <1>5, <1>6, Zenon DEF SbChange

(* The Pod keeps its uid, or is removed, or is a new one that no machine   *)
(* was made for.                                                           *)
PodChange ==
  \/ pod'.uid = pod.uid
  \/ pod' = NoPod
  \/ /\ pc = "createPod" /\ End
     /\ pod.uid = 0 /\ pod'.uid \in Uids \ Created /\ vm'[pod'.uid].state # "none"

(* What a step can do to the Pod. *)
LEMMA PodChanges ==
  ASSUME Objects, Step
  PROVE  pod' \in PodType /\ PodChange
  <1>1. pod \in PodType
    BY Zenon DEF Objects
  <1>2. DeletePod => pod' \in PodType /\ pod'.uid = pod.uid
    BY <1>1, Zenon DEF DeletePod, PodType
  <1>3. CASE pod' = pod
    BY <1>1, <1>3, Zenon DEF PodChange
  <1>4. CASE evictPod \/ deleteSessionPod \/ dropExitedPod \/ teardownPod \/ CollectOwned
    BY <1>1, <1>2, <1>4, Zenon
    DEF evictPod, deleteSessionPod, dropExitedPod, teardownPod, CollectOwned, PodChange
  <1>5. CASE condemnPod \/ PodStarts \/ KubeletReports \/ EvictPod
    BY <1>1, <1>5, Zenon DEF condemnPod, PodStarts, KubeletReports, EvictPod, PodType, PodChange
  <1>6. CASE resumeAfterNodeLoss \/ PodStops
    BY <1>6, Blank, Zenon DEF resumeAfterNodeLoss, PodStops, PodChange
  <1>7. CASE createPod
    <2>1. CASE pod.uid # 0
      BY <1>1, <1>7, <2>1, Zenon DEF createPod, PodChange
    <2>2. CASE pod.uid = 0
      <3>1. PICK u \in Uids \ Created :
              /\ pod' = [NoPod EXCEPT !.uid = u, !.restore = pendingCheckpoint(mem)]
              /\ vm' = [vm EXCEPT ![u].state = "pending"]
        BY <1>7, <2>2, Zenon DEF createPod
      <3>2. u \in 0 .. MaxPods
        BY CheckpointConstants DEF Uids
      <3>3. pendingCheckpoint(mem) \in BOOLEAN
        BY Zenon DEF pendingCheckpoint
      <3>4. pod' \in PodType /\ pod'.uid = u
        BY <3>1, <3>2, <3>3, Blank, Zenon DEF PodType
      <3>5. vm'[u].state = "pending"
        BY <3>1, Zenon DEF Objects, MachineType
      <3> QED BY <1>7, <2>2, <3>4, <3>5, Zenon DEF createPod, PodChange
    <2> QED BY <2>1, <2>2, Zenon
  <1> QED BY <1>3, <1>4, <1>5, <1>6, <1>7, OnlyPodSteps, Zenon
(* The machines: only the operator's calls start or move the tracking of   *)
(* dirty pages and mark a machine as ahead of its checkpoint.              *)
VmChange(u) ==
  /\ vm'[u] \in MachineType
  /\ vm[u].state # "none" => vm'[u].state # "none"
  /\ \/ vm'[u].base = vm[u].base /\ vm'[u].ahead = vm[u].ahead
     \/ pc \in {"checkpoint", "restore", "rest"} /\ u = cachePod.uid
  /\ pc = "rest" => vm'[u].base = vm[u].base
  /\ pc = "restore" => vm'[u].ahead = vm[u].ahead

(* A change of state keeps the machines typed. *)
LEMMA StateTyped ==
  ASSUME Objects, NEW u \in Uids,
         NEW st \in {"pending", "waiting", "running", "paused", "dead"},
         vm' = [vm EXCEPT ![u].state = st]
  PROVE  vm' \in [Uids -> MachineType] /\ \A v \in Uids : VmChange(v)
  <1>1. vm \in [Uids -> MachineType]
    BY Zenon DEF Objects
  <1>2. [vm[u] EXCEPT !.state = st] \in MachineType
    BY <1>1, Zenon DEF MachineType
  <1>3. vm' = [vm EXCEPT ![u] = [vm[u] EXCEPT !.state = st]]
    BY Zenon
  <1>4. vm' \in [Uids -> MachineType]
    BY <1>1, <1>2, <1>3, Zenon
  <1>5. /\ vm'[u].state = st /\ vm'[u].base = vm[u].base /\ vm'[u].ahead = vm[u].ahead
        /\ \A v \in Uids : v # u => vm'[v] = vm[v]
    BY <1>1, <1>3, Zenon DEF MachineType
  <1>6. vm'[u].state # "none"
    BY <1>5, Zenon
  <1> QED BY <1>4, <1>5, <1>6, Zenon DEF VmChange

(* What a step can do to the machines: only CheckpointSession,              *)
(* RestoreSessionCheckpoint and the pause and resume calls touch a memory   *)
(* image or its tracking.                                                   *)
LEMMA VmChanges ==
  ASSUME TypeInv, Step
  PROVE  vm' \in [Uids -> MachineType] /\ \A u \in Uids : VmChange(u)
  <1> DEFINE Goal == vm' \in [Uids -> MachineType] /\ \A u \in Uids : VmChange(u)
  <1>1. vm \in [Uids -> MachineType] /\ Objects /\ Created \subseteq Uids
    BY Zenon DEF TypeInv, Objects, Created
  <1>2. pod.uid # 0 => pod.uid \in Uids
    BY CheckpointConstants DEF TypeInv, Objects, PodType, Uids
  <1>3. ASSUME vm' = vm PROVE Goal
    BY <1>1, <1>3, Zenon DEF VmChange
  <1>4. ASSUME NEW u \in Uids, NEW st \in {"pending", "waiting", "running", "paused", "dead"},
               vm' = [vm EXCEPT ![u].state = st]
        PROVE  Goal
    BY <1>1, <1>4, StateTyped, Zenon
  <1> SUFFICES Goal
    BY Zenon
  <1> HIDE DEF Goal
  <1>5. CASE createPod
    BY <1>3, <1>4, <1>5, Zenon DEF createPod
  <1>6. CASE PodStarts
    <2>1. CASE pod.restore
      BY <1>2, <1>4, <1>6, <2>1, Zenon DEF PodStarts
    <2>2. CASE ~pod.restore
      BY <1>2, <1>4, <1>6, <2>2, Zenon DEF PodStarts
    <2> QED BY <2>1, <2>2, Zenon
  <1>7. CASE PodStops
    BY <1>2, <1>4, <1>7, Zenon DEF PodStops
  <1>8. ASSUME NEW u \in Uids, NodeReturns(u) \/ MachineExits(u) PROVE Goal
    BY <1>3, <1>4, <1>8, Zenon DEF NodeReturns, MachineExits
  <1> DEFINE u == cachePod.uid
             Changed1(m) == vm' = [vm EXCEPT ![u] = m]
  <1>9. ASSUME u \in Uids, NEW m \in MachineType, Changed1(m), m.state # "none",
               pc \in {"checkpoint", "restore", "rest"},
               pc = "rest" => m.base = vm[u].base,
               pc = "restore" => m.ahead = vm[u].ahead
        PROVE  Goal
    <2>1. vm' \in [Uids -> MachineType] /\ vm'[u] = m /\ \A v \in Uids : v # u => vm'[v] = vm[v]
      BY <1>1, <1>9, Zenon
    <2> QED BY <1>9, <2>1, Zenon DEF VmChange, Goal
  <1>10. Executing(u) \/ Up(u) => u \in Uids /\ vm[u] \in MachineType /\ vm[u].state # "none"
    BY <1>1, Zenon DEF Executing, Up, Created
  <1>z. 0 \in 0 .. MaxSeq
    BY CheckpointConstants
  <1>11. CASE CheckpointSession
    <2>1. job.seq \in 0 .. MaxSeq
      BY <1>11, Zenon DEF TypeInv, Control, JobType
    <2>2. ASSUME Executing(u), NEW b \in 0 .. MaxSeq, vm' = Snapshotted(u, b) PROVE Goal
      <3> DEFINE st == IF leavePaused(job.why) THEN "paused" ELSE "running"
                 m == [vm[u] EXCEPT !.state = st, !.base = b, !.ahead = ~leavePaused(job.why)]
      <3>1. st \in {"paused", "running"} /\ (~leavePaused(job.why)) \in BOOLEAN
        BY Zenon DEF leavePaused
      <3>2. Changed1(m)
        BY <2>2, <1>1, <1>10, Zenon DEF Snapshotted
      <3> HIDE DEF st
      <3>3. m \in MachineType /\ m.state = st
        BY <2>2, <1>10, <3>1, Zenon DEF MachineType
      <3> QED BY <2>2, <1>9, <1>10, <1>11, <3>1, <3>2, <3>3, Zenon DEF CheckpointSession
    <2>3. ASSUME Executing(u), NEW w \in Unsaved(u), vm' = w PROVE Goal
      <3>1. CASE w = [vm EXCEPT ![u].state = "paused"]
        BY <2>3, <3>1, <1>4, <1>10, Zenon
      <3>2. CASE w = Snapshotted(u, 0)
        BY <1>z, <2>2, <2>3, <3>2, Zenon
      <3>3. CASE w = [vm EXCEPT ![u].state = "running", ![u].base = 0, ![u].ahead = TRUE]
        <4> DEFINE m == [vm[u] EXCEPT !.state = "running", !.base = 0, !.ahead = TRUE]
        <4>1. m \in MachineType /\ m.state = "running"
          BY <1>z, <2>3, <1>10, Zenon DEF MachineType
        <4>2. Changed1(m)
          BY <2>3, <3>3, <1>1, <1>10, Zenon
        <4> QED BY <2>3, <1>9, <1>10, <1>11, <4>1, <4>2, Zenon DEF CheckpointSession
      <3> QED BY <2>3, <3>1, <3>2, <3>3, Zenon DEF Unsaved
    <2> QED BY <1>3, <1>z, <1>11, <2>1, <2>2, <2>3, Zenon DEF CheckpointSession
  <1>12. CASE RestoreSessionCheckpoint
    <2>1. mem.ck.ref \in 0 .. MaxSeq
      BY Zenon
      DEF TypeInv, Control, Sandboxes, SandboxType, CheckpointType
    <2>2. ASSUME Up(u), NEW st \in {"running", "paused"}, vm' = Loaded(u, st) PROVE Goal
      <3> DEFINE m == [vm[u] EXCEPT !.state = st, !.from = mem.ck.ref, !.base = 0]
      <3>1. m \in MachineType /\ m.state = st /\ m.ahead = vm[u].ahead
        BY <1>z, <2>1, <2>2, <1>10, Zenon DEF MachineType
      <3>2. Changed1(m)
        BY <2>2, <1>1, <1>10, Zenon DEF Loaded
      <3> QED BY <2>2, <1>9, <1>10, <1>12, <3>1, <3>2, Zenon DEF RestoreSessionCheckpoint
    <2>3. ASSUME Up(u), vm' = [vm EXCEPT ![u].torn = TRUE] PROVE Goal
      <3> DEFINE m == [vm[u] EXCEPT !.torn = TRUE]
      <3>1. m \in MachineType /\ m.state = vm[u].state /\ m.ahead = vm[u].ahead
        BY <2>3, <1>10, Zenon DEF MachineType
      <3>2. Changed1(m)
        BY <2>3, <1>1, <1>10, Zenon
      <3> QED BY <2>3, <1>9, <1>10, <1>12, <3>1, <3>2, Zenon DEF RestoreSessionCheckpoint
    <2> QED BY <1>3, <1>12, <2>2, <2>3, Zenon DEF RestoreSessionCheckpoint
  <1>13. CASE reconcilePhase3Lifecycle
    <2>1. ASSUME Executing(u), vm' = [vm EXCEPT ![u].state = "running", ![u].ahead = TRUE]
          PROVE  Goal
      <3> DEFINE m == [vm[u] EXCEPT !.state = "running", !.ahead = TRUE]
      <3>1. m \in MachineType /\ m.state = "running" /\ m.base = vm[u].base
        BY <2>1, <1>10, Zenon DEF MachineType
      <3>2. Changed1(m)
        BY <2>1, <1>1, <1>10, Zenon
      <3> QED BY <2>1, <1>9, <1>10, <1>13, <3>1, <3>2, Zenon DEF reconcilePhase3Lifecycle
    <2> QED BY <1>3, <1>4, <1>10, <1>13, <2>1, Zenon DEF reconcilePhase3Lifecycle
  <1> QED BY <1>3, <1>5, <1>6, <1>7, <1>8, <1>11, <1>12, <1>13, OnlyVmSteps, Zenon DEF Goal
(* The nodes, the key, the claim and the store. *)
LEMMA NodeSteps ==
  ASSUME Step
  PROVE  \/ node' = node
         \/ \E u \in Uids : NodeReturns(u)
         \/ \E u \in Uids, st \in {"cordoned", "lost"} : NodeChanges(u, st)
  BY Zenon
  DEF Step, Reconcile, World, Disruption, Crash, objects, Begin, recycleIfExpired,
      handleMissingPod, markPending, ensureWorkspacePVC, createPod, hold, deriveStatus,
      reconcileSessionCheckpoint, takeCheckpoint, CheckpointSession, replaceCheckpoint,
      recordCheckpoint, condemnPod, evictPod, suspendSession, checkPending,
      RestoreSessionCheckpoint, deleteSessionPod, consumeCheckpoint, recordRecovery, markLost,
      resumeAfterNodeLoss, restartExitedSession, dropExitedPod, reconcilePhase3Lifecycle,
      patchPhase, teardownSessionCheckpoint, purgeCheckpoints,
      teardownPod, deleteClaim, releaseFinalizer, SetWant, DeleteSandbox, PodStarts,
      KubeletReports, PodStops, CollectOwned, EvictPod, MachineExits

(* The nodes stay typed. *)
LEMMA NodeTyped ==
  ASSUME Objects, Step
  PROVE  node' \in [Uids -> {"ready", "cordoned", "lost"}]
  BY NodeSteps, Zenon DEF Objects, NodeReturns, NodeChanges

(* The session keys stay within the bound. *)
LEMMA KeyTyped ==
  ASSUME Objects, Step
  PROVE  kek' \in 0 .. MaxKeks /\ keks' \in 0 .. MaxKeks /\ claim' \in BOOLEAN
  <1>1. kek' \in 0 .. MaxKeks /\ keks' \in 0 .. MaxKeks
    BY KeyChanges, CheckpointConstants DEF Objects, KeyChange
  <1>2. claim' \in BOOLEAN
    BY ClaimChanges, Zenon DEF Objects, ClaimChange
  <1> QED BY <1>1, <1>2, Zenon

(* The store: a checkpoint of the Pod takes a free number, or objects of   *)
(* the chain in memory go away.                                            *)
Stores ==
  /\ pc = "checkpoint" /\ Executing(cachePod.uid) /\ ~store[job.seq].there
  /\ vm' = Snapshotted(cachePod.uid, job.seq)
  /\ store' = [store EXCEPT ![job.seq] = StoredCheckpoint(cachePod.uid)]
Removes ==
  /\ pc \in {"replace", "consume", "purge"}
  /\ pc = "replace" => Superseded(mem)
  /\ \E S \in SUBSET Chain(mem.ck) : store' = Without(S)

StoreChange == store' = store \/ Stores \/ Removes

(* What a step can do to the store: CheckpointSession adds one object,      *)
(* deleteCheckpointChain removes some.                                      *)
LEMMA StoreChanges ==
  ASSUME Step
  PROVE  StoreChange
  <1>1. ASSUME NEW ck, deleteCheckpointChain(ck)
        PROVE  \E S \in SUBSET Chain(ck) : store' = Without(S)
    BY <1>1, Zenon DEF deleteCheckpointChain
  <1>2. CASE CheckpointSession
    BY <1>2, Zenon DEF CheckpointSession, StoreChange, Stores
  <1>3. CASE replaceCheckpoint \/ consumeCheckpoint \/ purgeCheckpoints
    BY <1>1, <1>3, Zenon
    DEF replaceCheckpoint, consumeCheckpoint, purgeCheckpoints, StoreChange, Removes
  <1> QED BY <1>2, <1>3, OnlyStoreSteps, Zenon DEF StoreChange

(* The store stays typed. *)
LEMMA StoreTyped ==
  ASSUME TypeInv, Step
  PROVE  store' \in [Refs -> ObjectType]
  <1>1. store \in [Refs -> ObjectType] /\ vm \in [Uids -> MachineType]
    BY Zenon DEF TypeInv, Objects
  <1>2. CASE Removes
    <2>1. PICK S \in SUBSET Chain(mem.ck) : store' = Without(S)
      BY <1>2, Zenon DEF Removes
    <2>2. \A r \in Refs : [store[r] EXCEPT !.there = FALSE] \in ObjectType
      BY <1>1, Zenon DEF ObjectType
    <2> QED BY <1>1, <2>1, <2>2, Zenon DEF Without
  <1>3. CASE Stores
    <2> DEFINE u == cachePod.uid
               b == IF job.parent = 0 THEN 0 ELSE vm[u].base
    <2>1. u \in Uids
      BY <1>3, Zenon DEF Stores, Executing, Up, Created
    <2>2. u \in 0 .. MaxPods /\ 0 \in 0 .. MaxSeq
      BY <2>1, CheckpointConstants DEF Uids
    <2>3. job.parent \in 0 .. MaxSeq /\ job.key \in 0 .. MaxKeks
      BY Zenon DEF TypeInv, Control, JobType
    <2>4. b \in 0 .. MaxSeq
      <3>1. vm[u].base \in 0 .. MaxSeq
        BY <1>1, <2>1, Zenon DEF MachineType
      <3> QED BY <2>2, <3>1, Zenon
    <2>5. StoredCheckpoint(u) = [there |-> TRUE, parent |-> job.parent, base |-> b,
                                 by |-> u, key |-> job.key]
      BY Zenon DEF StoredCheckpoint
    <2> HIDE DEF b
    <2>6. StoredCheckpoint(u) \in ObjectType
      BY <2>2, <2>3, <2>4, <2>5, SMT DEF ObjectType
    <2> QED BY <1>1, <1>3, <2>6, Zenon DEF Stores
  <1> QED BY <1>1, <1>2, <1>3, StoreChanges, Zenon DEF StoreChange

(* The failures that happened only grow. *)
LEMMA FaultsTyped ==
  ASSUME Copies, Step
  PROVE  happened' \subseteq FaultKinds /\ happened \subseteq happened'
  <1>1. NoFault \/ \E k \in FaultKinds : happened' = happened \cup {k}
    BY Zenon
    DEF Step, Reconcile, World, Disruption, Crash, Fault, CanFail, Patch, PatchAndEnd,
        deleteCheckpointChain, Begin, recycleIfExpired,
        handleMissingPod, markPending, ensureWorkspacePVC, createPod, hold, deriveStatus,
        reconcileSessionCheckpoint, takeCheckpoint, CheckpointSession, replaceCheckpoint,
        recordCheckpoint, condemnPod, evictPod, suspendSession, checkPending,
        RestoreSessionCheckpoint, deleteSessionPod, consumeCheckpoint, recordRecovery, markLost,
        resumeAfterNodeLoss, restartExitedSession, dropExitedPod, reconcilePhase3Lifecycle,
        patchPhase, teardownSessionCheckpoint, purgeCheckpoints,
        teardownPod, deleteClaim, releaseFinalizer, SetWant, DeleteSandbox, PodStarts,
        KubeletReports, PodStops, CollectOwned, NodeReturns, EvictPod, MachineExits, NodeChanges
  <1> QED BY <1>1, Zenon DEF NoFault, Copies
(* The reconcile: it ends, or goes on to a step with no bounds of its own. *)
LEMMA GoesOn ==
  ASSUME Control, mem' \in Sandboxes, obs' \in PodType, job' \in JobType,
         pc' \in Pcs, pc' \notin Storing \cup Condemning \cup {"key"}
  PROVE  Control'
  BY Zenon DEF Control, Storing, Condemning

(* The copy, the Pod and the job in memory stay typed, and a diff is taken  *)
(* only below the limit of the chain.                                       *)
LEMMA ControlTyped ==
  ASSUME TypeInv, Step
  PROVE  Control'
  <1>0. /\ Objects /\ Control /\ mem \in Sandboxes /\ obs \in PodType /\ job \in JobType
        /\ cacheSb \in Sandboxes /\ cachePod \in PodType
    BY Zenon DEF TypeInv, Control, Copies
  <1>1. ASSUME UNCHANGED rec PROVE Control'
    BY <1>0, <1>1, Zenon DEF Control, rec
  <1>2. ASSUME End PROVE Control'
    BY <1>2, EndTyped, Zenon
  <1>3. ASSUME UNCHANGED <<mem, obs, job>>, pc' \in Pcs,
               pc' \notin Storing \cup Condemning \cup {"key"}
        PROVE  Control'
    BY <1>0, <1>3, GoesOn, Zenon
  <1>4. ASSUME mem' = sb', UNCHANGED <<obs, job>>, pc' \in Pcs,
               pc' \notin Storing \cup Condemning \cup {"key"}
        PROVE  Control'
    BY <1>0, <1>4, GoesOn, SbTyped, Zenon
  <1>5. CASE Begin
    <2>1. pc' \in {"erase", "missing", "derive"} /\ mem' = cacheSb /\ obs' = cachePod /\ job' = job
      BY <1>5, Zenon DEF Begin
    <2>2. pc' \in Pcs /\ pc' \notin Storing \cup Condemning \cup {"key"}
      BY <2>1, Zenon DEF Pcs, Storing, Condemning
    <2> QED BY <1>0, <2>1, <2>2, GoesOn, Zenon
  <1>6. CASE handleMissingPod \/ ensureWorkspacePVC \/ deleteSessionPod \/ consumeCheckpoint
             \/ teardownSessionCheckpoint \/ purgeCheckpoints \/ teardownPod
    <2>1. UNCHANGED <<mem, obs, job>> /\ pc' \in {"pending", "createPod", "consume", "recovered",
                                                 "purge", "teardownPod", "release"}
      BY <1>6, Zenon
      DEF handleMissingPod, ensureWorkspacePVC, deleteSessionPod, consumeCheckpoint,
          teardownSessionCheckpoint, purgeCheckpoints, teardownPod
    <2>2. pc' \in Pcs /\ pc' \notin Storing \cup Condemning \cup {"key"}
      BY <2>1, Zenon DEF Pcs, Storing, Condemning
    <2> QED BY <1>3, <2>1, <2>2, Zenon
  <1>7. CASE recycleIfExpired \/ createPod \/ hold \/ suspendSession \/ recordRecovery
             \/ resumeAfterNodeLoss \/ dropExitedPod \/ patchPhase \/ deleteClaim
             \/ releaseFinalizer \/ Crash
    BY <1>2, <1>7, Zenon
    DEF recycleIfExpired, createPod, hold, suspendSession, recordRecovery,
        resumeAfterNodeLoss, dropExitedPod, patchPhase, deleteClaim, releaseFinalizer, Crash,
        PatchAndEnd
  <1>8. CASE markPending \/ deriveStatus \/ markLost \/ restartExitedSession
    <2>1. ASSUME NEW p \in {"create", "decide", "force", "drop"}, pc' = p
          PROVE  pc' \in Pcs /\ pc' \notin Storing \cup Condemning \cup {"key"}
      BY <2>1, Zenon DEF Pcs, Storing, Condemning
    <2>2. /\ \/ pc' \in {"create", "decide", "force", "drop"} /\ mem' = sb' /\ UNCHANGED <<obs, job>>
             \/ pc' \in {"create", "decide", "force", "drop"} /\ UNCHANGED <<mem, obs, job>>
             \/ End
      BY <1>8, Zenon DEF markPending, deriveStatus, markLost, restartExitedSession, Patch
    <2> QED BY <1>2, <1>3, <1>4, <2>1, <2>2, Zenon
  <1>9. CASE reconcileSessionCheckpoint
    <2>1. PICK d \in Decisions(mem, obs) :
            \/ d = "wait" /\ End
            \/ d \in {"load", "lost", "rest"} /\ pc' = d /\ UNCHANGED <<mem, obs, job>>
            \/ /\ d \in Suspends \cup {Drain, Periodic} /\ mem.ck.seq < MaxSeq
               /\ pc' = "key" /\ job' = [NoJob EXCEPT !.why = d] /\ UNCHANGED <<mem, obs>>
      BY <1>9, Zenon DEF reconcileSessionCheckpoint
    <2>2. CASE d = "wait" /\ End
      BY <1>2, <2>2, Zenon
    <2>3. CASE d \in {"load", "lost", "rest"} /\ pc' = d /\ UNCHANGED <<mem, obs, job>>
      <3>1. pc' \in Pcs /\ pc' \notin Storing \cup Condemning \cup {"key"}
        BY <2>3, Zenon DEF Pcs, Storing, Condemning
      <3> QED BY <1>3, <2>3, <3>1, Zenon
    <2>4. CASE /\ d \in Suspends \cup {Drain, Periodic} /\ mem.ck.seq < MaxSeq
               /\ pc' = "key" /\ job' = [NoJob EXCEPT !.why = d] /\ UNCHANGED <<mem, obs>>
      <3>1. job' \in JobType /\ job'.why = d
        BY <2>4, Blank, Zenon DEF JobType
      <3> QED BY <1>0, <2>4, <3>1, Zenon DEF Control, Pcs, Storing, Condemning
    <2> QED BY <2>1, <2>2, <2>3, <2>4, Zenon
  <1>10. CASE takeCheckpoint
    <2> DEFINE p == DiffParent(mem, cachePod)
    <2>1. /\ pc = "key" /\ pc' = "checkpoint" /\ UNCHANGED <<mem, obs>>
          /\ job' = [job EXCEPT !.seq = mem.ck.seq + 1, !.parent = p, !.pod = cachePod.uid,
                                !.key = kek']
      BY <1>10, Zenon DEF takeCheckpoint
    <2>2. mem.ck \in CheckpointType
      BY <1>0, Zenon DEF Sandboxes, SandboxType
    <2>3. mem.ck.seq \in 0 .. MaxSeq /\ mem.ck.ref \in 0 .. MaxSeq /\ cachePod.uid \in 0 .. MaxPods
      BY <1>0, <2>2, Zenon DEF CheckpointType, PodType
    <2>4. mem.ck.seq + 1 \in Refs /\ mem.ck.seq + 1 \in 0 .. MaxSeq /\ 0 \in 0 .. MaxSeq
      <3>1. mem.ck.seq < MaxSeq
        BY <1>0, <2>1, Zenon DEF Control
      <3> QED BY <2>3, <3>1, CheckpointConstants DEF Refs
    <2>5. p \in 0 .. MaxSeq /\ (p # 0 => Len(mem.ck.parents) < MaxDiffChain)
      BY <2>3, <2>4, Zenon DEF DiffParent
    <2>6. kek' \in 0 .. MaxKeks
      BY <1>0, KeyTyped, Zenon
    <2> HIDE DEF p
    <2>7. /\ job' \in JobType /\ job'.seq = mem.ck.seq + 1 /\ job'.parent = p
          /\ job'.why = job.why
      BY <1>0, <2>1, <2>3, <2>4, <2>5, <2>6, Zenon DEF JobType
    <2> QED BY <1>0, <2>1, <2>4, <2>5, <2>7, Zenon DEF Control, Pcs, Storing, Condemning
  <1>11. ASSUME NEW m \in Sandboxes, pc \in Storing, CheckpointFailed(m) PROVE Control'
    <2>1. CASE job.why = Drain
      <3>1. /\ pc' = "condemn" /\ job' = [job EXCEPT !.err = TRUE] /\ mem' = m /\ obs' = obs
        BY <1>11, <2>1, Zenon DEF CheckpointFailed
      <3>2. job' \in JobType /\ job'.why = job.why
        BY <1>0, <3>1, Zenon DEF JobType
      <3> QED BY <1>0, <1>11, <2>1, <3>1, <3>2, Zenon DEF Control, Pcs, Storing, Condemning
    <2>2. CASE job.why # Drain
      BY <1>2, <1>11, <2>2, Zenon DEF CheckpointFailed
    <2> QED BY <2>1, <2>2, Zenon
  <1>12. CASE CheckpointSession
    <2>1. pc = "checkpoint" /\ (CheckpointFailed(mem) \/ (pc' = "replace" /\ UNCHANGED <<mem, obs, job>>))
      BY <1>12, Zenon DEF CheckpointSession
    <2>2. CASE pc' = "replace" /\ UNCHANGED <<mem, obs, job>>
      BY <1>0, <2>1, <2>2, Zenon DEF Control, Pcs, Storing, Condemning
    <2> QED BY <1>0, <1>11, <2>1, <2>2, Zenon DEF Storing
  <1>13. CASE replaceCheckpoint
    <2>1. pc = "replace" /\ pc' = "record" /\ UNCHANGED <<mem, obs, job>>
      BY <1>13, Zenon DEF replaceCheckpoint
    <2> QED BY <1>0, <2>1, Zenon DEF Control, Pcs, Storing, Condemning
  <1>14. CASE recordCheckpoint
    <2> DEFINE new == [mem EXCEPT !.ck = NewCheckpoint]
    <2>1. /\ pc = "record"
          /\ \/ job.why = Periodic /\ End
             \/ job.why # Periodic /\ pc' = "condemn" /\ mem' = sb' /\ UNCHANGED <<obs, job>>
             \/ CheckpointFailed(new)
      BY <1>14, Zenon DEF recordCheckpoint
    <2>2. new \in Sandboxes
      BY <1>0, <2>1, NewTyped, CkTyped, Zenon
    <2> HIDE DEF new
    <2>3. CASE job.why # Periodic /\ pc' = "condemn" /\ mem' = sb' /\ UNCHANGED <<obs, job>>
      <3>1. mem' \in Sandboxes
        BY <1>0, <2>3, SbTyped, Zenon
      <3> QED BY <1>0, <2>1, <2>3, <3>1, Zenon DEF Control, Pcs, Storing, Condemning
    <2> QED BY <1>2, <1>11, <2>1, <2>2, <2>3, Zenon DEF Storing
  <1>15. CASE condemnPod \/ evictPod
    <2>1. pc \in Condemning /\ pc' \in {"evict", "suspended"} /\ UNCHANGED <<mem, obs, job>>
      BY <1>15, Zenon DEF condemnPod, evictPod, Condemning
    <2> QED BY <1>0, <2>1, Zenon DEF Control, Pcs, Storing, Condemning
  <1>16. CASE checkPending
    <2>1. End \/ (pc' = "restore" /\ UNCHANGED <<mem, obs, job>>)
      BY <1>16, Zenon DEF checkPending
    <2> QED BY <1>2, <1>3, <2>1, Zenon DEF Pcs, Storing, Condemning
  <1>17. CASE RestoreSessionCheckpoint
    <2>1. /\ pc' \in {"consume", "scrap"} /\ UNCHANGED <<mem, obs>>
          /\ \E v \in {"resumed", "restarted"} : job' = [job EXCEPT !.recovery = v]
      BY <1>17, Zenon DEF RestoreSessionCheckpoint, Restored, Refused
    <2>2. job' \in JobType
      BY <1>0, <2>1, Zenon DEF JobType
    <2>3. pc' \in Pcs /\ pc' \notin Storing \cup Condemning \cup {"key"}
      BY <2>1, Zenon DEF Pcs, Storing, Condemning
    <2> QED BY <1>0, <2>1, <2>2, <2>3, GoesOn, Zenon
  <1>18. CASE reconcilePhase3Lifecycle
    <2>1. End \/ (pc' \in {"paused", "resumed"} /\ UNCHANGED <<mem, obs, job>>)
      BY <1>18, Zenon DEF reconcilePhase3Lifecycle
    <2>2. pc' \in {"paused", "resumed"} => pc' \in Pcs /\ pc' \notin Storing \cup Condemning \cup {"key"}
      BY Zenon DEF Pcs, Storing, Condemning
    <2> QED BY <1>2, <1>3, <2>1, <2>2, Zenon
  <1>19. CASE World \/ Disruption
    BY <1>1, <1>19, Zenon
    DEF World, Disruption, SetWant, DeleteSandbox, PodStarts, KubeletReports, PodStops,
        CollectOwned, NodeReturns, EvictPod, MachineExits, NodeChanges
  <1> QED BY <1>5, <1>6, <1>7, <1>8, <1>9, <1>10, <1>12, <1>13, <1>14, <1>15, <1>16, <1>17,
             <1>18, <1>19, Zenon DEF Step, Reconcile

(* The informer caches stay typed: they show what the objects were. *)
LEMMA CopiesTyped ==
  ASSUME TypeInv, Next
  PROVE  Copies'
  <1>1. CASE Step /\ (CachesFollow \/ CachesMiss)
    <2>1. sb' \in Sandboxes /\ pod' \in PodType /\ happened' \subseteq FaultKinds
      BY <1>1, SbTyped, PodChanges, FaultsTyped, Zenon DEF TypeInv
    <2>2. cacheSb' \in Sandboxes /\ cachePod' \in PodType /\ missed' \in BOOLEAN
      BY <1>1, <2>1, Zenon DEF CachesFollow, CachesMiss, TypeInv, Copies
    <2>3. lagging' \subseteq {"sb", "pod", "read"}
      <3>1. CASE CachesFollow
        BY <3>1, Zenon DEF CachesFollow, TypeInv, Copies
      <3>2. CASE CachesMiss
        BY <3>2, Zenon DEF CachesMiss, TypeInv, Copies, Changed
      <3> QED BY <1>1, <3>1, <3>2, Zenon
    <2>4. disruptions' \in 0 .. MaxDisruptions
      <3>1. disruptions' = disruptions \/ (disruptions < MaxDisruptions /\ disruptions' = disruptions + 1)
        BY <1>1, Zenon DEF Step, Disruption, EvictPod, MachineExits, NodeChanges, Disrupt
      <3> QED BY <3>1, CheckpointConstants DEF TypeInv, Copies
    <2> QED BY <2>1, <2>2, <2>3, <2>4, Zenon DEF Copies
  <1>2. CASE CatchUp
    BY <1>2, Zenon DEF CatchUp, TypeInv, Objects, Copies, NoFault
  <1> QED BY <1>1, <1>2, Zenon DEF Next

(* The initial state is typed. *)
LEMMA TypeInit == Init => TypeInv
  <1> SUFFICES ASSUME Init PROVE TypeInv
    BY Zenon
  <1>1. 0 \in 0 .. MaxKeks /\ 0 \in 0 .. MaxDisruptions
    BY CheckpointConstants
  <1>2. Objects
    BY <1>1, Blank, Zenon DEF Init, Objects
  <1>3. Control
    BY Blank, Zenon DEF Init, Control, Pcs, Storing, Condemning
  <1>4. Copies
    BY <1>1, Blank, Zenon DEF Init, Copies
  <1> QED BY <1>2, <1>3, <1>4, Zenon DEF TypeInv

(* Every step keeps the typing. *)
LEMMA TypeStep ==
  ASSUME TypeInv, [Next]_vars
  PROVE  TypeInv'
  <1>1. CASE UNCHANGED vars
    BY <1>1, Zenon DEF vars, objects, rec, caches, TypeInv, Objects, Control, Copies
  <1>2. CASE Next
    <2>1. Copies' /\ durable' = durable
      BY <1>2, CopiesTyped, Zenon DEF Next
    <2>2. CASE Step
      BY <2>1, <2>2, SbTyped, PodChanges, VmChanges, NodeTyped, StoreTyped, KeyTyped,
         ControlTyped, Zenon DEF TypeInv, Objects
    <2>3. CASE CatchUp
      BY <2>1, <2>3, Zenon DEF CatchUp, objects, rec, TypeInv, Objects, Control
    <2> QED BY <1>2, <2>2, <2>3, Zenon DEF Next
  <1> QED BY <1>1, <1>2, Zenon

(* Every variable keeps its type, and no chain of diffs grows past          *)
(* maxDiffChain (session_checkpoint.go), whatever fails and however stale   *)
(* the caches are.                                                          *)
THEOREM TypeCorrect == Spec => []TypeOK
  <1>1. Init => TypeInv
    BY TypeInit, Zenon
  <1>2. TypeInv /\ [Next]_vars => TypeInv'
    BY TypeStep, Zenon
  <1> QED BY <1>1, <1>2, TypeImplies, PTL DEF Spec
------------------------------------------------------------------------------
(* A deleted session. *)

Going(s) == ~s.live \/ s.deleting

(* The key is gone, or its delete failed once. *)
KeyTried == kek = 0 \/ "key" \in happened

(* Pods and nodes are those of machines that were made. *)
Born ==
  /\ pod.uid # 0 => pod.uid \in Created
  /\ \A u \in Uids : node[u] # "ready" => u \in Created

(* A reconcile tears down only a session whose deletion the cache showed.   *)
(* Once there was a machine there is a claim, until the first teardown ends *)
(* with its delete; by then the key was deleted or its delete failed, and   *)
(* the second teardown deletes it.                                          *)
EraseInv ==
  /\ Going(cacheSb) => Going(sb)
  /\ ~sb.live => Going(cacheSb) /\ pc \in Deletes \cup {"idle"}
  /\ pc \in Deletes => Going(cacheSb)
  /\ pc \in Deletes \ {"erase"} => KeyTried
  /\ pc = "createPod" => claim
  /\ (\E r \in Refs : store[r].there) => Created # {}
  /\ Created # {} /\ ~claim =>
       /\ Going(cacheSb) /\ pc \in Deletes \cup {"idle"} /\ KeyTried
       /\ pc \in Deletes \ {"erase"} => kek = 0
  /\ ~sb.live => kek = 0 \/ \A r \in Refs : ~store[r].there

(* A status patch touches neither the deletion mark nor the spec. *)
LEMMA MergeKeeps ==
  ASSUME NEW a \in Sandboxes, NEW b, NEW c
  PROVE  /\ Merge(a, b, c).live = a.live /\ Merge(a, b, c).deleting = a.deleting
         /\ Merge(a, b, c).want = a.want
  BY Zenon DEF Merge, Sandboxes, SandboxType

(* A Sandbox that is going stays so; it goes when its finalizer does. *)
LEMMA SbGoes ==
  ASSUME TypeInv, Step
  PROVE  /\ Going(sb) => Going(sb')
         /\ sb'.live => sb.live
         /\ sb.live /\ ~sb'.live => pc = "release" /\ ~claim /\ End
         /\ sb'.live => (sb.deleting => sb'.deleting)
  <1>1. sb \in Sandboxes /\ DOMAIN sb = {"live", "deleting", "want", "phase", "reason", "ck"}
    BY Zenon DEF TypeInv, Objects, Sandboxes, SandboxType
  <1>2. SbChange
    BY SbChanges, Zenon DEF TypeInv
  <1>3. CASE sb' = [sb EXCEPT !.deleting = TRUE]
    BY <1>1, <1>3, Zenon DEF Going
  <1>4. CASE \E w \in Wants : sb' = [sb EXCEPT !.want = w]
    BY <1>1, <1>4, Zenon DEF Going
  <1>5. CASE pc = "release" /\ ~claim /\ sb' = NoSandbox /\ End
    <2>1. ~sb'.live
      BY <1>5, Zenon DEF NoSandbox, NewSandbox
    <2> QED BY <1>1, <1>5, <2>1, Zenon DEF Going, Sandboxes, SandboxType
  <1>6. CASE \E new \in Sandboxes : sb' = Merge(sb, mem, new)
    <2>1. PICK new \in Sandboxes : sb' = Merge(sb, mem, new)
      BY <1>6, Zenon
    <2>2. /\ Merge(sb, mem, new).live = sb.live
          /\ Merge(sb, mem, new).deleting = sb.deleting
      BY <1>1, MergeKeeps, Zenon
    <2>3. sb'.live = sb.live /\ sb'.deleting = sb.deleting
      BY <2>1, <2>2, Zenon
    <2> QED BY <2>3, Zenon DEF Going
  <1>7. CASE sb' = sb
    BY <1>7, Zenon DEF Going
  <1> QED BY <1>2, <1>3, <1>4, <1>5, <1>6, <1>7, Zenon DEF SbChange

(* Only createPod makes a machine. *)
LEMMA Births ==
  ASSUME TypeInv, Born, Step
  PROVE  /\ Created \subseteq Created'
         /\ Created' = Created \/ (pc = "createPod" /\ End)
  <1>1. Created \subseteq Created'
    BY VmChanges, Zenon DEF VmChange, Created
  <1>2. vm \in [Uids -> MachineType]
    BY Zenon DEF TypeInv, Objects
  <1>3. ASSUME NEW u, u \in Created, NEW m, vm' = [vm EXCEPT ![u] = m]
        PROVE  Created' \subseteq Created
    BY <1>2, <1>3, Zenon DEF Created
  <1>4. ASSUME NEW u, u \in Created, NEW s, vm' = [vm EXCEPT ![u].state = s]
        PROVE  Created' \subseteq Created
    BY <1>2, <1>4, Zenon DEF Created
  <1>5. vm' = vm => Created' \subseteq Created
    BY Zenon DEF Created
  <1>6. ASSUME PodStarts \/ PodStops PROVE Created' \subseteq Created
    BY <1>4, <1>6, Zenon DEF PodStarts, PodStops, Born
  <1>7. ASSUME NEW u \in Uids, NodeReturns(u) \/ MachineExits(u) PROVE Created' \subseteq Created
    <2>1. CASE NodeReturns(u)
      <3>1. u \in Created
        BY <2>1, Zenon DEF NodeReturns, Born
      <3> QED BY <1>4, <1>5, <2>1, <3>1, Zenon DEF NodeReturns
    <2>2. CASE MachineExits(u)
      <3>1. u \in Created
        BY <2>2, Zenon DEF MachineExits, Created
      <3> QED BY <1>4, <2>2, <3>1, Zenon DEF MachineExits
    <2> QED BY <1>7, <2>1, <2>2, Zenon
  <1>8. ASSUME CheckpointSession \/ RestoreSessionCheckpoint \/ reconcilePhase3Lifecycle
        PROVE  Created' \subseteq Created
    <2> DEFINE c == cachePod.uid
    <2>1. vm' = vm \/ (c \in Created /\ \A v \in Uids : v # c => vm'[v] = vm[v])
      <3>1. CASE CheckpointSession
        BY <1>2, <3>1, Zenon
        DEF CheckpointSession, Executing, Up, Snapshotted, Unsaved
      <3>2. CASE RestoreSessionCheckpoint
        BY <1>2, <3>2, Zenon DEF RestoreSessionCheckpoint, Up, Loaded
      <3>3. CASE reconcilePhase3Lifecycle
        BY <1>2, <3>3, Zenon DEF reconcilePhase3Lifecycle, Executing, Up
      <3> QED BY <1>8, <3>1, <3>2, <3>3, Zenon
    <2> QED BY <2>1, Zenon DEF Created
  <1>9. Created' \subseteq Created \/ createPod
    BY <1>5, <1>6, <1>7, <1>8, OnlyVmSteps, Zenon
  <1> QED BY <1>1, <1>9, Zenon DEF createPod

(* Every step keeps Born: the Pod and the nodes in use are those of         *)
(* machines that were made.                                                 *)
LEMMA BornStep ==
  ASSUME TypeInv, Born, Step
  PROVE  Born'
  <1>1. Created \subseteq Created'
    BY Births, Zenon
  <1>2. pod'.uid # 0 => pod'.uid \in Created'
    <2>1. PodChange /\ vm' \in [Uids -> MachineType]
      BY PodChanges, VmChanges, Zenon DEF TypeInv
    <2>2. NoPod.uid = 0
      BY Zenon DEF NoPod
    <2> QED BY <1>1, <2>1, <2>2, Zenon DEF PodChange, Born, Created
  <1>3. ASSUME NEW u \in Uids, node'[u] # "ready" PROVE u \in Created'
    <2>1. node[u] # "ready" \/ u = pod.uid
      <3>1. node \in [Uids -> {"ready", "cordoned", "lost"}]
        BY Zenon DEF TypeInv, Objects
      <3>2. \/ node' = node
            \/ \E v \in Uids : NodeReturns(v)
            \/ \E v \in Uids, st \in {"cordoned", "lost"} : NodeChanges(v, st)
        BY NodeSteps, Zenon
      <3> QED BY <1>3, <3>1, <3>2, Zenon DEF NodeReturns, NodeChanges
    <2>2. u = pod.uid => u # 0
      BY CheckpointConstants DEF Uids
    <2> QED BY <1>1, <2>1, <2>2, Zenon DEF Born
  <1> QED BY <1>2, <1>3, Zenon DEF Born

(* The steps of a reconcile, as far as a teardown is concerned. *)
PcMove ==
  \/ pc' = pc
  \/ pc' = "idle"
  \/ /\ pc = "idle" /\ cacheSb.live
     /\ pc' \in {"erase", "missing", "derive"} /\ (cacheSb.deleting <=> pc' = "erase")
  \/ /\ pc = "erase" /\ pc' = "purge"
     /\ kek' = 0 \/ (kek # 0 /\ "key" \notin happened /\ "key" \in happened')
  \/ pc \in {"purge", "teardownPod"} /\ pc' \in {"teardownPod", "release"}
  \/ /\ pc \notin Deletes \cup {"idle"} /\ pc' \notin Deletes \cup {"idle"}
     /\ pc' = "createPod" => claim'

(* Every step makes one of the moves of PcMove. *)
LEMMA PcMoves ==
  ASSUME Step
  PROVE  PcMove
  <1> DEFINE Plain == /\ pc \notin Deletes \cup {"idle"}
                      /\ pc' \notin Deletes \cup {"idle", "createPod"}
  <1>0. ASSUME Plain \/ pc' = pc \/ pc' = "idle" PROVE PcMove
    BY <1>0, Zenon DEF PcMove
  <1> HIDE DEF Plain
  <1>1. CASE Begin
    <2>1. pc = "idle" /\ cacheSb.live
      BY <1>1, Zenon DEF Begin
    <2>2. cacheSb.deleting => pc' = "erase"
      BY <1>1, Zenon DEF Begin
    <2>3. ~cacheSb.deleting => pc' \in {"missing", "derive"}
      BY <1>1, Zenon DEF Begin
    <2> QED BY <2>1, <2>2, <2>3, Zenon DEF PcMove
  <1>2. CASE recycleIfExpired \/ createPod \/ hold \/ suspendSession \/ recordRecovery
             \/ resumeAfterNodeLoss \/ dropExitedPod \/ patchPhase \/ deleteClaim
             \/ releaseFinalizer \/ Crash
    BY <1>0, <1>2, Zenon
    DEF recycleIfExpired, createPod, hold, suspendSession, recordRecovery,
        resumeAfterNodeLoss, dropExitedPod, patchPhase, deleteClaim, releaseFinalizer, Crash,
        PatchAndEnd, End
  <1>3. CASE handleMissingPod \/ markPending \/ deriveStatus \/ takeCheckpoint
             \/ replaceCheckpoint \/ condemnPod \/ evictPod \/ checkPending
             \/ deleteSessionPod \/ consumeCheckpoint \/ markLost \/ restartExitedSession
    <2>1. Plain \/ pc' = "idle"
      BY <1>3, Zenon
      DEF handleMissingPod, markPending, deriveStatus, takeCheckpoint,
          replaceCheckpoint, condemnPod, evictPod, checkPending, deleteSessionPod,
          consumeCheckpoint, markLost, restartExitedSession, Patch, End, Plain, Deletes
    <2> QED BY <1>0, <2>1, Zenon
  <1>4. CASE reconcileSessionCheckpoint \/ CheckpointSession \/ recordCheckpoint
             \/ RestoreSessionCheckpoint \/ reconcilePhase3Lifecycle
    <2>1. Plain \/ pc' = "idle"
      BY <1>4, Zenon
      DEF reconcileSessionCheckpoint, CheckpointSession, recordCheckpoint,
          RestoreSessionCheckpoint, Restored, Refused, reconcilePhase3Lifecycle,
          CheckpointFailed, End, Plain, Deletes
    <2> QED BY <1>0, <2>1, Zenon
  <1>5. CASE ensureWorkspacePVC
    BY <1>5, Zenon DEF ensureWorkspacePVC, PcMove, Deletes
  <1>6. CASE teardownSessionCheckpoint
    BY <1>6, Zenon DEF teardownSessionCheckpoint, PcMove, EraseKey, Fault, CanFail
  <1>7. CASE purgeCheckpoints \/ teardownPod
    BY <1>7, Zenon DEF purgeCheckpoints, teardownPod, PcMove
  <1>8. CASE World \/ Disruption
    BY <1>0, <1>8, Zenon
    DEF World, Disruption, SetWant, DeleteSandbox, PodStarts, KubeletReports, PodStops,
        CollectOwned, NodeReturns, EvictPod, MachineExits, NodeChanges, rec
  <1> QED BY <1>1, <1>2, <1>3, <1>4, <1>5, <1>6, <1>7, <1>8, Zenon DEF Step, Reconcile

(* A cache that shows a Sandbox as going shows what happened. *)
LEMMA CacheGoes ==
  ASSUME TypeInv, EraseInv, Step, CachesFollow \/ CachesMiss
  PROVE  /\ Going(cacheSb) => Going(cacheSb')
         /\ Going(cacheSb') => Going(sb')
         /\ cacheSb' = cacheSb \/ cacheSb' = sb'
  <1>1. cacheSb' = cacheSb \/ cacheSb' = sb'
    BY Zenon DEF CachesFollow, CachesMiss
  <1> QED BY <1>1, SbGoes, Zenon DEF EraseInv

(* What is in the store was written by a machine. *)
LEMMA StoreBorn ==
  ASSUME TypeInv, Born, EraseInv, Step
  PROVE  /\ (\E r \in Refs : store'[r].there) => Created' # {}
         /\ pc # "checkpoint" => \A r \in Refs : store'[r].there => store[r].there
  <1>1. Created \subseteq Created' /\ store \in [Refs -> ObjectType]
    BY Births, Zenon DEF TypeInv, Objects
  <1>2. CASE store' = store
    BY <1>1, <1>2, Zenon DEF EraseInv
  <1>3. CASE Stores
    <2>1. pc = "checkpoint" /\ cachePod.uid \in Created
      BY <1>3, Zenon DEF Stores, Executing, Up
    <2> QED BY <1>1, <2>1, Zenon
  <1>4. CASE Removes
    <2>1. PICK S \in SUBSET Chain(mem.ck) : store' = Without(S)
      BY <1>4, Zenon DEF Removes
    <2>2. \A r \in Refs : store'[r].there => store[r].there
      BY <1>1, <2>1, Zenon DEF Without, ObjectType
    <2> QED BY <1>1, <2>2, Zenon DEF EraseInv
  <1> QED BY <1>2, <1>3, <1>4, StoreChanges, Zenon DEF StoreChange

(* Every step of the system keeps EraseInv, by the place of the reconcile   *)
(* in the teardown.                                                         *)
LEMMA EraseStep ==
  ASSUME TypeInv, Born, EraseInv, Step, CachesFollow \/ CachesMiss
  PROVE  EraseInv'
  <1> USE DEF Deletes
  <1>1. /\ Going(cacheSb) => Going(cacheSb') 
        /\ Going(cacheSb') => Going(sb')
        /\ cacheSb' = cacheSb \/ cacheSb' = sb'
    BY CacheGoes, Zenon
  <1>2. PcMove /\ KeyChange /\ ClaimChange
    BY PcMoves, KeyChanges, ClaimChanges, Zenon
  <1>3. /\ Created \subseteq Created'
        /\ Created' = Created \/ (pc = "createPod" /\ pc' = "idle")
        /\ (\E r \in Refs : store'[r].there) => Created' # {}
        /\ pc # "checkpoint" => \A r \in Refs : store'[r].there => store[r].there
    BY Births, StoreBorn, Zenon DEF End
  <1>4. /\ sb'.live => sb.live
        /\ sb.live /\ ~sb'.live => pc = "release" /\ ~claim /\ pc' = "idle"
    BY SbGoes, Zenon DEF End
  <1>5. happened \subseteq happened'
    BY FaultsTyped, Zenon DEF TypeInv
  <1>6. ~sb'.live => Going(cacheSb') /\ pc' \in Deletes \cup {"idle"}
    <2>1. CASE ~sb.live
      <3>1. Going(cacheSb) /\ pc \in Deletes \cup {"idle"}
        BY <2>1, Zenon DEF EraseInv
      <3>2. pc' \in Deletes \cup {"idle"}
        BY <1>2, <3>1, Zenon DEF PcMove, Going
      <3> QED BY <1>1, <3>1, <3>2, Zenon
    <2>2. CASE sb.live /\ ~sb'.live
      <3>1. Going(cacheSb)
        BY <1>4, <2>2, Zenon DEF EraseInv
      <3> QED BY <1>1, <1>4, <2>2, <3>1, Zenon
    <2> QED BY <2>1, <2>2, Zenon
  <1>7. pc' \in Deletes => Going(cacheSb')
    <2>1. pc' \in Deletes => pc \in Deletes \/ (pc = "idle" /\ cacheSb.deleting)
      BY <1>2, Zenon DEF PcMove
    <2> QED BY <1>1, <2>1, Zenon DEF EraseInv, Going
  <1>8. KeyTried => KeyTried' \/ (pc \in {"missing", "key"} /\ pc' \notin Deletes)
    BY <1>2, <1>5, Zenon DEF KeyTried, KeyChange
  <1>9. pc' \in Deletes \ {"erase"} => KeyTried'
    <2>1. CASE pc \in Deletes \ {"erase"}
      BY <1>8, <2>1, Zenon DEF EraseInv
    <2>2. CASE pc \notin Deletes \ {"erase"} /\ pc' \in Deletes \ {"erase"}
      <3>1. kek' = 0 \/ "key" \in happened'
        BY <1>2, <2>2, Zenon DEF PcMove
      <3> QED BY <3>1, Zenon DEF KeyTried
    <2> QED BY <2>1, <2>2, Zenon
  <1>10. pc' = "createPod" => claim'
    <2>1. pc = "createPod" => claim
      BY Zenon DEF EraseInv
    <2>2. CASE pc = "createPod" /\ pc' = pc
      <3>1. claim' = claim
        BY <1>2, <2>2, Zenon DEF ClaimChange
      <3> QED BY <2>1, <2>2, <3>1, Zenon
    <2>3. CASE pc # "createPod" /\ pc' = "createPod"
      BY <1>2, <2>3, Zenon DEF PcMove
    <2> QED BY <2>2, <2>3, Zenon
  <1>11. ASSUME Created' # {}, ~claim'
         PROVE  /\ Going(cacheSb') /\ pc' \in Deletes \cup {"idle"} /\ KeyTried'
                /\ pc' \in Deletes \ {"erase"} => kek' = 0
    <2>1. CASE Created # {} /\ ~claim
      <3>1. Going(cacheSb) /\ pc \in Deletes \cup {"idle"} /\ KeyTried
        BY <2>1, Zenon DEF EraseInv
      <3>2. pc' \in Deletes \cup {"idle"}
        BY <1>2, <3>1, Zenon DEF PcMove, Going
      <3>3. Going(cacheSb') /\ KeyTried'
        BY <1>1, <1>8, <3>1, Zenon
      <3>4. kek = 0 => kek' = 0
        BY <1>2, <3>1, Zenon DEF KeyChange
      <3>5. CASE pc \in Deletes \ {"erase"}
        BY <2>1, <3>2, <3>3, <3>4, <3>5, Zenon DEF EraseInv
      <3>6. CASE pc \in {"erase", "idle"} /\ pc' \in Deletes \ {"erase"}
        <4>1. kek' = 0 \/ (kek # 0 /\ "key" \notin happened)
          BY <1>2, <3>6, Zenon DEF PcMove
        <4> QED BY <3>1, <3>2, <3>3, <4>1, Zenon DEF KeyTried
      <3> QED BY <3>1, <3>2, <3>3, <3>5, <3>6, Zenon
    <2>2. CASE claim
      <3>1. pc = "release" /\ pc' = "idle"
        BY <1>2, <1>11, <2>2, Zenon DEF ClaimChange, End
      <3> QED BY <1>1, <1>8, <3>1, Zenon DEF EraseInv
    <2>3. CASE Created = {}
      <3>1. pc = "createPod"
        BY <1>3, <1>11, <2>3, Zenon
      <3>2. claim
        BY <3>1, Zenon DEF EraseInv
      <3> QED BY <2>2, <3>2, Zenon
    <2> QED BY <2>1, <2>2, <2>3, Zenon
  <1>12. ~sb'.live => kek' = 0 \/ \A r \in Refs : ~store'[r].there
    <2>1. CASE ~sb.live
      <3>1. pc \in Deletes \cup {"idle"}
        BY <2>1, Zenon DEF EraseInv
      <3>2. kek = 0 => kek' = 0
        BY <1>2, <3>1, Zenon DEF KeyChange
      <3>3. \A r \in Refs : store'[r].there => store[r].there
        BY <1>3, <3>1, Zenon
      <3> QED BY <2>1, <3>2, <3>3, Zenon DEF EraseInv
    <2>2. CASE sb.live /\ ~sb'.live
      <3>1. pc = "release" /\ ~claim
        BY <1>4, <2>2, Zenon
      <3>2. kek = 0 => kek' = 0
        BY <1>2, <3>1, Zenon DEF KeyChange
      <3>3. \A r \in Refs : store'[r].there => store[r].there
        BY <1>3, <3>1, Zenon
      <3>4. Created # {} => kek = 0
        BY <3>1, Zenon DEF EraseInv
      <3> QED BY <3>2, <3>3, <3>4, Zenon DEF EraseInv
    <2> QED BY <2>1, <2>2, Zenon
  <1> QED BY <1>1, <1>3, <1>6, <1>7, <1>9, <1>10, <1>11, <1>12, Zenon DEF EraseInv

(* EraseInv is inductive, caches that catch up included. *)
LEMMA EraseNext ==
  ASSUME TypeInv, Born, EraseInv, [Next]_vars
  PROVE  Born' /\ EraseInv'
  <1>1. CASE Step /\ (CachesFollow \/ CachesMiss)
    BY <1>1, BornStep, EraseStep, Zenon
  <1>2. CASE CatchUp
    <2>1. UNCHANGED <<sb, pod, vm, node, store, kek, claim, pc, happened>> /\ cacheSb' = sb
      BY <1>2, Zenon DEF CatchUp, objects, rec, NoFault
    <2>2. Created' = Created /\ KeyTried' = KeyTried
      BY <2>1, Zenon DEF Created, KeyTried
    <2>3. Born'
      BY <2>1, <2>2, Zenon DEF Born
    <2> QED BY <2>1, <2>2, <2>3, Zenon DEF EraseInv
  <1>3. CASE UNCHANGED vars
    <2>1. UNCHANGED <<sb, pod, vm, node, store, kek, claim, pc, happened, cacheSb>>
      BY <1>3, Zenon DEF vars, objects, rec, caches
    <2>2. Created' = Created /\ KeyTried' = KeyTried
      BY <2>1, Zenon DEF Created, KeyTried
    <2>3. Born'
      BY <2>1, <2>2, Zenon DEF Born
    <2> QED BY <2>1, <2>2, <2>3, Zenon DEF EraseInv
  <1> QED BY <1>1, <1>2, <1>3, Zenon DEF Next

(* EraseInv holds initially. *)
LEMMA EraseInit == Init => Born /\ EraseInv
  <1> SUFFICES ASSUME Init PROVE Born /\ EraseInv
    BY Zenon
  <1>1. Created = {} /\ \A r \in Refs : ~store[r].there
    BY Zenon DEF Init, Created, NoMachine, NoObject
  <1>2. sb.live /\ ~Going(cacheSb) /\ pod.uid = 0
    BY Zenon DEF Init, NewSandbox, NoPod, Going
  <1> QED BY <1>1, <1>2, Zenon DEF Init, Born, EraseInv, Deletes

(* teardownSessionCheckpoint erases: once the Sandbox is gone, no stored    *)
(* object opens with the session key, although the delete of the key is     *)
(* best effort, whatever else failed and however stale the caches were.     *)
THEOREM ErasedSafe == Spec => []Erased
  <1>1. Init => TypeInv /\ Born /\ EraseInv
    BY TypeInit, EraseInit, Zenon
  <1>2. TypeInv /\ Born /\ EraseInv /\ [Next]_vars => (TypeInv /\ Born /\ EraseInv)'
    BY TypeStep, EraseNext, Zenon
  <1>3. EraseInv => Erased
    BY Zenon DEF EraseInv, Erased
  <1> QED BY <1>1, <1>2, <1>3, PTL DEF Spec
------------------------------------------------------------------------------
(* Reconciles on caches that never lagged. *)

Restoring == {"load", "restore", "scrap", "consume", "recovered"}
Stored == {"replace", "record"}
Suspendable == {"idle", "missing", "pending", "create", "createPod", "derive"} \cup Deletes

Current == ~missed => lagging = {} /\ cacheSb = sb /\ cachePod = pod

(* The copy in memory is the status; only a drain goes on with a checkpoint *)
(* that it could not record.                                                *)
Mirror ==
  pc # "idle" =>
    /\ sb.live /\ (pc \in Deletes => sb.deleting)
    /\ mem.phase = sb.phase /\ mem.reason = sb.reason
    /\ mem.ck = sb.ck \/ (pc \in Condemning /\ job.err)
    /\ pod.uid \in {0, obs.uid}

(* The status names a Pod that was created and numbers of the past. *)
Named ==
  /\ sb.ck.pod # 0 => sb.ck.pod \in Created
  /\ \A r \in Chain(sb.ck) : r <= sb.ck.seq

(* The next number is taken by an object that the status does not have. *)
Stuck == sb.ck.seq + 1 \in Refs /\ store[sb.ck.seq + 1].there

TakesNext ==
  /\ job.seq = sb.ck.seq + 1 /\ job.key = kek /\ kek # 0
  /\ pod.uid \in {0, job.pod}
  /\ job.parent # 0 => job.parent = sb.ck.ref /\ job.pod = sb.ck.pod

HasNext ==
  /\ store[job.seq].there /\ store[job.seq].key = kek
  /\ job.pod \in Created
  /\ job.why # Periodic => ~vm[job.pod].ahead
  /\ job.parent # 0 => Readable(Chain(sb.ck))

Kept == /\ sb.ck.ref # 0 /\ sb.ck.pod # 0
        /\ Readable(Chain(sb.ck)) /\ ~vm[sb.ck.pod].ahead

Jobs ==
  /\ pc \in Storing \cup {"key"} => ~job.err
  /\ pc \in Storing => TakesNext
  /\ pc \in Stored => HasNext
  /\ pc \in Condemning /\ job.why \in Suspends => ~job.err /\ Kept
  /\ pc \in Restoring => sb.ck.pod = 0 \/ obs.uid # sb.ck.pod

(* The chain of the status is whole while the Pod that wrote it is there. *)
Whole ==
  /\ sb.live /\ sb.ck.ref # 0 /\ pod.uid # 0 /\ sb.ck.pod = pod.uid
  /\ ~sb.deleting \/ pc \notin Deletes \cup {"idle"}
  => Readable(Chain(sb.ck)) \/ Stuck

Asleep ==
  sb.phase = "Suspended" =>
    /\ pc \in Suspendable
    /\ sb.live /\ ~sb.deleting /\ sb.reason \in Suspends => sb.ck.pending /\ Kept

(* A diff counts from its parent, when no snapshot was left unsaved. *)
Diffs ==
  "save" \notin happened =>
    /\ DiffCountsFromParent
    /\ pc \in Stored => vm[job.pod].base = job.seq
    /\ sb.ck.ref # 0 /\ sb.ck.pod # 0 => vm[sb.ck.pod].base = sb.ck.ref \/ Stuck

Good == Mirror /\ Named /\ Jobs /\ Whole /\ Asleep /\ Diffs
FreshInv == Current /\ (~missed => Good)

(* Caches that never lagged show the objects, and a lag is not forgotten. *)
LEMMA CurrentStep ==
  ASSUME Current, Next
  PROVE  Current' /\ (~missed' => ~missed)
  <1>1. CASE CachesFollow
    BY <1>1, Zenon DEF CachesFollow, Current
  <1>2. CASE CachesMiss
    BY <1>2, Zenon DEF CachesMiss, Current
  <1>3. CASE CatchUp
    BY <1>3, Zenon DEF CatchUp, Current, objects
  <1> QED BY <1>1, <1>2, <1>3, Zenon DEF Next

(* A patch of a status that nobody else changed. *)
LEMMA MergeSame ==
  ASSUME NEW a \in Sandboxes, NEW b \in Sandboxes, NEW c \in Sandboxes,
         b.ck = a.ck, b.phase = a.phase, b.reason = a.reason
  PROVE  /\ Merge(a, b, c).ck = c.ck /\ Merge(a, b, c).phase = c.phase
         /\ Merge(a, b, c).reason = c.reason
  <1>1. a.ck \in CheckpointType /\ c.ck \in CheckpointType
    BY Zenon DEF Sandboxes, SandboxType
  <1>2. MergeCk(a.ck, b.ck, c.ck) = c.ck
    <2>1. DOMAIN a.ck = DOMAIN c.ck
      BY <1>1, Zenon DEF CheckpointType
    <2>2. \A f \in DOMAIN a.ck : Pick(a.ck[f], b.ck[f], c.ck[f]) = c.ck[f]
      BY Zenon DEF Pick
    <2>3. c.ck = [f \in DOMAIN c.ck |-> c.ck[f]]
      BY <1>1, Zenon DEF CheckpointType
    <2> QED BY <2>1, <2>2, <2>3 DEF MergeCk
  <1>3. /\ Merge(a, b, c).ck = MergeCk(a.ck, b.ck, c.ck)
        /\ Merge(a, b, c).phase = Pick(a.phase, b.phase, c.phase)
        /\ Merge(a, b, c).reason = Pick(a.reason, b.reason, c.reason)
    BY Zenon DEF Merge, Sandboxes, SandboxType
  <1> QED BY <1>2, <1>3, Zenon DEF Pick

(* A patch that changes no number leaves the numbers. *)
SameRefs(k, l) == k.ref = l.ref /\ k.seq = l.seq /\ k.pod = l.pod /\ k.parents = l.parents

(* A merge patch that changes no number of the status keeps the numbers     *)
(* that are live.                                                           *)
LEMMA MergeRefs ==
  ASSUME NEW a \in Sandboxes, NEW b, NEW c, SameRefs(c.ck, b.ck)
  PROVE  SameRefs(Merge(a, b, c).ck, a.ck)
  <1>1. Merge(a, b, c).ck = MergeCk(a.ck, b.ck, c.ck)
    BY Zenon DEF Merge, Sandboxes, SandboxType
  <1>2. DOMAIN a.ck = {"ref", "seq", "pod", "parents", "pending", "recovery"}
    BY Zenon DEF Sandboxes, SandboxType, CheckpointType
  <1> QED BY <1>1, <1>2, Zenon DEF SameRefs, MergeCk, Pick

(* The chain is that of the references. *)
LEMMA SameChain ==
  ASSUME NEW k, NEW l, SameRefs(k, l)
  PROVE  Chain(k) = Chain(l)
  BY Zenon DEF SameRefs, Chain
(* What a step of a current reconcile does to the status. *)
SameCk ==
  /\ SameRefs(sb'.ck, sb.ck)
  /\ pc = "suspended" \/ (sb.ck.pending => sb'.ck.pending)
CkChange ==
  \/ SameCk
  \/ pc = "record" /\ sb'.ck = NewCheckpoint
  \/ pc = "recovered" /\ sb'.ck = Consumed(mem)
  \/ sb' = NoSandbox
PhaseChange ==
  \/ sb'.phase = sb.phase /\ sb'.reason = sb.reason
  \/ sb'.phase # "Suspended"
  \/ /\ pc = "suspended" /\ pc' = "idle" /\ sb'.reason = job.why
     /\ ~job.err /\ mem.ck = sb.ck /\ sb.ck.ref # 0 => sb'.ck.pending

(* What a step can do to the checkpoint and the phase in the status, when   *)
(* the copy in memory mirrors them.                                         *)
LEMMA StatusChanges ==
  ASSUME TypeInv, Mirror, Step
  PROVE  CkChange /\ PhaseChange
  <1> DEFINE Goal == CkChange /\ PhaseChange
  <1> SUFFICES Goal
    BY Zenon
  <1>0. /\ sb \in Sandboxes /\ mem \in Sandboxes /\ Objects /\ Control
        /\ DOMAIN sb = {"live", "deleting", "want", "phase", "reason", "ck"}
        /\ DOMAIN mem = {"live", "deleting", "want", "phase", "reason", "ck"}
        /\ DOMAIN mem.ck = {"ref", "seq", "pod", "parents", "pending", "recovery"}
    BY Zenon DEF TypeInv, Objects, Control, Sandboxes, SandboxType, CheckpointType
  <1>1. ASSUME sb'.ck = sb.ck, sb'.phase = sb.phase, sb'.reason = sb.reason PROVE Goal
    BY <1>1, Zenon DEF CkChange, SameCk, SameRefs, PhaseChange
  <1>2. CASE sb' = sb
    BY <1>1, <1>2, Zenon
  <1>3. CASE recycleIfExpired \/ DeleteSandbox \/ \E w \in Wants : SetWant(w)
    <2>1. sb'.ck = sb.ck /\ sb'.phase = sb.phase /\ sb'.reason = sb.reason
      BY <1>0, <1>3, Zenon DEF recycleIfExpired, DeleteSandbox, SetWant
    <2> QED BY <1>1, <2>1, Zenon
  <1>4. CASE releaseFinalizer
    <2>1. sb' = NoSandbox /\ sb'.phase = "Pending"
      BY <1>4, Zenon DEF releaseFinalizer, NoSandbox, NewSandbox
    <2>2. sb'.phase # "Suspended"
      BY <2>1, Zenon
    <2> QED BY <2>1, <2>2, Zenon DEF CkChange, PhaseChange
  <1>5. pc # "idle" => mem.phase = sb.phase /\ mem.reason = sb.reason
    BY Zenon DEF Mirror
  <1>6. pc # "idle" /\ pc \notin Condemning => mem.ck = sb.ck
    BY Zenon DEF Mirror
  <1> HIDE DEF Goal
  <1>7. ASSUME NEW c \in Sandboxes, sb' = Merge(sb, mem, c), pc # "idle", pc \notin Condemning
        PROVE  sb'.ck = c.ck /\ sb'.phase = c.phase /\ sb'.reason = c.reason
    <2>1. mem.ck = sb.ck /\ mem.phase = sb.phase /\ mem.reason = sb.reason
      BY <1>5, <1>6, <1>7, Zenon
    <2>2. /\ Merge(sb, mem, c).ck = c.ck /\ Merge(sb, mem, c).phase = c.phase
          /\ Merge(sb, mem, c).reason = c.reason
      <3> HIDE DEF Goal
      <3>1. sb \in Sandboxes /\ mem \in Sandboxes /\ c \in Sandboxes
        BY <1>0, <1>7, Zenon
      <3> QED BY <2>1, <3>1, MergeSame
    <2> QED BY <1>7, <2>2, Zenon
  <1>8. CASE markPending \/ markLost
    <2> DEFINE c == [mem EXCEPT !.ck.pending = TRUE]
    <2>1. c \in Sandboxes
      BY <1>0, PendingTyped, Zenon
    <2>2. /\ pc # "idle" /\ pc \notin Condemning
          /\ sb' = sb \/ sb' = Merge(sb, mem, c)
      BY <1>8, Zenon DEF markPending, markLost, Patch, Condemning
    <2>3. SameRefs(c.ck, mem.ck) /\ c.ck.pending /\ c.phase = mem.phase /\ c.reason = mem.reason
      BY <1>0, Zenon DEF SameRefs
    <2> HIDE DEF c
    <2>4. CASE sb' = Merge(sb, mem, c)
      <3>1. sb'.ck = c.ck /\ sb'.phase = c.phase /\ sb'.reason = c.reason
        BY <1>7, <2>1, <2>2, <2>4, Zenon
      <3>2. SameRefs(sb'.ck, sb.ck) /\ sb'.ck.pending
        BY <1>6, <2>2, <2>3, <3>1, Zenon
      <3>3. CkChange
        BY <3>2, Zenon DEF CkChange, SameCk
      <3>4. PhaseChange
        BY <1>5, <2>2, <2>3, <3>1, Zenon DEF PhaseChange
      <3> QED BY <3>3, <3>4, Zenon DEF Goal
    <2> QED BY <1>2, <2>2, <2>4, Zenon
  <1>9. CASE deriveStatus
    <2> DEFINE c == Derive(mem, obs)
    <2>1. c \in Sandboxes
      BY <1>0, DeriveTyped, Zenon
    <2>2. /\ pc # "idle" /\ pc \notin Condemning
          /\ sb' = sb \/ sb' = Merge(sb, mem, c)
      BY <1>9, Zenon DEF deriveStatus, Patch, Condemning
    <2>3. c.ck = mem.ck /\ c.phase # "Suspended"
      <3>1. /\ WithPhase(mem, "Running", "").ck = mem.ck
            /\ WithPhase(mem, "Running", "").phase = "Running"
        BY <1>0, Zenon DEF WithPhase
      <3>2. /\ WithPhase(mem, "Pending", "").ck = mem.ck
            /\ WithPhase(mem, "Pending", "").phase = "Pending"
        BY <1>0, Zenon DEF WithPhase
      <3>3. /\ WithPhase(mem, "Pending", "SessionVMRestarting").ck = mem.ck
            /\ WithPhase(mem, "Pending", "SessionVMRestarting").phase = "Pending"
        BY <1>0, Zenon DEF WithPhase
      <3>4. \/ c = mem /\ mem.phase = "Paused"
            \/ c = WithPhase(mem, "Pending", "SessionVMRestarting")
            \/ c = WithPhase(mem, "Running", "") \/ c = WithPhase(mem, "Pending", "")
        BY Zenon DEF Derive
      <3> HIDE DEF c
      <3> QED BY <3>1, <3>2, <3>3, <3>4, Zenon
    <2> HIDE DEF c
    <2>4. CASE sb' = Merge(sb, mem, c)
      <3>1. sb'.ck = c.ck /\ sb'.phase = c.phase /\ sb'.reason = c.reason
        BY <1>7, <2>1, <2>2, <2>4, Zenon
      <3>2. CkChange
        BY <1>6, <2>2, <2>3, <3>1, Zenon DEF CkChange, SameCk, SameRefs
      <3>3. PhaseChange
        BY <2>3, <3>1, Zenon DEF PhaseChange
      <3> QED BY <3>2, <3>3, Zenon DEF Goal
    <2> QED BY <1>2, <2>2, <2>4, Zenon
  <1>10. CASE recordCheckpoint
    <2> DEFINE c == [mem EXCEPT !.ck = NewCheckpoint]
    <2>1. pc = "record" /\ (sb' = sb \/ sb' = Merge(sb, mem, c))
      BY <1>10, Zenon DEF recordCheckpoint
    <2>2. c \in Sandboxes
      BY <1>0, <2>1, NewTyped, CkTyped, Zenon
    <2>3. c.ck = NewCheckpoint /\ c.phase = mem.phase /\ c.reason = mem.reason
      BY <1>0, Zenon
    <2> HIDE DEF c
    <2>4. CASE sb' = Merge(sb, mem, c)
      <3>1. sb'.ck = c.ck /\ sb'.phase = c.phase /\ sb'.reason = c.reason
        BY <1>7, <2>1, <2>2, <2>4, Zenon DEF Condemning
      <3>2. CkChange
        BY <2>1, <2>3, <3>1, Zenon DEF CkChange
      <3>3. PhaseChange
        BY <1>5, <2>1, <2>3, <3>1, Zenon DEF PhaseChange
      <3> QED BY <3>2, <3>3, Zenon DEF Goal
    <2> QED BY <1>2, <2>1, <2>4, Zenon
  <1>11. CASE recordRecovery
    <2> DEFINE c == [mem EXCEPT !.ck = Consumed(mem)]
    <2>1. pc = "recovered" /\ (sb' = sb \/ sb' = Merge(sb, mem, c))
      BY <1>11, Zenon DEF recordRecovery, PatchAndEnd
    <2>2. c \in Sandboxes
      BY <1>0, ConsumedTyped, Zenon
    <2>3. c.ck = Consumed(mem) /\ c.phase = mem.phase /\ c.reason = mem.reason
      BY <1>0, Zenon
    <2> HIDE DEF c
    <2>4. CASE sb' = Merge(sb, mem, c)
      <3>1. sb'.ck = c.ck /\ sb'.phase = c.phase /\ sb'.reason = c.reason
        BY <1>7, <2>1, <2>2, <2>4, Zenon DEF Condemning
      <3>2. CkChange
        BY <2>1, <2>3, <3>1, Zenon DEF CkChange
      <3>3. PhaseChange
        BY <1>5, <2>1, <2>3, <3>1, Zenon DEF PhaseChange
      <3> QED BY <3>2, <3>3, Zenon DEF Goal
    <2> QED BY <1>2, <2>1, <2>4, Zenon
  <1>12. CASE restartExitedSession
    <2> DEFINE c == [mem EXCEPT !.ck.recovery = "restarted"]
    <2>1. c \in Sandboxes
      BY <1>0, RecoveryTyped, Zenon
    <2>2. /\ pc # "idle" /\ pc \notin Condemning
          /\ sb' = sb \/ sb' = Merge(sb, mem, c)
      BY <1>12, Zenon DEF restartExitedSession, Patch, Condemning
    <2>3. /\ SameRefs(c.ck, mem.ck) /\ c.ck.pending = mem.ck.pending
          /\ c.phase = mem.phase /\ c.reason = mem.reason
      BY <1>0, Zenon DEF SameRefs
    <2> HIDE DEF c
    <2>4. CASE sb' = Merge(sb, mem, c)
      <3>1. sb'.ck = c.ck /\ sb'.phase = c.phase /\ sb'.reason = c.reason
        BY <1>7, <2>1, <2>2, <2>4, Zenon
      <3>2. SameRefs(sb'.ck, sb.ck) /\ sb'.ck.pending = sb.ck.pending
        BY <1>6, <2>2, <2>3, <3>1, Zenon
      <3>3. CkChange
        BY <3>2, Zenon DEF CkChange, SameCk
      <3>4. PhaseChange
        BY <1>5, <2>2, <2>3, <3>1, Zenon DEF PhaseChange
      <3> QED BY <3>3, <3>4, Zenon DEF Goal
    <2> QED BY <1>2, <2>2, <2>4, Zenon
  <1>13. CASE patchPhase
    <2>1. PICK c \in {WithPhase(mem, "Paused", "UserPaused"), WithPhase(mem, "Running", "")} :
            sb' = sb \/ sb' = Merge(sb, mem, c)
      BY <1>13, Zenon DEF patchPhase, PatchAndEnd
    <2>2. c \in Sandboxes
      <3>1. WithPhase(mem, "Paused", "UserPaused") \in Sandboxes
        BY <1>0, PhaseTyped, Zenon
      <3>2. WithPhase(mem, "Running", "") \in Sandboxes
        BY <1>0, PhaseTyped, Zenon
      <3> QED BY <2>1, <3>1, <3>2, Zenon
    <2>3. c.ck = mem.ck /\ c.phase # "Suspended"
      <3>1. /\ WithPhase(mem, "Running", "").ck = mem.ck
            /\ WithPhase(mem, "Running", "").phase = "Running"
        BY <1>0, Zenon DEF WithPhase
      <3>2. /\ WithPhase(mem, "Paused", "UserPaused").ck = mem.ck
            /\ WithPhase(mem, "Paused", "UserPaused").phase = "Paused"
        BY <1>0, Zenon DEF WithPhase
      <3> QED BY <2>1, <3>1, <3>2, Zenon
    <2>4. pc # "idle" /\ pc \notin Condemning
      BY <1>13, Zenon DEF patchPhase, Condemning
    <2>5. CASE sb' = Merge(sb, mem, c)
      <3>1. sb'.ck = c.ck /\ sb'.phase = c.phase /\ sb'.reason = c.reason
        BY <1>7, <2>2, <2>4, <2>5, Zenon
      <3>2. CkChange
        BY <1>6, <2>3, <2>4, <3>1, Zenon DEF CkChange, SameCk, SameRefs
      <3>3. PhaseChange
        BY <2>3, <3>1, Zenon DEF PhaseChange
      <3> QED BY <3>2, <3>3, Zenon DEF Goal
    <2> QED BY <1>2, <2>1, <2>5, Zenon
  <1>14. CASE suspendSession
    <2> DEFINE c == Suspended(mem)
    <2>1. pc = "suspended" /\ End /\ (sb' = sb \/ sb' = Merge(sb, mem, c))
      BY <1>14, Zenon DEF suspendSession, PatchAndEnd
    <2>2. c \in Sandboxes
      BY <1>0, <2>1, SuspendedTyped, Zenon
    <2>3. /\ SameRefs(c.ck, mem.ck) /\ c.reason = job.why
          /\ c.ck.pending = (mem.ck.ref # 0 /\ (~job.err \/ durable))
      BY <1>0, Zenon DEF SameRefs, Suspended
    <2> HIDE DEF c
    <2>4. CASE sb' = Merge(sb, mem, c)
      <3>1. SameRefs(sb'.ck, sb.ck)
        BY <1>0, <2>3, <2>4, MergeRefs, Zenon
      <3>2. CkChange
        BY <2>1, <3>1, Zenon DEF CkChange, SameCk
      <3>3. sb'.reason = job.why
        <4>1. sb'.reason = Pick(sb.reason, mem.reason, c.reason)
          BY <1>0, <2>4, Zenon DEF Merge
        <4> QED BY <1>5, <2>1, <2>3, <4>1, Zenon DEF Pick
      <3>4. ASSUME ~job.err, mem.ck = sb.ck, sb.ck.ref # 0 PROVE sb'.ck.pending
        <4>1. /\ Merge(sb, mem, c).ck = c.ck
          BY <1>0, <1>5, <2>1, <2>2, <3>4, MergeSame, Zenon
        <4> QED BY <2>3, <2>4, <3>4, <4>1, Zenon
      <3>5. PhaseChange
        BY <2>1, <3>3, <3>4, Zenon DEF PhaseChange, End
      <3> QED BY <3>2, <3>5, Zenon DEF Goal
    <2> QED BY <1>2, <2>1, <2>4, Zenon
  <1> QED BY <1>2, <1>3, <1>4, <1>8, <1>9, <1>10, <1>11, <1>12, <1>13, <1>14, OnlySbSteps, Zenon

(* The steps of a reconcile, as far as its copy of the status is concerned. *)
Outside == UNCHANGED rec /\ (World \/ Disruption)
Keeps == /\ pc # "idle" /\ obs' = obs /\ mem' = mem /\ sb' = sb
         /\ pc \in Condemning => pc' \in Condemning /\ job' = job
Rereads == /\ pc # "idle" /\ pc \notin Condemning /\ pc' # "idle"
           /\ obs' = obs /\ mem' = sb'
Unrecorded == /\ pc = "record" /\ pc' = "condemn" /\ obs' = obs /\ sb' = sb
              /\ mem' = [mem EXCEPT !.ck = NewCheckpoint]
              /\ job' = [job EXCEPT !.err = TRUE] /\ job.why = Drain
RecMove == Outside \/ Begin \/ pc' = "idle" \/ Keeps \/ Rereads \/ Unrecorded

(* Every step makes one of the moves of RecMove. *)
LEMMA RecMoves ==
  ASSUME Step
  PROVE  RecMove
  <1>1. CASE recycleIfExpired \/ createPod \/ hold \/ suspendSession \/ recordRecovery
             \/ resumeAfterNodeLoss \/ dropExitedPod \/ patchPhase \/ deleteClaim
             \/ releaseFinalizer \/ Crash
    BY <1>1, Zenon
    DEF recycleIfExpired, createPod, hold, suspendSession, recordRecovery,
        resumeAfterNodeLoss, dropExitedPod, patchPhase, deleteClaim, releaseFinalizer, Crash,
        PatchAndEnd, End, RecMove
  <1>2. CASE handleMissingPod \/ takeCheckpoint \/ replaceCheckpoint \/ condemnPod
             \/ evictPod \/ deleteSessionPod \/ consumeCheckpoint \/ ensureWorkspacePVC
             \/ teardownSessionCheckpoint \/ purgeCheckpoints \/ teardownPod
    <2>1. Keeps
      BY <1>2, Zenon
      DEF handleMissingPod, takeCheckpoint, replaceCheckpoint, condemnPod, evictPod,
          deleteSessionPod, consumeCheckpoint, ensureWorkspacePVC,
          teardownSessionCheckpoint, purgeCheckpoints, teardownPod, Keeps, Condemning
    <2> QED BY <2>1, Zenon DEF RecMove
  <1>3. CASE checkPending \/ reconcileSessionCheckpoint \/ RestoreSessionCheckpoint
             \/ reconcilePhase3Lifecycle
    <2>1. Keeps \/ pc' = "idle"
      BY <1>3, Zenon
      DEF checkPending, reconcileSessionCheckpoint, RestoreSessionCheckpoint, Restored,
          Refused, reconcilePhase3Lifecycle, End, Keeps, Condemning, objects
    <2> QED BY <2>1, Zenon DEF RecMove
  <1>4. CASE CheckpointSession
    <2>1. Keeps \/ pc' = "idle"
      BY <1>4, Zenon DEF CheckpointSession, CheckpointFailed, End, Keeps, Condemning
    <2> QED BY <2>1, Zenon DEF RecMove
  <1>5. CASE markPending \/ deriveStatus \/ markLost \/ restartExitedSession
    <2>1. Keeps \/ Rereads \/ pc' = "idle"
      BY <1>5, Zenon
      DEF markPending, deriveStatus, markLost, restartExitedSession, Patch, End, Keeps,
          Rereads, Condemning
    <2> QED BY <2>1, Zenon DEF RecMove
  <1>6. CASE recordCheckpoint
    BY <1>6, Zenon
    DEF recordCheckpoint, CheckpointFailed, End, Rereads, Unrecorded, RecMove, Condemning
  <1>7. CASE World \/ Disruption
    BY <1>7, Zenon
    DEF World, Disruption, SetWant, DeleteSandbox, PodStarts, KubeletReports, PodStops,
        CollectOwned, NodeReturns, EvictPod, MachineExits, NodeChanges, Outside, RecMove
  <1> QED BY <1>1, <1>2, <1>3, <1>4, <1>5, <1>6, <1>7, Zenon DEF Step, Reconcile, RecMove

(* Callers, nodes and the garbage collector leave a session that is there   *)
(* its status, its key, its objects and the memory of its machines.         *)
LEMMA OutsideKeeps ==
  ASSUME TypeInv, Outside
  PROVE  /\ sb'.ck = sb.ck /\ sb'.phase = sb.phase /\ sb'.reason = sb.reason
         /\ sb'.live = sb.live
         /\ UNCHANGED <<store, rec, happened>>
         /\ sb.live => kek' = kek
  <1>1. DOMAIN sb = {"live", "deleting", "want", "phase", "reason", "ck"}
    BY Zenon DEF TypeInv, Objects, Sandboxes, SandboxType
  <1>2. UNCHANGED <<store, rec, happened>> /\ (sb.live => kek' = kek)
    BY Zenon
    DEF Outside, World, Disruption, SetWant, DeleteSandbox, PodStarts, KubeletReports,
        PodStops, CollectOwned, NodeReturns, EvictPod, MachineExits, NodeChanges, NoFault
  <1>3. CASE DeleteSandbox \/ \E w \in Wants : SetWant(w)
    BY <1>1, <1>2, <1>3, Zenon DEF DeleteSandbox, SetWant
  <1>4. CASE sb' = sb
    BY <1>2, <1>4, Zenon
  <1>5. \/ sb' = sb \/ DeleteSandbox \/ \E w \in Wants : SetWant(w)
    BY Zenon
    DEF Outside, World, Disruption, PodStarts, KubeletReports,
        PodStops, CollectOwned, NodeReturns, EvictPod, MachineExits, NodeChanges
  <1> QED BY <1>3, <1>4, <1>5, Zenon

(* The Pod of a reconcile stays, or goes. *)
LEMMA PodStays ==
  ASSUME TypeInv, Step, pc' # "idle"
  PROVE  pod'.uid \in {0, pod.uid}
  <1>1. NoPod.uid = 0
    BY Zenon DEF NoPod
  <1> QED BY <1>1, PodChanges, Zenon DEF TypeInv, PodChange, End

(* A reconcile that started on fresh caches works on a copy of the live     *)
(* status to its end.                                                       *)
LEMMA MirrorStep ==
  ASSUME TypeInv, Mirror, Step, cacheSb = sb, cachePod = pod
  PROVE  Mirror'
  <1> SUFFICES ASSUME pc' # "idle"
               PROVE  /\ sb'.live /\ (pc' \in Deletes => sb'.deleting)
                      /\ mem'.phase = sb'.phase /\ mem'.reason = sb'.reason
                      /\ mem'.ck = sb'.ck \/ (pc' \in Condemning /\ job'.err)
                      /\ pod'.uid \in {0, obs'.uid}
    BY Zenon DEF Mirror
  <1>1. pod'.uid \in {0, pod.uid}
    BY PodStays, Zenon
  <1>2. /\ sb'.live => sb.live
        /\ sb.live /\ ~sb'.live => End
        /\ sb'.live => (sb.deleting => sb'.deleting)
    BY SbGoes, Zenon
  <1>3. sb.live => sb'.live
    BY <1>2, Zenon DEF End
  <1>4. CASE Begin
    <2>1. /\ cacheSb.live /\ mem' = cacheSb /\ obs' = cachePod /\ sb' = sb /\ pod' = pod
          /\ pc' \in Deletes => cacheSb.deleting
      BY <1>4, Zenon DEF Begin, objects, Deletes
    <2> QED BY <2>1, Zenon
  <1>5. ASSUME pc # "idle" PROVE pc' \in Deletes => pc \in Deletes
    BY <1>5, PcMoves, Zenon DEF PcMove, Deletes
  <1>6. ASSUME pc # "idle" PROVE sb'.live /\ (pc' \in Deletes => sb'.deleting)
    BY <1>2, <1>3, <1>5, <1>6, Zenon DEF Mirror
  <1>7. CASE Outside
    <2>1. pc' = pc /\ mem' = mem /\ obs' = obs /\ job' = job
      BY <1>7, Zenon DEF Outside, rec
    <2>2. sb'.ck = sb.ck /\ sb'.phase = sb.phase /\ sb'.reason = sb.reason
      BY <1>7, OutsideKeeps, Zenon
    <2> QED BY <1>1, <1>6, <2>1, <2>2, Zenon DEF Mirror
  <1>8. CASE Keeps
    BY <1>1, <1>6, <1>8, Zenon DEF Mirror, Keeps
  <1>9. CASE Rereads
    BY <1>1, <1>6, <1>9, Zenon DEF Mirror, Rereads
  <1>10. CASE Unrecorded
    <2>1. mem'.phase = mem.phase /\ mem'.reason = mem.reason /\ job'.err
      BY <1>10, Zenon
      DEF Unrecorded, TypeInv, Control, Sandboxes, SandboxType, JobType
    <2>2. pc # "idle" /\ pc' \in Condemning /\ obs' = obs /\ sb' = sb
      BY <1>10, Zenon DEF Unrecorded, Condemning
    <2> QED BY <1>1, <1>6, <2>1, <2>2, Zenon DEF Mirror
  <1> QED BY <1>4, <1>7, <1>8, <1>9, <1>10, RecMoves, Zenon DEF RecMove

(* The elements of an appended sequence. *)
LEMMA RangeAppend ==
  ASSUME NEW S, NEW s \in Seq(S), NEW e \in S
  PROVE  Range(Append(s, e)) = Range(s) \cup {e}
  <1> DEFINE t == Append(s, e)
  <1>1. /\ DOMAIN s = 1 .. Len(s) /\ DOMAIN t = 1 .. Len(s) + 1 /\ Len(s) \in Nat
        /\ \A i \in 1 .. Len(s) : t[i] = s[i]
        /\ t[Len(s) + 1] = e
    OBVIOUS
  <1> HIDE DEF t
  <1>2. \A i \in 1 .. Len(s) + 1 : i \in 1 .. Len(s) \/ i = Len(s) + 1
    BY <1>1
  <1>3. 1 .. Len(s) \subseteq 1 .. Len(s) + 1 /\ Len(s) + 1 \in 1 .. Len(s) + 1
    BY <1>1
  <1>4. Range(t) = {t[i] : i \in DOMAIN t} /\ Range(s) = {s[i] : i \in DOMAIN s}
    BY Zenon DEF Range
  <1>5. Range(t) \subseteq Range(s) \cup {e}
    BY <1>1, <1>2, <1>4, Zenon
  <1>6. Range(s) \cup {e} \subseteq Range(t)
    BY <1>1, <1>3, <1>4, Zenon
  <1> QED BY <1>5, <1>6, Zenon DEF t

(* A new checkpoint extends the chain it is a diff of, or starts one. *)
LEMMA NewChain ==
  ASSUME Control, pc = "record", job.parent \in {0, mem.ck.ref}
  PROVE  Chain(NewCheckpoint) = {job.seq} \cup IF job.parent = 0 THEN {} ELSE Chain(mem.ck)
  <1>1. NewCheckpoint.ref = job.seq /\ job.seq # 0
    BY CheckpointConstants DEF NewCheckpoint, Control, Storing, Refs
  <1>2. CASE job.parent = 0
    <2>1. Range(<<>>) = {}
      BY DEF Range
    <2> QED BY <1>1, <1>2, <2>1, Zenon DEF Chain, NewCheckpoint
  <1>3. CASE job.parent # 0
    <2>1. mem.ck.parents \in Seq(Refs) /\ job.parent \in Refs
      <3>1. mem.ck.parents \in Seq(Refs) /\ job.parent \in 0 .. MaxSeq
        BY Zenon DEF Control, Sandboxes, SandboxType, CheckpointType, JobType
      <3>2. job.parent \in Refs
        BY <1>3, <3>1, CheckpointConstants DEF Refs
      <3> QED BY <3>1, <3>2, Zenon
    <2>2. Range(Append(mem.ck.parents, job.parent)) = Range(mem.ck.parents) \cup {job.parent}
      BY <2>1, RangeAppend
    <2>3. job.parent = mem.ck.ref
      BY <1>3, Zenon
    <2>4. NewCheckpoint.parents = Append(mem.ck.parents, job.parent)
      BY <1>3, Zenon DEF NewCheckpoint
    <2> QED BY <1>1, <1>3, <2>2, <2>3, <2>4, Zenon DEF Chain
  <1> QED BY <1>2, <1>3, Zenon

(* A consumed checkpoint and a removed Sandbox name no object. *)
LEMMA NoChain ==
  /\ Chain(NoSandbox.ck) = {} /\ NoSandbox.ck.pod = 0 /\ NoSandbox.ck.ref = 0
  /\ Chain(Consumed(mem)) = {} /\ Consumed(mem).pod = 0 /\ Consumed(mem).ref = 0
  BY Zenon DEF Chain, NoSandbox, NewSandbox, NoCheckpoint, Consumed

(* The chain of a typed status is of references. *)
LEMMA ChainTyped ==
  ASSUME NEW s \in Sandboxes
  PROVE  Chain(s.ck) \subseteq Refs /\ s.ck.seq \in 0 .. MaxSeq
  <1>1. s.ck.parents \in Seq(Refs) /\ s.ck.seq \in 0 .. MaxSeq
    BY Zenon DEF Sandboxes, SandboxType, CheckpointType
  <1>2. s.ck.ref # 0 => s.ck.ref \in Refs
    <2>1. s.ck.ref \in 0 .. MaxSeq
      BY Zenon DEF Sandboxes, SandboxType, CheckpointType
    <2> QED BY <2>1, CheckpointConstants DEF Refs
  <1>3. DOMAIN s.ck.parents = 1 .. Len(s.ck.parents)
        /\ \A i \in 1 .. Len(s.ck.parents) : s.ck.parents[i] \in Refs
    BY <1>1
  <1> QED BY <1>1, <1>2, <1>3, Zenon DEF Chain, Range

(* Every step on fresh caches keeps Named. *)
LEMMA NamedStep ==
  ASSUME TypeInv, Born, Mirror, Named, Jobs, Step
  PROVE  Named'
  <1>1. Created \subseteq Created'
    BY Births, Zenon
  <1>2. CkChange
    BY StatusChanges, Zenon
  <1>3. CASE SameCk
    <2>1. SameRefs(sb'.ck, sb.ck)
      BY <1>3, Zenon DEF SameCk
    <2>2. Chain(sb'.ck) = Chain(sb.ck)
      BY <2>1, SameChain, Zenon
    <2> QED BY <1>1, <2>1, <2>2, Zenon DEF Named, SameRefs
  <1>4. CASE sb'.ck = Consumed(mem) \/ sb' = NoSandbox
    <2>1. Chain(sb'.ck) = {} /\ sb'.ck.pod = 0
      BY <1>4, NoChain, Zenon
    <2> QED BY <2>1, Zenon DEF Named
  <1>5. CASE pc = "record" /\ sb'.ck = NewCheckpoint
    <2>1. /\ mem.ck = sb.ck /\ TakesNext /\ HasNext
      BY <1>5, Zenon DEF Mirror, Jobs, Condemning, Storing, Stored
    <2>2. Chain(NewCheckpoint) \subseteq {job.seq} \cup Chain(sb.ck)
      BY <1>5, <2>1, NewChain, Zenon DEF TypeInv, TakesNext
    <2>3. NewCheckpoint.pod = job.pod /\ NewCheckpoint.seq = job.seq /\ job.pod \in Created
      BY <2>1, Zenon DEF NewCheckpoint, HasNext
    <2>4. Chain(sb.ck) \subseteq Refs /\ sb.ck.seq \in 0 .. MaxSeq
      BY ChainTyped, Zenon DEF TypeInv, Objects
    <2>5. \A r \in Chain(NewCheckpoint) : r <= NewCheckpoint.seq
      <3>1. job.seq = sb.ck.seq + 1 /\ \A r \in Chain(sb.ck) : r <= sb.ck.seq
        BY <2>1, Zenon DEF TakesNext, Named
      <3> HIDE DEF Chain
      <3>2. \A r \in Chain(sb.ck) : r <= job.seq
        BY <2>4, <3>1, CheckpointConstants DEF Refs
      <3>3. job.seq <= job.seq
        BY <2>4, <3>1
      <3> QED BY <2>2, <2>3, <3>2, <3>3, Zenon
    <2> QED BY <1>1, <1>5, <2>3, <2>5, Zenon DEF Named
  <1> QED BY <1>2, <1>3, <1>4, <1>5, Zenon DEF CkChange

(* The key of a session that is not being torn down stays. *)
LEMMA KeyStays ==
  ASSUME Step, Mirror, sb.live, kek # 0, ~sb.deleting \/ pc \notin Deletes
  PROVE  kek' = kek
  <1>1. pc # "erase"
    BY Zenon DEF Mirror, Deletes
  <1> QED BY <1>1, KeyChanges, Zenon DEF KeyChange

(* What a reconcile removes is named by the status. *)
LEMMA RemovesChain ==
  ASSUME TypeInv, Mirror, Named, Removes
  PROVE  \A r \in Refs : r > sb.ck.seq => store'[r] = store[r]
  <1>1. mem.ck = sb.ck
    BY Zenon DEF Mirror, Removes, Condemning
  <1>2. PICK S \in SUBSET Chain(sb.ck) : store' = Without(S)
    BY <1>1, Zenon DEF Removes
  <1>3. \A r \in Refs : r \notin S => store'[r] = store[r]
    BY <1>2, Zenon DEF Without
  <1>4. sb.ck.seq \in 0 .. MaxSeq
    BY ChainTyped, Zenon DEF TypeInv, Objects
  <1>5. \A r \in Refs : r > sb.ck.seq => r \notin Chain(sb.ck)
    <2>1. \A r \in Chain(sb.ck) : r <= sb.ck.seq
      BY Zenon DEF Named
    <2> HIDE DEF Chain
    <2>2. \A r \in Refs : r > sb.ck.seq => ~(r <= sb.ck.seq)
      BY <1>4, CheckpointConstants DEF Refs
    <2> QED BY <2>1, <2>2, Zenon
  <1> QED BY <1>2, <1>3, <1>5, Zenon

(* A number that is taken stays taken until the status has it. *)
LEMMA StuckStays ==
  ASSUME TypeInv, Mirror, Named, Jobs, Step, sb'.ck.seq = sb.ck.seq,
         Stuck \/ Stores \/ (Removes /\ pc = "replace")
  PROVE  Stuck'
  <1>1. sb.ck.seq \in 0 .. MaxSeq /\ store \in [Refs -> ObjectType]
    BY ChainTyped, Zenon DEF TypeInv, Objects
  <1>2. CASE Stores
    <2>1. job.seq = sb.ck.seq + 1 /\ job.seq \in Refs
      BY <1>2, Zenon DEF Stores, Jobs, TakesNext, Storing, TypeInv, Control
    <2>2. store'[job.seq].there
      BY <1>1, <1>2, <2>1, Zenon DEF Stores, StoredCheckpoint
    <2> QED BY <2>1, <2>2, Zenon DEF Stuck
  <1>3. CASE Removes
    <2>1. Stuck
      BY <1>3, Zenon
      DEF Jobs, TakesNext, HasNext, Storing, Stored, TypeInv, Control, Stuck, Stores, Removes
    <2>2. sb.ck.seq + 1 \in Refs /\ sb.ck.seq + 1 > sb.ck.seq
      BY <1>1, <2>1 DEF Stuck
    <2>3. store'[sb.ck.seq + 1] = store[sb.ck.seq + 1]
      BY <1>3, <2>2, RemovesChain, Zenon
    <2> QED BY <2>1, <2>2, <2>3, Zenon DEF Stuck
  <1>4. CASE store' = store
    <2>1. CASE Stuck
      BY <1>4, <2>1, Zenon DEF Stuck
    <2> QED BY <1>2, <1>3, <2>1, Zenon
  <1> QED BY <1>2, <1>3, <1>4, StoreChanges, Zenon DEF StoreChange

(* What is recorded can be read. *)
LEMMA NewReadable ==
  ASSUME TypeInv, Mirror, Jobs, Step, pc = "record", sb'.ck = NewCheckpoint
  PROVE  Readable(Chain(sb.ck))'
  <1>1. /\ mem.ck = sb.ck /\ TakesNext /\ HasNext /\ sb.live
    BY Zenon DEF Mirror, Jobs, Condemning, Storing, Stored
  <1>2. store' = store
    BY StoreChanges, Zenon DEF StoreChange, Stores, Removes
  <1>3. kek' = kek /\ kek # 0
    BY <1>1, KeyStays, Zenon DEF Deletes, TakesNext
  <1>4. Chain(NewCheckpoint) = {job.seq} \cup IF job.parent = 0 THEN {} ELSE Chain(sb.ck)
    BY <1>1, NewChain, Zenon DEF TypeInv, TakesNext
  <1>5. \A r \in Chain(NewCheckpoint) : store[r].there /\ store[r].key = kek
    BY <1>1, <1>4, Zenon DEF HasNext, Readable
  <1> QED BY <1>2, <1>3, <1>5, Zenon DEF Readable

(* Every step on fresh caches keeps Whole. *)
LEMMA WholeStep ==
  ASSUME TypeInv, Born, Mirror, Named, Jobs, Whole, Step, cacheSb = sb
  PROVE  Whole'
  <1> SUFFICES ASSUME sb'.live, sb'.ck.ref # 0, pod'.uid # 0, sb'.ck.pod = pod'.uid,
                      ~sb'.deleting \/ pc' \notin Deletes \cup {"idle"}
               PROVE  Readable(Chain(sb.ck))' \/ Stuck'
    BY Zenon DEF Whole
  <1>1. CkChange
    BY StatusChanges, Zenon
  <1>2. CASE sb'.ck = Consumed(mem) \/ sb' = NoSandbox
    BY <1>2, NoChain, Zenon
  <1>3. CASE pc = "record" /\ sb'.ck = NewCheckpoint
    BY <1>3, NewReadable, Zenon
  <1>4. CASE SameCk
    <2>1. SameRefs(sb'.ck, sb.ck)
      BY <1>4, Zenon DEF SameCk
    <2>2. /\ Chain(sb'.ck) = Chain(sb.ck) /\ sb'.ck.seq = sb.ck.seq /\ sb.ck.ref # 0
          /\ sb.ck.pod = pod'.uid
      BY <2>1, SameChain, Zenon DEF SameRefs
    <2>3. sb.ck.pod = pod.uid
      <3>1. NoPod.uid = 0
        BY Zenon DEF NoPod
      <3> QED BY <2>2, <3>1, PodChanges, Zenon DEF PodChange, Named, TypeInv
    <2>4. sb.live /\ (sb.deleting => sb'.deleting)
      BY SbGoes, Zenon
    <2>5. ~sb.deleting \/ pc \notin Deletes \cup {"idle"}
      BY <2>4, PcMoves, Zenon DEF PcMove, Deletes
    <2>6. Readable(Chain(sb.ck)) \/ Stuck
      BY <2>2, <2>3, <2>4, <2>5, Zenon DEF Whole
    <2>7. CASE Stuck \/ Stores \/ (Removes /\ pc = "replace")
      BY <2>2, <2>7, StuckStays, Zenon
    <2>8. pc # "consume" /\ pc # "purge"
      <3>1. pc # "consume"
        BY <2>2, <2>3, Zenon DEF Jobs, Restoring, Mirror
      <3> QED BY <2>5, <3>1, Zenon DEF Mirror, Deletes
    <2>9. CASE Readable(Chain(sb.ck)) /\ store' = store
      <3>1. kek' = kek
        BY <2>4, <2>5, <2>9, KeyStays, Zenon DEF Readable
      <3> QED BY <2>2, <2>9, <3>1, Zenon DEF Readable
    <2> QED BY <2>6, <2>7, <2>8, <2>9, StoreChanges, Zenon DEF StoreChange, Removes
  <1> QED BY <1>1, <1>2, <1>3, <1>4, Zenon DEF CkChange

(* The steps that lead into a checkpoint, a suspend or a restore. *)
LEMMA Enters ==
  ASSUME Step, pc' \in Storing \cup Condemning \cup Restoring \cup {"key"}
  PROVE  \/ Outside \/ reconcileSessionCheckpoint \/ takeCheckpoint \/ CheckpointSession
         \/ replaceCheckpoint \/ recordCheckpoint \/ condemnPod \/ evictPod \/ checkPending
         \/ RestoreSessionCheckpoint \/ deleteSessionPod \/ consumeCheckpoint
  <1>1. pc' \notin {"idle", "pending", "create", "createPod", "decide", "force", "drop",
                    "paused", "resumed", "purge", "teardownPod", "release",
                    "erase", "missing", "derive"}
    BY Zenon DEF Storing, Condemning, Restoring
  <1>2. CASE Begin
    <2>1. pc' \in {"erase", "missing", "derive"}
      BY <1>2, Zenon DEF Begin
    <2> QED BY <1>1, <2>1, Zenon
  <1>3. CASE recycleIfExpired \/ createPod \/ hold \/ suspendSession \/ recordRecovery
             \/ resumeAfterNodeLoss \/ dropExitedPod \/ patchPhase \/ deleteClaim
             \/ releaseFinalizer \/ Crash
    BY <1>1, <1>3, Zenon
    DEF recycleIfExpired, createPod, hold, suspendSession, recordRecovery,
        resumeAfterNodeLoss, dropExitedPod, patchPhase, deleteClaim, releaseFinalizer, Crash,
        PatchAndEnd, End
  <1>4. CASE handleMissingPod \/ ensureWorkspacePVC \/ teardownSessionCheckpoint
             \/ purgeCheckpoints \/ teardownPod
    BY <1>1, <1>4, Zenon
    DEF handleMissingPod, ensureWorkspacePVC, teardownSessionCheckpoint, purgeCheckpoints,
        teardownPod
  <1>5. CASE markPending \/ deriveStatus \/ markLost \/ restartExitedSession
             \/ reconcilePhase3Lifecycle
    BY <1>1, <1>5, Zenon
    DEF markPending, deriveStatus, markLost, restartExitedSession, reconcilePhase3Lifecycle,
        Patch, End
  <1>6. CASE World \/ Disruption
    BY <1>6, Zenon
    DEF World, Disruption, SetWant, DeleteSandbox, PodStarts, KubeletReports, PodStops,
        CollectOwned, NodeReturns, EvictPod, MachineExits, NodeChanges, Outside
  <1> QED BY <1>2, <1>3, <1>4, <1>5, <1>6, Zenon DEF Step, Reconcile

(* A checkpoint that is kept stays so while no machine is called, nothing   *)
(* is removed and the session is not torn down.                             *)
LEMMA KeptStays ==
  ASSUME TypeInv, Mirror, Step, Kept, sb.live, ~sb.deleting \/ pc \notin Deletes,
         SameRefs(sb'.ck, sb.ck), store' = store, pc \notin {"checkpoint", "rest"}
  PROVE  Kept'
  <1>1. sb.ck.pod \in Uids
    <2>1. sb.ck.pod \in 0 .. MaxPods
      BY Zenon DEF TypeInv, Objects, Sandboxes, SandboxType, CheckpointType
    <2>2. sb.ck.pod # 0
      BY Zenon DEF Kept
    <2> QED BY <2>1, <2>2, CheckpointConstants DEF Uids
  <1>2. vm'[sb.ck.pod].ahead = vm[sb.ck.pod].ahead
    BY <1>1, VmChanges, Zenon DEF VmChange
  <1>3. kek' = kek
    BY KeyStays, Zenon DEF Kept, Readable
  <1>4. Chain(sb'.ck) = Chain(sb.ck) /\ sb'.ck.pod = sb.ck.pod /\ sb'.ck.ref = sb.ck.ref
    BY SameChain, Zenon DEF SameRefs
  <1> QED BY <1>2, <1>3, <1>4, Zenon DEF Kept, Readable

(* A checkpoint that is being taken has the next number, the live key and   *)
(* the right parent.                                                        *)
LEMMA TakesNextStep ==
  ASSUME TypeInv, Mirror, Jobs, Step, cachePod = pod, pc' \in Storing
  PROVE  TakesNext' /\ ~job'.err
  <1>1. ASSUME pc \in Storing, job' = job, sb'.ck = sb.ck, kek' = kek
        PROVE  TakesNext' /\ ~job'.err
    <2>1. pod'.uid \in {0, pod.uid}
      BY PodStays, Zenon DEF Storing
    <2> QED BY <1>1, <2>1, Zenon DEF Jobs, TakesNext
  <1>2. CASE Outside
    <2>1. pc' = pc /\ job' = job /\ sb.live /\ sb'.ck = sb.ck
      BY <1>2, OutsideKeeps, Zenon DEF Outside, rec, Mirror, Storing
    <2>2. kek' = kek
      BY <1>2, <2>1, OutsideKeeps, Zenon
    <2> QED BY <1>1, <2>1, <2>2, Zenon
  <1>3. CASE replaceCheckpoint
    BY <1>1, <1>3, Zenon DEF replaceCheckpoint, Storing
  <1>4. CASE CheckpointSession
    <2>1. pc = "checkpoint" /\ sb' = sb /\ kek' = kek /\ job' = job
      BY <1>4, Zenon DEF CheckpointSession, CheckpointFailed, End, Storing
    <2> QED BY <1>1, <2>1, Zenon DEF Storing
  <1>5. CASE takeCheckpoint
    <2>1. pc = "key" /\ ensureSessionKEK /\ sb' = sb /\ pod' = pod
          /\ job' = [job EXCEPT !.seq = mem.ck.seq + 1, !.parent = DiffParent(mem, pod),
                                !.pod = pod.uid, !.key = kek']
      BY <1>5, Zenon DEF takeCheckpoint
    <2>2. mem.ck = sb.ck /\ ~job.err
      BY <2>1, Zenon DEF Mirror, Condemning, Jobs
    <2>3. /\ job'.seq = sb.ck.seq + 1 /\ job'.parent = DiffParent(mem, pod)
          /\ job'.pod = pod.uid /\ job'.key = kek' /\ ~job'.err
      BY <2>1, <2>2, Zenon DEF TypeInv, Control, JobType
    <2>4. kek' # 0
      <3>1. keks \in Nat
        BY CheckpointConstants DEF TypeInv, Objects
      <3> QED BY <2>1, <3>1 DEF ensureSessionKEK
    <2>5. job'.parent # 0 => job'.parent = sb.ck.ref /\ sb.ck.pod = pod.uid
      BY <2>2, <2>3, Zenon DEF DiffParent
    <2> QED BY <2>1, <2>3, <2>4, <2>5, Zenon DEF TakesNext
  <1>6. CASE reconcileSessionCheckpoint \/ recordCheckpoint \/ condemnPod \/ evictPod
             \/ checkPending \/ RestoreSessionCheckpoint \/ deleteSessionPod
             \/ consumeCheckpoint
    <2>1. pc' \notin Storing
      BY <1>6, Zenon
      DEF reconcileSessionCheckpoint, recordCheckpoint, condemnPod, evictPod, checkPending,
          RestoreSessionCheckpoint, deleteSessionPod, consumeCheckpoint, CheckpointFailed,
          Restored, Refused, End, Storing
    <2> QED BY <2>1, Zenon
  <1> QED BY <1>2, <1>3, <1>4, <1>5, <1>6, Enters, Zenon

(* A checkpoint is stored by the Pod the reconcile took it of, in an object *)
(* of its own.                                                              *)
LEMMA StoresJob ==
  ASSUME TypeInv, Mirror, Named, Jobs, Whole, Stores, cachePod = pod
  PROVE  /\ job.seq = sb.ck.seq + 1 /\ job.seq \in Refs /\ job.key = kek
         /\ pod.uid = job.pod /\ job.pod \in Created /\ job.pod \in Uids
         /\ store'[job.seq] = StoredCheckpoint(job.pod)
         /\ \A r \in Refs : r # job.seq => store'[r] = store[r]
         /\ vm'[job.pod].base = job.seq /\ vm'[job.pod].ahead = ~leavePaused(job.why)
         /\ \A u \in Uids : u # job.pod => vm'[u] = vm[u]
         /\ ~Stuck /\ job.seq \notin Chain(sb.ck)
         /\ job.parent # 0 => Readable(Chain(sb.ck))
  <1>1. pc = "checkpoint" /\ pc \in Storing
    BY Zenon DEF Stores, Storing
  <1>2. TakesNext /\ job.seq \in Refs /\ sb.live
    BY <1>1, Zenon DEF Jobs, TypeInv, Control, Mirror
  <1>3. /\ store \in [Refs -> ObjectType] /\ vm \in [Uids -> MachineType]
        /\ sb.ck.seq \in 0 .. MaxSeq
    BY ChainTyped, Zenon DEF TypeInv, Objects
  <1>4. pod.uid \in Created /\ pod.uid \in Uids
    BY Zenon DEF Stores, Executing, Up, Created
  <1>5. pod.uid # 0
    BY <1>4, CheckpointConstants DEF Uids
  <1>6. pod.uid = job.pod
    BY <1>2, <1>5, Zenon DEF TakesNext
  <1>7. store' = [store EXCEPT ![job.seq] = StoredCheckpoint(job.pod)]
    BY <1>6, Zenon DEF Stores
  <1>8. /\ store'[job.seq] = StoredCheckpoint(job.pod)
        /\ \A r \in Refs : r # job.seq => store'[r] = store[r]
    BY <1>2, <1>3, <1>7, Zenon
  <1>9. vm' = Snapshotted(job.pod, job.seq)
    BY <1>6, Zenon DEF Stores
  <1>10. /\ vm'[job.pod].base = job.seq /\ vm'[job.pod].ahead = ~leavePaused(job.why)
         /\ \A u \in Uids : u # job.pod => vm'[u] = vm[u]
    BY <1>3, <1>4, <1>6, <1>9, Zenon DEF Snapshotted, MachineType
  <1>11. ~Stuck
    BY <1>2, Zenon DEF Stores, Stuck, TakesNext
  <1>12. job.seq \notin Chain(sb.ck)
    <2>1. \A r \in Chain(sb.ck) : r <= sb.ck.seq
      BY Zenon DEF Named
    <2>2. ~(job.seq <= sb.ck.seq)
      BY <1>2, <1>3 DEF TakesNext
    <2> QED BY <2>1, <2>2, Zenon
  <1>13. job.parent # 0 => Readable(Chain(sb.ck))
    BY <1>1, <1>2, <1>5, <1>6, <1>11, Zenon DEF TakesNext, Whole, Deletes
  <1> QED BY <1>2, <1>4, <1>6, <1>8, <1>10, <1>11, <1>12, <1>13, Zenon DEF TakesNext

(* A checkpoint that was stored and not yet recorded is whole. *)
LEMMA HasNextStep ==
  ASSUME TypeInv, Born, Mirror, Named, Jobs, Whole, Step, cachePod = pod, pc' \in Stored
  PROVE  HasNext'
  <1>0. Created \subseteq Created'
    BY Births, Zenon
  <1>1. ASSUME pc \in Stored, job' = job, sb'.ck = sb.ck, kek' = kek, store' = store
        PROVE  HasNext'
    <2>1. HasNext /\ job.pod \in Created /\ job.pod \in Uids
      BY <1>1, Zenon DEF Jobs, HasNext, Created
    <2>2. vm'[job.pod].ahead = vm[job.pod].ahead
      BY <1>1, <2>1, VmChanges, Zenon DEF VmChange, Stored
    <2> QED BY <1>0, <1>1, <2>1, <2>2, Zenon DEF HasNext, Readable
  <1>2. CASE Outside
    <2>1. pc' = pc /\ job' = job /\ sb.live /\ sb'.ck = sb.ck /\ store' = store
      BY <1>2, OutsideKeeps, Zenon DEF Outside, rec, Mirror, Stored
    <2>2. kek' = kek
      BY <1>2, <2>1, OutsideKeeps, Zenon
    <2> QED BY <1>1, <2>1, <2>2, Zenon
  <1>3. CASE CheckpointSession
    <2>1. Stores /\ sb' = sb /\ kek' = kek /\ job' = job
      <3>1. pc' # "condemn" /\ pc' # "idle"
        BY Zenon DEF Stored
      <3>2. ~CheckpointFailed(mem)
        BY <3>1, Zenon DEF CheckpointFailed, End
      <3> QED BY <1>3, <3>2, Zenon DEF CheckpointSession, Stores
    <2>2. /\ job.key = kek /\ job.pod \in Created
          /\ store'[job.seq] = StoredCheckpoint(job.pod)
          /\ \A r \in Refs : r # job.seq => store'[r] = store[r]
          /\ vm'[job.pod].ahead = ~leavePaused(job.why)
          /\ job.seq \notin Chain(sb.ck)
          /\ job.parent # 0 => Readable(Chain(sb.ck))
      BY <2>1, StoresJob, Zenon
    <2>3. store'[job.seq].there /\ store'[job.seq].key = kek
      <3>1. StoredCheckpoint(job.pod).there /\ StoredCheckpoint(job.pod).key = job.key
        BY Zenon DEF StoredCheckpoint
      <3> QED BY <2>2, <3>1, Zenon
    <2>4. job.why # Periodic => ~vm'[job.pod].ahead
      BY <2>2, Zenon DEF leavePaused
    <2>5. Chain(sb.ck) \subseteq Refs
      BY ChainTyped, Zenon DEF TypeInv, Objects
    <2>6. ASSUME job.parent # 0 PROVE Readable(Chain(sb.ck))'
      <3>1. \A r \in Chain(sb.ck) : store'[r] = store[r]
        BY <2>2, <2>5, Zenon
      <3> QED BY <2>1, <2>2, <2>6, <3>1, Zenon DEF Readable
    <2> QED BY <1>0, <2>1, <2>2, <2>3, <2>4, <2>6, Zenon DEF HasNext
  <1>4. CASE replaceCheckpoint
    <2>1. pc = "replace" /\ sb' = sb /\ vm' = vm /\ kek' = kek /\ job' = job
      BY <1>4, Zenon DEF replaceCheckpoint
    <2>2. CASE store' = store
      BY <1>1, <2>1, <2>2, Zenon DEF Stored
    <2>3. CASE Removes
      <3>1. job.parent = 0 /\ TakesNext /\ HasNext /\ job.seq \in Refs
        BY <2>1, <2>3, Zenon
        DEF Removes, Superseded, Jobs, Storing, Stored, TypeInv, Control
      <3>2. job.seq > sb.ck.seq
        <4>1. sb.ck.seq \in 0 .. MaxSeq
          BY ChainTyped, Zenon DEF TypeInv, Objects
        <4> QED BY <3>1, <4>1 DEF TakesNext
      <3>3. store'[job.seq] = store[job.seq]
        BY <2>3, <3>1, <3>2, RemovesChain, Zenon
      <3> QED BY <1>0, <2>1, <3>1, <3>3, Zenon DEF HasNext
    <2> QED BY <2>1, <2>2, <2>3, StoreChanges, Zenon DEF StoreChange, Stores
  <1>5. CASE reconcileSessionCheckpoint \/ takeCheckpoint \/ recordCheckpoint \/ condemnPod
             \/ evictPod \/ checkPending \/ RestoreSessionCheckpoint \/ deleteSessionPod
             \/ consumeCheckpoint
    <2>1. pc' \notin Stored
      BY <1>5, Zenon
      DEF reconcileSessionCheckpoint, takeCheckpoint, recordCheckpoint, condemnPod, evictPod,
          checkPending, RestoreSessionCheckpoint, deleteSessionPod, consumeCheckpoint,
          CheckpointFailed, Restored, Refused, End, Stored
    <2> QED BY <2>1, Zenon
  <1>6. pc' \in Storing
    BY Zenon DEF Stored, Storing
  <1> QED BY <1>2, <1>3, <1>4, <1>5, <1>6, Enters, Zenon

(* A suspend goes on only with a checkpoint that was stored and recorded. *)
LEMMA CondemnStep ==
  ASSUME TypeInv, Born, Mirror, Jobs, Step, pc' \in Condemning, job'.why \in Suspends
  PROVE  ~job'.err /\ Kept'
  <1>0. job'.why # Drain /\ job'.why # Periodic
    BY Zenon DEF Suspends, Drain, Periodic
  <1>1. ASSUME pc \in Condemning, job' = job, sb'.ck = sb.ck, store' = store
        PROVE  ~job'.err /\ Kept'
    <2>1. ~job.err /\ Kept
      BY <1>1, Zenon DEF Jobs
    <2>2. sb.live /\ pc \notin Deletes /\ pc \notin {"checkpoint", "rest"}
      BY <1>1, Zenon DEF Mirror, Condemning, Deletes
    <2>3. SameRefs(sb'.ck, sb.ck)
      BY <1>1, Zenon DEF SameRefs
    <2>4. Kept'
      BY <1>1, <2>1, <2>2, <2>3, KeptStays, Zenon
    <2> QED BY <1>1, <2>1, <2>4, Zenon
  <1>2. CASE Outside
    <2>1. pc' = pc /\ job' = job /\ sb'.ck = sb.ck /\ store' = store
      BY <1>2, OutsideKeeps, Zenon DEF Outside, rec
    <2> QED BY <1>1, <2>1, Zenon
  <1>3. CASE condemnPod \/ evictPod
    BY <1>1, <1>3, Zenon DEF condemnPod, evictPod, Condemning
  <1>4. CASE CheckpointSession
    <2>1. CheckpointFailed(mem)
      BY <1>4, Zenon DEF CheckpointSession, Condemning
    <2>2. job' = [job EXCEPT !.err = TRUE] /\ job.why = Drain
      BY <2>1, Zenon DEF CheckpointFailed, End, Condemning
    <2>3. job'.why = job.why
      BY <2>2, Zenon DEF TypeInv, Control, JobType
    <2> QED BY <1>0, <2>2, <2>3, Zenon
  <1>5. CASE recordCheckpoint
    <2> DEFINE new == [mem EXCEPT !.ck = NewCheckpoint]
    <2>1. /\ pc = "record" /\ mem.ck = sb.ck /\ mem.phase = sb.phase /\ mem.reason = sb.reason
          /\ TakesNext /\ HasNext /\ ~job.err
      BY <1>5, Zenon DEF recordCheckpoint, Mirror, Jobs, Condemning, Storing, Stored
    <2>2. ~CheckpointFailed(new)
      <3>1. CASE job.why = Drain
        <4>1. ASSUME job' = [job EXCEPT !.err = TRUE] PROVE job'.why = job.why
          BY <4>1, Zenon DEF TypeInv, Control, JobType
        <4> QED BY <1>0, <3>1, <4>1, Zenon DEF CheckpointFailed
      <3>2. CASE job.why # Drain
        BY <3>2, Zenon DEF CheckpointFailed, End, Condemning
      <3> QED BY <3>1, <3>2, Zenon
    <2> HIDE DEF new
    <2>3. sb' = Merge(sb, mem, new) /\ job' = job /\ vm' = vm
      BY <1>5, <2>2, Zenon DEF recordCheckpoint, End, Condemning, new
    <2>4. new \in Sandboxes /\ new.ck = NewCheckpoint
      <3>1. mem \in Sandboxes /\ Control
        BY Zenon DEF TypeInv, Control
      <3>2. new \in Sandboxes
        BY <2>1, <3>1, NewTyped, CkTyped, Zenon DEF new
      <3> QED BY <3>1, <3>2, Zenon DEF new, Sandboxes, SandboxType
    <2>5. sb'.ck = NewCheckpoint
      <3>1. sb \in Sandboxes /\ mem \in Sandboxes
        BY Zenon DEF TypeInv, Objects, Control
      <3> QED BY <2>1, <2>3, <2>4, <3>1, MergeSame, Zenon
    <2>6. Readable(Chain(sb.ck))'
      BY <2>1, <2>5, NewReadable, Zenon
    <2>7. NewCheckpoint.ref = job.seq /\ NewCheckpoint.pod = job.pod
      BY Zenon DEF NewCheckpoint
    <2>8. job.seq # 0 /\ job.pod # 0
      <3>1. job.seq \in Refs /\ job.pod \in Uids
        BY <2>1, Zenon DEF TypeInv, Control, Storing, HasNext, Created
      <3> QED BY <3>1, CheckpointConstants DEF Refs, Uids
    <2>9. ~vm'[job.pod].ahead
      BY <1>0, <2>1, <2>3, Zenon DEF HasNext
    <2> QED BY <2>1, <2>3, <2>5, <2>6, <2>7, <2>8, <2>9, Zenon DEF Kept
  <1>6. CASE reconcileSessionCheckpoint \/ takeCheckpoint \/ replaceCheckpoint
             \/ checkPending \/ RestoreSessionCheckpoint \/ deleteSessionPod
             \/ consumeCheckpoint
    <2>1. pc' \notin Condemning
      BY <1>6, Zenon
      DEF reconcileSessionCheckpoint, takeCheckpoint, replaceCheckpoint,
          checkPending, RestoreSessionCheckpoint, deleteSessionPod, consumeCheckpoint,
          Restored, Refused, End, Condemning
    <2> QED BY <2>1, Zenon
  <1> QED BY <1>2, <1>3, <1>4, <1>5, <1>6, Enters, Zenon

(* A reconcile loads a checkpoint only when one is due. *)
LEMMA LoadDue ==
  ASSUME "load" \in Decisions(mem, obs)
  PROVE  restoreDue(mem, obs)
  <1>1. \A why \in suspendReason(mem) : why # "load"
    BY Zenon DEF suspendReason
  <1>2. "load" # Drain /\ "load" # Periodic
    BY Zenon DEF Drain, Periodic
  <1>3. \A why \in suspendReason(mem) :
          "load" \notin IF why # "" THEN {why}
                        ELSE IF mem.phase = "Running" THEN {Periodic, "rest"}
                        ELSE {"rest"}
    BY <1>1, <1>2, Zenon
  <1> QED BY <1>2, <1>3, Zenon DEF Decisions

(* A reconcile restores into another Pod than the one it checkpointed. *)
LEMMA RestoringStep ==
  ASSUME TypeInv, Mirror, Jobs, Step, pc' \in Restoring
  PROVE  sb'.ck.pod = 0 \/ obs'.uid # sb'.ck.pod
  <1>1. ASSUME pc \in Restoring, obs' = obs, sb'.ck = sb.ck
        PROVE  sb'.ck.pod = 0 \/ obs'.uid # sb'.ck.pod
    BY <1>1, Zenon DEF Jobs
  <1>2. CASE Outside
    <2>1. pc' = pc /\ obs' = obs /\ sb'.ck = sb.ck
      BY <1>2, OutsideKeeps, Zenon DEF Outside, rec
    <2> QED BY <1>1, <2>1, Zenon
  <1>3. CASE checkPending \/ RestoreSessionCheckpoint \/ deleteSessionPod
             \/ consumeCheckpoint
    <2>1. pc \in Restoring /\ obs' = obs /\ sb' = sb
      BY <1>3, Zenon
      DEF checkPending, RestoreSessionCheckpoint, deleteSessionPod, consumeCheckpoint,
          Restored, Refused, End, Restoring, objects
    <2> QED BY <1>1, <2>1, Zenon
  <1>4. CASE reconcileSessionCheckpoint
    <2>1. PICK d \in Decisions(mem, obs) :
            \/ d = "wait" /\ End
            \/ d \in {"load", "lost", "rest"} /\ pc' = d /\ UNCHANGED <<mem, obs, job>>
            \/ pc' = "key"
      BY <1>4, Zenon DEF reconcileSessionCheckpoint
    <2>2. d = "load" /\ obs' = obs /\ sb' = sb /\ mem.ck = sb.ck
      BY <1>4, <2>1, Zenon
      DEF Restoring, End, reconcileSessionCheckpoint, objects, Mirror, Condemning
    <2>3. restoreDue(mem, obs)
      BY <2>1, <2>2, LoadDue, Zenon
    <2> QED BY <2>2, <2>3, Zenon DEF restoreDue
  <1>5. CASE takeCheckpoint \/ CheckpointSession \/ replaceCheckpoint
             \/ recordCheckpoint \/ condemnPod \/ evictPod
    <2>1. pc' \notin Restoring
      BY <1>5, Zenon
      DEF takeCheckpoint, CheckpointSession, replaceCheckpoint,
          recordCheckpoint, condemnPod, evictPod, CheckpointFailed, End, Restoring
    <2> QED BY <2>1, Zenon
  <1> QED BY <1>2, <1>3, <1>4, <1>5, Enters, Zenon

(* Every step on fresh caches keeps Jobs. *)
LEMMA JobsStep ==
  ASSUME TypeInv, Born, Mirror, Named, Jobs, Whole, Step, cachePod = pod
  PROVE  Jobs'
  <1>1. ASSUME pc' = "key" PROVE ~job'.err
    <2>1. CASE Outside
      BY <1>1, <2>1, Zenon DEF Outside, rec, Jobs
    <2>2. CASE reconcileSessionCheckpoint
      <3>1. PICK d : job' = [NoJob EXCEPT !.why = d]
        BY <1>1, <2>2, Zenon DEF reconcileSessionCheckpoint, End
      <3> QED BY <3>1, Zenon DEF NoJob
    <2>3. CASE takeCheckpoint \/ CheckpointSession \/ replaceCheckpoint \/ recordCheckpoint
               \/ condemnPod \/ evictPod \/ checkPending \/ RestoreSessionCheckpoint
               \/ deleteSessionPod \/ consumeCheckpoint
      <3>1. pc' # "key"
        BY <2>3, Zenon
        DEF takeCheckpoint, CheckpointSession, replaceCheckpoint, recordCheckpoint,
            condemnPod, evictPod, checkPending, RestoreSessionCheckpoint, deleteSessionPod,
            consumeCheckpoint, CheckpointFailed, Restored, Refused, End
      <3> QED BY <1>1, <3>1, Zenon
    <2> QED BY <1>1, <2>1, <2>2, <2>3, Enters, Zenon
  <1>2. pc' \in Storing => TakesNext' /\ ~job'.err
    BY TakesNextStep, Zenon
  <1>3. pc' \in Stored => HasNext'
    BY HasNextStep, Zenon
  <1>4. pc' \in Condemning /\ job'.why \in Suspends => ~job'.err /\ Kept'
    BY CondemnStep, Zenon
  <1>5. pc' \in Restoring => sb'.ck.pod = 0 \/ obs'.uid # sb'.ck.pod
    BY RestoringStep, Zenon
  <1> QED BY <1>1, <1>2, <1>3, <1>4, <1>5, Zenon DEF Jobs

(* deriveStatus never writes the phase Suspended. *)
LEMMA DeriveAwake ==
  ASSUME NEW s \in Sandboxes, NEW p
  PROVE  Derive(s, p).phase # "Suspended"
  <1>0. DOMAIN s = {"live", "deleting", "want", "phase", "reason", "ck"}
    BY Zenon DEF Sandboxes, SandboxType
  <1>1. WithPhase(s, "Running", "").phase = "Running"
    BY <1>0, Zenon DEF WithPhase
  <1>2. WithPhase(s, "Pending", "").phase = "Pending"
    BY <1>0, Zenon DEF WithPhase
  <1>3. WithPhase(s, "Pending", "SessionVMRestarting").phase = "Pending"
    BY <1>0, Zenon DEF WithPhase
  <1>4. \/ Derive(s, p) = s /\ s.phase = "Paused"
        \/ Derive(s, p) = WithPhase(s, "Pending", "SessionVMRestarting")
        \/ Derive(s, p) = WithPhase(s, "Running", "")
        \/ Derive(s, p) = WithPhase(s, "Pending", "")
    BY Zenon DEF Derive
  <1> QED BY <1>1, <1>2, <1>3, <1>4, Zenon

(* A reconcile of a suspended session stays away from the checkpoint        *)
(* machine, unless the phase changes.                                       *)
LEMMA SleepMoves ==
  ASSUME Step, pc \in Suspendable
  PROVE  pc' \in Suspendable \/ (deriveStatus /\ pc' = "decide")
  <1> USE DEF Suspendable, Deletes
  <1>1. CASE Begin
    <2>1. pc' \in {"erase", "missing", "derive"}
      BY <1>1, Zenon DEF Begin
    <2> QED BY <2>1, Zenon
  <1>2. CASE recycleIfExpired \/ createPod \/ hold \/ suspendSession \/ recordRecovery
             \/ resumeAfterNodeLoss \/ dropExitedPod \/ patchPhase \/ deleteClaim
             \/ releaseFinalizer \/ Crash
    BY <1>2, Zenon
    DEF recycleIfExpired, createPod, hold, suspendSession, recordRecovery,
        resumeAfterNodeLoss, dropExitedPod, patchPhase, deleteClaim, releaseFinalizer, Crash,
        PatchAndEnd, End
  <1>3. CASE handleMissingPod \/ markPending \/ ensureWorkspacePVC \/ deriveStatus
             \/ teardownSessionCheckpoint \/ purgeCheckpoints \/ teardownPod
    BY <1>3, Zenon
    DEF handleMissingPod, markPending, ensureWorkspacePVC, deriveStatus,
        teardownSessionCheckpoint, purgeCheckpoints, teardownPod, Patch, End
  <1>4. CASE World \/ Disruption
    BY <1>4, Zenon
    DEF World, Disruption, SetWant, DeleteSandbox, PodStarts, KubeletReports, PodStops,
        CollectOwned, NodeReturns, EvictPod, MachineExits, NodeChanges, rec
  <1>5. CASE \/ reconcileSessionCheckpoint \/ takeCheckpoint \/ CheckpointSession
             \/ replaceCheckpoint \/ recordCheckpoint \/ condemnPod \/ evictPod
             \/ checkPending \/ RestoreSessionCheckpoint \/ deleteSessionPod
             \/ consumeCheckpoint \/ markLost \/ restartExitedSession
             \/ reconcilePhase3Lifecycle
    <2>1. pc \in {"decide", "key", "checkpoint", "replace", "record", "condemn", "evict",
                  "load", "restore", "scrap", "consume", "lost", "rest"}
      BY <1>5, Zenon
      DEF reconcileSessionCheckpoint, takeCheckpoint, CheckpointSession, replaceCheckpoint,
          recordCheckpoint, condemnPod, evictPod, checkPending, RestoreSessionCheckpoint,
          deleteSessionPod, consumeCheckpoint, markLost, restartExitedSession,
          reconcilePhase3Lifecycle
    <2> QED BY <2>1, Zenon
  <1> QED BY <1>1, <1>2, <1>3, <1>4, <1>5, Zenon DEF Step, Reconcile

(* Every step on fresh caches keeps Asleep: nothing wakes a suspended       *)
(* session but a reconcile that resumes it.                                 *)
LEMMA AsleepStep ==
  ASSUME TypeInv, Mirror, Jobs, Asleep, Step
  PROVE  Asleep'
  <1> SUFFICES ASSUME sb'.phase = "Suspended"
               PROVE  /\ pc' \in Suspendable
                      /\ sb'.live /\ ~sb'.deleting /\ sb'.reason \in Suspends
                         => sb'.ck.pending /\ Kept'
    BY Zenon DEF Asleep
  <1>1. CkChange /\ PhaseChange
    BY StatusChanges, Zenon
  <1>2. sb'.live => sb' # NoSandbox /\ sb.live /\ (sb.deleting => sb'.deleting)
    BY SbGoes, Zenon DEF NoSandbox, NewSandbox
  <1>3. ASSUME pc = "suspended", pc' = "idle", sb'.reason = job.why,
               ~job.err /\ mem.ck = sb.ck /\ sb.ck.ref # 0 => sb'.ck.pending
        PROVE  /\ pc' \in Suspendable
               /\ sb'.live /\ ~sb'.deleting /\ sb'.reason \in Suspends
                  => sb'.ck.pending /\ Kept'
    <2>1. ASSUME sb'.live, sb'.reason \in Suspends PROVE sb'.ck.pending /\ Kept'
      <3>1. ~job.err /\ Kept /\ mem.ck = sb.ck
        BY <1>3, <2>1, Zenon DEF Jobs, Condemning, Mirror
      <3>2. SameRefs(sb'.ck, sb.ck)
        BY <1>1, <1>2, <1>3, <2>1, Zenon DEF CkChange, SameCk
      <3>3. store' = store
        BY <1>3, StoreChanges, Zenon DEF StoreChange, Stores, Removes
      <3>4. Kept'
        BY <1>2, <1>3, <2>1, <3>1, <3>2, <3>3, KeptStays, Zenon DEF Deletes
      <3> QED BY <1>3, <3>1, <3>4, Zenon DEF Kept
    <2> QED BY <1>3, <2>1, Zenon DEF Suspendable
  <1>4. ASSUME sb.phase = "Suspended", sb'.reason = sb.reason
        PROVE  /\ pc' \in Suspendable
               /\ sb'.live /\ ~sb'.deleting /\ sb'.reason \in Suspends
                  => sb'.ck.pending /\ Kept'
    <2>1. pc \in Suspendable
      BY <1>4, Zenon DEF Asleep
    <2>2. ASSUME deriveStatus, pc' = "decide" PROVE FALSE
      <3>1. mem \in Sandboxes /\ sb \in Sandboxes
        BY Zenon DEF TypeInv, Objects, Control
      <3>2. /\ mem.ck = sb.ck /\ mem.phase = sb.phase /\ mem.reason = sb.reason
        BY <2>2, Zenon DEF deriveStatus, Mirror, Condemning
      <3>3. Derive(mem, obs) \in Sandboxes /\ Derive(mem, obs).phase # "Suspended"
        BY <3>1, DeriveTyped, DeriveAwake, Zenon
      <3>4. sb' = Merge(sb, mem, Derive(mem, obs)) \/ Derive(mem, obs) = mem
        BY <2>2, Zenon DEF deriveStatus, Patch, End
      <3>5. Merge(sb, mem, Derive(mem, obs)).phase = Derive(mem, obs).phase
        BY <3>1, <3>2, <3>3, MergeSame, Zenon
      <3> QED BY <1>4, <3>2, <3>3, <3>4, <3>5, Zenon
    <2>3. pc' \in Suspendable
      BY <2>1, <2>2, SleepMoves, Zenon
    <2>4. ASSUME sb'.live, ~sb'.deleting, sb'.reason \in Suspends PROVE sb'.ck.pending /\ Kept'
      <3>1. sb.live /\ ~sb.deleting /\ sb.ck.pending /\ Kept
        BY <1>2, <1>4, <2>4, Zenon DEF Asleep
      <3>2. pc \notin Deletes
        BY <3>1, Zenon DEF Mirror, Deletes
      <3>3. pc \in {"idle", "missing", "pending", "create", "createPod", "derive"}
        BY <2>1, <3>2, Zenon DEF Suspendable
      <3>4. SameCk
        BY <1>1, <1>2, <2>4, <3>3, Zenon DEF CkChange
      <3>5. SameRefs(sb'.ck, sb.ck) /\ sb'.ck.pending
        BY <3>1, <3>3, <3>4, Zenon DEF SameCk
      <3>6. store' = store
        BY <3>3, StoreChanges, Zenon DEF StoreChange, Stores, Removes
      <3>7. Kept'
        BY <3>1, <3>3, <3>5, <3>6, KeptStays, Zenon
      <3> QED BY <3>5, <3>7, Zenon
    <2> QED BY <2>3, <2>4, Zenon
  <1> QED BY <1>1, <1>3, <1>4, Zenon DEF PhaseChange

(* What a checkpoint call leaves of the tracking of dirty pages. *)
LEMMA SnapshotOutcomes ==
  ASSUME TypeInv, Step, pc = "checkpoint", "save" \notin happened', NEW u \in Uids
  PROVE  vm'[u].base = vm[u].base \/ Stores \/ store[job.seq].there
  <1>1. vm \in [Uids -> MachineType]
    BY Zenon DEF TypeInv, Objects
  <1>2. ASSUME NEW x, NEW st, vm' = [vm EXCEPT ![x].state = st]
        PROVE  vm'[u].base = vm[u].base
    BY <1>1, <1>2, Zenon DEF MachineType
  <1>3. CASE CheckpointSession
    BY <1>3, Zenon DEF CheckpointSession, Stores, Fault
  <1>4. CASE PodStarts \/ PodStops
    BY <1>2, <1>4, Zenon DEF PodStarts, PodStops
  <1>5. CASE \E x \in Uids : NodeReturns(x) \/ MachineExits(x)
    BY <1>2, <1>5, Zenon DEF NodeReturns, MachineExits
  <1>6. CASE createPod \/ RestoreSessionCheckpoint \/ reconcilePhase3Lifecycle
    BY <1>6, Zenon DEF createPod, RestoreSessionCheckpoint, reconcilePhase3Lifecycle
  <1> QED BY <1>3, <1>4, <1>5, <1>6, OnlyVmSteps, Zenon

(* The steps into the state after a stored checkpoint. *)
LEMMA StoredMoves ==
  ASSUME Step, pc' \in Stored
  PROVE  job' = job /\ (Stores \/ pc \in Stored)
  <1>1. CASE Outside
    BY <1>1, Zenon DEF Outside, rec
  <1>2. CASE CheckpointSession
    <2>1. pc' # "condemn" /\ pc' # "idle"
      BY Zenon DEF Stored
    <2>2. ~CheckpointFailed(mem)
      BY <2>1, Zenon DEF CheckpointFailed, End
    <2> QED BY <1>2, <2>2, Zenon DEF CheckpointSession, Stores
  <1>3. CASE replaceCheckpoint
    BY <1>3, Zenon DEF replaceCheckpoint, Stored
  <1>4. CASE reconcileSessionCheckpoint \/ takeCheckpoint \/ recordCheckpoint \/ condemnPod
             \/ evictPod \/ checkPending \/ RestoreSessionCheckpoint \/ deleteSessionPod
             \/ consumeCheckpoint
    <2>1. pc' \notin Stored
      BY <1>4, Zenon
      DEF reconcileSessionCheckpoint, takeCheckpoint, recordCheckpoint, condemnPod, evictPod,
          checkPending, RestoreSessionCheckpoint, deleteSessionPod, consumeCheckpoint,
          CheckpointFailed, Restored, Refused, End, Stored
    <2> QED BY <2>1, Zenon
  <1>5. pc' \in Storing
    BY Zenon DEF Stored, Storing
  <1> QED BY <1>1, <1>2, <1>3, <1>4, <1>5, Enters, Zenon

(* Every step on fresh caches keeps Diffs. *)
LEMMA DiffsStep ==
  ASSUME TypeInv, Mirror, Named, Jobs, Whole, Diffs, Step, cachePod = pod
  PROVE  Diffs'
  <1> SUFFICES ASSUME "save" \notin happened'
               PROVE  /\ DiffCountsFromParent'
                      /\ pc' \in Stored => vm'[job'.pod].base = job'.seq
                      /\ sb'.ck.ref # 0 /\ sb'.ck.pod # 0
                         => vm'[sb'.ck.pod].base = sb'.ck.ref \/ Stuck'
    BY Zenon DEF Diffs
  <1>1. "save" \notin happened
    BY FaultsTyped, Zenon DEF TypeInv
  <1>2. /\ DiffCountsFromParent
        /\ pc \in Stored => vm[job.pod].base = job.seq
        /\ sb.ck.ref # 0 /\ sb.ck.pod # 0 => vm[sb.ck.pod].base = sb.ck.ref \/ Stuck
    BY <1>1, Zenon DEF Diffs
  <1>3. DiffCountsFromParent'
    <2>1. CASE store' = store
      BY <1>2, <2>1, Zenon DEF DiffCountsFromParent
    <2>2. CASE Removes
      <3>1. PICK S : store' = Without(S)
        BY <2>2, Zenon DEF Removes
      <3>2. ASSUME NEW r \in Refs, store'[r].there PROVE store'[r] = store[r]
        <4>1. store'[r] = IF r \in S THEN [store[r] EXCEPT !.there = FALSE] ELSE store[r]
          BY <3>1, Zenon DEF Without
        <4>2. [store[r] EXCEPT !.there = FALSE].there = FALSE
          BY Zenon DEF TypeInv, Objects, ObjectType
        <4> QED BY <3>2, <4>1, <4>2, Zenon
      <3> QED BY <1>2, <3>2, Zenon DEF DiffCountsFromParent
    <2>3. CASE Stores
      <3> DEFINE o == StoredCheckpoint(job.pod)
      <3>1. /\ job.pod \in Uids /\ ~Stuck /\ store'[job.seq] = o
            /\ \A r \in Refs : r # job.seq => store'[r] = store[r]
        BY <2>3, StoresJob, Zenon
      <3>2. o.parent = job.parent /\ o.base = IF job.parent = 0 THEN 0 ELSE vm[job.pod].base
        BY Zenon DEF StoredCheckpoint
      <3>3. job.parent # 0 => job.parent = sb.ck.ref /\ job.pod = sb.ck.pod
        BY <2>3, Zenon DEF Stores, Jobs, Storing, TakesNext
      <3>4. job.pod # 0
        BY <3>1, CheckpointConstants DEF Uids
      <3>5. o.base = o.parent
        BY <1>2, <3>1, <3>2, <3>3, <3>4, Zenon
      <3> HIDE DEF o
      <3> QED BY <1>2, <3>1, <3>5, Zenon DEF DiffCountsFromParent
    <2> QED BY <2>1, <2>2, <2>3, StoreChanges, Zenon DEF StoreChange
  <1>4. ASSUME pc' \in Stored PROVE vm'[job'.pod].base = job'.seq
    <2>1. job' = job /\ (Stores \/ pc \in Stored)
      BY <1>4, StoredMoves, Zenon
    <2>2. CASE Stores
      BY <2>1, <2>2, StoresJob, Zenon
    <2>3. CASE pc \in Stored
      <3>1. job.pod \in Uids
        BY <2>3, Zenon DEF Jobs, HasNext, Created
      <3>2. vm'[job.pod].base = vm[job.pod].base
        BY <2>3, <3>1, VmChanges, Zenon DEF VmChange, Stored
      <3> QED BY <1>2, <2>1, <2>3, <3>2, Zenon
    <2> QED BY <2>1, <2>2, <2>3, Zenon
  <1>5. ASSUME sb'.ck.ref # 0, sb'.ck.pod # 0
        PROVE  vm'[sb'.ck.pod].base = sb'.ck.ref \/ Stuck'
    <2>1. CkChange
      BY StatusChanges, Zenon
    <2>2. CASE sb'.ck = Consumed(mem) \/ sb' = NoSandbox
      BY <1>5, <2>2, NoChain, Zenon
    <2>3. CASE pc = "record" /\ sb'.ck = NewCheckpoint
      <3>1. NewCheckpoint.ref = job.seq /\ NewCheckpoint.pod = job.pod /\ pc \in Stored
        BY <2>3, Zenon DEF NewCheckpoint, Stored
      <3>2. job.pod \in Uids
        BY <3>1, Zenon DEF Jobs, HasNext, Created
      <3>3. vm'[job.pod].base = vm[job.pod].base
        BY <2>3, <3>2, VmChanges, Zenon DEF VmChange
      <3> QED BY <1>2, <2>3, <3>1, <3>3, Zenon
    <2>4. CASE SameCk
      <3> DEFINE u == sb.ck.pod
      <3>1. /\ sb'.ck.ref = sb.ck.ref /\ sb'.ck.pod = u /\ sb'.ck.seq = sb.ck.seq
        BY <2>4, Zenon DEF SameCk, SameRefs
      <3>2. CASE Stuck \/ Stores
        BY <3>1, <3>2, StuckStays, Zenon
      <3>3. u \in Uids
        <4>1. u \in 0 .. MaxPods
          BY Zenon DEF TypeInv, Objects, Sandboxes, SandboxType, CheckpointType
        <4> QED BY <1>5, <3>1, <4>1, CheckpointConstants DEF Uids
      <3>4. CASE ~Stuck /\ ~Stores
        <4>1. vm[u].base = sb.ck.ref
          BY <1>2, <1>5, <3>1, <3>4, Zenon
        <4>2. vm'[u].base = vm[u].base
          <5>1. CASE pc = "checkpoint"
            <6>1. job.seq = sb.ck.seq + 1 /\ job.seq \in Refs
              BY <5>1, Zenon DEF Jobs, TakesNext, Storing, TypeInv, Control
            <6>2. ~store[job.seq].there
              BY <3>4, <6>1, Zenon DEF Stuck
            <6> QED BY <3>3, <3>4, <5>1, <6>2, SnapshotOutcomes, Zenon
          <5>2. CASE pc = "restore"
            <6>1. u # 0 /\ u # pod.uid
              BY <1>5, <3>1, <5>2, Zenon DEF Jobs, Restoring, Mirror
            <6> QED BY <3>3, <5>2, <6>1, VmChanges, Zenon DEF VmChange
          <5>3. CASE pc # "checkpoint" /\ pc # "restore"
            BY <3>3, <5>3, VmChanges, Zenon DEF VmChange
          <5> QED BY <5>1, <5>2, <5>3, Zenon
        <4> QED BY <3>1, <4>1, <4>2, Zenon
      <3> QED BY <3>2, <3>4, Zenon
    <2> QED BY <2>1, <2>2, <2>3, <2>4, Zenon DEF CkChange
  <1> QED BY <1>3, <1>4, <1>5, Zenon

(* FreshInv is inductive. *)
LEMMA FreshStep ==
  ASSUME TypeInv, Born, FreshInv, [Next]_vars
  PROVE  FreshInv'
  <1>1. CASE Step /\ (CachesFollow \/ CachesMiss) /\ Next
    <2>1. Current' /\ (~missed' => ~missed)
      BY <1>1, CurrentStep, Zenon DEF FreshInv
    <2>2. ASSUME ~missed' PROVE Good'
      <3>1. cacheSb = sb /\ cachePod = pod /\ Good
        BY <2>1, <2>2, Zenon DEF FreshInv, Current
      <3>2. Mirror /\ Named /\ Jobs /\ Whole /\ Asleep /\ Diffs
        BY <3>1, Zenon DEF Good
      <3>3. Mirror' /\ Named'
        BY <1>1, <3>1, <3>2, MirrorStep, NamedStep, Zenon
      <3>4. Jobs' /\ Whole'
        BY <1>1, <3>1, <3>2, JobsStep, WholeStep, Zenon
      <3>5. Asleep' /\ Diffs'
        BY <1>1, <3>1, <3>2, AsleepStep, DiffsStep, Zenon
      <3> QED BY <3>3, <3>4, <3>5, Zenon DEF Good
    <2> QED BY <2>1, <2>2, Zenon DEF FreshInv
  <1>2. ASSUME UNCHANGED <<sb, pod, vm, store, kek, pc, mem, obs, job, happened, missed>>
        PROVE  Good' = Good
    BY <1>2, Zenon
    DEF Good, Mirror, Named, Created, Jobs, TakesNext, HasNext, Kept, Whole, Asleep, Diffs,
        Stuck, Readable, DiffCountsFromParent
  <1>3. CASE CatchUp /\ Next
    <2>1. Current'
      BY <1>3, CurrentStep, Zenon DEF FreshInv
    <2>2. UNCHANGED <<sb, pod, vm, store, kek, pc, mem, obs, job, happened, missed>>
      BY <1>3, Zenon DEF CatchUp, objects, rec, NoFault
    <2> QED BY <1>2, <2>1, <2>2, Zenon DEF FreshInv
  <1>4. CASE UNCHANGED vars
    <2>1. UNCHANGED <<sb, pod, vm, store, kek, pc, mem, obs, job, happened, missed>>
          /\ UNCHANGED <<lagging, cacheSb, cachePod>>
      BY <1>4, Zenon DEF vars, objects, rec, caches
    <2> QED BY <1>2, <2>1, Zenon DEF FreshInv, Current
  <1> QED BY <1>1, <1>3, <1>4, Zenon DEF Next

(* FreshInv holds initially. *)
LEMMA FreshInit == Init => FreshInv
  <1> SUFFICES ASSUME Init PROVE FreshInv
    BY Zenon
  <1>1. Current
    BY Zenon DEF Init, Current
  <1>2. /\ pc = "idle" /\ sb = NewSandbox /\ sb.phase = "Pending"
        /\ sb.ck.ref = 0 /\ sb.ck.pod = 0
        /\ \A r \in Refs : ~store[r].there
    BY Zenon DEF Init, NewSandbox, NoCheckpoint, NoObject
  <1>3. Mirror /\ Named
    BY <1>2, Zenon DEF Mirror, Named, Chain
  <1>4. Jobs /\ Whole
    BY <1>2, Zenon DEF Jobs, Whole, Storing, Stored, Condemning, Restoring
  <1>5. Asleep /\ Diffs
    BY <1>2, Zenon DEF Asleep, Diffs, DiffCountsFromParent, Stored
  <1> QED BY <1>1, <1>3, <1>4, <1>5, Zenon DEF FreshInv, Good

(* suspendSession: a session suspended by its user, for idleness or at the  *)
(* pause cap has a whole, readable checkpoint of the last state of its      *)
(* machine, as long as no reconcile ran on stale caches.                    *)
THEOREM SuspendSafe == Spec => []SuspendKeepsState
  <1>1. Init => TypeInv /\ Born /\ FreshInv
    BY TypeInit, EraseInit, FreshInit, Zenon
  <1>2. TypeInv /\ Born /\ EraseInv /\ FreshInv /\ [Next]_vars
        => (TypeInv /\ Born /\ EraseInv /\ FreshInv)'
    BY TypeStep, EraseNext, FreshStep, Zenon
  <1>3. Init => EraseInv
    BY EraseInit, Zenon
  <1>4. FreshInv => SuspendKeepsState
    BY Zenon
    DEF FreshInv, Good, Asleep, Kept, SuspendKeepsState, Spared, Occurred
  <1> QED BY <1>1, <1>2, <1>3, <1>4, PTL DEF Spec

(* launcher_frame.go: the memory of a stored diff holds the pages that      *)
(* changed since the parent that it names, as long as every snapshot taken  *)
(* was stored and no reconcile ran on stale caches.                         *)
THEOREM DiffsSafe == Spec => []DiffSound
  <1>1. Init => TypeInv /\ Born /\ EraseInv /\ FreshInv
    BY TypeInit, EraseInit, FreshInit, Zenon
  <1>2. TypeInv /\ Born /\ EraseInv /\ FreshInv /\ [Next]_vars
        => (TypeInv /\ Born /\ EraseInv /\ FreshInv)'
    BY TypeStep, EraseNext, FreshStep, Zenon
  <1>3. FreshInv => DiffSound
    BY Zenon DEF FreshInv, Good, Diffs, DiffSound, Spared, Occurred
  <1> QED BY <1>1, <1>2, <1>3, PTL DEF Spec
==============================================================================
