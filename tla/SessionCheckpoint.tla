------------------------- MODULE SessionCheckpoint -------------------------
(***************************************************************************)
(* Memory checkpoints of one session Sandbox:                              *)
(* internal/controller/session_checkpoint.go, the parts of                 *)
(* sandbox_controller.go that call it, the session calls of the snapshot   *)
(* coordinator (internal/snapshot/session.go), the node agent's            *)
(* CreateSnapshot and RestoreSandbox, and the checkpoint store.            *)
(*                                                                         *)
(* A reconcile is a chain of steps (pc), each with at most one API write   *)
(* or node-agent call.  It reads the Sandbox and the Pod from the informer *)
(* caches cacheSb and cachePod, which follow the objects unless they lag.  *)
(* mem and obs are the copies it works on, job what it is doing.           *)
(*                                                                         *)
(* Deadlines (idle, pause cap, checkpoint interval, node-loss grace,       *)
(* suspended TTL) and client activity are choices: each may or may not     *)
(* have passed, or come, when the code compares the clock.  Policies,      *)
(* class resolution and failed sessions are in SandboxController.          *)
(***************************************************************************)
EXTENDS Integers, Sequences, FiniteSets, Functions

CONSTANTS
  Durables,      \* the values of sessionCheckpoint.durable
  Wants,         \* values that callers give spec.desiredState
  MaxDiffChain,  \* maxDiffChain: diffs on one full checkpoint
  MaxSeq,        \* bound on the checkpoint sequence
  MaxPods,       \* bound on the Pods created for the session
  MaxDisruptions, \* bound on evictions, machine exits and node changes
  MaxKeks,       \* bound on the session keys created
  FaultKinds,    \* the failures a run allows, each at most once
  MaxFaults      \* bound on the failures of one behaviour

ASSUME CheckpointConstants ==
  /\ Durables \subseteq BOOLEAN
  /\ Wants \subseteq {"Running", "Paused", "Suspended"}
  /\ MaxDiffChain \in Nat /\ MaxSeq \in Nat \ {0}
  /\ MaxPods \in Nat \ {0} /\ MaxKeks \in Nat \ {0} /\ MaxFaults \in Nat
  /\ MaxDisruptions \in Nat
  /\ FaultKinds \subseteq
       {"crash", "lag", "rpc", "save", "answer", "patch", "delete", "key"}

VARIABLES
  durable,   \* sessionCheckpoint.durable of the class
  sb,        \* the Sandbox in the API server, with status.checkpoint
  pod,       \* the Pod <name>-vm; uid 0 when there is none
  vm,        \* the machine of every Pod, also after the Pod is gone
  node,      \* the node of every Pod
  store,     \* the checkpoint objects, by sequence number
  kek,       \* the session key Secret, 0 when there is none
  keks,      \* session keys created so far
  claim,     \* the workspace claim is there and is not being deleted
  pc, mem, obs, job,      \* the reconcile under way
  cacheSb, cachePod,      \* the informer caches
  lagging,   \* the caches that lag, and "read" when a reconcile began on them
  missed,    \* a cache lagged
  happened,  \* the kinds of failure that happened
  disruptions  \* evictions, machine exits and node changes so far

objects == <<sb, pod, vm, node, store, kek, keks, claim>>
rec == <<pc, mem, obs, job>>
caches == <<cacheSb, cachePod, lagging, missed>>
vars == <<durable, objects, rec, caches, happened, disruptions>>

Refs == 1 .. MaxSeq
Uids == 1 .. MaxPods
Drain == "CheckpointOnDrain"
Suspends == {"UserSuspended", "SuspendedPauseTimeout", "SuspendedIdle"}
Periodic == "periodic"

(* SandboxCheckpointStatus.  A reference is the sequence number that       *)
(* SessionCheckpointID puts in it.                                         *)
NoCheckpoint == [ref |-> 0, seq |-> 0, pod |-> 0, parents |-> <<>>,
                 pending |-> FALSE, recovery |-> "none"]

NewSandbox == [live |-> TRUE, deleting |-> FALSE, want |-> "Running",
               phase |-> "Pending", reason |-> "", ck |-> NoCheckpoint]
NoSandbox == [NewSandbox EXCEPT !.live = FALSE]

NoPod == [uid |-> 0, phase |-> "Pending", ready |-> FALSE, deleting |-> FALSE,
          mark |-> FALSE, restore |-> FALSE]

(* base: the checkpoint its dirty-page tracking counts from, 0 for any     *)
(* memory that is not a stored checkpoint.  ahead: it ran since its last   *)
(* checkpoint.  torn: its writable layer was overwritten under it.         *)
NoMachine == [state |-> "none", from |-> 0, base |-> 0, ahead |-> TRUE,
              torn |-> FALSE]

(* parent: the object a restore loads below it.  base: the checkpoint its  *)
(* changed pages really count from.  by: the Pod that wrote it.            *)
NoObject == [there |-> FALSE, parent |-> 0, base |-> 0, by |-> 0, key |-> 0]

NoJob == [why |-> "", seq |-> 0, parent |-> 0, pod |-> 0, key |-> 0,
          err |-> FALSE, recovery |-> "none"]

Created == {u \in Uids : vm[u].state # "none"}
Up(u) == u \in Created /\ vm[u].state # "dead" /\ node[u] # "lost"
Executing(u) == Up(u) /\ vm[u].state \in {"running", "paused"}

(* Every object that a restore of ck reads. *)
Chain(ck) == IF ck.ref = 0 THEN {} ELSE {ck.ref} \cup Range(ck.parents)
Readable(refs) == kek # 0 /\ \A r \in refs : store[r].there /\ store[r].key = kek
Without(refs) ==
  [r \in Refs |-> IF r \in refs THEN [store[r] EXCEPT !.there = FALSE]
                  ELSE store[r]]

(* Failures.  "lag" is counted by missed, the others by happened. *)
Occurred == happened \cup (IF missed THEN {"lag"} ELSE {})
CanFail(k) == /\ k \in FaultKinds \ happened
              /\ Cardinality(Occurred) < MaxFaults
Fault(k) == CanFail(k) /\ happened' = happened \cup {k}
NoFault == UNCHANGED happened

(* A merge patch writes the fields that changed in memory; its answer      *)
(* replaces the copy in memory.                                            *)
Pick(live, orig, new) == IF new # orig THEN new ELSE live
MergeCk(live, orig, new) ==
  [f \in DOMAIN live |-> Pick(live[f], orig[f], new[f])]
Merge(live, orig, new) ==
  [live EXCEPT !.phase = Pick(@, orig.phase, new.phase),
               !.reason = Pick(@, orig.reason, new.reason),
               !.ck = MergeCk(@, orig.ck, new.ck)]

End ==
  /\ pc' = "idle" /\ mem' = NoSandbox /\ obs' = NoPod /\ job' = NoJob

(* The status patch of a step: done, or the error ends the reconcile.  The *)
(* Sandbox is there: its finalizer holds it until a reconcile that saw the *)
(* deletion releases it.                                                   *)
Patch(new, next) ==
  \/ /\ NoFault
     /\ sb' = Merge(sb, mem, new) /\ mem' = sb'
     /\ next /\ UNCHANGED obs
  \/ Fault("patch") /\ End /\ UNCHANGED sb

(* The patch of a step that ends the reconcile. *)
PatchAndEnd(new) ==
  /\ \/ NoFault /\ sb' = Merge(sb, mem, new)
     \/ Fault("patch") /\ UNCHANGED sb
  /\ End

(* Delete names the Pod, not its uid. *)
DeletePod == pod' = IF pod.uid = 0 THEN pod ELSE [pod EXCEPT !.deleting = TRUE]

------------------------------------------------------------------------------
(* Reconcile: the start, and a session with no Pod. *)

Begin ==
  /\ pc = "idle" /\ cacheSb.live /\ "read" \notin lagging
  /\ mem' = cacheSb /\ obs' = cachePod
  /\ pc' = IF cacheSb.deleting THEN "erase"
           ELSE IF cachePod.uid = 0 THEN "missing" ELSE "derive"
  /\ NoFault /\ UNCHANGED <<objects, job>>

(* Whether a suspended session resumes: an idle one does when a client     *)
(* came since.                                                             *)
suspendedSandboxAction(s) ==
  IF s.want = "Suspended" THEN {FALSE}
  ELSE IF s.reason = "SuspendedPauseTimeout" THEN {s.want = "Running"}
  ELSE IF s.reason = "SuspendedIdle" THEN BOOLEAN ELSE {TRUE}

MayStay(s) == s.phase = "Suspended" /\ FALSE \in suspendedSandboxAction(s)
MayStart(s) == s.phase = "Suspended" => TRUE \in suspendedSandboxAction(s)

(* A suspended session waits, or is recycled when its TTL passed. *)
recycleIfExpired ==
  /\ pc = "missing" /\ MayStay(mem)
  /\ \/ UNCHANGED sb
     \/ sb' = [sb EXCEPT !.deleting = TRUE]
  /\ End /\ NoFault /\ UNCHANGED <<pod, vm, node, store, kek, keks, claim>>

ensureSessionKEK ==
  IF kek # 0 THEN UNCHANGED <<kek, keks>>
  ELSE keks < MaxKeks /\ kek' = keks + 1 /\ keks' = keks + 1

handleMissingPod ==
  /\ pc = "missing" /\ MayStart(mem)
  /\ ensureSessionKEK
  /\ pc' = "pending"
  /\ NoFault /\ UNCHANGED <<sb, pod, vm, node, store, mem, obs, job, claim>>

NeedsPendingMark(s) == s.ck.ref # 0 /\ ~s.ck.pending

(* A machine that vanished with a live checkpoint restores from it. *)
markPending ==
  /\ pc = "pending"
  /\ \/ /\ NeedsPendingMark(mem)
        /\ Patch([mem EXCEPT !.ck.pending = TRUE],
                 pc' = "create" /\ UNCHANGED job)
     \/ /\ ~NeedsPendingMark(mem)
        /\ pc' = "create" /\ NoFault /\ UNCHANGED <<sb, mem, obs, job>>
  /\ UNCHANGED <<pod, vm, node, store, kek, keks, claim>>

pendingCheckpoint(s) == s.ck.pending /\ s.ck.ref # 0

ensureWorkspacePVC ==
  /\ pc = "create"
  /\ claim' = TRUE /\ pc' = "createPod"
  /\ NoFault
  /\ UNCHANGED <<sb, pod, vm, node, store, kek, keks, mem, obs, job>>

createPod ==
  /\ pc = "createPod"
  /\ \/ /\ pod.uid # 0
        /\ UNCHANGED <<pod, vm>>
     \/ /\ pod.uid = 0
        /\ \E u \in Uids \ Created :
             /\ \A v \in Uids \ Created : u <= v
             /\ pod' = [NoPod EXCEPT !.uid = u,
                                     !.restore = pendingCheckpoint(mem)]
             /\ vm' = [vm EXCEPT ![u].state = "pending"]
  /\ End /\ NoFault /\ UNCHANGED <<sb, node, store, kek, keks, claim>>

------------------------------------------------------------------------------
(* Reconcile: a session with a Pod. *)

holdingSuspend(s, p) == s.phase = "Suspended" /\ (p.deleting \/ p.mark)

WithPhase(s, ph, why) ==
  IF s.phase = ph /\ s.reason = why THEN s
  ELSE [s EXCEPT !.phase = ph, !.reason = why]

Derive(s, p) ==
  IF s.phase = "Paused" /\ p.phase = "Running" THEN s
  ELSE IF p.phase = "Ended" THEN WithPhase(s, "Pending", "SessionVMRestarting")
  ELSE IF p.phase = "Running" /\ p.ready THEN WithPhase(s, "Running", "")
  ELSE WithPhase(s, "Pending", "")

hold ==
  /\ pc = "derive" /\ holdingSuspend(mem, obs)
  /\ End /\ NoFault /\ UNCHANGED objects

deriveStatus ==
  /\ pc = "derive" /\ ~holdingSuspend(mem, obs)
  /\ \/ /\ Derive(mem, obs) # mem
        /\ Patch(Derive(mem, obs), pc' = "decide" /\ UNCHANGED job)
     \/ /\ Derive(mem, obs) = mem
        /\ pc' = "decide" /\ NoFault /\ UNCHANGED <<sb, mem, obs, job>>
  /\ UNCHANGED <<pod, vm, node, store, kek, keks, claim>>

restoreDue(s, p) ==
  /\ s.ck.pending /\ p.phase = "Running" /\ ~p.deleting
  /\ s.ck.pod = 0 \/ p.uid # s.ck.pod

lostNode(p) == durable /\ p.phase # "Pending" /\ node[p.uid] = "lost"
draining(p) == p.deleting \/ (p.phase # "Pending" /\ node[p.uid] = "cordoned")

(* The reasons to suspend now: each deadline may or may not have passed. *)
suspendReason(s) ==
  IF s.want = "Suspended" THEN {"UserSuspended"}
  ELSE IF s.phase = "Paused" THEN {"", "SuspendedPauseTimeout"}
  ELSE {"", "SuspendedIdle"}

(* reconcileSessionCheckpoint: what this reconcile does.  "wait" ends it,  *)
(* "rest" leaves it to the pause and restart steps.                        *)
Decisions(s, p) ==
  IF p.mark THEN {"wait"}
  ELSE IF restoreDue(s, p) THEN {"load"}
  ELSE IF lostNode(p) THEN {"wait", "lost"}
  ELSE IF s.phase \notin {"Running", "Paused"} THEN {"rest"}
  ELSE IF draining(p) THEN {Drain}
  ELSE UNION {IF why # "" THEN {why}
              ELSE IF s.phase = "Running" THEN {Periodic, "rest"}
              ELSE {"rest"} : why \in suspendReason(s)}

reconcileSessionCheckpoint ==
  /\ pc = "decide"
  /\ \E d \in Decisions(mem, obs) :
       \/ d = "wait" /\ End
       \/ /\ d \in {"load", "lost", "rest"}
          /\ pc' = d /\ UNCHANGED <<mem, obs, job>>
       \/ /\ d \in Suspends \cup {Drain, Periodic}
          /\ mem.ck.seq < MaxSeq
          /\ pc' = "key" /\ job' = [NoJob EXCEPT !.why = d]
          /\ UNCHANGED <<mem, obs>>
  /\ NoFault /\ UNCHANGED objects

------------------------------------------------------------------------------
(* takeCheckpoint and suspendSession. *)

(* A diff needs a parent that the same machine wrote. *)
DiffParent_AnyPod(s, p) ==
  IF /\ durable /\ s.ck.ref # 0 /\ p.uid # 0
     /\ Len(s.ck.parents) < MaxDiffChain
  THEN s.ck.ref ELSE 0
DiffParent_NoLimit(s, p) ==
  IF durable /\ s.ck.ref # 0 /\ p.uid # 0 /\ s.ck.pod = p.uid
  THEN s.ck.ref ELSE 0
DiffParent(s, p) ==
  IF /\ durable /\ s.ck.ref # 0 /\ p.uid # 0 /\ s.ck.pod = p.uid
     /\ Len(s.ck.parents) < MaxDiffChain
  THEN s.ck.ref ELSE 0

takeCheckpoint ==
  /\ pc = "key"
  /\ ensureSessionKEK
  /\ job' = [job EXCEPT !.seq = mem.ck.seq + 1,
                        !.parent = DiffParent(mem, cachePod),
                        !.pod = cachePod.uid, !.key = kek']
  /\ pc' = "checkpoint"
  /\ NoFault /\ UNCHANGED <<sb, pod, vm, node, store, mem, obs, claim>>

leavePaused(why) == why # Periodic

(* A failed checkpoint: a drain goes on, a suspend is aborted, a periodic  *)
(* one is retried at the next interval.                                    *)
CheckpointFailed_GoesOn(newMem) ==
  IF job.why # Periodic
  THEN /\ pc' = "condemn" /\ job' = [job EXCEPT !.err = TRUE]
       /\ mem' = newMem /\ UNCHANGED obs
  ELSE End
CheckpointFailed(newMem) ==
  IF job.why = Drain
  THEN /\ pc' = "condemn" /\ job' = [job EXCEPT !.err = TRUE]
       /\ mem' = newMem /\ UNCHANGED obs
  ELSE End

(* The machine after CreateSnapshot: paused for a suspend, resumed for a   *)
(* periodic checkpoint.  Its dirty-page tracking starts again.             *)
Snapshotted(u, newBase) ==
  [vm EXCEPT ![u].state = IF leavePaused(job.why) THEN "paused" ELSE "running",
             ![u].base = newBase,
             ![u].ahead = ~leavePaused(job.why)]

(* A snapshot that is not stored: Firecracker refused it and the machine   *)
(* stays paused; the copy of the writable layer failed and the machine     *)
(* goes on; or the store refused it.                                       *)
Unsaved(u) ==
  {[vm EXCEPT ![u].state = "paused"],
   [vm EXCEPT ![u].state = "running", ![u].base = 0, ![u].ahead = TRUE],
   Snapshotted(u, 0)}

StoredCheckpoint(u) ==
  [there |-> TRUE, parent |-> job.parent,
   base |-> IF job.parent = 0 THEN 0 ELSE vm[u].base,
   by |-> u, key |-> job.key]

CheckpointSession ==
  LET u == cachePod.uid
  IN  /\ pc = "checkpoint"
      /\ \/ /\ \/ ~Executing(u) /\ NoFault
               \/ Executing(u) /\ Fault("rpc")
            /\ CheckpointFailed(mem) /\ UNCHANGED <<vm, store>>
         \/ /\ Executing(u)
            /\ \/ /\ store[job.seq].there /\ NoFault    \* ErrAlreadyExists
                  /\ vm' = Snapshotted(u, 0)
               \/ Fault("save") /\ \E failed \in Unsaved(u) : vm' = failed
            /\ CheckpointFailed(mem) /\ UNCHANGED store
         \/ /\ Executing(u) /\ ~store[job.seq].there
            /\ vm' = Snapshotted(u, job.seq)
            /\ store' = [store EXCEPT ![job.seq] = StoredCheckpoint(u)]
            /\ \/ /\ pc' = "replace" /\ NoFault
                  /\ UNCHANGED <<mem, obs, job>>
               \/ CheckpointFailed(mem) /\ Fault("answer")
      /\ UNCHANGED <<sb, pod, node, kek, keks, claim>>

(* deleteCheckpointChain: best effort, so a failure leaves any part. *)
deleteCheckpointChain(ck) ==
  \/ NoFault /\ store' = Without(Chain(ck))
  \/ /\ Fault("delete")
     /\ \E done \in SUBSET Chain(ck) : store' = Without(done)

Superseded_Never(s) == FALSE
Superseded(s) == s.ck.ref # 0 /\ job.parent = 0

replaceCheckpoint ==
  /\ pc = "replace"
  /\ \/ Superseded(mem) /\ deleteCheckpointChain(mem.ck)
     \/ ~Superseded(mem) /\ NoFault /\ UNCHANGED store
  /\ pc' = "record"
  /\ UNCHANGED <<sb, pod, vm, node, kek, keks, mem, obs, job, claim>>

NewCheckpoint ==
  [ref |-> job.seq, seq |-> job.seq, pod |-> job.pod,
   parents |-> IF job.parent = 0 THEN <<>>
               ELSE Append(mem.ck.parents, job.parent),
   pending |-> FALSE, recovery |-> mem.ck.recovery]

(* A failed patch keeps the new checkpoint in memory only. *)
recordCheckpoint ==
  LET new == [mem EXCEPT !.ck = NewCheckpoint] IN
  /\ pc = "record"
  /\ \/ /\ NoFault
        /\ sb' = Merge(sb, mem, new)
        /\ IF job.why = Periodic THEN End
           ELSE pc' = "condemn" /\ mem' = sb' /\ UNCHANGED <<obs, job>>
     \/ /\ Fault("patch")
        /\ CheckpointFailed(new) /\ UNCHANGED sb
  /\ UNCHANGED <<pod, vm, node, store, kek, keks, claim>>

(* The suspend mark comes before the delete. *)
condemnPod ==
  /\ pc = "condemn"
  /\ \/ /\ obs.deleting
        /\ pc' = "suspended" /\ UNCHANGED <<pod, obs>>
     \/ /\ ~obs.deleting
        /\ pod' = IF pod.uid = 0 THEN pod ELSE [pod EXCEPT !.mark = TRUE]
        /\ pc' = "evict" /\ UNCHANGED obs
  /\ NoFault /\ UNCHANGED <<sb, vm, node, store, kek, keks, mem, job, claim>>

evictPod ==
  /\ pc = "evict"
  /\ DeletePod
  /\ pc' = "suspended"
  /\ NoFault /\ UNCHANGED <<sb, vm, node, store, kek, keks, mem, obs, job, claim>>

Suspended(s) ==
  [s EXCEPT !.phase = "Suspended", !.reason = job.why,
            !.ck.pending = s.ck.ref # 0 /\ (~job.err \/ durable)]

suspendSession ==
  /\ pc = "suspended"
  /\ PatchAndEnd(Suspended(mem))
  /\ UNCHANGED <<pod, vm, node, store, kek, keks, claim>>

------------------------------------------------------------------------------
(* restorePendingCheckpoint and the loss of a node. *)

restoreStillPending(ref) == sb.ck.pending /\ sb.ck.ref = ref

checkPending ==
  /\ pc = "load"
  /\ IF restoreStillPending(mem.ck.ref)
     THEN pc' = "restore" /\ UNCHANGED <<mem, obs, job>>
     ELSE End
  /\ NoFault /\ UNCHANGED objects

Loaded(u, st) == [vm EXCEPT ![u].state = st, ![u].from = mem.ck.ref,
                            ![u].base = 0]
Restored == /\ pc' = "consume" /\ job' = [job EXCEPT !.recovery = "resumed"]
            /\ UNCHANGED <<mem, obs>>
Refused == /\ pc' = "scrap" /\ job' = [job EXCEPT !.recovery = "restarted"]
           /\ UNCHANGED <<mem, obs>>

(* RestoreSessionCheckpoint and the node agent's restoreLauncher.  A       *)
(* machine that waits loads the chain; the gate may refuse it afterwards.  *)
(* A machine that runs has its writable layer overwritten: one that loaded *)
(* before still has its evidence file, so the call succeeds; one that      *)
(* booted never answers.                                                   *)
RestoreSessionCheckpoint ==
  LET u == cachePod.uid
      opens == /\ Up(u) /\ vm[u].state # "pending"
               /\ mem.ck.ref # 0 /\ Readable(Chain(mem.ck))
  IN  /\ pc = "restore"
      /\ \/ /\ ~opens /\ NoFault /\ Refused /\ UNCHANGED vm
         \/ /\ opens /\ Fault("rpc") /\ Refused /\ UNCHANGED vm
         \/ /\ opens /\ vm[u].state = "waiting"
            /\ \/ Restored /\ NoFault /\ vm' = Loaded(u, "running")
               \/ Refused /\ NoFault /\ vm' = Loaded(u, "paused")
               \/ Refused /\ Fault("answer") /\ vm' = Loaded(u, "running")
         \/ /\ opens /\ vm[u].state # "waiting"
            /\ vm' = [vm EXCEPT ![u].torn = TRUE]
            /\ NoFault
            /\ IF vm[u].from # 0 THEN Restored ELSE Refused
      /\ UNCHANGED <<sb, pod, node, store, kek, keks, claim>>

deleteSessionPod ==
  /\ pc = "scrap"
  /\ IF cachePod.uid # 0 /\ ~cachePod.deleting THEN DeletePod
     ELSE UNCHANGED pod
  /\ pc' = "consume"
  /\ NoFault /\ UNCHANGED <<sb, vm, node, store, kek, keks, mem, obs, job, claim>>

consumeCheckpoint ==
  /\ pc = "consume"
  /\ deleteCheckpointChain(mem.ck)
  /\ pc' = "recovered"
  /\ UNCHANGED <<sb, pod, vm, node, kek, keks, mem, obs, job, claim>>

Consumed_KeepsRef(s) == [s.ck EXCEPT !.pending = FALSE, !.recovery = job.recovery]
Consumed(s) ==
  [NoCheckpoint EXCEPT !.seq = s.ck.seq, !.recovery = job.recovery]

recordRecovery ==
  /\ pc = "recovered"
  /\ PatchAndEnd([mem EXCEPT !.ck = Consumed(mem)])
  /\ UNCHANGED <<pod, vm, node, store, kek, keks, claim>>

markLost ==
  /\ pc = "lost"
  /\ \/ /\ NeedsPendingMark(mem)
        /\ Patch([mem EXCEPT !.ck.pending = TRUE],
                 pc' = "force" /\ UNCHANGED job)
     \/ /\ ~NeedsPendingMark(mem)
        /\ pc' = "force" /\ NoFault /\ UNCHANGED <<sb, mem, obs, job>>
  /\ UNCHANGED <<pod, vm, node, store, kek, keks, claim>>

(* A delete with no grace removes the Pod object at once; nothing stops    *)
(* the machine on the lost node.                                           *)
resumeAfterNodeLoss ==
  /\ pc = "force"
  /\ pod' = NoPod
  /\ End /\ NoFault /\ UNCHANGED <<sb, vm, node, store, kek, keks, claim>>

------------------------------------------------------------------------------
(* The steps after the checkpoint machine: restart, pause, resume. *)

sessionPodEnded(p) == p.phase = "Ended" /\ ~p.deleting
WantsPause(s) == s.want = "Paused" /\ s.phase = "Running"
WantsResume(s) == s.want = "Running" /\ s.phase = "Paused"

restartExitedSession ==
  /\ pc = "rest" /\ sessionPodEnded(obs)
  /\ \/ /\ mem.ck.ref = 0
        /\ Patch([mem EXCEPT !.ck.recovery = "restarted"],
                 pc' = "drop" /\ UNCHANGED job)
     \/ /\ mem.ck.ref # 0
        /\ pc' = "drop" /\ NoFault /\ UNCHANGED <<sb, mem, obs, job>>
  /\ UNCHANGED <<pod, vm, node, store, kek, keks, claim>>

dropExitedPod ==
  /\ pc = "drop"
  /\ DeletePod
  /\ End /\ NoFault /\ UNCHANGED <<sb, vm, node, store, kek, keks, claim>>

(* Pause and Resume are node-agent calls; the phase follows in a patch. *)
reconcilePhase3Lifecycle ==
  /\ pc = "rest" /\ ~sessionPodEnded(obs)
  /\ \/ /\ ~WantsPause(mem) /\ ~WantsResume(mem)
        /\ End /\ UNCHANGED vm /\ NoFault
     \/ /\ WantsPause(mem) \/ WantsResume(mem)
        /\ \/ ~Executing(cachePod.uid) /\ NoFault
           \/ Executing(cachePod.uid) /\ Fault("rpc")
        /\ End /\ UNCHANGED vm
     \/ /\ WantsPause(mem) /\ Executing(cachePod.uid)
        /\ vm' = [vm EXCEPT ![cachePod.uid].state = "paused"]
        /\ pc' = "paused" /\ NoFault /\ UNCHANGED <<mem, obs, job>>
     \/ /\ WantsResume(mem) /\ Executing(cachePod.uid)
        /\ vm' = [vm EXCEPT ![cachePod.uid].state = "running",
                            ![cachePod.uid].ahead = TRUE]
        /\ pc' = "resumed" /\ NoFault /\ UNCHANGED <<mem, obs, job>>
  /\ UNCHANGED <<sb, pod, node, store, kek, keks, claim>>

patchPhase ==
  /\ pc \in {"paused", "resumed"}
  /\ PatchAndEnd(IF pc = "paused" THEN WithPhase(mem, "Paused", "UserPaused")
                 ELSE WithPhase(mem, "Running", ""))
  /\ UNCHANGED <<pod, vm, node, store, kek, keks, claim>>

------------------------------------------------------------------------------
(* Teardown of a deleted session. *)

(* The key goes first.  A failed delete is only logged. *)
EraseKey_Keeps == UNCHANGED kek
EraseKey == kek' = 0

teardownSessionCheckpoint ==
  /\ pc = "erase"
  /\ \/ NoFault /\ EraseKey
     \/ kek # 0 /\ Fault("key") /\ UNCHANGED kek
  /\ pc' = "purge"
  /\ UNCHANGED <<sb, pod, vm, node, store, keks, mem, obs, job, claim>>

purgeCheckpoints ==
  /\ pc = "purge"
  /\ deleteCheckpointChain(mem.ck)
  /\ pc' = "teardownPod"
  /\ UNCHANGED <<sb, pod, vm, node, kek, keks, mem, obs, job, claim>>

teardownPod ==
  /\ pc = "teardownPod"
  /\ IF cachePod.uid # 0 /\ ~cachePod.deleting THEN DeletePod
     ELSE UNCHANGED pod
  /\ pc' = "release"
  /\ NoFault /\ UNCHANGED <<sb, vm, node, store, kek, keks, mem, obs, job, claim>>

(* A reconcile that deletes the claim leaves the rest to the next one.     *)
deleteClaim ==
  /\ pc = "release" /\ claim
  /\ claim' = FALSE
  /\ End /\ NoFault /\ UNCHANGED <<sb, pod, vm, node, store, kek, keks>>

releaseFinalizer ==
  /\ pc = "release" /\ ~claim
  /\ sb' = NoSandbox
  /\ End /\ NoFault /\ UNCHANGED <<pod, vm, node, store, kek, keks, claim>>

Reconcile ==
  \/ Begin \/ recycleIfExpired \/ handleMissingPod \/ markPending
  \/ ensureWorkspacePVC \/ createPod
  \/ hold \/ deriveStatus \/ reconcileSessionCheckpoint
  \/ takeCheckpoint \/ CheckpointSession \/ replaceCheckpoint
  \/ recordCheckpoint \/ condemnPod \/ evictPod \/ suspendSession
  \/ checkPending \/ RestoreSessionCheckpoint \/ deleteSessionPod
  \/ consumeCheckpoint \/ recordRecovery \/ markLost \/ resumeAfterNodeLoss
  \/ restartExitedSession \/ dropExitedPod \/ reconcilePhase3Lifecycle
  \/ patchPhase
  \/ teardownSessionCheckpoint \/ purgeCheckpoints \/ teardownPod
  \/ deleteClaim \/ releaseFinalizer

------------------------------------------------------------------------------
(* Callers, the kubelet, the nodes, the garbage collector. *)

Disrupt ==
  disruptions < MaxDisruptions /\ disruptions' = disruptions + 1

SetWant(w) ==
  /\ sb.live /\ ~sb.deleting /\ sb.want # w
  /\ sb' = [sb EXCEPT !.want = w]
  /\ NoFault /\ UNCHANGED <<pod, vm, node, store, kek, keks, rec, claim>>

DeleteSandbox ==
  /\ sb.live /\ ~sb.deleting
  /\ sb' = [sb EXCEPT !.deleting = TRUE]
  /\ NoFault /\ UNCHANGED <<pod, vm, node, store, kek, keks, rec, claim>>

(* The launcher of a Pod created for a restore waits for the checkpoint. *)
PodStarts ==
  /\ pod.uid # 0 /\ pod.phase = "Pending" /\ ~pod.deleting
  /\ pod' = [pod EXCEPT !.phase = "Running"]
  /\ vm' = [vm EXCEPT ![pod.uid].state =
                         IF pod.restore THEN "waiting" ELSE "running"]
  /\ NoFault /\ UNCHANGED <<sb, node, store, kek, keks, rec, claim>>

MachineExits(u) ==
  /\ Disrupt
  /\ vm[u].state \in {"waiting", "running", "paused"}
  /\ vm' = [vm EXCEPT ![u].state = "dead"]
  /\ NoFault /\ UNCHANGED <<sb, pod, node, store, kek, keks, rec, claim>>

(* The kubelet reports the exit and the readiness probe, which the guest   *)
(* agent of a paused machine does not answer.                              *)
KubeletReports ==
  /\ pod.uid # 0 /\ pod.phase = "Running" /\ node[pod.uid] # "lost"
  /\ pod' = [pod EXCEPT !.ready = vm[pod.uid].state = "running",
                        !.phase = IF vm[pod.uid].state = "dead" THEN "Ended"
                                  ELSE @]
  /\ pod' # pod
  /\ NoFault /\ UNCHANGED <<sb, vm, node, store, kek, keks, rec, claim>>

EvictPod ==
  /\ Disrupt
  /\ pod.uid # 0 /\ ~pod.deleting
  /\ pod' = [pod EXCEPT !.deleting = TRUE]
  /\ NoFault /\ UNCHANGED <<sb, vm, node, store, kek, keks, rec, claim>>

PodStops ==
  /\ pod.uid # 0 /\ pod.deleting /\ node[pod.uid] # "lost"
  /\ pod' = NoPod
  /\ vm' = [vm EXCEPT ![pod.uid].state = "dead"]
  /\ NoFault /\ UNCHANGED <<sb, node, store, kek, keks, rec, claim>>

NodeChanges(u, st) ==
  /\ Disrupt
  /\ pod.uid = u /\ pod.phase # "Pending"
  /\ <<node[u], st>> \in {<<"ready", "cordoned">>, <<"ready", "lost">>,
                          <<"cordoned", "lost">>}
  /\ node' = [node EXCEPT ![u] = st]
  /\ NoFault /\ UNCHANGED <<sb, pod, vm, store, kek, keks, rec, claim>>

(* The kubelet of a node that returns stops a machine with no Pod. *)
NodeReturns(u) ==
  /\ node[u] = "lost"
  /\ node' = [node EXCEPT ![u] = "ready"]
  /\ vm' = IF pod.uid = u THEN vm ELSE [vm EXCEPT ![u].state = "dead"]
  /\ NoFault /\ UNCHANGED <<sb, pod, store, kek, keks, rec, claim>>

(* The objects that a removed Sandbox owned. *)
CollectOwned ==
  /\ ~sb.live /\ (kek # 0 \/ (pod.uid # 0 /\ ~pod.deleting))
  /\ kek' = 0 /\ DeletePod
  /\ NoFault /\ UNCHANGED <<sb, vm, node, store, keks, rec, claim>>

World ==
  \/ \E w \in Wants : SetWant(w)
  \/ DeleteSandbox \/ PodStarts \/ KubeletReports \/ PodStops \/ CollectOwned
  \/ \E u \in Uids : NodeReturns(u)

Disruption ==
  \/ EvictPod
  \/ \E u \in Uids : MachineExits(u)
  \/ \E u \in Uids, st \in {"cordoned", "lost"} : NodeChanges(u, st)

(* The operator dies, and starts again with nothing in memory. *)
Crash ==
  /\ pc # "idle" /\ Fault("crash")
  /\ End /\ UNCHANGED objects

(* The caches follow the objects, or miss changes for a while (the         *)
(* failure "lag").  Bound on staleness: one reconcile may start on caches  *)
(* that lag; the next one starts after they caught up.                     *)
CachesFollow ==
  /\ lagging' = IF pc = "idle" /\ pc' # "idle" /\ lagging # {}
                THEN lagging \cup {"read"} ELSE lagging
  /\ cacheSb' = IF "sb" \in lagging THEN cacheSb ELSE sb'
  /\ cachePod' = IF "pod" \in lagging THEN cachePod ELSE pod'
  /\ UNCHANGED missed

Changed == (IF sb' # sb THEN {"sb"} ELSE {}) \cup (IF pod' # pod THEN {"pod"} ELSE {})

CachesMiss ==
  /\ lagging \subseteq {"sb", "pod"} /\ Changed \ lagging # {}
  /\ \/ lagging # {}
     \/ ~missed /\ "lag" \in FaultKinds /\ Cardinality(happened') < MaxFaults
  /\ missed' = TRUE
  /\ lagging' = lagging \cup Changed
  /\ UNCHANGED <<cacheSb, cachePod>>

CatchUp ==
  /\ lagging # {} /\ lagging' = {}
  /\ cacheSb' = sb /\ cachePod' = pod
  /\ NoFault /\ UNCHANGED <<objects, rec, missed, disruptions>>

Init ==
  /\ durable \in Durables
  /\ sb = NewSandbox /\ pod = NoPod
  /\ vm = [u \in Uids |-> NoMachine] /\ node = [u \in Uids |-> "ready"]
  /\ store = [r \in Refs |-> NoObject] /\ kek = 0 /\ keks = 0
  /\ claim = FALSE
  /\ pc = "idle" /\ mem = NoSandbox /\ obs = NoPod /\ job = NoJob
  /\ cacheSb = sb /\ cachePod = pod /\ lagging = {}
  /\ happened = {} /\ missed = FALSE /\ disruptions = 0

Step ==
  \/ (Reconcile \/ World \/ Crash) /\ UNCHANGED disruptions
  \/ Disruption

Next ==
  /\ \/ Step /\ (CachesFollow \/ CachesMiss)
     \/ CatchUp
  /\ UNCHANGED durable

Spec == Init /\ [][Next]_vars

------------------------------------------------------------------------------
(* Properties. *)

CheckpointType ==
  [ref : 0 .. MaxSeq, seq : 0 .. MaxSeq, pod : 0 .. MaxPods,
   parents : Seq(Refs), pending : BOOLEAN,
   recovery : {"none", "resumed", "restarted"}]
SandboxType ==
  [live : BOOLEAN, deleting : BOOLEAN,
   want : {"Running", "Paused", "Suspended"},
   phase : {"Pending", "Running", "Paused", "Suspended"},
   reason : {"", "SessionVMRestarting", "UserPaused", Drain} \cup Suspends,
   ck : CheckpointType]
PodType ==
  [uid : 0 .. MaxPods, phase : {"Pending", "Running", "Ended"},
   ready : BOOLEAN, deleting : BOOLEAN, mark : BOOLEAN, restore : BOOLEAN]
MachineType ==
  [state : {"none", "pending", "waiting", "running", "paused", "dead"},
   from : 0 .. MaxSeq, base : 0 .. MaxSeq, ahead : BOOLEAN, torn : BOOLEAN]
ObjectType ==
  [there : BOOLEAN, parent : 0 .. MaxSeq, base : 0 .. MaxSeq,
   by : 0 .. MaxPods, key : 0 .. MaxKeks]
JobType ==
  [why : {"", Drain, Periodic} \cup Suspends, seq : 0 .. MaxSeq,
   parent : 0 .. MaxSeq, pod : 0 .. MaxPods, key : 0 .. MaxKeks,
   err : BOOLEAN, recovery : {"none", "resumed", "restarted"}]

(* Every variable has its type; a diff chain (Parents of the checkpoint    *)
(* status) never grows past maxDiffChain.                                  *)
TypeOK ==
  /\ durable \in Durables
  /\ {sb, mem, cacheSb} \subseteq SandboxType
  /\ {pod, obs, cachePod} \subseteq PodType
  /\ vm \in [Uids -> MachineType]
  /\ node \in [Uids -> {"ready", "cordoned", "lost"}]
  /\ store \in [Refs -> ObjectType]
  /\ kek \in 0 .. MaxKeks /\ keks \in 0 .. MaxKeks
  /\ claim \in BOOLEAN
  /\ job \in JobType
  /\ pc \in {"idle", "missing", "pending", "create", "createPod", "derive", "decide",
             "key", "checkpoint", "replace", "record", "condemn", "evict",
             "suspended", "load", "restore", "scrap", "consume", "recovered",
             "lost", "force", "rest", "drop", "paused", "resumed", "erase",
             "purge", "teardownPod", "release"}
  /\ lagging \subseteq {"sb", "pod", "read"} /\ happened \subseteq FaultKinds
  /\ missed \in BOOLEAN /\ disruptions \in 0 .. MaxDisruptions
  /\ Len(sb.ck.parents) <= MaxDiffChain

Spared(kinds) == Occurred \cap kinds = {}

(* restorePendingCheckpoint records that it consumed the checkpoint, or at *)
(* least removed it, unless the operator died in between or both failed.   *)
ConsumptionSticks ==
  Spared({"crash"}) /\ (Spared({"patch"}) \/ Spared({"delete"}))

(* SandboxCheckpointStatus: a restore is attempted at most once per        *)
(* checkpoint.  No two machines ever ran from one; restorePendingCheckpoint*)
(* loads only into a machine that waits for it, so that it overwrites the  *)
(* writable layer of none that runs, unless a stale cache hid the          *)
(* checkpoint from createPod; and restoreDue never gives a checkpoint back *)
(* to the Pod that wrote it, also when a lost node returns.                *)
RestoredOnce ==
  /\ [](ConsumptionSticks =>
          \A u, v \in Uids : vm[u].from # 0 /\ vm[u].from = vm[v].from => u = v)
  /\ [](ConsumptionSticks /\ Spared({"lag"}) => \A u \in Uids : ~vm[u].torn)
  /\ [][\A u \in Uids :
          pc = "restore" /\ pc' # pc /\ vm'[u] # vm[u] => store[mem.ck.ref].by # u]_vars

(* suspendSession: a session suspended by its user, for idleness or at the *)
(* pause cap has a checkpoint of the last state of its machine.  Every     *)
(* object of the chain is in the store under the live key, and the machine *)
(* has not run since, so its workspace is not ahead of its memory.  Only a *)
(* reconcile on stale caches can still run the condemned machine on.       *)
SuspendKeepsState ==
  /\ sb.live /\ ~sb.deleting
  /\ sb.phase = "Suspended" /\ sb.reason \in Suspends /\ Spared({"lag"})
  => /\ sb.ck.pending /\ sb.ck.ref # 0
     /\ Readable(Chain(sb.ck))
     /\ ~vm[sb.ck.pod].ahead

(* SandboxCheckpointStatus: at most one live checkpoint.  Between          *)
(* reconciles the stored objects are exactly the chain that the status     *)
(* names: none is leaked and none that a restore needs is missing.  What   *)
(* breaks it is a write whose outcome the operator does not learn or       *)
(* record: a crash, a lost answer, a failed patch or delete.               *)
StoredIsNamed ==
  /\ sb.live /\ ~sb.deleting /\ pc = "idle"
  /\ Spared({"crash", "answer", "patch", "delete"})
  => {r \in Refs : store[r].there} = Chain(sb.ck)

(* teardownSessionCheckpoint, crypto-erase: once the Sandbox is gone the   *)
(* session key opens no checkpoint that is left in the store.  The delete  *)
(* of the key is best effort; the teardown takes two reconciles because of *)
(* the claim, and the second one repairs a delete that failed in the       *)
(* first.                                                                  *)
Erased ==
  ~sb.live => \A r \in Refs : store[r].there => kek = 0 \/ store[r].key # kek

(* launcher_frame.go: the memory of a stored diff holds the pages that     *)
(* changed since the parent that it names.                                 *)
DiffCountsFromParent ==
  \A r \in Refs : store[r].there => store[r].base = store[r].parent

(* The same, when every snapshot that was taken was also stored and no     *)
(* reconcile ran on stale caches.                                          *)
DiffSound == Spared({"save", "lag"}) => DiffCountsFromParent
=============================================================================
