---------------------- MODULE SandboxControllerProofs ----------------------
(* Theorems about SandboxController, for every value of its constants. *)
EXTENDS SandboxController, TLAPS

------------------------------------------------------------------------------
(* What the status derivation returns is a status. *)

(* The records that stand for a missing object have their types. *)
LEMMA SpecsExist == NoSandbox \in Sandboxes /\ NoPod \in Pods /\ NoStatus \in Statuses
  <1>1. NoStatus \in Statuses
    BY Zenon DEF NoStatus, Statuses, Phases, Reasons, PendingReasons, Times, Unset
  <1>2. (CHOOSE s \in Specs : TRUE) \in Specs
    BY ConstantsAssumption, Zenon
  <1>3. NoSandbox \in Sandboxes
    BY <1>1, <1>2, Zenon DEF NoSandbox, Sandboxes, Times, Unset
  <1>4. NoPod \in Pods
    BY Zenon DEF NoPod, Pods, Times, Unset
  <1> QED BY <1>1, <1>3, <1>4, Zenon

(* setPhase returns a status. *)
LEMMA setPhaseType ==
  ASSUME now \in Nat, NEW st \in Statuses, NEW phase \in Phases, NEW reason \in Reasons
  PROVE  setPhase(st, phase, reason) \in Statuses
  BY Zenon DEF setPhase, Statuses, Times

(* Recording the start of a Pod keeps the type of a status. *)
LEMMA WithStartType ==
  ASSUME NEW st \in Statuses, NEW p \in Pods
  PROVE  WithStart(st, p) \in Statuses
  BY Zenon DEF WithStart, Statuses, Pods

(* What the Pod says is a status. *)
LEMMA FromPodType ==
  ASSUME now \in Nat, NEW s \in Sandboxes, NEW p \in Pods
  PROVE  fromPodPhase(s, p) \in Statuses
  <1> DEFINE ps == {"", "Pending", "Running", "Failed", "Completed"}
             rs == {"", "Timeout", "ImagePullFailure", "ContainerExitedNonZero"}
  <1>1. s.st \in Statuses
    BY Zenon DEF Sandboxes
  <1>2. ps \subseteq Phases /\ rs \subseteq Reasons
    BY Zenon DEF Phases, Terminal, Reasons, PendingReasons, failedPodDeletes
  <1>3. \A st \in Statuses, ph \in ps, r \in rs : setPhase(st, ph, r) \in Statuses
    BY <1>2, setPhaseType, Zenon
  <1>4. derivedRunning(s, p) \in Statuses
    BY <1>1, <1>3, WithStartType, Zenon DEF derivedRunning
  <1>5. CASE p.phase = "Succeeded" BY <1>5, <1>1, <1>3, WithStartType, Zenon DEF fromPodPhase
  <1>6. CASE p.phase = "Failed" BY <1>6, <1>1, <1>3, WithStartType, Zenon DEF fromPodPhase
  <1>7. CASE p.phase = "Running" BY <1>7, <1>4, Zenon DEF fromPodPhase
  <1>8. CASE p.phase = "Pending" BY <1>8, <1>1, <1>3, Zenon DEF fromPodPhase
  <1> QED BY <1>5, <1>6, <1>7, <1>8, Zenon DEF Pods, Ended

(* status.Derive returns a status, whatever the Pod. *)
LEMMA DeriveType ==
  ASSUME now \in Nat, NEW s \in Sandboxes, NEW p \in Pods
  PROVE  Derive(s, p) \in Statuses
  <1> DEFINE ps == {"Pending", "Failed"}
             rs == {"Timeout", "SessionVMRestarting"}
  <1>1. s.st \in Statuses
    BY Zenon DEF Sandboxes
  <1>2. ps \subseteq Phases /\ rs \subseteq Reasons
    BY Zenon DEF Phases, Terminal, Reasons, PendingReasons, failedPodDeletes
  <1>3. \A st \in Statuses, ph \in ps, r \in rs : setPhase(st, ph, r) \in Statuses
    BY <1>2, setPhaseType, Zenon
  <1> QED BY <1>1, <1>3, FromPodType, Zenon DEF Derive

(* The status the reconciler builds from a derived one is a status. *)
LEMMA StatusFromType ==
  ASSUME now \in Nat, mem \in Sandboxes, NEW st \in Statuses
  PROVE  StatusFrom(st) \in Statuses
  <1>1. holdUntilRestored(mem, st) \in Statuses
    BY Zenon DEF holdUntilRestored, Statuses, Reasons, PendingReasons
  <1>2. \A u \in Statuses : ApplySessionIdlePolicy(mem, u) \in Statuses
    BY setPhaseType, Zenon
    DEF ApplySessionIdlePolicy, Phases, Terminal, Reasons, failedPodDeletes
  <1>3. \A u \in Statuses : ApplyPausePolicy(mem, u) \in Statuses
    BY setPhaseType, Zenon DEF ApplyPausePolicy, Phases, Terminal, Reasons, failedPodDeletes
  <1> QED BY <1>1, <1>2, <1>3, Zenon DEF StatusFrom

(* A merge patch of a status on a status is a status. *)
LEMMA MergeType ==
  ASSUME NEW a \in Statuses, NEW b \in Statuses, NEW c \in Statuses
  PROVE  MergeStatus(a, b, c) \in Statuses
  BY Zenon DEF MergeStatus, Statuses

------------------------------------------------------------------------------
(* How a reconcile step ends. *)

Control ==
  /\ queue \in BOOLEAN /\ wake \in Times
  /\ pc \in Steps \cup {"idle", "down"}
  /\ mem \in Sandboxes /\ obs \in Pods /\ des \in Statuses

(* A watch event keeps the type of the queue. *)
LEMMA NotifyType == Notify => queue' \in BOOLEAN
  BY Zenon DEF Notify

(* The end of a reconcile leaves the control state well typed. *)
LEMMA ReturnType ==
  ASSUME TypeOK, Return \/ ReturnErr \/ \E t \in Nat : RequeueAt(t)
  PROVE  Control'
  <1>1. queue' \in BOOLEAN
    BY NotifyType, Zenon DEF Return, ReturnErr, RequeueAt
  <1>2. wake' \in Times
    BY Zenon DEF Return, ReturnErr, RequeueAt, TypeOK, Times
  <1>3. Idle
    BY Zenon DEF Return, ReturnErr, RequeueAt
  <1> QED BY <1>1, <1>2, <1>3, SpecsExist, Zenon DEF Control, Idle

(* So does going on to the next step. *)
LEMMA GotoType ==
  ASSUME TypeOK, mem' \in Sandboxes, NEW step \in Steps, Goto(step)
  PROVE  Control'
  BY NotifyType, Zenon DEF Control, Goto, TypeOK

(* A status patch leaves a Sandbox. *)
LEMMA PatchType ==
  ASSUME TypeOK, NEW st \in Statuses, PatchStatus(st)
  PROVE  sb' \in Sandboxes /\ sb' = [sb EXCEPT !.st = sb'.st]
  <1> DEFINE m == MergeStatus(sb.st, mem.st, st)
  <1>1. m \in Statuses
    BY MergeType, Zenon DEF TypeOK, Sandboxes
  <1>2. sb' = [sb EXCEPT !.st = m]
    BY Zenon DEF PatchStatus
  <1> HIDE DEF m
  <1> QED BY <1>1, <1>2, Zenon DEF TypeOK, Sandboxes

(* So does a patch of phase and reason, pending or failed, and it changes  *)
(* nothing but the status.                                                 *)
LEMMA PatchReasonType ==
  ASSUME TypeOK, NEW reason \in Reasons,
         patchPendingStatus(reason) \/ patchFailedStatus(reason)
  PROVE  sb' \in Sandboxes /\ sb' = [sb EXCEPT !.st = sb'.st]
  <1> DEFINE p == [mem.st EXCEPT !.phase = "Pending", !.reason = reason, !.ltt = now]
             f == [mem.st EXCEPT !.phase = "Failed", !.reason = reason, !.ltt = now]
  <1>1. p \in Statuses /\ f \in Statuses
    <2>1. mem.st \in Statuses /\ now \in Times
      BY Zenon DEF TypeOK, Sandboxes, Times
    <2>2. "Pending" \in Phases /\ "Failed" \in Phases
      BY Zenon DEF Phases, Terminal
    <2>3. p \in Statuses BY <2>1, <2>2, Zenon DEF Statuses
    <2>4. f \in Statuses BY <2>1, <2>2, Zenon DEF Statuses
    <2> QED BY <2>3, <2>4, Zenon
  <1>2. CASE UNCHANGED sb
    BY <1>2, Zenon DEF TypeOK, Sandboxes
  <1>3. CASE PatchStatus(p)
    BY <1>1, <1>3, PatchType, Zenon
  <1>4. CASE PatchStatus(f)
    BY <1>1, <1>4, PatchType, Zenon
  <1> QED BY <1>2, <1>3, <1>4, Zenon DEF patchPendingStatus, patchFailedStatus

(* So does holding the Sandbox Pending, which also ends the reconcile. *)
LEMMA HoldPendingType ==
  ASSUME TypeOK, NEW reason \in PendingReasons, HoldPending(reason)
  PROVE  sb' \in Sandboxes /\ sb' = [sb EXCEPT !.st = sb'.st] /\ Control'
  <1>1. CASE patchPendingStatus(reason) /\ RequeueAt(now + Poll)
    <2>1. now + Poll \in Nat
      BY DEF TypeOK, Poll
    <2>2. reason \in Reasons
      BY Zenon DEF Reasons
    <2> QED BY <1>1, <2>1, <2>2, ReturnType, PatchReasonType, Zenon
  <1>2. CASE UNCHANGED sb /\ ReturnErr
    BY <1>2, ReturnType, Zenon DEF TypeOK, Sandboxes
  <1> QED BY <1>1, <1>2, Zenon DEF HoldPending

(* A delete leaves a Sandbox, or a name with none. *)
LEMMA DeletedType ==
  ASSUME NEW s \in Sandboxes PROVE Deleted(s) \in Sandboxes /\ Gone(s) \in Sandboxes
  <1>1. Gone(s) \in Sandboxes
    BY SpecsExist, Zenon DEF Gone, Sandboxes, Times, Unset
  <1>2. [s EXCEPT !.deleting = TRUE] \in Sandboxes
    BY Zenon DEF Sandboxes
  <1> QED BY <1>1, <1>2, Zenon DEF Deleted

(* A requeue for the next deadline leaves the control state well typed. *)
LEMMA RequeueForDeadlineType ==
  ASSUME TypeOK, NEW s \in Sandboxes, NEW st \in Statuses, RequeueForDeadline(s, st)
  PROVE  Control'
  <1>1. \A d \in LifecycleDeadlines(s, st) : d \in Int
    BY ConstantsAssumption DEF LifecycleDeadlines, Sandboxes, Statuses, Times, Unset,
       SessionIdleDeadline, LastSessionActivity, Later, PauseDeadline
  <1>2. \A d \in Int : Later(d, now + 1) \in Nat
    BY DEF Later, TypeOK
  <1> QED BY <1>1, <1>2, ReturnType, Zenon DEF RequeueForDeadline

------------------------------------------------------------------------------
(* Type correctness. *)

EnvTypes == now \in Nat /\ faults \in Nat /\ world \in Worlds

Claims == [live : BOOLEAN, gen : Nat, deleting : BOOLEAN]
Policies == [spec : {"none", "foreign", "desired"}, gen : Nat]

ObjTypes ==
  /\ sb \in Sandboxes /\ pod \in Pods /\ pvc \in Claims
  /\ netpol \in Policies /\ baseline \in BOOLEAN

(* TypeOK, in the parts an action keeps or changes together. *)
LEMMA TypeParts == (TypeOK <=> EnvTypes /\ ObjTypes /\ Control)
                   /\ (TypeOK' <=> EnvTypes' /\ ObjTypes' /\ Control')
  BY Zenon DEF TypeOK, EnvTypes, ObjTypes, Control, Claims, Policies

(* The steps of a reconcile keep the types. *)
LEMMA ReconcileType == TypeOK /\ ReconcileStep => TypeOK'
  <1> SUFFICES ASSUME TypeOK, ReconcileStep PROVE TypeOK'
    BY Zenon
  <1> USE TypeParts
  <1>1. CASE Begin
    <2>1. pc' \in Steps \cup {"idle"}
      BY <1>1, Zenon DEF Begin, Steps
    <2> QED BY <1>1, <2>1, SpecsExist, Zenon
            DEF Begin, others, env, objs, EnvTypes, ObjTypes, Control, Times
  <1>2. CASE AddFinalizer
    <2>1. EnvTypes' /\ ObjTypes'
      BY <1>2, Zenon DEF AddFinalizer, others, env, EnvTypes, ObjTypes, Sandboxes
    <2>2. CASE ReturnErr
      BY <2>1, <2>2, ReturnType, Zenon
    <2>3. CASE mem' = sb' /\ Goto("resolve")
      BY <2>1, <2>3, GotoType, Zenon DEF Steps, ObjTypes
    <2> QED BY <1>2, <2>2, <2>3, Zenon DEF AddFinalizer
  <1>3. CASE TeardownPod
    <2>1. EnvTypes' /\ ObjTypes' /\ mem' \in Sandboxes
      BY <1>3, Zenon DEF TeardownPod, others, env, EnvTypes, ObjTypes, Control, Pods
    <2> QED BY <1>3, <2>1, GotoType, Zenon DEF TeardownPod, Steps
  <1>4. CASE TeardownPVC
    <2>1. EnvTypes' /\ ObjTypes'
      BY <1>4, DeletedType, Zenon DEF TeardownPVC, others, env, EnvTypes, ObjTypes, Claims
    <2>2. now + Poll \in Nat
      BY DEF EnvTypes, Poll
    <2> QED BY <1>4, <2>1, <2>2, ReturnType, Zenon DEF TeardownPVC
  <1>5. CASE reapExpiredEphemeral
    <2>1. EnvTypes' /\ ObjTypes'
      BY <1>5, DeletedType, Zenon DEF reapExpiredEphemeral, others, env, EnvTypes, ObjTypes
    <2>2. /\ now + Retention \in Nat
          /\ mem.st.ltt # Unset => mem.st.ltt + Retention \in Nat
      BY ConstantsAssumption DEF EnvTypes, Control, Sandboxes, Statuses, Times
    <2> QED BY <1>5, <2>1, <2>2, ReturnType, Zenon DEF reapExpiredEphemeral
  <1>6. CASE Resolve
    <2>1. \A r \in PendingReasons : HoldPending(r) => sb' \in Sandboxes /\ Control'
      BY HoldPendingType, Zenon
    <2>2. handleUnresolvableClass => sb' \in Sandboxes /\ Control'
      <3>1. "ClassNotFound" \in PendingReasons /\ "ClassNotFound" \in Reasons
        BY Zenon DEF PendingReasons, Reasons
      <3>2. mem.created + Grace + OrphanRetention \in Nat
        BY ConstantsAssumption DEF Control, Sandboxes
      <3> QED BY <2>1, <3>1, <3>2, ReturnType, PatchReasonType, DeletedType, Zenon
              DEF handleUnresolvableClass, ObjTypes
    <2>3. UNCHANGED sb /\ ToPod => sb' \in Sandboxes /\ Control'
      <3>1. ASSUME UNCHANGED sb, ToPod, ~Return PROVE Control'
        BY <3>1, NotifyType, Zenon DEF ToPod, Control, ObjTypes, Steps
      <3> QED BY <3>1, ReturnType, Zenon DEF ObjTypes
    <2>4. sb' \in Sandboxes /\ Control'
      BY <1>6, <2>1, <2>2, <2>3, Zenon DEF Resolve, PendingReasons
    <2> QED BY <1>6, <2>4, Zenon DEF Resolve, others, env, EnvTypes, ObjTypes
  <1>7. CASE FailBackend
    <2> DEFINE st == [mem.st EXCEPT !.phase = "Failed", !.reason = "UnsupportedBackend"]
    <2>1. st \in Statuses
      <3>1. mem.st \in Statuses
        BY Zenon DEF Control, Sandboxes
      <3>2. "Failed" \in Phases /\ "UnsupportedBackend" \in Reasons
        BY Zenon DEF Phases, Terminal, Reasons
      <3> QED BY <3>1, <3>2, Zenon DEF Statuses
    <2>2. sb' \in Sandboxes
      BY <1>7, <2>1, PatchType, Zenon DEF FailBackend, ObjTypes
    <2> QED BY <1>7, <2>2, ReturnType, Zenon DEF FailBackend, others, env, EnvTypes, ObjTypes
  <1>8. CASE RecordBackend
    <2> DEFINE st == [mem.st EXCEPT !.runtime = TRUE]
    <2>1. st \in Statuses /\ [mem EXCEPT !.st.runtime = TRUE] \in Sandboxes
      BY Zenon DEF Control, Sandboxes, Statuses
    <2>2. sb' \in Sandboxes /\ mem' \in Sandboxes
      BY <1>8, <2>1, PatchType, Zenon DEF RecordBackend, ObjTypes, Control
    <2>3. faults' \in Nat
      BY <1>8 DEF RecordBackend, EnvTypes
    <2> QED BY <1>8, <2>2, <2>3, GotoType, Zenon DEF RecordBackend, EnvTypes, ObjTypes, Steps
  <1>9. CASE EnsureBaseline
    BY <1>9, GotoType, Zenon DEF EnsureBaseline, others, env, EnvTypes, ObjTypes, Control, Steps
  <1>10. CASE ApplyPolicy
    <2>1. netpol' \in Policies
      BY <1>10, Zenon DEF ApplyPolicy, AppliedPolicy, Policies, ObjTypes, Control, Sandboxes
    <2>2. Control'
      BY <1>10, GotoType, Zenon DEF ApplyPolicy, AfterPolicies, Control, Steps
    <2> QED BY <1>10, <2>1, <2>2, Zenon DEF ApplyPolicy, others, env, EnvTypes, ObjTypes
  <1>11. CASE EnsureWorkspacePVC
    <2>0. pvc \in Claims /\ mem.gen \in Nat
      BY Zenon DEF ObjTypes, Control, Sandboxes
    <2>1. pvc' \in Claims
      <3>1. CASE UNCHANGED pvc BY <2>0, <3>1, Zenon
      <3>2. CASE pvc' = [live |-> TRUE, gen |-> mem.gen, deleting |-> FALSE]
        BY <2>0, <3>2, Zenon DEF Claims
      <3> QED BY <1>11, <3>1, <3>2, Zenon DEF EnsureWorkspacePVC
    <2>2. Control'
      BY <1>11, GotoType, ReturnType, Zenon DEF EnsureWorkspacePVC, Control, Steps
    <2> QED BY <1>11, <2>1, <2>2, Zenon DEF EnsureWorkspacePVC, others, env, EnvTypes, ObjTypes
  <1>12. CASE WaitForLauncherDisk
    <2>1. "DiskBuilding" \in PendingReasons /\ "DiskBuildFailed" \in Reasons
      BY Zenon DEF PendingReasons, Reasons
    <2>2. sb' \in Sandboxes /\ Control'
      BY <1>12, <2>1, GotoType, ReturnType, HoldPendingType, PatchReasonType, Zenon
      DEF WaitForLauncherDisk, ObjTypes, Control, Steps
    <2> QED BY <1>12, <2>2, Zenon DEF WaitForLauncherDisk, others, env, EnvTypes, ObjTypes
  <1>13. CASE EnsureIdentity
    <2> DEFINE st == [mem.st EXCEPT !.identity = TRUE]
    <2>1. st \in Statuses
      BY Zenon DEF Control, Sandboxes, Statuses
    <2>2. sb' \in Sandboxes
      BY <1>13, <2>1, PatchType, Zenon DEF EnsureIdentity, ObjTypes
    <2>3. Control'
      BY <1>13, <2>2, GotoType, ReturnType, Zenon DEF EnsureIdentity, Control, Steps
    <2> QED BY <1>13, <2>2, <2>3, Zenon DEF EnsureIdentity, others, env, EnvTypes, ObjTypes
  <1>14. CASE CreatePod
    <2>0. now \in Nat /\ mem.gen \in Nat /\ pvc.gen \in Nat
          /\ mem.spec.snapshotRef \in BOOLEAN /\ pod \in Pods
      BY ConstantsAssumption, Zenon DEF EnvTypes, ObjTypes, Control, Sandboxes, Claims
    <2>1. pod' \in Pods
      <3>1. CASE pod' = NewPod
        <4> DEFINE m == IF mem.spec.session THEN pvc.gen ELSE 0
        <4>1. m \in Nat
          BY <2>0, Zenon
        <4>2. pod' = [NoPod EXCEPT !.live = TRUE, !.gen = mem.gen, !.created = now,
                                   !.restore = mem.spec.snapshotRef, !.mount = m]
          BY <3>1, Zenon DEF NewPod
        <4>3. pod' = [live |-> TRUE, gen |-> mem.gen, phase |-> "Pending",
                      ready |-> FALSE, deleting |-> FALSE,
                      restore |-> mem.spec.snapshotRef, loaded |-> "no",
                      vm |-> "running", created |-> now, start |-> Unset,
                      mount |-> m, pull |-> FALSE]
          BY <4>2, Zenon DEF NoPod
        <4>4. Unset \in Times
          BY Zenon DEF Times
        <4> HIDE DEF m
        <4> QED BY <2>0, <4>1, <4>3, <4>4, Zenon DEF Pods
      <3> QED BY <1>14, <2>0, <3>1, Zenon DEF CreatePod
    <2> QED BY <1>14, <2>1, ReturnType, Zenon DEF CreatePod, others, env, EnvTypes, ObjTypes
  <1>15. \A st \in Statuses : PatchDerived(st) => sb' \in Sandboxes /\ Control'
    <2> SUFFICES ASSUME NEW st \in Statuses, PatchDerived(st)
                 PROVE  sb' \in Sandboxes /\ Control'
      BY Zenon
    <2> DEFINE new == StatusFrom(st)
    <2>1. new \in Statuses
      BY StatusFromType, Zenon DEF EnvTypes, Control
    <2>2. sb' \in Sandboxes
      BY <2>1, PatchType, Zenon DEF PatchDerived, ObjTypes
    <2>3. CASE UNCHANGED sb /\ ReturnErr
      BY <2>2, <2>3, ReturnType, Zenon
    <2>4. CASE mem' \in {mem, sb'} /\ des' = new /\ pc' = "act" /\ Notify
               /\ UNCHANGED <<wake, obs>>
      BY <2>1, <2>2, <2>4, NotifyType, Zenon DEF Control, Steps
    <2> QED BY <2>2, <2>3, <2>4, Zenon DEF PatchDerived
  <1>16. CASE DeriveStatus
    <2> DEFINE st == Derive(mem, obs)
    <2>1. st \in Statuses
      BY DeriveType, Zenon DEF EnvTypes, Control
    <2>2. sb' \in Sandboxes /\ Control'
      <3>1. CASE PatchDerived(st)
        BY <3>1, <2>1, <1>15, Zenon
      <3>2. CASE UNCHANGED <<sb, mem, wake, obs>> /\ pc' = "restore" /\ des' = st /\ Notify
        BY <3>2, <2>1, NotifyType, Zenon DEF Control, ObjTypes, Steps
      <3> QED BY <1>16, <3>1, <3>2, Zenon DEF DeriveStatus
    <2> QED BY <1>16, <2>2, Zenon DEF DeriveStatus, others, env, EnvTypes, ObjTypes
  <1>17. CASE RestoreLauncher
    <2>1. pod' \in Pods /\ faults' \in Nat
      <3>1. pod \in Pods /\ faults \in Nat
        BY Zenon DEF ObjTypes, EnvTypes
      <3>2. \A l \in {"ok", "refused"}, v \in {"running", "paused"} :
              /\ [pod EXCEPT !.loaded = l] \in Pods
              /\ [pod EXCEPT !.loaded = l, !.vm = v] \in Pods
        BY <3>1, Zenon DEF Pods
      <3> QED BY <1>17, <3>1, <3>2 DEF RestoreLauncher
    <2>2. des' \in Statuses
      BY <1>17, Zenon DEF RestoreLauncher, restoreFailed, Control, Statuses, Phases, Terminal,
         Reasons, failedPodDeletes
    <2>3. pc' \in Steps
      BY <1>17, Zenon DEF RestoreLauncher, Steps
    <2> QED BY <1>17, <2>1, <2>2, <2>3, NotifyType, Zenon
            DEF RestoreLauncher, EnvTypes, ObjTypes, Control
  <1>18. CASE AnnotateRestored
    <2>1. sb' \in Sandboxes /\ mem' \in Sandboxes /\ faults' \in Nat
      <3>1. sb \in Sandboxes /\ mem \in Sandboxes /\ faults \in Nat
        BY Zenon DEF ObjTypes, EnvTypes, Control
      <3>2. \A s \in Sandboxes : [s EXCEPT !.restored = TRUE] \in Sandboxes
        BY Zenon DEF Sandboxes
      <3> QED BY <1>18, <3>1, <3>2 DEF AnnotateRestored
    <2>2. des' \in Statuses
      BY <1>18, Zenon DEF AnnotateRestored, restoreFailed, Control, Statuses, Phases, Terminal,
         Reasons
    <2> QED BY <1>18, <2>1, <2>2, NotifyType, Zenon
            DEF AnnotateRestored, EnvTypes, ObjTypes, Control, Steps
  <1>19. CASE PatchRestored
    BY <1>19, <1>15, Zenon DEF PatchRestored, others, env, EnvTypes, ObjTypes, Control
  <1>20. CASE RestartExitedSession
    <2>1. pod' \in Pods
      BY <1>20, Zenon DEF RestartExitedSession, DeletePod, ObjTypes, Pods
    <2> QED BY <1>20, <2>1, ReturnType, Zenon
            DEF RestartExitedSession, others, env, EnvTypes, ObjTypes
  <1>21. CASE PauseVM \/ ResumeVM
    <2>1. pod' \in Pods
      BY <1>21, ZenonT(30) DEF PauseVM, ResumeVM, ObjTypes, Pods
    <2>2. Control'
      BY <1>21, GotoType, ReturnType, Zenon DEF PauseVM, ResumeVM, Control, Steps
    <2> QED BY <1>21, <2>1, <2>2, Zenon DEF PauseVM, ResumeVM, others, env, EnvTypes, ObjTypes
  <1>22. CASE RecordPaused \/ RecordResumed
    <2>1. \A ph \in Phases, r \in Reasons, t \in Times :
            patchPhase(ph, r, t) => sb' \in Sandboxes
      <3> SUFFICES ASSUME NEW ph \in Phases, NEW r \in Reasons, NEW t \in Times,
                          patchPhase(ph, r, t)
                   PROVE  sb' \in Sandboxes
        BY Zenon
      <3>1. [mem.st EXCEPT !.phase = ph, !.reason = r, !.ltt = now, !.paused = t]
              \in Statuses
        BY Zenon DEF EnvTypes, Control, Sandboxes, Statuses, Times
      <3> QED BY <3>1, PatchType, Zenon DEF patchPhase
    <2>2. sb' \in Sandboxes
      BY <1>22, <2>1, Zenon DEF RecordPaused, RecordResumed, Phases, Reasons, PendingReasons,
         Times, Unset, EnvTypes, ObjTypes
    <2>3. Control'
      BY <1>22, RequeueForDeadlineType, ReturnType, Zenon
      DEF RecordPaused, RecordResumed, Control
    <2> QED BY <1>22, <2>2, <2>3, Zenon
            DEF RecordPaused, RecordResumed, others, env, EnvTypes, ObjTypes
  <1>23. CASE FinishPod
    <2>1. pod' \in Pods
      <3>1. pod \in Pods /\ [pod EXCEPT !.deleting = TRUE] \in Pods
        BY Zenon DEF ObjTypes, Pods
      <3> QED BY <1>23, <3>1, Zenon DEF FinishPod, DeletePod
    <2>2. Control'
      BY <1>23, RequeueForDeadlineType, Zenon DEF FinishPod, Control
    <2> QED BY <1>23, <2>1, <2>2, Zenon DEF FinishPod, others, env, EnvTypes, ObjTypes
  <1> QED BY <1>1, <1>2, <1>3, <1>4, <1>5, <1>6, <1>7, <1>8, <1>9, <1>10, <1>11, <1>12,
             <1>13, <1>14, <1>16, <1>17, <1>18, <1>19, <1>20, <1>21, <1>22, <1>23, Zenon
          DEF ReconcileStep

(* The operator process, the kubelet, the garbage collector, callers and   *)
(* administrators keep the types.                                          *)
LEMMA EnvironmentType == TypeOK /\ Environment => TypeOK'
  <1> SUFFICES ASSUME TypeOK, Environment PROVE TypeOK'
    BY Zenon
  <1> USE TypeParts
  <1>1. CASE Crash
    <2>1. EnvTypes'
      BY <1>1 DEF Crash, EnvTypes
    <2>2. ObjTypes'
      BY <1>1, Zenon DEF Crash, objs, ObjTypes
    <2>3. Control'
      BY <1>1, SpecsExist, Zenon DEF Crash, Control, Times
    <2> QED BY <2>1, <2>2, <2>3, Zenon
  <1>2. CASE Restart
    BY <1>2, Zenon DEF Restart, env, objs, EnvTypes, ObjTypes, Control
  <1>3. CASE Tick
    BY <1>3 DEF Tick, objs, rec, EnvTypes, ObjTypes, Control
  <1>4. CASE ApiError
    <2>1. EnvTypes' /\ ObjTypes'
      BY <1>4 DEF ApiError, objs, EnvTypes, ObjTypes
    <2> QED BY <1>4, <2>1, ReturnType, Zenon DEF ApiError
  <1>5. CASE PolicyNotReadable
    <2>1. netpol' \in Policies
      <3>1. netpol \in Policies /\ [spec |-> "desired", gen |-> mem.gen] \in Policies
        BY Zenon DEF ObjTypes, Control, Sandboxes, Policies
      <3> QED BY <1>5, <3>1, Zenon DEF PolicyNotReadable
    <2>2. now + Poll \in Nat /\ mem \in Sandboxes
      BY DEF EnvTypes, Poll, Control
    <2>3. Control'
      BY <1>5, <2>2, GotoType, ReturnType, Zenon DEF PolicyNotReadable, AfterPolicies, Steps
    <2> QED BY <1>5, <2>1, <2>3 DEF PolicyNotReadable, EnvTypes, ObjTypes
  <1>6. \A p \in Pods : Kubelet(p) => TypeOK'
    BY NotifyType, Zenon DEF Kubelet, env, rec, EnvTypes, ObjTypes, Control
  <1>7. CASE PodStarts
    <2>1. \A t \in pod.created .. now :
            [pod EXCEPT !.phase = "Running", !.start = t, !.pull = FALSE] \in Pods
      <3>1. pod \in Pods
        BY Zenon DEF ObjTypes
      <3>2. \A t \in pod.created .. now : t \in Times
        BY <3>1 DEF Pods, EnvTypes, Times
      <3> QED BY <3>1, <3>2, Zenon DEF Pods
    <2> QED BY <1>6, <1>7, <2>1, Zenon DEF PodStarts
  <1>8. CASE PodPullFails \/ PodReady \/ PodUnready \/ PodExits
    <2>1. /\ [pod EXCEPT !.pull = TRUE] \in Pods
          /\ [pod EXCEPT !.ready = TRUE] \in Pods
          /\ [pod EXCEPT !.ready = FALSE] \in Pods
      BY Zenon DEF ObjTypes, Pods
    <2>2. \A r \in Ended : [pod EXCEPT !.phase = r, !.ready = FALSE] \in Pods
      BY Zenon DEF ObjTypes, Pods
    <2> QED BY <1>6, <1>8, <2>1, <2>2, Zenon DEF PodPullFails, PodReady, PodUnready, PodExits
  <1>9. [pod EXCEPT !.deleting = TRUE] \in Pods
    BY Zenon DEF ObjTypes, Pods
  <1>10. CASE PodEvicted
    BY <1>9, <1>10, NotifyType DEF PodEvicted, rec, EnvTypes, ObjTypes, Control
  <1>11. CASE PodRemoved \/ CollectPod
    BY <1>6, <1>9, <1>11, SpecsExist, Zenon DEF PodRemoved, CollectPod
  <1>12. CASE PVCRemoved
    <2>1. pvc' \in Claims
      BY <1>12, Zenon DEF PVCRemoved, NoPVC, Claims
    <2> QED BY <1>12, <2>1, NotifyType, Zenon
            DEF PVCRemoved, env, rec, EnvTypes, ObjTypes, Control
  <1>13. CASE CollectPolicy
    BY <1>13, NotifyType, Zenon
    DEF CollectPolicy, NoPolicy, Policies, env, rec, EnvTypes, ObjTypes, Control
  <1>14. \A s \in Sandboxes : Caller(s) => TypeOK'
    BY NotifyType, Zenon DEF Caller, env, rec, EnvTypes, ObjTypes, Control
  <1>15. CASE DeleteSandbox
    BY <1>14, <1>15, DeletedType, Zenon DEF DeleteSandbox, ObjTypes
  <1>16. CASE CreateSandbox
    <2>1. \A s \in Specs : Fresh(sb.gen + 1, s) \in Sandboxes
      <3>1. sb.gen + 1 \in Nat /\ now \in Nat /\ Unset \in Times
        BY DEF Sandboxes, ObjTypes, EnvTypes, Times
      <3> QED BY <3>1, SpecsExist, Zenon DEF Fresh, Sandboxes
    <2> QED BY <1>14, <1>16, <2>1, Zenon DEF CreateSandbox
  <1>17. CASE SetDesiredState
    <2>1. \A w \in Wants : [sb EXCEPT !.want = w] \in Sandboxes
      BY ConstantsAssumption, Zenon DEF Sandboxes, ObjTypes
    <2> QED BY <1>14, <1>17, <2>1, Zenon DEF SetDesiredState
  <1>18. CASE StampActivity
    <2>1. [sb EXCEPT !.activity = now] \in Sandboxes
      BY Zenon DEF Sandboxes, ObjTypes, EnvTypes, Times
    <2> QED BY <1>14, <1>18, <2>1, Zenon DEF StampActivity
  <1>19. CASE ChangeWorld
    BY <1>19, Zenon DEF ChangeWorld, objs, rec, EnvTypes, ObjTypes, Control
  <1>20. CASE Tamper
    <2>1. netpol' \in Policies /\ baseline' \in BOOLEAN
      <3>1. netpol \in Policies /\ baseline \in BOOLEAN
        BY Zenon DEF ObjTypes
      <3>2. NoPolicy \in Policies /\ [spec |-> "foreign", gen |-> 0] \in Policies
        BY Zenon DEF NoPolicy, Policies
      <3> QED BY <1>20, <3>1, <3>2, Zenon DEF Tamper
    <2> QED BY <1>20, <2>1, NotifyType DEF Tamper, rec, EnvTypes, ObjTypes, Control
  <1> QED BY <1>1, <1>2, <1>3, <1>4, <1>5, <1>7, <1>8, <1>10, <1>11, <1>12, <1>13, <1>15,
             <1>16, <1>17, <1>18, <1>19, <1>20, Zenon
          DEF Environment

(* Every object and every in-memory copy keeps its type, for every set of  *)
(* specs, worlds and bounds: no path of Reconcile writes a phase, a reason *)
(* or a time outside what the API types declare.                           *)
THEOREM TypeCorrect == Spec => []TypeOK
  <1>1. Init => TypeOK
    <2>1. ASSUME Init, NEW s \in Specs PROVE Fresh(1, s) \in Sandboxes
      BY <2>1, SpecsExist, Zenon DEF Init, Fresh, Sandboxes, Times
    <2>2. ASSUME Init PROVE sb \in Sandboxes /\ world \in Worlds /\ faults \in Nat
      BY <2>1, <2>2, ConstantsAssumption, Zenon DEF Init
    <2>3. NoPVC \in Claims /\ NoPolicy \in Policies
      BY Zenon DEF NoPVC, Claims, NoPolicy, Policies
    <2>4. ASSUME Init PROVE EnvTypes /\ ObjTypes
      BY <2>2, <2>3, <2>4, SpecsExist, Zenon DEF Init, EnvTypes, ObjTypes
    <2>5. ASSUME Init PROVE Control
      BY <2>5, SpecsExist, Zenon DEF Init, Control, Times
    <2> QED BY <2>4, <2>5, TypeParts, Zenon
  <1>2. TypeOK /\ [Next]_vars => TypeOK'
    <2>1. TypeOK /\ UNCHANGED vars => TypeOK'
      BY Zenon DEF TypeOK, vars, env, objs, rec
    <2> QED BY <2>1, ReconcileType, EnvironmentType, Zenon DEF Next
  <1> QED BY <1>1, <1>2, PTL DEF Spec

------------------------------------------------------------------------------
(* The workspace of a session. *)

SessionsOnly == \A s \in Specs : s.session

(* The steps that run under the workspace finalizer. *)
Working == Steps \ {"finalizer", "teardown", "teardownPVC"}

Tearing == {"teardown", "teardownPVC"}

(* Why the two workspace properties hold: the Sandbox a reconcile works on *)
(* cannot go away or be replaced before the claim it makes is on its way   *)
(* out, because the finalizer was added first and only the teardown        *)
(* releases it; and between the check of the claim and the creation of the *)
(* Pod nothing deletes the claim.                                          *)
WorkspaceInv ==
  /\ sb.deleting => sb.live /\ sb.finalizer
  /\ pc \in Working => sb.live /\ sb.finalizer /\ sb.gen = mem.gen
  /\ pc \in Tearing => sb.live /\ sb.deleting
  /\ WorkspaceAttended
  /\ pc \in {"disk", "identity", "create"} => pvc.live /\ ~pvc.deleting
  /\ WorkspaceIsOwn

SameSandbox ==
  /\ sb'.live = sb.live /\ sb'.gen = sb.gen
  /\ sb'.finalizer = sb.finalizer /\ sb'.deleting = sb.deleting

SamePod ==
  ~pod'.live \/ (pod'.live = pod.live /\ pod'.gen = pod.gen /\ pod'.mount = pod.mount)

Mounting == {"disk", "identity", "create"}

(* The reconcile ends, stands still, or goes on with the same Sandbox. *)
Proceeds ==
  \/ pc' \in {"idle", "down"}
  \/ pc' = pc /\ mem' = mem
  \/ /\ pc \in Working /\ pc' \in Working /\ mem'.gen = mem.gen
     /\ pc' \in Mounting => pc \in Mounting

(* A step that keeps the workspace, the Pod it mounts and the identity of  *)
(* the Sandbox keeps the invariant.                                        *)
LEMMA Frame ==
  ASSUME WorkspaceInv, SameSandbox, SamePod, UNCHANGED pvc, Proceeds
  PROVE  WorkspaceInv'
  BY Zenon DEF WorkspaceInv, WorkspaceAttended, WorkspaceIsOwn, SameSandbox, SamePod, Proceeds,
     Mounting, Working, Tearing, Steps

(* A delete keeps it: with the finalizer the Sandbox stays to be torn      *)
(* down.                                                                   *)
LEMMA DeleteFrame ==
  ASSUME TypeOK, WorkspaceInv, sb.live, sb' = Deleted(sb), UNCHANGED <<pod, pvc>>,
         pc' = "idle" \/ UNCHANGED <<pc, mem>>
  PROVE  WorkspaceInv'
  <1>1. CASE sb.finalizer
    <2>1. /\ sb'.live = sb.live /\ sb'.gen = sb.gen
          /\ sb'.finalizer = sb.finalizer /\ sb'.deleting = TRUE
      BY <1>1, Zenon DEF Deleted, TypeOK, Sandboxes
    <2> QED BY <1>1, <2>1, Zenon DEF WorkspaceInv, WorkspaceAttended, WorkspaceIsOwn, Working,
               Tearing, Steps
  <1>2. CASE ~sb.finalizer
    <2>1. sb'.deleting = FALSE
      BY <1>2, Zenon DEF Deleted, Gone, TypeOK, Sandboxes
    <2>2. pc \notin Working /\ pc \notin Tearing /\ (pvc.live => pvc.deleting)
      BY <1>2, Zenon DEF WorkspaceInv, WorkspaceAttended
    <2>3. pc \notin {"disk", "identity", "create"}
      BY <2>2, Zenon DEF Working, Steps
    <2> QED BY <2>1, <2>2, <2>3, Zenon DEF WorkspaceInv, WorkspaceAttended, WorkspaceIsOwn,
               Working, Tearing, Steps
  <1> QED BY <1>1, <1>2, Zenon

(* The end of a reconcile is idle. *)
LEMMA Returns ==
  Return \/ ReturnErr \/ (\E t : RequeueAt(t)) => pc' = "idle"
  BY Zenon DEF Return, ReturnErr, RequeueAt, Idle

(* So is the end that waits for a deadline. *)
LEMMA DeadlineReturns ==
  ASSUME NEW s, NEW st, RequeueForDeadline(s, st) PROVE pc' = "idle"
  BY Returns, Zenon DEF RequeueForDeadline

(* A status patch changes neither the identity nor the finalizer of a      *)
(* Sandbox.                                                                *)
LEMMA PatchSame ==
  ASSUME TypeOK, sb' = [sb EXCEPT !.st = sb'.st] \/ UNCHANGED sb
  PROVE  SameSandbox
  BY Zenon DEF TypeOK, Sandboxes, SameSandbox

(* Holding the Sandbox Pending keeps its identity and ends the reconcile. *)
LEMMA HoldPendingFrame ==
  ASSUME TypeOK, NEW reason \in PendingReasons, HoldPending(reason)
  PROVE  SameSandbox /\ pc' = "idle"
  <1>1. SameSandbox
    BY HoldPendingType, PatchSame, Zenon
  <1>2. pc' = "idle"
    BY Returns, Zenon DEF HoldPending
  <1> QED BY <1>1, <1>2, Zenon

(* Patching the derived status keeps the identity, and ends the reconcile  *)
(* or goes on to the step that acts on it.                                 *)
LEMMA PatchDerivedFrame ==
  ASSUME TypeOK, NEW st \in Statuses, PatchDerived(st)
  PROVE  /\ SameSandbox
         /\ pc' = "idle" \/ (pc' = "act" /\ mem'.gen \in {mem.gen, sb.gen})
  <1>1. StatusFrom(st) \in Statuses
    BY StatusFromType, Zenon DEF TypeOK
  <1>2. SameSandbox
    BY <1>1, PatchType, PatchSame, Zenon DEF PatchDerived
  <1>3. CASE ReturnErr
    BY <1>2, <1>3, Returns, Zenon
  <1>4. CASE pc' = "act" /\ mem' \in {mem, sb'}
    BY <1>2, <1>4, Zenon DEF SameSandbox
  <1> QED BY <1>2, <1>3, <1>4, Zenon DEF PatchDerived

(* Every step of a reconcile keeps the workspace invariant. *)
LEMMA ReconcileWorkspace ==
  ASSUME SessionsOnly, TypeOK, WorkspaceInv, ReconcileStep
  PROVE  WorkspaceInv'
  <1> DEFINE Held == sb.live /\ sb.finalizer /\ sb.gen = mem.gen
  <1>1. sb.spec.session /\ mem.spec.session
    BY Zenon DEF TypeOK, Sandboxes, SessionsOnly
  <1>2. CASE Begin
    <2>1. /\ UNCHANGED <<sb, pod, pvc>>
          /\ sb.live => mem' = sb
          /\ \/ pc' = "idle"
             \/ pc' = "teardown" /\ sb.live /\ sb.deleting
             \/ pc' = "finalizer"
             \/ pc' = "resolve" /\ sb.live /\ sb.finalizer
      BY <1>1, <1>2, Zenon DEF Begin, others, objs, needsFinalizer, ownedByReap
    <2> QED BY <2>1, Zenon
        DEF WorkspaceInv, WorkspaceAttended, WorkspaceIsOwn, Working, Tearing,
               Steps
  <1>3. CASE AddFinalizer
    <2>1. CASE ~sb.live
      <3>1. pc' = "idle" /\ UNCHANGED <<sb, pod, pvc>>
        BY <1>3, <2>1, Returns, Zenon DEF AddFinalizer, others
      <3> QED BY <3>1, Frame, PatchSame, Zenon DEF Proceeds, SamePod
    <2>2. CASE sb.live
      <3>1. /\ UNCHANGED <<pod, pvc>> /\ mem' = sb' /\ pc' = "resolve"
            /\ sb'.live /\ sb'.finalizer /\ sb'.gen = sb.gen /\ sb'.deleting = sb.deleting
        BY <1>3, <2>2, Zenon DEF AddFinalizer, others, Goto, TypeOK, Sandboxes
      <3> QED BY <2>2, <3>1, Zenon DEF WorkspaceInv, WorkspaceAttended, WorkspaceIsOwn, Working,
                 Tearing, Steps
    <2> QED BY <2>1, <2>2, Zenon
  <1>4. CASE TeardownPod
    <2>1. /\ UNCHANGED <<sb, pvc>> /\ pc = "teardown" /\ pc' = "teardownPVC"
          /\ pod'.live = pod.live /\ pod'.gen = pod.gen /\ pod'.mount = pod.mount
      BY <1>4, Zenon DEF TeardownPod, others, Goto, TypeOK, Pods
    <2> QED BY <2>1, Zenon
        DEF WorkspaceInv, WorkspaceAttended, WorkspaceIsOwn, Working, Tearing,
               Steps
  <1>5. CASE TeardownPVC
    <2>1. pc' = "idle" /\ UNCHANGED pod
      BY <1>5, Returns, Zenon DEF TeardownPVC, others
    <2>2. CASE pvc.live /\ ~pvc.deleting
      <3>1. UNCHANGED sb /\ pvc'.deleting
        BY <1>5, <2>2, Zenon DEF TeardownPVC, TypeOK
      <3> QED BY <2>1, <3>1, Zenon DEF WorkspaceInv, WorkspaceAttended, WorkspaceIsOwn, Working,
                 Tearing, Steps
    <2>3. CASE ~(pvc.live /\ ~pvc.deleting)
      <3>1. UNCHANGED pvc /\ sb'.deleting = FALSE
        BY <1>5, <2>3, Zenon DEF TeardownPVC, Gone, TypeOK, Sandboxes
      <3> QED BY <2>1, <2>3, <3>1, Zenon DEF WorkspaceInv, WorkspaceAttended, WorkspaceIsOwn,
                 Working, Tearing, Steps
    <2> QED BY <2>2, <2>3, Zenon
  <1>6. ASSUME pc \in Working PROVE Held
    BY <1>6, Zenon DEF WorkspaceInv
  <1>7. CASE reapExpiredEphemeral
    <2>1. pc' = "idle" /\ UNCHANGED <<pod, pvc>> /\ pc \in Working
      BY <1>7, Returns, Zenon DEF reapExpiredEphemeral, others, Working, Steps
    <2>2. CASE UNCHANGED sb
      BY <2>1, <2>2, Frame, PatchSame, Zenon DEF Proceeds, SamePod
    <2>3. CASE sb' = Deleted(sb)
      BY <1>6, <2>1, <2>3, DeleteFrame, Zenon
    <2> QED BY <1>7, <2>2, <2>3, Zenon DEF reapExpiredEphemeral
  <1>8. CASE Resolve
    <2>1. UNCHANGED <<pod, pvc>> /\ pc \in Working /\ pc \notin Mounting
      BY <1>8, Zenon DEF Resolve, others, Working, Steps, Mounting
    <2>2. ASSUME NEW r \in PendingReasons, HoldPending(r) PROVE WorkspaceInv'
      BY <2>1, <2>2, HoldPendingFrame, Frame, Zenon DEF Proceeds, SamePod
    <2>3. ASSUME handleUnresolvableClass PROVE WorkspaceInv'
      <3>1. "ClassNotFound" \in PendingReasons /\ "ClassNotFound" \in Reasons
        BY Zenon DEF PendingReasons, Reasons
      <3>2. CASE HoldPending("ClassNotFound")
        BY <2>2, <3>1, <3>2, Zenon
      <3>3. CASE UNCHANGED sb /\ (Return \/ ReturnErr)
        BY <2>1, <3>3, Returns, Frame, PatchSame, Zenon DEF Proceeds, SamePod
      <3>4. CASE sb' = Deleted(sb) /\ Return
        BY <1>6, <2>1, <3>4, Returns, DeleteFrame, Zenon
      <3>5. CASE patchFailedStatus("ClassNotFound") /\ \E t : RequeueAt(t)
        BY <2>1, <3>1, <3>5, Returns, Frame, PatchReasonType, PatchSame, Zenon
        DEF Proceeds, SamePod
      <3> QED BY <2>3, <3>2, <3>3, <3>4, <3>5, Zenon DEF handleUnresolvableClass
    <2>4. ASSUME UNCHANGED sb, ToPod PROVE WorkspaceInv'
      <3>1. CASE Return
        BY <2>1, <2>4, <3>1, Returns, Frame, PatchSame, Zenon DEF Proceeds, SamePod
      <3>2. CASE mem' = mem /\ pc' \in {"policies", "badBackend", "backend"}
        BY <2>1, <2>4, <3>2, Frame, PatchSame, Zenon
        DEF Proceeds, SamePod, Working, Steps, Mounting
      <3> QED BY <2>4, <3>1, <3>2, Zenon DEF ToPod
    <2> QED BY <1>8, <2>2, <2>3, <2>4, Zenon DEF Resolve, PendingReasons
  <1>9. CASE FailBackend
    <2> DEFINE st == [mem.st EXCEPT !.phase = "Failed", !.reason = "UnsupportedBackend"]
    <2>1. st \in Statuses
      BY Zenon DEF TypeOK, Sandboxes, Statuses, Phases, Terminal, Reasons
    <2>2. SameSandbox
      BY <1>9, <2>1, PatchType, PatchSame, Zenon DEF FailBackend
    <2>3. pc' = "idle" /\ UNCHANGED <<pod, pvc>>
      BY <1>9, Returns, Zenon DEF FailBackend, others
    <2> QED BY <2>2, <2>3, Frame, Zenon DEF Proceeds, SamePod
  <1>10. CASE RecordBackend
    <2> DEFINE st == [mem.st EXCEPT !.runtime = TRUE]
    <2>1. st \in Statuses /\ [mem EXCEPT !.st.runtime = TRUE].gen = mem.gen
      BY Zenon DEF TypeOK, Sandboxes, Statuses
    <2>2. SameSandbox
      BY <1>10, <2>1, PatchType, PatchSame, Zenon DEF RecordBackend
    <2>3. /\ pc = "backend" /\ pc' = "policies" /\ UNCHANGED <<pod, pvc>>
          /\ mem' \in {mem, sb', [mem EXCEPT !.st.runtime = TRUE]}
      BY <1>10, Zenon DEF RecordBackend, Goto
    <2>4. mem'.gen = mem.gen
      BY <1>6, <2>1, <2>2, <2>3, Zenon DEF SameSandbox, Working, Steps
    <2> QED BY <2>2, <2>3, <2>4, Frame, Zenon DEF Proceeds, SamePod, Working, Steps, Mounting
  <1>11. CASE EnsureBaseline
    BY <1>11, Frame, PatchSame, Zenon
    DEF EnsureBaseline, others, Goto, Proceeds, SamePod, Working, Steps, Mounting
  <1>12. CASE ApplyPolicy
    <2>1. /\ UNCHANGED <<sb, pod, pvc, mem>> /\ pc = "netpol"
          /\ pc' \in {"derive", "pvc"}
      BY <1>1, <1>12, Zenon DEF ApplyPolicy, AfterPolicies, others, Goto
    <2> QED BY <2>1, Frame, PatchSame, Zenon DEF Proceeds, SamePod, Working, Steps, Mounting
  <1>13. CASE EnsureWorkspacePVC
    <2>1. UNCHANGED <<sb, pod>> /\ pc \in Working
      BY <1>13, Zenon DEF EnsureWorkspacePVC, others, Working, Steps
    <2>2. CASE claimTerminating
      <3>1. pc' = "idle" /\ UNCHANGED pvc
        BY <1>13, <2>2, Returns, Zenon DEF EnsureWorkspacePVC
      <3> QED BY <2>1, <3>1, Frame, PatchSame, Zenon DEF Proceeds, SamePod
    <2>3. CASE ~claimTerminating
      <3>1. pc' = "disk" /\ mem' = mem /\ pvc'.live /\ ~pvc'.deleting
            /\ (pvc' = pvc \/ pvc'.gen = mem.gen)
        BY <1>13, <2>3 DEF EnsureWorkspacePVC, claimTerminating, Goto
      <3> QED BY <1>6, <2>1, <3>1, Zenon DEF WorkspaceInv, WorkspaceAttended, WorkspaceIsOwn,
                 Working, Tearing, Steps
    <2> QED BY <2>2, <2>3, Zenon
  <1>14. CASE WaitForLauncherDisk
    <2>1. UNCHANGED <<pod, pvc>> /\ pc = "disk"
      BY <1>14, Zenon DEF WaitForLauncherDisk, others
    <2>2. CASE UNCHANGED <<sb, mem>> /\ Goto("identity")
      BY <2>1, <2>2, Frame, PatchSame, Zenon
      DEF Goto, Proceeds, SamePod, Working, Steps, Mounting
    <2>3. CASE HoldPending("DiskBuilding")
      BY <2>1, <2>3, HoldPendingFrame, Frame, Zenon DEF Proceeds, SamePod, PendingReasons
    <2>4. CASE patchFailedStatus("DiskBuildFailed") /\ Return
      BY <2>1, <2>4, Returns, Frame, PatchReasonType, PatchSame, Zenon
      DEF Proceeds, SamePod, Reasons
    <2>5. CASE UNCHANGED sb /\ ReturnErr
      BY <2>1, <2>5, Returns, Frame, PatchSame, Zenon DEF Proceeds, SamePod
    <2> QED BY <1>14, <2>2, <2>3, <2>4, <2>5, Zenon DEF WaitForLauncherDisk
  <1>15. CASE EnsureIdentity
    <2> DEFINE st == [mem.st EXCEPT !.identity = TRUE]
    <2>1. st \in Statuses
      BY Zenon DEF TypeOK, Sandboxes, Statuses
    <2>2. SameSandbox
      BY <1>15, <2>1, PatchType, PatchSame, Zenon DEF EnsureIdentity
    <2>3. /\ pc = "identity" /\ UNCHANGED <<pod, pvc>>
          /\ pc' = "idle" \/ (pc' = "create" /\ mem' \in {mem, sb'})
      BY <1>15, Returns, Zenon DEF EnsureIdentity, others, Goto
    <2>4. pc' = "idle" \/ mem'.gen = mem.gen
      BY <1>6, <2>2, <2>3, Zenon DEF SameSandbox, Working, Steps
    <2> QED BY <2>2, <2>3, <2>4, Frame, Zenon DEF Proceeds, SamePod, Working, Steps, Mounting
  <1>16. CASE CreatePod
    <2>1. pc = "create" /\ pc' = "idle" /\ UNCHANGED <<sb, pvc>>
      BY <1>16, Returns, Zenon DEF CreatePod, others
    <2>2. CASE UNCHANGED pod
      BY <2>1, <2>2, Frame, PatchSame, Zenon DEF Proceeds, SamePod
    <2>3. CASE pod' = NewPod
      <3>1. pod'.mount = pvc.gen /\ pod'.gen = mem.gen
        BY <1>1, <2>3, Zenon DEF NewPod, NoPod
      <3>2. pvc.gen = mem.gen
        BY <1>6, <2>1, Zenon DEF WorkspaceInv, WorkspaceAttended, Working, Steps
      <3> QED BY <2>1, <3>1, <3>2, Zenon DEF WorkspaceInv, WorkspaceAttended, WorkspaceIsOwn,
                 Working, Tearing, Steps
    <2> QED BY <1>16, <2>2, <2>3, Zenon DEF CreatePod
  <1>17. ASSUME NEW st \in Statuses, PatchDerived(st), pc \in Working, pc \notin Mounting,
                UNCHANGED <<pod, pvc>>
         PROVE  WorkspaceInv'
    BY <1>6, <1>17, PatchDerivedFrame, Frame, Zenon
    DEF Proceeds, SamePod, Working, Steps, Mounting
  <1>18. CASE DeriveStatus
    <2>1. UNCHANGED <<pod, pvc>> /\ pc = "derive" /\ Derive(mem, obs) \in Statuses
      BY <1>18, DeriveType, Zenon DEF DeriveStatus, others, TypeOK
    <2>2. CASE PatchDerived(Derive(mem, obs))
      BY <1>17, <2>1, <2>2, Zenon DEF Working, Steps, Mounting
    <2>3. CASE UNCHANGED <<sb, mem>> /\ pc' = "restore"
      BY <2>1, <2>3, Frame, PatchSame, Zenon DEF Proceeds, SamePod, Working, Steps, Mounting
    <2> QED BY <1>18, <2>2, <2>3, Zenon DEF DeriveStatus
  <1>19. CASE RestoreLauncher
    <2>1. SamePod
      <3>1. pod \in Pods
        BY Zenon DEF TypeOK
      <3>2. \/ pod' = pod
            \/ \E l, v : \/ pod' = [pod EXCEPT !.loaded = l]
                        \/ pod' = [pod EXCEPT !.loaded = l, !.vm = v]
        BY <1>19, Zenon DEF RestoreLauncher
      <3> QED BY <3>1, <3>2, Zenon DEF SamePod, Pods
    <2>2. UNCHANGED <<sb, mem, pvc>> /\ pc = "restore" /\ pc' \in {"annotate", "status"}
      BY <1>19, Zenon DEF RestoreLauncher
    <2> QED BY <2>1, <2>2, Frame, PatchSame, Zenon DEF Proceeds, Working, Steps, Mounting
  <1>20. CASE AnnotateRestored
    <2>1. UNCHANGED <<pod, pvc>> /\ pc = "annotate" /\ pc' = "status"
      BY <1>20, Zenon DEF AnnotateRestored
    <2>2. SameSandbox /\ mem'.gen \in {mem.gen, sb.gen}
      BY <1>20 DEF AnnotateRestored, SameSandbox, TypeOK, Sandboxes
    <2> QED BY <1>6, <2>1, <2>2, Frame, Zenon DEF Proceeds, SamePod, Working, Steps, Mounting
  <1>21. CASE PatchRestored
    BY <1>17, <1>21, Zenon DEF PatchRestored, others, TypeOK, Working, Steps, Mounting
  <1>22. CASE RestartExitedSession \/ FinishPod
    <2>1. SamePod
      BY <1>22, Zenon DEF RestartExitedSession, FinishPod, DeletePod, SamePod, TypeOK, Pods
    <2>2. UNCHANGED <<sb, pvc>> /\ pc' = "idle"
      BY <1>22, Returns, DeadlineReturns, Zenon DEF RestartExitedSession, FinishPod, others
    <2> QED BY <2>1, <2>2, Frame, PatchSame, Zenon DEF Proceeds
  <1>23. CASE PauseVM \/ ResumeVM
    <2>1. SamePod
      BY <1>23, Zenon DEF PauseVM, ResumeVM, SamePod, TypeOK, Pods
    <2>2. /\ UNCHANGED <<sb, pvc>> /\ pc = "act"
          /\ pc' = "idle" \/ (pc' \in {"paused", "resumed"} /\ mem' = mem)
      BY <1>23, Returns, Zenon DEF PauseVM, ResumeVM, others, Goto
    <2> QED BY <2>1, <2>2, Frame, PatchSame, Zenon DEF Proceeds, Working, Steps, Mounting
  <1>24. CASE RecordPaused \/ RecordResumed
    <2>1. sb' = [sb EXCEPT !.st = sb'.st] \/ UNCHANGED sb
      BY <1>24, Zenon
      DEF RecordPaused, RecordResumed, patchPhase, PatchStatus, TypeOK, Sandboxes
    <2>2. UNCHANGED <<pod, pvc>> /\ pc' = "idle"
      BY <1>24, Returns, DeadlineReturns, Zenon DEF RecordPaused, RecordResumed, others
    <2> QED BY <2>1, <2>2, Frame, PatchSame, Zenon DEF Proceeds, SamePod
  <1> QED BY <1>2, <1>3, <1>4, <1>5, <1>7, <1>8, <1>9, <1>10, <1>11, <1>12, <1>13, <1>14,
             <1>15, <1>16, <1>18, <1>19, <1>20, <1>21, <1>22, <1>23, <1>24, Zenon
          DEF ReconcileStep

(* A Sandbox that has just been created is not being deleted. *)
LEMMA FreshKept == \A g, s : Fresh(g, s).deleting = FALSE
  BY Zenon DEF Fresh

(* So does every step of the node, the API server, the callers and the     *)
(* administrators.                                                         *)
LEMMA EnvironmentWorkspace ==
  ASSUME SessionsOnly, TypeOK, WorkspaceInv, Environment
  PROVE  WorkspaceInv'
  <1>1. CASE Crash \/ Restart \/ Tick \/ ChangeWorld \/ Tamper \/ ApiError
    <2>1. UNCHANGED <<sb, pod, pvc>>
      BY <1>1, Zenon DEF Crash, Restart, Tick, ChangeWorld, Tamper, ApiError, objs
    <2>2. Proceeds
      BY <1>1, Returns, Zenon
      DEF Crash, Restart, Tick, ChangeWorld, Tamper, ApiError, rec, Proceeds
    <2> QED BY <2>1, <2>2, Frame, PatchSame, Zenon DEF SamePod
  <1>2. CASE PolicyNotReadable
    <2>1. mem.spec.session
      BY Zenon DEF TypeOK, Sandboxes, SessionsOnly
    <2>2. /\ UNCHANGED <<sb, pod, pvc>> /\ pc = "netpol"
          /\ pc' = "idle" \/ (pc' \in {"derive", "pvc"} /\ mem' = mem)
      BY <1>2, <2>1, Returns, Zenon DEF PolicyNotReadable, AfterPolicies, Goto
    <2> QED BY <2>2, Frame, PatchSame, Zenon DEF Proceeds, SamePod, Working, Steps, Mounting
  <1>3. ASSUME NEW p, Kubelet(p), SamePod PROVE WorkspaceInv'
    BY <1>3, Frame, PatchSame, Zenon DEF Kubelet, rec, Proceeds
  <1>4. CASE PodStarts \/ PodPullFails \/ PodReady \/ PodUnready \/ PodExits
             \/ PodRemoved \/ CollectPod
    <2>1. SamePod
      <3>1. CASE PodStarts
        BY <3>1, Zenon DEF PodStarts, Kubelet, SamePod, TypeOK, Pods
      <3>2. CASE PodPullFails \/ PodReady \/ PodUnready
        <4>1. pod \in Pods
          BY Zenon DEF TypeOK
        <4>2. \E b : pod' = [pod EXCEPT !.pull = b] \/ pod' = [pod EXCEPT !.ready = b]
          BY <3>2, Zenon DEF PodPullFails, PodReady, PodUnready, Kubelet
        <4> QED BY <4>1, <4>2, Zenon DEF SamePod, Pods
      <3>3. CASE PodExits \/ CollectPod
        BY <3>3, ZenonT(30) DEF PodExits, CollectPod, Kubelet, SamePod, TypeOK, Pods
      <3>4. CASE PodRemoved
        BY <3>4, Zenon DEF PodRemoved, Kubelet, NoPod, SamePod
      <3> QED BY <1>4, <3>1, <3>2, <3>3, <3>4, Zenon
    <2> QED BY <1>3, <1>4, <2>1, Zenon DEF PodStarts, PodPullFails, PodReady, PodUnready,
               PodExits, PodRemoved, CollectPod
  <1>5. CASE PodEvicted
    <2>1. SamePod
      BY <1>5, Zenon DEF PodEvicted, SamePod, TypeOK, Pods
    <2> QED BY <1>5, <2>1, Frame, PatchSame, Zenon DEF PodEvicted, rec, Proceeds
  <1>6. CASE PVCRemoved
    <2>1. UNCHANGED <<sb, pod, pc, mem>> /\ ~pvc'.live /\ pvc.deleting
      BY <1>6, Zenon DEF PVCRemoved, NoPVC, rec
    <2>2. pc \notin {"disk", "identity", "create"}
      BY <2>1, Zenon DEF WorkspaceInv
    <2> QED BY <2>1, <2>2, Zenon DEF WorkspaceInv, WorkspaceAttended, WorkspaceIsOwn, Working,
               Tearing
  <1>7. CASE CollectPolicy
    BY <1>7, Frame, PatchSame, Zenon DEF CollectPolicy, rec, Proceeds, SamePod
  <1>8. CASE DeleteSandbox
    BY <1>8, DeleteFrame, Zenon DEF DeleteSandbox, Caller, rec
  <1>9. CASE CreateSandbox
    <2>1. /\ ~sb.live /\ UNCHANGED <<pod, pvc, pc, mem>>
          /\ sb'.deleting = FALSE
      BY <1>9, FreshKept, Zenon DEF CreateSandbox, Caller, rec
    <2> QED BY <2>1, Zenon
        DEF WorkspaceInv, WorkspaceAttended, WorkspaceIsOwn, Working, Tearing,
               Steps
  <1>10. CASE SetDesiredState \/ StampActivity
    <2>1. SameSandbox
      BY <1>10, ZenonT(30)
      DEF SetDesiredState, StampActivity, Caller, SameSandbox, TypeOK, Sandboxes
    <2>2. UNCHANGED <<pod, pvc, pc, mem>>
      BY <1>10, Zenon DEF SetDesiredState, StampActivity, Caller, rec
    <2> QED BY <2>1, <2>2, Frame, Zenon DEF Proceeds, SamePod
  <1> QED BY <1>1, <1>2, <1>4, <1>5, <1>6, <1>7, <1>8, <1>9, <1>10, Zenon DEF Environment

(* A durable workspace serves one session and never outlives it: through   *)
(* any number of Sandboxes of one name, crashes, API errors and deletions, *)
(* no Pod mounts the claim of an earlier session, and a claim that nobody  *)
(* is deleting belongs to a live Sandbox whose finalizer will delete it.   *)
(* (The one name is not reused for an ephemeral Sandbox.)                  *)
THEOREM WorkspaceSafe ==
  ASSUME SessionsOnly
  PROVE  Spec => []WorkspaceKept
  <1>1. Init => WorkspaceInv
    <2>1. ~NoPod.live /\ ~NoPVC.live
      BY Zenon DEF NoPod, NoPVC
    <2>2. Init => pc = "idle" /\ ~sb.deleting /\ ~pod.live /\ ~pvc.live
      BY <2>1, FreshKept, Zenon DEF Init
    <2> QED BY <2>2, Zenon DEF WorkspaceInv, WorkspaceAttended, WorkspaceIsOwn, Working,
         Tearing, Steps
  <1>2. TypeOK /\ WorkspaceInv /\ [Next]_vars => WorkspaceInv'
    <2>1. ASSUME WorkspaceInv, UNCHANGED vars PROVE WorkspaceInv'
      BY <2>1, Zenon DEF WorkspaceInv, WorkspaceAttended, WorkspaceIsOwn, vars, objs, rec
    <2> QED BY <2>1, ReconcileWorkspace, EnvironmentWorkspace, Zenon DEF Next
  <1>3. WorkspaceInv => WorkspaceKept
    BY Zenon DEF WorkspaceInv, WorkspaceKept
  <1> QED BY <1>1, <1>2, <1>3, TypeCorrect, PTL DEF Spec

------------------------------------------------------------------------------
(* Shared by the theorems about a Sandbox whose name is used once. *)

(* The name is used once. *)
OneSandbox == MaxGen = 1

(* The path of Reconcile that ends with a new Pod. *)
PodMissing ==
  \/ pc \in {"backend", "badBackend", "pvc", "disk", "identity", "create"}
  \/ pc \in {"policies", "netpol"} /\ ~obs.live

------------------------------------------------------------------------------
(* No deadline of a Sandbox passes unnoticed, for any specs, worlds, limits *)
(* and number of faults.                                                    *)


(* A status that has a deadline knows since when. *)
Stamped(st) ==
  /\ st.phase \in {"Running", "Paused"} => st.started # Unset
  /\ st.phase = "Paused" => st.paused # Unset

(* Nobody but the reconcile under way writes what the deadlines rest on,   *)
(* so its copy of the status agrees with the object.                       *)
SameClock(s, t) ==
  /\ s.spec = t.spec /\ s.created = t.created
  /\ s.st.phase = t.st.phase /\ s.st.started = t.st.started /\ s.st.paused = t.st.paused

(* The steps at which the Pod was read, and those with a derived status. *)
PodRead ==
  {"badBackend", "backend", "policies", "netpol", "pvc", "disk", "identity", "create",
   "derive", "restore", "annotate", "status", "act", "paused", "resumed"}
Derived == {"restore", "annotate", "status", "act", "paused", "resumed"}
Decided == {"act", "paused", "resumed"}

InTime(st) ==
  st.phase = "Running" /\ sb.spec.timeout > 0 => now <= st.started + sb.spec.timeout

(* No policy of the class is due for s with the status st. *)
NotDue(s, st) ==
  /\ st.phase = "Running" /\ HasIdleDeadline(s) => now < SessionIdleDeadline(s)
  /\ st.phase = "Paused" /\ s.spec.maxPause > 0 => now < PauseDeadline(s, st)

(* What the reconcile under way knows.  As long as nothing is queued,      *)
(* nothing has changed since it read the Sandbox and the Pod.              *)
ClockKnown ==
  /\ SameClock(mem, sb)
  /\ ~queue => mem.activity = sb.activity
  /\ ~queue /\ pc \in PodRead => obs = pod
  /\ PodMissing => ~obs.live
  /\ pc \in {"teardown", "teardownPVC"} => sb.deleting
  /\ pc = "reap" => sb.st.phase \in Terminal
  /\ pc \in Derived => Stamped(des) /\ InTime(des)
  /\ pc \in Decided => des.phase = sb.st.phase /\ des.started = sb.st.started
                       /\ des.paused = sb.st.paused
  /\ pc \in Decided /\ ~queue => NotDue(mem, des)
  /\ pc = "paused" => des.phase = "Running"
  /\ pc = "resumed" => des.phase = "Paused"

(* The wake-up of the work queue comes no later than the deadlines. *)
Scheduled ==
  /\ sb.st.phase = "Running" /\ sb.spec.timeout > 0 =>
       wake # Unset /\ wake <= sb.st.started + sb.spec.timeout + 1
  /\ sb.st.phase = "Running" /\ HasIdleDeadline(sb) =>
       wake # Unset /\ wake <= SessionIdleDeadline(sb)
  /\ sb.st.phase = "Paused" /\ sb.spec.maxPause > 0 =>
       wake # Unset /\ wake <= PauseDeadline(sb, sb.st)

(* Why no deadline is forgotten: a reconcile ends with a wake-up no later  *)
(* than the deadlines of what it left behind, or with an event queued that *)
(* makes another reconcile look.                                           *)
DeadlineInv ==
  /\ sb.gen = 1
  /\ pod.phase # "Pending" => pod.start # Unset
  /\ obs.phase # "Pending" => obs.start # Unset
  /\ sb.live =>
       /\ Stamped(sb.st)
       /\ pc \in Steps => ClockKnown
       /\ pc = "idle" /\ ~queue /\ OwnPod /\ ~sb.deleting => Scheduled

(* A step that leaves the queue empty changed neither Sandbox nor Pod. *)
LEMMA NotifyQuiet ==
  ASSUME Notify, ~queue'
  PROVE  ~queue /\ UNCHANGED <<sb, pod>>
  BY Zenon DEF Notify

(* A step around the reconcile keeps the invariant if it writes no status  *)
(* and queues what it changes.                                             *)
LEMMA ClockStands ==
  ASSUME DeadlineInv, UNCHANGED <<rec, wake>>, UNCHANGED now \/ pc \notin Steps,
         sb'.gen = sb.gen,
         sb'.live => /\ sb.live /\ SameClock(sb', sb) /\ sb'.st = sb.st
                     /\ sb.deleting => sb'.deleting,
         pod'.phase # "Pending" => pod'.start # Unset,
         ~queue' => ~queue /\ UNCHANGED <<sb, pod>>
  PROVE  DeadlineInv'
  <1>1. ASSUME sb'.live PROVE Stamped(sb'.st)
    BY <1>1, Zenon DEF DeadlineInv, Stamped
  <1>2. ASSUME sb'.live, pc \in Steps PROVE ClockKnown'
    <2>1. sb.live /\ ClockKnown /\ UNCHANGED <<pc, mem, obs, des, now>>
      BY <1>2, Zenon DEF DeadlineInv, rec
    <2>2. SameClock(mem, sb)' /\ sb'.spec = sb.spec
      BY <1>2, <2>1, Zenon DEF SameClock, ClockKnown
    <2>3. /\ InTime(des) => InTime(des)'
          /\ Stamped(des) => Stamped(des)'
          /\ NotDue(mem, des) => NotDue(mem, des)'
      BY <2>1, <2>2, Zenon DEF InTime, Stamped, NotDue, HasIdleDeadline, SessionIdleDeadline,
         LastSessionActivity, PauseDeadline
    <2> QED BY <1>2, <2>1, <2>2, <2>3, ZenonT(30) DEF ClockKnown, PodMissing
  <1>3. ASSUME sb'.live, pc = "idle", ~queue', OwnPod', ~sb'.deleting PROVE Scheduled'
    <2>1. ~queue /\ UNCHANGED <<sb, pod, wake>> /\ OwnPod
      BY <1>3, Zenon DEF OwnPod
    <2>2. Scheduled
      BY <1>3, <2>1, Zenon DEF DeadlineInv
    <2> QED BY <2>1, <2>2, Zenon DEF Scheduled, HasIdleDeadline, SessionIdleDeadline,
         LastSessionActivity, PauseDeadline
  <1> QED BY <1>1, <1>2, <1>3, Zenon DEF DeadlineInv, rec

(* So does a step that goes on with what it knows, *)
LEMMA ClockGoes ==
  ASSUME DeadlineInv, pc' \in Steps, sb'.gen = sb.gen,
         pod'.phase # "Pending" => pod'.start # Unset,
         obs' \in {obs, pod},
         sb'.live => sb.live /\ Stamped(sb'.st) /\ ClockKnown'
  PROVE  DeadlineInv'
  BY Zenon DEF DeadlineInv, Steps

(* and the end of a reconcile that leaves no deadline behind. *)
LEMMA ClockReturns ==
  ASSUME DeadlineInv, Return \/ ReturnErr \/ \E t : RequeueAt(t), sb'.gen = sb.gen,
         pod'.phase # "Pending" => pod'.start # Unset,
         sb'.live => sb.live /\ Stamped(sb'.st),
         sb.live /\ ~queue /\ UNCHANGED <<sb, pod>> =>
           sb.deleting \/ ~pod.live \/ sb.st.phase \notin {"Running", "Paused"}
  PROVE  DeadlineInv'
  <1>1. pc' = "idle" /\ obs' = NoPod /\ (Notify \/ queue' = TRUE)
    BY Zenon DEF Return, ReturnErr, RequeueAt, Idle
  <1>2. NoPod.phase = "Pending" /\ "idle" \notin Steps
    BY Zenon DEF NoPod, Steps
  <1>3. ASSUME sb'.live, ~queue', OwnPod', ~sb'.deleting PROVE Scheduled'
    <2>1. ~queue /\ UNCHANGED <<sb, pod>>
      BY <1>1, <1>3, NotifyQuiet, Zenon
    <2> QED BY <1>3, <2>1, Zenon DEF OwnPod, Scheduled
  <1> QED BY <1>1, <1>2, <1>3, Zenon DEF DeadlineInv

(* A status patch writes the phase and the stamps of the new status. *)
LEMMA PatchClock ==
  ASSUME TypeOK, NEW new \in Statuses, PatchStatus(new), SameClock(mem, sb)
  PROVE  /\ sb'.live = sb.live /\ sb'.gen = sb.gen /\ sb'.spec = sb.spec
         /\ sb'.created = sb.created /\ sb'.activity = sb.activity
         /\ sb'.deleting = sb.deleting
         /\ sb'.st.phase = new.phase /\ sb'.st.started = new.started
         /\ sb'.st.paused = new.paused
  <1> DEFINE m == MergeStatus(sb.st, mem.st, new)
  <1>1. m.phase = new.phase /\ m.started = new.started /\ m.paused = new.paused
    BY Zenon DEF MergeStatus, SameClock
  <1>2. sb' = [sb EXCEPT !.st = m]
    BY Zenon DEF PatchStatus
  <1> HIDE DEF m
  <1> QED BY <1>1, <1>2, Zenon DEF TypeOK, Sandboxes

(* A Sandbox that is held or failed has no deadline. *)
LEMMA HoldClock ==
  ASSUME TypeOK, SameClock(mem, sb), NEW r \in Reasons,
         patchPendingStatus(r) \/ patchFailedStatus(r)
  PROVE  /\ sb'.live = sb.live /\ sb'.gen = sb.gen
         /\ sb'.st.phase \in {"Pending", "Failed"}
  <1> DEFINE p == [mem.st EXCEPT !.phase = "Pending", !.reason = r, !.ltt = now]
             f == [mem.st EXCEPT !.phase = "Failed", !.reason = r, !.ltt = now]
  <1>1. p \in Statuses /\ f \in Statuses
    <2>1. mem.st \in Statuses /\ now \in Times
      BY Zenon DEF TypeOK, Sandboxes, Times
    <2>2. "Pending" \in Phases /\ "Failed" \in Phases
      BY Zenon DEF Phases, Terminal
    <2>3. p \in Statuses BY <2>1, <2>2, Zenon DEF Statuses
    <2>4. f \in Statuses BY <2>1, <2>2, Zenon DEF Statuses
    <2> QED BY <2>3, <2>4, Zenon
  <1>2. p.phase = "Pending" /\ f.phase = "Failed"
    BY Zenon DEF TypeOK, Sandboxes, Statuses
  <1>3. CASE UNCHANGED sb /\ mem.st.phase \in {"Pending", "Failed"}
    BY <1>3, Zenon DEF SameClock
  <1>4. CASE PatchStatus(p)
    <2> HIDE DEF p
    <2> QED BY <1>1, <1>2, <1>4, PatchClock, Zenon
  <1>5. CASE PatchStatus(f)
    <2> HIDE DEF f
    <2> QED BY <1>1, <1>2, <1>5, PatchClock, Zenon
  <1> QED BY <1>3, <1>4, <1>5, Zenon DEF patchPendingStatus, patchFailedStatus

(* The policies on a status keep its stamps, and are not due for what they *)
(* leave Running or Paused.                                                *)
LEMMA StatusFromClock ==
  ASSUME TypeOK, NEW st \in Statuses
  PROVE  /\ StatusFrom(st).started = st.started /\ StatusFrom(st).paused = st.paused
         /\ StatusFrom(st).phase \in {st.phase, "Failed"}
         /\ Stamped(st) => NotDue(mem, StatusFrom(st))
  <1> DEFINE h(u) == holdUntilRestored(mem, u)
             i(u) == ApplySessionIdlePolicy(mem, u)
             p(u) == ApplyPausePolicy(mem, u)
             ok(u) == u.started = st.started /\ u.paused = st.paused
                      /\ u.phase \in {st.phase, "Failed"}
             idle(u) == u.phase = "Running" /\ HasIdleDeadline(mem)
                        => now < SessionIdleDeadline(mem)
             paused(u) == u.phase = "Paused" /\ st.paused # Unset /\ mem.spec.maxPause > 0
                          => now < PauseDeadline(mem, u)
  <1>1. now \in Nat /\ mem \in Sandboxes /\ mem.spec \in Specs
    BY Zenon DEF TypeOK, Sandboxes
  <1>2. \A u \in Statuses : \A r \in {"IdleTimeout", "PauseTimeoutExceeded"} :
          /\ setPhase(u, "Failed", r).phase = "Failed"
          /\ setPhase(u, "Failed", r).started = u.started
          /\ setPhase(u, "Failed", r).paused = u.paused
    BY Zenon DEF setPhase, Statuses
  <1>3. h(st) \in Statuses /\ ok(h(st))
    BY Zenon DEF holdUntilRestored, Statuses, Reasons, PendingReasons
  <1>4. SessionIdleDeadline(mem) \in Int
    BY <1>1, ConstantsAssumption DEF SessionIdleDeadline, LastSessionActivity, Later,
       Sandboxes, Statuses, Times, Unset
  <1>5. \A u \in Statuses : ok(u) => i(u) \in Statuses /\ ok(i(u)) /\ idle(i(u))
    <2>1. SUFFICES ASSUME NEW u \in Statuses, ok(u)
                   PROVE  i(u) \in Statuses /\ ok(i(u)) /\ idle(i(u))
      BY Zenon
    <2>2. i(u) \in Statuses
      BY <1>1, setPhaseType, Zenon DEF ApplySessionIdlePolicy, Phases, Terminal, Reasons,
         failedPodDeletes
    <2> QED BY <1>1, <1>2, <1>4, <2>1, <2>2 DEF ApplySessionIdlePolicy
  <1>6. \A u \in Statuses : ok(u) => ok(p(u)) /\ paused(p(u)) /\ (idle(u) => idle(p(u)))
    <2>1. SUFFICES ASSUME NEW u \in Statuses, ok(u)
                   PROVE  ok(p(u)) /\ paused(p(u)) /\ (idle(u) => idle(p(u)))
      BY Zenon
    <2>2. PauseDeadline(mem, u) \in Int
      BY <1>1, ConstantsAssumption DEF PauseDeadline, Statuses, Times, Unset
    <2> QED BY <1>1, <1>2, <2>1, <2>2 DEF ApplyPausePolicy, HasPauseDeadline
  <1>7. StatusFrom(st) = p(i(h(st)))
    BY Zenon DEF StatusFrom
  <1>8. ok(StatusFrom(st)) /\ idle(StatusFrom(st)) /\ paused(StatusFrom(st))
    <2> HIDE DEF h, i, p, ok, idle, paused
    <2> QED BY <1>3, <1>5, <1>6, <1>7, Zenon
  <1> QED BY <1>8, Zenon DEF NotDue, Stamped

(* A derived status has its stamps and is not past the timeout. *)
LEMMA DeriveClock ==
  ASSUME TypeOK, Stamped(mem.st), obs.phase # "Pending" => obs.start # Unset,
         mem.spec = sb.spec
  PROVE  Stamped(Derive(mem, obs)) /\ InTime(Derive(mem, obs))
  <1> DEFINE d == derivedRunning(mem, obs)
             f == fromPodPhase(mem, obs)
             w == WithStart(mem.st, obs)
  <1>1. mem.st \in Statuses /\ obs \in Pods /\ now \in Nat /\ mem \in Sandboxes
        /\ sb.spec \in Specs
    BY Zenon DEF TypeOK, Sandboxes
  <1>2. w \in Statuses /\ (obs.phase = "Running" => w.started # Unset)
    BY <1>1, Zenon DEF WithStart, Statuses, Pods
  <1>3. obs.phase = "Running" =>
          /\ d.phase \in {"Pending", "Failed", "Running"}
          /\ d.phase = "Running" => d.started # Unset /\ ~timedOut(mem, d.started)
    <2>1. d \in {setPhase(mem.st, "Pending", ""), setPhase(w, "Failed", "Timeout")}
          \/ (~timedOut(mem, w.started) /\ d = setPhase(w, "Running", ""))
      BY Zenon DEF derivedRunning
    <2>2. w.started = setPhase(w, "Running", "").started
      BY <1>2, Zenon DEF setPhase, Statuses
    <2> HIDE DEF w, d
    <2> QED BY <1>1, <1>2, <2>1, <2>2, Zenon DEF setPhase, Statuses
  <1>4. /\ f.phase \in {"Completed", "Pending", "Failed", "Running"}
        /\ f.phase = "Running" => f.started # Unset /\ ~timedOut(mem, f.started)
    <2>1. CASE obs.phase = "Succeeded"
      <3> DEFINE a == setPhase(mem.st, "Completed", "")
      <3>0. "Completed" \in Phases /\ "" \in Reasons
        BY Zenon DEF Phases, Terminal, Reasons, PendingReasons
      <3>1. a \in Statuses
        BY <1>1, <3>0, setPhaseType, Zenon
      <3>2. a.phase = "Completed"
        BY <1>1, Zenon DEF setPhase, Statuses
      <3>3. f = WithStart(a, obs)
        BY <2>1, Zenon DEF fromPodPhase
      <3> HIDE DEF a, f
      <3> QED BY <3>1, <3>2, <3>3, Zenon DEF WithStart, Statuses
    <2>2. CASE obs.phase = "Failed"
      <3> DEFINE a == setPhase(mem.st, "Failed", "ContainerExitedNonZero")
      <3>0. "Failed" \in Phases /\ "ContainerExitedNonZero" \in Reasons
        BY Zenon DEF Phases, Terminal, Reasons
      <3>1. a \in Statuses
        BY <1>1, <3>0, setPhaseType, Zenon
      <3>2. a.phase = "Failed"
        BY <1>1, Zenon DEF setPhase, Statuses
      <3>3. f = WithStart(a, obs)
        BY <2>2, Zenon DEF fromPodPhase
      <3> HIDE DEF a, f
      <3> QED BY <3>1, <3>2, <3>3, Zenon DEF WithStart, Statuses
    <2>3. CASE obs.phase = "Running"
      BY <1>3, <2>3, Zenon DEF fromPodPhase
    <2>4. CASE obs.phase = "Pending"
      BY <1>1, <2>4, Zenon DEF fromPodPhase, setPhase, Statuses
    <2> QED BY <1>1, <2>1, <2>2, <2>3, <2>4, Zenon DEF Pods, Ended
  <1>5. f \in Statuses
    BY <1>1, FromPodType, Zenon
  <1>6. /\ Derive(mem, obs).phase = "Running" => Derive(mem, obs) = f
        /\ Derive(mem, obs).phase = "Paused" => Derive(mem, obs) = mem.st
    <2>1. Derive(mem, obs) \in {mem.st, f, setPhase(mem.st, "Pending", "SessionVMRestarting"),
                                setPhase(f, "Failed", "Timeout")}
          /\ (Derive(mem, obs) = f \/ Derive(mem, obs).phase # "Running")
      BY <1>1, <1>5, Zenon DEF Derive, setPhase, Statuses, Terminal, CoordinatorPhases
    <2>2. setPhase(mem.st, "Pending", "SessionVMRestarting").phase = "Pending"
          /\ setPhase(f, "Failed", "Timeout").phase = "Failed"
      BY <1>1, <1>5, Zenon DEF setPhase, Statuses
    <2> HIDE DEF f
    <2> QED BY <1>4, <2>1, <2>2, Zenon
  <1> HIDE DEF f
  <1>7. CASE Derive(mem, obs).phase = "Running"
    <2>1. \/ mem.spec.timeout = 0
          \/ f.started \in Nat /\ now - f.started <= mem.spec.timeout
      BY <1>1, <1>4, <1>5, <1>6, <1>7, ConstantsAssumption DEF timedOut, Statuses, Times
    <2> QED BY <1>1, <1>4, <1>6, <1>7, <2>1, ConstantsAssumption DEF Stamped, InTime
  <1>8. CASE Derive(mem, obs).phase # "Running"
    BY <1>6, <1>8, Zenon DEF Stamped, InTime
  <1> QED BY <1>7, <1>8, Zenon

(* The derived status, with its policies, is what the reconcile decides    *)
(* with.                                                                   *)
LEMMA PatchDerivedClock ==
  ASSUME TypeOK, DeadlineInv, pc \in Steps, UNCHANGED <<pod, now>>, NEW st \in Statuses,
         PatchDerived(st), sb.live => Stamped(st) /\ InTime(st), pc \in PodRead
  PROVE  DeadlineInv'
  <1> DEFINE new == StatusFrom(st)
  <1>1. /\ new \in Statuses /\ new.started = st.started /\ new.paused = st.paused
        /\ new.phase \in {st.phase, "Failed"}
        /\ Stamped(st) => NotDue(mem, new)
    BY StatusFromType, StatusFromClock, Zenon DEF TypeOK
  <1>2. pod'.phase # "Pending" => pod'.start # Unset
    BY Zenon DEF DeadlineInv
  <1>3. CASE ReturnErr /\ UNCHANGED sb /\ ~sb.live
    BY <1>2, <1>3, ClockReturns, Zenon
  <1>4. CASE /\ pc' = "act" /\ des' = new /\ UNCHANGED obs /\ Notify
             /\ \/ UNCHANGED <<sb, mem>> /\ new = mem.st
                \/ sb.live /\ PatchStatus(new) /\ mem' = sb'
    <2> HIDE DEF new
    <2>1. sb'.gen = sb.gen /\ (sb'.live => sb.live)
      BY <1>4, Zenon DEF PatchStatus, TypeOK, Sandboxes
    <2>2. ASSUME sb'.live PROVE Stamped(sb'.st) /\ ClockKnown'
      <3>1. sb.live /\ ClockKnown /\ Stamped(st) /\ InTime(st)
        BY <2>1, <2>2, Zenon DEF DeadlineInv
      <3>2. /\ sb'.spec = sb.spec /\ sb'.created = sb.created /\ sb'.activity = sb.activity
            /\ sb'.st.phase = new.phase /\ sb'.st.started = new.started
            /\ sb'.st.paused = new.paused
        BY <1>1, <1>4, <3>1, PatchClock, Zenon DEF ClockKnown, SameClock
      <3>3. Stamped(new) /\ InTime(new)
        BY <1>1, <3>1, Zenon DEF Stamped, InTime
      <3>4. Stamped(sb'.st) /\ Stamped(des)' /\ InTime(des)'
        BY <1>4, <3>2, <3>3, Zenon DEF Stamped, InTime
      <3>5. SameClock(mem, sb)' /\ (~queue' => mem'.activity = sb'.activity)
        BY <1>4, <3>1, NotifyQuiet, Zenon DEF SameClock, ClockKnown
      <3>6. ASSUME ~queue' PROVE NotDue(mem, des)'
        <4>1. ~queue /\ UNCHANGED <<sb, pod>> /\ mem.activity = sb.activity
              /\ SameClock(mem, sb) /\ NotDue(mem, new)
          BY <1>1, <1>4, <3>1, <3>6, NotifyQuiet, Zenon DEF ClockKnown
        <4>2. HasIdleDeadline(mem') = HasIdleDeadline(mem)
              /\ SessionIdleDeadline(mem') = SessionIdleDeadline(mem)
              /\ mem'.spec = mem.spec
          BY <1>4, <4>1, Zenon DEF HasIdleDeadline, SessionIdleDeadline, LastSessionActivity,
             SameClock
        <4> QED BY <1>4, <4>1, <4>2, Zenon DEF NotDue, PauseDeadline
      <3>7. ~queue' => obs' = pod'
        BY <1>4, <3>1, NotifyQuiet, Zenon DEF ClockKnown
      <3> QED BY <1>4, <3>2, <3>4, <3>5, <3>6, <3>7, Zenon DEF ClockKnown, PodMissing, Decided,
           Derived, PodRead
    <2> QED BY <1>2, <1>4, <2>1, <2>2, ClockGoes, Zenon DEF Steps
  <1> QED BY <1>3, <1>4, Zenon DEF PatchDerived

(* The requeue covers the deadlines of what was decided. *)
LEMMA RequeueClock ==
  ASSUME TypeOK, DeadlineInv, pc = "act", UNCHANGED <<sb, now>>,
         pod'.phase # "Pending" => pod'.start # Unset,
         RequeueForDeadline(mem, des)
  PROVE  DeadlineInv'
  <1> DEFINE D == LifecycleDeadlines(mem, des)
  <1>1. pc' = "idle" /\ obs' = NoPod /\ Notify
    BY Zenon DEF RequeueForDeadline, Return, RequeueAt, Idle
  <1>2. NoPod.phase = "Pending" /\ "idle" \notin Steps
    BY Zenon DEF NoPod, Steps
  <1>3. ASSUME sb'.live, ~queue', OwnPod', ~sb'.deleting PROVE Scheduled'
    <2>1. sb.live /\ ~queue /\ UNCHANGED <<sb, pod>> /\ ClockKnown /\ Stamped(sb.st)
      BY <1>1, <1>3, NotifyQuiet, Zenon DEF DeadlineInv, Steps
    <2>2. /\ mem.spec = sb.spec /\ mem.created = sb.created
          /\ mem.st.started = sb.st.started /\ mem.activity = sb.activity
          /\ des.phase = sb.st.phase /\ des.started = sb.st.started
          /\ des.paused = sb.st.paused /\ NotDue(mem, des) /\ InTime(des)
      BY <2>1, Zenon DEF ClockKnown, SameClock, Decided, Derived
    <2>3. HasIdleDeadline(mem) = HasIdleDeadline(sb)
          /\ SessionIdleDeadline(mem) = SessionIdleDeadline(sb)
      BY <2>2, Zenon DEF HasIdleDeadline, SessionIdleDeadline, LastSessionActivity
    <2>4. D \subseteq Int /\ now \in Nat /\ wake \in Times
      <3>1. SessionIdleDeadline(mem) \in Int
        BY ConstantsAssumption DEF SessionIdleDeadline, LastSessionActivity, Later,
           TypeOK, Sandboxes, Statuses, Times, Unset
      <3>2. des.started \in Int /\ des.paused \in Int /\ mem.spec \in Specs
        BY DEF TypeOK, Sandboxes, Statuses, Times, Unset
      <3>3. mem.spec.timeout \in Nat /\ mem.spec.maxPause \in Nat
        BY <3>2, ConstantsAssumption, Zenon
      <3> QED BY <3>1, <3>2, <3>3 DEF LifecycleDeadlines, PauseDeadline, TypeOK
    <2> HIDE DEF D
    <2>5. ASSUME NEW e \in D
          PROVE  wake' # Unset /\ (now <= e => wake' <= e + 1) /\ (now < e => wake' <= e)
      <3>1. PICK d \in D : d <= e /\ RequeueAt(Later(d, now + 1))
        BY <2>5, Zenon DEF RequeueForDeadline, D
      <3> QED BY <2>4, <2>5, <3>1 DEF RequeueAt, Later, Times, Unset
    <2>6. ASSUME sb.st.phase = "Running", sb.spec.timeout > 0
          PROVE  wake' # Unset /\ wake' <= sb.st.started + sb.spec.timeout + 1
      <3>1. sb.st.started + sb.spec.timeout \in D
        BY <2>1, <2>2, <2>6, Zenon DEF D, LifecycleDeadlines, Stamped
      <3>2. now <= sb.st.started + sb.spec.timeout
        BY <2>2, <2>6, Zenon DEF InTime
      <3> QED BY <2>5, <3>1, <3>2, Zenon
    <2>7. ASSUME sb.st.phase = "Running", HasIdleDeadline(sb)
          PROVE  wake' # Unset /\ wake' <= SessionIdleDeadline(sb)
      <3>1. SessionIdleDeadline(sb) \in D
        BY <2>2, <2>3, <2>7, Zenon DEF D, LifecycleDeadlines
      <3>2. now < SessionIdleDeadline(sb)
        BY <2>2, <2>3, <2>7, Zenon DEF NotDue
      <3> QED BY <2>5, <3>1, <3>2, Zenon
    <2>8. ASSUME sb.st.phase = "Paused", sb.spec.maxPause > 0
          PROVE  wake' # Unset /\ wake' <= PauseDeadline(sb, sb.st)
      <3>1. /\ PauseDeadline(sb, sb.st) \in D
            /\ PauseDeadline(mem, des) = PauseDeadline(sb, sb.st)
        BY <2>1, <2>2, <2>8, Zenon DEF D, LifecycleDeadlines, HasPauseDeadline, PauseDeadline,
           Stamped
      <3>2. now < PauseDeadline(sb, sb.st)
        BY <2>2, <2>8, <3>1, Zenon DEF NotDue
      <3> QED BY <2>5, <3>1, <3>2, Zenon
    <2>9. /\ HasIdleDeadline(sb)' = HasIdleDeadline(sb)
          /\ SessionIdleDeadline(sb)' = SessionIdleDeadline(sb)
          /\ PauseDeadline(sb, sb.st)' = PauseDeadline(sb, sb.st)
      BY Zenon DEF HasIdleDeadline, SessionIdleDeadline, LastSessionActivity, PauseDeadline
    <2> QED BY <2>6, <2>7, <2>8, <2>9, Zenon DEF Scheduled
  <1> QED BY <1>1, <1>2, <1>3, Zenon DEF DeadlineInv

(* The steps of a reconcile up to the Pod keep the invariant of the        *)
(* deadlines.                                                              *)
LEMMA ToPodClock ==
  ASSUME TypeOK, DeadlineInv,
         \/ Begin \/ AddFinalizer \/ TeardownPod \/ TeardownPVC
         \/ reapExpiredEphemeral \/ Resolve \/ FailBackend \/ RecordBackend
         \/ EnsureBaseline \/ ApplyPolicy \/ EnsureWorkspacePVC
         \/ WaitForLauncherDisk \/ EnsureIdentity \/ CreatePod
  PROVE  DeadlineInv'
  <1> DEFINE PodOK == pod'.phase # "Pending" => pod'.start # Unset
  <1>1. UNCHANGED pod \/ DeletePod => PodOK
    BY Zenon DEF DeadlineInv, DeletePod, TypeOK, Pods
  <1>2. sb.live => Stamped(sb.st)
    BY Zenon DEF DeadlineInv
  <1>3. ASSUME pc \in Steps, UNCHANGED <<sb, mem, obs, now>>, UNCHANGED pod \/ DeletePod,
               Notify, pc' \in Steps \ Derived,
               pc' \in PodRead => pc \in PodRead, PodMissing' => ~obs.live,
               pc' \in {"teardown", "teardownPVC"} => pc \in {"teardown", "teardownPVC"},
               pc' # "reap"
        PROVE  DeadlineInv'
    <2>1. ASSUME sb.live PROVE ClockKnown'
      <3>1. ClockKnown
        BY <1>3, <2>1, Zenon DEF DeadlineInv
      <3>2. SameClock(mem, sb)'
        BY <1>3, <3>1, Zenon DEF ClockKnown, SameClock
      <3> QED BY <1>3, <3>1, <3>2, NotifyQuiet, Zenon DEF ClockKnown, Derived, Decided
    <2> QED BY <1>1, <1>2, <1>3, <2>1, ClockGoes, Zenon
  <1>4. \A s \in {Deleted(sb), Gone(sb)} :
          s.gen = sb.gen /\ (s.live => sb.live /\ s.st = sb.st /\ s.deleting)
    <2>1. /\ Gone(sb).gen = sb.gen /\ ~Gone(sb).live
      BY Zenon DEF Gone, TypeOK, Sandboxes
    <2>2. LET d == [sb EXCEPT !.deleting = TRUE]
          IN  d.gen = sb.gen /\ d.live = sb.live /\ d.st = sb.st /\ d.deleting
      BY Zenon DEF TypeOK, Sandboxes
    <2> QED BY <2>1, <2>2, Zenon DEF Deleted
  <1>5. ASSUME pc \in Steps, NEW r \in Reasons, HoldPending(r), UNCHANGED pod
        PROVE  DeadlineInv'
    <2>1. CASE ~sb.live
      <3>1. UNCHANGED sb \/ PatchStatus([mem.st EXCEPT !.phase = "Pending", !.reason = r,
                                                       !.ltt = now])
        BY <1>5, Zenon DEF HoldPending, patchPendingStatus
      <3>2. sb'.gen = sb.gen /\ ~sb'.live
        BY <2>1, <3>1, Zenon DEF PatchStatus, TypeOK, Sandboxes
      <3> QED BY <1>1, <1>5, <2>1, <3>2, ClockReturns, Zenon DEF HoldPending
    <2>2. CASE sb.live
      <3>1. SameClock(mem, sb)
        BY <1>5, <2>2, Zenon DEF DeadlineInv, ClockKnown
      <3>2. sb'.gen = sb.gen /\ sb'.st.phase \in {"Pending", "Failed"}
        BY <1>5, <2>2, <3>1, HoldClock, Zenon DEF HoldPending
      <3>3. Stamped(sb'.st) /\ (UNCHANGED sb => sb.st.phase \notin {"Running", "Paused"})
        BY <3>2, Zenon DEF Stamped
      <3> QED BY <1>1, <1>5, <2>2, <3>2, <3>3, ClockReturns, Zenon DEF HoldPending
    <2> QED BY <2>1, <2>2, Zenon
  <1>6. CASE Begin
    <2>1. /\ UNCHANGED <<sb, pod, obs, des>> /\ ~queue' /\ (sb.live => mem' = sb)
          /\ pc' = IF ~sb.live THEN "idle"
                   ELSE IF sb.deleting THEN "teardown"
                   ELSE IF needsFinalizer(sb) THEN "finalizer"
                   ELSE IF ownedByReap(sb) THEN "reap" ELSE "resolve"
      BY <1>6, Zenon DEF Begin, others, objs
    <2>2. CASE ~sb.live
      BY <2>1, <2>2, Zenon DEF DeadlineInv
    <2>3. CASE sb.live
      <3>1. SameClock(mem, sb)' /\ mem'.activity = sb'.activity
        BY <2>1, <2>3, Zenon DEF SameClock
      <3>2. ClockKnown'
        BY <2>1, <2>3, <3>1, Zenon DEF ClockKnown, PodRead, Derived, Decided, PodMissing,
           ownedByReap
      <3> QED BY <1>1, <1>2, <2>1, <2>3, <3>2, ClockGoes, Zenon DEF Steps
    <2> QED BY <2>2, <2>3, Zenon
  <1>7. CASE AddFinalizer
    <2>1. UNCHANGED pod /\ pc = "finalizer"
      BY <1>7, Zenon DEF AddFinalizer, others
    <2>2. CASE ~sb.live
      BY <1>1, <1>7, <2>1, <2>2, ClockReturns, Zenon DEF AddFinalizer
    <2>3. CASE sb.live
      <3>1. mem' = sb' /\ pc' = "resolve" /\ UNCHANGED obs
            /\ sb' = [sb EXCEPT !.finalizer = TRUE]
        BY <1>7, <2>3, Zenon DEF AddFinalizer, Goto
      <3>2. sb'.gen = sb.gen /\ sb'.st = sb.st
        BY <3>1, Zenon DEF TypeOK, Sandboxes
      <3>3. ClockKnown' /\ Stamped(sb'.st)
        BY <1>2, <2>3, <3>1, <3>2, Zenon DEF ClockKnown, SameClock, PodRead, Derived, Decided,
           PodMissing
      <3> QED BY <1>1, <2>1, <2>3, <3>1, <3>2, <3>3, ClockGoes, Zenon DEF Steps
    <2> QED BY <2>2, <2>3, Zenon
  <1>8. CASE TeardownPod
    <2>1. /\ UNCHANGED <<sb, mem, obs, now>> /\ DeletePod /\ Notify
          /\ pc = "teardown" /\ pc' = "teardownPVC"
      BY <1>8, Zenon DEF TeardownPod, others, Goto, DeletePod, env
    <2> QED BY <1>3, <2>1, Zenon DEF Steps, PodRead, Derived, PodMissing
  <1>9. CASE TeardownPVC
    <2>1. UNCHANGED pod /\ pc = "teardownPVC" /\ (UNCHANGED sb \/ sb' = Gone(sb))
          /\ (Return \/ RequeueAt(now + Poll))
      BY <1>9, Zenon DEF TeardownPVC, others
    <2>2. sb.live => sb.deleting
      BY <2>1, Zenon DEF DeadlineInv, ClockKnown, Steps
    <2>3. sb'.gen = sb.gen /\ (sb'.live => sb.live /\ Stamped(sb'.st))
      BY <1>2, <1>4, <2>1, Zenon
    <2> QED BY <1>1, <2>1, <2>2, <2>3, ClockReturns, Zenon
  <1>10. CASE reapExpiredEphemeral
    <2>1. /\ UNCHANGED pod /\ pc = "reap" /\ (UNCHANGED sb \/ sb' = Deleted(sb))
          /\ Return \/ \E t : RequeueAt(t)
      BY <1>10, Zenon DEF reapExpiredEphemeral, others
    <2>2. sb.live => sb.st.phase \notin {"Running", "Paused"}
      BY <2>1, Zenon DEF DeadlineInv, ClockKnown, Steps, Terminal
    <2>3. sb'.gen = sb.gen /\ (sb'.live => sb.live /\ Stamped(sb'.st))
      BY <1>2, <1>4, <2>1, Zenon
    <2> QED BY <1>1, <2>1, <2>2, <2>3, ClockReturns, Zenon
  <1>11. {"TenantLabelMissing", "ConstraintViolated", "SnapshotUnavailable",
          "SnapshotIncompatible", "ClassNotFound", "DiskBuilding", "DiskBuildFailed"}
           \subseteq Reasons
    BY Zenon DEF Reasons, PendingReasons
  <1>12. CASE Resolve
    <2>1. UNCHANGED <<pod, now>> /\ pc = "resolve" /\ pc \in Steps
      BY <1>12, Zenon DEF Resolve, others, env, Steps
    <2>2. CASE handleUnresolvableClass
      <3>1. CASE HoldPending("ClassNotFound")
        BY <1>5, <1>11, <2>1, <3>1, Zenon
      <3>2. CASE UNCHANGED sb /\ Return /\ mem.st.phase \in Terminal
        <4>1. sb.live => sb.st.phase \notin {"Running", "Paused"}
          BY <2>1, <3>2, Zenon DEF DeadlineInv, ClockKnown, SameClock, Terminal
        <4> QED BY <1>1, <1>2, <2>1, <3>2, <4>1, ClockReturns, Zenon
      <3>3. CASE sb' = (IF sb.live THEN Deleted(sb) ELSE sb) /\ Return
        <4>1. sb'.gen = sb.gen /\ (sb'.live => sb.live /\ sb'.st = sb.st /\ sb'.deleting)
          BY <1>4, <3>3, Zenon
        <4>2. sb.live /\ UNCHANGED sb => sb.deleting
          BY <4>1, Zenon
        <4> QED BY <1>1, <1>2, <2>1, <3>3, <4>1, <4>2, ClockReturns, Zenon
      <3>4. CASE /\ sb.live \/ mem.st.phase = "Failed"
                 /\ patchFailedStatus("ClassNotFound")
                 /\ RequeueAt(mem.created + Grace + OrphanRetention)
        <4>1. CASE ~sb.live
          <5>1. sb'.gen = sb.gen /\ ~sb'.live
            BY <3>4, <4>1, Zenon DEF patchFailedStatus, PatchStatus, TypeOK, Sandboxes
          <5> QED BY <1>1, <2>1, <3>4, <4>1, <5>1, ClockReturns, Zenon
        <4>2. CASE sb.live
          <5>1. SameClock(mem, sb)
            BY <2>1, <4>2, Zenon DEF DeadlineInv, ClockKnown
          <5>2. sb'.gen = sb.gen /\ sb'.st.phase \in {"Pending", "Failed"}
            BY <1>11, <3>4, <5>1, HoldClock, Zenon
          <5>3. Stamped(sb'.st) /\ (UNCHANGED sb => sb.st.phase \notin {"Running", "Paused"})
            BY <5>2, Zenon DEF Stamped
          <5> QED BY <1>1, <2>1, <3>4, <4>2, <5>2, <5>3, ClockReturns, Zenon
        <4> QED BY <4>1, <4>2, Zenon
      <3>5. CASE ~sb.live /\ UNCHANGED sb /\ ReturnErr
        BY <1>1, <2>1, <3>5, ClockReturns, Zenon
      <3> QED BY <2>2, <3>1, <3>2, <3>3, <3>4, <3>5, Zenon DEF handleUnresolvableClass
    <2>3. CASE \E r \in Reasons : HoldPending(r)
      BY <1>5, <2>1, <2>3, Zenon
    <2>4. CASE UNCHANGED sb /\ ToPod
      <3>1. CASE finishedWithoutPod
        <4>1. Return /\ ~pod.live
          BY <2>4, <3>1, Zenon DEF ToPod, finishedWithoutPod
        <4> QED BY <1>1, <1>2, <2>1, <2>4, <4>1, ClockReturns, Zenon
      <3>2. CASE ~finishedWithoutPod
        <4>1. /\ mem' = mem /\ obs' = pod /\ Notify
              /\ (pc' = "policies" /\ pod.live) \/ (pc' \in {"badBackend", "backend"}
                                                    /\ ~pod.live)
          BY <2>4, <3>2, Zenon DEF ToPod
        <4>2. ASSUME sb.live PROVE ClockKnown'
          <5>1. ClockKnown
            BY <2>1, <4>2, Zenon DEF DeadlineInv
          <5>2. SameClock(mem, sb)'
            BY <2>4, <4>1, <5>1, Zenon DEF ClockKnown, SameClock
          <5> QED BY <2>1, <2>4, <4>1, <5>1, <5>2, NotifyQuiet, Zenon DEF ClockKnown, Derived,
               Decided, PodMissing
        <4> QED BY <1>1, <1>2, <2>1, <2>4, <4>1, <4>2, ClockGoes, Zenon DEF Steps
      <3> QED BY <3>1, <3>2, Zenon
    <2> QED BY <1>11, <1>12, <2>2, <2>3, <2>4, Zenon DEF Resolve
  <1>13. CASE FailBackend
    <2> DEFINE f == [mem.st EXCEPT !.phase = "Failed", !.reason = "UnsupportedBackend"]
    <2>1. f \in Statuses /\ f.phase = "Failed"
      BY Zenon DEF TypeOK, Sandboxes, Statuses, Phases, Terminal, Reasons
    <2>2. /\ UNCHANGED pod /\ pc = "badBackend" /\ pc \in Steps
          /\ \/ sb.live /\ PatchStatus(f) /\ Return
             \/ ~sb.live /\ UNCHANGED sb /\ ReturnErr
      BY <1>13, Zenon DEF FailBackend, others, Steps
    <2> HIDE DEF f
    <2>3. CASE sb.live
      <3>1. SameClock(mem, sb)
        BY <2>2, <2>3, Zenon DEF DeadlineInv, ClockKnown
      <3>2. sb'.gen = sb.gen /\ sb'.st.phase = "Failed"
        BY <2>1, <2>2, <2>3, <3>1, PatchClock, Zenon
      <3>3. Stamped(sb'.st) /\ (UNCHANGED sb => sb.st.phase \notin {"Running", "Paused"})
        BY <3>2, Zenon DEF Stamped
      <3> QED BY <1>1, <2>2, <2>3, <3>2, <3>3, ClockReturns, Zenon
    <2> QED BY <1>1, <2>2, <2>3, ClockReturns, Zenon
  <1>14. CASE RecordBackend
    <2> DEFINE st == [mem.st EXCEPT !.runtime = TRUE]
    <2>1. /\ st \in Statuses /\ st.phase = mem.st.phase /\ st.started = mem.st.started
          /\ st.paused = mem.st.paused
      BY Zenon DEF TypeOK, Sandboxes, Statuses
    <2>2. UNCHANGED pod /\ pc = "backend" /\ pc' = "policies" /\ obs' = obs /\ Notify
      BY <1>14, Zenon DEF RecordBackend, Goto
    <2>3. sb.live => ClockKnown /\ ~obs.live
      BY <2>2, Zenon DEF DeadlineInv, ClockKnown, PodMissing, Steps
    <2>4. CASE UNCHANGED sb /\ mem' \in {mem, [mem EXCEPT !.st.runtime = TRUE]}
      <3>1. /\ mem'.spec = mem.spec /\ mem'.created = mem.created
            /\ mem'.activity = mem.activity /\ mem'.st.phase = mem.st.phase
            /\ mem'.st.started = mem.st.started /\ mem'.st.paused = mem.st.paused
        BY <2>4 DEF TypeOK, Sandboxes, Statuses
      <3>2. sb.live => ClockKnown'
        BY <2>2, <2>3, <2>4, <3>1, NotifyQuiet, Zenon
        DEF ClockKnown, SameClock, PodRead, Derived,
           Decided, PodMissing
      <3> QED BY <1>1, <1>2, <2>2, <2>4, <3>2, ClockGoes, Zenon DEF Steps
    <2>5. CASE sb.live /\ PatchStatus(st) /\ mem' = sb'
      <3> HIDE DEF st
      <3>1. SameClock(mem, sb) /\ ~obs.live
        BY <2>3, <2>5, Zenon DEF ClockKnown
      <3>2. /\ sb'.gen = sb.gen /\ sb'.live = sb.live /\ sb'.st.phase = sb.st.phase
            /\ sb'.st.started = sb.st.started /\ sb'.st.paused = sb.st.paused
        BY <2>1, <2>5, <3>1, PatchClock, Zenon DEF SameClock
      <3>3. Stamped(sb'.st)
        BY <1>2, <2>5, <3>2, Zenon DEF Stamped
      <3>4. ClockKnown'
        BY <2>2, <2>3, <2>5, <3>1, NotifyQuiet, Zenon
        DEF ClockKnown, SameClock, PodRead, Derived,
           Decided, PodMissing
      <3> QED BY <1>1, <2>2, <2>5, <3>2, <3>3, <3>4, ClockGoes, Zenon DEF Steps
    <2> QED BY <1>14, <2>4, <2>5, Zenon DEF RecordBackend
  <1>15. CASE EnsureBaseline \/ ApplyPolicy
    <2>1. /\ UNCHANGED <<sb, pod, mem, obs, now>> /\ pc \in {"policies", "netpol"} /\ Notify
          /\ \/ pc' = "netpol" \/ (pc' = "derive" /\ obs.live)
             \/ pc' \in {"pvc", "disk"} /\ ~obs.live
      BY <1>15, Zenon DEF EnsureBaseline, ApplyPolicy, AfterPolicies, others, Goto, env
    <2> QED BY <1>3, <2>1, Zenon DEF Steps, PodRead, Derived, PodMissing
  <1>16. CASE EnsureWorkspacePVC \/ WaitForLauncherDisk
    <2>1. UNCHANGED <<pod, now>> /\ pc \in {"pvc", "disk"} /\ pc \in Steps
      BY <1>16, Zenon DEF EnsureWorkspacePVC, WaitForLauncherDisk, others, env, Steps
    <2>2. sb.live => ~obs.live
      BY <2>1, Zenon DEF DeadlineInv, ClockKnown, PodMissing
    <2>3. CASE HoldPending("DiskBuilding")
      BY <1>5, <1>11, <2>1, <2>3, Zenon
    <2>4. CASE sb.live /\ patchFailedStatus("DiskBuildFailed") /\ Return
      <3>1. SameClock(mem, sb)
        BY <2>1, <2>4, Zenon DEF DeadlineInv, ClockKnown
      <3>2. sb'.gen = sb.gen /\ sb'.st.phase \in {"Pending", "Failed"}
        BY <1>11, <2>4, <3>1, HoldClock, Zenon
      <3>3. Stamped(sb'.st) /\ (UNCHANGED sb => sb.st.phase \notin {"Running", "Paused"})
        BY <3>2, Zenon DEF Stamped
      <3> QED BY <1>1, <2>1, <2>4, <3>2, <3>3, ClockReturns, Zenon
    <2>5. CASE UNCHANGED sb /\ ReturnErr
      <3>1. ReturnErr => queue' = TRUE /\ pc' = "idle" /\ obs' = NoPod
        BY Zenon DEF ReturnErr, Idle
      <3>2. NoPod.phase = "Pending" /\ "idle" \notin Steps
        BY Zenon DEF NoPod, Steps
      <3> QED BY <1>1, <2>1, <2>5, <3>1, <3>2, Zenon DEF DeadlineInv
    <2>6. CASE UNCHANGED <<sb, mem, obs>> /\ Notify /\ pc' \in {"disk", "identity"}
      <3>1. ASSUME sb.live PROVE ClockKnown'
        <4>1. ClockKnown /\ ~obs.live
          BY <2>1, <2>2, <3>1, Zenon DEF DeadlineInv
        <4> QED BY <2>1, <2>6, <4>1, NotifyQuiet, Zenon DEF ClockKnown, SameClock, PodRead,
             Derived, Decided, PodMissing
      <3> QED BY <1>1, <1>2, <2>1, <2>6, <3>1, ClockGoes, Zenon DEF Steps
    <2> QED BY <1>16, <2>3, <2>4, <2>5, <2>6, Zenon
         DEF EnsureWorkspacePVC, WaitForLauncherDisk, others, Goto
  <1>17. CASE EnsureIdentity
    <2> DEFINE st == [mem.st EXCEPT !.identity = TRUE]
    <2>1. /\ st \in Statuses /\ st.phase = mem.st.phase /\ st.started = mem.st.started
          /\ st.paused = mem.st.paused
      BY Zenon DEF TypeOK, Sandboxes, Statuses
    <2>2. UNCHANGED pod /\ pc = "identity"
      BY <1>17, Zenon DEF EnsureIdentity, others
    <2>3. sb.live => ClockKnown /\ ~obs.live
      BY <2>2, Zenon DEF DeadlineInv, ClockKnown, PodMissing, Steps
    <2>4. CASE UNCHANGED sb /\ ReturnErr /\ ~sb.live
      BY <1>1, <2>2, <2>4, ClockReturns, Zenon
    <2>5. CASE UNCHANGED <<sb, mem, obs>> /\ pc' = "create" /\ Notify
      <3>1. sb.live => ClockKnown'
        BY <2>2, <2>3, <2>5, NotifyQuiet, Zenon DEF ClockKnown, SameClock, PodRead, Derived,
           Decided, PodMissing
      <3> QED BY <1>1, <1>2, <2>2, <2>5, <3>1, ClockGoes, Zenon DEF Steps
    <2>6. CASE sb.live /\ PatchStatus(st) /\ mem' = sb' /\ UNCHANGED obs
               /\ pc' = "create" /\ Notify
      <3> HIDE DEF st
      <3>1. SameClock(mem, sb) /\ ~obs.live
        BY <2>3, <2>6, Zenon DEF ClockKnown
      <3>2. /\ sb'.gen = sb.gen /\ sb'.live = sb.live /\ sb'.st.phase = sb.st.phase
            /\ sb'.st.started = sb.st.started /\ sb'.st.paused = sb.st.paused
        BY <2>1, <2>6, <3>1, PatchClock, Zenon DEF SameClock
      <3>3. Stamped(sb'.st)
        BY <1>2, <2>6, <3>2, Zenon DEF Stamped
      <3>4. ClockKnown'
        BY <2>2, <2>3, <2>6, <3>1, NotifyQuiet, Zenon
        DEF ClockKnown, SameClock, PodRead, Derived,
           Decided, PodMissing
      <3> QED BY <1>1, <2>2, <2>6, <3>2, <3>3, <3>4, ClockGoes, Zenon DEF Steps
    <2> QED BY <1>17, <2>4, <2>5, <2>6, Zenon DEF EnsureIdentity, Goto
  <1>18. CASE CreatePod
    <2>1. UNCHANGED sb /\ pc = "create" /\ Return /\ pod' = IF pod.live THEN pod ELSE NewPod
      BY <1>18, Zenon DEF CreatePod, others
    <2>2. NewPod.phase = "Pending" /\ NewPod.live
      BY Zenon DEF NewPod, NoPod
    <2>3. PodOK
      BY <1>1, <2>1, <2>2, Zenon
    <2>4. sb.live /\ ~queue => ~pod.live
      BY <2>1, Zenon DEF DeadlineInv, ClockKnown, PodMissing, PodRead, Steps
    <2> QED BY <1>2, <2>1, <2>3, <2>4, ClockReturns, Zenon
  <1> QED BY <1>6, <1>7, <1>8, <1>9, <1>10, <1>12, <1>13, <1>14, <1>15, <1>16, <1>17, <1>18, Zenon

(* So do the steps from the Pod on. *)
LEMMA FromPodClock ==
  ASSUME TypeOK, DeadlineInv,
         \/ DeriveStatus \/ RestoreLauncher \/ AnnotateRestored \/ PatchRestored
         \/ RestartExitedSession \/ PauseVM \/ ResumeVM \/ RecordPaused
         \/ RecordResumed \/ FinishPod
  PROVE  DeadlineInv'
  <1> DEFINE PodOK == pod'.phase # "Pending" => pod'.start # Unset
  <1>1. UNCHANGED pod \/ DeletePod => PodOK
    BY Zenon DEF DeadlineInv, DeletePod, TypeOK, Pods
  <1>2. sb.live => Stamped(sb.st)
    BY Zenon DEF DeadlineInv
  <1>3. CASE DeriveStatus
    <2> DEFINE st == Derive(mem, obs)
    <2>1. UNCHANGED <<pod, now>> /\ pc = "derive" /\ pc \in Steps /\ pc \in PodRead
      BY <1>3, Zenon DEF DeriveStatus, others, env, Steps, PodRead
    <2>2. ASSUME sb.live PROVE ClockKnown /\ Stamped(st) /\ InTime(st)
      <3>1. ClockKnown /\ mem.spec = sb.spec
        BY <2>1, <2>2, Zenon DEF DeadlineInv, ClockKnown, SameClock
      <3>2. Stamped(mem.st)
        BY <1>2, <2>2, <3>1, Zenon DEF Stamped, ClockKnown, SameClock
      <3>3. obs.phase # "Pending" => obs.start # Unset
        BY Zenon DEF DeadlineInv
      <3> QED BY <3>1, <3>2, <3>3, DeriveClock, Zenon
    <2>3. st \in Statuses
      BY DeriveType, Zenon DEF TypeOK
    <2> HIDE DEF st
    <2>4. CASE PatchDerived(st)
      BY <2>1, <2>2, <2>3, <2>4, PatchDerivedClock, Zenon
    <2>5. CASE UNCHANGED <<sb, mem, obs>> /\ pc' = "restore" /\ des' = st /\ Notify
      <3>1. ASSUME sb.live PROVE ClockKnown'
        <4>1. Stamped(des)' /\ InTime(des)' /\ SameClock(mem, sb)' /\ ClockKnown
          BY <2>1, <2>2, <2>5, <3>1, Zenon DEF Stamped, InTime, SameClock, ClockKnown
        <4> QED BY <2>1, <2>5, <4>1, NotifyQuiet, Zenon DEF ClockKnown, PodMissing, Decided,
             PodRead
      <3> QED BY <1>1, <1>2, <2>1, <2>5, <3>1, ClockGoes, Zenon DEF Steps
    <2> QED BY <1>3, <2>4, <2>5, Zenon DEF DeriveStatus, st
  <1>4. ASSUME NEW r, restoreFailed(r) PROVE des'.phase = "Failed"
    BY <1>4, Zenon DEF restoreFailed, TypeOK, Statuses
  <1>5. CASE RestoreLauncher
    <2>1. /\ UNCHANGED <<sb, mem, obs, now>> /\ pc = "restore" /\ Notify
          /\ pc' \in {"annotate", "status"} /\ (UNCHANGED des \/ des'.phase = "Failed")
      BY <1>4, <1>5, Zenon DEF RestoreLauncher
    <2>2. PodOK
      BY <1>1, <1>5, Zenon DEF RestoreLauncher, DeadlineInv, TypeOK, Pods
    <2>3. ASSUME sb.live PROVE ClockKnown'
      <3>1. ClockKnown
        BY <2>1, <2>3, Zenon DEF DeadlineInv, Steps
      <3>2. Stamped(des)' /\ InTime(des)' /\ SameClock(mem, sb)'
        BY <2>1, <3>1, Zenon DEF Stamped, InTime, SameClock, ClockKnown, Derived
      <3> QED BY <2>1, <3>1, <3>2, NotifyQuiet, Zenon
          DEF ClockKnown, PodMissing, Decided, PodRead
    <2> QED BY <1>2, <2>1, <2>2, <2>3, ClockGoes, Zenon DEF Steps
  <1>6. CASE AnnotateRestored
    <2>1. UNCHANGED <<pod, obs, now>> /\ pc = "annotate" /\ pc' = "status" /\ Notify
      BY <1>6, Zenon DEF AnnotateRestored
    <2>2. sb.live => ClockKnown
      BY <2>1, Zenon DEF DeadlineInv, Steps
    <2>3. /\ sb'.gen = sb.gen /\ sb'.live = sb.live /\ sb'.st = sb.st /\ sb'.spec = sb.spec
          /\ sb'.created = sb.created /\ sb'.activity = sb.activity
          /\ mem'.st \in {mem.st, sb.st} /\ mem'.spec \in {mem.spec, sb.spec}
          /\ UNCHANGED des \/ des'.phase = "Failed"
      BY <1>4, <1>6 DEF AnnotateRestored, TypeOK, Sandboxes
    <2>4. \/ mem' = sb'
          \/ mem'.spec = mem.spec /\ mem'.created = mem.created /\ mem'.st = mem.st
             /\ mem'.activity = mem.activity /\ UNCHANGED sb
      BY <1>6, Zenon DEF AnnotateRestored, TypeOK, Sandboxes
    <2>5. ASSUME sb.live PROVE ClockKnown'
      <3>1. SameClock(mem, sb)' /\ (~queue' => mem'.activity = sb'.activity)
        BY <2>1, <2>2, <2>3, <2>4, <2>5, NotifyQuiet, Zenon DEF SameClock, ClockKnown
      <3>2. Stamped(des)' /\ InTime(des)'
        BY <2>1, <2>2, <2>3, <2>5, Zenon DEF Stamped, InTime, ClockKnown, Derived
      <3> QED BY <2>1, <2>2, <2>5, <3>1, <3>2, NotifyQuiet, Zenon
           DEF ClockKnown, PodMissing, Decided, PodRead
    <2> QED BY <1>1, <1>2, <2>1, <2>3, <2>5, ClockGoes, Zenon DEF Steps
  <1>7. CASE PatchRestored
    <2>1. UNCHANGED <<pod, now>> /\ pc = "status" /\ PatchDerived(des)
      BY <1>7, Zenon DEF PatchRestored, others, env
    <2>2. sb.live => Stamped(des) /\ InTime(des)
      BY <2>1, Zenon DEF DeadlineInv, ClockKnown, Derived, Steps
    <2> QED BY <2>1, <2>2, PatchDerivedClock, Zenon DEF TypeOK, Steps, PodRead
  <1>8. CASE RestartExitedSession
    <2>1. UNCHANGED sb /\ DeletePod /\ Return /\ pc = "act" /\ ~obs.deleting
      BY <1>8, Zenon DEF RestartExitedSession, others, sessionPodEnded
    <2>2. sb.live /\ ~queue /\ UNCHANGED pod => ~pod.live
      <3>1. sb.live /\ ~queue => obs = pod
        BY <2>1, Zenon DEF DeadlineInv, ClockKnown, Steps, PodRead
      <3> QED BY <2>1, <3>1, Zenon DEF DeletePod, TypeOK, Pods
    <2> QED BY <1>1, <1>2, <2>1, <2>2, ClockReturns, Zenon
  <1>9. CASE PauseVM \/ ResumeVM
    <2>1. UNCHANGED <<sb, now>> /\ pc = "act"
      BY <1>9, Zenon DEF PauseVM, ResumeVM, others, env
    <2>2. PodOK
      BY <1>1, <1>9, Zenon DEF PauseVM, ResumeVM, DeadlineInv, TypeOK, Pods
    <2>3. CASE ReturnErr
      <3>1. queue' = TRUE /\ pc' = "idle" /\ obs' = NoPod
        BY <2>3, Zenon DEF ReturnErr, Idle
      <3>2. NoPod.phase = "Pending" /\ "idle" \notin Steps
        BY Zenon DEF NoPod, Steps
      <3> QED BY <2>1, <2>2, <3>1, <3>2, Zenon DEF DeadlineInv
    <2>4. CASE /\ UNCHANGED <<mem, obs, des>> /\ Notify
               /\ \/ pc' = "paused" /\ des.phase = "Running"
                  \/ pc' = "resumed" /\ des.phase = "Paused"
      <3>1. ASSUME sb.live PROVE ClockKnown'
        <4>1. ClockKnown
          BY <2>1, <3>1, Zenon DEF DeadlineInv, Steps
        <4>2. Stamped(des)' /\ InTime(des)' /\ SameClock(mem, sb)'
          BY <2>1, <2>4, <4>1, Zenon DEF Stamped, InTime, SameClock, ClockKnown, Derived
        <4>3. ~queue' => NotDue(mem, des)'
          BY <2>1, <2>4, <4>1, NotifyQuiet, Zenon DEF ClockKnown, Decided, NotDue,
             HasIdleDeadline, SessionIdleDeadline, LastSessionActivity, PauseDeadline
        <4> QED BY <2>1, <2>4, <4>1, <4>2, <4>3, NotifyQuiet, Zenon
             DEF ClockKnown, PodMissing, Decided, PodRead
      <3> QED BY <1>2, <2>1, <2>2, <2>4, <3>1, ClockGoes, Zenon DEF Steps
    <2> QED BY <1>9, <2>3, <2>4, Zenon DEF PauseVM, ResumeVM, pauseDue, resumeDue, Goto
  <1>10. CASE RecordPaused \/ RecordResumed
    <2> DEFINE p == [mem.st EXCEPT !.phase = "Paused", !.reason = "UserPaused",
                                   !.ltt = now, !.paused = now]
               q == [mem.st EXCEPT !.phase = "Running", !.reason = "",
                                   !.ltt = now, !.paused = Unset]
    <2>1. /\ p \in Statuses /\ p.phase = "Paused" /\ p.started = mem.st.started
          /\ p.paused = now /\ now # Unset
      <3>1. mem.st \in Statuses /\ now \in Times /\ now # Unset
        BY DEF TypeOK, Sandboxes, Times, Unset
      <3>2. p \in Statuses
        BY <3>1, Zenon DEF Statuses, Phases, Reasons
      <3>3. p.phase = "Paused" /\ p.started = mem.st.started /\ p.paused = now
        BY <3>1, Zenon DEF Statuses
      <3> QED BY <3>1, <3>2, <3>3, Zenon
    <2>2. q \in Statuses /\ q.phase = "Running" /\ q.started = mem.st.started
      BY ZenonT(30) DEF TypeOK, Sandboxes, Statuses, Phases, Reasons, PendingReasons, Times
    <2>3. /\ UNCHANGED pod /\ pc \in Steps
          /\ \/ sb.live /\ pc = "paused" /\ PatchStatus(p) /\ RequeueForDeadline(mem, des)
             \/ sb.live /\ pc = "resumed" /\ PatchStatus(q) /\ RequeueForDeadline(mem, des)
             \/ ~sb.live /\ UNCHANGED sb /\ ReturnErr
      BY <1>10, Zenon DEF RecordPaused, RecordResumed, patchPhase, others, Steps
    <2>4. RequeueForDeadline(mem, des) => Return \/ \E t : RequeueAt(t)
      BY Zenon DEF RequeueForDeadline
    <2> HIDE DEF p, q
    <2>5. CASE ~sb.live
      BY <1>1, <2>3, <2>5, ClockReturns, Zenon
    <2>6. CASE sb.live
      <3>1. /\ SameClock(mem, sb)
            /\ pc = "paused" => sb.st.phase = "Running"
            /\ pc = "resumed" => sb.st.phase = "Paused"
        BY <2>3, <2>6, Zenon DEF DeadlineInv, ClockKnown, Decided
      <3>2. mem.st.started # Unset
        BY <1>2, <2>3, <2>6, <3>1, Zenon DEF Stamped, SameClock
      <3>3. /\ sb'.gen = sb.gen /\ sb'.live = sb.live /\ sb'.st.phase # sb.st.phase
            /\ Stamped(sb'.st)
        <4>1. CASE pc = "paused" /\ PatchStatus(p)
          BY <2>1, <3>1, <3>2, <4>1, PatchClock, Zenon DEF Stamped
        <4>2. CASE pc = "resumed" /\ PatchStatus(q)
          BY <2>2, <3>1, <3>2, <4>2, PatchClock, Zenon DEF Stamped
        <4> QED BY <2>3, <2>6, <4>1, <4>2, Zenon
      <3> QED BY <1>1, <2>3, <2>4, <2>6, <3>3, ClockReturns, Zenon
    <2> QED BY <2>5, <2>6, Zenon
  <1>11. CASE FinishPod
    <2>1. /\ UNCHANGED <<sb, now>> /\ (DeletePod \/ UNCHANGED pod) /\ pc = "act"
          /\ RequeueForDeadline(mem, des)
      BY <1>11, Zenon DEF FinishPod, others, env
    <2> QED BY <1>1, <2>1, RequeueClock, Zenon
  <1> QED BY <1>3, <1>5, <1>6, <1>7, <1>8, <1>9, <1>10, <1>11, Zenon

(* So does everything around the reconciler. *)
LEMMA EnvironmentClock ==
  ASSUME OneSandbox, TypeOK, DeadlineInv, Environment
  PROVE  DeadlineInv'
  <1>1. /\ pod.phase # "Pending" => pod.start # Unset
        /\ NoPod.phase = "Pending" /\ "idle" \notin Steps /\ "down" \notin Steps
    BY Zenon DEF DeadlineInv, NoPod, Steps
  <1>2. UNCHANGED sb => sb'.gen = sb.gen /\ (sb'.live => sb.live /\ SameClock(sb', sb))
    BY Zenon DEF SameClock
  <1>3. CASE Crash \/ ApiError \/ Restart
    <2>1. /\ UNCHANGED <<sb, pod>> /\ obs' \in {NoPod, obs}
          /\ pc' = "down" \/ (pc' = "idle" /\ queue' = TRUE)
      BY <1>3, Zenon DEF Crash, ApiError, Restart, ReturnErr, Idle, objs
    <2> QED BY <1>1, <2>1, Zenon DEF DeadlineInv
  <1>4. CASE Tick \/ ChangeWorld \/ Tamper \/ PVCRemoved \/ CollectPolicy
    <2>1. /\ UNCHANGED <<sb, pod, rec, wake>> /\ (UNCHANGED now \/ pc \notin Steps)
          /\ UNCHANGED queue \/ Notify
      BY <1>1, <1>4, Zenon DEF Tick, ChangeWorld, Tamper, PVCRemoved, CollectPolicy, objs, env
    <2>2. ~queue' => ~queue
      BY <2>1, NotifyQuiet, Zenon
    <2> QED BY <1>1, <1>2, <2>1, <2>2, ClockStands, Zenon
  <1>5. CASE PolicyNotReadable
    <2>1. /\ UNCHANGED <<sb, pod, now>> /\ pc = "netpol"
          /\ \/ ~obs.live /\ RequeueAt(now + Poll)
             \/ /\ UNCHANGED <<mem, obs, des>> /\ Notify
                /\ pc' = "derive" \/ (pc' \in {"pvc", "disk"} /\ ~obs.live)
      BY <1>5, Zenon DEF PolicyNotReadable, DefersPod, AfterPolicies, Goto
    <2>2. sb.live => ClockKnown /\ Stamped(sb.st)
      BY <2>1, Zenon DEF DeadlineInv, Steps
    <2>3. CASE ~obs.live /\ RequeueAt(now + Poll)
      <3>1. sb.live /\ ~queue => ~pod.live
        BY <2>1, <2>2, <2>3, Zenon DEF ClockKnown, PodRead
      <3> QED BY <1>1, <2>1, <2>2, <2>3, <3>1, ClockReturns, Zenon
    <2>4. CASE /\ UNCHANGED <<mem, obs, des>> /\ Notify
               /\ pc' = "derive" \/ (pc' \in {"pvc", "disk"} /\ ~obs.live)
      <3>1. sb.live => ClockKnown'
        BY <2>1, <2>2, <2>4, NotifyQuiet, Zenon DEF ClockKnown, SameClock, PodRead, Derived,
           Decided, PodMissing
      <3> QED BY <1>1, <2>1, <2>2, <2>4, <3>1, ClockGoes, Zenon DEF Steps
    <2> QED BY <2>1, <2>3, <2>4, Zenon
  <1>6. CASE PodStarts \/ PodPullFails \/ PodReady \/ PodUnready \/ PodExits
             \/ PodEvicted \/ PodRemoved \/ CollectPod
    <2>1. UNCHANGED <<sb, rec, wake, now>> /\ Notify
      BY <1>6, Zenon DEF PodStarts, PodPullFails, PodReady, PodUnready, PodExits, PodEvicted,
         PodRemoved, CollectPod, Kubelet, env
    <2>2. pod'.phase # "Pending" => pod'.start # Unset
      <3>1. CASE PodStarts
        <4>1. PICK t \in pod.created .. now :
                pod' = [pod EXCEPT !.phase = "Running", !.start = t, !.pull = FALSE]
          BY <3>1, Zenon DEF PodStarts, Kubelet
        <4>2. t # Unset
          BY <4>1 DEF TypeOK, Pods, Unset
        <4> QED BY <4>1, <4>2, Zenon DEF TypeOK, Pods
      <3>2. CASE PodPullFails \/ PodReady \/ PodUnready \/ PodEvicted \/ CollectPod
        BY <1>1, <3>2, Zenon DEF PodPullFails, PodReady, PodUnready, PodEvicted, CollectPod,
           Kubelet, TypeOK, Pods
      <3>3. CASE PodExits
        BY <1>1, <3>3, Zenon DEF PodExits, Kubelet, TypeOK, Pods
      <3>4. CASE PodRemoved
        BY <1>1, <3>4, Zenon DEF PodRemoved, Kubelet
      <3> QED BY <1>6, <3>1, <3>2, <3>3, <3>4, Zenon
    <2> QED BY <1>2, <2>1, <2>2, NotifyQuiet, ClockStands, Zenon
  <1>7. CASE DeleteSandbox \/ SetDesiredState \/ StampActivity
    <2>1. UNCHANGED <<pod, rec, wake, now>> /\ Notify
      BY <1>7, Zenon DEF DeleteSandbox, SetDesiredState, StampActivity, Caller, env
    <2>2. sb'.gen = sb.gen
          /\ (sb'.live => /\ sb.live /\ SameClock(sb', sb) /\ sb'.st = sb.st
                          /\ sb.deleting => sb'.deleting)
      <3>1. CASE DeleteSandbox
        <4>1. CASE sb' = [sb EXCEPT !.deleting = TRUE]
          BY <4>1, Zenon DEF SameClock, TypeOK, Sandboxes
        <4>2. CASE sb' = Gone(sb)
          BY <4>2, Zenon DEF Gone, TypeOK, Sandboxes
        <4> QED BY <3>1, <4>1, <4>2, Zenon DEF DeleteSandbox, Caller, Deleted
      <3>2. CASE SetDesiredState \/ StampActivity
        BY <3>2, ZenonT(30)
        DEF SetDesiredState, StampActivity, Caller, SameClock, TypeOK, Sandboxes
      <3> QED BY <1>7, <3>1, <3>2, Zenon
    <2> QED BY <1>1, <2>1, <2>2, NotifyQuiet, ClockStands, Zenon
  <1>8. ~CreateSandbox
    BY DEF CreateSandbox, OneSandbox, DeadlineInv
  <1> QED BY <1>3, <1>4, <1>5, <1>6, <1>7, <1>8, Zenon DEF Environment

(* When no reconcile is due, no Running Sandbox whose name is used once is *)
(* past its timeout or its idle deadline, and no Paused one past its pause *)
(* cap: every way out of a reconcile leaves a wake-up no later than the    *)
(* deadlines, or an event in the queue.                                    *)
THEOREM DeadlinesSafe ==
  ASSUME OneSandbox
  PROVE  Spec => []NoForgottenDeadline
  <1>1. Init => DeadlineInv
    <2>1. \A s : Fresh(1, s).gen = 1 /\ Fresh(1, s).st.phase = ""
      BY Zenon DEF Fresh, NoStatus
    <2>2. NoPod.phase = "Pending" /\ "idle" \notin Steps
      BY Zenon DEF NoPod, Steps
    <2> QED BY <2>1, <2>2, Zenon DEF Init, DeadlineInv, Stamped
  <1>2. TypeOK /\ DeadlineInv /\ [Next]_vars => DeadlineInv'
    <2>1. ASSUME DeadlineInv, UNCHANGED vars PROVE DeadlineInv'
      BY <2>1, ClockStands, Zenon DEF vars, env, objs, DeadlineInv, SameClock
    <2> QED BY <2>1, ToPodClock, FromPodClock, EnvironmentClock, Zenon DEF Next, ReconcileStep
  <1>3. TypeOK /\ DeadlineInv => NoForgottenDeadline
    <2> SUFFICES ASSUME TypeOK, DeadlineInv, Quiet, OwnPod, ~sb.deleting
                 PROVE  /\ sb.st.phase = "Running" /\ sb.spec.timeout > 0 =>
                             now - sb.st.started <= sb.spec.timeout
                        /\ sb.st.phase = "Running" /\ sb.spec.session /\ sb.spec.idle > 0 =>
                             now < LastSessionActivity(sb) + sb.spec.idle
                        /\ sb.st.phase = "Paused" /\ sb.spec.maxPause > 0 =>
                             now < sb.st.paused + sb.spec.maxPause
      BY Zenon DEF NoForgottenDeadline
    <2>1. Scheduled /\ (wake # Unset => wake > now) /\ wake \in Int /\ now \in Int
      BY DEF DeadlineInv, Quiet, OwnPod, Due, TypeOK, Times, Unset
    <2>2. /\ sb.st.started \in Int /\ sb.st.paused \in Int
          /\ sb.spec.timeout \in Int /\ sb.spec.idle \in Int /\ sb.spec.maxPause \in Int
          /\ LastSessionActivity(sb) \in Int
      BY ConstantsAssumption DEF TypeOK, Sandboxes, Statuses, Times, Unset,
         LastSessionActivity, Later
    <2> QED BY <2>1, <2>2 DEF Scheduled, HasIdleDeadline, SessionIdleDeadline, PauseDeadline
  <1> QED BY <1>1, <1>2, <1>3, TypeCorrect, PTL DEF Spec
============================================================================
