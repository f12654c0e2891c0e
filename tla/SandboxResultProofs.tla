--------------------------- MODULE SandboxResultProofs ---------------------------
(* What the reconciler does with the result of a Sandbox, with its policies   *)
(* and with the snapshot it restores from, for any specs, worlds, limits and  *)
(* number of faults.                                                          *)
EXTENDS SandboxControllerProofs

------------------------------------------------------------------------------
(* The result of a Sandbox. *)

(* Where a reconcile may stand while the Sandbox is finished. *)
Leaving == {"idle", "down", "teardown", "teardownPVC", "reap"}

Finished == sb.live /\ ~sb.spec.session /\ sb.st.phase \in Terminal

(* Why a result stays and no Pod follows it: nothing but the reconcile     *)
(* under way writes a phase; when it wrote a final one it only acts on it  *)
(* and ends; and on the way to a new Pod the phase in memory, which was    *)
(* looked at, is the phase of the object unless the object is a new one.   *)
ResultInv ==
  /\ Finished => pc \in Leaving \/ (pc = "act" /\ des.phase \in Terminal)
  /\ pc = "resolve" \/ PodMissing =>
       (sb.live => sb.st.phase \in {"", mem.st.phase})
  /\ PodMissing => mem.st.phase \notin Terminal

SameResult ==
  /\ sb'.live = sb.live /\ sb'.gen = sb.gen /\ sb'.spec = sb.spec
  /\ sb'.st.phase = sb.st.phase /\ sb'.st.reason = sb.st.reason

(* The reconcile ends, stands still, or goes on from a step at which the   *)
(* Sandbox is not finished, not nearer to a new Pod than it was.           *)
GoesOn ==
  \/ pc' \in {"idle", "down"}
  \/ UNCHANGED <<pc, mem, obs, des>>
  \/ /\ pc \notin Leaving \cup {"act"} /\ pc' # "resolve"
     /\ PodMissing' =>
          /\ PodMissing
          /\ mem'.st.phase = mem.st.phase \/ (sb.live /\ mem'.st.phase = sb.st.phase)

(* A step that keeps the result keeps the invariant. *)
LEMMA ResultFrame ==
  ASSUME ResultInv, SameResult, GoesOn
  PROVE  ResultInv'
  BY Zenon DEF ResultInv, SameResult, GoesOn, Finished, PodMissing, Leaving, Terminal

(* So does the end of a reconcile, whatever it wrote. *)
LEMMA ResultReturns == pc' \in {"idle", "down"} => ResultInv'
  BY Zenon DEF ResultInv, PodMissing, Leaving

(* A patch writes the fields of the status that changed in memory, and     *)
(* nothing else.                                                           *)
LEMMA PatchPhase ==
  ASSUME TypeOK, NEW new \in Statuses, PatchStatus(new)
  PROVE  /\ sb'.live = sb.live /\ sb'.gen = sb.gen /\ sb'.spec = sb.spec
         /\ sb'.st.phase = IF new.phase # mem.st.phase THEN new.phase ELSE sb.st.phase
         /\ sb'.st.reason = IF new.reason # mem.st.reason THEN new.reason
                            ELSE sb.st.reason
         /\ sb'.st.runtime = IF new.runtime # mem.st.runtime THEN new.runtime
                             ELSE sb.st.runtime
         /\ sb'.restored = sb.restored
  <1> DEFINE m == MergeStatus(sb.st, mem.st, new)
  <1>1. /\ m.phase = IF new.phase # mem.st.phase THEN new.phase ELSE sb.st.phase
        /\ m.reason = IF new.reason # mem.st.reason THEN new.reason ELSE sb.st.reason
        /\ m.runtime = IF new.runtime # mem.st.runtime THEN new.runtime ELSE sb.st.runtime
    BY Zenon DEF MergeStatus
  <1>2. sb' = [sb EXCEPT !.st = m]
    BY Zenon DEF PatchStatus
  <1> HIDE DEF m
  <1> QED BY <1>1, <1>2, Zenon DEF TypeOK, Sandboxes

(* So does a patch of neither phase nor reason: the backend, the identity. *)
LEMMA PatchKeepsResult ==
  ASSUME TypeOK, NEW new \in Statuses, PatchStatus(new),
         new.phase = mem.st.phase, new.reason = mem.st.reason
  PROVE  SameResult
  BY PatchPhase, Zenon DEF SameResult

(* The derived status: the object is finished afterwards only if it was    *)
(* before, or what was derived is final.                                   *)
LEMMA PatchDerivedResult ==
  ASSUME TypeOK, ResultInv, pc \notin Leaving \cup {"act"}, NEW st \in Statuses,
         PatchDerived(st)
  PROVE  ResultInv'
  <1> DEFINE new == StatusFrom(st)
  <1>1. new \in Statuses
    BY StatusFromType, Zenon DEF TypeOK
  <1>2. CASE ReturnErr
    BY <1>2, Returns, ResultReturns, Zenon
  <1>3. CASE pc' = "act" /\ des' = new /\ UNCHANGED sb
    BY <1>3, Zenon DEF ResultInv, Finished, PodMissing, Leaving
  <1>4. CASE pc' = "act" /\ des' = new /\ PatchStatus(new)
    <2> HIDE DEF new
    <2>1. Finished' => Finished \/ new.phase \in Terminal
      BY <1>1, <1>4, PatchPhase, ZenonT(30) DEF Finished
    <2> QED BY <1>4, <2>1, Zenon DEF ResultInv, PodMissing, Leaving
  <1> QED BY <1>2, <1>3, <1>4, Zenon DEF PatchDerived

(* Every step of a reconcile keeps the invariant of the result. *)
LEMMA ReconcileResult ==
  ASSUME TypeOK, ResultInv, ReconcileStep
  PROVE  ResultInv'
  <1>1. UNCHANGED sb => SameResult
    BY Zenon DEF SameResult
  <1>2. ASSUME pc' \in {"idle", "down"} PROVE ResultInv'
    BY <1>2, ResultReturns, Zenon
  <1>3. CASE Begin
    <2>1. /\ UNCHANGED sb /\ (sb.live => mem' = sb)
          /\ pc' \in {"idle", "teardown", "finalizer", "reap", "resolve"}
          /\ pc' \in {"finalizer", "resolve"} => ~needsFinalizer(sb) \/ sb.spec.session
          /\ pc' \in {"finalizer", "resolve"} =>
               sb.live /\ (sb.spec.session \/ ~ownedByReap(sb))
      BY <1>3, Zenon DEF Begin, others, objs, needsFinalizer
    <2> QED BY <2>1, Zenon DEF ownedByReap, ResultInv, Finished, PodMissing, Leaving
  <1>4. CASE AddFinalizer
    <2>1. CASE ~sb.live
      BY <1>2, <1>4, <2>1, Returns, Zenon DEF AddFinalizer
    <2>2. CASE sb.live
      <3>1. /\ mem' = sb' /\ pc = "finalizer" /\ pc' = "resolve"
            /\ sb' = [sb EXCEPT !.finalizer = TRUE]
        BY <1>4, <2>2, Zenon DEF AddFinalizer, Goto
      <3>2. SameResult
        BY <3>1, Zenon DEF SameResult, TypeOK, Sandboxes
      <3> QED BY <3>1, <3>2, Zenon DEF SameResult, ResultInv, Finished, PodMissing, Leaving
    <2> QED BY <2>1, <2>2, Zenon
  <1>5. CASE TeardownPod
    <2>1. UNCHANGED sb /\ pc' = "teardownPVC"
      BY <1>5, Zenon DEF TeardownPod, others, Goto
    <2> QED BY <2>1, Zenon DEF ResultInv, PodMissing, Leaving
  <1>6. CASE TeardownPVC \/ reapExpiredEphemeral \/ FailBackend \/ CreatePod
             \/ RestartExitedSession \/ RecordPaused \/ RecordResumed \/ FinishPod
    <2>1. pc' = "idle"
      BY <1>6, Returns, DeadlineReturns, Zenon
      DEF TeardownPVC, reapExpiredEphemeral, FailBackend, CreatePod,
          RestartExitedSession, RecordPaused, RecordResumed, FinishPod
    <2> QED BY <1>2, <2>1, Zenon
  <1>7. \A r : HoldPending(r) => pc' = "idle"
    BY Returns, Zenon DEF HoldPending
  <1>8. CASE Resolve
    <2>1. CASE pc' = "idle"
      BY <1>2, <2>1, Zenon
    <2>2. CASE UNCHANGED sb /\ ToPod /\ pc' # "idle"
      <3>1. /\ pc = "resolve" /\ mem' = mem /\ obs' = pod
            /\ \/ pc' = "policies" /\ pod.live
               \/ pc' \in {"badBackend", "backend"} /\ mem.st.phase \notin Terminal
        BY <1>8, <2>2, Returns, Zenon DEF Resolve, ToPod, finishedWithoutPod
      <3> QED BY <2>2, <3>1, Zenon DEF ResultInv, Finished, PodMissing, Leaving
    <2>3. handleUnresolvableClass => pc' = "idle"
      BY <1>7, Returns, Zenon DEF handleUnresolvableClass
    <2> QED BY <1>7, <1>8, <2>1, <2>2, <2>3, Zenon DEF Resolve
  <1>9. CASE RecordBackend
    <2> DEFINE st == [mem.st EXCEPT !.runtime = TRUE]
    <2>1. st \in Statuses /\ st.phase = mem.st.phase /\ st.reason = mem.st.reason
      BY Zenon DEF TypeOK, Sandboxes, Statuses
    <2>2. SameResult
      BY <1>1, <1>9, <2>1, PatchKeepsResult, Zenon DEF RecordBackend
    <2>3. [mem EXCEPT !.st.runtime = TRUE].st.phase = mem.st.phase
      BY Zenon DEF TypeOK, Sandboxes, Statuses
    <2>4. pc = "backend" /\ pc' = "policies"
      BY <1>9, Zenon DEF RecordBackend, Goto
    <2>5. mem'.st.phase = mem.st.phase \/ (sb.live /\ mem'.st.phase = sb.st.phase)
      BY <1>9, <2>2, <2>3, Zenon DEF RecordBackend, SameResult
    <2> QED BY <2>2, <2>4, <2>5, ResultFrame, Zenon DEF GoesOn, PodMissing, Leaving
  <1>10. CASE EnsureBaseline \/ ApplyPolicy
    <2>1. /\ UNCHANGED <<sb, mem, obs, des>> /\ pc \in {"policies", "netpol"}
          /\ pc' \in {"netpol", "derive"} \/ (pc' \in {"pvc", "disk"} /\ ~obs.live)
      BY <1>10, Zenon DEF EnsureBaseline, ApplyPolicy, AfterPolicies, others, Goto
    <2> QED BY <1>1, <2>1, ResultFrame, Zenon DEF GoesOn, PodMissing, Leaving
  <1>11. CASE EnsureWorkspacePVC \/ WaitForLauncherDisk
    <2>1. CASE pc' = "idle"
      BY <1>2, <2>1, Zenon
    <2>2. CASE pc' # "idle"
      <3>1. /\ UNCHANGED <<sb, mem>> /\ pc \in {"pvc", "disk"}
            /\ pc' \in {"disk", "identity"}
        BY <1>7, <1>11, <2>2, Returns, Zenon
        DEF EnsureWorkspacePVC, WaitForLauncherDisk, others, Goto
      <3> QED BY <1>1, <3>1, ResultFrame, Zenon DEF GoesOn, PodMissing, Leaving
    <2> QED BY <2>1, <2>2, Zenon
  <1>12. CASE EnsureIdentity
    <2> DEFINE st == [mem.st EXCEPT !.identity = TRUE]
    <2>1. st \in Statuses /\ st.phase = mem.st.phase /\ st.reason = mem.st.reason
      BY Zenon DEF TypeOK, Sandboxes, Statuses
    <2>2. SameResult
      BY <1>1, <1>12, <2>1, PatchKeepsResult, Zenon DEF EnsureIdentity
    <2>3. pc = "identity" /\ pc' \in {"create", "idle"}
      BY <1>12, Returns, Zenon DEF EnsureIdentity, Goto
    <2>4. pc' # "idle" =>
            mem'.st.phase = mem.st.phase \/ (sb.live /\ mem'.st.phase = sb.st.phase)
      BY <1>12, <2>2, Returns, Zenon DEF EnsureIdentity, SameResult
    <2> QED BY <2>2, <2>3, <2>4, ResultFrame, Zenon DEF GoesOn, PodMissing, Leaving
  <1>13. CASE DeriveStatus
    <2>1. pc = "derive" /\ Derive(mem, obs) \in Statuses
      BY <1>13, DeriveType, Zenon DEF DeriveStatus, TypeOK
    <2>2. CASE PatchDerived(Derive(mem, obs))
      BY <2>1, <2>2, PatchDerivedResult, Zenon DEF Leaving
    <2>3. CASE UNCHANGED sb /\ pc' = "restore"
      BY <1>1, <2>1, <2>3, ResultFrame, Zenon DEF GoesOn, PodMissing, Leaving
    <2> QED BY <1>13, <2>2, <2>3, Zenon DEF DeriveStatus
  <1>14. CASE RestoreLauncher
    <2>1. UNCHANGED sb /\ pc = "restore" /\ pc' \in {"annotate", "status"}
      BY <1>14, Zenon DEF RestoreLauncher
    <2> QED BY <1>1, <2>1, ResultFrame, Zenon DEF GoesOn, PodMissing, Leaving
  <1>15. CASE AnnotateRestored
    <2>1. pc = "annotate" /\ pc' = "status"
      BY <1>15, Zenon DEF AnnotateRestored
    <2>2. SameResult
      BY <1>1, <1>15, Zenon DEF AnnotateRestored, SameResult, TypeOK, Sandboxes
    <2> QED BY <2>1, <2>2, ResultFrame, Zenon DEF GoesOn, PodMissing, Leaving
  <1>16. CASE PatchRestored
    BY <1>16, PatchDerivedResult, Zenon DEF PatchRestored, TypeOK, Leaving
  <1>17. CASE PauseVM \/ ResumeVM
    <2>1. CASE pc' = "idle"
      BY <1>2, <2>1, Zenon
    <2>2. CASE pc' # "idle"
      <3>1. /\ UNCHANGED sb /\ pc = "act" /\ pc' \in {"paused", "resumed"}
            /\ des.phase \in {"Running", "Paused"}
        BY <1>17, <2>2, Returns, Zenon
        DEF PauseVM, ResumeVM, pauseDue, resumeDue, others, Goto
      <3> QED BY <3>1, Zenon DEF ResultInv, Finished, PodMissing, Leaving, Terminal
    <2> QED BY <2>1, <2>2, Zenon
  <1> QED BY <1>3, <1>4, <1>5, <1>6, <1>8, <1>9, <1>10, <1>11, <1>12, <1>13, <1>14,
             <1>15, <1>16, <1>17, Zenon
          DEF ReconcileStep

(* So does everything around the reconciler: it may delete the Sandbox or  *)
(* create another one, but writes no phase.                                *)
LEMMA EnvironmentResult ==
  ASSUME TypeOK, ResultInv, Environment
  PROVE  ResultInv'
  <1>1. UNCHANGED sb => SameResult
    BY Zenon DEF SameResult
  <1>2. CASE Crash \/ ApiError
    BY <1>2, Returns, ResultReturns, Zenon DEF Crash, ApiError
  <1>3. CASE Restart \/ Tick \/ ChangeWorld \/ Tamper
    <2>1. UNCHANGED sb /\ (pc' = "idle" \/ UNCHANGED <<pc, mem, obs, des>>)
      BY <1>3, Zenon DEF Restart, Tick, ChangeWorld, Tamper, objs, rec
    <2> QED BY <1>1, <2>1, ResultFrame, Zenon DEF GoesOn
  <1>4. CASE PolicyNotReadable
    <2>1. /\ UNCHANGED sb /\ pc = "netpol"
          /\ \/ pc' = "idle"
             \/ pc' = "derive" /\ UNCHANGED <<mem, obs, des>>
             \/ pc' \in {"pvc", "disk"} /\ ~obs.live /\ UNCHANGED <<mem, obs, des>>
      BY <1>4, Returns, Zenon DEF PolicyNotReadable, AfterPolicies, Goto
    <2> QED BY <1>1, <2>1, ResultFrame, Zenon DEF GoesOn, PodMissing, Leaving
  <1>5. CASE PodStarts \/ PodPullFails \/ PodReady \/ PodUnready \/ PodExits
             \/ PodEvicted \/ PodRemoved \/ PVCRemoved \/ CollectPod \/ CollectPolicy
    <2>1. UNCHANGED <<sb, pc, mem, obs, des>>
      BY <1>5, Zenon DEF PodStarts, PodPullFails, PodReady, PodUnready, PodExits, PodEvicted,
         PodRemoved, PVCRemoved, CollectPod, CollectPolicy, Kubelet, rec
    <2> QED BY <1>1, <2>1, ResultFrame, Zenon DEF GoesOn
  <1>6. CASE DeleteSandbox
    <2>1. UNCHANGED <<pc, mem, obs, des>> /\ sb' = Deleted(sb)
      BY <1>6, Zenon DEF DeleteSandbox, Caller, rec
    <2>2. ~sb'.live \/ SameResult
      BY <2>1, Zenon DEF Deleted, Gone, SameResult, TypeOK, Sandboxes
    <2> QED BY <2>1, <2>2, ResultFrame, Zenon
            DEF GoesOn, ResultInv, Finished, PodMissing
  <1>7. CASE CreateSandbox
    <2>0. \A g, s : Fresh(g, s).st.phase = ""
      BY Zenon DEF Fresh, NoStatus
    <2>1. UNCHANGED <<pc, mem, obs, des>> /\ sb'.st.phase = ""
      BY <1>7, <2>0, Zenon DEF CreateSandbox, Caller, rec
    <2> QED BY <2>1, Zenon DEF ResultInv, Finished, PodMissing, Terminal
  <1>8. CASE SetDesiredState \/ StampActivity
    <2>1. UNCHANGED <<pc, mem, obs, des>>
      BY <1>8, Zenon DEF SetDesiredState, StampActivity, Caller, rec
    <2>2. SameResult
      BY <1>8, ZenonT(30)
      DEF SetDesiredState, StampActivity, Caller, SameResult, TypeOK, Sandboxes
    <2> QED BY <2>1, <2>2, ResultFrame, Zenon DEF GoesOn
  <1> QED BY <1>2, <1>3, <1>4, <1>5, <1>6, <1>7, <1>8, Zenon DEF Environment

(* The invariant of the result holds throughout. *)
LEMMA ResultHolds == Spec => [](TypeOK /\ ResultInv)
  <1>1. Init => ResultInv
    <2>1. Init => pc = "idle"
      BY Zenon DEF Init
    <2> QED BY <2>1, Zenon DEF ResultInv, Finished, PodMissing, Leaving
  <1>2. TypeOK /\ ResultInv /\ [Next]_vars => ResultInv'
    <2>1. ASSUME ResultInv, UNCHANGED vars PROVE ResultInv'
      BY <2>1, Zenon DEF ResultInv, Finished, PodMissing, vars, objs, rec
    <2> QED BY <2>1, ReconcileResult, EnvironmentResult, Zenon DEF Next
  <1> QED BY <1>1, <1>2, TypeCorrect, PTL DEF Spec

(* A step that takes a finished Sandbox does not write its result. *)
LEMMA FinishedStep ==
  ASSUME TypeOK, ResultInv, Finished, Next
  PROVE  SameResult \/ ~sb'.live
  <1>1. UNCHANGED sb => SameResult
    BY Zenon DEF SameResult
  <1>2. sb' = Deleted(sb) => SameResult \/ ~sb'.live
    BY ZenonT(30) DEF Deleted, Gone, SameResult, TypeOK, Sandboxes
  <1>3. pc \in Leaving \/ (pc = "act" /\ des.phase \in Terminal)
    BY Zenon DEF ResultInv
  <1>4. CASE ReconcileStep
    <2>1. CASE Begin \/ TeardownPod \/ FinishPod \/ RestartExitedSession \/ PauseVM
               \/ ResumeVM
      BY <1>1, <2>1, Zenon DEF Begin, TeardownPod, FinishPod, RestartExitedSession, PauseVM,
         ResumeVM, others, objs
    <2>2. CASE TeardownPVC
      BY <1>1, <2>2, ZenonT(30) DEF TeardownPVC, Gone, TypeOK, Sandboxes
    <2>3. CASE reapExpiredEphemeral
      BY <1>1, <1>2, <2>3, Zenon DEF reapExpiredEphemeral
    <2> QED
      BY <1>3, <1>4, <2>1, <2>2, <2>3, Zenon
      DEF ReconcileStep, AddFinalizer, Resolve, FailBackend, RecordBackend, EnsureBaseline,
          ApplyPolicy, EnsureWorkspacePVC, WaitForLauncherDisk, EnsureIdentity, CreatePod,
          DeriveStatus, RestoreLauncher, AnnotateRestored, PatchRestored, RecordPaused,
          RecordResumed, Leaving
  <1>5. CASE Environment
    <2>1. CASE DeleteSandbox
      BY <1>2, <2>1, Zenon DEF DeleteSandbox, Caller
    <2>2. CASE SetDesiredState \/ StampActivity
      BY <2>2, ZenonT(30)
      DEF SetDesiredState, StampActivity, Caller, SameResult, TypeOK, Sandboxes
    <2>3. ~CreateSandbox
      BY Zenon DEF CreateSandbox, Finished
    <2> QED
      BY <1>1, <1>5, <2>1, <2>2, <2>3, Zenon
      DEF Environment, Crash, Restart, Tick, ApiError, PolicyNotReadable, PodStarts,
          PodPullFails, PodReady, PodUnready, PodExits, PodEvicted, PodRemoved, PVCRemoved,
          CollectPod, CollectPolicy, ChangeWorld, Tamper, Kubelet, objs
  <1> QED BY <1>4, <1>5, Zenon DEF Next

(* A finished ephemeral Sandbox keeps its phase and its reason, through    *)
(* every crash, API error, change of its class and reuse of its name:      *)
(* reapExpiredEphemeral takes it out of the common path before any of the  *)
(* writers of a status is reached.                                         *)
THEOREM ResultSafe == Spec => EphemeralResultKept
  <1> DEFINE Keeps ==
        sb.live /\ sb'.live /\ sb'.gen = sb.gen /\ ~sb.spec.session
        /\ sb.st.phase \in Terminal
        => sb'.st.phase = sb.st.phase /\ sb'.st.reason = sb.st.reason
  <1>1. TypeOK /\ ResultInv /\ [Next]_vars => [Keeps]_vars
    BY FinishedStep, Zenon DEF Finished, SameResult
  <1> QED BY <1>1, ResultHolds, PTL DEF Spec, EphemeralResultKept

(* Only createPod brings a Pod to life. *)
LEMMA PodFromCreate ==
  ASSUME TypeOK, Next, ~pod.live, pod'.live
  PROVE  pc = "create" /\ pod' = NewPod /\ UNCHANGED <<sb, netpol, baseline>>
  <1>1. CASE ReconcileStep
    BY <1>1, Zenon
    DEF ReconcileStep, Begin, AddFinalizer, TeardownPod, TeardownPVC, reapExpiredEphemeral,
        Resolve, FailBackend, RecordBackend, EnsureBaseline, ApplyPolicy,
        EnsureWorkspacePVC, WaitForLauncherDisk, EnsureIdentity, CreatePod, DeriveStatus,
        RestoreLauncher, Loadable, AnnotateRestored, PatchRestored, RestartExitedSession,
        PauseVM, ResumeVM, RecordPaused, RecordResumed, FinishPod, DeletePod, others, objs
  <1>2. CASE Environment
    BY <1>2, Zenon
    DEF Environment, Crash, Restart, Tick, ApiError, PolicyNotReadable, PodStarts,
        PodPullFails, PodReady, PodUnready, PodExits, PodEvicted, PodRemoved, PVCRemoved,
        CollectPod, CollectPolicy, ChangeWorld, Tamper, Kubelet, objs, DeleteSandbox,
        CreateSandbox, SetDesiredState, StampActivity, Caller
  <1> QED BY <1>1, <1>2, Zenon DEF Next

(* No Pod is created for a Sandbox that is finished at that moment,        *)
(* session or ephemeral, although the phase that Reconcile looked at is    *)
(* the one it read at its start.                                           *)
THEOREM NoPodSafe == Spec => NoPodForFinished
  <1> DEFINE Keeps == ~pod.live /\ OwnPod' => sb.st.phase \notin Terminal
  <1>1. TypeOK /\ ResultInv /\ [Next]_vars => [Keeps]_vars
    <2> SUFFICES ASSUME TypeOK, ResultInv, Next, ~pod.live, OwnPod'
                 PROVE  sb.st.phase \notin Terminal
      BY Zenon
    <2>1. pc = "create" /\ sb.live
      BY PodFromCreate, Zenon DEF OwnPod
    <2> QED BY <2>1, Zenon DEF ResultInv, PodMissing, Terminal
  <1> QED BY <1>1, ResultHolds, PTL DEF Spec, NoPodForFinished

------------------------------------------------------------------------------
(* One Sandbox under the name: its policies, and what it is served from. *)

(* Why a Pod is created under both policies: they are applied on its way,  *)
(* nothing else writes them while a reconcile runs, and the garbage        *)
(* collector takes a policy only when the Sandbox is gone.                 *)
PolicyInv ==
  /\ sb.gen = 1 /\ mem.gen \in {0, 1} /\ netpol.gen \in {0, 1}
  /\ sb.live =>
       /\ pc \in {"netpol", "pvc", "disk", "identity", "create"} => baseline
       /\ pc \in {"pvc", "disk", "identity", "create"} => netpol.spec = "desired"

Served(st) == st.phase \in {"Running", "Paused"}

(* The steps before the outcome of a restore is known. *)
Reading == Steps \ {"status", "act", "paused", "resumed"}

(* The path of Reconcile with a Pod that is there. *)
PodFound ==
  \/ pc \in {"finalizer", "resolve", "derive", "restore"}
  \/ pc \in {"policies", "netpol"} /\ obs.live

(* What is known of the snapshot in the Pod. *)
LoadKnown ==
  /\ pod.ready => pod.loaded # "no"
  /\ pod.loaded # "no" => sb.st.runtime
  /\ sb.restored => pod.loaded # "refused"

(* What the reconcile under way knows of the restore. *)
RestoreKnown ==
  /\ Served(mem.st) => sb.restored
  /\ pc \in Reading => mem.restored = sb.restored
  /\ PodFound => mem.st.runtime = sb.st.runtime
  /\ pc \in {"policies", "netpol", "derive"} /\ obs.live /\ obs.ready => mem.st.runtime
  /\ pc = "derive" => obs.live
  /\ pc = "restore" => needsLauncherRestore(mem)
  /\ pc \in {"restore", "annotate", "status"} => des.runtime
  /\ pc = "annotate" /\ pod.live => pod.loaded # "refused"
  /\ pc = "backend" => ~obs.live
  /\ pc \in {"paused", "resumed"} => sb.restored
  /\ pc \notin Reading /\ Served(des) => sb.restored

(* Why only a verified snapshot is served: a guest answers only after a    *)
(* load, a load is made only for a Sandbox whose backend is recorded, and  *)
(* such a Sandbox is Running only after the load was recorded.  A failed   *)
(* record fails the Sandbox, and a refused load is never recorded.         *)
ServedInv ==
  /\ sb.gen = 1
  /\ pod.live => pod.restore = sb.spec.snapshotRef
  /\ pc \in Steps => mem.spec = sb.spec
  /\ sb.live /\ sb.spec.snapshotRef =>
       /\ Served(sb.st) => sb.restored
       /\ pod.live => LoadKnown
       /\ pc \in Steps => RestoreKnown

(* The Sandbox of the name stays the one it is, or goes. *)
LEMMA SameObject ==
  ASSUME OneSandbox, TypeOK, sb.gen = 1, Next
  PROVE  sb'.gen = sb.gen /\ sb'.spec = sb.spec /\ (sb'.live => sb.live)
  <1> DEFINE Same == sb'.gen = sb.gen /\ sb'.spec = sb.spec /\ (sb'.live => sb.live)
  <1>1. UNCHANGED sb => Same
    BY Zenon
  <1>2. sb' = Deleted(sb) \/ sb' = Gone(sb) => Same
    BY ZenonT(30) DEF Deleted, Gone, TypeOK, Sandboxes
  <1>3. \A new : PatchStatus(new) => Same
    BY Zenon DEF PatchStatus, TypeOK, Sandboxes
  <1>4. \A new : patchPendingStatus(new) \/ patchFailedStatus(new) => Same
    BY <1>3, Zenon DEF patchPendingStatus, patchFailedStatus
  <1>5. \A r : HoldPending(r) => Same
    BY <1>4, Zenon DEF HoldPending
  <1>6. CASE Begin \/ TeardownPod \/ EnsureBaseline \/ ApplyPolicy \/ EnsureWorkspacePVC
             \/ CreatePod \/ RestoreLauncher \/ RestartExitedSession \/ PauseVM
             \/ ResumeVM \/ FinishPod
    BY <1>6, Zenon DEF Begin, TeardownPod, EnsureBaseline, ApplyPolicy, EnsureWorkspacePVC,
       CreatePod, RestoreLauncher, RestartExitedSession, PauseVM, ResumeVM, FinishPod,
       others, objs
  <1>7. CASE AddFinalizer \/ AnnotateRestored
    BY <1>7, Zenon DEF AddFinalizer, AnnotateRestored, TypeOK, Sandboxes
  <1>8. CASE TeardownPVC \/ reapExpiredEphemeral
    BY <1>1, <1>2, <1>8, Zenon DEF TeardownPVC, reapExpiredEphemeral
  <1>9. CASE Resolve
    <2>1. handleUnresolvableClass => Same
      BY <1>1, <1>2, <1>4, <1>5, Zenon DEF handleUnresolvableClass
    <2> QED BY <1>1, <1>5, <1>9, <2>1, Zenon DEF Resolve
  <1>10. CASE FailBackend \/ RecordBackend \/ WaitForLauncherDisk \/ EnsureIdentity
              \/ RecordPaused \/ RecordResumed
    BY <1>1, <1>3, <1>4, <1>5, <1>10, Zenon DEF FailBackend, RecordBackend, WaitForLauncherDisk,
       EnsureIdentity, RecordPaused, RecordResumed, patchPhase
  <1>11. CASE DeriveStatus \/ PatchRestored
    BY <1>1, <1>3, <1>11, Zenon DEF DeriveStatus, PatchRestored, PatchDerived
  <1>12. CASE Environment
    <2>1. CASE DeleteSandbox
      BY <1>2, <2>1, Zenon DEF DeleteSandbox, Caller
    <2>2. CASE SetDesiredState \/ StampActivity
      BY <2>2, ZenonT(30) DEF SetDesiredState, StampActivity, Caller, TypeOK, Sandboxes
    <2>3. ~CreateSandbox
      BY DEF CreateSandbox, OneSandbox
    <2> QED
      BY <1>1, <1>12, <2>1, <2>2, <2>3, Zenon
      DEF Environment, Crash, Restart, Tick, ApiError, PolicyNotReadable, PodStarts,
          PodPullFails, PodReady, PodUnready, PodExits, PodEvicted, PodRemoved, PVCRemoved,
          CollectPod, CollectPolicy, ChangeWorld, Tamper, Kubelet, objs
  <1> QED BY <1>6, <1>7, <1>8, <1>9, <1>10, <1>11, <1>12, Zenon DEF Next, ReconcileStep

(* The Sandbox in memory is none, the one it was, or the one of the name. *)
LEMMA SameMemory ==
  ASSUME TypeOK, Next
  PROVE  mem'.gen \in {0, mem.gen, sb.gen, sb'.gen}
  <1>1. NoSandbox.gen = 0
    BY Zenon DEF NoSandbox
  <1>2. [mem EXCEPT !.st.runtime = TRUE].gen = mem.gen
        /\ [mem EXCEPT !.restored = TRUE].gen = mem.gen
    BY Zenon DEF TypeOK, Sandboxes
  <1>3. Idle => mem'.gen = 0
    BY <1>1, Zenon DEF Idle
  <1>4. Return \/ ReturnErr \/ (\E t : RequeueAt(t)) => mem'.gen = 0
    BY <1>3, Zenon DEF Return, ReturnErr, RequeueAt
  <1>5. \A s, st : RequeueForDeadline(s, st) => mem'.gen = 0
    BY <1>4, Zenon DEF RequeueForDeadline
  <1>6. \A r : HoldPending(r) => mem'.gen = 0
    BY <1>4, Zenon DEF HoldPending
  <1>7. \A st : PatchDerived(st) => mem' \in {mem, sb'} \/ mem'.gen = 0
    BY <1>4, Zenon DEF PatchDerived
  <1>8. CASE Begin \/ AddFinalizer \/ TeardownPod \/ TeardownPVC \/ reapExpiredEphemeral
    BY <1>1, <1>4, <1>8, Zenon DEF Begin, AddFinalizer, TeardownPod, TeardownPVC,
       reapExpiredEphemeral, others
  <1>9. CASE Resolve
    <2>1. handleUnresolvableClass => mem'.gen = 0
      BY <1>4, <1>6, Zenon DEF handleUnresolvableClass
    <2>2. ToPod => mem'.gen \in {0, mem.gen}
      BY <1>4, Zenon DEF ToPod
    <2> QED BY <1>6, <1>9, <2>1, <2>2, Zenon DEF Resolve
  <1>10. CASE FailBackend \/ RecordBackend \/ EnsureBaseline \/ ApplyPolicy
              \/ EnsureWorkspacePVC \/ WaitForLauncherDisk \/ EnsureIdentity \/ CreatePod
    BY <1>2, <1>4, <1>6, <1>10, Zenon
    DEF FailBackend, RecordBackend, EnsureBaseline, ApplyPolicy,
       AfterPolicies, EnsureWorkspacePVC, WaitForLauncherDisk, EnsureIdentity, CreatePod,
       others
  <1>11. CASE DeriveStatus \/ RestoreLauncher \/ AnnotateRestored \/ PatchRestored
    BY <1>2, <1>7, <1>11, Zenon
    DEF DeriveStatus, RestoreLauncher, AnnotateRestored, PatchRestored
  <1>12. CASE RestartExitedSession \/ PauseVM \/ ResumeVM \/ RecordPaused \/ RecordResumed
              \/ FinishPod
    BY <1>4, <1>5, <1>12, Zenon DEF RestartExitedSession, PauseVM, ResumeVM, RecordPaused,
       RecordResumed, FinishPod
  <1>13. CASE Environment
    BY <1>1, <1>4, <1>13, Zenon
    DEF Environment, Crash, Restart, Tick, ApiError, PolicyNotReadable, AfterPolicies,
        PodStarts, PodPullFails, PodReady, PodUnready, PodExits, PodEvicted, PodRemoved,
        PVCRemoved, CollectPod, CollectPolicy, ChangeWorld, Tamper, Kubelet, DeleteSandbox,
        CreateSandbox, SetDesiredState, StampActivity, Caller, rec
  <1> QED BY <1>8, <1>9, <1>10, <1>11, <1>12, <1>13, Zenon DEF Next, ReconcileStep

(* Every step keeps the invariant of the policies. *)
LEMMA PolicyKept ==
  ASSUME OneSandbox, TypeOK, PolicyInv, Next
  PROVE  PolicyInv'
  <1> DEFINE Before == {"netpol", "pvc", "disk", "identity", "create"}
             After == {"pvc", "disk", "identity", "create"}
  <1>1. sb'.gen = 1 /\ (sb'.live => sb.live) /\ mem'.gen \in {0, 1}
    BY SameObject, SameMemory, Zenon DEF PolicyInv
  <1>2. ASSUME UNCHANGED <<netpol, baseline>>,
               pc' \notin Before \/ pc' = pc \/ (pc \in After /\ pc' \in After)
        PROVE  PolicyInv'
    BY <1>1, <1>2, Zenon DEF PolicyInv
  <1>3. \A r : HoldPending(r) => pc' = "idle"
    BY Returns, Zenon DEF HoldPending
  <1>4. CASE EnsureBaseline
    BY <1>1, <1>4, Zenon DEF EnsureBaseline, others, Goto, PolicyInv
  <1>5. CASE ApplyPolicy
    <2>1. netpol'.spec = "desired" /\ netpol'.gen \in {0, 1}
      BY <1>5, Zenon DEF ApplyPolicy, AppliedPolicy, PolicyInv, TypeOK
    <2>2. pc = "netpol" /\ UNCHANGED baseline /\ pc' \in {"derive", "pvc", "disk"}
      BY <1>5, Zenon DEF ApplyPolicy, AfterPolicies, others, Goto
    <2> QED BY <1>1, <2>1, <2>2, Zenon DEF PolicyInv
  <1>6. CASE PolicyNotReadable
    <2>1. netpol'.gen \in {0, 1} /\ pc' \in {"idle", "derive"}
      BY <1>6, Returns, Zenon DEF PolicyNotReadable, DefersPod, AfterPolicies, Goto, PolicyInv
    <2> QED BY <1>1, <2>1, Zenon DEF PolicyInv
  <1>7. CASE CollectPolicy
    <2>1. ~sb.live
      BY <1>7, Zenon DEF CollectPolicy, OwnerGone, PolicyInv
    <2>2. netpol'.gen = 0
      BY <1>7, Zenon DEF CollectPolicy, NoPolicy
    <2> QED BY <1>1, <2>1, <2>2, Zenon DEF PolicyInv
  <1>8. CASE Tamper
    <2>1. netpol'.gen \in {0, 1} /\ pc' = "idle"
      BY <1>8 DEF Tamper, NoPolicy, rec, PolicyInv
    <2> QED BY <1>1, <2>1, Zenon DEF PolicyInv
  <1>9. CASE Begin \/ AddFinalizer \/ TeardownPod \/ TeardownPVC \/ reapExpiredEphemeral
    <2>1. UNCHANGED <<netpol, baseline>> /\ pc' \notin Before
      BY <1>9, Returns, Zenon DEF Begin, AddFinalizer, TeardownPod, TeardownPVC,
         reapExpiredEphemeral, others, objs, Goto
    <2> QED BY <1>2, <2>1, Zenon
  <1>10. CASE Resolve
    <2>1. handleUnresolvableClass => pc' = "idle"
      BY <1>3, Returns, Zenon DEF handleUnresolvableClass
    <2>2. ToPod => pc' \notin Before
      BY Returns, Zenon DEF ToPod
    <2>3. UNCHANGED <<netpol, baseline>> /\ pc' \notin Before
      BY <1>3, <1>10, <2>1, <2>2, Zenon DEF Resolve, others
    <2> QED BY <1>2, <2>3, Zenon
  <1>11. CASE FailBackend \/ RecordBackend \/ CreatePod
    <2>1. UNCHANGED <<netpol, baseline>> /\ pc' \notin Before
      BY <1>11, Returns, Zenon DEF FailBackend, RecordBackend, CreatePod, others, Goto
    <2> QED BY <1>2, <2>1, Zenon
  <1>12. CASE EnsureWorkspacePVC \/ WaitForLauncherDisk \/ EnsureIdentity
    <2>1. /\ UNCHANGED <<netpol, baseline>> /\ pc \in After
          /\ pc' = "idle" \/ pc' \in After
      BY <1>3, <1>12, Returns, Zenon
      DEF EnsureWorkspacePVC, WaitForLauncherDisk, EnsureIdentity,
         others, Goto
    <2> QED BY <1>2, <2>1, Zenon
  <1>13. CASE DeriveStatus \/ RestoreLauncher \/ AnnotateRestored \/ PatchRestored
    <2>1. UNCHANGED <<netpol, baseline>> /\ pc' \notin Before
      BY <1>13, Returns, Zenon
      DEF DeriveStatus, RestoreLauncher, AnnotateRestored, PatchRestored,
         PatchDerived, others
    <2> QED BY <1>2, <2>1, Zenon
  <1>14. CASE RestartExitedSession \/ PauseVM \/ ResumeVM \/ RecordPaused \/ RecordResumed
              \/ FinishPod
    <2>1. UNCHANGED <<netpol, baseline>> /\ pc' \notin Before
      BY <1>14, Returns, DeadlineReturns, Zenon DEF RestartExitedSession, PauseVM, ResumeVM,
         RecordPaused, RecordResumed, FinishPod, others, Goto
    <2> QED BY <1>2, <2>1, Zenon
  <1>15. CASE Environment /\ ~PolicyNotReadable /\ ~CollectPolicy /\ ~Tamper
    <2>1. UNCHANGED <<netpol, baseline>> /\ (pc' = pc \/ pc' \in {"idle", "down"})
      BY <1>15, Returns, Zenon
      DEF Environment, Crash, Restart, Tick, ApiError, PodStarts, PodPullFails, PodReady,
          PodUnready, PodExits, PodEvicted, PodRemoved, PVCRemoved, CollectPod, ChangeWorld,
          Kubelet, DeleteSandbox, CreateSandbox, SetDesiredState, StampActivity, Caller,
          rec, objs
    <2> QED BY <1>2, <2>1, Zenon
  <1> QED BY <1>4, <1>5, <1>6, <1>7, <1>8, <1>9, <1>10, <1>11, <1>12, <1>13, <1>14, <1>15, Zenon
          DEF Next, ReconcileStep

(* The Pod of a Sandbox whose name is used once is created under the       *)
(* namespace baseline and its NetworkPolicy, whatever crash, API error,    *)
(* stale cache or foreign policy came before.  (A name that is used again  *)
(* may inherit a policy that the garbage collector still owes to the       *)
(* Sandbox before.)                                                        *)
THEOREM PoliciesSafe ==
  ASSUME OneSandbox
  PROVE  Spec => PodCreatedUnderPolicies
  <1> DEFINE Keeps == ~pod.live /\ OwnPod' => netpol.spec = "desired" /\ baseline
  <1>1. Init => PolicyInv
    <2>1. NoSandbox.gen = 0 /\ NoPolicy.gen = 0 /\ \A s : Fresh(1, s).gen = 1
      BY Zenon DEF NoSandbox, NoPolicy, Fresh
    <2> QED BY <2>1, Zenon DEF Init, PolicyInv
  <1>2. TypeOK /\ PolicyInv /\ [Next]_vars => PolicyInv'
    <2>1. PolicyInv /\ UNCHANGED vars => PolicyInv'
      BY DEF PolicyInv, vars, objs, rec
    <2> QED BY <2>1, PolicyKept, Zenon
  <1>3. TypeOK /\ PolicyInv /\ [Next]_vars => [Keeps]_vars
    <2> SUFFICES ASSUME TypeOK, PolicyInv, Next, ~pod.live, OwnPod'
                 PROVE  netpol.spec = "desired" /\ baseline
      BY Zenon
    <2>1. pc = "create" /\ sb.live
      BY PodFromCreate, Zenon DEF OwnPod
    <2> QED BY <2>1, Zenon DEF PolicyInv
  <1> QED BY <1>1, <1>2, <1>3, TypeCorrect, PTL DEF Spec, PodCreatedUnderPolicies

(* The Sandbox keeps what was recorded of its restore, and is not served   *)
(* unless it was restored.                                                 *)
KeepsRecord ==
  /\ sb'.gen = sb.gen /\ sb'.spec = sb.spec
  /\ sb'.live =>
       /\ sb.live /\ sb'.restored = sb.restored
       /\ sb.spec.snapshotRef =>
            /\ sb.st.runtime => sb'.st.runtime
            /\ Served(sb'.st) => sb.restored

(* The Pod goes, or keeps its snapshot; its guest answers only when it has *)
(* one.                                                                    *)
KeepsLoad ==
  pod'.live =>
    /\ pod.live /\ pod'.restore = pod.restore /\ pod'.loaded = pod.loaded
    /\ pod'.ready => pod.ready \/ (pod.restore => pod.loaded # "no")

(* The facts of a restore, where they are looked for. *)
Restoring == sb.live /\ sb.spec.snapshotRef

(* A step that ends the reconcile keeps the invariant. *)
LEMMA ServedEnds ==
  ASSUME ServedInv, KeepsRecord, KeepsLoad, pc' \in {"idle", "down"}
  PROVE  ServedInv'
  <1>1. pc' \notin Steps
    BY Zenon DEF Steps
  <1> QED BY <1>1, Zenon DEF ServedInv, KeepsRecord, KeepsLoad, LoadKnown, Served

(* So does a step around it that leaves the reconcile alone, *)
LEMMA ServedStands ==
  ASSUME ServedInv, KeepsRecord, KeepsLoad, UNCHANGED rec,
         sb'.live => sb'.st.runtime = sb.st.runtime
  PROVE  ServedInv'
  <1>1. ASSUME Restoring, sb'.live, pc \in Steps PROVE RestoreKnown'
    BY <1>1, ZenonT(30)
    DEF Restoring, ServedInv, KeepsRecord, KeepsLoad, RestoreKnown, Served, PodFound,
       needsLauncherRestore, rec
  <1> QED BY <1>1, Zenon
      DEF Restoring, ServedInv, KeepsRecord, KeepsLoad, LoadKnown, Served, rec

(* and one that goes on with what it knows. *)
LEMMA ServedGoes ==
  ASSUME ServedInv, KeepsRecord, KeepsLoad, mem'.spec = sb.spec,
         Restoring /\ sb'.live => RestoreKnown'
  PROVE  ServedInv'
  BY Zenon DEF Restoring, ServedInv, KeepsRecord, KeepsLoad, LoadKnown, Served

(* A patch of a status that is not served, or only once it was restored,   *)
(* and that does not lose the backend, keeps the record.                           *)
LEMMA PatchRecord ==
  ASSUME TypeOK, ServedInv, NEW new \in Statuses, PatchStatus(new),
         Restoring => new.runtime \/ new.runtime = mem.st.runtime,
         Restoring /\ Served(new) => sb.restored
  PROVE  KeepsRecord
  <1>1. CASE ~sb.live
    BY <1>1, PatchPhase, Zenon DEF KeepsRecord
  <1>2. CASE sb.live
    BY <1>2, PatchPhase, Zenon DEF KeepsRecord, Restoring, ServedInv, Served
  <1> QED BY <1>1, <1>2, Zenon

(* The reasons to hold or to fail a Sandbox do so. *)
LEMMA HoldRecord ==
  ASSUME TypeOK, ServedInv, NEW r \in Reasons,
         patchPendingStatus(r) \/ patchFailedStatus(r) \/ UNCHANGED sb
  PROVE  KeepsRecord
  <1> DEFINE p == [mem.st EXCEPT !.phase = "Pending", !.reason = r, !.ltt = now]
             f == [mem.st EXCEPT !.phase = "Failed", !.reason = r, !.ltt = now]
  <1>1. p \in Statuses /\ f \in Statuses
    <2>1. mem.st \in Statuses /\ now \in Times
      BY Zenon DEF TypeOK, Sandboxes, Times
    <2>2. "Pending" \in Phases /\ "Failed" \in Phases
      BY Zenon DEF Phases, Terminal
    <2>3. p \in Statuses BY <2>1, <2>2, Zenon DEF Statuses
    <2>4. f \in Statuses BY <2>1, <2>2, Zenon DEF Statuses
    <2> QED BY <2>3, <2>4, Zenon
  <1>2. p.runtime = mem.st.runtime /\ f.runtime = mem.st.runtime
        /\ p.phase = "Pending" /\ f.phase = "Failed"
    BY Zenon DEF TypeOK, Sandboxes, Statuses
  <1>3. CASE UNCHANGED sb
    BY <1>3, Zenon DEF KeepsRecord, ServedInv
  <1>4. ~Served(p) /\ ~Served(f)
    BY <1>2, Zenon DEF Served
  <1>5. CASE PatchStatus(p)
    <2> HIDE DEF p
    <2> QED BY <1>1, <1>2, <1>4, <1>5, PatchRecord, Zenon
  <1>6. CASE PatchStatus(f)
    <2> HIDE DEF f
    <2> QED BY <1>1, <1>2, <1>4, <1>6, PatchRecord, Zenon
  <1> QED BY <1>3, <1>5, <1>6, Zenon DEF patchPendingStatus, patchFailedStatus

(* The policies on a status serve nobody who was not served. *)
LEMMA StatusFromServed ==
  ASSUME TypeOK, NEW st \in Statuses
  PROVE  /\ StatusFrom(st).runtime = st.runtime
         /\ Served(StatusFrom(st)) => StatusFrom(st).phase = st.phase
  <1> DEFINE h(u) == holdUntilRestored(mem, u)
             i(u) == ApplySessionIdlePolicy(mem, u)
             p(u) == ApplyPausePolicy(mem, u)
  <1>1. \A u \in Statuses : setPhase(u, "Failed", "IdleTimeout").runtime = u.runtime
                         /\ setPhase(u, "Failed", "IdleTimeout").phase = "Failed"
                         /\ setPhase(u, "Failed", "PauseTimeoutExceeded").runtime = u.runtime
                         /\ setPhase(u, "Failed", "PauseTimeoutExceeded").phase = "Failed"
    BY Zenon DEF setPhase, Statuses
  <1>2. h(st) \in Statuses /\ h(st).runtime = st.runtime /\ h(st).phase = st.phase
    BY Zenon DEF holdUntilRestored, Statuses, Reasons, PendingReasons
  <1>3. \A u \in Statuses : /\ i(u) \in Statuses /\ i(u).runtime = u.runtime
                            /\ i(u).phase \in {u.phase, "Failed"}
    BY <1>1, setPhaseType, Zenon DEF ApplySessionIdlePolicy, Phases, Terminal, Reasons,
       failedPodDeletes, TypeOK
  <1>4. \A u \in Statuses : p(u).runtime = u.runtime /\ p(u).phase \in {u.phase, "Failed"}
    BY <1>1, Zenon DEF ApplyPausePolicy
  <1>5. StatusFrom(st) = p(i(h(st)))
    BY Zenon DEF StatusFrom
  <1> HIDE DEF h, i, p
  <1> QED BY <1>2, <1>3, <1>4, <1>5 DEF Served

(* Derive serves a Sandbox that was served, or whose Pod runs and answers. *)
LEMMA DeriveServed ==
  ASSUME TypeOK
  PROVE  /\ Derive(mem, obs).runtime = mem.st.runtime
         /\ Served(Derive(mem, obs)) =>
              Served(mem.st) \/ (obs.phase = "Running" /\ obs.ready)
  <1>1. mem.st \in Statuses /\ obs \in Pods /\ now \in Nat /\ mem \in Sandboxes
    BY Zenon DEF TypeOK, Sandboxes
  <1>3. \A u \in Statuses : WithStart(u, obs) \in Statuses
          /\ WithStart(u, obs).runtime = u.runtime /\ WithStart(u, obs).phase = u.phase
    BY <1>1, Zenon DEF WithStart, Statuses, Pods
  <1>4. /\ derivedRunning(mem, obs).runtime = mem.st.runtime
        /\ derivedRunning(mem, obs).phase \in {"Pending", "Failed", "Running"}
        /\ derivedRunning(mem, obs).phase = "Running" => obs.ready
    <2> DEFINE w == WithStart(mem.st, obs)
    <2>1. w \in Statuses /\ w.runtime = mem.st.runtime
      BY <1>1, <1>3, Zenon
    <2>2. derivedRunning(mem, obs) \in
            {setPhase(mem.st, "Pending", ""), setPhase(w, "Failed", "Timeout")}
          \/ (obs.ready /\ derivedRunning(mem, obs) = setPhase(w, "Running", ""))
      BY Zenon DEF derivedRunning
    <2> HIDE DEF w
    <2> QED BY <1>1, <2>1, <2>2, Zenon DEF setPhase, Statuses
  <1>5. \A ph \in {"Completed", "Failed", "Pending"},
           r \in {"", "ContainerExitedNonZero", "ImagePullFailure"} :
          setPhase(mem.st, ph, r) \in Statuses
    BY <1>1, setPhaseType, Zenon DEF Phases, Terminal, Reasons, PendingReasons
  <1>6. /\ fromPodPhase(mem, obs).runtime = mem.st.runtime
        /\ fromPodPhase(mem, obs).phase \in {"Completed", "Pending", "Failed", "Running"}
        /\ fromPodPhase(mem, obs).phase = "Running" => obs.phase = "Running" /\ obs.ready
    <2>1. CASE obs.phase = "Succeeded"
      <3> DEFINE a == setPhase(mem.st, "Completed", "")
      <3>1. a \in Statuses /\ a.runtime = mem.st.runtime /\ a.phase = "Completed"
        BY <1>1, <1>5, ZenonT(30) DEF setPhase, Statuses
      <3>2. fromPodPhase(mem, obs) = WithStart(a, obs)
        BY <2>1, Zenon DEF fromPodPhase
      <3> HIDE DEF a
      <3> QED BY <1>3, <3>1, <3>2, Zenon
    <2>2. CASE obs.phase = "Failed"
      <3> DEFINE a == setPhase(mem.st, "Failed", "ContainerExitedNonZero")
      <3>1. a \in Statuses /\ a.runtime = mem.st.runtime /\ a.phase = "Failed"
        BY <1>1, <1>5, ZenonT(30) DEF setPhase, Statuses
      <3>2. fromPodPhase(mem, obs) = WithStart(a, obs)
        BY <2>2, Zenon DEF fromPodPhase
      <3> HIDE DEF a
      <3> QED BY <1>3, <3>1, <3>2, Zenon
    <2>3. CASE obs.phase = "Running"
      BY <2>3, <1>4, Zenon DEF fromPodPhase
    <2>4. CASE obs.phase = "Pending"
      BY <2>4, <1>1, Zenon DEF fromPodPhase, setPhase, Statuses
    <2> QED BY <1>1, <2>1, <2>2, <2>3, <2>4, Zenon DEF Pods, Ended
  <1>7. fromPodPhase(mem, obs) \in Statuses
    BY <1>1, FromPodType, Zenon
  <1> QED BY <1>1, <1>6, <1>7, Zenon DEF Derive, setPhase, Statuses, Served, Terminal,
          CoordinatorPhases

(* The derived status may be written: it serves nobody who was not         *)
(* restored.                                                               *)
LEMMA PatchDerivedServed ==
  ASSUME TypeOK, ServedInv, pc \in Steps, UNCHANGED pod, NEW st \in Statuses,
         PatchDerived(st), Restoring => st.runtime \/ st.runtime = mem.st.runtime,
         Restoring /\ Served(st) => sb.restored
  PROVE  ServedInv'
  <1> DEFINE new == StatusFrom(st)
  <1>1. new \in Statuses /\ new.runtime = st.runtime /\ (Served(new) => Served(st))
    BY StatusFromType, StatusFromServed, Zenon DEF TypeOK, Served
  <1>2. KeepsLoad
    BY Zenon DEF KeepsLoad
  <1>3. CASE ReturnErr /\ UNCHANGED sb
    BY <1>2, <1>3, Returns, ServedEnds, Zenon DEF KeepsRecord, ServedInv
  <1>4. CASE pc' = "act" /\ des' = new /\ UNCHANGED <<sb, mem>>
    <2> HIDE DEF new
    <2>1. KeepsRecord
      BY <1>4, Zenon DEF KeepsRecord, ServedInv
    <2>2. Restoring /\ sb'.live => RestoreKnown'
      BY <1>1, <1>4, Zenon DEF Restoring, RestoreKnown, ServedInv, Reading, PodFound, Served
    <2> QED BY <1>2, <1>4, <2>1, <2>2, ServedGoes, Zenon DEF ServedInv
  <1>5. CASE pc' = "act" /\ des' = new /\ sb.live /\ PatchStatus(new) /\ mem' = sb'
    <2> HIDE DEF new
    <2>1. KeepsRecord
      BY <1>1, <1>5, PatchRecord, Zenon
    <2>2. Restoring /\ sb'.live => RestoreKnown'
      BY <1>1, <1>5, <2>1, Zenon DEF Restoring, RestoreKnown, KeepsRecord, Reading, PodFound,
         Served
    <2> QED BY <1>2, <1>5, <2>1, <2>2, ServedGoes, Zenon DEF KeepsRecord
  <1> QED BY <1>3, <1>4, <1>5, Zenon DEF PatchDerived

(* A Sandbox that is deleted stays what it is, or goes. *)
LEMMA DeletedSandbox ==
  ASSUME TypeOK
  PROVE  \A s \in {Deleted(sb), Gone(sb)} :
           /\ s.gen = sb.gen /\ s.spec = sb.spec
           /\ s.live => sb.live /\ s.restored = sb.restored /\ s.st = sb.st
  <1>1. /\ Gone(sb).gen = sb.gen /\ Gone(sb).spec = sb.spec
        /\ ~Gone(sb).live
    BY Zenon DEF Gone, TypeOK, Sandboxes
  <1>2. LET d == [sb EXCEPT !.deleting = TRUE]
        IN  /\ d.gen = sb.gen /\ d.spec = sb.spec
            /\ d.live = sb.live /\ d.restored = sb.restored /\ d.st = sb.st
    BY Zenon DEF TypeOK, Sandboxes
  <1> QED BY <1>1, <1>2, Zenon DEF Deleted

(* The steps of a reconcile up to the Pod keep the invariant of the        *)
(* restore.                                                                *)
LEMMA ToPodServed ==
  ASSUME TypeOK, ServedInv,
         \/ Begin \/ AddFinalizer \/ TeardownPod \/ TeardownPVC
         \/ reapExpiredEphemeral \/ Resolve \/ FailBackend \/ RecordBackend
         \/ EnsureBaseline \/ ApplyPolicy \/ EnsureWorkspacePVC
         \/ WaitForLauncherDisk \/ EnsureIdentity \/ CreatePod
  PROVE  ServedInv'
  <1>1. UNCHANGED sb => KeepsRecord
    BY Zenon DEF KeepsRecord, ServedInv
  <1>2. UNCHANGED pod => KeepsLoad
    BY Zenon DEF KeepsLoad
  <1>3. DeletePod => KeepsLoad
    BY Zenon DEF DeletePod, KeepsLoad, TypeOK, Pods
  <1>4. sb' = Deleted(sb) \/ sb' = Gone(sb) => KeepsRecord
    BY DeletedSandbox, Zenon DEF KeepsRecord, ServedInv
  <1>5. ASSUME NEW r \in Reasons, HoldPending(r) PROVE KeepsRecord /\ pc' = "idle"
    BY <1>5, HoldRecord, Returns, Zenon DEF HoldPending
  <1>6. ASSUME KeepsRecord, KeepsLoad, pc' = "idle" PROVE ServedInv'
    BY <1>6, ServedEnds, Zenon
  <1>7. ASSUME UNCHANGED <<sb, mem>>, KeepsLoad, pc \in Steps,
               Restoring => RestoreKnown'
        PROVE  ServedInv'
    BY <1>1, <1>7, ServedGoes, Zenon DEF ServedInv
  <1>8. CASE Begin
    <2>1. /\ UNCHANGED <<sb, pod>> /\ (sb.live => mem' = sb)
          /\ pc' \in {"idle", "teardown", "finalizer", "reap", "resolve"}
          /\ pc' # "idle" => sb.live
      BY <1>8, Zenon DEF Begin, others, objs
    <2>2. CASE pc' = "idle"
      BY <1>1, <1>2, <1>6, <2>1, <2>2, Zenon
    <2>3. CASE pc' # "idle"
      <3>1. Restoring => RestoreKnown'
        BY <2>1, <2>3, Zenon DEF Restoring, RestoreKnown, ServedInv, Reading, Steps, PodFound,
           Served
      <3> QED BY <1>1, <1>2, <2>1, <2>3, <3>1, ServedGoes, Zenon
    <2> QED BY <2>2, <2>3, Zenon
  <1>9. CASE AddFinalizer
    <2>1. UNCHANGED pod /\ pc = "finalizer"
      BY <1>9, Zenon DEF AddFinalizer, others
    <2>2. CASE ~sb.live
      BY <1>1, <1>2, <1>6, <1>9, <2>1, <2>2, Returns, Zenon DEF AddFinalizer
    <2>3. CASE sb.live
      <3>1. mem' = sb' /\ pc' = "resolve" /\ sb' = [sb EXCEPT !.finalizer = TRUE]
        BY <1>9, <2>3, Zenon DEF AddFinalizer, Goto
      <3>2. sb'.spec = sb.spec /\ sb'.gen = sb.gen /\ sb'.restored = sb.restored
            /\ sb'.st = sb.st /\ sb'.live
        BY <2>3, <3>1, Zenon DEF TypeOK, Sandboxes
      <3>3. KeepsRecord
        BY <2>3, <3>2, Zenon DEF KeepsRecord, ServedInv
      <3>4. Restoring => RestoreKnown'
        BY <3>1, <3>2, Zenon DEF Restoring, RestoreKnown, ServedInv, Reading, Steps, PodFound,
           Served
      <3> QED BY <1>2, <2>1, <3>1, <3>2, <3>3, <3>4, ServedGoes, Zenon
    <2> QED BY <2>2, <2>3, Zenon
  <1>10. CASE TeardownPod
    <2>1. /\ UNCHANGED <<sb, mem>> /\ DeletePod /\ pc = "teardown" /\ pc' = "teardownPVC"
      BY <1>10, Zenon DEF TeardownPod, others, Goto, DeletePod
    <2>2. Restoring => RestoreKnown'
      BY <2>1, Zenon DEF Restoring, RestoreKnown, ServedInv, Reading, Steps, PodFound
    <2> QED BY <1>3, <1>7, <2>1, <2>2, Zenon DEF Steps
  <1>11. CASE TeardownPVC \/ reapExpiredEphemeral
    <2>1. UNCHANGED pod /\ pc' = "idle"
      BY <1>11, Returns, Zenon DEF TeardownPVC, reapExpiredEphemeral, others
    <2>2. KeepsRecord
      BY <1>1, <1>4, <1>11, Zenon DEF TeardownPVC, reapExpiredEphemeral
    <2> QED BY <1>2, <1>6, <2>1, <2>2, Zenon
  <1>12. {"TenantLabelMissing", "ConstraintViolated", "SnapshotUnavailable",
          "SnapshotIncompatible", "ClassNotFound", "DiskBuilding", "DiskBuildFailed"}
           \subseteq Reasons
    BY Zenon DEF Reasons, PendingReasons
  <1>13. CASE Resolve
    <2>1. UNCHANGED pod /\ pc = "resolve"
      BY <1>13, Zenon DEF Resolve, others
    <2>2. CASE handleUnresolvableClass
      <3>1. patchFailedStatus("ClassNotFound") => KeepsRecord
        BY <1>12, HoldRecord, Zenon
      <3>2. HoldPending("ClassNotFound") => KeepsRecord /\ pc' = "idle"
        BY <1>5, <1>12, Zenon
      <3>3. KeepsRecord /\ pc' = "idle"
        BY <1>1, <1>4, <2>2, <3>1, <3>2, Returns, Zenon DEF handleUnresolvableClass
      <3> QED BY <1>2, <1>6, <2>1, <3>3, Zenon
    <2>3. CASE \E r \in Reasons : HoldPending(r)
      BY <1>2, <1>5, <1>6, <2>1, <2>3, Zenon
    <2>4. CASE UNCHANGED sb /\ ToPod
      <3>1. CASE pc' = "idle"
        BY <1>1, <1>2, <1>6, <2>1, <2>4, <3>1, Zenon
      <3>2. CASE pc' # "idle"
        <4>1. /\ mem' = mem /\ obs' = pod
              /\ (pc' = "policies" /\ pod.live) \/ (pc' \in {"badBackend", "backend"}
                                                    /\ ~pod.live)
          BY <2>4, <3>2, Returns, Zenon DEF ToPod
        <4>2. Restoring => RestoreKnown'
          BY <2>1, <2>4, <4>1, Zenon DEF Restoring, RestoreKnown, LoadKnown, ServedInv, Reading,
             Steps, PodFound
        <4> QED BY <1>2, <1>7, <2>1, <2>4, <4>1, <4>2, Zenon DEF Steps
      <3> QED BY <3>1, <3>2, Zenon
    <2> QED BY <1>12, <1>13, <2>2, <2>3, <2>4, Zenon DEF Resolve
  <1>14. CASE FailBackend
    <2> DEFINE f == [mem.st EXCEPT !.phase = "Failed", !.reason = "UnsupportedBackend"]
    <2>1. f \in Statuses /\ f.runtime = mem.st.runtime /\ f.phase = "Failed"
      BY Zenon DEF TypeOK, Sandboxes, Statuses, Phases, Terminal, Reasons
    <2>2. UNCHANGED pod /\ pc' = "idle" /\ (UNCHANGED sb \/ PatchStatus(f))
      BY <1>14, Returns, Zenon DEF FailBackend, others
    <2> HIDE DEF f
    <2>3. KeepsRecord
      BY <1>1, <2>1, <2>2, PatchRecord, Zenon DEF Served
    <2> QED BY <1>2, <1>6, <2>2, <2>3, Zenon
  <1>15. CASE RecordBackend
    <2> DEFINE st == [mem.st EXCEPT !.runtime = TRUE]
    <2>1. st \in Statuses /\ st.phase = mem.st.phase /\ st.runtime
      BY Zenon DEF TypeOK, Sandboxes, Statuses
    <2>2. UNCHANGED pod /\ pc = "backend" /\ pc' = "policies" /\ obs' = obs
      BY <1>15, Zenon DEF RecordBackend, Goto
    <2>3. Restoring => ~obs.live /\ (Served(mem.st) => sb.restored)
                       /\ mem.restored = sb.restored
      BY <2>2, Zenon DEF Restoring, ServedInv, RestoreKnown, Reading, Steps
    <2>4. CASE UNCHANGED sb /\ mem' \in {mem, [mem EXCEPT !.st.runtime = TRUE]}
      <3>1. mem'.spec = mem.spec /\ mem'.restored = mem.restored
            /\ mem'.st.phase = mem.st.phase
        BY <2>4 DEF TypeOK, Sandboxes, Statuses
      <3>2. Restoring => RestoreKnown'
        BY <2>2, <2>3, <2>4, <3>1, Zenon DEF Restoring, RestoreKnown, Served, PodFound, Reading,
           Steps
      <3> QED BY <1>1, <1>2, <2>2, <2>4, <3>1, <3>2, ServedGoes, Zenon DEF ServedInv, Steps
    <2>5. CASE sb.live /\ PatchStatus(st) /\ mem' = sb'
      <3> HIDE DEF st
      <3>1. KeepsRecord
        BY <2>1, <2>3, <2>5, PatchRecord, Zenon DEF Served
      <3>2. Restoring /\ sb'.live => RestoreKnown'
        BY <2>2, <2>3, <2>5, <3>1, Zenon DEF Restoring, RestoreKnown, KeepsRecord, Served,
           PodFound, Reading, Steps
      <3> QED BY <1>2, <2>2, <2>5, <3>1, <3>2, ServedGoes, Zenon DEF KeepsRecord
    <2> QED BY <1>15, <2>4, <2>5, Zenon DEF RecordBackend
  <1>16. CASE EnsureBaseline \/ ApplyPolicy
    <2>1. /\ UNCHANGED <<sb, pod, mem, obs>> /\ pc \in {"policies", "netpol"}
          /\ \/ pc' = "netpol" \/ (pc' = "derive" /\ obs.live)
             \/ pc' \in {"pvc", "disk"} /\ ~obs.live
      BY <1>16, Zenon DEF EnsureBaseline, ApplyPolicy, AfterPolicies, others, Goto
    <2>2. Restoring => RestoreKnown'
      BY <2>1, Zenon DEF Restoring, RestoreKnown, ServedInv, Reading, Steps, PodFound
    <2> QED BY <1>2, <1>7, <2>1, <2>2, Zenon DEF Steps
  <1>17. CASE EnsureWorkspacePVC \/ WaitForLauncherDisk
    <2>1. UNCHANGED pod
      BY <1>17, Zenon DEF EnsureWorkspacePVC, WaitForLauncherDisk, others
    <2>2. CASE pc' = "idle"
      <3>1. patchFailedStatus("DiskBuildFailed") \/ HoldPending("DiskBuilding")
            => KeepsRecord
        BY <1>5, <1>12, HoldRecord, Zenon
      <3>2. KeepsRecord
        BY <1>1, <1>17, <3>1, Zenon DEF EnsureWorkspacePVC, WaitForLauncherDisk, others
      <3> QED BY <1>2, <1>6, <2>1, <2>2, <3>2, Zenon
    <2>3. CASE pc' # "idle"
      <3>1. HoldPending("DiskBuilding") => pc' = "idle"
        BY <1>5, <1>12, Zenon
      <3>2. /\ UNCHANGED <<sb, mem>> /\ pc \in {"pvc", "disk"}
            /\ pc' \in {"disk", "identity"}
        BY <1>17, <2>3, <3>1, Returns, Zenon
        DEF EnsureWorkspacePVC, WaitForLauncherDisk, others, Goto
      <3>3. Restoring => RestoreKnown'
        BY <3>2, Zenon DEF Restoring, RestoreKnown, ServedInv, Reading, Steps, PodFound
      <3> QED BY <1>2, <1>7, <2>1, <3>2, <3>3, Zenon DEF Steps
    <2> QED BY <2>2, <2>3, Zenon
  <1>18. CASE EnsureIdentity
    <2> DEFINE st == [mem.st EXCEPT !.identity = TRUE]
    <2>1. st \in Statuses /\ st.phase = mem.st.phase /\ st.runtime = mem.st.runtime
      BY Zenon DEF TypeOK, Sandboxes, Statuses
    <2>2. UNCHANGED pod /\ pc = "identity"
      BY <1>18, Zenon DEF EnsureIdentity, others
    <2>3. Restoring => (Served(mem.st) => sb.restored) /\ mem.restored = sb.restored
      BY <2>2, Zenon DEF Restoring, ServedInv, RestoreKnown, Reading, Steps
    <2>4. CASE UNCHANGED sb /\ pc' = "idle"
      BY <1>1, <1>2, <1>6, <2>2, <2>4, Zenon
    <2>5. CASE UNCHANGED <<sb, mem>> /\ pc' = "create"
      <3>1. Restoring => RestoreKnown'
        BY <2>3, <2>5, Zenon DEF Restoring, RestoreKnown, Served, PodFound, Reading,
           Steps
      <3> QED BY <1>2, <1>7, <2>2, <2>5, <3>1, Zenon DEF Steps
    <2>6. CASE PatchStatus(st) /\ mem' = sb' /\ pc' = "create"
      <3> HIDE DEF st
      <3>1. KeepsRecord
        BY <2>1, <2>3, <2>6, PatchRecord, Zenon DEF Served
      <3>2. Restoring /\ sb'.live => RestoreKnown'
        BY <2>3, <2>6, <3>1, Zenon DEF Restoring, RestoreKnown, KeepsRecord, Served,
           PodFound, Reading, Steps
      <3> QED BY <1>2, <2>2, <2>6, <3>1, <3>2, ServedGoes, Zenon DEF KeepsRecord
    <2> QED BY <1>18, <2>4, <2>5, <2>6, Returns, Zenon DEF EnsureIdentity, Goto
  <1>19. CASE CreatePod
    <2>1. UNCHANGED sb /\ pc = "create" /\ pc' = "idle"
      BY <1>19, Returns, Zenon DEF CreatePod, others
    <2>2. CASE pod.live
      BY <1>1, <1>2, <1>6, <1>19, <2>1, <2>2, Zenon DEF CreatePod
    <2>3. CASE ~pod.live
      <3>1. pod' = NewPod
        BY <1>19, <2>3, Zenon DEF CreatePod
      <3>2. pod'.restore = mem.spec.snapshotRef /\ ~pod'.ready /\ pod'.loaded = "no"
        BY <3>1, Zenon DEF NewPod, NoPod
      <3>3. mem.spec = sb.spec
        BY <2>1, Zenon DEF ServedInv, Steps
      <3>4. pc' \notin Steps
        BY <2>1, Zenon DEF Steps
      <3> QED BY <2>1, <3>2, <3>3, <3>4, Zenon DEF ServedInv, LoadKnown
    <2> QED BY <2>2, <2>3, Zenon
  <1> QED BY <1>8, <1>9, <1>10, <1>11, <1>13, <1>14, <1>15, <1>16, <1>17, <1>18, <1>19, Zenon

(* So do the steps from the Pod on. *)
LEMMA FromPodServed ==
  ASSUME TypeOK, ServedInv,
         \/ DeriveStatus \/ RestoreLauncher \/ AnnotateRestored \/ PatchRestored
         \/ RestartExitedSession \/ PauseVM \/ ResumeVM \/ RecordPaused
         \/ RecordResumed \/ FinishPod
  PROVE  ServedInv'
  <1>1. UNCHANGED sb => KeepsRecord
    BY Zenon DEF KeepsRecord, ServedInv
  <1>2. UNCHANGED pod => KeepsLoad
    BY Zenon DEF KeepsLoad
  <1>3. DeletePod => KeepsLoad
    BY Zenon DEF DeletePod, KeepsLoad, TypeOK, Pods
  <1>4. ASSUME KeepsRecord, KeepsLoad, pc' = "idle" PROVE ServedInv'
    BY <1>4, ServedEnds, Zenon
  <1>5. ASSUME UNCHANGED <<sb, mem>>, KeepsLoad, pc \in Steps,
               Restoring => RestoreKnown'
        PROVE  ServedInv'
    BY <1>1, <1>5, ServedGoes, Zenon DEF ServedInv
  <1>6. CASE DeriveStatus
    <2> DEFINE st == Derive(mem, obs)
    <2>1. st \in Statuses /\ st.runtime = mem.st.runtime
      BY DeriveType, DeriveServed, Zenon DEF TypeOK
    <2>2. UNCHANGED pod /\ pc = "derive"
      BY <1>6, Zenon DEF DeriveStatus, others
    <2>3. Restoring => mem.spec = sb.spec /\ RestoreKnown
      BY <2>2, Zenon DEF Restoring, ServedInv, Steps
    <2>4. CASE ~restoreNow(st) /\ PatchDerived(st)
      <3>1. ASSUME Restoring, Served(st) PROVE sb.restored
        <4>1. CASE Served(mem.st)
          BY <2>3, <3>1, <4>1, Zenon DEF RestoreKnown
        <4>2. CASE obs.phase = "Running" /\ obs.ready
          <5>1. mem.st.runtime /\ mem.restored = sb.restored /\ mem.spec.snapshotRef
            BY <2>2, <2>3, <3>1, <4>2, Zenon DEF RestoreKnown, Reading, Steps, Restoring
          <5>2. ~needsLauncherRestore(mem)
            BY <2>4, <3>1, <4>2, Zenon DEF restoreNow, Served
          <5> QED BY <5>1, <5>2, Zenon DEF needsLauncherRestore
        <4> QED BY <3>1, <4>1, <4>2, DeriveServed, Zenon
      <3> HIDE DEF st
      <3> QED BY <2>1, <2>2, <2>4, <3>1, PatchDerivedServed, Zenon DEF Steps
    <2>5. CASE restoreNow(st) /\ UNCHANGED <<sb, mem, obs>> /\ pc' = "restore" /\ des' = st
      <3> HIDE DEF st
      <3>1. needsLauncherRestore(mem) /\ needsLauncherRestore(mem)' /\ des'.runtime
        BY <2>1, <2>5, Zenon DEF restoreNow, needsLauncherRestore
      <3>2. Restoring => RestoreKnown'
        BY <2>2, <2>3, <2>5, <3>1, Zenon DEF RestoreKnown, PodFound, Reading, Steps, Served
      <3> QED BY <1>2, <1>5, <2>2, <2>5, <3>2, Zenon DEF Steps
    <2> QED BY <1>6, <2>4, <2>5, Zenon DEF DeriveStatus
  <1>7. ASSUME NEW r, restoreFailed(r) PROVE des'.phase = "Failed" /\ des'.runtime = des.runtime
    BY <1>7, Zenon DEF restoreFailed, TypeOK, Statuses
  <1>8. CASE RestoreLauncher
    <2>1. UNCHANGED <<sb, mem, obs>> /\ pc = "restore"
      BY <1>8, Zenon DEF RestoreLauncher
    <2>2. Restoring => RestoreKnown /\ mem.st.runtime /\ ~mem.restored /\ sb.st.runtime
                       /\ ~sb.restored /\ des.runtime
      BY <2>1, Zenon
      DEF Restoring, ServedInv, Steps, RestoreKnown, needsLauncherRestore, PodFound,
         Reading
    <2>3. mem.spec = sb.spec
      BY <2>1, Zenon DEF ServedInv, Steps
    <2>4. \/ pc' = "annotate" /\ UNCHANGED des
             /\ Loadable /\ pod' = [pod EXCEPT !.loaded = "ok"]
          \/ /\ pc' = "status" /\ des'.phase = "Failed" /\ des'.runtime = des.runtime
             /\ \/ UNCHANGED pod
                \/ Loadable /\ \E v \in {"running", "paused"} :
                      pod' = [pod EXCEPT !.loaded = "refused", !.vm = v]
      BY <1>7, <1>8, Zenon DEF RestoreLauncher
    <2>5. Restoring => RestoreKnown'
      <3>1. CASE pc' = "annotate"
        <4>1. UNCHANGED des /\ pod' = [pod EXCEPT !.loaded = "ok"]
          BY <2>4, <3>1, Zenon
        <4>2. pod'.loaded # "refused"
          BY <4>1, Zenon DEF TypeOK, Pods
        <4> QED BY <2>1, <2>2, <3>1, <4>1, <4>2, Zenon
            DEF RestoreKnown, PodFound, Reading, Steps
      <3>2. CASE pc' = "status"
        <4>1. des'.phase = "Failed" /\ des'.runtime = des.runtime
          BY <2>4, <3>2, Zenon
        <4> QED BY <2>1, <2>2, <3>2, <4>1, Zenon
            DEF RestoreKnown, PodFound, Reading, Steps, Served
      <3> QED BY <2>4, <3>1, <3>2, Zenon
    <2>6. CASE UNCHANGED pod
      BY <1>2, <1>5, <2>1, <2>5, <2>6, Zenon DEF Steps
    <2>7. CASE Loadable /\ ~UNCHANGED pod
      <3>1. /\ pod'.live = pod.live /\ pod'.restore = pod.restore
            /\ pod'.loaded # "no"
        BY <2>4, <2>7, Zenon DEF TypeOK, Pods
      <3>2. ASSUME Restoring PROVE LoadKnown'
        BY <2>1, <2>2, <3>1, <3>2, Zenon DEF LoadKnown
      <3> QED BY <2>1, <2>3, <2>5, <3>1, <3>2, Zenon DEF ServedInv, Restoring
    <2> QED BY <2>4, <2>6, <2>7, Zenon
  <1>9. CASE AnnotateRestored
    <2>1. UNCHANGED <<pod, obs>> /\ pc = "annotate" /\ pc' = "status"
      BY <1>9, Zenon DEF AnnotateRestored
    <2>2. mem.spec = sb.spec
      BY <2>1, Zenon DEF ServedInv, Steps
    <2>3. Restoring => RestoreKnown /\ des.runtime /\ (pod.live => pod.loaded # "refused")
      BY <2>1, Zenon DEF Restoring, ServedInv, Steps, RestoreKnown
    <2>4. CASE sb.live /\ sb' = [sb EXCEPT !.restored = TRUE] /\ mem' = sb' /\ UNCHANGED des
      <3>1. sb'.gen = sb.gen /\ sb'.spec = sb.spec /\ sb'.live /\ sb'.restored
            /\ sb'.st = sb.st
        BY <2>4, Zenon DEF TypeOK, Sandboxes
      <3>2. Restoring => RestoreKnown'
        BY <2>1, <2>3, <2>4, <3>1, Zenon DEF RestoreKnown, Reading, PodFound
      <3>3. Restoring /\ pod.live => LoadKnown'
        BY <2>1, <2>3, <3>1, Zenon DEF LoadKnown, ServedInv, Restoring
      <3> QED BY <2>1, <2>4, <3>1, <3>2, <3>3, Zenon DEF ServedInv, Restoring
    <2>5. CASE UNCHANGED sb /\ mem' = [mem EXCEPT !.restored = TRUE]
               /\ restoreFailed("RestoreFailed")
      <3>1. mem'.spec = mem.spec /\ mem'.st = mem.st
        BY <2>5, Zenon DEF TypeOK, Sandboxes
      <3>2. Restoring => RestoreKnown'
        BY <1>7, <2>1, <2>3, <2>5, <3>1, Zenon DEF RestoreKnown, Reading, PodFound, Served
      <3> QED BY <1>1, <1>2, <2>1, <2>2, <2>5, <3>1, <3>2, ServedGoes, Zenon
    <2> QED BY <1>9, <2>4, <2>5, Zenon DEF AnnotateRestored
  <1>10. CASE PatchRestored
    <2>1. UNCHANGED pod /\ pc = "status" /\ PatchDerived(des)
      BY <1>10, Zenon DEF PatchRestored, others
    <2>2. Restoring => des.runtime /\ (Served(des) => sb.restored)
      BY <2>1, Zenon DEF Restoring, ServedInv, RestoreKnown, Reading, Steps
    <2> QED BY <2>1, <2>2, PatchDerivedServed, Zenon DEF TypeOK, Steps
  <1>11. CASE RestartExitedSession \/ FinishPod
    <2>1. UNCHANGED sb /\ (DeletePod \/ UNCHANGED pod) /\ pc' = "idle"
      BY <1>11, Returns, DeadlineReturns, Zenon DEF RestartExitedSession, FinishPod, others
    <2> QED BY <1>1, <1>2, <1>3, <1>4, <2>1, Zenon
  <1>12. CASE PauseVM \/ ResumeVM
    <2>1. UNCHANGED sb /\ pc = "act" /\ Served(des)
      BY <1>12, Zenon DEF PauseVM, ResumeVM, pauseDue, resumeDue, others, Served
    <2>2. KeepsLoad
      BY <1>2, <1>12, ZenonT(30) DEF PauseVM, ResumeVM, KeepsLoad, TypeOK, Pods
    <2>3. CASE pc' = "idle"
      BY <1>1, <1>4, <2>1, <2>2, <2>3, Zenon
    <2>4. CASE pc' # "idle"
      <3>1. UNCHANGED <<mem, des>> /\ pc' \in {"paused", "resumed"}
        BY <1>12, <2>4, Returns, Zenon DEF PauseVM, ResumeVM, Goto
      <3>2. Restoring => RestoreKnown'
        BY <2>1, <3>1, Zenon DEF Restoring, RestoreKnown, ServedInv, Reading, Steps, PodFound,
           Served
      <3> QED BY <1>5, <2>1, <2>2, <3>1, <3>2, Zenon DEF Steps
    <2> QED BY <2>3, <2>4, Zenon
  <1>13. CASE RecordPaused \/ RecordResumed
    <2> DEFINE p == [mem.st EXCEPT !.phase = "Paused", !.reason = "UserPaused",
                                   !.ltt = now, !.paused = now]
               q == [mem.st EXCEPT !.phase = "Running", !.reason = "",
                                   !.ltt = now, !.paused = Unset]
    <2>1. p \in Statuses /\ p.runtime = mem.st.runtime
      BY ZenonT(30) DEF TypeOK, Sandboxes, Statuses, Phases, Reasons, Times
    <2>2. q \in Statuses /\ q.runtime = mem.st.runtime
      BY ZenonT(30) DEF TypeOK, Sandboxes, Statuses, Phases, Reasons, PendingReasons, Times
    <2>3. /\ UNCHANGED pod /\ pc \in {"paused", "resumed"} /\ pc' = "idle"
          /\ UNCHANGED sb \/ PatchStatus(p) \/ PatchStatus(q)
      BY <1>13, Returns, DeadlineReturns, Zenon
      DEF RecordPaused, RecordResumed, patchPhase, others
    <2>4. Restoring => sb.restored
      BY <2>3, Zenon DEF Restoring, ServedInv, RestoreKnown, Steps
    <2> HIDE DEF p, q
    <2>5. KeepsRecord
      BY <1>1, <2>1, <2>2, <2>3, <2>4, PatchRecord, Zenon
    <2> QED BY <1>2, <1>4, <2>3, <2>5, Zenon
  <1> QED BY <1>6, <1>8, <1>9, <1>10, <1>11, <1>12, <1>13, Zenon

(* So does everything around the reconciler. *)
LEMMA EnvironmentServed ==
  ASSUME OneSandbox, TypeOK, ServedInv, Environment
  PROVE  ServedInv'
  <1>1. UNCHANGED sb => KeepsRecord /\ (sb'.live => sb'.st.runtime = sb.st.runtime)
    BY Zenon DEF KeepsRecord, ServedInv
  <1>2. UNCHANGED pod => KeepsLoad
    BY Zenon DEF KeepsLoad
  <1>3. CASE Crash \/ ApiError
    <2>1. UNCHANGED <<sb, pod>> /\ pc' \in {"idle", "down"}
      BY <1>3, Returns, Zenon DEF Crash, ApiError, objs
    <2> QED BY <1>1, <1>2, <2>1, ServedEnds, Zenon
  <1>4. CASE Restart \/ Tick \/ ChangeWorld \/ Tamper \/ PVCRemoved \/ CollectPolicy
    <2>1. UNCHANGED <<sb, pod>> /\ (pc' = "idle" \/ UNCHANGED rec)
      BY <1>4, Zenon
      DEF Restart, Tick, ChangeWorld, Tamper, PVCRemoved, CollectPolicy, objs, rec
    <2> QED BY <1>1, <1>2, <2>1, ServedEnds, ServedStands, Zenon
  <1>5. CASE PolicyNotReadable
    <2>1. /\ UNCHANGED <<sb, pod>> /\ pc = "netpol"
          /\ \/ pc' = "idle"
             \/ pc' = "derive" /\ obs.live /\ UNCHANGED <<mem, obs>>
             \/ pc' \in {"pvc", "disk"} /\ UNCHANGED <<mem, obs>>
      BY <1>5, Returns, Zenon DEF PolicyNotReadable, AfterPolicies, Goto
    <2>2. Restoring /\ pc' # "idle" => RestoreKnown'
      BY <2>1, Zenon DEF Restoring, RestoreKnown, ServedInv, Reading, Steps, PodFound
    <2> QED BY <1>1, <1>2, <2>1, <2>2, ServedEnds, ServedGoes, Zenon DEF ServedInv, Steps
  <1>6. CASE PodStarts \/ PodPullFails \/ PodReady \/ PodUnready \/ PodExits
             \/ PodEvicted \/ PodRemoved \/ CollectPod
    <2>1. UNCHANGED <<sb, rec>>
      BY <1>6, Zenon DEF PodStarts, PodPullFails, PodReady, PodUnready, PodExits, PodEvicted,
         PodRemoved, CollectPod, Kubelet
    <2>2. KeepsLoad
      <3>1. CASE PodStarts \/ PodPullFails \/ PodEvicted \/ CollectPod
        BY <3>1, ZenonT(30)
        DEF PodStarts, PodPullFails, PodEvicted, CollectPod, Kubelet, KeepsLoad,
           TypeOK, Pods
      <3>2. CASE PodReady \/ PodUnready \/ PodExits
        BY <3>2, ZenonT(30)
        DEF PodReady, PodUnready, PodExits, GuestAnswers, Kubelet, KeepsLoad,
           TypeOK, Pods
      <3>3. CASE PodRemoved
        BY <3>3, Zenon DEF PodRemoved, Kubelet, NoPod, KeepsLoad
      <3> QED BY <1>6, <3>1, <3>2, <3>3, Zenon
    <2> QED BY <1>1, <2>1, <2>2, ServedStands, Zenon
  <1>7. CASE DeleteSandbox \/ SetDesiredState \/ StampActivity
    <2>1. UNCHANGED <<pod, rec>>
      BY <1>7, Zenon DEF DeleteSandbox, SetDesiredState, StampActivity, Caller
    <2>2. sb'.gen = sb.gen /\ sb'.spec = sb.spec
          /\ (sb'.live => sb.live /\ sb'.restored = sb.restored /\ sb'.st = sb.st)
      <3>1. CASE DeleteSandbox
        BY <3>1, DeletedSandbox, Zenon DEF DeleteSandbox, Caller
      <3>2. CASE SetDesiredState \/ StampActivity
        BY <3>2 DEF SetDesiredState, StampActivity, Caller, TypeOK, Sandboxes
      <3> QED BY <1>7, <3>1, <3>2, Zenon
    <2>3. KeepsRecord
      BY <2>2, Zenon DEF KeepsRecord, ServedInv
    <2> QED BY <1>2, <2>1, <2>2, <2>3, ServedStands, Zenon
  <1>8. ~CreateSandbox
    BY DEF CreateSandbox, OneSandbox, ServedInv
  <1> QED BY <1>3, <1>4, <1>5, <1>6, <1>7, <1>8, Zenon DEF Environment

(* A Sandbox that restores and whose name is used once is Running or       *)
(* Paused only with a snapshot that was loaded, passed the gate and was    *)
(* recorded as such, whatever crash, lost record or API error came         *)
(* between the load and the record.                                        *)
THEOREM ServedSafe ==
  ASSUME OneSandbox
  PROVE  Spec => []ServedOnlyVerified
  <1>1. Init => ServedInv
    <2>1. \A s : Fresh(1, s).gen = 1 /\ Fresh(1, s).st.phase = ""
      BY Zenon DEF Fresh, NoStatus
    <2>2. ~NoPod.live /\ "idle" \notin Steps
      BY Zenon DEF NoPod, Steps
    <2> QED BY <2>1, <2>2, Zenon DEF Init, ServedInv, Served
  <1>2. TypeOK /\ ServedInv /\ [Next]_vars => ServedInv'
    <2>1. ASSUME ServedInv, UNCHANGED vars PROVE ServedInv'
      BY <2>1, ServedStands, Zenon DEF KeepsRecord, KeepsLoad, vars, objs, ServedInv
    <2> QED BY <2>1, ToPodServed, FromPodServed, EnvironmentServed, Zenon
        DEF Next, ReconcileStep
  <1>3. ServedInv => ServedOnlyVerified
    BY Zenon DEF ServedInv, ServedOnlyVerified, OwnPod, LoadKnown, Served
  <1> QED BY <1>1, <1>2, <1>3, TypeCorrect, PTL DEF Spec
==============================================================================
