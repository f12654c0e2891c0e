------------------------- MODULE SandboxController -------------------------
(***************************************************************************)
(* The Sandbox reconciler of internal/controller/sandbox_controller.go and *)
(* the status derivation of internal/status, for one Sandbox name.         *)
(*                                                                         *)
(* A reconcile is not atomic: it is a chain of steps (variable pc), each   *)
(* with at most one write to the API server or one node-agent call, so     *)
(* that the kubelet, callers, the garbage collector, an API error or an    *)
(* operator crash can come between any two of them.  mem is the in-memory  *)
(* copy of the Sandbox the reconcile read, obs the Pod it read and des the *)
(* status it derived.                                                      *)
(*                                                                         *)
(* Reconciles start only when something queued one: a watch event (queue)  *)
(* or a RequeueAfter (wake).  The clock stands still while a reconcile is  *)
(* due or under way and the operator is up, so a deadline that is missed   *)
(* is a deadline nobody scheduled.                                         *)
(*                                                                         *)
(* Class features left to other modules: sessionCheckpoint, snapshot       *)
(* creation and the warm pool.                                             *)
(***************************************************************************)
EXTENDS Integers, FiniteSets

CONSTANTS
  Specs,            \* specs with the settings of their class (see below)
  Worlds,           \* what the reconciler reads: [tenant, class, snap, disk]
  Wants,            \* the values callers give spec.desiredState
  Grace,            \* classNotFoundGrace
  OrphanRetention,  \* orphanedSandboxRetention
  Retention,        \* ephemeralFinishedRetention
  PullGrace,        \* ImagePullGracePeriod
  MaxTime,          \* bound on the clock
  MaxGen,           \* bound on the Sandboxes created under the one name
  MaxFaults         \* bound on API errors, crashes, cache misses, tampering

Unset == -1
Poll == 1           \* every polling requeue of the code is one tick

Terminal == {"Completed", "Failed"}
CoordinatorPhases == {"Paused", "Snapshotting", "Restoring"}
Phases == {"", "Pending", "Running", "Paused"} \cup Terminal
Ended == {"Succeeded", "Failed"}

(* failedPodDeletes: the failures whose Pod is deleted. *)
failedPodDeletes ==
  {"Timeout", "IdleTimeout", "PauseTimeoutExceeded", "InvariantGateViolation"}

PendingReasons ==
  {"", "TenantLabelMissing", "ClassNotFound", "ConstraintViolated",
   "SnapshotUnavailable", "SnapshotIncompatible", "DiskBuilding", "Restoring",
   "SessionVMRestarting"}
Reasons ==
  PendingReasons \cup failedPodDeletes \cup
    {"RestoreFailed", "UnsupportedBackend", "DiskBuildFailed",
     "ImagePullFailure", "ContainerExitedNonZero", "UserPaused"}

Steps ==
  {"finalizer", "teardown", "teardownPVC", "reap", "resolve", "badBackend",
   "backend", "policies", "netpol", "pvc", "disk", "identity", "create",
   "derive", "restore", "annotate", "status", "act", "paused", "resumed"}

(* The immutable spec, and sessionIdleTimeout and maxPauseDuration of its   *)
(* class.  0 stands for a limit that is not set.                           *)
ASSUME ConstantsAssumption ==
  /\ Specs \subseteq [session : BOOLEAN, snapshotRef : BOOLEAN, timeout : Nat,
                      idle : Nat, maxPause : Nat]
  /\ Specs # {}
  /\ Worlds \subseteq [tenant : BOOLEAN,
                       class  : {"ok", "missing", "violated", "badBackend"},
                       snap   : {"Ready", "unavailable", "incompatible"},
                       disk   : {"ready", "building", "failed"}]
  /\ Worlds # {}
  /\ Wants \subseteq {"Running", "Paused"}
  /\ Grace \in Nat /\ OrphanRetention \in Nat
  /\ Retention \in Nat /\ PullGrace \in Nat
  /\ MaxTime \in Nat /\ MaxGen \in Nat \ {0} /\ MaxFaults \in Nat

VARIABLES
  now,       \* the wall clock
  sb,        \* the Sandbox object in the API server
  pod,       \* the Pod <name>-vm
  pvc,       \* the workspace claim
  netpol,    \* the NetworkPolicy of the Sandbox
  baseline,  \* the namespace-wide default-deny is intact
  world,     \* namespace label, class, referenced Snapshot, image disk
  queue,     \* the Sandbox is in the work queue
  wake,      \* the earliest RequeueAfter still pending, or Unset
  pc, mem, obs, des,   \* the reconcile under way
  faults     \* faults left

env  == <<now, world, faults>>
objs == <<sb, pod, pvc, netpol, baseline>>
rec  == <<pc, mem, obs, des>>
vars == <<env, objs, rec, queue, wake>>

------------------------------------------------------------------------------
(* Objects. *)

NoStatus == [phase |-> "", reason |-> "", ltt |-> Unset, started |-> Unset,
             paused |-> Unset, runtime |-> FALSE, identity |-> FALSE]

Fresh(g, s) ==
  [live |-> TRUE, gen |-> g, spec |-> s, created |-> now, deleting |-> FALSE,
   finalizer |-> FALSE, want |-> "Running", activity |-> Unset,
   restored |-> FALSE, st |-> NoStatus]

(* A name with no object keeps only its generation. *)
Gone(s) ==
  [s EXCEPT !.live = FALSE, !.created = 0, !.deleting = FALSE,
            !.finalizer = FALSE, !.want = "Running", !.activity = Unset,
            !.restored = FALSE, !.st = NoStatus]

NoSandbox ==
  [live |-> FALSE, gen |-> 0, spec |-> CHOOSE s \in Specs : TRUE,
   created |-> 0, deleting |-> FALSE, finalizer |-> FALSE, want |-> "Running",
   activity |-> Unset, restored |-> FALSE, st |-> NoStatus]

NoPod ==
  [live |-> FALSE, gen |-> 0, phase |-> "Pending", ready |-> FALSE,
   deleting |-> FALSE, restore |-> FALSE, loaded |-> "no", vm |-> "running",
   created |-> 0, start |-> Unset, mount |-> 0, pull |-> FALSE]

NoPVC == [live |-> FALSE, gen |-> 0, deleting |-> FALSE]

NoPolicy == [spec |-> "none", gen |-> 0]

(* Deleting a Sandbox: an object with the finalizer waits for its release. *)
Deleted(s) == IF s.finalizer THEN [s EXCEPT !.deleting = TRUE] ELSE Gone(s)

(* A merge patch writes the fields that changed in memory, by name. *)
MergeStatus(live, orig, new) ==
  [phase    |-> IF new.phase # orig.phase THEN new.phase ELSE live.phase,
   reason   |-> IF new.reason # orig.reason THEN new.reason ELSE live.reason,
   ltt      |-> IF new.ltt # orig.ltt THEN new.ltt ELSE live.ltt,
   started  |-> IF new.started # orig.started THEN new.started ELSE live.started,
   paused   |-> IF new.paused # orig.paused THEN new.paused ELSE live.paused,
   runtime  |-> IF new.runtime # orig.runtime THEN new.runtime ELSE live.runtime,
   identity |-> IF new.identity # orig.identity THEN new.identity
                ELSE live.identity]

(* Owns and For: every change of these objects queues the Sandbox. *)
Notify ==
  queue' = (queue \/ sb' # sb \/ pod' # pod \/ pvc' # pvc \/ netpol' # netpol)

Due == wake # Unset /\ wake <= now

------------------------------------------------------------------------------
(* internal/status: the status a Sandbox s with Pod p should have. *)

setPhase(st, phase, reason) ==
  [st EXCEPT !.phase = phase, !.reason = reason,
             !.ltt = IF st.phase = phase THEN st.ltt ELSE now]

timedOut(s, started) ==
  /\ s.spec.timeout > 0
  /\ now - (IF started = Unset THEN s.created ELSE started) > s.spec.timeout

WithStart(st, p) ==
  IF st.started = Unset THEN [st EXCEPT !.started = p.start] ELSE st

(* Bug: a phase the CRD does not know for a Pod that is not ready. *)
derivedRunning_Starting(s, p) ==
  IF ~p.ready THEN setPhase(s.st, "Starting", "") ELSE setPhase(s.st, "Running", "")

derivedRunning(s, p) ==
  LET st == WithStart(s.st, p)
  IN  IF ~p.ready THEN setPhase(s.st, "Pending", "")
      ELSE IF timedOut(s, st.started) THEN setPhase(st, "Failed", "Timeout")
      ELSE setPhase(st, "Running", "")

imagePullStuck(p) == p.pull /\ now - p.created >= PullGrace

fromPodPhase(s, p) ==
  CASE p.phase = "Succeeded" -> WithStart(setPhase(s.st, "Completed", ""), p)
    [] p.phase = "Failed"    ->
         WithStart(setPhase(s.st, "Failed", "ContainerExitedNonZero"), p)
    [] p.phase = "Running"   -> derivedRunning(s, p)
    [] p.phase = "Pending"   ->
         IF imagePullStuck(p) THEN setPhase(s.st, "Failed", "ImagePullFailure")
         ELSE setPhase(s.st, "Pending", "")

Derive(s, p) ==
  LET out == fromPodPhase(s, p)
  IN  IF s.st.phase \in Terminal THEN s.st
      ELSE IF s.st.phase \in CoordinatorPhases /\ p.phase = "Running" THEN s.st
      ELSE IF s.spec.session /\ p.phase \in Ended
           THEN setPhase(s.st, "Pending", "SessionVMRestarting")
      ELSE IF out.phase = "Pending" /\ timedOut(s, out.started)
           THEN setPhase(out, "Failed", "Timeout")
      ELSE out

Later(a, b) == IF a >= b THEN a ELSE b

LastSessionActivity(s) == Later(Later(s.created, s.st.started), s.activity)

HasIdleDeadline(s) == s.spec.session /\ s.spec.idle > 0
SessionIdleDeadline(s) == LastSessionActivity(s) + s.spec.idle

ApplySessionIdlePolicy(s, st) ==
  IF st.phase = "Running" /\ HasIdleDeadline(s) /\ now >= SessionIdleDeadline(s)
  THEN setPhase(st, "Failed", "IdleTimeout") ELSE st

HasPauseDeadline(s, st) == st.paused # Unset /\ s.spec.maxPause > 0
PauseDeadline(s, st) == st.paused + s.spec.maxPause

ApplyPausePolicy(s, st) ==
  IF st.phase = "Paused" /\ HasPauseDeadline(s, st) /\ now >= PauseDeadline(s, st)
  THEN setPhase(st, "Failed", "PauseTimeoutExceeded") ELSE st

(* The Sandbox must load its snapshot before a caller gets it. *)
needsLauncherRestore(s) == s.spec.snapshotRef /\ s.st.runtime /\ ~s.restored

holdUntilRestored(s, st) ==
  IF needsLauncherRestore(s) /\ st.phase = "Pending" /\ st.reason = ""
  THEN [st EXCEPT !.reason = "Restoring"] ELSE st

(* nextLifecycleDeadline: the deadlines that run in the phase of st. *)
LifecycleDeadlines(s, st) ==
  (IF st.phase = "Running" /\ s.spec.timeout > 0 /\ st.started # Unset
   THEN {st.started + s.spec.timeout} ELSE {})
  \cup (IF st.phase = "Running" /\ HasIdleDeadline(s)
        THEN {SessionIdleDeadline(s)} ELSE {})
  \cup (IF st.phase = "Paused" /\ HasPauseDeadline(s, st)
        THEN {PauseDeadline(s, st)} ELSE {})

------------------------------------------------------------------------------
(* Steps of a reconcile. *)

Idle == pc' = "idle" /\ mem' = NoSandbox /\ obs' = NoPod /\ des' = NoStatus

Return == Idle /\ UNCHANGED wake /\ Notify

ReturnErr == Idle /\ UNCHANGED wake /\ queue' = TRUE

(* RequeueAfter: the delaying queue keeps the earliest time of an item. *)
RequeueAt(t) ==
  Idle /\ Notify /\ wake' = (IF wake = Unset \/ t < wake THEN t ELSE wake)

Goto(step) == pc' = step /\ Notify /\ UNCHANGED <<wake, obs, des>>

(* Bug: come back at the latest of the deadlines. *)
RequeueForDeadline_Latest(s, st) ==
  LET D == LifecycleDeadlines(s, st)
  IN  IF D = {} THEN Return
      ELSE \E d \in D : (\A e \in D : d >= e) /\ RequeueAt(Later(d, now + 1))

(* requeueAfter: come back at the earliest deadline, one tick away at least. *)
RequeueForDeadline(s, st) ==
  LET D == LifecycleDeadlines(s, st)
  IN  IF D = {} THEN Return
      ELSE \E d \in D : (\A e \in D : d <= e) /\ RequeueAt(Later(d, now + 1))

(* A status patch lands on the object of that name, or fails on none. *)
PatchStatus(new) == sb' = [sb EXCEPT !.st = MergeStatus(sb.st, mem.st, new)]

patchPhase(phase, reason, pausedAt) ==
  PatchStatus([mem.st EXCEPT !.phase = phase, !.reason = reason, !.ltt = now,
                             !.paused = pausedAt])

patchPendingStatus(reason) ==
  IF mem.st.phase = "Pending" /\ mem.st.reason = reason THEN UNCHANGED sb
  ELSE PatchStatus([mem.st EXCEPT !.phase = "Pending", !.reason = reason,
                                  !.ltt = now])

patchFailedStatus(reason) ==
  IF mem.st.phase = "Failed" /\ mem.st.reason = reason THEN UNCHANGED sb
  ELSE PatchStatus([mem.st EXCEPT !.phase = "Failed", !.reason = reason,
                                  !.ltt = now])

others(changed) == UNCHANGED changed /\ UNCHANGED env

(* What handleWorkspaceFinalizer and reapExpiredEphemeral claim.  Bug: a   *)
(* finished Sandbox takes the common path.                                 *)
needsFinalizer(s) == s.spec.session /\ ~s.finalizer
ownedByReap_Never(s) == FALSE
ownedByReap(s) == ~s.spec.session /\ s.st.phase \in Terminal

(* Reconcile, (1) to (1c): read the Sandbox and choose the path. *)
Begin ==
  /\ pc = "idle" /\ (queue \/ Due)
  /\ others(<<objs, obs, des>>)
  /\ queue' = FALSE
  /\ wake' = IF Due THEN Unset ELSE wake
  /\ mem' = IF sb.live THEN sb ELSE NoSandbox
  /\ pc' = IF ~sb.live THEN "idle"
           ELSE IF sb.deleting THEN "teardown"
           ELSE IF needsFinalizer(sb) THEN "finalizer"
           ELSE IF ownedByReap(sb) THEN "reap" ELSE "resolve"

(* handleWorkspaceFinalizer (1b). *)
AddFinalizer ==
  /\ pc = "finalizer"
  /\ others(<<pod, pvc, netpol, baseline>>)
  /\ IF sb.live
     THEN /\ sb' = [sb EXCEPT !.finalizer = TRUE]
          /\ mem' = sb' /\ Goto("resolve")
     ELSE UNCHANGED sb /\ ReturnErr

(* teardownWorkspace (a): delete the Pod so the claim can unmount. *)
TeardownPod ==
  /\ pc = "teardown"
  /\ others(<<sb, pvc, netpol, baseline, mem>>)
  /\ pod' = IF pod.live THEN [pod EXCEPT !.deleting = TRUE] ELSE pod
  /\ Goto("teardownPVC")

(* teardownWorkspace (b): delete the claim, or release the finalizer once  *)
(* the claim is gone or terminating.                                       *)
TeardownPVC ==
  /\ pc = "teardownPVC"
  /\ others(<<pod, netpol, baseline>>)
  /\ IF pvc.live /\ ~pvc.deleting
     THEN /\ pvc' = [pvc EXCEPT !.deleting = TRUE]
          /\ UNCHANGED sb /\ RequeueAt(now + Poll)
     ELSE /\ sb' = Gone(sb)
          /\ UNCHANGED pvc /\ Return

(* ephemeralReapDue and reapExpiredEphemeral. *)
ephemeralReapDue == mem.st.ltt # Unset /\ now >= mem.st.ltt + Retention

(* Bug: nothing brings the finished Sandbox back. *)
reapExpiredEphemeral_NoRequeue ==
  /\ pc = "reap"
  /\ others(<<pod, pvc, netpol, baseline>>)
  /\ sb' = IF sb.live /\ ephemeralReapDue THEN Deleted(sb) ELSE sb
  /\ Return

reapExpiredEphemeral ==
  /\ pc = "reap"
  /\ others(<<pod, pvc, netpol, baseline>>)
  /\ IF ephemeralReapDue
     THEN sb' = (IF sb.live THEN Deleted(sb) ELSE sb) /\ Return
     ELSE /\ UNCHANGED sb
          /\ RequeueAt(IF mem.st.ltt = Unset THEN now + Retention
                       ELSE mem.st.ltt + Retention)

(* A path that ends Pending and polls again. *)
HoldPending(reason) ==
  IF sb.live \/ (mem.st.phase = "Pending" /\ mem.st.reason = reason)
  THEN patchPendingStatus(reason) /\ RequeueAt(now + Poll)
  ELSE UNCHANGED sb /\ ReturnErr

(* handleUnresolvableClass: grace, terminal failure, reap. *)
classNotFoundExpired == now - mem.created >= Grace
orphanReapDue == now >= mem.created + Grace + OrphanRetention

handleUnresolvableClass ==
  IF mem.st.phase \in Terminal /\ mem.st.reason # "ClassNotFound"
  THEN UNCHANGED sb /\ Return
  ELSE IF ~classNotFoundExpired THEN HoldPending("ClassNotFound")
  ELSE IF orphanReapDue
       THEN sb' = (IF sb.live THEN Deleted(sb) ELSE sb) /\ Return
  ELSE IF sb.live \/ mem.st.phase = "Failed"
       THEN /\ patchFailedStatus("ClassNotFound")
            /\ RequeueAt(mem.created + Grace + OrphanRetention)
  ELSE UNCHANGED sb /\ ReturnErr

(* Reconcile (3) to (8): tenant, class, snapshotRef, then the Pod. *)
ResolveSnapshotUnusable == mem.spec.snapshotRef /\ world.snap # "Ready"

(* A finished Sandbox gets no new Pod.  Bug: it does. *)
finishedWithoutPod_Never == FALSE
finishedWithoutPod == ~pod.live /\ mem.st.phase \in Terminal

ToPod ==
  IF finishedWithoutPod THEN Return
  ELSE /\ UNCHANGED <<mem, wake, des>> /\ Notify
       /\ obs' = pod
       /\ pc' = IF pod.live THEN "policies"
                ELSE IF world.class = "badBackend" THEN "badBackend" ELSE "backend"

Resolve ==
  /\ pc = "resolve"
  /\ others(<<pod, pvc, netpol, baseline>>)
  /\ \/ ~world.tenant /\ HoldPending("TenantLabelMissing")
     \/ world.tenant /\ world.class = "missing" /\ handleUnresolvableClass
     \/ world.tenant /\ world.class = "violated" /\ HoldPending("ConstraintViolated")
     \/ /\ world.tenant /\ world.class \in {"ok", "badBackend"}
        /\ IF ~ResolveSnapshotUnusable THEN UNCHANGED sb /\ ToPod
           ELSE IF world.snap = "unavailable" THEN HoldPending("SnapshotUnavailable")
           ELSE HoldPending("SnapshotIncompatible")

(* checkBackend with a removed backend: fails the Sandbox, no new          *)
(* LastTransitionTime.                                                     *)
FailBackend ==
  /\ pc = "badBackend"
  /\ others(<<pod, pvc, netpol, baseline>>)
  /\ IF sb.live
     THEN /\ PatchStatus([mem.st EXCEPT !.phase = "Failed",
                                        !.reason = "UnsupportedBackend"])
          /\ Return
     ELSE UNCHANGED sb /\ ReturnErr

(* checkBackend: status.runtime.chosen.  A patch that fails is not fatal.  *)
RecordBackend ==
  /\ pc = "backend"
  /\ UNCHANGED <<pod, pvc, netpol, baseline, now, world>>
  /\ \/ mem.st.runtime /\ UNCHANGED <<sb, mem, faults>>
     \/ /\ ~mem.st.runtime /\ sb.live
        /\ PatchStatus([mem.st EXCEPT !.runtime = TRUE])
        /\ mem' = sb' /\ UNCHANGED faults
     \/ /\ ~mem.st.runtime
        /\ IF sb.live THEN faults > 0 /\ faults' = faults - 1
           ELSE UNCHANGED faults
        /\ mem' = [mem EXCEPT !.st.runtime = TRUE] /\ UNCHANGED sb
  /\ Goto("policies")

(* ensureNamespaceBaseline. *)
EnsureBaseline ==
  /\ pc = "policies"
  /\ others(<<sb, pod, pvc, netpol, mem>>)
  /\ baseline' = TRUE
  /\ Goto("netpol")

(* The policy after a create or an update, which keeps the owner.  Bug:     *)
(* policies are applied only before the Pod exists.                        *)
AppliedPolicy_OnlyOnce ==
  IF obs.live THEN netpol ELSE [spec |-> "desired", gen |-> mem.gen]
AppliedPolicy ==
  IF netpol.spec = "none" THEN [spec |-> "desired", gen |-> mem.gen]
  ELSE [netpol EXCEPT !.spec = "desired"]

(* applyNetworkPolicy.  A policy that the cache does not show holds a      *)
(* missing Pod back; on the path of an existing Pod it is tried again      *)
(* later.                                                                  *)
AfterPolicies ==
  IF obs.live THEN Goto("derive") /\ UNCHANGED mem
  ELSE (IF mem.spec.session THEN Goto("pvc") ELSE Goto("disk")) /\ UNCHANGED mem

ApplyPolicy ==
  /\ pc = "netpol"
  /\ others(<<sb, pod, pvc, baseline>>)
  /\ netpol' = AppliedPolicy
  /\ AfterPolicies

(* Bug: AlreadyExists is taken for success. *)
DefersPod_Never == FALSE
DefersPod == ~obs.live

PolicyNotReadable ==
  /\ pc = "netpol" /\ faults > 0 /\ faults' = faults - 1
  /\ UNCHANGED <<sb, pod, pvc, baseline, now, world>>
  /\ netpol' = IF netpol.spec = "none" THEN [spec |-> "desired", gen |-> mem.gen]
               ELSE netpol
  /\ IF DefersPod THEN RequeueAt(now + Poll) ELSE AfterPolicies

claimTerminating_Ignored == FALSE
claimTerminating == pvc.live /\ pvc.deleting

EnsureWorkspacePVC ==
  /\ pc = "pvc"
  /\ others(<<sb, pod, netpol, baseline>>)
  /\ IF claimTerminating
     THEN UNCHANGED pvc /\ ReturnErr
     ELSE /\ pvc' = IF pvc.live THEN pvc
                    ELSE [live |-> TRUE, gen |-> mem.gen, deleting |-> FALSE]
          /\ Goto("disk") /\ UNCHANGED mem

(* waitForLauncherDisk. *)
WaitForLauncherDisk ==
  /\ pc = "disk"
  /\ others(<<pod, pvc, netpol, baseline>>)
  /\ \/ world.disk = "ready" /\ UNCHANGED <<sb, mem>> /\ Goto("identity")
     \/ world.disk = "building" /\ HoldPending("DiskBuilding")
     \/ /\ world.disk = "failed"
        /\ IF sb.live THEN patchFailedStatus("DiskBuildFailed") /\ Return
           ELSE UNCHANGED sb /\ ReturnErr

(* ensureIdentity: the identity is recorded before the first Pod. *)
EnsureIdentity ==
  /\ pc = "identity"
  /\ others(<<pod, pvc, netpol, baseline>>)
  /\ IF mem.st.identity THEN UNCHANGED <<sb, mem>> /\ Goto("create")
     ELSE IF sb.live
          THEN /\ PatchStatus([mem.st EXCEPT !.identity = TRUE])
               /\ mem' = sb' /\ Goto("create")
     ELSE UNCHANGED sb /\ ReturnErr

(* createPod: AlreadyExists is success. *)
NewPod ==
  [NoPod EXCEPT !.live = TRUE, !.gen = mem.gen, !.created = now,
                !.restore = mem.spec.snapshotRef,
                !.mount = IF mem.spec.session THEN pvc.gen ELSE 0]

CreatePod ==
  /\ pc = "create"
  /\ others(<<sb, pvc, netpol, baseline>>)
  /\ pod' = IF pod.live THEN pod ELSE NewPod
  /\ Return

(* deriveStatus, the end: policies on the derived status, then the patch.  *)
StatusFrom(st) ==
  ApplyPausePolicy(mem, ApplySessionIdlePolicy(mem, holdUntilRestored(mem, st)))

PatchDerived(st) ==
  LET new == StatusFrom(st)
  IN  IF sb.live \/ new = mem.st
      THEN /\ IF new = mem.st THEN UNCHANGED <<sb, mem>>
              ELSE PatchStatus(new) /\ mem' = sb'
           /\ des' = new
           /\ pc' = "act" /\ Notify /\ UNCHANGED <<wake, obs>>
      ELSE UNCHANGED sb /\ ReturnErr

(* Bug: a Pod that is ready counts as restored. *)
restoreNow_NotReady(st) ==
  needsLauncherRestore(mem) /\ obs.phase = "Running" /\ st.phase = "Pending"

restoreNow(st) ==
  needsLauncherRestore(mem) /\ obs.phase = "Running" /\ st.phase # "Failed"

(* deriveStatus, the start. *)
DeriveStatus ==
  /\ pc = "derive"
  /\ others(<<pod, pvc, netpol, baseline>>)
  /\ LET st == Derive(mem, obs)
     IN  IF restoreNow(st)
         THEN /\ UNCHANGED <<sb, mem, wake, obs>>
              /\ pc' = "restore" /\ des' = st /\ Notify
         ELSE PatchDerived(st)

restoreFailed(reason) == des' = [des EXCEPT !.phase = "Failed", !.reason = reason]

(* maybeRestoreLauncher: the node agent loads the snapshot into a launcher *)
(* that still waits for one, and the gate decides.  A refusal before the   *)
(* load leaves the launcher waiting; one after it pauses the VM, if it can.*)
Loadable ==
  pod.live /\ pod.phase = "Running" /\ pod.restore /\ pod.loaded = "no"

RestoreLauncher ==
  /\ pc = "restore"
  /\ UNCHANGED <<sb, pvc, netpol, baseline, mem, obs, wake, now, world>>
  /\ \/ /\ Loadable
        /\ pod' = [pod EXCEPT !.loaded = "ok"]
        /\ pc' = "annotate" /\ UNCHANGED <<des, faults>>
     \/ /\ Loadable
        /\ \E v \in {"running", "paused"} :
             pod' = [pod EXCEPT !.loaded = "refused", !.vm = v]
        /\ pc' = "status" /\ restoreFailed("InvariantGateViolation")
        /\ UNCHANGED faults
     \/ /\ UNCHANGED pod
        /\ pc' = "status" /\ restoreFailed("InvariantGateViolation")
        /\ UNCHANGED faults
     \/ /\ Loadable /\ world.snap = "Ready"
        /\ faults > 0 /\ faults' = faults - 1 /\ UNCHANGED pod
        /\ pc' = "status" /\ restoreFailed("RestoreFailed")
     \/ /\ ~Loadable \/ world.snap # "Ready"
        /\ UNCHANGED <<pod, faults>>
        /\ pc' = "status" /\ restoreFailed("RestoreFailed")
  /\ Notify

(* The restored annotation.  A patch that fails fails the Sandbox. *)
AnnotateRestored ==
  /\ pc = "annotate"
  /\ UNCHANGED <<pod, pvc, netpol, baseline, obs, wake, now, world>>
  /\ pc' = "status"
  /\ \/ /\ sb.live
        /\ sb' = [sb EXCEPT !.restored = TRUE]
        /\ mem' = sb' /\ UNCHANGED <<des, faults>>
     \/ /\ IF sb.live THEN faults > 0 /\ faults' = faults - 1
           ELSE UNCHANGED faults
        /\ mem' = [mem EXCEPT !.restored = TRUE]
        /\ restoreFailed("RestoreFailed") /\ UNCHANGED sb
  /\ Notify

PatchRestored ==
  /\ pc = "status"
  /\ others(<<pod, pvc, netpol, baseline>>)
  /\ PatchDerived(des)

(* Steps (11b), (11a) and (12) of reconcileExistingPod. *)
sessionPodEnded ==
  mem.spec.session /\ des.phase \notin Terminal /\ obs.phase \in Ended
  /\ ~obs.deleting

DeletePod == pod' = IF pod.live THEN [pod EXCEPT !.deleting = TRUE] ELSE pod

RestartExitedSession ==
  /\ pc = "act" /\ sessionPodEnded
  /\ others(<<sb, pvc, netpol, baseline>>)
  /\ DeletePod /\ Return

pauseDue == mem.want = "Paused" /\ des.phase = "Running"
resumeDue == mem.want = "Running" /\ des.phase = "Paused"

(* Coordinator.Pause and Coordinator.Resume act on the live Pod. *)
PauseVM ==
  /\ pc = "act" /\ ~sessionPodEnded /\ pauseDue
  /\ others(<<sb, pvc, netpol, baseline>>)
  /\ IF pod.live /\ pod.phase = "Running"
     THEN pod' = [pod EXCEPT !.vm = "paused"] /\ Goto("paused") /\ UNCHANGED mem
     ELSE UNCHANGED pod /\ ReturnErr

ResumeVM ==
  /\ pc = "act" /\ ~sessionPodEnded /\ resumeDue
  /\ others(<<sb, pvc, netpol, baseline>>)
  /\ IF pod.live /\ pod.phase = "Running"
     THEN pod' = [pod EXCEPT !.vm = "running"] /\ Goto("resumed") /\ UNCHANGED mem
     ELSE UNCHANGED pod /\ ReturnErr

(* The status after the call.  The requeue still uses the derived status.  *)
RecordPaused ==
  /\ pc = "paused"
  /\ others(<<pod, pvc, netpol, baseline>>)
  /\ IF sb.live
     THEN patchPhase("Paused", "UserPaused", now) /\ RequeueForDeadline(mem, des)
     ELSE UNCHANGED sb /\ ReturnErr

RecordResumed ==
  /\ pc = "resumed"
  /\ others(<<pod, pvc, netpol, baseline>>)
  /\ IF sb.live
     THEN patchPhase("Running", "", Unset) /\ RequeueForDeadline(mem, des)
     ELSE UNCHANGED sb /\ ReturnErr

(* deleteFailedPod, then the requeue. *)
deleteFailedPod ==
  des.phase = "Failed" /\ ~obs.deleting /\ des.reason \in failedPodDeletes

FinishPod ==
  /\ pc = "act" /\ ~sessionPodEnded /\ ~pauseDue /\ ~resumeDue
  /\ others(<<sb, pvc, netpol, baseline>>)
  /\ IF deleteFailedPod THEN DeletePod ELSE UNCHANGED pod
  /\ RequeueForDeadline(mem, des)

(* An API call of the step under way fails: nothing is written and the     *)
(* rate-limited queue brings the Sandbox back.                             *)
ApiError ==
  /\ pc \in Steps \ {"restore", "annotate"} /\ faults > 0
  /\ UNCHANGED <<objs, now, world>>
  /\ faults' = faults - 1
  /\ ReturnErr

ReconcileStep ==
  \/ Begin \/ AddFinalizer \/ TeardownPod \/ TeardownPVC
  \/ reapExpiredEphemeral \/ Resolve \/ FailBackend \/ RecordBackend
  \/ EnsureBaseline \/ ApplyPolicy \/ EnsureWorkspacePVC
  \/ WaitForLauncherDisk \/ EnsureIdentity \/ CreatePod
  \/ DeriveStatus \/ RestoreLauncher \/ AnnotateRestored \/ PatchRestored
  \/ RestartExitedSession \/ PauseVM \/ ResumeVM \/ RecordPaused
  \/ RecordResumed \/ FinishPod

------------------------------------------------------------------------------
(* The operator process. *)

Crash ==
  /\ pc # "down" /\ faults > 0 /\ faults' = faults - 1
  /\ pc' = "down" /\ mem' = NoSandbox /\ obs' = NoPod /\ des' = NoStatus
  /\ queue' = FALSE /\ wake' = Unset
  /\ UNCHANGED <<objs, now, world>>

(* A new leader lists every Sandbox. *)
Restart ==
  /\ pc = "down" /\ pc' = "idle" /\ queue' = TRUE
  /\ UNCHANGED <<env, objs, mem, obs, des, wake>>

(* The clock waits for an operator that is up and has work. *)
Tick ==
  /\ now < MaxTime
  /\ pc = "down" \/ (pc = "idle" /\ ~queue /\ ~Due)
  /\ now' = now + 1
  /\ UNCHANGED <<objs, rec, queue, wake, world, faults>>

------------------------------------------------------------------------------
(* The kubelet and the node. *)

Kubelet(p) ==
  /\ UNCHANGED <<env, sb, pvc, netpol, baseline, rec, wake>>
  /\ pod' = p /\ Notify

(* status.startTime is when the kubelet took the Pod, before the image     *)
(* pull and the boot.                                                      *)
PodStarts ==
  /\ pod.live /\ pod.phase = "Pending"
  /\ \E t \in pod.created .. now :
       Kubelet([pod EXCEPT !.phase = "Running", !.start = t, !.pull = FALSE])

PodPullFails ==
  /\ pod.live /\ pod.phase = "Pending" /\ ~pod.pull
  /\ Kubelet([pod EXCEPT !.pull = TRUE])

(* The readiness probe asks the guest agent, which answers from a running  *)
(* VM that has booted or loaded.                                           *)
GuestAnswers == (pod.restore => pod.loaded # "no") /\ pod.vm = "running"

PodReady ==
  /\ pod.live /\ pod.phase = "Running" /\ ~pod.ready /\ GuestAnswers
  /\ Kubelet([pod EXCEPT !.ready = TRUE])

PodUnready ==
  /\ pod.live /\ pod.phase = "Running" /\ pod.ready /\ ~GuestAnswers
  /\ Kubelet([pod EXCEPT !.ready = FALSE])

PodExits ==
  /\ pod.live /\ pod.phase = "Running"
  /\ \E r \in Ended :
       /\ r = "Succeeded" => pod.ready
       /\ Kubelet([pod EXCEPT !.phase = r, !.ready = FALSE])

(* An eviction or a caller deletes the Pod. *)
PodEvicted ==
  /\ pod.live /\ ~pod.deleting /\ faults > 0
  /\ UNCHANGED <<now, world, sb, pvc, netpol, baseline, rec, wake>>
  /\ pod' = [pod EXCEPT !.deleting = TRUE] /\ faults' = faults - 1 /\ Notify

PodRemoved == pod.live /\ pod.deleting /\ Kubelet(NoPod)

(* pvc-protection: the claim goes when no Pod mounts it. *)
PVCRemoved ==
  /\ pvc.live /\ pvc.deleting /\ ~(pod.live /\ pod.mount = pvc.gen)
  /\ UNCHANGED <<env, sb, pod, netpol, baseline, rec, wake>>
  /\ pvc' = NoPVC /\ Notify

(* Owner-reference garbage collection of what a gone Sandbox owned.  A     *)
(* claim is never left to it: see WorkspaceAttended.                       *)
OwnerGone(g) == ~sb.live \/ sb.gen # g

CollectPod ==
  /\ pod.live /\ OwnerGone(pod.gen) /\ ~pod.deleting
  /\ Kubelet([pod EXCEPT !.deleting = TRUE])

CollectPolicy ==
  /\ netpol.spec # "none" /\ netpol.gen # 0 /\ OwnerGone(netpol.gen)
  /\ UNCHANGED <<env, sb, pod, pvc, baseline, rec, wake>>
  /\ netpol' = NoPolicy /\ Notify

------------------------------------------------------------------------------
(* Callers and administrators. *)

Caller(s) ==
  /\ UNCHANGED <<env, pod, pvc, netpol, baseline, rec, wake>>
  /\ sb' = s /\ Notify

DeleteSandbox == sb.live /\ ~sb.deleting /\ Caller(Deleted(sb))

CreateSandbox ==
  /\ ~sb.live /\ sb.gen < MaxGen
  /\ \E s \in Specs : Caller(Fresh(sb.gen + 1, s))

SetDesiredState ==
  sb.live /\ \E w \in Wants \ {sb.want} : Caller([sb EXCEPT !.want = w])

(* Attach and a log stream stamp the activity of a running session. *)
StampActivity ==
  /\ sb.live /\ sb.spec.session /\ sb.st.phase = "Running"
  /\ sb.activity # now /\ sb.spec.idle > 0
  /\ Caller([sb EXCEPT !.activity = now])

ChangeWorld ==
  /\ \E w \in Worlds \ {world} : world' = w
  /\ UNCHANGED <<now, faults, objs, rec, queue, wake>>

(* Policies written or removed by something else, between reconciles. *)
Tamper ==
  /\ pc = "idle" /\ faults > 0 /\ faults' = faults - 1
  /\ UNCHANGED <<now, world, sb, pod, pvc, rec, wake>>
  /\ \/ netpol' = NoPolicy /\ UNCHANGED baseline
     \/ netpol' = [spec |-> "foreign", gen |-> 0] /\ UNCHANGED baseline
     \/ baseline' = FALSE /\ UNCHANGED netpol
  /\ Notify

Environment ==
  \/ Crash \/ Restart \/ Tick \/ ApiError \/ PolicyNotReadable
  \/ PodStarts \/ PodPullFails \/ PodReady \/ PodUnready \/ PodExits
  \/ PodEvicted \/ PodRemoved \/ PVCRemoved
  \/ CollectPod \/ CollectPolicy
  \/ DeleteSandbox \/ CreateSandbox \/ SetDesiredState \/ StampActivity
  \/ ChangeWorld \/ Tamper

Init ==
  /\ now = 0 /\ faults = MaxFaults
  /\ world \in Worlds
  /\ \E s \in Specs : sb = Fresh(1, s)
  /\ pod = NoPod /\ pvc = NoPVC
  /\ netpol = NoPolicy /\ baseline = FALSE
  /\ queue = TRUE /\ wake = Unset
  /\ pc = "idle" /\ mem = NoSandbox /\ obs = NoPod /\ des = NoStatus

Next == ReconcileStep \/ Environment

Spec == Init /\ [][Next]_vars

(* The work queue runs its items, the clock advances, a crashed operator   *)
(* is replaced, the kubelet and the garbage collector do their work.       *)
Fairness ==
  /\ WF_vars(ReconcileStep) /\ WF_vars(Restart) /\ WF_vars(Tick)
  /\ WF_vars(PodStarts) /\ WF_vars(PodReady) /\ WF_vars(PodRemoved)
  /\ WF_vars(PVCRemoved) /\ WF_vars(CollectPod) /\ WF_vars(CollectPolicy)

FairSpec == Spec /\ Fairness

------------------------------------------------------------------------------
(* Types. *)

Times == Nat \cup {Unset}

Statuses ==
  [phase : Phases, reason : Reasons, ltt : Times, started : Times,
   paused : Times, runtime : BOOLEAN, identity : BOOLEAN]

Sandboxes ==
  [live : BOOLEAN, gen : Nat, spec : Specs, created : Nat, deleting : BOOLEAN,
   finalizer : BOOLEAN, want : {"Running", "Paused"}, activity : Times,
   restored : BOOLEAN, st : Statuses]

Pods ==
  [live : BOOLEAN, gen : Nat, phase : {"Pending", "Running"} \cup Ended,
   ready : BOOLEAN, deleting : BOOLEAN, restore : BOOLEAN,
   loaded : {"no", "ok", "refused"}, vm : {"running", "paused"},
   created : Nat, start : Times, mount : Nat, pull : BOOLEAN]

(* Every object, the clock and the reconcile under way have their types:   *)
(* the phase of a Sandbox of these classes is one the CRD enum allows.     *)
TypeOK ==
  /\ now \in Nat /\ faults \in Nat /\ world \in Worlds
  /\ sb \in Sandboxes /\ pod \in Pods
  /\ pvc \in [live : BOOLEAN, gen : Nat, deleting : BOOLEAN]
  /\ netpol \in [spec : {"none", "foreign", "desired"}, gen : Nat]
  /\ baseline \in BOOLEAN
  /\ queue \in BOOLEAN /\ wake \in Times
  /\ pc \in Steps \cup {"idle", "down"}
  /\ mem \in Sandboxes /\ obs \in Pods /\ des \in Statuses

------------------------------------------------------------------------------
(* Properties. *)

Quiet == pc = "idle" /\ ~queue /\ ~Due

OwnPod == pod.live /\ sb.live /\ pod.gen = sb.gen

(* handleMissingPod applies the namespace baseline and the NetworkPolicy   *)
(* before it creates the Pod, whatever crash, retry, stale read or foreign *)
(* policy came before: the Pod of a live Sandbox is created under both.    *)
PodCreatedUnderPolicies ==
  [][~pod.live /\ OwnPod' => netpol.spec = "desired" /\ baseline]_vars

(* ensureWorkspacePVC: no Pod mounts a claim of an earlier Sandbox of the  *)
(* same name.                                                              *)
WorkspaceIsOwn == pod.live /\ pod.mount # 0 => pod.mount = pod.gen

(* No window in which a claim outlives its Sandbox unattended              *)
(* (handleWorkspaceFinalizer): a claim that is not being deleted belongs   *)
(* to a live Sandbox that carries the workspace finalizer.                 *)
WorkspaceAttended ==
  pvc.live /\ ~pvc.deleting => sb.live /\ sb.gen = pvc.gen /\ sb.finalizer

(* ensureWorkspacePVC, handleWorkspaceFinalizer: a workspace serves one    *)
(* session and never outlives it unattended, though the claim of an        *)
(* earlier session may still be going when the name is used again.         *)
WorkspaceKept == WorkspaceIsOwn /\ WorkspaceAttended

(* reapExpiredEphemeral owns the reconcile of a finished ephemeral         *)
(* Sandbox: its phase and reason never change again, whatever happens to   *)
(* its namespace label, class, Snapshot or Pod.                            *)
EphemeralResultKept ==
  [][ sb.live /\ sb'.live /\ sb'.gen = sb.gen /\ ~sb.spec.session
      /\ sb.st.phase \in Terminal
      => sb'.st.phase = sb.st.phase /\ sb'.st.reason = sb.st.reason ]_vars

(* Terminal phases short-circuit Pod creation (Reconcile): no Pod is       *)
(* created for a Sandbox that is finished at that moment.                  *)
NoPodForFinished ==
  [][~pod.live /\ OwnPod' => sb.st.phase \notin Terminal]_vars

(* A deadline that runs is a deadline somebody scheduled                   *)
(* (nextLifecycleDeadline): when no reconcile is due, no Running Sandbox   *)
(* is past its timeout or its idle deadline and no Paused one past its     *)
(* pause cap, whatever crashes and errors came before.                     *)
NoForgottenDeadline ==
  Quiet /\ OwnPod /\ ~sb.deleting =>
    /\ sb.st.phase = "Running" /\ sb.spec.timeout > 0 =>
         now - sb.st.started <= sb.spec.timeout
    /\ sb.st.phase = "Running" /\ sb.spec.session /\ sb.spec.idle > 0 =>
         now < LastSessionActivity(sb) + sb.spec.idle
    /\ sb.st.phase = "Paused" /\ sb.spec.maxPause > 0 =>
         now < sb.st.paused + sb.spec.maxPause

(* A Sandbox that restores is served only from a snapshot that was loaded  *)
(* and passed the invariant gate (maybeRestoreLauncher), also after a      *)
(* crash or a lost write between the load and the record of it.            *)
ServedOnlyVerified ==
  OwnPod /\ pod.restore /\ sb.st.phase \in {"Running", "Paused"} =>
    pod.loaded # "refused" /\ sb.restored

(* docs/design/lifecycles.md, auto-destroy on exit: a finished ephemeral   *)
(* Sandbox is deleted, and its Pod with it.                                *)
FinishedEphemeral ==
  /\ sb.live /\ ~sb.spec.session /\ sb.st.phase \in Terminal
  /\ sb.st.ltt + Retention <= MaxTime

EphemeralDestroyed == FinishedEphemeral ~> ~sb.live /\ ~pod.live

(* A policy that failed a Sandbox also ends its machine (deleteFailedPod   *)
(* for a session, at the latest the reap for an ephemeral one).            *)
StoppedByPolicy ==
  /\ sb.live /\ sb.st.phase = "Failed"
  /\ sb.st.reason \in {"Timeout", "IdleTimeout", "PauseTimeoutExceeded"}
  /\ sb.spec.session \/ FinishedEphemeral

StoppedMeansNoMachine == StoppedByPolicy ~> ~pod.live

(* ensurePolicies: a NetworkPolicy deleted or widened out of band under    *)
(* the Pod of an unfinished Sandbox is restored, because its event queues  *)
(* the Sandbox.  (A finished ephemeral Sandbox is only reaped.)            *)
Serving == OwnPod /\ sb.st.phase \notin Terminal

PolicyRestored ==
  Serving /\ netpol.spec # "desired" ~> ~Serving \/ netpol.spec = "desired"

(* teardownWorkspace and owner references: a deleted Sandbox ends with its *)
(* object, its Pod and its workspace claim gone.                           *)
DeletedMeansGone ==
  sb.live /\ sb.deleting /\ sb.gen = MaxGen ~> ~sb.live /\ ~pod.live /\ ~pvc.live

(* reapExpiredEphemeral, deleteFailedPod and teardownWorkspace: what is    *)
(* over is gone in the end.  A finished ephemeral Sandbox is deleted with  *)
(* its Pod, a Sandbox that a policy failed loses its machine, a deleted    *)
(* one its object, Pod and claim, whatever failed on the way.              *)
OverMeansGone == EphemeralDestroyed /\ StoppedMeansNoMachine /\ DeletedMeansGone

------------------------------------------------------------------------------
(* What the comments of the code promise and the code does not keep. *)

(* api/v1alpha1/sandbox_types.go: once terminal, the controller will not   *)
(* roll a Sandbox back.  For a session: its phase never changes again.     *)
SessionResultKept ==
  [][ sb.live /\ sb'.live /\ sb'.gen = sb.gen /\ sb.spec.session
      /\ sb.st.phase \in Terminal => sb'.st.phase = sb.st.phase ]_vars

(* orphanedSandboxRetention: a Sandbox the reap deletes never had a Pod.   *)
OrphanReapSparesPods ==
  [][ pc = "resolve" /\ pc' = "idle" /\ sb.live /\ ~sb'.live => ~OwnPod ]_vars

(* Derive: a Pending Sandbox past the timeout fails.                       *)
PendingTimesOut ==
  Quiet /\ OwnPod /\ sb.st.phase = "Pending" /\ sb.st.started = Unset
  /\ sb.spec.timeout > 0 => now - sb.created <= sb.spec.timeout
==============================================================================
