-------------------------- MODULE LauncherMachine --------------------------
(***************************************************************************)
(* One launcher Pod, from the start of its machine to its end, and the     *)
(* restore of a snapshot into it: the restore step of the Sandbox          *)
(* reconciler (internal/controller/launcher_restore.go), the coordinator's *)
(* RestoreSandbox and its gate, the node agent's restoreLauncher, the      *)
(* launcher (internal/launcher) and the guest agent it talks to            *)
(* (internal/guestagent, internal/entropy, internal/uniquify).             *)
(*                                                                         *)
(* The operator, each call at the node agent, the launcher and the guest   *)
(* are processes.  Node agent and launcher meet only in the files of the   *)
(* Pod's work volume.  A timeout is a step that may come at any time while *)
(* its wait lasts.                                                         *)
(***************************************************************************)
EXTENDS Integers, FiniteSets

CONSTANTS
  Setups,       \* how the Sandbox, its class, node and snapshot are set up
  MaxAttempts,  \* bound on the restores that the operator starts
  MaxFaults,    \* bound on the failures of one behaviour
  None

VARIABLES
  setup,     \* one of Setups; it does not change
  sandbox,   \* the Sandbox: phase and RestoredAnnotation
  operator,  \* its restore step: pc, and the attempts started
  calls,     \* the RestoreSandbox calls at the node agent, by attempt
  files,     \* the restore files of the Pod's work volume
  run,       \* Launcher.Run: pc, start, registered defers, result
  machine,   \* the Firecracker process and the guest in it
  podStop,   \* the Pod is being deleted: SIGTERM has reached the launcher
  faultsLeft

lmVars == <<setup, sandbox, operator, calls, files, run, machine, podStop,
            faultsLeft>>

Attempts == 1..MaxAttempts

(* What uniquify replaces in a loaded guest. *)
Identity == {"machineID", "bootID", "hostname", "podIP", "cid"}

(* ReasonVMMExited and the other launch failures end with this exit code. *)
LaunchFailedExit == 125

(* The code that the workload of the model ends with. *)
WorkloadExit == 3

Fault == faultsLeft > 0 /\ faultsLeft' = faultsLeft - 1
Works == faultsLeft' = faultsLeft

fromSnapshot == setup.source # "boot"

(***************************************************************************)
(* The launcher.                                                           *)
(***************************************************************************)

At(p) == run.pc = p
Goto(p) == run' = [run EXCEPT !.pc = p]

(* Leaving Run: the registered defers follow.  slip records what went wrong
   before the machine was up, and in Start, Leave or by a kill. *)
Return(code) ==
  run' = [run EXCEPT !.pc = "defers", !.code = code,
                     !.slip = IF At("wait") THEN @ ELSE "launch"]

(* writeEvidence goes through a rename, so a reader sees all of it. *)
writeEvidence(ev) == files' = [files EXCEPT !.evidence = ev]

Confirmed(reseeded) ==
  [error |-> FALSE, reseeded |-> reseeded, uniquified |-> TRUE,
   clock |-> TRUE]

(* failRestore: Run ends, and a restore tells the node agent why. *)
failRestore ==
  /\ IF fromSnapshot
       THEN writeEvidence([error |-> TRUE, reseeded |-> FALSE,
                           uniquified |-> FALSE, clock |-> FALSE])
       ELSE UNCHANGED files
  /\ Return(LaunchFailedExit)

(* The spec, the CPU template and the image disk are checked. *)
prepare ==
  /\ At("prepare")
  /\ \/ Works /\ Goto(IF fromSnapshot THEN "staged" ELSE "join")
     \/ Fault /\ Return(LaunchFailedExit)
  /\ UNCHANGED <<files, machine>>

(* waitStaged: the marker that the node agent writes last. *)
waitStaged ==
  /\ At("staged") /\ Works
  /\ \/ /\ files.staged # "absent"
        /\ run' = [run EXCEPT !.pc = "disk",
                              !.start = IF files.staged = "off"
                                          THEN "LoadedNoReseed"
                                          ELSE "Loaded"]
        /\ UNCHANGED files
     \/ files.staged = "absent" /\ failRestore  \* stagedWait, or SIGTERM
  /\ UNCHANGED machine

(* Mutant: the digest is read and not compared. *)
checkSnapshotDisk_Unread ==
  /\ At("disk") /\ Works
  /\ IF files.digest = "whole" THEN Goto("join") /\ UNCHANGED files
     ELSE failRestore
  /\ UNCHANGED machine

(* The digest of the snapshot's image disk is there, and is this Pod's. *)
checkSnapshotDisk ==
  /\ At("disk") /\ Works
  /\ IF files.digest = "whole" /\ setup.sameDisk
       THEN Goto("join") /\ UNCHANGED files
       ELSE failRestore
  /\ UNCHANGED machine

(* The defer of Leave comes before Join. *)
Join ==
  /\ At("join")
  /\ \/ /\ Works
        /\ run' = [run EXCEPT !.pc = "disks", !.defers = {"leave"}]
        /\ machine' = [machine EXCEPT !.tap = TRUE]
     \/ /\ Fault
        /\ run' = [run EXCEPT !.pc = "defers", !.defers = {"leave"},
                              !.code = LaunchFailedExit, !.slip = "launch"]
        /\ \E made \in BOOLEAN : machine' = [machine EXCEPT !.tap = made]
  /\ UNCHANGED files

(* A writable layer that is there is used as it is; a new one whose format
   fails is removed. *)
prepareDisks ==
  /\ At("disks")
  /\ \/ /\ Works /\ Goto("listen")
        /\ files' = [files EXCEPT !.layer = IF @ = "absent" THEN "new" ELSE @]
     \/ Fault /\ Return(LaunchFailedExit) /\ UNCHANGED files
  /\ UNCHANGED machine

(* listenExit, the identity socket and vm.json. *)
listenExit ==
  /\ At("listen")
  /\ \/ /\ Works
        /\ run' = [run EXCEPT !.pc = "start", !.defers = @ \cup {"close"}]
        /\ machine' = [machine EXCEPT !.listening = TRUE]
     \/ Fault /\ Return(LaunchFailedExit) /\ UNCHANGED machine
  /\ UNCHANGED files

(* FirecrackerVMM.Start.  It can fail before or after the process is made,
   and Run has no defer of Stop yet. *)
Start ==
  /\ At("start")
  /\ \/ /\ Works
        /\ run' = [run EXCEPT !.pc = IF fromSnapshot THEN "load" ELSE "boot",
                              !.defers = @ \cup {"stop"}]
        /\ machine' = [machine EXCEPT !.process = IF fromSnapshot
                                                    THEN "empty"
                                                    ELSE "runs"]
     \/ /\ IF podStop THEN Works ELSE Fault
        /\ run' = [run EXCEPT !.pc = "defers", !.code = LaunchFailedExit,
                              !.slip = "start"]
        /\ \E p \in {"none", "empty"} :
             machine' = [machine EXCEPT !.process = p]
  /\ UNCHANGED files

(* Connect of a machine that boots: it joins the network at once. *)
connectBooted ==
  /\ At("boot")
  /\ \/ Works /\ Goto("ready") /\ machine' = [machine EXCEPT !.joined = TRUE]
     \/ Fault /\ Return(LaunchFailedExit) /\ UNCHANGED machine
  /\ UNCHANGED files

(* LoadSnapshot: Firecracker reads the files as they are at that time.  The
   guest comes back as it was, with its workload unless it is a base. *)
LoadSnapshot ==
  /\ At("load")
  /\ \/ /\ Works /\ files.state # "absent" /\ machine.process = "empty"
        /\ Goto("ready") /\ UNCHANGED files
        /\ machine' = [machine EXCEPT
             !.process = "runs",
             !.loaded = IF files.state = "whole" /\ files.layer = "whole"
                          THEN "whole" ELSE "torn",
             !.workload = IF setup.source = "base" THEN "none" ELSE "runs"]
     \/ /\ UNCHANGED machine /\ failRestore
        /\ IF files.state = "absent" \/ machine.process # "empty" \/ podStop
             THEN Works ELSE Fault

(***************************************************************************)
(* AfterStart: the calls to the guest agent.  A call that fails may have   *)
(* taken effect before its answer was lost.                                *)
(***************************************************************************)

(* LinkConfigurer.Configure: MAC, address, routes and resolv.conf of this
   Pod, and its hostname. *)
Configure(m) == [m EXCEPT !.identity = @ \cup {"podIP", "hostname"}]

(* WriteResumed: the workload can read the time of its state. *)
WriteResumed(m) == [m EXCEPT !.told = files.takenAt]

(* startWorkload: once.  A process that cannot start also reports 127. *)
startWorkload(m) == [m EXCEPT !.workload = "runs"]
startFailed(m) == [m EXCEPT !.report = 127]

(* serveConn: what the guest agent does for each op. *)
serveConn(op, m) ==
  CASE op = "ping" -> m
    [] op = "set-time" -> [m EXCEPT !.clock = TRUE]
    [] op = "configure-net" -> Configure(m)
    [] op = "resumed" -> WriteResumed(m)
    [] op = "start" -> startWorkload(m)

(* Call: the guest does what is asked and says so; or it fails, or its
   answer is lost.  Without a machine, and after SIGTERM, there is none. *)
Call(p, op, next) ==
  /\ At(p)
  /\ \/ /\ Works /\ machine.process = "runs"
        /\ machine' = serveConn(op, machine)
        /\ Goto(next) /\ UNCHANGED files
     \/ /\ machine.process = "runs" /\ Fault /\ failRestore
        /\ machine' \in {machine, serveConn(op, machine)}
             \cup {startFailed(machine) : o \in {op} \cap {"start"}}
     \/ /\ machine.process # "runs" \/ podStop
        /\ Works /\ failRestore /\ UNCHANGED machine

(* WaitReady: the ping is repeated for 30 seconds. *)
WaitReady ==
  Call("ready", "ping",
       IF run.start = "Loaded" THEN "reseed"
       ELSE IF fromSnapshot THEN "time" ELSE "net")

(* AddEntropy: the payload is mixed into the guest's pool and credited. *)
AddEntropy(m) == [m EXCEPT !.reseeded = TRUE]

(* GuestHandler.ServeConn acknowledges a payload with its digest, and says
   whether the injection worked. *)
reseedAck(injected) == [ok |-> injected, digest |-> TRUE]

(* Reseed: an acknowledgement that comes, is positive and has the digest of
   the payload sent. *)
Reseed ==
  /\ At("reseed")
  /\ IF machine.process = "runs"
       THEN \E injected, acked \in BOOLEAN :
              /\ IF injected /\ acked THEN Works ELSE Fault
              /\ machine' = IF injected THEN AddEntropy(machine) ELSE machine
              /\ LET ack == reseedAck(injected) IN
                 IF acked /\ ack.ok /\ ack.digest
                   THEN Goto("time") /\ UNCHANGED files
                   ELSE failRestore
       ELSE Works /\ failRestore /\ UNCHANGED machine

setTime == Call("time", "set-time", "net")

configureNet ==
  Call("net", "configure-net", IF fromSnapshot THEN "unique" ELSE "workload")

(* GuestHandler.apply goes on past a part that fails, and reports the whole
   as failed. *)
apply(applied) == [status |-> applied = Identity, read |-> applied]

(* Verify: the status and every value that the guest reads back. *)
Verify(report) == report.status /\ report.read = Identity

(* uniquify: a new identity, checked on the report of the guest. *)
uniquify ==
  /\ At("unique")
  /\ IF machine.process = "runs"
       THEN \E applied \in {Identity} \cup {Identity \ {i} : i \in Identity} :
              /\ machine' = [machine EXCEPT !.identity = @ \cup applied]
              /\ \/ /\ IF applied = Identity THEN Works ELSE Fault
                    /\ IF Verify(apply(applied))
                         THEN Goto("resumed") /\ UNCHANGED files
                         ELSE failRestore
                 \/ applied = Identity /\ Fault /\ failRestore \* no answer
       ELSE Works /\ failRestore /\ UNCHANGED machine

(* tellResumed, when the node agent wrote the time of the state. *)
tellResumed ==
  Call("resumed", "resumed",
       IF setup.source = "base" THEN "workload" ELSE "connect")

(* The workload starts after a boot or the load of a base. *)
callStart ==
  Call("workload", "start", IF fromSnapshot THEN "connect" ELSE "wait")

(* AfterStart: the calls of the launcher to its guest, in this order. *)
AfterStart ==
  \/ WaitReady \/ Reseed \/ setTime \/ configureNet \/ uniquify
  \/ tellResumed \/ callStart

(* finishRestore: the network, unless the reseed is off; then the evidence. *)
Connect ==
  /\ At("connect")
  /\ \/ Works /\ Goto("evidence") /\ UNCHANGED files
        /\ machine' = [machine EXCEPT !.joined = run.start = "Loaded"]
     \/ Fault /\ run.start = "Loaded" /\ failRestore /\ UNCHANGED machine

finishRestore ==
  /\ At("evidence")
  /\ \/ Works /\ writeEvidence(Confirmed(run.start = "Loaded")) /\ Goto("wait")
     \/ Fault /\ Return(LaunchFailedExit) /\ UNCHANGED files
  /\ UNCHANGED machine

(***************************************************************************)
(* The end of the machine.                                                 *)
(***************************************************************************)

(* Mutant: the end of Firecracker does not wait for a late report. *)
waitExit_NotLate ==
  /\ At("wait") /\ Works
  /\ \/ machine.report # None /\ Return(machine.report)
     \/ /\ machine.process = "ended"
        /\ run' = [run EXCEPT !.pc = "defers", !.defers = @ \ {"stop"},
                              !.code = LaunchFailedExit]
     \/ podStop /\ Return(LaunchFailedExit)
  /\ UNCHANGED <<files, machine>>

(* waitExit: the report, the end of Firecracker (after which a late report
   still counts), or SIGTERM.  With several at hand, any one is taken. *)
waitExit ==
  /\ At("wait") /\ Works
  /\ \/ machine.report # None /\ Return(machine.report)
     \/ /\ machine.process = "ended"
        /\ run' = [run EXCEPT !.pc = "defers", !.defers = @ \ {"stop"},
                     !.code = IF machine.report # None THEN machine.report
                              ELSE LaunchFailedExit]
     \/ podStop /\ Return(LaunchFailedExit)
  /\ UNCHANGED <<files, machine>>

(* The defers, last registered first: Stop, the sockets, Leave.  main turns
   an error of Leave into the exit code of a failed launch. *)
deferred ==
  /\ At("defers") /\ UNCHANGED files
  /\ \/ /\ "stop" \in run.defers /\ Works
        /\ run' = [run EXCEPT !.defers = @ \ {"stop"}]
        /\ machine' = [machine EXCEPT !.process = "ended"]
     \/ /\ run.defers \in {{"close"}, {"close", "leave"}} /\ Works
        /\ run' = [run EXCEPT !.defers = @ \ {"close"}]
        /\ machine' = [machine EXCEPT !.listening = FALSE]
     \/ /\ run.defers = {"leave"}
        /\ \/ /\ Works /\ run' = [run EXCEPT !.defers = {}]
              /\ machine' = [machine EXCEPT !.tap = FALSE, !.joined = FALSE]
           \/ /\ Fault /\ UNCHANGED machine
              /\ run' = [run EXCEPT !.defers = {}, !.code = LaunchFailedExit,
                                    !.slip = "leave"]
     \/ run.defers = {} /\ Works /\ Goto("out") /\ UNCHANGED machine

Launcher ==
  /\ \/ prepare \/ waitStaged \/ checkSnapshotDisk \/ Join \/ prepareDisks
     \/ listenExit \/ Start \/ connectBooted \/ LoadSnapshot \/ AfterStart
     \/ Connect \/ finishRestore \/ waitExit \/ deferred
  /\ UNCHANGED <<setup, sandbox, operator, calls, podStop>>

(* The workload ends, and the guest agent reports its exit code to the
   launcher's socket, which is open as long as the machine runs. *)
report ==
  /\ machine.workload = "runs" /\ machine.process = "runs"
  /\ machine.listening
  /\ machine' = [machine EXCEPT !.workload = "ended", !.report = WorkloadExit]
  /\ UNCHANGED <<setup, sandbox, operator, calls, files, run, podStop,
                 faultsLeft>>

(* Firecracker, or the guest's kernel, ends on its own. *)
machineEnds ==
  /\ machine.process \in {"empty", "runs", "paused"} /\ Fault
  /\ machine' = [machine EXCEPT !.process = "ended"]
  /\ UNCHANGED <<setup, sandbox, operator, calls, files, run, podStop>>

(* The launcher container is killed: nothing of Run's end happens. *)
launcherKilled ==
  /\ run.pc # "out" /\ Fault
  /\ run' = [run EXCEPT !.pc = "out", !.code = LaunchFailedExit,
                        !.slip = "killed"]
  /\ machine' = [machine EXCEPT !.process = "ended", !.joined = FALSE]
  /\ UNCHANGED <<setup, sandbox, operator, calls, files, podStop>>

(***************************************************************************)
(* The node agent: RestoreSandbox and restoreLauncher, call n.             *)
(***************************************************************************)

CallAt(n, p) == calls[n].pc = p
CallTo(n, p) == calls' = [calls EXCEPT ![n].pc = p]

(* An answer leaves the handler; its defer removes the plaintext state, the
   memory and the image disk digest from the node. *)
Answer(n, ok, reseeded) ==
  /\ calls' = [calls EXCEPT ![n] = [pc |-> "answered", ok |-> ok,
                                    reseeded |-> reseeded]]
  /\ files' = [files EXCEPT !.state = "absent", !.digest = "absent"]

(* The stored snapshot is opened. *)
openSnapshot(n) ==
  /\ CallAt(n, "open")
  /\ \/ Works /\ CallTo(n, "unpack")
     \/ /\ Fault
        /\ calls' = [calls EXCEPT ![n].pc = "answered", ![n].ok = FALSE]
  /\ UNCHANGED files

(* writeLauncherFramedStream: state, memory and the writable layer, which
   starts from an empty file. *)
unpack(n) ==
  /\ CallAt(n, "unpack") /\ Works /\ CallTo(n, "unpacking")
  /\ files' = [files EXCEPT !.state = "partial", !.layer = "partial"]

unpacked(n) ==
  /\ CallAt(n, "unpacking")
  /\ \/ /\ Works /\ CallTo(n, "digest")
        /\ LET content == IF \E m \in Attempts \ {n} : CallAt(m, "unpacking")
                            THEN "partial" ELSE "whole" IN
           files' = [files EXCEPT
             !.state = IF @ = "absent" THEN @ ELSE content,
             !.layer = content]
     \/ Fault /\ Answer(n, FALSE, FALSE)

writeDigest(n) ==
  /\ CallAt(n, "digest")
  /\ \/ /\ Works /\ CallTo(n, "stage")
        /\ files' = [files EXCEPT !.digest = "whole", !.takenAt = TRUE]
     \/ Fault /\ Answer(n, FALSE, FALSE)

(* The marker is made empty and then filled, when the reseed is off. *)
stage(n) ==
  /\ CallAt(n, "stage")
  /\ \/ /\ Works /\ files' = [files EXCEPT !.staged = ""]
        /\ CallTo(n, IF setup.reseed THEN "wait" ELSE "mark")
     \/ Fault /\ Answer(n, FALSE, FALSE)

mark(n) ==
  /\ CallAt(n, "mark") /\ Works /\ CallTo(n, "wait")
  /\ files' = [files EXCEPT !.staged = "off"]

(* Mutant: a call without a deadline gets no default one. *)
waitLauncherEvidence_Forever(n) ==
  /\ CallAt(n, "wait") /\ Works
  /\ LET ev == files.evidence IN
     /\ ev # None
     /\ Answer(n, /\ ~ev.error
                  /\ ev.reseeded \/ ~setup.reseed
                  /\ ev.uniquified /\ ev.clock, ev.reseeded)

(* waitLauncherEvidence, up to its deadline or until the caller is gone. *)
waitLauncherEvidence(n) ==
  /\ CallAt(n, "wait") /\ Works
  /\ LET ev == files.evidence IN
     IF ev = None
       THEN Answer(n, FALSE, FALSE)
       ELSE Answer(n, /\ ~ev.error
                      /\ ev.reseeded \/ ~setup.reseed
                      /\ ev.uniquified /\ ev.clock, ev.reseeded)

restoreLauncher(n) ==
  /\ \/ openSnapshot(n) \/ unpack(n) \/ unpacked(n) \/ writeDigest(n)
     \/ stage(n) \/ mark(n) \/ waitLauncherEvidence(n)
  /\ UNCHANGED <<setup, sandbox, operator, run, machine, podStop>>

(* The node agent restarts: its calls fail, and nothing is removed. *)
nodeAgentCrash ==
  /\ \E n \in Attempts : calls[n].pc \notin {"none", "answered"}
  /\ Fault
  /\ calls' = [n \in Attempts |->
       IF calls[n].pc \in {"none", "answered"} THEN calls[n]
       ELSE [calls[n] EXCEPT !.pc = "answered", !.ok = FALSE]]
  /\ files' = [files EXCEPT !.orphaned = TRUE]
  /\ UNCHANGED <<setup, sandbox, operator, run, machine, podStop>>

(***************************************************************************)
(* The operator.                                                           *)
(***************************************************************************)

(* gate.Evaluate: the invariants that the evidence does not confirm. *)
Evaluate(ev) ==
  {i \in {"cleanBase", "singleSession", "provenance"} : ~ev.bound}
    \cup {i \in {"uniquified"} : ~(ev.reseeded /\ ev.uniquified)}
    \cup {i \in {"encrypted"} : ~ev.encrypted}

(* Mutant: the annotation of the class is enough. *)
Decide_ClassOnly(ev) == Evaluate(ev) = {} \/ setup.optOut

(* Decide: none, or the class opts out and the cluster is in dev mode. *)
Decide(ev) == Evaluate(ev) = {} \/ (setup.optOut /\ setup.devMode)

needsLauncherRestore == fromSnapshot /\ ~sandbox.restored

OperatorTo(p) == operator' = [operator EXCEPT !.pc = p]

(* A reconcile of a Sandbox whose Pod runs: a finished Pod decides the
   phase; a snapshot is restored first; a Ready Pod makes it Running.  The
   preflight half of the gate comes before anything is loaded. *)
reconcile ==
  /\ operator.pc = "idle" /\ sandbox.phase = "Pending" /\ Works
  /\ \/ /\ At("out") /\ OperatorTo("fail") /\ UNCHANGED sandbox
     \/ /\ ~At("out") /\ needsLauncherRestore
        /\ operator.started < MaxAttempts /\ UNCHANGED sandbox
        /\ OperatorTo(IF Decide([bound |-> setup.bound, reseeded |-> TRUE,
                                 uniquified |-> TRUE, encrypted |-> TRUE])
                        THEN "dial" ELSE "fail")
     \/ /\ ~At("out") /\ ~needsLauncherRestore
        /\ machine.process = "runs" /\ UNCHANGED operator
        /\ sandbox' = [sandbox EXCEPT !.phase = "Running"]
  /\ UNCHANGED calls

dial ==
  /\ operator.pc = "dial" /\ UNCHANGED sandbox
  /\ LET n == operator.started + 1 IN
     \/ /\ Works /\ operator' = [pc |-> "call", started |-> n]
        /\ calls' = [calls EXCEPT ![n].pc = "open"]
     \/ Fault /\ OperatorTo("fail") /\ UNCHANGED calls

(* RestoreSandbox: the answer, then the gate with the full evidence.  The
   answer may be lost on its way. *)
answered ==
  /\ operator.pc = "call" /\ UNCHANGED <<sandbox, calls>>
  /\ \/ /\ CallAt(operator.started, "answered") /\ Works
        /\ LET resp == calls[operator.started] IN
           OperatorTo(IF ~resp.ok THEN "fail"
                      ELSE IF Decide([bound |-> setup.bound,
                                      reseeded |-> resp.reseeded,
                                      uniquified |-> TRUE,
                                      encrypted |-> setup.encrypted])
                        THEN "annotate" ELSE "refuse")
     \/ Fault /\ OperatorTo("fail")

(* A machine that the gate refuses is paused, if that works. *)
refuse ==
  /\ operator.pc = "refuse" /\ OperatorTo("fail") /\ UNCHANGED <<sandbox, calls>>
  /\ \/ /\ Works
        /\ machine' = [machine EXCEPT !.process = IF @ = "runs" THEN "paused"
                                                  ELSE @]
     \/ Fault /\ UNCHANGED machine

(* RestoredAnnotation; without it the Sandbox fails. *)
annotate ==
  /\ operator.pc = "annotate" /\ UNCHANGED calls
  /\ \/ /\ Works /\ OperatorTo("idle")
        /\ sandbox' = [sandbox EXCEPT !.restored = TRUE]
     \/ Fault /\ OperatorTo("fail") /\ UNCHANGED sandbox

(* The status of a failed restore, or of a Pod that ended. *)
failSandbox ==
  /\ operator.pc = "fail" /\ OperatorTo("idle") /\ UNCHANGED calls
  /\ \/ Works /\ sandbox' = [sandbox EXCEPT !.phase = "Failed"]
     \/ Fault /\ UNCHANGED sandbox

(* A failed Sandbox loses its Pod.  A Pod may also be evicted. *)
deletePod ==
  /\ ~podStop /\ podStop' = TRUE
  /\ IF sandbox.phase = "Failed" /\ operator.pc = "idle" THEN Works ELSE Fault
  /\ UNCHANGED <<setup, sandbox, operator, calls, files, run, machine>>

maybeRestoreLauncher ==
  /\ \/ refuse
     \/ (reconcile \/ dial \/ answered \/ annotate \/ failSandbox)
          /\ UNCHANGED machine
  /\ UNCHANGED <<setup, files, run, podStop>>

(* The operator restarts, and its call ends with it. *)
operatorCrash ==
  /\ operator.pc # "idle" /\ Fault /\ OperatorTo("idle")
  /\ UNCHANGED <<setup, sandbox, calls, files, run, machine, podStop>>

(***************************************************************************)
(* The specification.                                                      *)
(***************************************************************************)

lmInit ==
  /\ setup \in Setups
  /\ sandbox = [phase |-> "Pending", restored |-> FALSE]
  /\ operator = [pc |-> "idle", started |-> 0]
  /\ calls = [n \in Attempts |->
       [pc |-> "none", ok |-> FALSE, reseeded |-> FALSE]]
  /\ files = [state |-> "absent", layer |-> "absent", digest |-> "absent",
              takenAt |-> FALSE, staged |-> "absent", evidence |-> None,
              orphaned |-> FALSE]
  /\ run = [pc |-> "prepare", start |-> "Booted", defers |-> {}, code |-> None,
            slip |-> ""]
  /\ machine = [process |-> "none", loaded |-> None, reseeded |-> FALSE,
                clock |-> FALSE, identity |-> {}, told |-> FALSE,
                workload |-> "none", joined |-> FALSE, tap |-> FALSE,
                listening |-> FALSE, report |-> None]
  /\ podStop = FALSE
  /\ faultsLeft = MaxFaults

lmNext ==
  \/ Launcher \/ report \/ machineEnds \/ launcherKilled
  \/ \E n \in Attempts : restoreLauncher(n)
  \/ nodeAgentCrash
  \/ maybeRestoreLauncher \/ deletePod \/ operatorCrash

(* Every process goes on.  A fault never has to happen. *)
lmFairness ==
  /\ WF_lmVars(Launcher) /\ WF_lmVars(maybeRestoreLauncher)
  /\ \A n \in Attempts : WF_lmVars(restoreLauncher(n))

lmSpec == lmInit /\ [][lmNext]_lmVars /\ lmFairness

(***************************************************************************)
(* Properties.                                                             *)
(***************************************************************************)

Fresh == machine.reseeded /\ machine.clock /\ machine.identity = Identity

(* finishRestore: a loaded guest joins the Pod network only after it has new
   entropy, the node's time and an identity of its own. *)
JoinedIsFresh == machine.joined /\ fromSnapshot => Fresh

(* RestoreSandbox: a Sandbox that loaded a snapshot becomes Running only when
   all that the gate asks for is true of its machine, or the class and the
   cluster both opted out; what the operator knows came through the evidence
   file, the node agent's answer and possibly a second attempt. *)
HandedOver ==
  sandbox.phase = "Running" /\ fromSnapshot =>
    \/ setup.optOut /\ setup.devMode
    \/ Fresh /\ machine.told /\ setup.bound /\ setup.encrypted

(* restoreLauncher writes the marker last: unless the operator restored a
   second time, the launcher loads a whole snapshot, and over its own disk. *)
LoadsWhole ==
  machine.loaded # None /\ operator.started = 1 =>
    machine.loaded = "whole" /\ setup.sameDisk

(* restoreLauncher's defer: no plaintext state stays on the node after the
   last call has answered, unless the node agent itself was killed. *)
PlaintextRemoved ==
  (\A n \in Attempts : calls[n].pc \in {"none", "answered"}) =>
    files.state = "absent" \/ files.orphaned

(* Run: each path out of it leaves no process, no socket and no device,
   unless Firecracker's Start or the removal of the device failed. *)
NothingLeft ==
  At("out") /\ run.slip \in {"", "launch"} =>
    /\ machine.process \in {"none", "ended"}
    /\ ~machine.tap /\ ~machine.joined /\ ~machine.listening

(* waitExit: the exit code that the guest reported is the exit code of the
   Pod, also when Firecracker ends at the same time. *)
ExitKept ==
  At("out") /\ run.slip = "" /\ ~podStop /\ machine.report # None =>
    run.code = machine.report

Settled == sandbox.phase # "Pending"

(* Every wait of the operator, the node agent and the launcher ends: a
   Sandbox does not stay Pending. *)
Settles == []<>Settled
=============================================================================
