---------------------------- MODULE FrontendExec ----------------------------
(***************************************************************************)
(* Exec on a session, as the frontend serves it (internal/frontend/exec.go,*)
(* attach.go, suspend.go, Wait and Kill of service.go), with the relay     *)
(* setec-launcher exec and the guest agent behind it.                      *)
(*                                                                         *)
(* One Exec call runs against a session while its client sends stdin,      *)
(* breaks the protocol, half-closes or goes away.  A second client makes   *)
(* one other call: Attach, Suspend, Resume, Kill or Wait.  The operator    *)
(* evicts, suspends, resumes and takes down the session (modelled in full  *)
(* in SandboxController and SessionCheckpoint), and the machine may stop   *)
(* on its own.  The clock counts in activityHeartbeatIntervals.            *)
(***************************************************************************)
EXTENDS Integers, Sequences

CONSTANTS
  Scenes,         \* what the clients, the command and the machine do
  IdleTimeout,    \* sessionIdleTimeout of the class, in heartbeats
  None

VARIABLES
  scene,          \* the scene of this behaviour, with what is left of it
  session,        \* the Sandbox and its Pod
  exec,           \* the Exec call
  pump,           \* its stdinPump
  command,        \* the command in the machine
  other,          \* the call of the second client
  evictor,        \* an idle eviction that the operator has decided on
  usage           \* clock, last use of the session, stamps that were lost

feVars == <<scene, session, exec, pump, command, other, evictor, usage>>

isTerminal(phase) == phase \in {"Completed", "Failed"}

(* A fault of the scene's budget, or none. *)
ExecFault == scene.faults > 0 /\ scene' = [scene EXCEPT !.faults = @ - 1]
ExecWorks == UNCHANGED scene

(***************************************************************************)
(* The session, as any caller reads it.                                    *)
(***************************************************************************)

(* sessionGone, for a read that succeeds. *)
sessionGone ==
  ~session.exists \/ session.deleting \/ isTerminal(session.phase)

Stamped(t) == IF session.exists THEN [session EXCEPT !.activity = t] ELSE session

(* touchSessionActivity, best effort: a lost stamp is remembered. *)
touchSessionActivity ==
  \/ /\ ExecWorks /\ session' = Stamped(usage.now)
     /\ usage' = [usage EXCEPT !.last = usage.now]
  \/ /\ ExecFault /\ UNCHANGED session
     /\ usage' = [usage EXCEPT !.last = usage.now, !.lost = TRUE]

(***************************************************************************)
(* Exec.                                                                   *)
(***************************************************************************)

At(p) == exec.pc = p
Goto(p) == exec' = [exec EXCEPT !.pc = p]

(* The client is gone: its RPC context is canceled. *)
Canceled == scene.gone

(* An RPC error instead of a verdict. *)
Refuse(p) == exec' = [exec EXCEPT !.pc = p, !.result = "refused"]

(* recvExecStart, parseSessionHandle, checkTenantNamespace and
   resolveLiveSession: the calls before the first change of state. *)
resolveLiveSession ==
  /\ At("call") /\ UNCHANGED <<session, pump, command, other, evictor, usage>>
  /\ \/ ExecWorks /\ IF sessionGone THEN Refuse("end") ELSE Goto("stamp")
     \/ ExecFault /\ Refuse("end")

(* The first stamp of keepSessionActive. *)
startActivity ==
  /\ At("stamp") /\ touchSessionActivity
  /\ exec' = [exec EXCEPT !.pc = "ready", !.beat = FALSE]
  /\ UNCHANGED <<pump, command, other, evictor>>

(* ensureSessionRunning: one round of its loop.  The deadline may have
   passed after any round that did not find the session running. *)
ensureSessionRunning ==
  /\ At("ready") /\ UNCHANGED <<session, pump, command, other, evictor, usage>>
  /\ \/ /\ ExecWorks
        /\ CASE sessionGone -> Refuse("stop")
             [] session.phase = "Running" -> Goto("run")
             [] ~exec.requested /\ session.desired # "Running" -> Goto("request")
             [] OTHER -> Refuse("stop")
     \/ (ExecFault \/ (Canceled /\ ExecWorks)) /\ Refuse("stop")

(* requestSessionRunning: a merge patch of spec.desiredState. *)
requestSessionRunning ==
  /\ At("request") /\ UNCHANGED <<pump, command, other, evictor, usage>>
  /\ \/ /\ ExecWorks
        /\ IF session.exists
             THEN /\ session' = [session EXCEPT !.desired = "Running"]
                  /\ exec' = [exec EXCEPT !.pc = "ready", !.requested = TRUE]
             ELSE Refuse("stop") /\ UNCHANGED session
     \/ ExecFault /\ Refuse("stop") /\ UNCHANGED session

(* What ExecInContainer returns: a wait status, or an error without one. *)
WaitStatus(code) == [kind |-> "status", code |-> code]
Broken == [kind |-> "broken", code |-> 0]
ContextErr == [kind |-> "context", code |-> 0]

(* execInMachine: a relay that fails has a wait status of its own. *)
execInMachine == WaitStatus(126)

(* ExecInContainer begins: kubelet starts the relay in the launcher
   container, and the guest agent starts the command. *)
openExec ==
  /\ At("run") /\ exec.channel = "closed"
  /\ UNCHANGED <<session, pump, other, evictor, usage>>
  /\ \/ /\ ExecWorks /\ session.pod = "up"
        /\ exec' = [exec EXCEPT !.channel = "open"]
        /\ command' = [command EXCEPT !.state = "runs"]
     \/ /\ (ExecWorks /\ session.pod # "up") \/ ExecFault
        /\ exec' = [exec EXCEPT !.pc = "settle", !.err = Broken]
        /\ UNCHANGED command

(* The command writes; the writer of remotecommand holds the chunk. *)
writes ==
  /\ command.state = "runs" /\ ~command.wrote /\ session.pod = "up"
  /\ exec.channel = "open"
  /\ command' = [command EXCEPT !.wrote = TRUE]
  /\ exec' = [exec EXCEPT !.writer = TRUE]
  /\ UNCHANGED <<scene, session, pump, other, evictor, usage>>

(* The command ends: at once, or at the end of its stdin. *)
commandEnds ==
  /\ command.state = "runs" /\ session.pod = "up"
  /\ scene.readsStdin => pump.closed
  /\ \E code \in {0, 1} : command' = [command EXCEPT !.state = "ended", !.code = code]
  /\ UNCHANGED <<scene, session, exec, pump, other, evictor, usage>>

(* The messages of the response stream. *)
Exited(code) == [status |-> "EXITED", code |-> code]
Unknown(s) == [status |-> s, code |-> 0]
Output == [status |-> "OUTPUT", code |-> 0]

(* execStreamWriter.Write, execSender.send: a stream whose client is gone
   takes nothing more. *)
Send(e, msg) ==
  IF Canceled THEN [e EXCEPT !.sendErr = TRUE] ELSE [e EXCEPT !.sent = Append(@, msg)]

Write ==
  /\ exec.writer /\ exec' = Send([exec EXCEPT !.writer = FALSE], Output)
  /\ UNCHANGED <<scene, session, pump, command, other, evictor, usage>>

(* ExecInContainer returns.  A canceled context returns at once, with the
   channel still open and its writer at work.  A relay that loses the guest agent exits 126; a
   machine that stops under the relay is reported as 137, or as a broken
   channel. *)
execReturns ==
  LET Returns(err) ==
        exec' = [exec EXCEPT !.pc = "settle", !.err = err,
                   !.channel = IF err = ContextErr THEN "open" ELSE "closed"]
  IN
  /\ At("run") /\ exec.channel = "open"
  /\ UNCHANGED <<session, pump, command, other, evictor, usage>>
  /\ \/ ExecWorks /\ (Canceled \/ pump.err) /\ Returns(ContextErr)
     \/ ExecWorks /\ ~exec.writer /\ command.state = "ended" /\ Returns(WaitStatus(command.code))
     \/ ExecWorks /\ ~exec.writer /\ exec.cut /\ \E e \in {WaitStatus(137), Broken} : Returns(e)
     \/ ExecFault /\ ~exec.writer /\ \E e \in {execInMachine, Broken} : Returns(e)

(* cancelExec, stdinW.Close, then the wait for the pump: closing the pipe
   ends a write of the pump, and nothing but the client ends its Recv. *)
settle ==
  /\ At("settle") /\ UNCHANGED <<scene, session, command, other, evictor, usage>>
  /\ IF pump.pc = "done" THEN Goto("answer") /\ UNCHANGED pump
     ELSE /\ ~pump.closed \/ pump.pc = "write"
          /\ pump' = [pump EXCEPT !.closed = TRUE,
                                  !.pc = IF @ = "write" THEN "done" ELSE @]
          /\ UNCHANGED exec

(* Mutant: a reported wait status is taken as it is. *)
classifyExecOutcome_NoGone(gone) ==
  IF exec.err.kind = "status" THEN Exited(exec.err.code)
  ELSE Unknown(IF Canceled THEN "CANCELED"
               ELSE IF gone THEN "SANDBOX_GONE" ELSE "TRANSPORT_FAILED")

(* classifyExecOutcome: a reported wait status loses to a session that is
   gone; "gone" is the answer of sessionGone. *)
classifyExecOutcome(gone) ==
  IF exec.err.kind = "status" /\ (exec.err.code = 0 \/ ~gone)
    THEN Exited(exec.err.code)
  ELSE Unknown(IF exec.err.kind # "status" /\ Canceled THEN "CANCELED"
               ELSE IF gone THEN "SANDBOX_GONE" ELSE "TRANSPORT_FAILED")

(* The end of runExec: a broken protocol or response stream gets no
   verdict.  A read that fails in sessionGone is not "gone". *)
answer ==
  /\ At("answer") /\ UNCHANGED <<session, pump, command, other, evictor, usage>>
  /\ \/ /\ ExecWorks /\ ~pump.err /\ ~exec.sendErr
        /\ exec' = [Send(exec, classifyExecOutcome(sessionGone)) EXCEPT
                      !.pc = "stop", !.result = "answered"]
     \/ /\ ExecFault /\ ~pump.err /\ ~exec.sendErr
        /\ exec' = [Send(exec, classifyExecOutcome(FALSE)) EXCEPT
                      !.pc = "stop", !.result = "answered"]
     \/ ExecWorks /\ (pump.err \/ exec.sendErr) /\ Refuse("stop")

(* Mutant: the timer stamps nothing. *)
keepSessionActive_Once ==
  /\ exec.beat /\ exec.pc \in {"ready", "request", "run", "settle", "answer"}
  /\ exec' = [exec EXCEPT !.beat = FALSE]
  /\ UNCHANGED <<scene, session, usage, pump, command, other, evictor>>

(* The timer of keepSessionActive, between the first stamp and the last. *)
keepSessionActive ==
  /\ exec.beat /\ exec.pc \in {"ready", "request", "run", "settle", "answer"}
  /\ touchSessionActivity /\ exec' = [exec EXCEPT !.beat = FALSE]
  /\ UNCHANGED <<pump, command, other, evictor>>

(* The deferred stop: the stamp that starts the idle clock. *)
stopActivity ==
  /\ At("stop") /\ touchSessionActivity
  /\ exec' = [exec EXCEPT !.pc = "end", !.beat = FALSE]
  /\ UNCHANGED <<pump, command, other, evictor>>

Exec ==
  \/ resolveLiveSession \/ startActivity \/ ensureSessionRunning
  \/ requestSessionRunning \/ openExec \/ execReturns \/ settle \/ answer
  \/ stopActivity

(***************************************************************************)
(* stdinPump.run, one message of the client at a time.                     *)
(***************************************************************************)

Pumping == exec.pc \in {"run", "settle"}

(* fail, for a broken protocol: the pipe is closed and the exec canceled. *)
PumpEnds(err) == [pump EXCEPT !.pc = "done", !.closed = TRUE, !.err = err]

Recv ==
  LET msg == Head(scene.script) IN
  /\ Pumping /\ pump.pc = "recv" /\ scene.script # <<>> /\ ~Canceled
  /\ scene' = [scene EXCEPT !.script = Tail(@)]
  /\ pump' = CASE msg = "start" \/ (msg = "stdin" /\ pump.eof) -> PumpEnds(TRUE)
               [] msg = "close" -> PumpEnds(FALSE)
               [] msg = "eof" -> [pump EXCEPT !.eof = TRUE, !.closed = TRUE]
               [] OTHER -> IF pump.closed THEN PumpEnds(FALSE)
                           ELSE [pump EXCEPT !.pc = "write"]
  /\ UNCHANGED <<session, exec, command, other, evictor, usage>>

(* Recv fails when the RPC is canceled. *)
RecvFails ==
  /\ Pumping /\ pump.pc = "recv" /\ Canceled /\ pump' = PumpEnds(FALSE)
  /\ UNCHANGED <<scene, session, exec, command, other, evictor, usage>>

(* remotecommand reads the pipe for as long as the channel is open. *)
pipeRead ==
  /\ At("run") /\ exec.channel = "open" /\ ~exec.cut /\ pump.pc = "write"
  /\ pump' = [pump EXCEPT !.pc = "recv"]
  /\ UNCHANGED <<scene, session, exec, command, other, evictor, usage>>

stdinPump == Recv \/ RecvFails \/ pipeRead

(* The client cancels the RPC, or loses its connection. *)
clientGoes ==
  /\ scene.mayGo /\ ~scene.gone /\ ~At("end")
  /\ scene' = [scene EXCEPT !.gone = TRUE]
  /\ UNCHANGED <<session, exec, pump, command, other, evictor, usage>>

(***************************************************************************)
(* The call of the second client.                                          *)
(***************************************************************************)

Calls(op, p) == scene.call = op /\ other = p
Returned == other' = "end"

(* Attach: the handle is resolved, then activity is registered; a stamp
   that fails fails the call. *)
Attach ==
  /\ UNCHANGED <<exec, pump, command, evictor>>
  /\ \/ /\ Calls("Attach", "call") /\ ExecWorks /\ UNCHANGED <<session, usage>>
        /\ other' = IF sessionGone THEN "end" ELSE "patch"
     \/ /\ Calls("Attach", "patch") /\ ExecWorks /\ Returned
        /\ session' = Stamped(usage.now)
        /\ usage' = [usage EXCEPT !.last = IF session.exists THEN usage.now ELSE @]
     \/ /\ Calls("Attach", "patch") /\ ExecFault /\ Returned
        /\ UNCHANGED <<session, usage>>

(* setDesiredState, of Suspend and Resume: read, check, patch. *)
setDesiredState(op, want) ==
  /\ UNCHANGED <<exec, pump, command, evictor, usage>>
  /\ \/ /\ Calls(op, "call") /\ ExecWorks /\ UNCHANGED session
        /\ other' = IF \/ ~session.exists \/ session.desired = want
                       \/ want = "Suspended" /\ ~scene.checkpoint
                      THEN "end" ELSE "patch"
     \/ /\ Calls(op, "patch") /\ ExecWorks /\ Returned
        /\ session' = IF session.exists THEN [session EXCEPT !.desired = want]
                      ELSE session
     \/ Calls(op, "patch") /\ ExecFault /\ Returned /\ UNCHANGED session

(* Kill: with a grace period the Pod goes first, then the Sandbox.  An
   error in between leaves the Sandbox. *)
Kill(op) ==
  /\ UNCHANGED <<exec, pump, command, evictor, usage>>
  /\ \/ /\ op = "KillGrace" /\ Calls(op, "call") /\ ExecWorks
        /\ session' = [session EXCEPT !.podKilled = TRUE] /\ other' = "patch"
     \/ /\ op = "Kill" /\ Calls(op, "call") /\ ExecWorks /\ other' = "patch"
        /\ UNCHANGED session
     \/ /\ Calls(op, "patch") /\ ExecWorks /\ Returned
        /\ session' = [session EXCEPT !.deleting = session.exists]
     \/ Calls(op, "patch") /\ ExecFault /\ Returned /\ UNCHANGED session

(* Wait polls until the phase is terminal or the Sandbox is gone. *)
Wait ==
  /\ Calls("Wait", "call") /\ ExecWorks
  /\ ~session.exists \/ isTerminal(session.phase)
  /\ Returned /\ UNCHANGED <<session, exec, pump, command, evictor, usage>>

OtherCall ==
  \/ Attach \/ Wait \/ setDesiredState("Suspend", "Suspended")
  \/ setDesiredState("Resume", "Running") \/ Kill("Kill") \/ Kill("KillGrace")

(***************************************************************************)
(* The operator, kubelet and the clock.                                    *)
(***************************************************************************)

(* A stream of a client is open, and has registered. *)
Open == exec.pc \in {"ready", "request", "run", "settle", "answer", "stop"}

(* The operator reads the session and finds its idle deadline passed. *)
SessionIdleDeadline ==
  /\ evictor = None /\ ~scene.checkpoint /\ ~sessionGone
  /\ session.phase = "Running" /\ usage.now >= session.activity + IdleTimeout
  /\ evictor' = [at |-> usage.now, lost |-> usage.lost, done |-> FALSE,
                 last |-> IF Open THEN usage.now ELSE usage.last]
  /\ UNCHANGED <<scene, session, exec, pump, command, other, usage>>

(* It writes the status it derived: a merge patch without a lock. *)
ApplySessionIdlePolicy ==
  /\ evictor # None /\ ~evictor.done /\ evictor' = [evictor EXCEPT !.done = TRUE]
  /\ session' = IF session.exists THEN [session EXCEPT !.phase = "Failed"] ELSE session
  /\ UNCHANGED <<scene, exec, pump, command, other, usage>>

(* The container ends, and every exec in it; "unmarked" remembers that the
   Sandbox did not show it yet. *)
Cut ==
  exec' = [exec EXCEPT !.cut = @ \/ (At("run") /\ exec.channel = "open"),
                       !.unmarked = @ \/ ~sessionGone]

(* The machine stops: its Pod is deleted, its workload ends, its node or
   process goes. *)
machineStops ==
  /\ session.pod = "up" /\ (sessionGone \/ session.podKilled \/ scene.stops)
  /\ session' = [session EXCEPT !.pod = "down"] /\ Cut
  /\ UNCHANGED <<scene, pump, command, other, evictor, usage>>

(* The operator follows: the phase of a session whose machine has stopped,
   the suspend and the resume, the end of a deleted Sandbox. *)
operatorFollows ==
  /\ UNCHANGED <<scene, pump, command, other, evictor, usage>>
  /\ \/ /\ session.phase = "Running" /\ session.pod = "down" /\ ~sessionGone
        /\ \E p \in {"Completed", "Failed"} : session' = [session EXCEPT !.phase = p]
        /\ UNCHANGED exec
     \/ /\ session.phase = "Running" /\ session.pod = "up" /\ ~sessionGone
        /\ scene.checkpoint /\ session.desired = "Suspended" /\ Cut
        /\ session' = [session EXCEPT !.phase = "Suspended", !.pod = "none"]
     \/ /\ session.phase = "Suspended" /\ session.desired = "Running" /\ ~sessionGone
        /\ session' = [session EXCEPT !.phase = "Running", !.pod = "up"]
        /\ UNCHANGED exec
     \/ /\ session.exists /\ session.deleting /\ session.pod # "up"
        /\ session' = [session EXCEPT !.exists = FALSE] /\ UNCHANGED exec

(* An interval passes; the timer of an open stream fires within the next
   one, and the last stamp takes far less. *)
tick ==
  /\ usage.now < scene.time /\ ~exec.beat /\ exec.pc # "stop"
  /\ usage' = [usage EXCEPT !.now = @ + 1]
  /\ exec' = [exec EXCEPT !.beat = Open]
  /\ UNCHANGED <<scene, session, pump, command, other, evictor>>

feInit ==
  /\ scene \in Scenes
  /\ session = [exists |-> TRUE, phase |-> scene.phase, desired |-> scene.desired,
                deleting |-> FALSE, podKilled |-> FALSE, activity |-> 0,
                pod |-> IF scene.phase = "Running" THEN "up" ELSE "none"]
  /\ exec = [pc |-> "call", requested |-> FALSE, channel |-> "closed", err |-> Broken,
             cut |-> FALSE, unmarked |-> FALSE, writer |-> FALSE, beat |-> FALSE,
             sendErr |-> FALSE, sent |-> <<>>, result |-> None]
  /\ pump = [pc |-> "recv", eof |-> FALSE, err |-> FALSE, closed |-> FALSE]
  /\ command = [state |-> "none", code |-> 0, wrote |-> FALSE]
  /\ other = IF scene.call = None THEN "end" ELSE "call"
  /\ evictor = None /\ usage = [now |-> 0, last |-> 0, lost |-> FALSE]

feNext ==
  \/ Exec \/ keepSessionActive \/ Write \/ writes \/ commandEnds \/ stdinPump
  \/ clientGoes \/ OtherCall \/ SessionIdleDeadline \/ ApplySessionIdlePolicy
  \/ machineStops \/ operatorFollows \/ tick

(* The goroutines of a call run; the operator and kubelet do their work;
   the command, and a client with more to send, go on. *)
feFairness ==
  /\ WF_feVars(Exec) /\ WF_feVars(Write) /\ WF_feVars(stdinPump)
  /\ WF_feVars(OtherCall) /\ WF_feVars(commandEnds) /\ WF_feVars(operatorFollows)

feSpec == feInit /\ [][feNext]_feVars /\ feFairness

(***************************************************************************)
(* Properties.                                                             *)
(***************************************************************************)

Verdict == exec.sent[Len(exec.sent)]
HasVerdict == exec.result = "answered" /\ ~exec.sendErr

(* A verdict EXITED carries the wait status that the command reported: 0
   always, and any other code unless the relay itself failed (126) or the
   machine stopped before the Sandbox showed it, or could be read
   (classifyExecOutcome: "That code describes the teardown, not the
   command, so the teardown is the verdict"). *)
TeardownIsNoExit ==
  HasVerdict /\ Verdict.status = "EXITED" =>
    \/ command.state = "ended" /\ Verdict.code = command.code
    \/ Verdict.code = 126
    \/ Verdict.code = 137 /\ (exec.unmarked \/ scene.faults < scene.budget)

(* A stream carries at most one verdict, and nothing comes after it, although
   the writers of an exec outlive its canceled context (runExec; "Exactly one
   is sent per established Exec, and it is always the last message"). *)
VerdictIsLast ==
  \A i \in 1..Len(exec.sent) : exec.sent[i].status # "OUTPUT" => i = Len(exec.sent)

(* The operator decides that a session is idle only when no client had a
   stream open on it, or attached to it, for the whole idle timeout, unless
   a stamp was lost (Exec, Attach, keepSessionActive; "a session with an
   attached caller must never be idle-evicted"). *)
IdleOnlyWhenUnused ==
  evictor # None /\ ~evictor.lost => evictor.at - evictor.last >= IdleTimeout

AllReturned ==
  /\ scene.closes => At("end")
  /\ (scene.call = "Wait" => sessionGone) => other = "end"

(* Every call returns: an Exec whose client half-closes its stream in the
   end, whatever else it sent before, and every other call, where Wait
   returns once the session is over (runExec, stdinPump, Wait, Kill). *)
CallsReturn == []<>AllReturned

=============================================================================
