------------------------------ MODULE NodeDialer ------------------------------
(* How the operator reaches the node agent of one node:                       *)
(* internal/snapshot/dialer.go and pod_resolver.go.  Controllers share one    *)
(* connection per node; the node agent restarts in place or in a new Pod, and *)
(* may be set up so that TLS refuses the operator.                            *)
EXTENDS Naturals

CONSTANTS Callers,     \* the controllers that call the node agent
          ConnIDs,     \* identities of connections, enough for Callers and the cache
          Situations,  \* how TLS is set up, and budgets of what goes wrong
          None

VARIABLES
  agent,    \* the node agent: the Pod that runs it, whether it listens, its TLS
  seen,     \* what the informer of the operator shows of its Pod
  cached,   \* GRPCDialer.conns for the node: a connection or None
  conns,    \* each connection: its Pod, its state, the TLS fault the recorder keeps
  callers,  \* each call: where it is, the Pod it resolved, its connection, its end
  left      \* what may still go wrong

ndVars == <<agent, seen, cached, conns, callers, left>>

Free == [pod |-> 0, state |-> "free", fault |-> FALSE]

ndInit ==
  /\ left \in Situations
  /\ agent = [pod |-> 1, up |-> TRUE, tls |-> left.tls]
  /\ seen = [pod |-> 1, ready |-> TRUE]
  /\ cached = None
  /\ conns = [i \in ConnIDs |-> Free]
  /\ callers = [c \in Callers |->
       [pc |-> "resolve", key |-> 0, conn |-> None, end |-> None, runs |-> 0, cut |-> FALSE]]

Goto(c, l) == callers' = [callers EXCEPT ![c].pc = l]

(* Mutant: a call that was sent and then broke counts as one that was not.    *)
nodeAgentUnavailable_Sent(e) == e \in {"outage", "broken"}

(* Only an outage means that the node agent did nothing; the coordinator      *)
(* then drops the attempt and a later reconcile makes it again.               *)
nodeAgentUnavailable(e) == e = "outage"

(* The call c ends with e; with an outage the reconcile is requeued.          *)
Ended(c, e) ==
  IF nodeAgentUnavailable(e)
    THEN [callers[c] EXCEPT !.pc = "resolve", !.key = 0, !.conn = None]
    ELSE [callers[c] EXCEPT !.pc = "end", !.end = e, !.key = 0, !.conn = None]

End(c, e) == callers' = [callers EXCEPT ![c] = Ended(c, e)]

(* The calls that were sent over a connection of lost fail.                   *)
Broken(lost, cut) == [c \in Callers |->
  IF callers[c].pc = "sent" /\ callers[c].conn \in lost
    THEN [Ended(c, "broken") EXCEPT !.cut = cut]
    ELSE callers[c]]

(* PodResolver reads the cached Pods: only a Running and Ready one will do.   *)
ResolveNodeAgentPod(c) ==
  /\ callers[c].pc = "resolve"
  /\ IF seen.ready
       THEN callers' = [callers EXCEPT ![c].pc = "dial", ![c].key = seen.pod]
       ELSE End(c, "outage")
  /\ UNCHANGED <<agent, seen, cached, conns, left>>

(* The cached connection serves the Pod that was resolved.                    *)
connCacheKey(i, key) == conns[i].pod = key

Unused(i) == i # cached /\ \A c \in Callers : callers[c].conn # i

(* Dial, under the lock: the cached connection is used when it is to the Pod  *)
(* that was resolved before; otherwise it is closed, with the calls on it,    *)
(* and a new one with a new recorder takes its place.                         *)
Dial(c) ==
  /\ callers[c].pc = "dial"
  /\ IF cached # None /\ connCacheKey(cached, callers[c].key)
       THEN /\ callers' = [callers EXCEPT ![c].pc = "ready", ![c].conn = cached]
            /\ UNCHANGED <<cached, conns>>
       ELSE LET i == CHOOSE n \in ConnIDs : Unused(n)
                gone == {cached} \ {None}
            IN /\ cached' = i
               /\ conns' = [n \in ConnIDs |->
                    IF n = i THEN [pod |-> callers[c].key, state |-> "idle", fault |-> FALSE]
                    ELSE IF n \in gone THEN [conns[n] EXCEPT !.state = "shutdown"]
                    ELSE conns[n]]
               /\ callers' = [Broken(gone, \E n \in gone :
                                 conns[n].pod = agent.pod /\ callers[c].key >= conns[n].pod)
                               EXCEPT ![c].pc = "ready", ![c].conn = i]
  /\ UNCHANGED <<agent, seen, left>>

ConnOf(c) == conns[callers[c].conn]

(* What ready answers when the connection is not up after the wait.           *)
notReady(c) == IF ConnOf(c).fault THEN "tls" ELSE "outage"

(* ready asks for the connection and waits until it is up, until it is        *)
(* closed, or until the wait ends; then the call is not sent.                 *)
connect(c) ==
  /\ callers[c].pc = "ready" /\ ConnOf(c).state = "idle"
  /\ conns' = [conns EXCEPT ![callers[c].conn].state = "connecting"]
  /\ UNCHANGED <<agent, seen, cached, callers, left>>

ready(c) ==
  /\ callers[c].pc = "ready" /\ ConnOf(c).state # "idle"
  /\ IF ConnOf(c).state = "ready" THEN Goto(c, "send") ELSE End(c, notReady(c))
  /\ UNCHANGED <<agent, seen, cached, conns, left>>

(* The context of the call ends during the wait, or during the call.          *)
contextEnds(c) ==
  /\ callers[c].pc \in {"ready", "sent"} /\ left.ends > 0
  /\ left' = [left EXCEPT !.ends = @ - 1]
  /\ End(c, "context")
  /\ UNCHANGED <<agent, seen, cached, conns>>

(* The shim hands the call to gRPC.  A connection that went down since ready  *)
(* fails the call, or the call goes out when the connection is up again.      *)
send(c) ==
  /\ callers[c].pc = "send"
  /\ \/ /\ ConnOf(c).state = "ready"
        /\ callers' = [callers EXCEPT ![c].pc = "sent", ![c].runs = @ + 1]
     \/ /\ ConnOf(c).state # "ready"
        /\ End(c, "broken")
  /\ UNCHANGED <<agent, seen, cached, conns, left>>

reply(c) ==
  /\ callers[c].pc = "sent"
  /\ End(c, "answered")
  /\ UNCHANGED <<agent, seen, cached, conns, left>>

-----------------------------------------------------------------------------
(* gRPC and TLS.                                                              *)

Reaches(i) == agent.up /\ conns[i].pod = agent.pod

(* The handshake keeps its TLS fault.  One that succeeds clears nothing: in   *)
(* TLS 1.3 the node agent refuses the operator after it.                      *)
ClientHandshake(i) ==
  IF agent.tls = "unverified"
    THEN conns' = [conns EXCEPT ![i].fault = TRUE]
    ELSE conns' = [conns EXCEPT ![i].state = "shaken"]

(* gRPC connects while the node agent listens.                                *)
attempt(i) ==
  /\ conns[i].state = "connecting" /\ Reaches(i)
  /\ ClientHandshake(i)
  /\ UNCHANGED <<agent, seen, cached, callers, left>>

(* The first read: the alert of a node agent that refuses the operator is     *)
(* kept, and bytes that arrive clear what was kept.                           *)
Read(i) ==
  /\ conns[i].state = "shaken"
  /\ IF agent.tls = "refuses"
       THEN conns' = [conns EXCEPT ![i].state = "connecting", ![i].fault = TRUE]
       ELSE conns' = [conns EXCEPT ![i].state = "ready", ![i].fault = FALSE]
  /\ UNCHANGED <<agent, seen, cached, callers, left>>

(* The network cuts a connection: a reset is no TLS fault, and hides none.    *)
reset(i) ==
  /\ conns[i].state \in {"shaken", "ready"} /\ left.resets > 0
  /\ left' = [left EXCEPT !.resets = @ - 1]
  /\ conns' = [conns EXCEPT ![i].state = IF @ = "ready" THEN "idle" ELSE "connecting"]
  /\ callers' = Broken({i}, FALSE)
  /\ UNCHANGED <<agent, seen, cached>>

-----------------------------------------------------------------------------
(* The node agent and its Pod.                                                *)

Down == [i \in ConnIDs |->
  [conns[i] EXCEPT !.state = CASE @ = "ready" -> "idle" [] @ = "shaken" -> "connecting"
                               [] OTHER -> @]]

(* The node agent stops: its container restarts in place, or a new Pod takes  *)
(* over.  It may come back with its TLS set up well.                          *)
agentStops(pod, tls) ==
  /\ agent' = [pod |-> pod, up |-> FALSE, tls |-> tls]
  /\ conns' = Down
  /\ callers' = Broken({i \in ConnIDs : conns[i].state = "ready"}, FALSE)
  /\ UNCHANGED <<seen, cached>>

restarts ==
  /\ left.restarts > 0
  /\ left' = [left EXCEPT !.restarts = @ - 1]
  /\ \E tls \in {agent.tls, "good"} : agentStops(agent.pod, tls)

isReplaced ==
  /\ left.pods > 0
  /\ left' = [left EXCEPT !.pods = @ - 1]
  /\ agentStops(agent.pod + 1, agent.tls)

listens ==
  /\ ~agent.up
  /\ agent' = [agent EXCEPT !.up = TRUE]
  /\ UNCHANGED <<seen, cached, conns, callers, left>>

(* The informer shows the Pod as it is now.                                   *)
observed ==
  /\ seen' = [pod |-> agent.pod, ready |-> agent.up]
  /\ seen' # seen
  /\ UNCHANGED <<agent, cached, conns, callers, left>>

CallerStep(c) ==
  \/ ResolveNodeAgentPod(c) \/ Dial(c) \/ connect(c) \/ ready(c) \/ send(c) \/ reply(c)

ConnStep(i) == attempt(i) \/ Read(i)

(* Every caller has its answer.                                               *)
Settled == \A c \in Callers : callers[c].pc = "end"

ndNext ==
  \/ \E c \in Callers : CallerStep(c) \/ contextEnds(c)
  \/ \E i \in ConnIDs : ConnStep(i) \/ reset(i)
  \/ restarts \/ isReplaced \/ listens \/ observed
  \/ Settled /\ UNCHANGED ndVars

ndFairness ==
  /\ \A c \in Callers : WF_ndVars(CallerStep(c))
  /\ \A i \in ConnIDs : WF_ndVars(ConnStep(i))
  /\ WF_ndVars(listens) /\ WF_ndVars(observed)

ndSpec == ndInit /\ [][ndNext]_ndVars /\ ndFairness

-----------------------------------------------------------------------------
(* "A call that reached the node-agent is never sent again" (dialer.go): the  *)
(* node agent runs each request at most once, however often an outage makes   *)
(* the controller try again, and whatever restarts in between.                *)
RunsOnce == \A c \in Callers : callers[c].runs <= 1

(* A Dial cuts the call of another controller to a node agent that works only *)
(* when it resolved its Pod before the cached connection's Pod took over.     *)
CutOnlyByOlder == \A c \in Callers : ~callers[c].cut

(* A node agent that refuses the operator, or that the operator refuses, is   *)
(* reported, and is no outage to be retried for ever: once restarts end every *)
(* call gets an answer that is not an outage.                                 *)
CallsSettle == []<>Settled
=============================================================================
