----------------------------- MODULE LogStream -----------------------------
(***************************************************************************)
(* StreamLogs of the frontend (internal/frontend/service.go): the log of   *)
(* the launcher container, read through the API server while the machine   *)
(* writes, ends or is deleted, and read again when the first read breaks.  *)
(*                                                                         *)
(* A line has its place in the log and the time stamp of kubelet.  A stamp *)
(* is an instant; Truncate gives the start of its second, which is all     *)
(* that a read can ask for.  Kubelet refuses to follow a container that    *)
(* has ended, and rotation is left out.                                    *)
(***************************************************************************)
EXTENDS Naturals, Sequences

CONSTANTS
  Requests,       \* follow, tail_lines, and what may happen meanwhile
  MaxLines,       \* lines that the machine writes
  Stamps,         \* instants of kubelet, numbers above 0
  PerSecond,      \* instants in a second
  None

VARIABLES
  request,        \* the request, with the breaks that are left
  console,        \* the stamps of the lines written so far
  logPod,         \* the launcher Pod: "none", "Pending", "Running", "ended"
  call,           \* the StreamLogs call
  got             \* what the caller received: line numbers and pieces

lsVars == <<request, console, logPod, call, got>>

Truncate(stamp) == (stamp \div PerSecond) * PerSecond

(***************************************************************************)
(* logAnchor: the stamp of the last line sent, and how many lines of that  *)
(* stamp were sent.                                                        *)
(***************************************************************************)

ZeroAnchor == [Stamp |-> 0, Count |-> 0]

advance(a, ts) ==
  IF ts = a.Stamp THEN [a EXCEPT !.Count = @ + 1] ELSE [Stamp |-> ts, Count |-> 1]

(* Mutant: the instant alone is the position. *)
delivered_Instant(a, ts, seenAtStamp) == a # ZeroAnchor /\ ts <= a.Stamp

(* A line of this stamp, the n-th one of it in this pass, was sent. *)
delivered(a, ts, seenAtStamp) ==
  /\ a # ZeroAnchor
  /\ ts < a.Stamp \/ (ts = a.Stamp /\ seenAtStamp <= a.Count)

(***************************************************************************)
(* StreamLogs.                                                             *)
(***************************************************************************)

At(p) == call.pc = p
Ends(result) == call' = [call EXCEPT !.pc = "end", !.result = result]
LogFault == request.faults > 0 /\ request' = [request EXCEPT !.faults = @ - 1]
LogWorks == UNCHANGED request

(* waitForLoggablePod: a follower waits for the Pod, up to a deadline.  A
   container that has ended is not followed. *)
waitForLoggablePod ==
  /\ At("pod") /\ UNCHANGED <<console, logPod, got>>
  /\ \/ /\ LogWorks /\ logPod \in {"Running", "ended"}
        /\ call' = [call EXCEPT !.pc = "open",
                      !.follow = request.follow /\ logPod # "ended"]
     \/ LogWorks /\ logPod \in {"none", "Pending"} /\ Ends("notReady")
     \/ LogFault /\ Ends("failed")

(* Where a read begins: the window of logWindow.options. *)
Begin(tail, since) ==
  LET last == IF tail = 0 \/ tail >= Len(console) THEN 1 ELSE Len(console) - tail + 1
      from == {i \in last..Len(console) : console[i] >= since}
  IN  IF from = {} THEN Len(console) + 1
      ELSE CHOOSE i \in from : \A j \in from : i <= j

(* A pass of relayLogStream begins, with the anchor of the one before. *)
Reads(c, next) ==
  call' = [c EXCEPT !.pc = "relay", !.next = next, !.seenAtStamp = 0,
             !.lastStamp = 0, !.from = c.anchor, !.late = logPod = "ended"]

ReadsFirst ==
  LET next == Begin(request.tail, 0) IN Reads([call EXCEPT !.begin = next], next)

(* openWorkloadLogs, the first open: a follow that fails on a Pod that is
   there is tried again as a plain read. *)
openWorkloadLogs ==
  LET Falls == call' = [call EXCEPT !.pc = "open", !.follow = FALSE] IN
  /\ At("open") /\ UNCHANGED <<console, logPod, got>>
  /\ \/ /\ LogWorks
        /\ CASE logPod = "none" -> Ends("failed")
             [] call.follow /\ logPod = "ended" -> Falls
             [] OTHER -> ReadsFirst
     \/ LogFault /\ IF call.follow THEN Falls ELSE Ends("failed")

(* relayLogStream, one line: its place among the lines of its stamp, and
   whether the anchor of the pass before says that it was sent. *)
relayLine ==
  LET ts   == console[call.next]
      seen == IF ts = call.lastStamp THEN call.seenAtStamp + 1 ELSE 1
      read == [call EXCEPT !.next = @ + 1, !.lastStamp = ts, !.seenAtStamp = seen]
  IN
  /\ At("relay") /\ call.next <= Len(console) /\ LogWorks /\ UNCHANGED <<console, logPod>>
  /\ IF delivered(call.from, ts, seen) THEN call' = read /\ UNCHANGED got
     ELSE /\ got' = Append(got, call.next)
          /\ call' = [read EXCEPT !.anchor = advance(@, ts)]

(* The source ends: a follow with its container, a plain read with the log
   as it is. *)
relayEnds ==
  /\ At("relay") /\ call.next > Len(console) /\ LogWorks
  /\ call.follow => logPod \in {"none", "ended"}
  /\ Ends("ok") /\ UNCHANGED <<console, logPod, got>>

(* The source breaks.  A piece of a line that the scanner holds is sent as
   a line: with its stamp, and the anchor advances, or without. *)
relayBreaks ==
  LET Then(c) == call' = IF c.pass = 1 THEN [c EXCEPT !.pc = "reopen", !.pass = 2]
                         ELSE [c EXCEPT !.pc = "end", !.result = "failed"]
      piece == [call EXCEPT !.torn = TRUE]
  IN
  /\ At("relay") /\ request.breaks > 0 /\ UNCHANGED <<console, logPod>>
  /\ request' = [request EXCEPT !.breaks = @ - 1]
  /\ \/ Then(call) /\ UNCHANGED got
     \/ /\ call.next <= Len(console) /\ got' = Append(got, call.next)
        /\ Then([piece EXCEPT !.anchor = advance(@, console[call.next])])
     \/ /\ call.next <= Len(console) /\ got' = Append(got, 0) /\ Then(piece)

(* resumeAfterBrokenLogStream: a plain read from the second of the last
   line. *)
resumeAfterBrokenLogStream ==
  /\ At("reopen") /\ UNCHANGED <<console, logPod, got>>
  /\ \/ /\ LogWorks
        /\ IF logPod = "none" THEN Ends("failed")
           ELSE Reads([call EXCEPT !.follow = FALSE],
                      Begin(0, Truncate(call.anchor.Stamp)))
     \/ LogFault /\ Ends("failed")

(* The caller hangs up. *)
hangUp ==
  /\ request.hangsUp /\ ~At("end") /\ Ends("canceled")
  /\ UNCHANGED <<request, console, logPod, got>>

StreamLogs ==
  \/ waitForLoggablePod \/ openWorkloadLogs \/ relayLine \/ relayEnds
  \/ resumeAfterBrokenLogStream

(***************************************************************************)
(* The Pod.                                                                *)
(***************************************************************************)

podMoves ==
  /\ \/ logPod = "Pending" /\ logPod' = "Running"
     \/ logPod = "Running" /\ logPod' = "ended"
     \/ request.deletes /\ logPod # "none" /\ logPod' = "none"
  /\ UNCHANGED <<request, console, call, got>>

writesLine ==
  /\ logPod = "Running" /\ Len(console) < MaxLines
  /\ \E ts \in Stamps :
       /\ console # <<>> => ts >= console[Len(console)]
       /\ console' = Append(console, ts)
  /\ UNCHANGED <<request, logPod, call, got>>

lsInit ==
  /\ request \in Requests
  /\ console = <<>> /\ logPod = "Pending" /\ got = <<>>
  /\ call = [pc |-> "pod", follow |-> FALSE, pass |-> 1, next |-> 1, begin |-> 1,
             anchor |-> ZeroAnchor, from |-> ZeroAnchor, seenAtStamp |-> 0,
             lastStamp |-> 0, late |-> FALSE, torn |-> FALSE, result |-> None]

lsNext == StreamLogs \/ relayBreaks \/ hangUp \/ podMoves \/ writesLine

(* The call runs, and the machine of a Pod ends at some time. *)
lsFairness == WF_lsVars(StreamLogs) /\ WF_lsVars(podMoves)

lsSpec == lsInit /\ [][lsNext]_lsVars /\ lsFairness

(***************************************************************************)
(* Properties.                                                             *)
(***************************************************************************)

(* The tail of the request began between two lines of one stamp, so that
   the count of the anchor is not the count of a later pass. *)
TailSplits ==
  /\ call.begin > 1 /\ call.begin <= Len(console)
  /\ console[call.begin - 1] = console[call.begin]

(* The caller receives a gapless run of the log, each line once and in
   order, over any break and second read, whichever lines share a stamp or
   a second (relayLogStream, logAnchor: "partial output is never lost and
   never duplicated").  Excused: a break inside a line, and a tail that
   begins between lines of one stamp. *)
LinesOnce ==
  ~call.torn /\ ~TailSplits =>
    \A i \in 2..Len(got) : got[i] = got[i - 1] + 1

(* A call that ends well after the machine ended has given the caller the
   log to its last line, unless the caller reads what was there while the
   machine still ran (StreamLogs, resumeAfterBrokenLogStream, setec#263). *)
OutputComplete ==
  At("end") /\ call.result = "ok" /\ ~call.torn /\ ~TailSplits
    /\ (call.follow \/ call.late) =>
    console = <<>> \/ (got # <<>> /\ got[Len(got)] = Len(console))

(* The log of a machine that ended while the call was on its way is served,
   not refused: a call fails only when the Pod was deleted, or a call to
   the API server or the second read failed (openWorkloadLogs, setec#263). *)
LogsServed ==
  call.result = "failed" =>
    \/ logPod = "none" \/ request.faults < request.given.faults
    \/ request.given.breaks - request.breaks > 1

(* A call that waits for its Pod, follows a machine or reads its log ends
   (waitForLoggablePod, relayLogStream). *)
StreamEnds == []<>At("end")
=============================================================================
