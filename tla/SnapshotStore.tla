---------------------------- MODULE SnapshotStore ----------------------------
(* What a snapshot store promises to a reader of one id: a snapshot comes  *)
(* into view whole, stays what it is while it can be read, and once it     *)
(* cannot be read it never can be again.                                   *)
CONSTANTS Tokens, None

VARIABLES
  content,   \* the snapshot an Open of the id gives, or None
  gone       \* the snapshots that could be read once and cannot be now

Init == content = None /\ gone = {}

Commit ==
  /\ content = None /\ content' \in Tokens \ gone
  /\ UNCHANGED gone

Lose ==
  /\ content # None /\ content' = None
  /\ gone' = gone \cup {content}

Next == Commit \/ Lose

Spec == Init /\ [][Next]_<<content, gone>>
=============================================================================
