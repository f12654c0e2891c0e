------------------------- MODULE MCSnapshotRequest -------------------------
(* One Sandbox, a parent Snapshot and its diff (or a name that is used     *)
(* again), one frontend call: long sequences of requests without a fault,  *)
(* and shorter ones with one.                                              *)
EXTENDS SnapshotRequest

CONSTANTS n1, n2

Full(a) == [name |-> n1, after |-> a, parent |-> None, kept |-> FALSE]
Diff == [name |-> n2, after |-> "Running", parent |-> n1, kept |-> FALSE]
MCWanted == {Full("Running"), Full("Terminated"), Diff}
Budget(a, p, d, f, c) == [ask |-> a, flip |-> p, delete |-> d, fault |-> f, call |-> c]
MCBudgets ==
  {Budget(2, 0, 1, 0, FALSE), Budget(2, 0, 0, 0, TRUE), Budget(2, 0, 0, 1, FALSE),
   Budget(1, 0, 1, 1, TRUE), Budget(1, 1, 0, 1, FALSE), Budget(1, 0, 0, 2, FALSE)}
=============================================================================
