-------------------------- MODULE MCSnapshotStorage --------------------------
(* Two callers, two saves of one id, and one crash or error.  The callers  *)
(* are alike, so states that differ in their names only count once.        *)
EXTENDS SnapshotStorage, TLC

WriterSymmetry == Permutations(Writers)
=============================================================================
