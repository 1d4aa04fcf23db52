----------------------------- MODULE MCSnapshotLog -----------------------------
(* Small instances of SnapshotLog for TLC. *)
EXTENDS SnapshotLog

CONSTANTS n1, r1, r2

TwoShards == [r \in Rows |-> IF r = r1 THEN 1 ELSE 2]
=============================================================================
