---------------------------- MODULE MCSnapshotLease ----------------------------
(* Small instances of SnapshotLease for TLC. *)
EXTENDS SnapshotLease

CONSTANTS n1, n2, w1, w2

OwnerOf   == [w \in Workers |-> IF w = w2 THEN n2 ELSE n1]
SkewOf    == [n \in Nodes |-> IF n = n1 THEN 1 ELSE 0]
=============================================================================
