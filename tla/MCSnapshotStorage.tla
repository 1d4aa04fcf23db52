--------------------------- MODULE MCSnapshotStorage ---------------------------
(* Small instances of SnapshotStorage for TLC. *)
EXTENDS SnapshotStorage, TLC

CONSTANTS n1, n2, n3

NodeSymmetry == Permutations(Nodes)
=============================================================================
