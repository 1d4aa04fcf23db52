----------------------------- MODULE MCReplication -----------------------------
(* Small instances of Replication for TLC. *)
EXTENDS Replication

CONSTANTS n1, n2, r1, r2, v1, v2

\* Both rows on one shard, or each on its own.
HashOneShard  == [r \in Rows |-> 4]
HashTwoShards == [r \in Rows |-> IF r = r1 THEN 4 ELSE 7]

\* The common copy has row r1 only.
InitialCopy == [r \in Rows |-> IF r = r1 THEN v1 ELSE None]

\* The common copy is empty.
InitialEmpty == [r \in Rows |-> None]
=============================================================================
