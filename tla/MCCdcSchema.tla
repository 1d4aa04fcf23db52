------------------------------ MODULE MCCdcSchema ------------------------------
(* Small instances of CdcSchema for TLC. *)
EXTENDS CdcSchema, TLC

CONSTANTS t1, t2

TableSymmetry == Permutations({t1, t2})
=============================================================================
