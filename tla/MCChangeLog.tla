------------------------------ MODULE MCChangeLog ------------------------------
(* Small instances of ChangeLog for TLC. *)
EXTENDS ChangeLog

CONSTANTS t1, t2
=============================================================================
