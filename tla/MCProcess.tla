------------------------------- MODULE MCProcess -------------------------------
(* Instance of module Process for TLC.                                         *)
EXTENDS Process

CONSTANTS m, w, l1, g1, t1

AllThreads == {m, w, l1}
=============================================================================
