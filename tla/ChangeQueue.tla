------------------------------ MODULE ChangeQueue ------------------------------
(***************************************************************************)
(* What the change log promises the rest of Marmot: a durable queue of the  *)
(* captured statements.  Each statement is handed over at least once before  *)
(* it leaves the queue, unless it was dropped because it could not be read,  *)
(* and no statement is handed over for the first time before every earlier   *)
(* one was handed over or dropped.  Crashes, failed queries, scans of a few  *)
(* rows and the two levels of tables are not visible at this level.          *)
(***************************************************************************)
EXTENDS Naturals

VARIABLES
    commits,   \* statements captured; a statement is named by its number
    queued,    \* statements in the queue
    handed,    \* statements handed over at least once
    dropped    \* statements that could not be read at least once

vars == <<commits, queued, handed, dropped>>

Init ==
    /\ commits = 0
    /\ queued = {}
    /\ handed = {}
    /\ dropped = {}

\* A statement and its triggers commit.
Capture ==
    /\ commits' = commits + 1
    /\ queued' = queued \cup {commits + 1}
    /\ UNCHANGED <<handed, dropped>>

\* It is a statement's turn when everything queued before it had its turn.
Turn(w) == \A v \in queued : v < w => v \in handed \cup dropped

\* OnChange is called; a statement still queued may be handed over again.
HandOver(w) ==
    /\ Turn(w)
    /\ handed' = handed \cup {w}
    /\ UNCHANGED <<commits, queued, dropped>>

\* The row cannot be read and OnChange is not called.
Drop(w) ==
    /\ Turn(w)
    /\ dropped' = dropped \cup {w}
    /\ UNCHANGED <<commits, queued, handed>>

\* The statement is marked published.
Remove(w) ==
    /\ w \in handed \cup dropped
    /\ queued' = queued \ {w}
    /\ UNCHANGED <<commits, handed, dropped>>

Next == Capture \/ \E w \in queued : HandOver(w) \/ Drop(w) \/ Remove(w)

Spec == Init /\ [][Next]_vars
=============================================================================
