------------------------------ MODULE MCListener -------------------------------
(* Small instances of Listener for TLC. *)
EXTENDS Listener, TLC

CONSTANTS s1, s2

\* A stream of two messages and one with a single message that shares the
\* sequence map.
TwoLengths == [s \in Shards |-> IF s = s1 THEN 2 ELSE 1]

\* In a window of one, a skipped message of the first stream keeps the next from
\* being sent; in a window of two, one message may overtake the other.  Then a
\* stream that keeps one message, a node that saves the numbers of its own
\* messages, and one that does not replicate.
Safe(window, maxMsgs, shards) ==
    [window |-> window, maxMsgs |-> maxMsgs, replicate |-> TRUE,
     saveAcks |-> FALSE, shards |-> shards]
FiveConfigs ==
    {Safe(1, 2, {s1}), Safe(2, 2, {s1, s2}), Safe(2, 1, {s1}),
     [Safe(2, 2, {s1}) EXCEPT !.saveAcks = TRUE],
     [Safe(2, 2, {s1}) EXCEPT !.replicate = FALSE]}
=============================================================================
