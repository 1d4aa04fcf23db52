----------------------------- MODULE OrderedReplay -----------------------------
(* What a listener promises for one stream when nothing else writes its       *)
(* position, whatever happens on the way: it applies messages in stream       *)
(* order, never goes back behind the position it has saved, and passes over a *)
(* message only if that one was lost on its way or discarded by the stream.   *)
(* Applying the same message again before it is saved changes nothing here.   *)
EXTENDS Integers

VARIABLES
    length,      \* last message of the stream
    discarded,   \* last message that the stream discarded
    lost,        \* messages dropped between the server and the listener
    applied,     \* messages whose effect reached the tables
    position     \* saved position: a new start goes on after it

vars == <<length, discarded, lost, applied, position>>

Init ==
    length = 0 /\ discarded = 0 /\ lost = {} /\ applied = {} /\ position = 0

\* A stream that is full discards its oldest message.
Publish ==
    /\ length' = length + 1
    /\ discarded' \in {discarded, discarded + 1}
    /\ UNCHANGED <<lost, applied, position>>

Lose(m) ==
    /\ lost' = lost \cup {m}
    /\ UNCHANGED <<length, discarded, applied, position>>

\* Everything between the saved position and m was lost or discarded.
Follows(m) ==
    /\ m > position
    /\ \A k \in 1..(m - 1) : k > position => k \in lost \/ k <= discarded

Apply(m) ==
    /\ Follows(m)
    /\ applied' = applied \cup {m}
    /\ UNCHANGED <<length, discarded, lost, position>>

Save(m) ==
    /\ m \in applied
    /\ Follows(m)
    /\ position' = m
    /\ UNCHANGED <<length, discarded, lost, applied>>

Next == Publish \/ \E m \in 1..length : Lose(m) \/ Apply(m) \/ Save(m)

Spec == Init /\ [][Next]_vars
=============================================================================
