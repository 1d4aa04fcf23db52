--------------------------- MODULE SnapshotLogProofs ---------------------------
(* Machine-checked proofs about module SnapshotLog, for any number of replicas, *)
(* rows, shards, writes, boots and any size of the streams.                     *)
EXTENDS SnapshotLog, Integers, TLAPS

\* TypeOK, part by part.
PublisherOK ==
    /\ master \in [Rows -> 0..MaxWrites]
    /\ pending \in Seq(Change)
    /\ log \in [Shard -> Seq(Change)]
SaverOK ==
    /\ saver \in {"idle", "backup", "upload", "put"}
    /\ age \in 0..MaxPublished
    /\ failures \in 0..MaxFailures
    /\ backup \in Copy
    /\ stored \in Copy
    /\ saver \in {"upload", "put"} <=> backup.found
ReplicaOK ==
    /\ pc \in [Replicas -> {"down", "restore", "up"}]
    /\ table \in [Replicas -> [Rows -> 0..MaxWrites]]
    /\ seqMap \in [Replicas -> Upto]
    /\ next \in [Replicas -> [Shard -> 1..(MaxWrites + 1)]]
    /\ have \in [Replicas -> Upto]
    /\ gap \in [Replicas -> [Shard -> BOOLEAN]]
CountersOK ==
    /\ writes \in 0..MaxWrites
    /\ boots \in 0..MaxBoots

LEMMA TypeParts ==
    /\ TypeOK <=> PublisherOK /\ SaverOK /\ ReplicaOK /\ CountersOK
    /\ TypeOK' <=> PublisherOK' /\ SaverOK' /\ ReplicaOK' /\ CountersOK'
  BY Zenon DEF TypeOK, PublisherOK, SaverOK, ReplicaOK, CountersOK

\* The parts that a step leaves alone.
LEMMA Frames ==
    /\ PublisherOK /\ UNCHANGED <<master, pending, log>> => PublisherOK'
    /\ SaverOK /\ UNCHANGED <<saver, age, failures, backup, stored>> => SaverOK'
    /\ ReplicaOK /\ UNCHANGED replica => ReplicaOK'
    /\ CountersOK /\ UNCHANGED counters => CountersOK'
    /\ LengthInv /\ UNCHANGED <<pending, log, writes>> => LengthInv'
  BY Zenon DEF PublisherOK, SaverOK, ReplicaOK, CountersOK, LengthInv, replica, counters

\* Adding to and taking from a queue.
LEMMA QueueFacts ==
  ASSUME NEW S, NEW q \in Seq(S), NEW x \in S
  PROVE  /\ Append(q, x) \in Seq(S)
         /\ Len(q) \in Nat
         /\ Len(Append(q, x)) = Len(q) + 1
         /\ \A i \in 1..Len(q) : Append(q, x)[i] = q[i]
         /\ Append(q, x)[Len(q) + 1] = x
  OBVIOUS

LEMMA TailFacts ==
  ASSUME NEW S, NEW q \in Seq(S), q # <<>>
  PROVE  /\ Len(q) \in Nat \ {0}
         /\ Head(q) \in S /\ Head(q) = q[1]
         /\ Tail(q) \in Seq(S)
         /\ Len(Tail(q)) = Len(q) - 1
         /\ \A i \in 1..Len(Tail(q)) : Tail(q)[i] = q[i + 1]
  OBVIOUS

\* A function of functions that changes at one place.
LEMMA Nested ==
  ASSUME NEW A, NEW B, NEW D, NEW f \in [A -> [B -> D]],
         NEW a \in A, NEW b \in B, NEW d \in D
  PROVE  LET g == [f EXCEPT ![a][b] = d]
         IN  /\ g \in [A -> [B -> D]]
             /\ g[a][b] = d
             /\ \A c \in B : c # b => g[a][c] = f[a][c]
             /\ \A c \in A : c # a => g[c] = f[c]
  OBVIOUS

LEMMA NothingFacts ==
    /\ Nothing \in Copy /\ ~Nothing.found
    /\ \A s \in Shard : Nothing.upto[s] = 0
  BY SnapshotLogAssumption DEF Nothing, Copy, Upto

\* A deleted snapshot leaves its position.
LEMMA DeleteFacts ==
  ASSUME stored \in Copy
  PROVE  LET gone == [Nothing EXCEPT !.upto = stored.upto]
         IN  gone \in Copy /\ ~gone.found /\ gone.upto = stored.upto
  BY Zenon, NothingFacts, SnapshotLogAssumption DEF Nothing, Copy, Upto

\* The lengths of the streams.
LEMMA Lengths ==
  ASSUME TypeOK, LengthInv
  PROVE  /\ Len(pending) \in Nat
         /\ \A s \in Shard : /\ Len(log[s]) \in 0..MaxWrites
                             /\ Len(log[s]) + Len(pending) <= writes
                             /\ Discarded(s) \in Nat
  <1>1. /\ pending \in Seq(Change) /\ \A s \in Shard : log[s] \in Seq(Change)
        /\ writes \in 0..MaxWrites
    BY Zenon, TypeParts DEF PublisherOK, CountersOK
  <1>2. Len(pending) \in Nat /\ \A s \in Shard : Len(log[s]) \in Nat
    BY <1>1
  <1>3. ASSUME NEW s \in Shard
        PROVE  /\ Len(log[s]) + Len(pending) <= writes
               /\ Len(log[s]) \in 0..MaxWrites
               /\ Discarded(s) \in Nat
    <2>1. Len(log[s]) + Len(pending) <= writes
      BY Zenon DEF LengthInv
    <2>2. Len(log[s]) \in 0..MaxWrites
      BY <1>1, <1>2, <2>1, SnapshotLogAssumption
    <2>3. Discarded(s) \in Nat
      BY <1>2, SnapshotLogAssumption DEF Discarded
    <2>. QED BY <2>1, <2>2, <2>3
  <1>. QED BY <1>2, <1>3

-----------------------------------------------------------------------------
(* Types *)

\* What a statement of an application does.
LEMMA WriteFacts ==
  ASSUME TypeOK, NEW r \in Rows, Write(r)
  PROVE  LET e == [row |-> r, val |-> writes + 1]
         IN  /\ e \in Change /\ e.row = r /\ e.val = writes + 1
             /\ writes \in Nat /\ writes + 1 \in 1..MaxWrites /\ writes' = writes + 1
             /\ master' = [master EXCEPT ![r] = writes + 1]
             /\ master'[r] = writes + 1
             /\ \A q \in Rows : q # r => master'[q] = master[q]
             /\ pending' \in Seq(Change) /\ Len(pending) \in Nat
             /\ Len(pending') = Len(pending) + 1
             /\ \A i \in 1..Len(pending) : pending'[i] = pending[i]
             /\ pending'[Len(pending) + 1] = e
             /\ UNCHANGED <<log, saver, age, failures, backup, stored, boots>>
             /\ UNCHANGED replica
  <1>0. /\ PublisherOK /\ CountersOK
        /\ writes < MaxWrites /\ writes' = writes + 1
        /\ master' = [master EXCEPT ![r] = writes + 1]
        /\ pending' = Append(pending, [row |-> r, val |-> writes + 1])
        /\ UNCHANGED <<log, saver, age, failures, backup, stored, boots>>
        /\ UNCHANGED replica
    BY Zenon, TypeParts DEF Write
  <1>1. writes \in Nat /\ writes + 1 \in 1..MaxWrites
    BY <1>0, SnapshotLogAssumption DEF CountersOK
  <1>. DEFINE e == [row |-> r, val |-> writes + 1]
  <1>2. e \in Change /\ e.row = r /\ e.val = writes + 1
    BY <1>1 DEF Change
  <1>3. pending \in Seq(Change) /\ pending' = Append(pending, e)
    BY Zenon, <1>0 DEF PublisherOK
  <1>. HIDE DEF e
  <1>4. /\ pending' \in Seq(Change) /\ Len(pending) \in Nat
        /\ Len(pending') = Len(pending) + 1
        /\ \A i \in 1..Len(pending) : pending'[i] = pending[i]
        /\ pending'[Len(pending) + 1] = e
    BY <1>2, <1>3, QueueFacts
  <1>5. master'[r] = writes + 1 /\ \A q \in Rows : q # r => master'[q] = master[q]
    BY Zenon, <1>0 DEF PublisherOK
  <1>. QED BY Zenon, <1>0, <1>1, <1>2, <1>4, <1>5 DEF e

LEMMA WriteTypes ==
  ASSUME TypeOK, LengthInv, NEW r \in Rows, Write(r)
  PROVE  TypeOK' /\ LengthInv'
  <1>0. PublisherOK /\ CountersOK /\ SaverOK /\ ReplicaOK
    BY Zenon, TypeParts
  <1>1. /\ writes \in Nat /\ writes + 1 \in 1..MaxWrites /\ writes' = writes + 1
        /\ master' = [master EXCEPT ![r] = writes + 1]
        /\ pending' \in Seq(Change) /\ Len(pending) \in Nat
        /\ Len(pending') = Len(pending) + 1
        /\ UNCHANGED <<log, saver, age, failures, backup, stored, boots>>
        /\ UNCHANGED replica
    BY Zenon, WriteFacts
  <1>2. master' \in [Rows -> 0..MaxWrites] /\ writes' \in 0..MaxWrites
    BY <1>0, <1>1 DEF PublisherOK
  <1>3. LengthInv'
    <2>. SUFFICES ASSUME NEW s \in Shard PROVE Len(log'[s]) + Len(pending') <= writes'
      BY Zenon DEF LengthInv
    <2>1. Len(log[s]) \in Nat /\ Len(log[s]) + Len(pending) <= writes
      BY Lengths
    <2>2. Len(log'[s]) = Len(log[s])
      BY Zenon, <1>1
    <2>3. \A a, b, c \in Nat : a + b <= c => a + (b + 1) <= c + 1
      OBVIOUS
    <2>. QED BY Zenon, <1>1, <2>1, <2>2, <2>3
  <1>. QED BY Zenon, <1>0, <1>1, <1>2, <1>3, TypeParts, Frames
           DEF PublisherOK, CountersOK

\* What Publish does to the streams and to the state of SaveSnapshot.
LEMMA PublishFacts ==
  ASSUME TypeOK, PublishNext
  PROVE  LET e == Head(pending)
             s == RowShard[e.row]
         IN  /\ pending # <<>> /\ e \in Change /\ s \in Shard /\ e = pending[1]
             /\ Even(s)
             /\ log' = [log EXCEPT ![s] = Append(log[s], e)]
             /\ log'[s] = Append(log[s], e)
             /\ Len(log'[s]) = Len(log[s]) + 1 /\ Len(log[s]) \in Nat
             /\ \A i \in 1..Len(log[s]) : log'[s][i] = log[s][i]
             /\ log'[s][Len(log[s]) + 1] = e
             /\ \A t \in Shard : t # s => log'[t] = log[t]
             /\ pending' = Tail(pending) /\ Len(pending) \in Nat
             /\ Len(pending') = Len(pending) - 1 /\ Len(pending) # 0
             /\ \A i \in 1..Len(pending') : pending'[i] = pending[i + 1]
             /\ \/ saver = "idle" /\ saver' = "backup" /\ age' = 0
                \/ saver = "idle" /\ saver' = "idle" /\ age' = age
                   /\ ~Threshold(s, Len(log[s]) + 1)
                \/ saver # "idle" /\ saver' = saver /\ age < MaxPublished /\ age' = age + 1
             /\ UNCHANGED <<master, failures, backup, stored>>
             /\ UNCHANGED replica /\ UNCHANGED counters
  <1>. DEFINE e == Head(pending)
              s == RowShard[e.row]
  <1>1. pending \in Seq(Change) /\ pending # <<>> /\ log \in [Shard -> Seq(Change)]
    BY Zenon, TypeParts DEF PublishNext, PublisherOK
  <1>2. /\ e \in Change /\ e = pending[1] /\ pending' = Tail(pending)
        /\ Len(pending) \in Nat /\ Len(pending') = Len(pending) - 1 /\ Len(pending) # 0
        /\ \A i \in 1..Len(pending') : pending'[i] = pending[i + 1]
    <2>1. pending' = Tail(pending)
      BY Zenon DEF PublishNext
    <2>. QED BY <1>1, <2>1, TailFacts
  <1>3. s \in Shard
    BY <1>2, SnapshotLogAssumption DEF Change
  <1>4. log' = [log EXCEPT ![s] = Append(log[s], e)] /\ Even(s)
    BY Zenon DEF PublishNext
  <1>5. log'[s] = Append(log[s], e) /\ \A t \in Shard : t # s => log'[t] = log[t]
    BY ZenonT(40), <1>1, <1>3, <1>4
  <1>6. /\ Len(log'[s]) = Len(log[s]) + 1 /\ Len(log[s]) \in Nat
        /\ \A i \in 1..Len(log[s]) : log'[s][i] = log[s][i]
        /\ log'[s][Len(log[s]) + 1] = e
    <2>1. log[s] \in Seq(Change)
      BY Zenon, <1>1, <1>3
    <2>. HIDE DEF e, s
    <2>. QED BY <1>2, <1>5, <2>1, QueueFacts
  <1>7. \/ saver = "idle" /\ saver' = "backup" /\ age' = 0
        \/ saver = "idle" /\ saver' = "idle" /\ age' = age /\ ~Threshold(s, Len(log[s]) + 1)
        \/ saver # "idle" /\ saver' = saver /\ age < MaxPublished /\ age' = age + 1
    BY Zenon DEF PublishNext
  <1>8. /\ UNCHANGED <<master, failures, backup, stored>>
        /\ UNCHANGED replica /\ UNCHANGED counters
    BY Zenon DEF PublishNext
  <1>. QED BY Zenon, <1>1, <1>2, <1>3, <1>4, <1>5, <1>6, <1>7, <1>8

LEMMA PublishTypes ==
  ASSUME TypeOK, LengthInv, PublishNext
  PROVE  TypeOK' /\ LengthInv'
  <1>. DEFINE e == Head(pending)
              s == RowShard[e.row]
  <1>0. PublisherOK /\ CountersOK /\ SaverOK /\ ReplicaOK
    BY Zenon, TypeParts
  <1>1. /\ e \in Change /\ s \in Shard /\ pending # <<>>
        /\ log' = [log EXCEPT ![s] = Append(log[s], e)]
        /\ Len(log'[s]) = Len(log[s]) + 1 /\ Len(log[s]) \in Nat
        /\ \A t \in Shard : t # s => log'[t] = log[t]
        /\ pending' = Tail(pending) /\ Len(pending) \in Nat
        /\ Len(pending') = Len(pending) - 1 /\ Len(pending) # 0
        /\ UNCHANGED <<master, failures, backup, stored>>
        /\ UNCHANGED replica /\ UNCHANGED counters
    BY Zenon, PublishFacts
  <1>2. log' \in [Shard -> Seq(Change)]
    <2>1. log[s] \in Seq(Change)
      BY Zenon, <1>0, <1>1 DEF PublisherOK
    <2>2. Append(log[s], e) \in Seq(Change)
      BY ZenonT(40), <1>1, <2>1, QueueFacts
    <2>. QED BY Zenon, <1>0, <1>1, <2>2 DEF PublisherOK
  <1>3. pending' \in Seq(Change)
    BY <1>0, <1>1, TailFacts DEF PublisherOK
  <1>4. PublisherOK'
    BY Zenon, <1>0, <1>1, <1>2, <1>3 DEF PublisherOK
  <1>5. SaverOK'
    <2>1. /\ saver' \in {"idle", "backup", "upload", "put"}
          /\ saver' \in {"upload", "put"} <=> saver \in {"upload", "put"}
          /\ age' \in {0, age} \/ (age < MaxPublished /\ age' = age + 1)
      <3>1. \/ saver = "idle" /\ saver' = "backup" /\ age' = 0
            \/ saver = "idle" /\ saver' = "idle" /\ age' = age
            \/ saver # "idle" /\ saver' = saver /\ age < MaxPublished /\ age' = age + 1
        BY Zenon, PublishFacts
      <3>. QED BY <1>0, <3>1 DEF SaverOK
    <2>2. age' \in 0..MaxPublished
      BY SMTT(40), <1>0, <2>1, SnapshotLogAssumption DEF SaverOK
    <2>. QED BY Zenon, <1>0, <1>1, <2>1, <2>2 DEF SaverOK
  <1>6. LengthInv'
    <2>. SUFFICES ASSUME NEW t \in Shard PROVE Len(log'[t]) + Len(pending') <= writes
      BY Zenon, <1>1 DEF LengthInv, counters
    <2>1. Len(log[t]) \in Nat /\ Len(log[t]) + Len(pending) <= writes
      BY Lengths
    <2>2. Len(log'[t]) \in {Len(log[t]), Len(log[t]) + 1}
      BY Zenon, <1>1
    <2>3. writes \in Nat
      BY <1>0, SnapshotLogAssumption DEF CountersOK
    <2>. QED BY SMTT(40), <1>1, <2>1, <2>2, <2>3
  <1>. QED BY Zenon, <1>0, <1>1, <1>4, <1>5, <1>6, TypeParts, Frames

\* The steps of SaveSnapshot.
SaverStep == TimerSnapshot \/ BackupTo \/ Delete \/ Put \/ SnapshotError

LEMMA SaverTypes ==
  ASSUME TypeOK, LengthInv, SaverStep
  PROVE  TypeOK' /\ LengthInv'
  <1>0. /\ PublisherOK /\ SaverOK /\ ReplicaOK /\ CountersOK
        /\ UNCHANGED <<master, pending, log>> /\ UNCHANGED counters /\ UNCHANGED replica
    BY Zenon, TypeParts DEF SaverStep, TimerSnapshot, BackupTo, Delete, Put, SnapshotError
  <1>1. 0 \in 0..MaxPublished /\ 0 \in 0..MaxFailures
    BY SnapshotLogAssumption
  <1>2. SaverOK'
    <2>1. CASE TimerSnapshot
      BY <1>0, <1>1, <2>1 DEF SaverOK, TimerSnapshot
    <2>2. CASE BackupTo
      <3>1. backup' = [found |-> TRUE, rows |-> master, upto |-> [s \in Shard |-> Len(log[s])]]
        BY Zenon, <2>2 DEF BackupTo
      <3>2. [s \in Shard |-> Len(log[s])] \in Upto
        BY Lengths DEF Upto
      <3>3. backup' \in Copy /\ backup'.found = TRUE
        BY <1>0, <3>1, <3>2 DEF PublisherOK, Copy
      <3>. QED BY <1>0, <2>2, <3>3 DEF SaverOK, BackupTo
    <2>3. CASE Delete
      <3>1. stored' \in Copy
        BY Zenon, <1>0, <2>3, DeleteFacts DEF SaverOK, Delete
      <3>. QED BY <1>0, <2>3, <3>1 DEF SaverOK, Delete
    <2>4. CASE Put
      BY <1>0, <1>1, <2>4, NothingFacts DEF SaverOK, Put
    <2>5. CASE SnapshotError
      <3>1. failures' \in 0..MaxFailures
        BY <1>0, <2>5, SnapshotLogAssumption DEF SaverOK, SnapshotError
      <3>. QED BY <1>0, <1>1, <2>5, <3>1, NothingFacts DEF SaverOK, SnapshotError
    <2>. QED BY Zenon, <2>1, <2>2, <2>3, <2>4, <2>5 DEF SaverStep
  <1>. QED BY Zenon, <1>0, <1>2, TypeParts, Frames DEF counters

\* The steps of a replica that starts or stops.
StartStep(n) == Boot(n) \/ RestoreSnapshot(n) \/ Stop(n)

LEMMA StartTypes ==
  ASSUME TypeOK, LengthInv, NEW n \in Replicas, StartStep(n)
  PROVE  TypeOK' /\ LengthInv'
  <1>0. /\ PublisherOK /\ SaverOK /\ ReplicaOK /\ CountersOK
        /\ UNCHANGED publisher /\ seqMap' = seqMap /\ writes' = writes
    BY Zenon, TypeParts DEF StartStep, Boot, RestoreSnapshot, Stop, counters
  <1>1. CountersOK'
    <2>1. boots' \in 0..MaxBoots
      BY SMTT(40), <1>0, SnapshotLogAssumption
         DEF CountersOK, StartStep, Boot, RestoreSnapshot, Stop, counters
    <2>. QED BY Zenon, <1>0, <2>1 DEF CountersOK
  <1>2. pc' \in [Replicas -> {"down", "restore", "up"}]
    BY Zenon, <1>0 DEF ReplicaOK, StartStep, Boot, RestoreSnapshot, Stop
  <1>3. next' \in [Replicas -> [Shard -> 1..(MaxWrites + 1)]]
    <2>1. [s \in Shard |-> 1] \in [Shard -> 1..(MaxWrites + 1)]
      BY SnapshotLogAssumption
    <2>. QED BY Zenon, <1>0, <2>1 DEF ReplicaOK, StartStep, Boot, RestoreSnapshot, Stop
  <1>4. /\ table' \in [Replicas -> [Rows -> 0..MaxWrites]]
        /\ have' \in [Replicas -> Upto]
        /\ gap' \in [Replicas -> [Shard -> BOOLEAN]]
    <2>1. stored.rows \in [Rows -> 0..MaxWrites] /\ stored.upto \in Upto
      BY <1>0 DEF SaverOK, Copy
    <2>2. \/ UNCHANGED <<table, have, gap>>
          \/ /\ table' = [table EXCEPT ![n] = stored.rows]
             /\ have' = [have EXCEPT ![n] = stored.upto]
             /\ gap' = [gap EXCEPT ![n] = [s \in Shard |-> FALSE]]
      BY Zenon DEF StartStep, Boot, RestoreSnapshot, Stop
    <2>3. [s \in Shard |-> FALSE] \in [Shard -> BOOLEAN]
      OBVIOUS
    <2>. QED BY ZenonT(40), <1>0, <2>1, <2>2, <2>3 DEF ReplicaOK
  <1>5. ReplicaOK'
    BY Zenon, <1>0, <1>2, <1>3, <1>4 DEF ReplicaOK
  <1>6. PublisherOK' /\ SaverOK' /\ LengthInv'
    BY Zenon, <1>0, Frames DEF publisher
  <1>. QED BY Zenon, <1>1, <1>5, <1>6, TypeParts

\* What Listen does: the message it receives, and what it changes.
LEMMA ListenFacts ==
  ASSUME TypeOK, LengthInv, NEW n \in Replicas, NEW s \in Shard, Listen(n, s)
  PROVE  \E m \in 1..Len(log[s]) :
            /\ pc[n] = "up" /\ next[n][s] <= m
            /\ next' = [next EXCEPT ![n][s] = m + 1]
            /\ \/ /\ m <= seqMap[n][s]
                  /\ gap' = [gap EXCEPT ![n][s] = gap[n][s] \/ m > have[n][s]]
                  /\ UNCHANGED <<table, seqMap, have>>
               \/ /\ ~(m <= seqMap[n][s])
                  /\ table' = [table EXCEPT ![n][log[s][m].row] = log[s][m].val]
                  /\ seqMap' = [seqMap EXCEPT ![n][s] = m]
                  /\ have' = [have EXCEPT ![n][s] = m]
                  /\ gap' = [gap EXCEPT ![n][s] = gap[n][s] \/ m > have[n][s] + 1]
            /\ UNCHANGED publisher /\ pc' = pc /\ UNCHANGED counters
  <1>. DEFINE m == FirstLeft(s, next[n][s])
  <1>1. /\ pc[n] = "up" /\ m <= Len(log[s])
        /\ next' = [next EXCEPT ![n][s] = m + 1]
        /\ \/ /\ m <= seqMap[n][s]
              /\ gap' = [gap EXCEPT ![n][s] = gap[n][s] \/ m > have[n][s]]
              /\ UNCHANGED <<table, seqMap, have>>
           \/ /\ ~(m <= seqMap[n][s])
              /\ table' = [table EXCEPT ![n][log[s][m].row] = log[s][m].val]
              /\ seqMap' = [seqMap EXCEPT ![n][s] = m]
              /\ have' = [have EXCEPT ![n][s] = m]
              /\ gap' = [gap EXCEPT ![n][s] = gap[n][s] \/ m > have[n][s] + 1]
        /\ UNCHANGED publisher /\ pc' = pc /\ UNCHANGED counters
    BY Zenon DEF Listen
  <1>2. next[n][s] \in 1..(MaxWrites + 1)
    BY Zenon, TypeParts DEF ReplicaOK
  <1>3. Discarded(s) \in Nat /\ Len(log[s]) \in Nat
    BY Lengths
  <1>4. m \in 1..Len(log[s]) /\ next[n][s] <= m
    <2>1. m <= Len(log[s]) /\ MaxWrites \in Nat
      BY Zenon, <1>1, SnapshotLogAssumption
    <2>. QED BY <1>2, <1>3, <2>1 DEF FirstLeft
  <1>. HIDE DEF m
  <1>. QED BY Zenon, <1>1, <1>4

LEMMA ListenTypes ==
  ASSUME TypeOK, LengthInv, NEW n \in Replicas, NEW s \in Shard, Listen(n, s)
  PROVE  TypeOK' /\ LengthInv'
  <1>0. PublisherOK /\ SaverOK /\ ReplicaOK /\ CountersOK
    BY Zenon, TypeParts
  <1>1. PICK m \in 1..Len(log[s]) :
            /\ next' = [next EXCEPT ![n][s] = m + 1]
            /\ \/ UNCHANGED <<table, seqMap, have>>
               \/ /\ table' = [table EXCEPT ![n][log[s][m].row] = log[s][m].val]
                  /\ seqMap' = [seqMap EXCEPT ![n][s] = m]
                  /\ have' = [have EXCEPT ![n][s] = m]
            /\ \/ gap' = [gap EXCEPT ![n][s] = gap[n][s] \/ m > have[n][s]]
               \/ gap' = [gap EXCEPT ![n][s] = gap[n][s] \/ m > have[n][s] + 1]
            /\ UNCHANGED publisher /\ pc' = pc /\ UNCHANGED counters
    BY Zenon, ListenFacts
  <1>2. Len(log[s]) \in 0..MaxWrites
    BY Lengths
  <1>3. m \in 0..MaxWrites /\ m + 1 \in 1..(MaxWrites + 1)
    BY <1>2, SnapshotLogAssumption
  <1>4. log[s][m].row \in Rows /\ log[s][m].val \in 0..MaxWrites
    <2>1. log[s] \in Seq(Change)
      BY Zenon, <1>0 DEF PublisherOK
    <2>2. log[s][m] \in Change
      BY <2>1
    <2>. QED BY <2>2 DEF Change
  <1>5. next' \in [Replicas -> [Shard -> 1..(MaxWrites + 1)]]
    BY ZenonT(40), <1>0, <1>1, <1>3, Nested DEF ReplicaOK
  <1>6. table' \in [Replicas -> [Rows -> 0..MaxWrites]]
    <2>1. table \in [Replicas -> [Rows -> 0..MaxWrites]]
      BY Zenon, <1>0 DEF ReplicaOK
    <2>2. [table EXCEPT ![n][log[s][m].row] = log[s][m].val]
             \in [Replicas -> [Rows -> 0..MaxWrites]]
      BY <1>4, <2>1, Nested
    <2>. QED BY Zenon, <1>1, <2>1, <2>2
  <1>7. seqMap' \in [Replicas -> Upto] /\ have' \in [Replicas -> Upto]
    <2>1. seqMap \in [Replicas -> Upto] /\ have \in [Replicas -> Upto]
      BY Zenon, <1>0 DEF ReplicaOK
    <2>2. /\ [seqMap EXCEPT ![n][s] = m] \in [Replicas -> Upto]
          /\ [have EXCEPT ![n][s] = m] \in [Replicas -> Upto]
      BY <1>3, <2>1, Nested DEF Upto
    <2>. QED BY Zenon, <1>1, <2>1, <2>2
  <1>8. gap' \in [Replicas -> [Shard -> BOOLEAN]]
    <2>1. gap \in [Replicas -> [Shard -> BOOLEAN]]
      BY Zenon, <1>0 DEF ReplicaOK
    <2>2. /\ (gap[n][s] \/ m > have[n][s]) \in BOOLEAN
          /\ (gap[n][s] \/ m > have[n][s] + 1) \in BOOLEAN
      BY Zenon
    <2>3. /\ [gap EXCEPT ![n][s] = gap[n][s] \/ m > have[n][s]]
                \in [Replicas -> [Shard -> BOOLEAN]]
          /\ [gap EXCEPT ![n][s] = gap[n][s] \/ m > have[n][s] + 1]
                \in [Replicas -> [Shard -> BOOLEAN]]
      <3>1. \A b \in BOOLEAN : [gap EXCEPT ![n][s] = b] \in [Replicas -> [Shard -> BOOLEAN]]
        BY Zenon, <2>1, Nested
      <3>. QED BY Zenon, <2>2, <3>1
    <2>. QED BY Zenon, <1>1, <2>3
  <1>9. ReplicaOK'
    BY Zenon, <1>0, <1>1, <1>5, <1>6, <1>7, <1>8 DEF ReplicaOK
  <1>10. PublisherOK' /\ SaverOK' /\ CountersOK' /\ LengthInv'
    BY Zenon, <1>0, <1>1, Frames DEF publisher, counters
  <1>. QED BY Zenon, <1>9, <1>10, TypeParts

LEMMA InitTypes == Init => TypeOK /\ LengthInv
  <1>. SUFFICES ASSUME Init PROVE TypeOK /\ LengthInv
    OBVIOUS
  <1>1. 0 \in 0..MaxWrites /\ 0 \in 0..MaxPublished /\ 0 \in 0..MaxBoots
        /\ 0 \in 0..MaxFailures /\ 1 \in 1..(MaxWrites + 1)
    BY SnapshotLogAssumption
  <1>2. <<>> \in Seq(Change) /\ Len(<<>>) = 0
    OBVIOUS
  <1>3. PublisherOK
    BY <1>1, <1>2 DEF Init, PublisherOK
  <1>4. SaverOK
    BY <1>1, NothingFacts DEF Init, SaverOK
  <1>5. ReplicaOK
    BY <1>1 DEF Init, ReplicaOK, Upto
  <1>6. CountersOK /\ LengthInv
    BY <1>1, <1>2 DEF Init, CountersOK, LengthInv
  <1>. QED BY Zenon, <1>3, <1>4, <1>5, <1>6, TypeParts

\* The steps there are.
LEMMA Steps ==
  ASSUME Next
  PROVE  \/ \E r \in Rows : Write(r)
         \/ PublishNext
         \/ SaverStep
         \/ \E n \in Replicas : StartStep(n)
         \/ \E n \in Replicas, s \in Shard : Listen(n, s)
  BY Zenon DEF Next, SaverStep, StartStep

LEMMA NextTypes == TypeOK /\ LengthInv /\ [Next]_vars => TypeOK' /\ LengthInv'
  <1>. SUFFICES ASSUME TypeOK, LengthInv, [Next]_vars PROVE TypeOK' /\ LengthInv'
    OBVIOUS
  <1>1. CASE UNCHANGED vars
    BY Zenon, <1>1, TypeParts, Frames DEF vars, publisher, replica, counters
  <1>. QED BY Zenon, <1>1, Steps, WriteTypes, PublishTypes, SaverTypes, StartTypes, ListenTypes

LEMMA TypesInductive == Spec => [](TypeOK /\ LengthInv)
  BY InitTypes, NextTypes, PTL DEF Spec

\* Positions stay inside the streams and snapshots are copies of tables, whatever
\* the number of shards and however replicas, publisher and snapshots interleave.
THEOREM TypeCorrect == Spec => []TypeOK
  BY TypesInductive, PTL

-----------------------------------------------------------------------------
(* The distance between the streams and the snapshot *)

\* Dividing by a positive number.
LEMMA Division ==
  ASSUME NEW k \in Nat \ {0}, NEW a \in Nat
  PROVE  /\ a = k * (a \div k) + (a % k)
         /\ a \div k \in Nat /\ a % k \in 0..(k - 1)
  OBVIOUS

LEMMA Multiples ==
  ASSUME NEW k \in Nat \ {0}, NEW d \in Int
  PROVE  (d >= 2 => k * d >= 2 * k) /\ (d <= -1 => k * d <= -k)
  OBVIOUS

\* Remainders of successive numbers grow by one until they are zero.
LEMMA NextRemainder ==
  ASSUME NEW k \in Nat \ {0}, NEW a \in Nat, (a + 1) % k # 0
  PROVE  (a + 1) % k = (a % k) + 1
  <1>. DEFINE q == a \div k
              r == a % k
              p == (a + 1) \div k
              s == (a + 1) % k
              d == p - q
  <1>1. a = k * q + r /\ q \in Nat /\ r \in 0..(k - 1)
    BY Zenon, Division
  <1>2. a + 1 = k * p + s /\ p \in Nat /\ s \in 1..(k - 1)
    <2>1. a + 1 \in Nat
      OBVIOUS
    <2>2. a + 1 = k * p + s /\ p \in Nat /\ s \in 0..(k - 1)
      BY Zenon, <2>1, Division
    <2>3. s # 0
      OBVIOUS
    <2>. HIDE DEF p, s
    <2>. QED BY <2>2, <2>3
  <1>. HIDE DEF q, r, p, s
  <1>3. k * d = k * p - k * q /\ d \in Int /\ k * d \in Int
    BY <1>1, <1>2
  <1>4. k * d = 1 + r - s
    BY <1>1, <1>2, <1>3
  <1>5. d = 0 \/ d = 1
    <2>1. ~(d >= 2)
      BY <1>1, <1>2, <1>3, <1>4, Multiples
    <2>2. ~(d <= -1)
      BY <1>1, <1>2, <1>3, <1>4, Multiples
    <2>. QED BY <1>3, <2>1, <2>2
  <1>6. s = r + 1
    BY <1>1, <1>2, <1>4, <1>5
  <1>. QED BY Zenon, <1>6 DEF s, r

one == SnapshotShardID

LEMMA Sizes ==
    /\ one \in Shard
    /\ MaxEntries \in Nat \ {0} /\ MaxPublished \in Nat /\ Skew \in Nat
    /\ snapshotEntries \in Nat
  <1>1. one \in Shard
    BY SnapshotLogAssumption DEF one, SnapshotShardID, Shard
  <1>2. snapshotEntries \in Nat
    BY SnapshotLogAssumption, Division DEF snapshotEntries
  <1>. QED BY Zenon, <1>1, <1>2, SnapshotLogAssumption

\* What the failures add, and how far the snapshot shard may be.
Failed == failures * (snapshotEntries + MaxPublished)
Distance ==
    LET length == Len(log[one])
        stale  == stored.upto[one] + MaxPublished + Failed
    IN  IF saver = "idle"
        THEN length <= stale + (length % snapshotEntries)
        ELSE length <= stale + snapshotEntries + age
Recent == backup.found => Len(log[one]) <= backup.upto[one] + age
EvenLog == EvenUpto([s \in Shard |-> Len(log[s])])

LEMMA LagParts ==
    /\ LagInv <=> /\ Distance /\ Recent
                  /\ EvenLog /\ EvenUpto(backup.upto) /\ EvenUpto(stored.upto)
    /\ LagInv' <=> /\ Distance' /\ Recent'
                   /\ EvenLog' /\ EvenUpto(backup'.upto) /\ EvenUpto(stored'.upto)
  BY Zenon DEF LagInv, Distance, Recent, EvenLog, Failed, one, EvenUpto

LEMMA EvenLengths ==
    EvenLog <=> \A s, t \in Shard : Len(log[s]) <= Len(log[t]) + Skew
  BY Zenon DEF EvenLog, EvenUpto

LEMMA NextEvenLengths ==
    EvenLog' <=> \A s, t \in Shard : Len(log'[s]) <= Len(log'[t]) + Skew
  BY Zenon DEF EvenLog, EvenUpto

\* Failures in arithmetic.
LEMMA FailedFacts ==
  ASSUME NEW f \in Nat, NEW w \in Nat
  PROVE  /\ f * w \in Nat /\ 0 * w = 0
         /\ (f + 1) * w = f * w + w /\ (1 + f) * w = f * w + w
  OBVIOUS

\* The numbers the invariants are about.
LEMMA Scalars ==
  ASSUME TypeOK, LengthInv
  PROVE  /\ Len(pending) \in Nat /\ writes \in Nat /\ age \in 0..MaxPublished
         /\ failures \in Nat /\ Failed \in Nat
         /\ \A s \in Shard : /\ Len(log[s]) \in Nat /\ Discarded(s) \in Nat
                             /\ stored.upto[s] \in Nat /\ backup.upto[s] \in Nat
  <1>1. Len(pending) \in Nat /\ \A s \in Shard : Len(log[s]) \in Nat /\ Discarded(s) \in Nat
    BY Lengths
  <1>2. writes \in Nat /\ age \in 0..MaxPublished /\ failures \in Nat
    BY TypeParts, SnapshotLogAssumption DEF CountersOK, SaverOK
  <1>3. stored.upto \in Upto /\ backup.upto \in Upto
    BY TypeParts DEF SaverOK, Copy
  <1>4. \A s \in Shard : stored.upto[s] \in Nat /\ backup.upto[s] \in Nat
    BY <1>3, SnapshotLogAssumption DEF Upto
  <1>5. Failed \in Nat
    BY <1>2, Sizes, FailedFacts DEF Failed
  <1>. QED BY Zenon, <1>1, <1>2, <1>4, <1>5

\* A remainder is less than the threshold.
LEMMA Remainder ==
  ASSUME snapshotEntries # 0, NEW a \in Nat
  PROVE  /\ a % snapshotEntries \in Nat
         /\ a % snapshotEntries < snapshotEntries
         /\ (a + 1) % snapshotEntries # 0
               => (a + 1) % snapshotEntries = (a % snapshotEntries) + 1
  <1>1. snapshotEntries \in Nat \ {0}
    BY Sizes
  <1>2. a % snapshotEntries \in 0..(snapshotEntries - 1)
    BY Zenon, <1>1, Division
  <1>3. /\ a % snapshotEntries \in Nat
        /\ a % snapshotEntries < snapshotEntries
    BY <1>1, <1>2
  <1>. QED BY Zenon, <1>1, <1>3, NextRemainder

LEMMA LagPublish ==
  ASSUME TypeOK, LengthInv, LagInv, snapshotEntries # 0, PublishNext
  PROVE  LagInv'
  <1>. DEFINE s == RowShard[Head(pending).row]
              k == Len(log[one])
              k2 == Len(log'[one])
              U == stored.upto[one] + MaxPublished + Failed
              E == snapshotEntries
              B == backup.upto[one]
  <1>0. /\ s \in Shard /\ Even(s)
        /\ Len(log'[s]) = Len(log[s]) + 1
        /\ \A t \in Shard : t # s => log'[t] = log[t]
        /\ \/ saver = "idle" /\ saver' = "backup" /\ age' = 0
           \/ saver = "idle" /\ saver' = "idle" /\ age' = age
              /\ ~Threshold(s, Len(log[s]) + 1)
           \/ saver # "idle" /\ saver' = saver /\ age < MaxPublished /\ age' = age + 1
        /\ UNCHANGED <<master, failures, backup, stored>>
    BY Zenon, PublishFacts
  <1>1. /\ Distance /\ Recent /\ EvenLog
        /\ EvenUpto(backup.upto) /\ EvenUpto(stored.upto)
    BY Zenon, LagParts
  <1>2. /\ k \in Nat /\ U \in Nat /\ E \in Nat /\ age \in Nat /\ one \in Shard
        /\ B \in Nat /\ MaxPublished \in Nat
    BY SMTT(40), Scalars, Sizes
  <1>3. k2 = k \/ (s = one /\ k2 = k + 1)
    BY Zenon, <1>0, <1>2
  <1>4. /\ k % E \in Nat /\ k % E < E
        /\ (k + 1) % E # 0 => (k + 1) % E = (k % E) + 1
    BY Zenon, <1>2, Remainder
  <1>5. IF saver = "idle" THEN k <= U + (k % E) ELSE k <= U + E + age
    BY Zenon, <1>1 DEF Distance
  <1>6. Distance' <=> IF saver' = "idle" THEN k2 <= U + (k2 % E) ELSE k2 <= U + E + age'
    BY Zenon, <1>0 DEF Distance, Failed
  <1>7. Recent => (backup.found => k <= B + age)
    BY Zenon DEF Recent
  <1>8. (backup.found => k2 <= B + age') => Recent'
    BY Zenon, <1>0 DEF Recent
  <1>9. backup.found => saver # "idle"
    BY TypeParts DEF SaverOK
  <1>10. s = one /\ ~Threshold(s, Len(log[s]) + 1) => (k + 1) % E # 0
    BY Zenon DEF Threshold, one
  <1>11. EvenLog'
    <2>. SUFFICES ASSUME NEW a \in Shard, NEW b \in Shard
                  PROVE  Len(log'[a]) <= Len(log'[b]) + Skew
      BY Zenon, NextEvenLengths
    <2>1. /\ Len(log[a]) \in Nat /\ Len(log[b]) \in Nat /\ Skew \in Nat
          /\ Len(log[a]) <= Len(log[b]) + Skew
      BY <1>1, Scalars, Sizes, EvenLengths
    <2>2. Len(log'[b]) \in {Len(log[b]), Len(log[b]) + 1}
      BY Zenon, <1>0
    <2>3. CASE a = s
      <3>1. Len(log'[a]) = Len(log[a]) + 1 /\ Len(log[a]) + 1 <= Len(log[b]) + Skew
        BY Zenon, <1>0, <2>3 DEF Even
      <3>. QED BY SMTT(40), <2>1, <2>2, <3>1
    <2>4. CASE a # s
      <3>1. Len(log'[a]) = Len(log[a])
        BY Zenon, <1>0, <2>4
      <3>. QED BY <2>1, <2>2, <3>1
    <2>. QED BY Zenon, <2>3, <2>4
  <1>. HIDE DEF s, k, k2, U, E, B
  <1>12. CASE saver = "idle" /\ saver' = "backup" /\ age' = 0
    <2>1. k2 <= U + E + age'
      BY <1>2, <1>3, <1>4, <1>5, <1>12
    <2>. QED BY Zenon, <1>0, <1>1, <1>6, <1>8, <1>9, <1>11, <1>12, <2>1, LagParts
  <1>13. CASE saver = "idle" /\ saver' = "idle" /\ ~Threshold(s, Len(log[s]) + 1)
    <2>1. k2 <= U + (k2 % E)
      <3>1. CASE k2 = k
        BY Zenon, <1>5, <1>13, <3>1
      <3>2. CASE s = one /\ k2 = k + 1
        <4>1. (k + 1) % E = (k % E) + 1
          BY Zenon, <1>4, <1>10, <1>13, <3>2
        <4>2. k + 1 <= U + ((k % E) + 1)
          BY <1>2, <1>4, <1>5, <1>13
        <4>. QED BY Zenon, <3>2, <4>1, <4>2
      <3>. QED BY Zenon, <1>3, <3>1, <3>2
    <2>. QED BY Zenon, <1>0, <1>1, <1>6, <1>8, <1>9, <1>11, <1>13, <2>1, LagParts
  <1>14. CASE saver # "idle" /\ saver' = saver /\ age' = age + 1
    <2>1. k2 <= U + E + age'
      BY <1>2, <1>3, <1>5, <1>14
    <2>2. backup.found => k2 <= B + age'
      BY <1>1, <1>2, <1>3, <1>7, <1>14
    <2>. QED BY Zenon, <1>0, <1>1, <1>6, <1>8, <1>11, <1>14, <2>1, <2>2, LagParts
  <1>. QED BY Zenon, <1>0, <1>12, <1>13, <1>14

LEMMA LagSaver ==
  ASSUME TypeOK, LengthInv, LagInv, snapshotEntries # 0, SaverStep
  PROVE  LagInv'
  <1>. DEFINE k == Len(log[one])
              U == stored.upto[one] + MaxPublished
              E == snapshotEntries
              B == backup.upto[one]
  <1>0. /\ Distance /\ Recent /\ EvenLog /\ EvenLog'
        /\ EvenUpto(backup.upto) /\ EvenUpto(stored.upto)
        /\ log' = log
    <2>1. log' = log
      BY Zenon DEF SaverStep, TimerSnapshot, BackupTo, Delete, Put, SnapshotError
    <2>. QED BY Zenon, <2>1, LagParts DEF EvenLog
  <1>1. /\ k \in Nat /\ U \in Nat /\ E \in Nat /\ age \in 0..MaxPublished /\ one \in Shard
        /\ B \in Nat /\ MaxPublished \in Nat /\ Failed \in Nat /\ Skew \in Nat
        /\ failures \in Nat
    BY SMTT(40), Scalars, Sizes
  <1>2. k % E \in Nat /\ k % E < E
    BY Zenon, <1>1, Remainder
  <1>3. IF saver = "idle" THEN k <= U + Failed + (k % E) ELSE k <= U + Failed + E + age
    BY Zenon, <1>0 DEF Distance
  <1>4. backup.found => k <= B + age
    BY Zenon, <1>0 DEF Recent
  <1>5. SaverOK /\ (backup.found <=> saver \in {"upload", "put"})
    BY TypeParts DEF SaverOK
  <1>6. CASE TimerSnapshot
    <2>1. /\ saver = "idle" /\ saver' = "backup" /\ age' = 0
          /\ UNCHANGED <<log, failures, backup, stored>>
      BY Zenon, <1>6 DEF TimerSnapshot
    <2>2. ~backup.found
      BY <1>5, <2>1
    <2>3. k <= U + Failed + E + age'
      <3>. HIDE DEF k, U, E
      <3>. QED BY <1>1, <1>2, <1>3, <2>1
    <2>4. Distance' /\ Recent'
      BY ZenonT(40), <2>1, <2>2, <2>3 DEF Distance, Recent, Failed
    <2>. QED BY Zenon, <1>0, <2>1, <2>4, LagParts
  <1>7. CASE BackupTo
    <2>1. /\ saver = "backup" /\ saver' = "upload"
          /\ backup' = [found |-> TRUE, rows |-> master,
                        upto |-> [s \in Shard |-> Len(log[s])]]
          /\ UNCHANGED <<log, age, failures, stored>>
      BY Zenon, <1>7 DEF BackupTo
    <2>2. backup'.upto = [s \in Shard |-> Len(log[s])]
      BY <2>1
    <2>3. EvenUpto(backup'.upto)
      BY Zenon, <1>0, <2>2 DEF EvenLog
    <2>4. backup'.upto[one] = k
      BY Zenon, <1>1, <2>2
    <2>5. Distance'
      BY ZenonT(40), <1>3, <2>1 DEF Distance, Failed
    <2>6. k <= k + age
      BY <1>1
    <2>7. Recent'
      BY Zenon, <2>1, <2>4, <2>6 DEF Recent
    <2>. QED BY Zenon, <1>0, <2>1, <2>3, <2>5, <2>7, LagParts
  <1>8. CASE Delete
    <2>1. /\ saver = "upload" /\ saver' = "put" /\ stored'.upto = stored.upto
          /\ UNCHANGED <<log, age, failures, backup>>
      BY Zenon, <1>5, <1>8, DeleteFacts DEF Delete, SaverOK
    <2>2. Distance' /\ Recent'
      BY ZenonT(40), <1>3, <1>4, <2>1 DEF Distance, Recent, Failed
    <2>. QED BY Zenon, <1>0, <2>1, <2>2, LagParts
  <1>9. CASE Put
    <2>1. /\ saver \in {"upload", "put"} /\ saver' = "idle" /\ stored' = backup
          /\ backup' = Nothing /\ failures' = 0 /\ log' = log
      BY Zenon, <1>9 DEF Put
    <2>2. Failed' = 0
      <3>1. 0 * (snapshotEntries + MaxPublished) = 0
        BY <1>1, FailedFacts
      <3>. QED BY Zenon, <2>1, <3>1 DEF Failed
    <2>3. k <= B + MaxPublished + 0 + (k % E)
      <3>1. k <= B + age
        BY <1>4, <1>5, <2>1
      <3>. HIDE DEF k, B, E
      <3>. QED BY <1>1, <1>2, <3>1
    <2>4. Distance'
      BY ZenonT(40), <2>1, <2>2, <2>3 DEF Distance
    <2>5. Recent' /\ EvenUpto(backup'.upto)
      <3>1. EvenUpto(Nothing.upto)
        BY <1>1, NothingFacts DEF EvenUpto
      <3>. QED BY Zenon, <2>1, <3>1, NothingFacts DEF Recent
    <2>. QED BY Zenon, <1>0, <2>1, <2>4, <2>5, LagParts
  <1>10. CASE SnapshotError
    <2>1. /\ saver # "idle" /\ saver' = "idle" /\ failures' = failures + 1
          /\ backup' = Nothing /\ UNCHANGED <<log, stored>>
      BY Zenon, <1>10 DEF SnapshotError
    <2>2. Failed' = Failed + (snapshotEntries + MaxPublished)
      <3>1. (failures + 1) * (snapshotEntries + MaxPublished)
              = failures * (snapshotEntries + MaxPublished) + (snapshotEntries + MaxPublished)
        BY <1>1, FailedFacts
      <3>. QED BY Zenon, <2>1, <3>1 DEF Failed
    <2>3. k <= U + (Failed + (E + MaxPublished)) + (k % E)
      <3>. HIDE DEF k, U, E
      <3>. QED BY <1>1, <1>2, <1>3, <2>1
    <2>4. Distance'
      BY ZenonT(40), <2>1, <2>2, <2>3 DEF Distance
    <2>5. Recent' /\ EvenUpto(backup'.upto)
      <3>1. EvenUpto(Nothing.upto)
        BY <1>1, NothingFacts DEF EvenUpto
      <3>. QED BY Zenon, <2>1, <3>1, NothingFacts DEF Recent
    <2>. QED BY Zenon, <1>0, <2>1, <2>4, <2>5, LagParts
  <1>. QED BY Zenon, <1>6, <1>7, <1>8, <1>9, <1>10 DEF SaverStep

LEMMA LagStep ==
    TypeOK /\ LengthInv /\ LagInv /\ snapshotEntries # 0 /\ [Next]_vars => LagInv'
  <1>. SUFFICES ASSUME TypeOK, LengthInv, LagInv, snapshotEntries # 0, [Next]_vars
                PROVE  LagInv'
    OBVIOUS
  <1>1. ASSUME UNCHANGED <<log, saver, age, failures, backup, stored>> PROVE LagInv'
    BY Zenon, <1>1 DEF LagInv, EvenUpto
  <1>2. ASSUME NEW r \in Rows, Write(r) PROVE LagInv'
    BY Zenon, <1>1, <1>2, WriteFacts
  <1>3. ASSUME NEW n \in Replicas, StartStep(n) PROVE LagInv'
    BY Zenon, <1>1, <1>3 DEF StartStep, Boot, RestoreSnapshot, Stop, publisher
  <1>4. ASSUME NEW n \in Replicas, NEW s \in Shard, Listen(n, s) PROVE LagInv'
    BY Zenon, <1>1, <1>4 DEF Listen, publisher
  <1>5. CASE UNCHANGED vars
    BY Zenon, <1>1, <1>5 DEF vars, publisher
  <1>. QED BY Zenon, <1>2, <1>3, <1>4, <1>5, Steps, LagPublish, LagSaver

LEMMA InitLag == Init /\ snapshotEntries # 0 => LagInv
  <1>. SUFFICES ASSUME Init, snapshotEntries # 0 PROVE LagInv
    OBVIOUS
  <1>1. TypeOK /\ LengthInv
    BY Zenon, InitTypes
  <1>2. /\ log = [s \in Shard |-> <<>>] /\ saver = "idle" /\ backup = Nothing
        /\ stored = Nothing
    BY Zenon DEF Init
  <1>3. one \in Shard /\ Skew \in Nat /\ MaxPublished \in Nat /\ Failed \in Nat
    BY Zenon, <1>1, Sizes, Scalars
  <1>4. \A s \in Shard : Len(log[s]) = 0
    BY <1>2
  <1>5. EvenUpto(Nothing.upto) /\ Nothing.upto[one] = 0 /\ ~Nothing.found
    BY <1>3, NothingFacts DEF EvenUpto
  <1>6. EvenLog
    BY <1>3, <1>4, EvenLengths
  <1>7. 0 % snapshotEntries \in Nat
    BY Remainder
  <1>8. 0 <= 0 + MaxPublished + Failed + (0 % snapshotEntries)
    BY <1>3, <1>7
  <1>9. Distance
    BY Zenon, <1>2, <1>3, <1>4, <1>5, <1>8 DEF Distance
  <1>. QED BY Zenon, <1>2, <1>5, <1>6, <1>9, LagParts DEF Recent

LEMMA LagBound == TypeOK /\ LengthInv /\ (snapshotEntries # 0 => LagInv) => LagBounded
  <1>. SUFFICES ASSUME TypeOK, LengthInv, snapshotEntries # 0, LagInv, NEW s \in Shard
                PROVE  Len(log[s]) <= stored.upto[s] + Lag(s)
    BY Zenon DEF LagBounded
  <1>. DEFINE k == Len(log[one])
              U == stored.upto[one]
              E == snapshotEntries
              P == MaxPublished
  <1>1. /\ k \in Nat /\ U \in Nat /\ E \in Nat /\ age \in 0..P /\ P \in Nat
        /\ Failed \in Nat /\ Skew \in Nat /\ one \in Shard
        /\ Len(log[s]) \in Nat /\ stored.upto[s] \in Nat
    BY Scalars, Sizes
  <1>2. IF saver = "idle" THEN k <= U + P + Failed + (k % E) ELSE k <= U + P + Failed + E + age
    BY Zenon, LagParts DEF Distance
  <1>3. k % E \in Nat /\ k % E < E
    BY Zenon, <1>1, Remainder
  <1>4. Lag(s) = (Failed + (E + P)) + P + IF s = one THEN 0 ELSE 2 * Skew
    <2>1. (1 + failures) * (E + P) = Failed + (E + P)
      BY <1>1, Scalars, FailedFacts DEF Failed
    <2>. QED BY Zenon, <2>1 DEF Lag, one
  <1>5. Len(log[s]) <= k + Skew /\ U <= stored.upto[s] + Skew
    BY Zenon, <1>1, LagParts, EvenLengths DEF EvenUpto
  <1>6. k <= U + (Failed + (E + P)) + P
    <2>. HIDE DEF k, U, E, P
    <2>. QED BY <1>1, <1>2, <1>3
  <1>7. CASE s = one
    <2>1. Len(log[s]) = k /\ stored.upto[s] = U
      BY Zenon, <1>7
    <2>. HIDE DEF k, U, E, P
    <2>. QED BY <1>1, <1>4, <1>6, <1>7, <2>1
  <1>8. CASE s # one
    <2>. HIDE DEF k, U, E, P
    <2>. QED BY SMTT(40), <1>1, <1>4, <1>5, <1>6, <1>8
  <1>. QED BY Zenon, <1>7, <1>8

\* However publishing, snapshots and their failures interleave, no stream gets
\* ahead of the snapshot stored last by more than a threshold, what is published
\* during two snapshots, what failed snapshots add, and the skew of the hashes.
THEOREM LagIsBounded == Spec => []LagBounded
  <1>1. Init => TypeOK /\ LengthInv /\ (snapshotEntries # 0 => LagInv)
    BY Zenon, InitTypes, InitLag
  <1>2. TypeOK /\ LengthInv /\ (snapshotEntries # 0 => LagInv) /\ [Next]_vars
           => (TypeOK /\ LengthInv /\ (snapshotEntries # 0 => LagInv))'
    BY Zenon, NextTypes, LagStep
  <1>. QED BY <1>1, <1>2, LagBound, PTL DEF Spec

\* When the streams are long enough for a threshold, what two snapshots let
\* through and the skew, every message that DiscardOld removed is in the snapshot
\* stored last, unless the snapshots taken since then failed.
THEOREM LogIsCovered == Spec => [](Headroom /\ failures = 0 => Covered)
  <1>1. TypeOK /\ LengthInv /\ LagBounded => (Headroom /\ failures = 0 => Covered)
    <2>. SUFFICES ASSUME TypeOK, LengthInv, LagBounded, Headroom, failures = 0,
                         NEW s \in Shard
                  PROVE  Discarded(s) <= stored.upto[s]
      BY Zenon DEF Covered
    <2>1. /\ Len(log[s]) \in Nat /\ stored.upto[s] \in Nat /\ snapshotEntries \in Nat
          /\ MaxPublished \in Nat /\ MaxEntries \in Nat /\ Skew \in Nat
      BY Scalars, Sizes
    <2>2. Len(log[s]) <= stored.upto[s] + Lag(s)
      BY Zenon DEF LagBounded, Headroom
    <2>3. (1 + 0) * (snapshotEntries + MaxPublished) = snapshotEntries + MaxPublished
      BY <2>1
    <2>4. Lag(s) = snapshotEntries + MaxPublished + MaxPublished
                      + IF s = SnapshotShardID THEN 0 ELSE 2 * Skew
      BY Zenon, <2>3 DEF Lag
    <2>5. s = SnapshotShardID \/ shards > 1
      BY SnapshotLogAssumption DEF Shard, SnapshotShardID
    <2>6. Lag(s) \in Nat /\ Lag(s) <= MaxEntries
      BY <2>1, <2>4, <2>5 DEF Headroom
    <2>. QED BY SMTT(40), <2>1, <2>2, <2>6 DEF Discarded
  <1>. QED BY <1>1, TypesInductive, LagIsBounded, PTL

-----------------------------------------------------------------------------
(* Recovery *)

\* ChangeInv and FreshInv, part by part.
LastOfLog(s, i) ==
    LET e == log[s][i]
    IN  /\ RowShard[e.row] = s
        /\ e.val <= writes
        /\ \A r \in Rows : e.val = master[r] => e.row = r
        /\ e.val = master[e.row] \/ Later(s, i, master[e.row])
LastOfPending(i) ==
    LET e == pending[i]
    IN  /\ e.val <= writes
        /\ \A r \in Rows : e.val = master[r] => e.row = r
        /\ \/ e.val = master[e.row]
           \/ \E j \in 1..Len(pending) : j > i /\ pending[j].val = master[e.row]
FreshCopies(s) ==
    /\ backup.found => Fresh(s, backup.rows, backup.upto[s])
    /\ stored.found => Fresh(s, stored.rows, stored.upto[s])
FreshTable(n, s) ==
    ~gap[n][s] => Fresh(s, table[n], have[n][s]) /\ next[n][s] <= have[n][s] + 1

LEMMA ChangeParts ==
    ChangeInv <=> /\ \A s \in Shard : \A i \in 1..Len(log[s]) : LastOfLog(s, i)
                  /\ \A i \in 1..Len(pending) : LastOfPending(i)
                  /\ \A r \in Rows : master[r] <= writes
  BY Zenon DEF ChangeInv, LastOfLog, LastOfPending

LEMMA FreshParts ==
    FreshInv <=> \A s \in Shard : /\ FreshCopies(s)
                                  /\ \A n \in Replicas : FreshTable(n, s)
  BY Zenon DEF FreshInv, FreshCopies, FreshTable

\* The same of the state after a step.
NextLater(s, u, v) ==
    \/ \E i \in 1..Len(log'[s]) : i > u /\ log'[s][i].val = v
    \/ \E i \in 1..Len(pending') : pending'[i].val = v
NextFresh(s, rows, u) ==
    \A r \in Rows :
        RowShard[r] = s => rows[r] = master'[r] \/ NextLater(s, u, master'[r])

LEMMA NextChangeParts ==
  ASSUME \A s \in Shard : \A i \in 1..Len(log'[s]) :
            LET e == log'[s][i]
            IN  /\ RowShard[e.row] = s
                /\ e.val <= writes'
                /\ \A r \in Rows : e.val = master'[r] => e.row = r
                /\ e.val = master'[e.row] \/ NextLater(s, i, master'[e.row]),
         \A i \in 1..Len(pending') :
            LET e == pending'[i]
            IN  /\ e.val <= writes'
                /\ \A r \in Rows : e.val = master'[r] => e.row = r
                /\ \/ e.val = master'[e.row]
                   \/ \E j \in 1..Len(pending') :
                         j > i /\ pending'[j].val = master'[e.row],
         \A r \in Rows : master'[r] <= writes'
  PROVE  ChangeInv'
  BY Zenon DEF ChangeInv, Later, NextLater

LEMMA NextFreshParts ==
  ASSUME \A s \in Shard :
            /\ backup'.found => NextFresh(s, backup'.rows, backup'.upto[s])
            /\ stored'.found => NextFresh(s, stored'.rows, stored'.upto[s])
            /\ \A n \in Replicas :
                  ~gap'[n][s] => /\ NextFresh(s, table'[n], have'[n][s])
                                 /\ next'[n][s] <= have'[n][s] + 1
  PROVE  FreshInv'
  BY Zenon DEF FreshInv, Fresh, Later, NextFresh, NextLater

\* The changes in the queues are changes.
LEMMA ChangeTypes ==
  ASSUME TypeOK
  PROVE  /\ \A s \in Shard : \A i \in 1..Len(log[s]) :
               log[s][i] \in Change /\ log[s][i].row \in Rows /\ log[s][i].val \in Nat
         /\ \A i \in 1..Len(pending) :
               pending[i] \in Change /\ pending[i].row \in Rows /\ pending[i].val \in Nat
         /\ \A r \in Rows : master[r] \in Nat
  <1>1. /\ pending \in Seq(Change) /\ \A s \in Shard : log[s] \in Seq(Change)
        /\ \A r \in Rows : master[r] \in 0..MaxWrites
    BY Zenon, TypeParts DEF PublisherOK
  <1>2. \A e \in Change : e.row \in Rows /\ e.val \in Nat
    BY SnapshotLogAssumption DEF Change
  <1>3. \A i \in 1..Len(pending) : pending[i] \in Change
    BY <1>1
  <1>4. ASSUME NEW s \in Shard, NEW i \in 1..Len(log[s]) PROVE log[s][i] \in Change
    <2>1. log[s] \in Seq(Change)
      BY Zenon, <1>1
    <2>. QED BY <2>1
  <1>5. \A r \in Rows : master[r] \in Nat
    BY <1>1, SnapshotLogAssumption
  <1>. QED BY Zenon, <1>2, <1>3, <1>4, <1>5

\* Steps that change neither the publisher's table nor its queue nor the streams.
LEMMA QuietSteps ==
  ASSUME SaverStep \/ (\E n \in Replicas : StartStep(n))
         \/ (\E n \in Replicas, s \in Shard : Listen(n, s)) \/ UNCHANGED vars
  PROVE  UNCHANGED <<master, pending, log, writes>>
  BY ZenonT(40) DEF SaverStep, TimerSnapshot, BackupTo, Delete, Put, SnapshotError,
               StartStep, Boot, RestoreSnapshot, Stop, Listen, publisher, counters, vars

\* Once a row's last change is after a position it stays there, wherever Publish
\* moves it, and a row only changes by a change that is still to come.
LEMMA LaterStep ==
  ASSUME TypeOK, LengthInv, ChangeInv, [Next]_vars,
         NEW s \in Shard, NEW u \in Nat, u <= Len(log[s]),
         NEW r \in Rows, RowShard[r] = s
  PROVE  /\ master'[r] = master[r] \/ NextLater(s, u, master'[r])
         /\ Later(s, u, master[r]) => NextLater(s, u, master'[r])
  <1>1. ASSUME UNCHANGED <<master, pending, log, writes>>
        PROVE  /\ master'[r] = master[r]
               /\ Later(s, u, master[r]) => NextLater(s, u, master'[r])
    BY Zenon, <1>1 DEF Later, NextLater
  <1>2. ASSUME NEW q \in Rows, Write(q)
        PROVE  /\ master'[r] = master[r] \/ NextLater(s, u, master'[r])
               /\ Later(s, u, master[r]) => NextLater(s, u, master'[r])
    <2>. DEFINE e == [row |-> q, val |-> writes + 1]
    <2>1. /\ e.val = writes + 1 /\ master'[q] = writes + 1
          /\ \A p \in Rows : p # q => master'[p] = master[p]
          /\ Len(pending) \in Nat /\ Len(pending') = Len(pending) + 1
          /\ \A i \in 1..Len(pending) : pending'[i] = pending[i]
          /\ pending'[Len(pending) + 1] = e
          /\ log' = log
      BY Zenon, <1>2, WriteFacts
    <2>. HIDE DEF e
    <2>2. Len(pending) + 1 \in 1..Len(pending') /\ 1..Len(pending) \subseteq 1..Len(pending')
      BY <2>1
    <2>3. CASE r = q
      <3>1. pending'[Len(pending) + 1].val = master'[r]
        BY Zenon, <2>1, <2>3
      <3>. QED BY Zenon, <2>2, <3>1 DEF NextLater
    <2>4. CASE r # q
      <3>1. master'[r] = master[r]
        BY Zenon, <2>1, <2>4
      <3>2. \A i \in 1..Len(pending) : i \in 1..Len(pending') /\ pending'[i] = pending[i]
        BY Zenon, <2>1, <2>2
      <3>. QED BY Zenon, <2>1, <3>1, <3>2 DEF Later, NextLater
    <2>. QED BY Zenon, <2>3, <2>4
  <1>3. ASSUME PublishNext
        PROVE  /\ master'[r] = master[r]
               /\ Later(s, u, master[r]) => NextLater(s, u, master'[r])
    <2>. DEFINE e == Head(pending)
                z == RowShard[e.row]
    <2>1. /\ e \in Change /\ z \in Shard /\ e = pending[1] /\ master' = master
          /\ Len(log'[z]) = Len(log[z]) + 1 /\ Len(log[z]) \in Nat
          /\ \A i \in 1..Len(log[z]) : log'[z][i] = log[z][i]
          /\ log'[z][Len(log[z]) + 1] = e
          /\ \A t \in Shard : t # z => log'[t] = log[t]
          /\ Len(pending) \in Nat /\ Len(pending') = Len(pending) - 1 /\ Len(pending) # 0
          /\ \A i \in 1..Len(pending') : pending'[i] = pending[i + 1]
      BY Zenon, <1>3, PublishFacts
    <2>. HIDE DEF z, e
    <2>2. ASSUME NEW i \in 1..Len(log[s]), i > u, log[s][i].val = master[r]
          PROVE  NextLater(s, u, master[r])
      <3>1. log'[s][i] = log[s][i] /\ i \in 1..Len(log'[s])
        <4>1. CASE s = z
          <5>1. i \in 1..Len(log'[z])
            BY <2>1, <4>1
          <5>. QED BY Zenon, <2>1, <4>1, <5>1
        <4>2. CASE s # z
          BY Zenon, <2>1, <4>2
        <4>. QED BY Zenon, <4>1, <4>2
      <3>. QED BY Zenon, <2>2, <3>1 DEF NextLater
    <2>3. ASSUME NEW i \in 1..Len(pending), pending[i].val = master[r]
          PROVE  NextLater(s, u, master[r])
      <3>1. CASE i = 1
        <4>1. e.row = r
          <5>1. LastOfPending(1)
            BY Zenon, <2>3, <3>1, ChangeParts
          <5>2. pending[1].val = master[r]
            BY Zenon, <2>3, <3>1
          <5>3. pending[1].row = r
            BY Zenon, <5>1, <5>2 DEF LastOfPending
          <5>. QED BY Zenon, <2>1, <5>3
        <4>2. z = s
          BY Zenon, <4>1 DEF z
        <4>3. Len(log[s]) + 1 \in 1..Len(log'[s]) /\ Len(log[s]) + 1 > u
          BY SMTT(40), <2>1, <4>2
        <4>4. log'[s][Len(log[s]) + 1].val = master[r]
          BY Zenon, <2>1, <2>3, <3>1, <4>2
        <4>. QED BY Zenon, <4>3, <4>4 DEF NextLater
      <3>2. CASE i # 1
        <4>1. i - 1 \in 1..Len(pending') /\ (i - 1) + 1 = i
          BY <2>1, <3>2
        <4>2. pending'[i - 1].val = master[r]
          BY Zenon, <2>1, <2>3, <4>1
        <4>. QED BY Zenon, <4>1, <4>2 DEF NextLater
      <3>. QED BY Zenon, <3>1, <3>2
    <2>. QED BY Zenon, <2>1, <2>2, <2>3 DEF Later
  <1>. QED BY Zenon, <1>1, <1>2, <1>3, Steps, QuietSteps

LEMMA FreshKept ==
  ASSUME TypeOK, LengthInv, ChangeInv, [Next]_vars,
         NEW s \in Shard, NEW rows, NEW u \in Nat, u <= Len(log[s]), Fresh(s, rows, u)
  PROVE  NextFresh(s, rows, u)
  <1>. SUFFICES ASSUME NEW r \in Rows, RowShard[r] = s
                PROVE  rows[r] = master'[r] \/ NextLater(s, u, master'[r])
    BY Zenon DEF NextFresh
  <1>1. rows[r] = master[r] \/ Later(s, u, master[r])
    BY Zenon DEF Fresh
  <1>. QED BY Zenon, <1>1, LaterStep

\* A stream that has a message keeps it.
LEMMA LogGrows ==
  ASSUME TypeOK, LengthInv, [Next]_vars, NEW s \in Shard
  PROVE  /\ Len(log[s]) \in Nat /\ Len(log'[s]) \in Nat /\ Len(log[s]) <= Len(log'[s])
         /\ \A i \in 1..Len(log[s]) : log'[s][i] = log[s][i] /\ i \in 1..Len(log'[s])
  <1>0. Len(log[s]) \in Nat
    BY Zenon, Scalars
  <1>1. CASE log' = log
    BY <1>0, <1>1
  <1>2. CASE PublishNext
    <2>. DEFINE z == RowShard[Head(pending).row]
    <2>1. /\ z \in Shard
          /\ Len(log'[z]) = Len(log[z]) + 1 /\ Len(log[z]) \in Nat
          /\ \A i \in 1..Len(log[z]) : log'[z][i] = log[z][i]
          /\ \A t \in Shard : t # z => log'[t] = log[t]
      BY Zenon, <1>2, PublishFacts
    <2>. HIDE DEF z
    <2>2. CASE s = z
      BY <1>0, <2>1, <2>2
    <2>3. CASE s # z
      <3>1. log'[s] = log[s]
        BY Zenon, <2>1, <2>3
      <3>. QED BY <1>0, <3>1
    <2>. QED BY Zenon, <2>2, <2>3
  <1>. QED BY Zenon, <1>1, <1>2, Steps, QuietSteps, WriteFacts

LEMMA ChangeStep ==
  ASSUME TypeOK, LengthInv, ChangeInv, [Next]_vars
  PROVE  ChangeInv'
  <1>0. /\ \A s \in Shard : \A i \in 1..Len(log[s]) : LastOfLog(s, i)
        /\ \A i \in 1..Len(pending) : LastOfPending(i)
        /\ \A r \in Rows : master[r] <= writes
    BY Zenon, ChangeParts
  <1>1. ASSUME NEW s \in Shard, NEW i \in 1..Len(log[s])
        PROVE  \/ log[s][i].val = master'[log[s][i].row]
               \/ NextLater(s, i, master'[log[s][i].row])
    <2>1. log[s][i].row \in Rows /\ RowShard[log[s][i].row] = s
      BY Zenon, <1>0, ChangeTypes DEF LastOfLog
    <2>2. i \in Nat /\ i <= Len(log[s])
      BY Scalars
    <2>3. \/ log[s][i].val = master[log[s][i].row]
          \/ Later(s, i, master[log[s][i].row])
      BY Zenon, <1>0 DEF LastOfLog
    <2>. QED BY Zenon, <2>1, <2>2, <2>3, LaterStep
  <1>2. CASE UNCHANGED <<master, pending, log, writes>>
    <2>1. \A i \in 1..Len(pending) :
             LET c == pending[i]
             IN  /\ c.val <= writes
                 /\ \A p \in Rows : c.val = master[p] => c.row = p
                 /\ \/ c.val = master[c.row]
                    \/ \E j \in 1..Len(pending) :
                          j > i /\ pending[j].val = master[c.row]
      BY Zenon, <1>0 DEF LastOfPending
    <2>2. master' = master /\ pending' = pending /\ log' = log /\ writes' = writes
      BY Zenon, <1>2
    <2>3. ASSUME NEW s \in Shard, NEW i \in 1..Len(log'[s])
          PROVE  LET c == log'[s][i]
                 IN  /\ RowShard[c.row] = s
                     /\ c.val <= writes'
                     /\ \A p \in Rows : c.val = master'[p] => c.row = p
                     /\ c.val = master'[c.row] \/ NextLater(s, i, master'[c.row])
      <3>. DEFINE c == log[s][i]
      <3>1. log'[s][i] = c /\ i \in 1..Len(log[s])
        BY Zenon, <2>2
      <3>2. LastOfLog(s, i)
        BY Zenon, <1>0, <3>1
      <3>3. /\ RowShard[c.row] = s /\ c.val <= writes
            /\ \A p \in Rows : c.val = master[p] => c.row = p
        BY Zenon, <3>2 DEF LastOfLog
      <3>4. c.val = master'[c.row] \/ NextLater(s, i, master'[c.row])
        BY Zenon, <1>1, <3>1
      <3>. HIDE DEF c
      <3>. QED BY Zenon, <2>2, <3>1, <3>3, <3>4
    <2>4. \A i \in 1..Len(pending') :
             LET c == pending'[i]
             IN  /\ c.val <= writes'
                 /\ \A p \in Rows : c.val = master'[p] => c.row = p
                 /\ \/ c.val = master'[c.row]
                    \/ \E j \in 1..Len(pending') :
                          j > i /\ pending'[j].val = master'[c.row]
      BY Zenon, <2>1, <2>2
    <2>5. \A p \in Rows : master'[p] <= writes'
      BY Zenon, <1>0, <2>2
    <2>. QED BY Zenon, <2>3, <2>4, <2>5, NextChangeParts
  <1>3. ASSUME NEW r \in Rows, Write(r) PROVE ChangeInv'
    <2>. DEFINE e == [row |-> r, val |-> writes + 1]
                k == Len(pending)
    <2>1. /\ e.row = r /\ e.val = writes + 1 /\ master'[r] = writes + 1
          /\ \A p \in Rows : p # r => master'[p] = master[p]
          /\ k \in Nat /\ Len(pending') = k + 1
          /\ \A i \in 1..k : pending'[i] = pending[i]
          /\ pending'[k + 1] = e /\ writes \in Nat /\ writes' = writes + 1
          /\ log' = log
      BY Zenon, <1>3, WriteFacts
    <2>. HIDE DEF e
    <2>2. \A p \in Rows : master'[p] <= writes'
      BY SMTT(40), <1>0, <2>1, ChangeTypes
    <2>3. ASSUME NEW v \in Nat, v <= writes, NEW q \in Rows, NEW p \in Rows,
                 v = master[p] => q = p, v = master'[p]
          PROVE  q = p
      <3>1. p # r
        BY <2>1, <2>3
      <3>. QED BY Zenon, <2>1, <2>3, <3>1
    <2>4. \A v \in Nat : v <= writes => v <= writes'
      BY <2>1
    <2>5. ASSUME NEW s \in Shard, NEW i \in 1..Len(log'[s])
          PROVE  LET c == log'[s][i]
                 IN  /\ RowShard[c.row] = s
                     /\ c.val <= writes'
                     /\ \A p \in Rows : c.val = master'[p] => c.row = p
                     /\ c.val = master'[c.row] \/ NextLater(s, i, master'[c.row])
      <3>. DEFINE c == log[s][i]
      <3>1. log'[s][i] = c /\ i \in 1..Len(log[s])
        BY Zenon, <2>1
      <3>2. /\ c.row \in Rows /\ c.val \in Nat /\ RowShard[c.row] = s /\ c.val <= writes
            /\ \A p \in Rows : c.val = master[p] => c.row = p
        <4>1. LastOfLog(s, i) /\ c.row \in Rows /\ c.val \in Nat
          BY Zenon, <1>0, <3>1, ChangeTypes
        <4>. QED BY Zenon, <4>1 DEF LastOfLog
      <3>3. c.val = master'[c.row] \/ NextLater(s, i, master'[c.row])
        BY Zenon, <1>1, <3>1
      <3>. HIDE DEF c
      <3>4. \A p \in Rows : c.val = master'[p] => c.row = p
        BY Zenon, <2>3, <3>2
      <3>. QED BY Zenon, <2>4, <3>1, <3>2, <3>3, <3>4
    <2>6. ASSUME NEW i \in 1..Len(pending')
          PROVE  LET c == pending'[i]
                 IN  /\ c.val <= writes'
                     /\ \A p \in Rows : c.val = master'[p] => c.row = p
                     /\ \/ c.val = master'[c.row]
                        \/ \E j \in 1..Len(pending') :
                              j > i /\ pending'[j].val = master'[c.row]
      <3>1. CASE i = k + 1
        <4>1. \A p \in Rows : e.val = master'[p] => e.row = p
          <5>. SUFFICES ASSUME NEW p \in Rows, p # r, writes + 1 = master[p] PROVE FALSE
            BY Zenon, <2>1
          <5>. QED BY <1>0, <2>1, ChangeTypes
        <4>2. e.val <= writes'
          BY <2>1
        <4>. QED BY Zenon, <2>1, <3>1, <4>1, <4>2
      <3>2. CASE i # k + 1
        <4>. DEFINE c == pending[i]
        <4>1. i \in 1..k /\ k + 1 > i /\ k + 1 \in 1..Len(pending')
          BY <2>1, <3>2
        <4>2. /\ pending'[i] = c /\ c.row \in Rows /\ c.val \in Nat /\ c.val <= writes
              /\ \A p \in Rows : c.val = master[p] => c.row = p
              /\ \/ c.val = master[c.row]
                 \/ \E j \in 1..k : j > i /\ pending[j].val = master[c.row]
          BY Zenon, <1>0, <2>1, <4>1, ChangeTypes DEF LastOfPending
        <4>. HIDE DEF c
        <4>3. \A p \in Rows : c.val = master'[p] => c.row = p
          BY ZenonT(40), <2>3, <4>2
        <4>4. \/ c.val = master'[c.row]
              \/ \E j \in 1..Len(pending') : j > i /\ pending'[j].val = master'[c.row]
          <5>1. CASE c.row = r
            <6>1. pending'[k + 1].val = master'[c.row]
              BY Zenon, <2>1, <5>1
            <6>. QED BY Zenon, <4>1, <6>1
          <5>2. CASE c.row # r
            <6>1. master'[c.row] = master[c.row]
              BY Zenon, <2>1, <4>2, <5>2
            <6>2. \A j \in 1..k : j \in 1..Len(pending') /\ pending'[j] = pending[j]
              <7>1. 1..k \subseteq 1..Len(pending')
                BY <2>1
              <7>. QED BY Zenon, <2>1, <7>1
            <6>. QED BY Zenon, <4>2, <6>1, <6>2
          <5>. QED BY Zenon, <5>1, <5>2
        <4>. QED BY Zenon, <2>4, <4>2, <4>3, <4>4
      <3>. QED BY Zenon, <3>1, <3>2
    <2>. QED BY Zenon, <2>2, <2>5, <2>6, NextChangeParts
  <1>4. CASE PublishNext
    <2>. DEFINE e == Head(pending)
                z == RowShard[e.row]
                k == Len(pending)
    <2>1. /\ e \in Change /\ z \in Shard /\ e = pending[1] /\ master' = master
          /\ Len(log'[z]) = Len(log[z]) + 1 /\ Len(log[z]) \in Nat
          /\ \A i \in 1..Len(log[z]) : log'[z][i] = log[z][i]
          /\ log'[z][Len(log[z]) + 1] = e
          /\ \A t \in Shard : t # z => log'[t] = log[t]
          /\ k \in Nat /\ Len(pending') = k - 1 /\ k # 0
          /\ \A i \in 1..Len(pending') : pending'[i] = pending[i + 1]
          /\ writes' = writes
      BY Zenon, <1>4, PublishFacts DEF counters
    <2>2. RowShard[e.row] = z
      OBVIOUS
    <2>. HIDE DEF z, e
    <2>3. LastOfPending(1) /\ 1 \in 1..k
      BY <1>0, <2>1
    <2>4. \A j \in 1..k : j > 1 => j - 1 \in 1..Len(pending') /\ pending'[j - 1] = pending[j]
      <3>. SUFFICES ASSUME NEW j \in 1..k, j > 1
                    PROVE  j - 1 \in 1..Len(pending') /\ pending'[j - 1] = pending[j]
        OBVIOUS
      <3>1. j - 1 \in 1..Len(pending') /\ (j - 1) + 1 = j
        BY <2>1
      <3>. QED BY Zenon, <2>1, <3>1
    <2>5. ASSUME NEW s \in Shard, NEW i \in 1..Len(log'[s])
          PROVE  LET c == log'[s][i]
                 IN  /\ RowShard[c.row] = s
                     /\ c.val <= writes'
                     /\ \A p \in Rows : c.val = master'[p] => c.row = p
                     /\ c.val = master'[c.row] \/ NextLater(s, i, master'[c.row])
      <3>1. CASE i \in 1..Len(log[s])
        <4>1. log'[s][i] = log[s][i]
          BY Zenon, <2>1, <3>1
        <4>2. /\ RowShard[log[s][i].row] = s /\ log[s][i].val <= writes
              /\ \A p \in Rows : log[s][i].val = master[p] => log[s][i].row = p
          <5>1. LastOfLog(s, i)
            BY Zenon, <1>0, <3>1
          <5>. QED BY Zenon, <5>1 DEF LastOfLog
        <4>. QED BY Zenon, <1>1, <2>1, <3>1, <4>1, <4>2
      <3>2. CASE i \notin 1..Len(log[s])
        <4>1. s = z
          BY Zenon, <2>1, <3>2
        <4>2. i = Len(log[z]) + 1
          BY SMTT(40), <2>1, <3>2, <4>1
        <4>3. log'[s][i] = e
          BY Zenon, <2>1, <4>1, <4>2
        <4>4. /\ e.val <= writes
              /\ \A p \in Rows : e.val = master[p] => e.row = p
              /\ \/ e.val = master[e.row]
                 \/ \E j \in 1..k : j > 1 /\ pending[j].val = master[e.row]
          BY Zenon, <2>1, <2>3 DEF LastOfPending
        <4>5. e.val = master[e.row] \/ NextLater(s, i, master[e.row])
          BY ZenonT(40), <2>4, <4>4 DEF NextLater
        <4>. QED BY ZenonT(40), <2>1, <2>2, <4>1, <4>3, <4>4, <4>5
      <3>. QED BY Zenon, <3>1, <3>2
    <2>6. ASSUME NEW i \in 1..Len(pending')
          PROVE  LET c == pending'[i]
                 IN  /\ c.val <= writes'
                     /\ \A p \in Rows : c.val = master'[p] => c.row = p
                     /\ \/ c.val = master'[c.row]
                        \/ \E j \in 1..Len(pending') :
                              j > i /\ pending'[j].val = master'[c.row]
      <3>. DEFINE c == pending[i + 1]
      <3>1. i + 1 \in 1..k /\ i >= 1
        BY <2>1
      <3>2. /\ pending'[i] = c /\ c.val <= writes
            /\ \A p \in Rows : c.val = master[p] => c.row = p
            /\ \/ c.val = master[c.row]
               \/ \E j \in 1..k : j > i + 1 /\ pending[j].val = master[c.row]
        BY Zenon, <1>0, <2>1, <3>1 DEF LastOfPending
      <3>. HIDE DEF c
      <3>3. \A j \in 1..k : j > i + 1 => j > 1 /\ j - 1 > i
        BY <2>1, <3>1
      <3>4. \/ c.val = master[c.row]
            \/ \E j \in 1..Len(pending') : j > i /\ pending'[j].val = master[c.row]
        BY Zenon, <2>4, <3>2, <3>3
      <3>. QED BY Zenon, <2>1, <3>2, <3>4
    <2>7. \A p \in Rows : master'[p] <= writes'
      BY Zenon, <1>0, <2>1
    <2>. QED BY Zenon, <2>5, <2>6, <2>7, NextChangeParts
  <1>. QED BY Zenon, <1>2, <1>3, <1>4, Steps, QuietSteps

\* Positions.
LEMMA PositionTypes ==
  ASSUME TypeOK
  PROVE  \A n \in Replicas, s \in Shard :
            have[n][s] \in Nat /\ next[n][s] \in Nat \ {0} /\ gap[n][s] \in BOOLEAN
  <1>1. \A n \in Replicas, s \in Shard :
            /\ have[n][s] \in 0..MaxWrites /\ next[n][s] \in 1..(MaxWrites + 1)
            /\ gap[n][s] \in BOOLEAN
    BY ZenonT(40), TypeParts DEF ReplicaOK, Upto
  <1>2. 0..MaxWrites \subseteq Nat /\ 1..(MaxWrites + 1) \subseteq Nat \ {0}
    BY SnapshotLogAssumption
  <1>. QED BY Zenon, <1>1, <1>2

LEMMA PositionStep ==
  ASSUME TypeOK, LengthInv, PositionInv, [Next]_vars
  PROVE  PositionInv'
  <1>0. ASSUME NEW s \in Shard, NEW u \in Nat, u <= Len(log[s]) PROVE u <= Len(log'[s])
    <2>1. Len(log[s]) \in Nat /\ Len(log'[s]) \in Nat /\ Len(log[s]) <= Len(log'[s])
      BY Zenon, LogGrows
    <2>. QED BY <1>0, <2>1
  <1>1. \A s \in Shard : stored.upto[s] \in Nat /\ backup.upto[s] \in Nat
    BY Zenon, Scalars
  <1>2. \A s \in Shard : backup'.upto[s] <= Len(log'[s]) /\ stored'.upto[s] <= Len(log'[s])
    <2>. SUFFICES ASSUME NEW s \in Shard
                  PROVE  backup'.upto[s] <= Len(log'[s]) /\ stored'.upto[s] <= Len(log'[s])
      OBVIOUS
    <2>1. backup.upto[s] <= Len(log'[s]) /\ stored.upto[s] <= Len(log'[s])
      BY Zenon, <1>0, <1>1 DEF PositionInv
    <2>2. CASE UNCHANGED <<backup, stored>>
      BY ZenonT(40), <2>1, <2>2
    <2>3. CASE BackupTo
      <3>1. backup' = [found |-> TRUE, rows |-> master, upto |-> [t \in Shard |-> Len(log[t])]]
            /\ stored' = stored /\ log' = log
        BY Zenon, <2>3 DEF BackupTo
      <3>2. backup'.upto[s] = Len(log[s]) /\ Len(log[s]) \in Nat
        BY <3>1, Scalars
      <3>. QED BY <2>1, <3>1, <3>2
    <2>4. CASE Delete
      <3>1. stored'.upto = stored.upto /\ backup' = backup
        BY Zenon, <2>4, TypeParts, DeleteFacts DEF SaverOK, Delete
      <3>. QED BY Zenon, <2>1, <3>1
    <2>5. CASE Put \/ SnapshotError
      <3>1. backup' = Nothing /\ stored' \in {backup, stored}
        BY Zenon, <2>5 DEF Put, SnapshotError
      <3>2. 0 <= Len(log'[s])
        BY LogGrows
      <3>. QED BY Zenon, <2>1, <3>1, <3>2, NothingFacts
    <2>6. [Next]_vars /\ ~SaverStep => UNCHANGED <<backup, stored>>
      BY ZenonT(40), Steps, WriteFacts, PublishFacts
         DEF StartStep, Boot, RestoreSnapshot, Stop, Listen, publisher, vars
    <2>. QED BY Zenon, <2>2, <2>3, <2>4, <2>5, <2>6 DEF SaverStep, TimerSnapshot
  <1>3. ASSUME UNCHANGED <<pc, next, have>> PROVE PositionInv'
    <2>1. \A s \in Shard, n \in Replicas :
             have[n][s] <= Len(log'[s]) /\ (pc[n] # "up" => next[n][s] = 1)
      BY Zenon, <1>0, PositionTypes DEF PositionInv
    <2>. QED BY Zenon, <1>2, <1>3, <2>1 DEF PositionInv
  <1>4. ASSUME NEW n \in Replicas, StartStep(n) PROVE PositionInv'
    <2>0. ReplicaOK /\ log' = log
      BY Zenon, <1>4, TypeParts DEF StartStep, Boot, RestoreSnapshot, Stop, publisher
    <2>. SUFFICES ASSUME NEW s \in Shard, NEW p \in Replicas
                  PROVE  have'[p][s] <= Len(log[s]) /\ (pc'[p] # "up" => next'[p][s] = 1)
      BY Zenon, <1>2, <2>0 DEF PositionInv
    <2>1. /\ have[p][s] <= Len(log[s]) /\ (pc[p] # "up" => next[p][s] = 1)
          /\ stored.upto[s] <= Len(log[s])
      BY Zenon DEF PositionInv
    <2>2. have'[p][s] <= Len(log[s])
      <3>1. have' = have \/ have' = [have EXCEPT ![n] = stored.upto]
        BY Zenon, <1>4 DEF StartStep, Boot, RestoreSnapshot, Stop
      <3>. QED BY Zenon, <2>0, <2>1, <3>1 DEF ReplicaOK
    <2>3. pc'[p] # "up" => next'[p][s] = 1
      <3>1. CASE Boot(n) \/ RestoreSnapshot(n)
        <4>1. /\ next' = next /\ pc[n] # "up"
              /\ \E x : pc' = [pc EXCEPT ![n] = x]
          BY <3>1 DEF Boot, RestoreSnapshot
        <4>2. pc'[p] = pc[p] \/ p = n
          BY Zenon, <2>0, <4>1 DEF ReplicaOK
        <4>. QED BY Zenon, <2>1, <4>1, <4>2
      <3>2. CASE Stop(n)
        <4>1. /\ next' = [next EXCEPT ![n] = [t \in Shard |-> 1]]
              /\ pc' = [pc EXCEPT ![n] = "down"]
          BY Zenon, <3>2 DEF Stop
        <4>2. p # n => pc'[p] = pc[p] /\ next'[p] = next[p]
          BY Zenon, <2>0, <4>1 DEF ReplicaOK
        <4>3. next'[n][s] = 1
          BY <2>0, <4>1 DEF ReplicaOK
        <4>. QED BY Zenon, <2>1, <4>2, <4>3
      <3>. QED BY Zenon, <1>4, <3>1, <3>2 DEF StartStep
    <2>. QED BY Zenon, <2>2, <2>3
  <1>5. ASSUME NEW n \in Replicas, NEW s \in Shard, Listen(n, s) PROVE PositionInv'
    <2>0. ReplicaOK
      BY Zenon, TypeParts
    <2>1. PICK m \in 1..Len(log[s]) :
             /\ pc[n] = "up" /\ next' = [next EXCEPT ![n][s] = m + 1]
             /\ have' = have \/ have' = [have EXCEPT ![n][s] = m]
             /\ UNCHANGED publisher /\ pc' = pc
      BY Zenon, <1>5, ListenFacts
    <2>2. log' = log
      BY Zenon, <2>1 DEF publisher
    <2>3. m <= Len(log[s])
      BY Scalars
    <2>. SUFFICES ASSUME NEW t \in Shard, NEW p \in Replicas
                  PROVE  have'[p][t] <= Len(log[t]) /\ (pc[p] # "up" => next'[p][t] = 1)
      BY Zenon, <1>2, <2>1, <2>2 DEF PositionInv
    <2>4. have[p][t] <= Len(log[t]) /\ (pc[p] # "up" => next[p][t] = 1)
      BY Zenon DEF PositionInv
    <2>5. have'[p][t] = have[p][t] \/ (t = s /\ have'[p][t] = m)
      <3>1. have \in [Replicas -> [Shard -> 0..MaxWrites]]
        BY Zenon, <2>0 DEF ReplicaOK, Upto
      <3>2. CASE have' = [have EXCEPT ![n][s] = m]
        BY SMTT(40), <3>1, <3>2
      <3>. QED BY Zenon, <2>1, <3>2
    <2>6. p # n => next'[p][t] = next[p][t]
      BY <2>0, <2>1 DEF ReplicaOK
    <2>. QED BY Zenon, <2>1, <2>3, <2>4, <2>5, <2>6
  <1>6. CASE \/ \E r \in Rows : Write(r)
             \/ PublishNext \/ SaverStep \/ UNCHANGED vars
    <2>1. UNCHANGED <<pc, next, have>>
      BY Zenon, <1>6 DEF Write, PublishNext, SaverStep, TimerSnapshot, BackupTo, Delete,
                         Put, SnapshotError, replica, vars
    <2>. QED BY Zenon, <1>3, <2>1
  <1>. QED BY Zenon, <1>4, <1>5, <1>6, Steps

\* Copies stay as new as they were.
LEMMA CopiesStay ==
  ASSUME TypeOK, LengthInv, RecoverInv, [Next]_vars, NEW s \in Shard
  PROVE  /\ backup'.found => NextFresh(s, backup'.rows, backup'.upto[s])
         /\ stored'.found => NextFresh(s, stored'.rows, stored'.upto[s])
  <1>1. /\ ChangeInv /\ FreshCopies(s)
        /\ backup.upto[s] <= Len(log[s]) /\ stored.upto[s] <= Len(log[s])
    BY Zenon, FreshParts DEF RecoverInv, PositionInv
  <1>2. stored.upto[s] \in Nat /\ backup.upto[s] \in Nat
    BY Zenon, Scalars
  <1>3. /\ backup.found => NextFresh(s, backup.rows, backup.upto[s])
        /\ stored.found => NextFresh(s, stored.rows, stored.upto[s])
    BY Zenon, <1>1, <1>2, FreshKept DEF FreshCopies
  <1>4. CASE UNCHANGED <<backup, stored>>
    BY Zenon, <1>3, <1>4
  <1>5. CASE BackupTo
    <2>1. backup' = [found |-> TRUE, rows |-> master, upto |-> [t \in Shard |-> Len(log[t])]]
          /\ stored' = stored /\ master' = master
      BY Zenon, <1>5 DEF BackupTo
    <2>2. backup'.rows = master'
      BY <2>1
    <2>3. NextFresh(s, backup'.rows, backup'.upto[s])
      BY Zenon, <2>2 DEF NextFresh
    <2>. QED BY Zenon, <1>3, <2>1, <2>3
  <1>6. CASE Delete
    <2>1. ~stored'.found /\ backup' = backup
      BY Zenon, <1>6, TypeParts, DeleteFacts DEF SaverOK, Delete
    <2>. QED BY Zenon, <1>3, <2>1
  <1>7. CASE Put \/ SnapshotError
    <2>1. backup' = Nothing /\ (stored' = backup \/ stored' = stored)
      BY Zenon, <1>7 DEF Put, SnapshotError
    <2>. QED BY Zenon, <1>3, <2>1, NothingFacts
  <1>8. ~SaverStep => UNCHANGED <<backup, stored>>
    BY ZenonT(40), Steps, WriteFacts, PublishFacts
       DEF StartStep, Boot, RestoreSnapshot, Stop, Listen, publisher, vars
  <1>. QED BY Zenon, <1>4, <1>5, <1>6, <1>7, <1>8 DEF SaverStep, TimerSnapshot

\* So do tables of replicas that do nothing.
LEMMA TableStays ==
  ASSUME TypeOK, LengthInv, RecoverInv, [Next]_vars, NEW n \in Replicas, NEW s \in Shard,
         ~gap[n][s]
  PROVE  NextFresh(s, table[n], have[n][s]) /\ next[n][s] <= have[n][s] + 1
  <1>1. /\ ChangeInv /\ FreshTable(n, s) /\ have[n][s] <= Len(log[s])
    BY Zenon, FreshParts DEF RecoverInv, PositionInv
  <1>2. have[n][s] \in Nat
    BY Zenon, PositionTypes
  <1>. QED BY Zenon, <1>1, <1>2, FreshKept DEF FreshTable

\* Restoring a snapshot and stopping.
LEMMA StartFresh ==
  ASSUME TypeOK, LengthInv, RecoverInv, [Next]_vars, NEW n \in Replicas, StartStep(n),
         NEW p \in Replicas, NEW s \in Shard, ~gap'[p][s]
  PROVE  NextFresh(s, table'[p], have'[p][s]) /\ next'[p][s] <= have'[p][s] + 1
  <1>0. ReplicaOK /\ have[p][s] \in Nat /\ have[n][s] \in Nat /\ stored.upto[s] \in Nat
    BY Zenon, TypeParts, PositionTypes, Scalars
  <1>1. CASE Boot(n)
    BY Zenon, <1>1, TableStays DEF Boot
  <1>2. CASE RestoreSnapshot(n) /\ ~stored.found
    BY Zenon, <1>2, TableStays DEF RestoreSnapshot
  <1>3. CASE RestoreSnapshot(n) /\ stored.found
    <2>1. /\ pc[n] = "restore" /\ next' = next
          /\ table' = [table EXCEPT ![n] = stored.rows]
          /\ have' = [have EXCEPT ![n] = stored.upto]
          /\ gap' = [gap EXCEPT ![n] = [t \in Shard |-> FALSE]]
          /\ UNCHANGED publisher
      BY Zenon, <1>3 DEF RestoreSnapshot
    <2>2. CASE p = n
      <3>1. table'[n] = stored.rows /\ have'[n] = stored.upto
        BY Zenon, <1>0, <2>1 DEF ReplicaOK
      <3>2. next[n][s] = 1
        BY SMTT(40), <2>1 DEF RecoverInv, PositionInv
      <3>3. 1 <= stored.upto[s] + 1
        BY <1>0
      <3>4. stored.found => NextFresh(s, stored.rows, stored.upto[s])
        <4>1. stored' = stored
          BY Zenon, <2>1 DEF publisher
        <4>. QED BY Zenon, <4>1, CopiesStay
      <3>. QED BY Zenon, <1>3, <2>1, <2>2, <3>1, <3>2, <3>3, <3>4
    <2>3. CASE p # n
      <3>1. table'[p] = table[p] /\ have'[p] = have[p] /\ gap'[p] = gap[p]
        BY Zenon, <1>0, <2>1, <2>3 DEF ReplicaOK
      <3>. QED BY Zenon, <2>1, <3>1, TableStays
    <2>. QED BY Zenon, <2>2, <2>3
  <1>4. CASE Stop(n)
    <2>1. /\ UNCHANGED <<table, have, gap>>
          /\ next' = [next EXCEPT ![n] = [t \in Shard |-> 1]]
      BY ZenonT(40), <1>4 DEF Stop
    <2>2. next'[p][s] = next[p][s] \/ next'[p][s] = 1
      BY SMTT(40), <1>0, <2>1 DEF ReplicaOK
    <2>3. 1 <= have[p][s] + 1
      BY <1>0
    <2>. QED BY Zenon, <2>1, <2>2, <2>3, TableStays
  <1>. QED BY Zenon, <1>1, <1>2, <1>3, <1>4 DEF StartStep

\* Applying the message after the last one, or an older one once more.
LEMMA ApplyFresh ==
  ASSUME TypeOK, LengthInv, ChangeInv, NEW s \in Shard, NEW m \in 1..Len(log[s]),
         NEW rows \in [Rows -> 0..MaxWrites], NEW u \in Nat, m <= u + 1, Fresh(s, rows, u)
  PROVE  Fresh(s, [rows EXCEPT ![log[s][m].row] = log[s][m].val], m)
  <1>. DEFINE e == log[s][m]
              new == [rows EXCEPT ![e.row] = e.val]
  <1>. SUFFICES ASSUME NEW r \in Rows, RowShard[r] = s
                PROVE  new[r] = master[r] \/ Later(s, m, master[r])
    BY Zenon DEF Fresh
  <1>1. LastOfLog(s, m) /\ e.row \in Rows
    BY Zenon, ChangeParts, ChangeTypes
  <1>2. CASE r = e.row
    <2>1. new[r] = e.val
      BY Zenon, <1>1, <1>2
    <2>2. e.val = master[e.row] \/ Later(s, m, master[e.row])
      BY Zenon, <1>1 DEF LastOfLog
    <2>. QED BY Zenon, <1>2, <2>1, <2>2
  <1>3. CASE r # e.row
    <2>1. new[r] = rows[r]
      BY Zenon, <1>1, <1>3
    <2>2. e.val # master[r]
      BY Zenon, <1>1, <1>3 DEF LastOfLog
    <2>3. ASSUME NEW i \in 1..Len(log[s]), i > u, log[s][i].val = master[r]
          PROVE  i > m
      <3>1. i # m
        BY Zenon, <2>2, <2>3
      <3>. QED BY <2>3, <3>1, Scalars
    <2>4. Later(s, u, master[r]) => Later(s, m, master[r])
      BY Zenon, <2>3 DEF Later
    <2>. QED BY Zenon, <2>1, <2>4 DEF Fresh
  <1>. QED BY Zenon, <1>2, <1>3

LEMMA ListenFresh ==
  ASSUME TypeOK, LengthInv, RecoverInv, [Next]_vars,
         NEW n \in Replicas, NEW s \in Shard, Listen(n, s),
         NEW p \in Replicas, NEW t \in Shard, ~gap'[p][t]
  PROVE  NextFresh(t, table'[p], have'[p][t]) /\ next'[p][t] <= have'[p][t] + 1
  <1>0. ReplicaOK
    BY Zenon, TypeParts
  <1>1. PICK m \in 1..Len(log[s]) :
            /\ next' = [next EXCEPT ![n][s] = m + 1]
            /\ \/ /\ gap' = [gap EXCEPT ![n][s] = gap[n][s] \/ m > have[n][s]]
                  /\ UNCHANGED <<table, seqMap, have>>
               \/ /\ table' = [table EXCEPT ![n][log[s][m].row] = log[s][m].val]
                  /\ have' = [have EXCEPT ![n][s] = m]
                  /\ gap' = [gap EXCEPT ![n][s] = gap[n][s] \/ m > have[n][s] + 1]
            /\ UNCHANGED publisher
    BY ZenonT(40), ListenFacts
  <1>2. /\ master' = master /\ log' = log /\ pending' = pending
        /\ have[n][s] \in Nat /\ have[p][t] \in Nat /\ m \in Nat
        /\ gap[n][s] \in BOOLEAN /\ log[s][m].row \in Rows
    <2>1. m \in Nat
      BY Scalars
    <2>. QED BY Zenon, <1>1, <2>1, PositionTypes, ChangeTypes DEF publisher
  <1>3. /\ next \in [Replicas -> [Shard -> 1..(MaxWrites + 1)]]
        /\ have \in [Replicas -> [Shard -> 0..MaxWrites]]
        /\ gap \in [Replicas -> [Shard -> BOOLEAN]]
        /\ table \in [Replicas -> [Rows -> 0..MaxWrites]]
    BY Zenon, <1>0 DEF ReplicaOK, Upto
  <1>4. CASE p = n /\ t = s
    <2>1. next'[n][s] = m + 1
      BY ZenonT(40), <1>1, <1>3
    <2>2. CASE /\ gap' = [gap EXCEPT ![n][s] = gap[n][s] \/ m > have[n][s]]
               /\ UNCHANGED <<table, seqMap, have>>
      <3>1. gap'[n][s] = (gap[n][s] \/ m > have[n][s])
        BY Zenon, <1>3, <2>2
      <3>2. ~gap[n][s] /\ ~(m > have[n][s])
        BY ZenonT(40), <1>4, <3>1
      <3>3. m + 1 <= have[n][s] + 1
        BY <1>2, <3>2
      <3>. QED BY Zenon, <1>4, <2>1, <2>2, <3>2, <3>3, TableStays
    <2>3. CASE /\ table' = [table EXCEPT ![n][log[s][m].row] = log[s][m].val]
               /\ have' = [have EXCEPT ![n][s] = m]
               /\ gap' = [gap EXCEPT ![n][s] = gap[n][s] \/ m > have[n][s] + 1]
      <3>1. gap'[n][s] = (gap[n][s] \/ m > have[n][s] + 1)
        BY Zenon, <1>3, <2>3
      <3>2. ~gap[n][s] /\ ~(m > have[n][s] + 1)
        BY ZenonT(40), <1>4, <3>1
      <3>3. m <= have[n][s] + 1 /\ m + 1 <= m + 1
        BY <1>2, <3>2
      <3>4. have'[n][s] = m
        BY Zenon, <1>3, <2>3
      <3>5. table'[n] = [table[n] EXCEPT ![log[s][m].row] = log[s][m].val]
        BY Zenon, <1>3, <2>3
      <3>6. Fresh(s, table[n], have[n][s]) /\ ChangeInv
        BY Zenon, <3>2, FreshParts DEF RecoverInv, FreshTable
      <3>7. table[n] \in [Rows -> 0..MaxWrites]
        BY Zenon, <1>3
      <3>8. Fresh(s, table'[n], m)
        <4>1. Fresh(s, [table[n] EXCEPT ![log[s][m].row] = log[s][m].val], m)
          BY Zenon, <1>2, <3>3, <3>6, <3>7, ApplyFresh
        <4>. QED BY Zenon, <3>5, <4>1
      <3>9. NextFresh(s, table'[n], m)
        BY Zenon, <1>2, <3>8 DEF Fresh, NextFresh, Later, NextLater
      <3>. QED BY Zenon, <1>4, <2>1, <3>3, <3>4, <3>9
    <2>. QED BY Zenon, <1>1, <2>2, <2>3
  <1>5. CASE ~(p = n /\ t = s)
    <2>1. next'[p][t] = next[p][t]
      BY <1>1, <1>3, <1>5
    <2>2. have'[p][t] = have[p][t]
      <3>1. CASE have' = [have EXCEPT ![n][s] = m]
        BY <1>3, <1>5, <3>1
      <3>. QED BY Zenon, <1>1, <3>1
    <2>3. gap'[p][t] = gap[p][t]
      <3>1. ASSUME NEW b \in BOOLEAN, gap' = [gap EXCEPT ![n][s] = b]
            PROVE  gap'[p][t] = gap[p][t]
        <4>1. CASE p # n
          BY Zenon, <1>3, <3>1, <4>1
        <4>2. CASE p = n /\ t # s
          <5>1. gap'[n] = [gap[n] EXCEPT ![s] = b]
            BY Zenon, <1>3, <3>1
          <5>. QED BY Zenon, <1>3, <4>2, <5>1
        <4>. QED BY Zenon, <1>5, <4>1, <4>2
      <3>2. /\ (gap[n][s] \/ m > have[n][s]) \in BOOLEAN
            /\ (gap[n][s] \/ m > have[n][s] + 1) \in BOOLEAN
        BY Zenon
      <3>. QED BY Zenon, <1>1, <3>1, <3>2
    <2>4. NextFresh(t, table[p], have[p][t]) /\ next[p][t] <= have[p][t] + 1
      BY Zenon, <2>3, TableStays
    <2>5. \A r \in Rows : RowShard[r] = t => table'[p][r] = table[p][r]
      <3>. SUFFICES ASSUME NEW r \in Rows, RowShard[r] = t,
                           table' = [table EXCEPT ![n][log[s][m].row] = log[s][m].val]
                    PROVE  table'[p][r] = table[p][r]
        BY Zenon, <1>1
      <3>1. CASE p # n
        BY Zenon, <1>3, <3>1
      <3>2. CASE p = n
        <4>1. RowShard[log[s][m].row] = s
          BY Zenon, ChangeParts DEF RecoverInv, LastOfLog
        <4>2. r # log[s][m].row
          BY Zenon, <1>5, <3>2, <4>1
        <4>. QED BY Zenon, <1>2, <1>3, <3>2, <4>2
      <3>. QED BY Zenon, <3>1, <3>2
    <2>6. NextFresh(t, table'[p], have[p][t])
      BY Zenon, <2>4, <2>5 DEF NextFresh
    <2>. QED BY ZenonT(40), <2>1, <2>2, <2>4, <2>6
  <1>. QED BY Zenon, <1>4, <1>5

LEMMA RecoverStep ==
    TypeOK /\ LengthInv /\ RecoverInv /\ [Next]_vars => RecoverInv'
  <1>. SUFFICES ASSUME TypeOK, LengthInv, RecoverInv, [Next]_vars PROVE RecoverInv'
    OBVIOUS
  <1>1. ChangeInv' /\ PositionInv'
    BY Zenon, ChangeStep, PositionStep DEF RecoverInv
  <1>2. ASSUME NEW p \in Replicas, NEW s \in Shard, ~gap'[p][s]
        PROVE  NextFresh(s, table'[p], have'[p][s]) /\ next'[p][s] <= have'[p][s] + 1
    <2>1. CASE \/ \E r \in Rows : Write(r)
               \/ PublishNext \/ SaverStep \/ UNCHANGED vars
      <3>1. UNCHANGED <<table, have, gap, next>>
        BY Zenon, <2>1 DEF Write, PublishNext, SaverStep, TimerSnapshot, BackupTo,
                           Delete, Put, SnapshotError, replica, vars
      <3>. QED BY Zenon, <1>2, <3>1, TableStays
    <2>. QED BY Zenon, <1>2, <2>1, Steps, StartFresh, ListenFresh
  <1>3. FreshInv'
    BY Zenon, <1>2, CopiesStay, NextFreshParts
  <1>. QED BY Zenon, <1>1, <1>3 DEF RecoverInv

LEMMA InitRecover == Init => RecoverInv
  <1>. SUFFICES ASSUME Init PROVE RecoverInv
    OBVIOUS
  <1>1. /\ log = [s \in Shard |-> <<>>] /\ pending = <<>> /\ backup = Nothing
        /\ stored = Nothing /\ master = [r \in Rows |-> 0] /\ writes = 0
        /\ table = [n \in Replicas |-> [r \in Rows |-> 0]]
        /\ have = [n \in Replicas |-> [s \in Shard |-> 0]]
        /\ next = [n \in Replicas |-> [s \in Shard |-> 1]]
    BY Zenon DEF Init
  <1>2. /\ \A s \in Shard : Len(log[s]) = 0
        /\ Len(pending) = 0 /\ 1..0 = {}
        /\ \A r \in Rows : master[r] = 0
        /\ \A n \in Replicas : /\ \A r \in Rows : table[n][r] = 0
                               /\ \A s \in Shard : have[n][s] = 0 /\ next[n][s] = 1
    BY <1>1
  <1>3. 0 <= 0 /\ 1 <= 0 + 1
    OBVIOUS
  <1>4. ChangeInv
    BY Zenon, <1>1, <1>2, <1>3, ChangeParts
  <1>5. FreshInv
    BY Zenon, <1>1, <1>2, <1>3, NothingFacts, FreshParts DEF FreshCopies, FreshTable, Fresh
  <1>6. PositionInv
    BY Zenon, <1>1, <1>2, <1>3, NothingFacts DEF PositionInv
  <1>. QED BY Zenon, <1>4, <1>5, <1>6 DEF RecoverInv

\* A replica that caught up on a shard has the publisher's rows of the shard,
\* for any number of shards, lengths of the streams, boots and failed or deleted
\* snapshots, unless Listen passed over a message its table does not have.
THEOREM ReplicasRecover == Spec => []Recovers
  <1>1. TypeOK /\ LengthInv /\ RecoverInv => Recovers
    <2>. SUFFICES ASSUME TypeOK, LengthInv, RecoverInv,
                         NEW n \in Replicas, NEW s \in Shard, CaughtUp(n, s), ~gap[n][s],
                         NEW r \in Rows, RowShard[r] = s, table[n][r] # master[r]
                  PROVE  FALSE
      BY Zenon DEF Recovers
    <2>1. /\ Fresh(s, table[n], have[n][s]) /\ next[n][s] <= have[n][s] + 1
          /\ next[n][s] = Len(log[s]) + 1 /\ ChangeInv
      BY Zenon, FreshParts DEF RecoverInv, FreshTable, CaughtUp
    <2>2. Later(s, have[n][s], master[r])
      BY Zenon, <2>1 DEF Fresh
    <2>3. ASSUME NEW i \in 1..Len(pending), pending[i].val = master[r] PROVE FALSE
      <3>1. pending[i].row = r
        BY ZenonT(40), <2>1, <2>3, ChangeParts DEF LastOfPending
      <3>. QED BY Zenon, <3>1 DEF CaughtUp
    <2>4. ASSUME NEW i \in 1..Len(log[s]), i > have[n][s] PROVE FALSE
      <3>1. have[n][s] \in Nat /\ Len(log[s]) \in Nat
        BY Zenon, PositionTypes, Scalars
      <3>. QED BY <2>1, <2>4, <3>1
    <2>. QED BY Zenon, <2>2, <2>3, <2>4 DEF Later
  <1>2. Spec => []RecoverInv
    BY InitRecover, RecoverStep, TypesInductive, PTL DEF Spec
  <1>. QED BY <1>1, <1>2, TypesInductive, PTL
=============================================================================
