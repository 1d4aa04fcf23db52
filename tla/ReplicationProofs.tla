--------------------------- MODULE ReplicationProofs ---------------------------
(* Machine-checked proofs about module Replication, for every number of      *)
(* nodes, rows, values and shards, and every bound.                          *)
EXTENDS Replication, TLAPS

-----------------------------------------------------------------------------
(* Type correctness *)

\* A row is published to one of the configured shards.
LEMMA ShardOfType == \A r \in Rows : ShardOf(r) \in Shard
BY ConfigAssumption, SMT DEF ShardOf, Shard

\* Shard 1 exists.
LEMMA IdleType ==
    Idle \in [pc : {"idle", "acked", "mark"}, shard : Shard, seq : Nat]
BY ConfigAssumption, SMT DEF Idle, Shard

\* An append keeps what was there and adds one message at the end.
LEMMA AppendFacts ==
    ASSUME NEW q \in Seq(Event), NEW e \in Event
    PROVE  /\ Append(q, e) \in Seq(Event)
           /\ Len(q) \in Nat
           /\ Len(Append(q, e)) = Len(q) + 1
           /\ \A i \in 1..Len(q) : Append(q, e)[i] = q[i]
           /\ Append(q, e)[Len(q) + 1] = e
           /\ Append(q, e) # <<>>
OBVIOUS

\* The initial state is well typed.
LEMMA TypeInit == Init => TypeOK
BY ConfigAssumption, IdleType DEF Init, TypeOK

\* Application statements keep the types.
LEMMA TypeApplication ==
    ASSUME TypeOK, NEW n \in Publish, Application(n)
    PROVE  TypeOK'
<1> n \in Nodes BY ConfigAssumption
<1>1. ASSUME NEW r \in Rows, NEW v \in Cell, Write(n, r, v) PROVE TypeOK'
  <2>1. [row |-> r, val |-> v] \in Event BY DEF Event
  <2>2. table' \in [Nodes -> [Rows -> Cell]] BY <1>1 DEF TypeOK, Write
  <2>3. pending' \in [Nodes -> Seq(Event)]
    BY <1>1, <2>1 DEF TypeOK, Write, Capture
  <2> QED BY SMTT(40), <1>1, <2>2, <2>3
          DEF TypeOK, Write, Capture, listener, counters
<1>2. ASSUME NEW r \in Rows, NEW q \in Rows, UpdateKey(n, r, q) PROVE TypeOK'
  <2>1. table[n][r] \in Cell /\ None \in Cell BY DEF TypeOK, Cell
  <2>2. [row |-> q, val |-> table[n][r]] \in Event BY <2>1 DEF Event
  <2>3. table' \in [Nodes -> [Rows -> Cell]]
    BY <1>2, <2>1 DEF TypeOK, UpdateKey
  <2>4. pending' \in [Nodes -> Seq(Event)]
    BY <1>2, <2>2 DEF TypeOK, UpdateKey, Capture
  <2>5. unstreamed' \in [Nodes -> SUBSET Rows] BY <1>2 DEF TypeOK, UpdateKey
  <2> QED BY <1>2, <2>3, <2>4, <2>5
          DEF TypeOK, UpdateKey, Capture, listener, counters
<1> QED BY <1>1, <1>2 DEF Application

\* What PublishEvent and PublishError append is an event.
LEMMA HeadType ==
    ASSUME TypeOK, NEW n \in Nodes, pending[n] # <<>>
    PROVE  /\ Head(pending[n]) \in Event
           /\ Head(pending[n]).row \in Rows
           /\ ShardOf(Head(pending[n]).row) \in Shard
<1>1. pending[n] \in Seq(Event) BY DEF TypeOK
<1>2. Head(pending[n]) \in Event BY <1>1
<1>3. Head(pending[n]).row \in Rows BY <1>2 DEF Event
<1> QED BY <1>2, <1>3, ShardOfType

\* Publisher steps keep the types.
LEMMA TypePublisher ==
    ASSUME TypeOK, PublisherInv, NEW n \in Nodes, Publisher(n)
    PROVE  TypeOK'
<1> DEFINE e == Head(pending[n])
           s == ShardOf(e.row)
<1>1. CASE PublishEvent(n)
  <2>1. e \in Event /\ s \in Shard BY Zenon, <1>1, HeadType DEF PublishEvent
  <2>2. stream' \in [Shard -> Seq(Event)]
    BY <1>1, <2>1 DEF TypeOK, PublishEvent
  <2>3. Len(stream[s]) + 1 \in Nat BY SMTT(40), <2>1 DEF TypeOK
  <2>4. pub' \in [Nodes -> [pc : {"idle", "acked", "mark"},
                            shard : Shard, seq : Nat]]
    BY <1>1, <2>1, <2>3 DEF TypeOK, PublishEvent
  <2> QED BY Zenon, <1>1, <2>2, <2>4 DEF TypeOK, PublishEvent, listener, counters
<1>2. CASE PublishError(n)
  <2>1. e \in Event /\ s \in Shard /\ e.row \in Rows
    BY <1>2, HeadType DEF PublishError
  <2>2. \/ /\ unstreamed' = [unstreamed EXCEPT ![n] = @ \cup {e.row}]
           /\ stream' = stream
        \/ /\ stream' = [stream EXCEPT ![s] = Append(@, e)]
           /\ unstreamed' = unstreamed
    BY Zenon, <1>2 DEF PublishError
  <2>a. stream' \in [Shard -> Seq(Event)]
    <3>1. stream[s] \in Seq(Event) BY <2>1 DEF TypeOK
    <3>2. Append(stream[s], e) \in Seq(Event) BY <2>1, <3>1
    <3> HIDE DEF e, s
    <3> QED BY Zenon, <2>1, <2>2, <3>2 DEF TypeOK
  <2>3. unstreamed' \in [Nodes -> SUBSET Rows]
    <3>1. unstreamed[n] \cup {e.row} \in SUBSET Rows BY Zenon, <2>1 DEF TypeOK
    <3> HIDE DEF e, s
    <3> QED BY ZenonT(40), <2>2, <3>1 DEF TypeOK
  <2>4. pub' \in [Nodes -> [pc : {"idle", "acked", "mark"},
                            shard : Shard, seq : Nat]]
    BY Zenon, <1>2, IdleType DEF TypeOK, PublishError, Idle
  <2>5. errors' \in Nat BY SMTT(40), <1>2 DEF TypeOK, PublishError
  <2> QED BY ZenonT(40), <1>2, <2>a, <2>3, <2>4, <2>5 DEF TypeOK, PublishError, listener
<1>3. CASE SaveAck(n)
  <2>1. pub[n].shard \in Shard /\ pub[n].seq \in Nat BY DEF TypeOK
  <2>2. SaveResult(n, pub[n].shard, pub[n].seq) \in Nat
    BY <2>1 DEF TypeOK, SaveResult
  <2>3. seqMap' \in [Nodes -> [Shard -> Nat]]
    BY Zenon, <1>3, <2>1, <2>2 DEF TypeOK, SaveAck
  <2>4. pub' \in [Nodes -> [pc : {"idle", "acked", "mark"},
                            shard : Shard, seq : Nat]]
    BY ZenonT(40), <1>3 DEF TypeOK, SaveAck
  <2> QED BY Zenon, <1>3, <2>3, <2>4 DEF TypeOK, SaveAck, listener, counters
<1>4. CASE MarkPublished(n)
  <2>1. pending[n] \in Seq(Event) /\ pending[n] # <<>>
    BY <1>4 DEF TypeOK, PublisherInv, MarkPublished
  <2>2. Tail(pending[n]) \in Seq(Event) BY <2>1
  <2>3. pending' \in [Nodes -> Seq(Event)]
    BY <1>4, <2>2 DEF TypeOK, MarkPublished
  <2> QED BY Zenon, <1>4, <2>3, IdleType DEF TypeOK, MarkPublished, listener, counters
<1> QED BY Zenon, <1>1, <1>2, <1>3, <1>4 DEF Publisher

\* A consumer that moves on stays at a sequence number.
LEMMA AdvanceType ==
    ASSUME TypeOK, NEW n \in Nodes, NEW s \in Shard, NEW m, Advance(n, s, m)
    PROVE  next' \in [Nodes -> [Shard -> Nat]]
<1>1. next \in [Nodes -> [Shard -> Nat]] /\ next[n][s] \in Nat BY DEF TypeOK
<1>2. (IF m = next[n][s] THEN next[n][s] + 1 ELSE next[n][s]) \in Nat BY <1>1
<1> QED BY <1>1, <1>2 DEF Advance

\* Listener steps keep the types.
LEMMA TypeListener ==
    ASSUME TypeOK, NEW n \in Nodes, NEW s \in Shard, Listener(n, s)
    PROVE  TypeOK'
<1>1. ASSUME NEW m \in 1..Len(stream[s]), Skip(n, s, m) PROVE TypeOK'
  <2>1. next' \in [Nodes -> [Shard -> Nat]]
    BY <1>1, AdvanceType DEF Skip
  <2> QED BY Zenon, <1>1, <2>1 DEF TypeOK, Skip, counters
<1>2. ASSUME NEW m \in 1..Len(stream[s]), Replay(n, s, m) PROVE TypeOK'
  <2>1. m \in Nat /\ stream[s] \in Seq(Event) BY DEF TypeOK
  <2>2. stream[s][m] \in Event BY <2>1
  <2>3. stream[s][m].row \in Rows /\ stream[s][m].val \in Cell
    BY <2>2 DEF Event
  <2>4. next' \in [Nodes -> [Shard -> Nat]]
    BY Zenon, <1>2, AdvanceType DEF Replay
  <2>5. cur' \in [Nodes -> [Shard -> Nat]] BY Zenon, <1>2, <2>1 DEF TypeOK, Replay
  <2> DEFINE e == stream[s][m]
  <2>6. \/ /\ table' = [table EXCEPT ![n][e.row] = e.val]
           /\ unstreamed' = [unstreamed EXCEPT ![n] = @ \ {e.row}]
        \/ UNCHANGED <<table, unstreamed>>
    BY <1>2 DEF Replay
  <2> HIDE DEF e
  <2>7. table' \in [Nodes -> [Rows -> Cell]]
    <3>1. table[n] \in [Rows -> Cell] BY DEF TypeOK
    <3>2. e.row \in Rows /\ e.val \in Cell BY <2>3 DEF e
    <3>3. [table[n] EXCEPT ![e.row] = e.val] \in [Rows -> Cell]
      BY <3>1, <3>2
    <3> QED BY Zenon, <2>6, <3>3 DEF TypeOK
  <2>8. unstreamed' \in [Nodes -> SUBSET Rows]
    <3>1. unstreamed[n] \ {e.row} \in SUBSET Rows BY DEF TypeOK
    <3> QED BY ZenonT(40), <2>6, <3>1 DEF TypeOK
  <2> QED BY Zenon, <1>2, <2>4, <2>5, <2>7, <2>8 DEF TypeOK, Replay, counters
<1>3. CASE SaveSeq(n, s)
  <2>1. SaveResult(n, s, cur[n][s]) \in Nat BY DEF TypeOK, SaveResult
  <2> QED BY Zenon, <1>3, <2>1 DEF TypeOK, SaveSeq, counters
<1> QED BY <1>1, <1>2, <1>3 DEF Listener

\* A restart keeps the types.
LEMMA TypeRestart ==
    ASSUME TypeOK, NEW n \in Nodes, Restart(n)
    PROVE  TypeOK'
<1>1. pub' \in [Nodes -> [pc : {"idle", "acked", "mark"},
                          shard : Shard, seq : Nat]]
  BY IdleType DEF TypeOK, Restart
<1>2. /\ savedSeq' \in [Nodes -> [Shard -> Nat]]
      /\ next' \in [Nodes -> [Shard -> Nat]]
      /\ cur' \in [Nodes -> [Shard -> Nat]]
  BY DEF TypeOK, Restart
<1>3. restarts' \in Nat BY DEF TypeOK, Restart
<1> QED BY Zenon, <1>1, <1>2, <1>3 DEF TypeOK, Restart

-----------------------------------------------------------------------------
(* The publisher and the shards *)

\* PublisherInv is preserved by every step.
LEMMA PublisherStep ==
    ASSUME TypeOK, PublisherInv, [Next]_vars
    PROVE  PublisherInv'
<1> SUFFICES ASSUME NEW k \in Nodes
             PROVE  /\ k \notin Publish => pending'[k] = <<>>
                    /\ pending'[k] = <<>> => pub'[k].pc = "idle"
                    /\ k \notin SnapshotEnable => pub'[k].pc # "acked"
  BY Zenon DEF PublisherInv
<1> /\ k \notin Publish => pending[k] = <<>>
    /\ pending[k] = <<>> => pub[k].pc = "idle"
    /\ k \notin SnapshotEnable => pub[k].pc # "acked"
  BY DEF PublisherInv
<1> pub \in [Nodes -> [pc : {"idle", "acked", "mark"}, shard : Shard, seq : Nat]]
  BY DEF TypeOK
<1> pending \in [Nodes -> Seq(Event)] BY DEF TypeOK
<1>1. ASSUME NEW n \in Publish, NEW e \in Event, Capture(n, e)
      PROVE  /\ n \in Nodes
             /\ pending'[n] # <<>>
             /\ k # n => pending'[k] = pending[k]
  <2>1. n \in Nodes BY ConfigAssumption
  <2>2. pending[n] \in Seq(Event) BY <2>1
  <2>3. Append(pending[n], e) # <<>> BY Zenon, <2>2, AppendFacts
  <2> QED BY <1>1, <2>1, <2>3 DEF Capture
<1>2. ASSUME NEW n \in Publish, NEW r \in Rows, NEW v \in Cell, Write(n, r, v)
      PROVE  pub' = pub /\ \E e \in Event : Capture(n, e)
  BY <1>2 DEF Write, Event
<1>3. ASSUME NEW n \in Publish, NEW r \in Rows, NEW q \in Rows,
             UpdateKey(n, r, q)
      PROVE  pub' = pub /\ \E e \in Event : Capture(n, e)
  <2>1. table[n][r] \in Cell BY ConfigAssumption DEF TypeOK
  <2>2. [row |-> q, val |-> table[n][r]] \in Event BY <2>1 DEF Event
  <2> QED BY <1>3, <2>2 DEF UpdateKey
<1>4. ASSUME NEW n \in Publish, pub' = pub, \E e \in Event : Capture(n, e)
      PROVE  /\ k \notin Publish => pending'[k] = <<>>
             /\ pending'[k] = <<>> => pub'[k].pc = "idle"
             /\ k \notin SnapshotEnable => pub'[k].pc # "acked"
  BY <1>1, <1>4
<1>5. ASSUME NEW n \in Publish, Application(n)
      PROVE  /\ k \notin Publish => pending'[k] = <<>>
             /\ pending'[k] = <<>> => pub'[k].pc = "idle"
             /\ k \notin SnapshotEnable => pub'[k].pc # "acked"
  BY Zenon, <1>2, <1>3, <1>4, <1>5 DEF Application
<1>6. ASSUME NEW n \in Nodes, Publisher(n)
      PROVE  /\ k \notin Publish => pending'[k] = <<>>
             /\ pending'[k] = <<>> => pub'[k].pc = "idle"
             /\ k \notin SnapshotEnable => pub'[k].pc # "acked"
  <2>1. CASE PublishEvent(n) BY SMTT(40), <2>1 DEF PublishEvent
  <2>2. CASE PublishError(n)
    BY <2>2, IdleType DEF PublishError, Idle
  <2>3. CASE SaveAck(n) BY <2>3 DEF SaveAck
  <2>4. CASE MarkPublished(n)
    BY <2>4 DEF MarkPublished, Idle, PublisherInv
  <2> QED BY ZenonT(40), <1>6, <2>1, <2>2, <2>3, <2>4 DEF Publisher
<1>7. ASSUME NEW n \in Nodes, Restart(n)
      PROVE  /\ k \notin Publish => pending'[k] = <<>>
             /\ pending'[k] = <<>> => pub'[k].pc = "idle"
             /\ k \notin SnapshotEnable => pub'[k].pc # "acked"
  BY Zenon, <1>7 DEF Restart, Idle
<1>8. ASSUME NEW n \in Nodes, NEW s \in Shard, Listener(n, s)
      PROVE  pending' = pending /\ pub' = pub
  BY <1>8 DEF Listener, Skip, Replay, SaveSeq
<1>9. CASE UNCHANGED vars BY Zenon, <1>9 DEF vars
<1> QED BY Zenon, <1>5, <1>6, <1>7, <1>8, <1>9 DEF Next

\* What a step does to the streams: nothing, or a publisher appends the head
\* of its change log to the stream of that row's shard.
LEMMA StreamStep ==
    ASSUME TypeOK, [Next]_vars
    PROVE  \/ stream' = stream
           \/ \E n \in Nodes :
                /\ PublishEvent(n) \/ PublishError(n)
                /\ pending[n] # <<>>
                /\ stream' = [stream EXCEPT ![ShardOf(Head(pending[n]).row)] =
                                 Append(@, Head(pending[n]))]
<1>1. ASSUME NEW n \in Publish, Application(n) PROVE stream' = stream
  BY Zenon, <1>1 DEF Application, Write, UpdateKey
<1>2. ASSUME NEW n \in Nodes, SaveAck(n) \/ MarkPublished(n) \/ Restart(n)
      PROVE  stream' = stream
  BY <1>2 DEF SaveAck, MarkPublished, Restart
<1>3. ASSUME NEW n \in Nodes, NEW s \in Shard, Listener(n, s)
      PROVE  stream' = stream
  BY <1>3 DEF Listener, Skip, Replay, SaveSeq
<1>4. ASSUME UNCHANGED vars PROVE stream' = stream BY Zenon, <1>4 DEF vars
<1>5. ASSUME NEW n \in Nodes, PublishEvent(n)
      PROVE  /\ pending[n] # <<>>
             /\ stream' = [stream EXCEPT ![ShardOf(Head(pending[n]).row)] =
                              Append(@, Head(pending[n]))]
  BY Zenon, <1>5 DEF PublishEvent
<1>6. ASSUME NEW n \in Nodes, PublishError(n)
      PROVE  /\ pending[n] # <<>>
             /\ \/ stream' = stream
                \/ stream' = [stream EXCEPT ![ShardOf(Head(pending[n]).row)] =
                                 Append(@, Head(pending[n]))]
  BY Zenon, <1>6 DEF PublishError
<1> QED BY <1>1, <1>2, <1>3, <1>4, <1>5, <1>6 DEF Next, Publisher

\* ShardInv is preserved by every step.
LEMMA ShardStep ==
    ASSUME TypeOK, ShardInv, [Next]_vars
    PROVE  ShardInv'
<1>1. CASE stream' = stream BY <1>1 DEF ShardInv
<1>2. ASSUME NEW n \in Nodes, pending[n] # <<>>,
             stream' = [stream EXCEPT ![ShardOf(Head(pending[n]).row)] =
                            Append(@, Head(pending[n]))]
      PROVE  ShardInv'
  <2> DEFINE e == Head(pending[n])
             t == ShardOf(e.row)
  <2>1. e \in Event /\ t \in Shard BY <1>2, HeadType
  <2>2. stream \in [Shard -> Seq(Event)] BY DEF TypeOK
  <2> SUFFICES ASSUME NEW s \in Shard, NEW i \in 1..Len(stream'[s])
               PROVE  ShardOf(stream'[s][i].row) = s
    BY DEF ShardInv
  <2>3. CASE s # t
    <3>1. stream'[s] = stream[s] BY <1>2, <2>1, <2>2, <2>3
    <3> QED BY Zenon, <3>1 DEF ShardInv
  <2>4. CASE s = t
    <3>1. stream'[s] = Append(stream[s], e) BY <1>2, <2>1, <2>2, <2>4
    <3>2. stream[s] \in Seq(Event) BY <2>2
    <3> HIDE DEF e, t
    <3>3. /\ Len(stream'[s]) = Len(stream[s]) + 1
          /\ Len(stream[s]) \in Nat
          /\ \A j \in 1..Len(stream[s]) : stream'[s][j] = stream[s][j]
          /\ stream'[s][Len(stream[s]) + 1] = e
      BY <2>1, <3>1, <3>2, AppendFacts
    <3>4. CASE i = Len(stream[s]) + 1 BY <2>4, <3>3, <3>4 DEF t
    <3>5. CASE i \in 1..Len(stream[s]) BY SMTT(40), <3>3, <3>5 DEF ShardInv
    <3> QED BY SMTT(40), <3>3, <3>4, <3>5
  <2> QED BY Zenon, <2>3, <2>4
<1> QED BY <1>1, <1>2, StreamStep

-----------------------------------------------------------------------------
(* The listeners *)

\* The position of a listener: everything the conjuncts of PositionInv say of
\* one node and one shard, for given values of the variables.
PositionOK(seq, saved, nxt, c, len) ==
    /\ seq = saved
    /\ saved <= len
    /\ nxt >= 1
    /\ c = 0 => nxt <= saved + 1
    /\ c # 0 => c = saved + 1 /\ nxt = c + 1 /\ c <= len

\* Streams only grow.
LEMMA StreamGrows ==
    ASSUME TypeOK, [Next]_vars, NEW s \in Shard
    PROVE  /\ Len(stream[s]) \in Nat
           /\ Len(stream'[s]) \in Nat
           /\ Len(stream[s]) <= Len(stream'[s])
<1> stream \in [Shard -> Seq(Event)] BY DEF TypeOK
<1>1. stream[s] \in Seq(Event) OBVIOUS
<1>2. CASE stream' = stream BY <1>1, <1>2
<1>3. ASSUME NEW n \in Nodes, pending[n] # <<>>,
             stream' = [stream EXCEPT ![ShardOf(Head(pending[n]).row)] =
                            Append(@, Head(pending[n]))]
      PROVE  /\ Len(stream[s]) \in Nat
             /\ Len(stream'[s]) \in Nat
             /\ Len(stream[s]) <= Len(stream'[s])
  <2> DEFINE e == Head(pending[n])
             t == ShardOf(e.row)
  <2>1. e \in Event /\ t \in Shard BY <1>3, HeadType
  <2> HIDE DEF e
  <2>2. Len(Append(stream[s], e)) = Len(stream[s]) + 1 /\ Len(stream[s]) \in Nat
    BY Zenon, <1>1, <2>1, AppendFacts
  <2>3. stream'[s] = stream[s] \/ stream'[s] = Append(stream[s], e)
    BY Zenon, <1>3, <2>1 DEF e
  <2> QED BY SMTT(40), <2>2, <2>3
<1> QED BY <1>2, <1>3, StreamStep

\* PositionInv is preserved by every step: in a safe configuration only the
\* listener moves the sequence map of a replica.
LEMMA PositionStep ==
    ASSUME SafeConfig, TypeOK, PublisherInv, PositionInv, [Next]_vars
    PROVE  PositionInv'
<1> SUFFICES ASSUME NEW k \in Replicate, NEW t \in Shard
             PROVE  PositionOK(seqMap'[k][t], savedSeq'[k][t], next'[k][t],
                               cur'[k][t], Len(stream'[t]))
  BY DEF PositionInv, PositionOK
<1>k. k \in Nodes BY Zenon, ConfigAssumption
<1>1. PositionOK(seqMap[k][t], savedSeq[k][t], next[k][t], cur[k][t],
                 Len(stream[t]))
  BY DEF PositionInv, PositionOK
<1>2. /\ seqMap[k][t] \in Nat /\ savedSeq[k][t] \in Nat
      /\ next[k][t] \in Nat /\ cur[k][t] \in Nat
  BY <1>k DEF TypeOK
<1>3. /\ Len(stream[t]) \in Nat
      /\ Len(stream'[t]) \in Nat
      /\ Len(stream[t]) <= Len(stream'[t])
  BY ZenonT(40), StreamGrows
<1>4. ASSUME UNCHANGED <<seqMap[k][t], savedSeq[k][t], next[k][t], cur[k][t]>>
      PROVE  PositionOK(seqMap'[k][t], savedSeq'[k][t], next'[k][t],
                        cur'[k][t], Len(stream'[t]))
  BY SMTT(40), <1>1, <1>2, <1>3, <1>4 DEF PositionOK
<1>5. ASSUME NEW n \in Publish, Application(n)
      PROVE  UNCHANGED <<seqMap, savedSeq, next, cur>>
  BY Zenon, <1>5 DEF Application, Write, UpdateKey, listener
<1>6. ASSUME NEW n \in Nodes, PublishEvent(n) \/ PublishError(n) \/ MarkPublished(n)
      PROVE  UNCHANGED <<seqMap, savedSeq, next, cur>>
  BY Zenon, <1>6 DEF PublishEvent, PublishError, MarkPublished, listener
<1>7. ASSUME NEW n \in Nodes, SaveAck(n)
      PROVE  UNCHANGED <<seqMap[k][t], savedSeq[k][t], next[k][t], cur[k][t]>>
  <2>1. n # k
    BY <1>7 DEF SafeConfig, PublisherInv, SaveAck
  <2>2. seqMap'[k] = seqMap[k]
    BY Zenon, <1>7, <1>k, <2>1 DEF SaveAck, TypeOK
  <2> QED BY <1>7, <2>2 DEF SaveAck, listener
<1>8. ASSUME NEW n \in Nodes, Restart(n)
      PROVE  PositionOK(seqMap'[k][t], savedSeq'[k][t], next'[k][t],
                        cur'[k][t], Len(stream'[t]))
  <2>1. CASE n # k
    <3>1. UNCHANGED <<seqMap[k][t], savedSeq[k][t], next[k][t], cur[k][t]>>
      BY Zenon, <1>8, <1>k, <2>1 DEF Restart, TypeOK
    <3> QED BY <1>4, <3>1
  <2>2. CASE n = k
    <3>1. /\ seqMap'[k][t] = seqMap[k][t]
          /\ savedSeq'[k][t] = seqMap[k][t]
          /\ next'[k][t] = 1
          /\ cur'[k][t] = 0
      BY Zenon, <1>8, <1>k, <2>2 DEF Restart, TypeOK
    <3> QED BY <1>1, <1>2, <1>3, <3>1 DEF PositionOK
  <2> QED BY SMTT(40), <2>1, <2>2
<1>9. ASSUME NEW n \in Nodes, NEW s \in Shard, Listener(n, s)
      PROVE  PositionOK(seqMap'[k][t], savedSeq'[k][t], next'[k][t],
                        cur'[k][t], Len(stream'[t]))
  <2>1. CASE n # k \/ s # t
    <3>1. UNCHANGED <<seqMap[k][t], savedSeq[k][t], next[k][t], cur[k][t]>>
      <4>1. ASSUME NEW m \in 1..Len(stream[s]), Skip(n, s, m) \/ Replay(n, s, m)
            PROVE  UNCHANGED <<seqMap[k][t], savedSeq[k][t], next[k][t],
                               cur[k][t]>>
        <5> DEFINE nxt == IF m = next[n][s] THEN next[n][s] + 1 ELSE next[n][s]
        <5>a. next' = [next EXCEPT ![n][s] = nxt]
          BY Zenon, <4>1 DEF Skip, Replay, Advance
        <5>b. cur' = cur \/ cur' = [cur EXCEPT ![n][s] = m]
          BY <4>1 DEF Skip, Replay
        <5> HIDE DEF nxt
        <5>1. next'[k][t] = next[k][t]
          <6>1. next \in [Nodes -> [Shard -> Nat]] BY DEF TypeOK
          <6>2. CASE n # k BY <1>k, <5>a, <6>1, <6>2
          <6>3. CASE n = k /\ s # t BY <1>k, <5>a, <6>1, <6>3
          <6> QED BY <2>1, <6>2, <6>3
        <5>2. cur'[k][t] = cur[k][t]
          <6>1. cur \in [Nodes -> [Shard -> Nat]] BY DEF TypeOK
          <6>2. CASE n # k BY <1>k, <5>b, <6>1, <6>2
          <6>3. CASE n = k /\ s # t BY SMTT(40), <1>k, <5>b, <6>1, <6>3
          <6> QED BY <2>1, <6>2, <6>3
        <5> QED BY Zenon, <4>1, <5>1, <5>2 DEF Skip, Replay
      <4>2. ASSUME SaveSeq(n, s)
            PROVE  UNCHANGED <<seqMap[k][t], savedSeq[k][t], next[k][t],
                               cur[k][t]>>
        BY ZenonT(40), <1>k, <2>1, <4>2 DEF SaveSeq, TypeOK
      <4> QED BY <1>9, <4>1, <4>2 DEF Listener
    <3> QED BY SMTT(40), <1>4, <3>1
  <2>2. CASE n = k /\ s = t
    <3>1. ASSUME NEW m \in 1..Len(stream[t]), Skip(k, t, m)
          PROVE  PositionOK(seqMap'[k][t], savedSeq'[k][t], next'[k][t],
                            cur'[k][t], Len(stream'[t]))
      <4>1. /\ UNCHANGED <<seqMap[k][t], savedSeq[k][t], cur[k][t]>>
            /\ next'[k][t] = IF m = next[k][t] THEN next[k][t] + 1
                                               ELSE next[k][t]
            /\ m <= savedSeq[k][t]
            /\ cur[k][t] = 0
        BY Zenon, <3>1, <1>k DEF Skip, Delivers, Advance, TypeOK
      <4> QED BY <1>1, <1>2, <1>3, <4>1, SMTT(30) DEF PositionOK
    <3>2. ASSUME NEW m \in 1..Len(stream[t]), Replay(k, t, m)
          PROVE  PositionOK(seqMap'[k][t], savedSeq'[k][t], next'[k][t],
                            cur'[k][t], Len(stream'[t]))
      <4>1. /\ UNCHANGED <<seqMap[k][t], savedSeq[k][t]>>
            /\ cur'[k][t] = m
            /\ next'[k][t] = IF m = next[k][t] THEN next[k][t] + 1
                                               ELSE next[k][t]
            /\ m > savedSeq[k][t]
            /\ m <= next[k][t]
            /\ cur[k][t] = 0
        BY ZenonT(40), <3>2, <1>k DEF Replay, Delivers, Advance, TypeOK
      <4>2. m \in Nat /\ m <= Len(stream[t]) BY <1>3
      <4>3. /\ seqMap[k][t] = savedSeq[k][t]
            /\ next[k][t] <= savedSeq[k][t] + 1
        BY <1>1, <4>1 DEF PositionOK
      <4>4. \A a, b \in Nat : m > a /\ m <= b /\ b <= a + 1 => m = a + 1 /\ b = m
        BY SMTT(40), <4>2
      <4>5. m = savedSeq[k][t] + 1 /\ next[k][t] = m
        BY <1>2, <4>1, <4>3, <4>4
      <4>6. next'[k][t] = m + 1 /\ m + 1 >= 1 /\ m # 0
        BY <1>2, <4>1, <4>2, <4>5
      <4>7. m <= Len(stream'[t]) BY <1>3, <4>2
      <4>8. savedSeq[k][t] <= Len(stream'[t]) BY SMTT(40), <1>2, <1>3, <4>5, <4>7
      <4> QED BY <4>1, <4>3, <4>5, <4>6, <4>7, <4>8 DEF PositionOK
    <3>3. ASSUME SaveSeq(k, t)
          PROVE  PositionOK(seqMap'[k][t], savedSeq'[k][t], next'[k][t],
                            cur'[k][t], Len(stream'[t]))
      <4>1. /\ cur[k][t] # 0
            /\ seqMap'[k][t] = SaveResult(k, t, cur[k][t])
            /\ savedSeq'[k][t] = SaveResult(k, t, cur[k][t])
            /\ cur'[k][t] = 0
            /\ next'[k][t] = next[k][t]
        BY Zenon, <3>3, <1>k DEF SaveSeq, TypeOK
      <4>2. SaveResult(k, t, cur[k][t]) = cur[k][t]
        BY SMTT(40), <1>1, <1>2, <4>1 DEF SaveResult, PositionOK
      <4> QED BY <1>1, <1>2, <1>3, <4>1, <4>2, SMTT(30) DEF PositionOK
    <3> QED BY Zenon, <1>9, <2>2, <3>1, <3>2, <3>3 DEF Listener
  <2> QED BY Zenon, <2>1, <2>2
<1>10. CASE UNCHANGED vars BY Zenon, <1>4, <1>10 DEF vars, listener
<1> QED
  BY Zenon, <1>4, <1>5, <1>6, <1>7, <1>8, <1>9, <1>10 DEF Next, Publisher

-----------------------------------------------------------------------------
(* The rows *)

RowOK(n, r) ==
    r \in unstreamed[n] \/ Waiting(n, r) \/ Coming(n, r) \/ Current(n, r)

\* Coming and Current depend on the row, its stream and the position alone.
LEMMA RowFrame ==
    ASSUME NEW k, NEW r,
           UNCHANGED <<table[k][r], stream[ShardOf(r)],
                       savedSeq[k][ShardOf(r)], cur[k][ShardOf(r)]>>
    PROVE  /\ Coming(k, r) => Coming(k, r)'
           /\ Current(k, r) => Current(k, r)'
<1>1. Coming(k, r) => Coming(k, r)' BY Zenon DEF Coming
<1>2. Current(k, r) => Current(k, r)' BY DEF Current
<1> QED BY <1>1, <1>2

\* A captured change waits to be published.
LEMMA RowCapture ==
    ASSUME TypeOK, PublisherInv, NEW n \in Nodes, NEW e \in Event,
           Capture(n, e), pub' = pub, NEW k \in Nodes, NEW r
    PROVE  /\ Waiting(k, r) => Waiting(k, r)'
           /\ k = n /\ r = e.row => Waiting(k, r)'
<1>1. pending[n] \in Seq(Event) /\ pending \in [Nodes -> Seq(Event)]
  BY Zenon DEF TypeOK
<1>2. CASE k # n
  <2>1. pending'[k] = pending[k] BY <1>1, <1>2 DEF Capture
  <2> QED BY <1>2, <2>1 DEF Waiting
<1>3. CASE k = n
  <2>1. pending'[n] = Append(pending[n], e) BY <1>1 DEF Capture
  <2>2. /\ Len(pending'[n]) = Len(pending[n]) + 1
        /\ Len(pending[n]) \in Nat
        /\ \A i \in 1..Len(pending[n]) : pending'[n][i] = pending[n][i]
        /\ pending'[n][Len(pending[n]) + 1] = e
    BY <1>1, <2>1, AppendFacts
  <2>3. Waiting(n, r) => Waiting(n, r)'
    <3> SUFFICES ASSUME NEW i \in 1..Len(pending[n]), pending[n][i].row = r,
                        i > 1 \/ pub[n].pc = "idle"
                 PROVE  Waiting(n, r)'
      BY DEF Waiting
    <3>1. i \in 1..Len(pending'[n]) BY <2>2
    <3>2. pending'[n][i].row = r BY <2>2
    <3> QED BY <3>1, <3>2 DEF Waiting
  <2>4. ASSUME r = e.row PROVE Waiting(n, r)'
    <3>1. Len(pending[n]) = 0 => pending[n] = <<>> BY <1>1
    <3>2. Len(pending[n]) + 1 > 1 \/ pub[n].pc = "idle"
      BY <2>2, <3>1 DEF PublisherInv
    <3>3. Len(pending[n]) + 1 \in 1..Len(pending'[n]) BY <2>2
    <3> QED BY Zenon, <2>2, <2>4, <3>2, <3>3 DEF Waiting
  <2> QED BY <1>3, <2>3, <2>4
<1> QED BY <1>2, <1>3

\* Application statements preserve RowInv.
LEMMA RowApplication ==
    ASSUME TypeOK, PublisherInv, RowInv, NEW n \in Publish, Application(n)
    PROVE  RowInv'
<1> SUFFICES ASSUME NEW k \in Replicate, NEW r \in Rows
             PROVE  RowOK(k, r)'
  BY DEF RowInv, RowOK
<1>1. RowOK(k, r) BY DEF RowInv, RowOK
<1>2. n \in Nodes /\ k \in Nodes BY SMTT(40), ConfigAssumption
<1>3. ASSUME NEW q \in Rows, NEW v \in Cell, Write(n, q, v)
      PROVE  RowOK(k, r)'
  <2> DEFINE e == [row |-> q, val |-> v]
  <2>1. e \in Event /\ e.row = q BY DEF Event
  <2>2. Capture(n, e) /\ pub' = pub /\ unstreamed' = unstreamed
    BY Zenon, <1>3 DEF Write
  <2> HIDE DEF e
  <2>3. /\ Waiting(k, r) => Waiting(k, r)'
        /\ k = n /\ r = q => Waiting(k, r)'
    BY Zenon, <1>2, <2>1, <2>2, RowCapture
  <2>4. ASSUME ~(k = n /\ r = q)
        PROVE  /\ Coming(k, r) => Coming(k, r)'
               /\ Current(k, r) => Current(k, r)'
    <3>1. table'[k][r] = table[k][r] BY SMTT(40), <1>2, <1>3, <2>4 DEF Write, TypeOK
    <3> QED BY Zenon, <1>3, <3>1, RowFrame DEF Write, listener
  <2> QED BY <1>1, <2>2, <2>3, <2>4 DEF RowOK
<1>4. ASSUME NEW p \in Rows, NEW q \in Rows, UpdateKey(n, p, q)
      PROVE  RowOK(k, r)'
  <2> DEFINE e == [row |-> q, val |-> table[n][p]]
  <2>1. e \in Event /\ e.row = q BY <1>2 DEF Event, TypeOK
  <2>2. Capture(n, e) /\ pub' = pub BY <1>4 DEF UpdateKey
  <2> HIDE DEF e
  <2>3. /\ Waiting(k, r) => Waiting(k, r)'
        /\ k = n /\ r = q => Waiting(k, r)'
    BY Zenon, <1>2, <2>1, <2>2, RowCapture
  <2>4. ASSUME ~(k = n /\ r \in {p, q})
        PROVE  /\ Coming(k, r) => Coming(k, r)'
               /\ Current(k, r) => Current(k, r)'
    <3>1. table'[k][r] = table[k][r] BY Zenon, <1>2, <1>4, <2>4 DEF UpdateKey, TypeOK
    <3> QED BY Zenon, <1>4, <3>1, RowFrame DEF UpdateKey, listener
  <2>5. /\ unstreamed[k] \subseteq unstreamed'[k]
        /\ k = n => p \in unstreamed'[k]
    BY <1>2, <1>4 DEF UpdateKey, TypeOK
  <2> QED BY <1>1, <2>3, <2>4, <2>5 DEF RowOK
<1> QED BY Zenon, <1>3, <1>4 DEF Application

\* A message appended to a stream is ahead of every replica of its row, and
\* changes nothing for the other rows.
LEMMA RowAppend ==
    ASSUME TypeOK, PositionInv, NEW e \in Event,
           stream' = [stream EXCEPT ![ShardOf(e.row)] = Append(@, e)],
           UNCHANGED <<table, savedSeq, cur>>,
           NEW k \in Replicate, NEW r \in Rows
    PROVE  /\ r = e.row => Coming(k, r)'
           /\ Coming(k, r) => Coming(k, r)'
           /\ Current(k, r) => Current(k, r)' \/ r = e.row
<1> DEFINE s == ShardOf(e.row)
           t == ShardOf(r)
           len == Len(stream[s])
<1>1. e.row \in Rows BY DEF Event
<1>2. s \in Shard /\ t \in Shard BY Zenon, <1>1, ShardOfType
<1>3. stream \in [Shard -> Seq(Event)] /\ k \in Nodes
  BY ConfigAssumption DEF TypeOK
<1>4. stream'[s] = Append(stream[s], e) BY <1>2, <1>3
<1>5. stream[s] \in Seq(Event) BY Zenon, <1>2, <1>3
<1>6. /\ len \in Nat
      /\ Len(stream'[s]) = len + 1
      /\ \A i \in 1..len : stream'[s][i] = stream[s][i]
      /\ stream'[s][len + 1] = e
  BY SMTT(40), <1>4, <1>5, AppendFacts
<1>7. /\ savedSeq[k][s] \in Nat /\ cur[k][s] \in Nat
      /\ savedSeq[k][s] <= len
      /\ cur[k][s] <= len
  <2>1. savedSeq[k][s] \in Nat /\ cur[k][s] \in Nat
    BY SMTT(40), <1>2, <1>3 DEF TypeOK
  <2>2. /\ savedSeq[k][s] <= len
        /\ cur[k][s] = 0 \/ cur[k][s] <= len
    BY <1>2 DEF PositionInv
  <2> QED BY SMTT(40), <1>6, <2>1, <2>2
<1>8. CASE s # t
  <2>1. stream'[t] = stream[t] BY Zenon, <1>2, <1>3, <1>8
  <2>2. UNCHANGED <<table[k][r], savedSeq[k][t], cur[k][t]>> BY ZenonT(40)
  <2>3. /\ Coming(k, r) => Coming(k, r)'
        /\ Current(k, r) => Current(k, r)'
    BY <2>1, <2>2, RowFrame
  <2> QED BY <1>8, <2>3
<1>9. CASE s = t
  <2> HIDE DEF s, len
  <2>1. ASSUME r = e.row PROVE Coming(k, r)'
    <3>1. len + 1 \in 1..Len(stream'[t]) BY SMTT(40), <1>6, <1>9
    <3>2. /\ stream'[t][len + 1].row = r
          /\ len + 1 > savedSeq'[k][t]
          /\ len + 1 # cur'[k][t]
      BY SMTT(40), <1>6, <1>7, <1>9, <2>1
    <3> QED BY <3>1, <3>2 DEF Coming
  <2>2. ASSUME Coming(k, r) PROVE Coming(k, r)'
    <3>1. PICK i \in 1..Len(stream[t]) : /\ stream[t][i].row = r
                                         /\ i > savedSeq[k][t]
                                         /\ i # cur[k][t]
      BY <2>2 DEF Coming
    <3>2. i \in 1..Len(stream'[t]) BY <1>6, <1>9 DEF len
    <3>3. stream'[t][i] = stream[t][i] BY Zenon, <1>6, <1>9 DEF len
    <3> QED BY Zenon, <3>1, <3>2, <3>3 DEF Coming
  <2>3. ASSUME Current(k, r), r # e.row PROVE Current(k, r)'
    <3>1. ASSUME NEW i \in 1..Len(stream'[t]), IsLast(stream'[t], i, r)
          PROVE  table'[k][r] = stream'[t][i].val
      <4>1. i # len + 1 BY <1>6, <1>9, <2>3, <3>1 DEF IsLast
      <4>2. i \in 1..Len(stream[t]) BY <1>6, <1>9, <4>1 DEF len
      <4>3. \A j \in 1..Len(stream[t]) :
               j \in 1..Len(stream'[t]) /\ stream'[t][j] = stream[t][j]
        BY SMTT(40), <1>6, <1>9 DEF len
      <4>4. IsLast(stream[t], i, r) BY Zenon, <3>1, <4>2, <4>3 DEF IsLast
      <4> QED BY SMTT(40), <2>3, <4>2, <4>3, <4>4 DEF Current
    <3>2. ASSUME \A i \in 1..Len(stream'[t]) : stream'[t][i].row # r
          PROVE  table'[k][r] = Initial[r]
      <4>1. \A i \in 1..Len(stream[t]) : stream[t][i].row # r
        BY SMTT(40), <1>6, <1>9, <3>2 DEF len
      <4> QED BY <2>3, <4>1 DEF Current
    <3> QED BY Zenon, <3>1, <3>2 DEF Current
  <2> QED BY ZenonT(40), <2>1, <2>2, <2>3
<1> QED BY <1>8, <1>9

\* Publisher steps preserve RowInv.
LEMMA RowPublisher ==
    ASSUME SafeConfig, TypeOK, PublisherInv, PositionInv, RowInv,
           NEW n \in Nodes, Publisher(n)
    PROVE  RowInv'
<1> SUFFICES ASSUME NEW k \in Replicate, NEW r \in Rows
             PROVE  RowOK(k, r)'
  BY DEF RowInv, RowOK
<1>1. RowOK(k, r) BY DEF RowInv, RowOK
<1>2. k \in Nodes BY ConfigAssumption
<1>3. pending[n] \in Seq(Event) BY Zenon DEF TypeOK
<1> DEFINE e == Head(pending[n])
<1>4. ASSUME PublishEvent(n) \/ PublishError(n), Waiting(k, r)
      PROVE  Waiting(k, r)' \/ (k = n /\ r = e.row)
  <2>1. PICK i \in 1..Len(pending[k]) : /\ pending[k][i].row = r
                                        /\ i > 1 \/ pub[k].pc = "idle"
    BY Zenon, <1>4 DEF Waiting
  <2>2. pending' = pending BY ZenonT(40), <1>4 DEF PublishEvent, PublishError
  <2>3. k # n => pub'[k] = pub[k]
    BY Zenon, <1>2, <1>4 DEF PublishEvent, PublishError, TypeOK
  <2>4. CASE k = n /\ i = 1
    <3>1. pending[n] # <<>> BY Zenon, <1>4 DEF PublishEvent, PublishError
    <3>2. e = pending[n][1] BY <1>3, <3>1
    <3> QED BY Zenon, <2>1, <2>4, <3>2
  <2>5. CASE ~(k = n /\ i = 1)
    <3>1. i > 1 \/ pub'[k].pc = "idle" BY SMTT(40), <2>1, <2>3, <2>5
    <3> QED BY <2>1, <2>2, <3>1 DEF Waiting
  <2> QED BY Zenon, <2>4, <2>5
<1>5. ASSUME PublishEvent(n) \/ PublishError(n),
             stream' = [stream EXCEPT ![ShardOf(e.row)] = Append(@, e)],
             unstreamed' = unstreamed
      PROVE  RowOK(k, r)'
  <2>1. e \in Event BY Zenon, <1>5, HeadType DEF PublishEvent, PublishError
  <2>2. UNCHANGED <<table, savedSeq, cur>>
    BY <1>5 DEF PublishEvent, PublishError, listener
  <2> HIDE DEF e
  <2>3. /\ r = e.row => Coming(k, r)'
        /\ Coming(k, r) => Coming(k, r)'
        /\ Current(k, r) => Current(k, r)' \/ r = e.row
    BY ZenonT(40), <1>5, <2>1, <2>2, RowAppend
  <2> QED BY Zenon, <1>1, <1>4, <1>5, <2>3 DEF RowOK
<1>6. CASE PublishEvent(n)
  BY <1>5, <1>6 DEF PublishEvent
<1>7. CASE PublishError(n)
  <2>1. \/ /\ unstreamed' = [unstreamed EXCEPT ![n] = @ \cup {e.row}]
           /\ stream' = stream
        \/ /\ stream' = [stream EXCEPT ![ShardOf(e.row)] = Append(@, e)]
           /\ unstreamed' = unstreamed
    BY ZenonT(40), <1>7 DEF PublishError
  <2>2. ASSUME unstreamed' = [unstreamed EXCEPT ![n] = @ \cup {e.row}],
               stream' = stream
        PROVE  RowOK(k, r)'
    <3>1. /\ unstreamed[k] \subseteq unstreamed'[k]
          /\ k = n => e.row \in unstreamed'[k]
      BY Zenon, <1>2, <2>2 DEF TypeOK
    <3>2. /\ Coming(k, r) => Coming(k, r)'
          /\ Current(k, r) => Current(k, r)'
      BY <1>7, <2>2, RowFrame DEF PublishError, listener
    <3> QED BY Zenon, <1>1, <1>4, <1>7, <3>1, <3>2 DEF RowOK
  <2> QED BY Zenon, <1>5, <1>7, <2>1, <2>2
<1>8. CASE SaveAck(n)
  <2>1. /\ Coming(k, r) => Coming(k, r)'
        /\ Current(k, r) => Current(k, r)'
    BY <1>8, RowFrame DEF SaveAck, listener
  <2>2. \A i : (i > 1 \/ pub[k].pc = "idle") => (i > 1 \/ pub'[k].pc = "idle")
    BY Zenon, <1>2, <1>8 DEF SaveAck, TypeOK
  <2>3. Waiting(k, r) => Waiting(k, r)' BY SMTT(40), <1>8, <2>2 DEF Waiting, SaveAck
  <2> QED BY <1>1, <1>8, <2>1, <2>3 DEF RowOK, SaveAck
<1>9. CASE MarkPublished(n)
  <2>1. /\ Coming(k, r) => Coming(k, r)'
        /\ Current(k, r) => Current(k, r)'
    BY <1>9, RowFrame DEF MarkPublished, listener
  <2>2. ASSUME Waiting(k, r) PROVE Waiting(k, r)'
    <3>1. PICK i \in 1..Len(pending[k]) : /\ pending[k][i].row = r
                                          /\ i > 1 \/ pub[k].pc = "idle"
      BY Zenon, <2>2 DEF Waiting
    <3>2. CASE k # n
      <4>1. pending'[k] = pending[k] /\ pub'[k] = pub[k]
        BY Zenon, <1>2, <1>9, <3>2 DEF MarkPublished, TypeOK
      <4> QED BY Zenon, <3>1, <4>1 DEF Waiting
    <3>3. CASE k = n
      <4>1. /\ pending'[n] = Tail(pending[n])
            /\ pub'[n].pc = "idle"
            /\ pub[n].pc = "mark"
        BY <1>9 DEF MarkPublished, TypeOK, Idle
      <4>2. pending[n] # <<>> BY <4>1 DEF PublisherInv
      <4>3. i > 1 BY <3>1, <3>3, <4>1
      <4>4. i - 1 \in 1..Len(Tail(pending[n]))
        BY <1>3, <3>1, <3>3, <4>2, <4>3
      <4>5. Tail(pending[n])[i - 1] = pending[n][i]
        BY <1>3, <3>1, <3>3, <4>2, <4>3
      <4> QED BY ZenonT(40), <3>1, <3>3, <4>1, <4>4, <4>5 DEF Waiting
    <3> QED BY <3>2, <3>3
  <2> QED BY SMTT(40), <1>1, <1>9, <2>1, <2>2 DEF RowOK, MarkPublished
<1> QED BY Zenon, <1>6, <1>7, <1>8, <1>9 DEF Publisher

\* Saving the number after the one in the map returns it.
LEMMA SaveNext ==
    ASSUME NEW n, NEW s, NEW seq, seqMap[n][s] \in Nat, seq = seqMap[n][s] + 1
    PROVE  SaveResult(n, s, seq) = seqMap[n][s] + 1
BY DEF SaveResult

\* Listener steps preserve RowInv.
LEMMA RowListener ==
    ASSUME TypeOK, ShardInv, PositionInv, RowInv,
           NEW n \in Nodes, NEW s \in Shard, Listener(n, s)
    PROVE  RowInv'
<1> SUFFICES ASSUME NEW k \in Replicate, NEW r \in Rows
             PROVE  RowOK(k, r)'
  BY Zenon DEF RowInv, RowOK
<1> DEFINE t == ShardOf(r)
<1>1. RowOK(k, r) BY DEF RowInv, RowOK
<1>2. k \in Nodes /\ t \in Shard BY SMTT(40), ConfigAssumption, ShardOfType
<1>3. pending' = pending /\ pub' = pub /\ stream' = stream
  BY DEF Listener, Skip, Replay, SaveSeq
<1>4. Waiting(k, r) => Waiting(k, r)' BY Zenon, <1>3 DEF Waiting
<1>5. ASSUME NEW m \in 1..Len(stream[s]), Skip(n, s, m) PROVE RowOK(k, r)'
  <2>1. /\ Coming(k, r) => Coming(k, r)'
        /\ Current(k, r) => Current(k, r)'
    BY Zenon, <1>5, RowFrame DEF Skip
  <2> QED BY Zenon, <1>1, <1>4, <1>5, <2>1 DEF RowOK, Skip
<1>6. ASSUME NEW m \in 1..Len(stream[s]), Replay(n, s, m) PROVE RowOK(k, r)'
  <2> DEFINE e == stream[s][m]
  <2>1. stream[s] \in Seq(Event) BY Zenon DEF TypeOK
  <2>2. e \in Event /\ m \in Nat BY <2>1
  <2>3. e.row \in Rows BY <2>2 DEF Event
  <2>4. ShardOf(e.row) = s BY Zenon DEF ShardInv
  <2>5. savedSeq' = savedSeq /\ cur' = [cur EXCEPT ![n][s] = m]
    BY Zenon, <1>6 DEF Replay
  <2>6. n \in Replicate => /\ table' = [table EXCEPT ![n][e.row] = e.val]
                           /\ unstreamed' = [unstreamed EXCEPT ![n] = @ \ {e.row}]
    BY <1>6 DEF Replay
  <2>7. n \notin Replicate => table' = table /\ unstreamed' = unstreamed
    BY SMTT(40), <1>6 DEF Replay
  <2> HIDE DEF e
  <2>8. CASE n = k /\ r = e.row
    <3>1. s = t BY <2>4, <2>8
    <3>2. table'[k][r] = e.val
      <4>1. table \in [Nodes -> [Rows -> Cell]] BY DEF TypeOK
      <4>2. table' = [table EXCEPT ![k][r] = e.val] BY Zenon, <2>6, <2>8
      <4> QED BY Zenon, <1>2, <4>1, <4>2
    <3>3. cur'[k][t] = m BY Zenon, <1>2, <2>5, <2>8, <3>1 DEF TypeOK
    <3>4. m = savedSeq[k][t] + 1
      <4>1. /\ cur[k][t] = 0
            /\ m <= next[k][t]
            /\ m > savedSeq[k][t]
        BY Zenon, <1>6, <2>8, <3>1 DEF Replay, Delivers
      <4>2. next[k][t] \in Nat /\ savedSeq[k][t] \in Nat BY SMTT(40), <1>2 DEF TypeOK
      <4>3. next[k][t] <= savedSeq[k][t] + 1 BY <1>2, <4>1 DEF PositionInv
      <4>4. \A a, b \in Nat : m <= b /\ m > a /\ b <= a + 1 => m = a + 1
        BY SMTT(40), <2>2
      <4> QED BY Zenon, <4>1, <4>2, <4>3, <4>4
    <3>5. ASSUME ~Coming(k, r)' PROVE Current(k, r)'
      <4>1. savedSeq[k][t] \in Nat BY SMTT(40), <1>2 DEF TypeOK
      <4>2. \A i \in 1..Len(stream[t]) : i > m => stream[t][i].row # r
        <5> SUFFICES ASSUME NEW i \in 1..Len(stream[t]), i > m,
                            stream[t][i].row = r
                     PROVE  FALSE
          BY Zenon
        <5>1. i > savedSeq'[k][t] /\ i # cur'[k][t]
          BY SMTT(40), <2>2, <2>5, <3>3, <3>4, <4>1
        <5> QED BY Zenon, <1>3, <3>5, <5>1 DEF Coming
      <4>3. m \in 1..Len(stream[t]) /\ stream[t][m] = e
        BY Zenon, <3>1 DEF e
      <4>4. ASSUME NEW i \in 1..Len(stream[t]), IsLast(stream[t], i, r)
            PROVE  table'[k][r] = stream[t][i].val
        <5>1. ~(i > m) BY Zenon, <4>2, <4>4 DEF IsLast
        <5>2. ~(m > i) BY <2>8, <4>3, <4>4 DEF IsLast
        <5>3. i = m BY SMTT(40), <2>2, <5>1, <5>2
        <5> QED BY Zenon, <3>2, <4>3, <5>3
      <4>5. ~ \A i \in 1..Len(stream[t]) : stream[t][i].row # r
        BY SMTT(40), <2>8, <4>3
      <4> QED BY Zenon, <1>3, <4>4, <4>5 DEF Current
    <3> QED BY <3>5 DEF RowOK
  <2>9. CASE ~(n = k /\ r = e.row)
    <3>t. /\ table \in [Nodes -> [Rows -> Cell]]
          /\ unstreamed \in [Nodes -> SUBSET Rows]
      BY ZenonT(40) DEF TypeOK
    <3>1. table'[k][r] = table[k][r]
      <4>1. CASE n \notin Replicate BY Zenon, <2>7, <4>1
      <4>2. CASE n \in Replicate /\ n # k BY Zenon, <1>2, <2>6, <3>t, <4>2
      <4>3. CASE n = k /\ r # e.row BY SMTT(40), <1>2, <2>3, <2>6, <3>t, <4>3
      <4> QED BY <2>9, <4>1, <4>2, <4>3
    <3>2. r \in unstreamed[k] => r \in unstreamed'[k]
      <4>1. CASE n \notin Replicate BY <2>7, <4>1
      <4>2. CASE n \in Replicate /\ n # k BY <1>2, <2>6, <3>t, <4>2
      <4>3. CASE n = k /\ r # e.row BY SMTT(40), <1>2, <2>3, <2>6, <3>t, <4>3
      <4> QED BY Zenon, <2>9, <4>1, <4>2, <4>3
    <3>3. Current(k, r) => Current(k, r)'
      BY <1>3, <3>1 DEF Current
    <3>4. ASSUME Coming(k, r) PROVE Coming(k, r)'
      <4>1. PICK i \in 1..Len(stream[t]) : /\ stream[t][i].row = r
                                           /\ i > savedSeq[k][t]
                                           /\ i # cur[k][t]
        BY Zenon, <3>4 DEF Coming
      <4>2. i # cur'[k][t]
        <5>1. CASE n = k /\ s = t
          <6>1. cur'[k][t] = m BY Zenon, <1>2, <2>5, <5>1 DEF TypeOK
          <6>2. stream[t][m].row # r BY Zenon, <2>9, <5>1 DEF e
          <6> QED BY Zenon, <4>1, <6>1, <6>2
        <5>2. CASE ~(n = k /\ s = t)
          <6>1. cur'[k][t] = cur[k][t] BY ZenonT(40), <1>2, <2>5, <5>2 DEF TypeOK
          <6> QED BY Zenon, <4>1, <6>1
        <5> QED BY Zenon, <5>1, <5>2
      <4> QED BY Zenon, <1>3, <2>5, <4>1, <4>2 DEF Coming
    <3> QED BY <1>1, <1>4, <3>2, <3>3, <3>4 DEF RowOK
  <2> QED BY <2>8, <2>9
<1>7. ASSUME SaveSeq(n, s) PROVE RowOK(k, r)'
  <2>1. table' = table /\ unstreamed' = unstreamed BY Zenon, <1>7 DEF SaveSeq
  <2>2. Current(k, r) => Current(k, r)' BY Zenon, <1>3, <2>1 DEF Current
  <2>3. ASSUME Coming(k, r) PROVE Coming(k, r)'
    <3>1. PICK i \in 1..Len(stream[t]) : /\ stream[t][i].row = r
                                         /\ i > savedSeq[k][t]
                                         /\ i # cur[k][t]
      BY Zenon, <2>3 DEF Coming
    <3>2. i > savedSeq'[k][t] /\ i # cur'[k][t]
      <4>1. CASE n = k /\ s = t
        <5>1. /\ cur[k][t] # 0
              /\ savedSeq'[k][t] = SaveResult(k, t, cur[k][t])
              /\ cur'[k][t] = 0
          BY Zenon, <1>2, <1>7, <4>1 DEF SaveSeq, TypeOK
        <5>2. /\ seqMap[k][t] = savedSeq[k][t]
              /\ cur[k][t] = savedSeq[k][t] + 1
          BY Zenon, <1>2, <5>1 DEF PositionInv
        <5>3. savedSeq[k][t] \in Nat BY ZenonT(40), <1>2 DEF TypeOK
        <5>4. savedSeq'[k][t] = savedSeq[k][t] + 1
          BY Zenon, <5>1, <5>2, <5>3, SaveNext
        <5>5. i \in Nat /\ i # 0 OBVIOUS
        <5>6. \A a \in Nat : i > a /\ i # a + 1 => i > a + 1 BY SMTT(40), <5>5
        <5>7. i > savedSeq[k][t] + 1 BY Zenon, <3>1, <5>2, <5>3, <5>6
        <5> QED BY Zenon, <5>1, <5>4, <5>5, <5>7
      <4>2. CASE ~(n = k /\ s = t)
        <5>1. savedSeq'[k][t] = savedSeq[k][t] /\ cur'[k][t] = cur[k][t]
          BY Zenon, <1>2, <1>7, <4>2 DEF SaveSeq, TypeOK
        <5> QED BY Zenon, <3>1, <5>1
      <4> QED BY Zenon, <4>1, <4>2
    <3> QED BY Zenon, <1>3, <3>1, <3>2 DEF Coming
  <2> QED BY <1>1, <1>4, <2>1, <2>2, <2>3 DEF RowOK
<1> QED BY Zenon, <1>5, <1>6, <1>7 DEF Listener

\* A restart preserves RowInv: what was replayed and not saved is ahead again.
LEMMA RowRestart ==
    ASSUME TypeOK, PositionInv, RowInv, NEW n \in Nodes, Restart(n)
    PROVE  RowInv'
<1> SUFFICES ASSUME NEW k \in Replicate, NEW r \in Rows
             PROVE  RowOK(k, r)'
  BY DEF RowInv, RowOK
<1> DEFINE t == ShardOf(r)
<1>1. RowOK(k, r) BY DEF RowInv, RowOK
<1>2. k \in Nodes /\ t \in Shard BY ConfigAssumption, ShardOfType
<1>3. UNCHANGED <<table, pending, stream, unstreamed>> BY Zenon DEF Restart
<1>4. Current(k, r) => Current(k, r)' BY Zenon, <1>3 DEF Current
<1>5. ASSUME Coming(k, r) PROVE Coming(k, r)'
  <2>1. PICK i \in 1..Len(stream[t]) : /\ stream[t][i].row = r
                                       /\ i > savedSeq[k][t]
                                       /\ i # cur[k][t]
    BY Zenon, <1>5 DEF Coming
  <2>2. savedSeq'[k][t] = savedSeq[k][t]
    BY SMTT(40), <1>2 DEF Restart, PositionInv, TypeOK
  <2>3. cur'[k][t] = cur[k][t] \/ cur'[k][t] = 0
    BY <1>2 DEF Restart, TypeOK
  <2>a. i # 0 BY SMTT(40)
  <2>4. i # cur'[k][t] BY <2>1, <2>3, <2>a
  <2>5. stream' = stream BY ZenonT(40), <1>3
  <2> QED BY Zenon, <2>1, <2>2, <2>4, <2>5 DEF Coming
<1>6. ASSUME Waiting(k, r) PROVE Waiting(k, r)'
  <2>1. pub'[k] = pub[k] \/ pub'[k].pc = "idle"
    BY <1>2 DEF Restart, Idle, TypeOK
  <2>2. PICK i \in 1..Len(pending[k]) : /\ pending[k][i].row = r
                                        /\ i > 1 \/ pub[k].pc = "idle"
    BY Zenon, <1>6 DEF Waiting
  <2>3. i > 1 \/ pub'[k].pc = "idle" BY Zenon, <2>1, <2>2
  <2> QED BY ZenonT(40), <1>3, <2>2, <2>3 DEF Waiting
<1> QED BY Zenon, <1>1, <1>3, <1>4, <1>5, <1>6 DEF RowOK

-----------------------------------------------------------------------------
(* The theorems *)

\* The inductive invariant holds initially.
LEMMA IndInvInit == Init => IndInv
<1> SUFFICES ASSUME Init PROVE IndInv OBVIOUS
<1>1. TypeOK BY Zenon, TypeInit
<1>2. PublisherInv BY Zenon DEF Init, PublisherInv, Idle
<1>3. \A s \in Shard : stream[s] = <<>> /\ Len(stream[s]) = 0 BY DEF Init
<1>4. ShardInv BY SMTT(40), <1>3 DEF ShardInv
<1>5. PositionInv BY SMTT(40), <1>3, ConfigAssumption DEF Init, PositionInv
<1>6. RowInv
  <2> SUFFICES ASSUME NEW n \in Replicate, NEW r \in Rows PROVE Current(n, r)
    BY Zenon DEF RowInv
  <2>1. table[n][r] = Initial[r] BY ConfigAssumption DEF Init
  <2>2. Len(stream[ShardOf(r)]) = 0 BY <1>3, ShardOfType
  <2> QED BY SMTT(40), <2>1, <2>2 DEF Current
<1> QED BY <1>1, <1>2, <1>4, <1>5, <1>6 DEF IndInv

\* Every step keeps the types and the publisher's invariant, in any
\* configuration.
LEMMA TypeStep ==
    ASSUME TypeOK, PublisherInv, [Next]_vars
    PROVE  TypeOK' /\ PublisherInv'
<1>1. ASSUME UNCHANGED vars PROVE TypeOK'
  BY Zenon, <1>1 DEF vars, listener, counters, TypeOK
<1>2. ASSUME Next PROVE TypeOK'
  BY <1>2, TypeApplication, TypePublisher, TypeListener, TypeRestart DEF Next
<1> QED BY Zenon, <1>1, <1>2, PublisherStep

\* The inductive invariant is preserved by every step.
LEMMA IndInvStep ==
    ASSUME SafeConfig, IndInv, [Next]_vars
    PROVE  IndInv'
<1> TypeOK /\ PublisherInv /\ ShardInv /\ PositionInv /\ RowInv BY DEF IndInv
<1>1. TypeOK' /\ PublisherInv' BY TypeStep
<1>2. ShardInv' BY ShardStep
<1>3. PositionInv' BY PositionStep
<1>4. RowInv'
  <2>1. CASE UNCHANGED vars
    <3>1. /\ table' = table /\ pending' = pending /\ stream' = stream
          /\ pub' = pub /\ savedSeq' = savedSeq /\ cur' = cur
          /\ unstreamed' = unstreamed
      BY <2>1 DEF vars, listener
    <3>2. ASSUME NEW n \in Replicate, NEW r \in Rows
          PROVE  /\ Waiting(n, r) => Waiting(n, r)'
                 /\ Coming(n, r) => Coming(n, r)'
                 /\ Current(n, r) => Current(n, r)'
      <4>1. Waiting(n, r) => Waiting(n, r)' BY Zenon, <3>1 DEF Waiting
      <4>2. Coming(n, r) => Coming(n, r)' BY Zenon, <3>1 DEF Coming
      <4>3. Current(n, r) => Current(n, r)' BY Zenon, <3>1 DEF Current
      <4> QED BY Zenon, <4>1, <4>2, <4>3
    <3> QED BY <3>1, <3>2 DEF RowInv
  <2>2. CASE Next
    BY <2>2, RowApplication, RowPublisher, RowListener, RowRestart DEF Next
  <2> QED BY SMTT(40), <2>1, <2>2
<1> QED BY <1>1, <1>2, <1>3, <1>4 DEF IndInv

\* Type correctness, in every configuration: stored rows and events stay well
\* formed and every publisher is at one of its steps.
THEOREM TypeCorrect == Spec => []TypeOK
<1>1. Init => TypeOK /\ PublisherInv BY IndInvInit DEF IndInv
<1>2. (TypeOK /\ PublisherInv) /\ [Next]_vars => (TypeOK /\ PublisherInv)'
  BY TypeStep
<1> QED BY <1>1, <1>2, PTL DEF Spec

\* The inductive invariant holds in every reachable state of a safe
\* configuration.
THEOREM Inductive == ASSUME SafeConfig PROVE Spec => []IndInv
<1>1. Init => IndInv BY IndInvInit
<1>2. IndInv /\ [Next]_vars => IndInv' BY Zenon, IndInvStep
<1> QED BY <1>1, <1>2, PTL DEF Spec

\* The invariant implies the property: a settled replica has no change
\* waiting and no message ahead.
LEMMA IndInvImplies == IndInv => LastWriterWins
<1> SUFFICES ASSUME IndInv, NEW n \in Replicate, Settled(n),
                    NEW r \in Rows \ unstreamed[n]
             PROVE  Current(n, r)
  BY Zenon DEF LastWriterWins
<1> DEFINE t == ShardOf(r)
<1>1. n \in Nodes /\ t \in Shard BY SMTT(40), ConfigAssumption, ShardOfType
<1>2. Len(pending[n]) = 0 BY DEF Settled
<1>3. ~Waiting(n, r) BY SMTT(40), <1>2 DEF Waiting
<1>4. /\ cur[n][t] = 0
      /\ next[n][t] = Len(stream[t]) + 1
      /\ next[n][t] <= savedSeq[n][t] + 1
  BY Zenon, <1>1 DEF Settled, IndInv, PositionInv
<1>5. savedSeq[n][t] \in Nat /\ Len(stream[t]) \in Nat
  BY SMTT(40), <1>1 DEF IndInv, TypeOK
<1>a. Len(stream[t]) + 1 <= savedSeq[n][t] + 1 BY Zenon, <1>4
<1>b. \A a, l \in Nat : l + 1 <= a + 1 => \A i \in 1..l : ~(i > a) BY SMTT(40)
<1>c. \A i \in 1..Len(stream[t]) : ~(i > savedSeq[n][t]) BY Zenon, <1>5, <1>a, <1>b
<1>6. ~Coming(n, r) BY <1>c DEF Coming
<1> QED BY Zenon, <1>3, <1>6 DEF IndInv, RowInv

\* The last writer wins on every replica, in every configuration in which
\* only listeners write the replicas' sequence maps.
THEOREM LastWriterWinsHolds == ASSUME SafeConfig PROVE Spec => []LastWriterWins
BY Inductive, IndInvImplies, PTL

\* The sequence map of a replica moves from one message to the next, right
\* after that message was replayed, in the same configurations.
THEOREM SavedOnlyAfterReplayHolds ==
    ASSUME SafeConfig PROVE Spec => SavedOnlyAfterReplay
<1> DEFINE Step == \A n \in Replicate, s \in Shard :
                      seqMap'[n][s] # seqMap[n][s] =>
                          /\ seqMap'[n][s] = seqMap[n][s] + 1
                          /\ seqMap'[n][s] = cur[n][s]
<1>1. IndInv /\ [Next]_vars => [Step]_vars
  <2> SUFFICES ASSUME IndInv, Next, NEW k \in Replicate, NEW t \in Shard,
                      seqMap'[k][t] # seqMap[k][t]
               PROVE  /\ seqMap'[k][t] = seqMap[k][t] + 1
                      /\ seqMap'[k][t] = cur[k][t]
    BY ZenonT(40)
  <2>1. k \in Nodes BY ZenonT(40), ConfigAssumption
  <2>2. TypeOK /\ PublisherInv /\ PositionInv BY Zenon DEF IndInv
  <2>3. ASSUME NEW n \in Nodes, SaveAck(n) PROVE FALSE
    <3>1. n # k BY Zenon, <2>2, <2>3 DEF SafeConfig, PublisherInv, SaveAck
    <3> QED BY <2>1, <2>2, <2>3, <3>1 DEF SaveAck, TypeOK
  <2>4. ASSUME NEW n \in Nodes, NEW s \in Shard, SaveSeq(n, s)
        PROVE  /\ seqMap'[k][t] = seqMap[k][t] + 1
               /\ seqMap'[k][t] = cur[k][t]
    <3>1. n = k /\ s = t BY Zenon, <2>1, <2>2, <2>4 DEF SaveSeq, TypeOK
    <3>2. cur[k][t] # 0 /\ seqMap'[k][t] = SaveResult(k, t, cur[k][t])
      BY Zenon, <2>1, <2>2, <2>4, <3>1 DEF SaveSeq, TypeOK
    <3>3. cur[k][t] = seqMap[k][t] + 1 /\ seqMap[k][t] \in Nat
      BY ZenonT(40), <2>1, <2>2, <3>2 DEF PositionInv, TypeOK
    <3> QED BY Zenon, <3>2, <3>3 DEF SaveResult
  <2>5. ASSUME NEW n \in Publish, Application(n) PROVE seqMap' = seqMap
    BY ZenonT(40), <2>5 DEF Application, Write, UpdateKey
  <2>6. ASSUME NEW n \in Nodes, PublishEvent(n) \/ PublishError(n)
                                  \/ MarkPublished(n) \/ Restart(n)
        PROVE  seqMap' = seqMap
    BY Zenon, <2>6 DEF PublishEvent, PublishError, MarkPublished, Restart
  <2>7. ASSUME NEW n \in Nodes, NEW s \in Shard, NEW m \in 1..Len(stream[s]),
               Skip(n, s, m) \/ Replay(n, s, m)
        PROVE  seqMap' = seqMap
    BY <2>7 DEF Skip, Replay
  <2> QED BY ZenonT(40), <2>3, <2>4, <2>5, <2>6, <2>7 DEF Next, Publisher, Listener
<1>2. Spec => [][Next]_vars BY PTL DEF Spec
<1> QED BY <1>1, <1>2, Inductive, PTL DEF SavedOnlyAfterReplay
=============================================================================
