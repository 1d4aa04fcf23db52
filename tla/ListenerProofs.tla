---------------------------- MODULE ListenerProofs -----------------------------
(* Machine-checked proofs about module Listener, for any set of shards, any  *)
(* number of attempts, any configurations and every bound.                   *)
EXTENDS Listener, TLAPS

\* Appending to an inbox, and taking its first message.
LEMMA InboxFacts ==
    ASSUME NEW q \in Seq(Nat), NEW x \in Nat
    PROVE  /\ Append(q, x) \in Seq(Nat)
           /\ Len(q) \in Nat
           /\ Len(Append(q, x)) = Len(q) + 1
           /\ \A i \in 1..Len(q) : Append(q, x)[i] = q[i]
           /\ Append(q, x)[Len(q) + 1] = x
           /\ q # <<>> => /\ Len(q) > 0
                          /\ Head(q) = q[1]
                          /\ Tail(q) \in Seq(Nat)
                          /\ Len(Tail(q)) = Len(q) - 1
                          /\ \A i \in 1..(Len(q) - 1) : Tail(q)[i] = q[i + 1]
OBVIOUS

\* The types, in parts.
ConsumerTypes ==
    /\ length    \in [Shards -> Nat]
    /\ consumers \subseteq Shards
    /\ sent      \in [Shards -> Nat]
    /\ unacked   \in [Shards -> SUBSET Nat]
    /\ inbox     \in [Shards -> Seq(Nat)]
    /\ lost      \in [Shards -> SUBSET Nat]
LocalTypes ==
    /\ pc        \in [Shards -> Steps]
    /\ msg       \in [Shards -> Nat]
    /\ attempt   \in [Shards -> 0..(maxReplicateRetries - 1)]
    /\ savedSeq  \in [Shards -> Nat]
StateTypes ==
    /\ seq       \in [Shards -> Nat]
    /\ file      \in [Shards -> Nat]
    /\ disk      \in {"whole", "torn"}
    /\ own       \in [Shards -> Nat]
    /\ acked     \in [Shards -> Nat]
    /\ applied   \in [Shards -> SUBSET Nat]
ProcessTypes ==
    /\ proc      \in {"down", "up", "canceled"}
    /\ conn      \in {"open", "closed"}
    /\ config    \in Configs
    /\ faults    \in Nat
    /\ starts    \in Nat

LEMMA TypeParts ==
    /\ TypeOK <=> ConsumerTypes /\ LocalTypes /\ StateTypes /\ ProcessTypes
    /\ TypeOK' <=> ConsumerTypes' /\ LocalTypes' /\ StateTypes' /\ ProcessTypes'
BY Zenon DEF TypeOK, ConsumerTypes, LocalTypes, StateTypes, ProcessTypes

\* What a stream discarded, and what follows for a consumer.
LEMMA DiscardFacts ==
    ASSUME ConsumerTypes, ProcessTypes, NEW s \in Shards
    PROVE  /\ Discarded(s) \in Nat /\ Following(s) \in Nat
           /\ sent[s] < Following(s)
           /\ \A k \in Nat : k < Following(s) => k <= sent[s] \/ k <= Discarded(s)
           /\ /\ length'[s] = length[s] + 1 /\ config' = config
              => Discarded(s)' \in {Discarded(s), Discarded(s) + 1}
<1>1. config.maxMsgs \in Nat /\ length[s] \in Nat /\ sent[s] \in Nat
  BY ListenerAssumption DEF ConsumerTypes, ProcessTypes, Config
<1> QED BY SMTT(20), <1>1 DEF Discarded, Following

\* Every step keeps the types of the streams and their consumers.
LEMMA ConsumerTypesStep ==
    ASSUME ConsumerTypes, ProcessTypes, [Next]_vars
    PROVE  ConsumerTypes'
<1> USE InboxFacts DEF ConsumerTypes
<1>1. ASSUME NEW s \in Shards, Publish(s) PROVE ConsumerTypes'
  BY <1>1 DEF Publish, Store, consumer
<1>2. ASSUME NEW s \in Shards, Subscribe(s) PROVE ConsumerTypes'
  BY <1>2 DEF Subscribe, Goto, consumer
<1>3. ASSUME NEW s \in Shards, NextMsg(s) PROVE ConsumerTypes'
  BY Zenon, <1>3 DEF NextMsg, Goto, consumer
<1>4. ASSUME NEW s \in Shards, Ack(s) PROVE ConsumerTypes'
  BY Zenon, <1>4 DEF Ack, Drop, Goto, consumer
<1>5. ASSUME NEW s \in Shards, Deliver(s) PROVE ConsumerTypes'
  BY <1>5, DiscardFacts DEF Deliver, FirstDelivery, consumer
<1>6. ASSUME NEW s \in Shards, Lose(s) PROVE ConsumerTypes'
  BY <1>6, DiscardFacts DEF Lose, FirstDelivery, Fault, consumer
<1>7. ASSUME NEW s \in Shards, RemoveConsumer(s) PROVE ConsumerTypes'
  BY Zenon, <1>7 DEF RemoveConsumer, Fault, consumer
<1>8. ASSUME NEW s \in Shards, NEW m \in unacked[s], Redeliver(s, m)
      PROVE  ConsumerTypes'
  BY Zenon, <1>8 DEF Redeliver, consumer
<1>16. ASSUME NEW s \in Shards, NEW m \in unacked[s], Forget(s, m)
      PROVE  ConsumerTypes'
  BY Zenon, <1>16 DEF Forget, consumer
<1>17. ASSUME NEW s \in Shards, PublishOwn(s) PROVE ConsumerTypes'
  BY <1>17 DEF PublishOwn, Store, consumer
<1>9. CASE Panic
  BY <1>9 DEF Panic, Down, consumer
<1>10. CASE Exit
  BY <1>10 DEF Exit, Down, consumer
<1>11. CASE Crash
  BY <1>11 DEF Crash, Down, Fault, consumer
<1>12. ASSUME UNCHANGED <<length, consumer>> PROVE ConsumerTypes'
  BY Zenon, <1>12 DEF consumer
<1>13. ASSUME NEW s \in Shards,
             Closed(s) \/ CallbackOK(s) \/ CallbackError(s) \/
             CallbackCanceled(s) \/ Save(s) \/ SaveError(s) \/
             RequestError(s) \/ SaveOwn(s) \/ SaveOwnError(s)
      PROVE  UNCHANGED <<length, consumer>>
  BY Zenon, <1>13 DEF SaveOwn, SaveOwnError, OwnSaved, Closed, Goto, CallbackOK, CallbackError, Drop,
     CallbackCanceled, Save, SaveError, Fault, RequestError, consumer, local,
     state, process
<1>14. ASSUME Start \/ Cancel \/ Disconnect PROVE UNCHANGED <<length, consumer>>
  BY Zenon, <1>14 DEF Start, Cancel, Disconnect, Fault, consumer, local, state,
     process
<1>15. ASSUME UNCHANGED vars PROVE UNCHANGED <<length, consumer>>
  BY Zenon, <1>15 DEF vars, consumer, local, state, publisher, process
<1> QED
  BY Zenon, <1>1, <1>2, <1>3, <1>4, <1>5, <1>6, <1>7, <1>8, <1>9, <1>10, <1>11,
     <1>12, <1>13, <1>14, <1>15, <1>16, <1>17 DEF Next, Listen

\* Every step keeps the types of a listener's variables.
LEMMA LocalTypesStep ==
    ASSUME ConsumerTypes, LocalTypes, StateTypes, [Next]_vars
    PROVE  LocalTypes'
<1> USE ListenerAssumption DEF LocalTypes, Steps
<1>1. ASSUME NEW s \in Shards, Subscribe(s) PROVE LocalTypes'
  BY Zenon, <1>1 DEF Subscribe, Goto, StateTypes
<1>2. ASSUME NEW s \in Shards, NextMsg(s) PROVE LocalTypes'
  <2>1. inbox[s] # <<>> => Head(inbox[s]) \in Nat
    BY SMTT(20), InboxFacts DEF ConsumerTypes
  <2> QED BY Zenon, <1>2, <2>1 DEF NextMsg, Goto
<1>3. ASSUME NEW s \in Shards, Closed(s) PROVE LocalTypes'
  BY Zenon, <1>3 DEF Closed, Goto, local
<1>4. ASSUME NEW s \in Shards, CallbackOK(s) PROVE LocalTypes'
  BY <1>4 DEF CallbackOK, Goto, local
<1>5. ASSUME NEW s \in Shards, CallbackError(s) PROVE LocalTypes'
  BY <1>5 DEF CallbackError, Drop, Goto, local
<1>6. ASSUME NEW s \in Shards, CallbackCanceled(s) PROVE LocalTypes'
  BY <1>6 DEF CallbackCanceled, Drop, Goto, local
<1>7. ASSUME NEW s \in Shards, Save(s) PROVE LocalTypes'
  <2>1. seq'[s] \in Nat
    BY Zenon, <1>7 DEF Save, SavePosition, StateTypes, state
  <2> QED BY Zenon, <1>7, <2>1 DEF Save, Goto
<1>8. ASSUME NEW s \in Shards, SaveError(s) PROVE LocalTypes'
  BY <1>8 DEF SaveError, Drop, Goto, Fault, local
<1>9. ASSUME NEW s \in Shards, Ack(s) PROVE LocalTypes'
  BY <1>9 DEF Ack, Drop, Goto, local
<1>10. ASSUME NEW s \in Shards, RequestError(s) PROVE LocalTypes'
  BY <1>10 DEF RequestError, Drop, Goto, Fault, local
<1>11. CASE Panic
  BY <1>11 DEF Panic, Down, local
<1>12. CASE Exit
  BY <1>12 DEF Exit, Down, local
<1>13. CASE Crash
  BY <1>13 DEF Crash, Down, Fault, local
<1>14. ASSUME UNCHANGED local PROVE LocalTypes'
  BY Zenon, <1>14 DEF local
<1>15. ASSUME NEW s \in Shards,
             Publish(s) \/ Deliver(s) \/ Lose(s) \/ RemoveConsumer(s)
             \/ PublishOwn(s) \/ SaveOwn(s) \/ SaveOwnError(s)
      PROVE  UNCHANGED local
  BY Zenon, <1>15 DEF Publish, PublishOwn, SaveOwn, SaveOwnError, OwnSaved, Deliver, FirstDelivery, Lose, Fault,
     RemoveConsumer, consumer, local, state, publisher, process
<1>16. ASSUME NEW s \in Shards, NEW m \in unacked[s],
             Redeliver(s, m) \/ Forget(s, m)
      PROVE  UNCHANGED local
  BY Zenon, <1>16 DEF Redeliver, Forget, consumer, local, state, publisher, process
<1>17. ASSUME Start \/ Cancel \/ Disconnect PROVE UNCHANGED local
  BY Zenon, <1>17 DEF Start, Cancel, Disconnect, Fault, consumer, local, state,
     process
<1>18. ASSUME UNCHANGED vars PROVE UNCHANGED local
  BY Zenon, <1>18 DEF vars, consumer, local, state, publisher, process
<1> QED
  BY Zenon, <1>1, <1>2, <1>3, <1>4, <1>5, <1>6, <1>7, <1>8, <1>9, <1>10, <1>11,
     <1>12, <1>13, <1>14, <1>15, <1>16, <1>17, <1>18 DEF Next, Listen

\* Every step keeps the types of the sequence map and of what was applied.
LEMMA StateTypesStep ==
    ASSUME ConsumerTypes, LocalTypes, StateTypes, [Next]_vars
    PROVE  StateTypes'
<1> USE DEF StateTypes, publisher
<1>1. ASSUME NEW s \in Shards, CallbackOK(s) PROVE StateTypes'
  BY Zenon, <1>1 DEF CallbackOK, Goto, LocalTypes, state
<1>2. ASSUME NEW s \in Shards, Save(s) PROVE StateTypes'
  BY Zenon, <1>2 DEF Save, SavePosition, Goto, LocalTypes, state
<1>3. ASSUME NEW s \in Shards, SaveError(s) PROVE StateTypes'
  BY Zenon, <1>3 DEF SaveError, SavePositionFails, Drop, Goto, Fault,
     LocalTypes, state
<1>13. ASSUME NEW s \in Shards, PublishOwn(s) PROVE StateTypes'
  BY <1>13 DEF PublishOwn, ConsumerTypes, state
<1>14. ASSUME NEW s \in Shards, SaveOwn(s) PROVE StateTypes'
  <2>1. 0 \in Nat OBVIOUS
  <2> QED BY Zenon, <1>14, <2>1 DEF SaveOwn, OwnSaved, SavePosition, state
<1>15. ASSUME NEW s \in Shards, SaveOwnError(s) PROVE StateTypes'
  <2>1. 0 \in Nat OBVIOUS
  <2> QED BY Zenon, <1>15, <2>1 DEF SaveOwnError, OwnSaved, SavePositionFails,
             state
<1>4. CASE Start
  BY Zenon, <1>4 DEF Start, LocalTypes, state
<1>5. CASE Panic
  BY Zenon, <1>5 DEF Panic, Down, LocalTypes, state
<1>6. CASE Exit
  BY Zenon, <1>6 DEF Exit, Down, LocalTypes, state
<1>7. CASE Crash
  BY Zenon, <1>7 DEF Crash, Down, Fault, LocalTypes, state
<1>8. ASSUME UNCHANGED <<state, publisher, applied>> PROVE StateTypes'
  BY Zenon, <1>8 DEF state
<1>9. ASSUME NEW s \in Shards,
             Publish(s) \/ Subscribe(s) \/ NextMsg(s) \/
             Closed(s) \/ CallbackError(s) \/
             CallbackCanceled(s) \/ Ack(s) \/ RequestError(s)
             \/ Deliver(s) \/ Lose(s) \/ RemoveConsumer(s)
      PROVE  UNCHANGED <<state, publisher, applied>>
  BY Zenon, <1>9 DEF Publish, Subscribe, Goto, NextMsg, Closed, CallbackError,
     Drop, CallbackCanceled, Ack, RequestError, Fault, Deliver, FirstDelivery,
     Lose, RemoveConsumer, consumer, local, state, publisher, process
<1>10. ASSUME NEW s \in Shards, NEW m \in unacked[s],
             Redeliver(s, m) \/ Forget(s, m)
      PROVE  UNCHANGED <<state, publisher, applied>>
  BY Zenon, <1>10 DEF Redeliver, Forget, consumer, local, state, publisher, process
<1>11. ASSUME Cancel \/ Disconnect PROVE UNCHANGED <<state, publisher, applied>>
  BY Zenon, <1>11 DEF Cancel, Disconnect, Fault, consumer, local, state, publisher, process
<1>12. ASSUME UNCHANGED vars PROVE UNCHANGED <<state, publisher, applied>>
  BY Zenon, <1>12 DEF vars, consumer, local, state, publisher, process
<1> QED
  BY Zenon, <1>1, <1>2, <1>3, <1>4, <1>5, <1>6, <1>7, <1>8, <1>9, <1>10, <1>11,
     <1>12, <1>13, <1>14, <1>15 DEF Next, Listen

\* Every step keeps the types of the process.
LEMMA ProcessTypesStep ==
    ASSUME ProcessTypes, [Next]_vars
    PROVE  ProcessTypes'
<1> USE DEF ProcessTypes
<1>1. ASSUME NEW s \in Shards, SaveError(s) PROVE ProcessTypes'
  BY <1>1 DEF SaveError, Drop, Goto, Fault, process
<1>2. ASSUME NEW s \in Shards, RequestError(s) PROVE ProcessTypes'
  BY <1>2 DEF RequestError, Drop, Goto, Fault, process
<1>3. ASSUME NEW s \in Shards, Lose(s) PROVE ProcessTypes'
  BY <1>3 DEF Lose, FirstDelivery, Fault, process
<1>4. ASSUME NEW s \in Shards, RemoveConsumer(s) PROVE ProcessTypes'
  BY <1>4 DEF RemoveConsumer, Fault, process
<1>15. ASSUME NEW s \in Shards, SaveOwnError(s) PROVE ProcessTypes'
  BY <1>15 DEF SaveOwnError, OwnSaved, Fault, process
<1>5. CASE Start
  BY <1>5 DEF Start, process
<1>6. CASE Panic
  BY Zenon, <1>6 DEF Panic, Down, process
<1>7. CASE Cancel
  BY Zenon, <1>7 DEF Cancel, process
<1>8. CASE Exit
  BY Zenon, <1>8 DEF Exit, Down, process
<1>9. CASE Crash
  BY <1>9 DEF Crash, Down, Fault, process
<1>10. CASE Disconnect
  BY <1>10 DEF Disconnect, Fault, process
<1>11. ASSUME UNCHANGED <<process, faults>> PROVE ProcessTypes'
  BY Zenon, <1>11 DEF process
<1>12. ASSUME NEW s \in Shards,
             Publish(s) \/ Subscribe(s) \/ NextMsg(s) \/
             Closed(s) \/ CallbackOK(s) \/ CallbackError(s) \/
             CallbackCanceled(s) \/ Save(s) \/ Ack(s) \/
             Deliver(s) \/ PublishOwn(s) \/ SaveOwn(s)
      PROVE  UNCHANGED <<process, faults>>
  BY Zenon, <1>12 DEF Publish, PublishOwn, SaveOwn, OwnSaved, Subscribe, Goto, NextMsg, Closed, CallbackOK,
     CallbackError, Drop, CallbackCanceled, Save, Ack, Deliver,
     FirstDelivery, consumer, local, state, publisher, process
<1>13. ASSUME NEW s \in Shards, NEW m \in unacked[s],
             Redeliver(s, m) \/ Forget(s, m)
      PROVE  UNCHANGED <<process, faults>>
  BY Zenon, <1>13 DEF Redeliver, Forget, consumer, local, state, publisher, process
<1>14. ASSUME UNCHANGED vars PROVE UNCHANGED <<process, faults>>
  BY Zenon, <1>14 DEF vars, consumer, local, state, publisher, process
<1> QED
  BY Zenon, <1>1, <1>2, <1>3, <1>4, <1>5, <1>6, <1>7, <1>8, <1>9, <1>10, <1>11,
     <1>12, <1>13, <1>14, <1>15 DEF Next, Listen

\* The variables of one shard.
shardVars(t) ==
    <<length[t], sent[t], unacked[t], inbox[t], lost[t], pc[t], msg[t],
      savedSeq[t], seq[t], file[t], own[t], acked[t], applied[t], config>>

\* What is missing depends on the stream alone.
LEMMA SameMissing ==
    ASSUME NEW s \in Shards, UNCHANGED <<length[s], lost[s], config>>
    PROVE  UNCHANGED <<Missing(s), SafeConfig>>
BY Zenon DEF Missing, Discarded, SafeConfig

\* A shard whose variables do not change keeps its invariant.
LEMMA ShardFrame ==
    ASSUME NEW t \in Shards, ShardInv(t), UNCHANGED shardVars(t),
           proc' = "down" <=> proc = "down"
    PROVE  ShardInv(t)'
<1>1. UNCHANGED <<Missing(t), SafeConfig>> BY Zenon, SameMissing DEF shardVars
<1>2. /\ UNCHANGED <<Listening(t), InHand(t), Front(t)>>
      /\ UNCHANGED <<length[t], sent[t], unacked[t], inbox[t], pc[t], msg[t],
                     savedSeq[t], seq[t], file[t], own[t], acked[t], applied[t],
                     config.replicate>>
  BY Zenon DEF shardVars, Listening, InHand, Front
<1>3. ConsumerInv(t)' BY Zenon, <1>2 DEF ShardInv, ConsumerInv
<1>4. InboxInv(t)' BY Zenon, <1>1, <1>2 DEF ShardInv, InboxInv
<1>5. PositionInv(t)' BY Zenon, <1>1, <1>2 DEF ShardInv, PositionInv, Follows
<1>6. SafeConfig' => ExactInv(t)'
  BY Zenon, <1>1, <1>2 DEF ShardInv, ExactInv, Follows
<1>7. config'.replicate => SkippedInv(t)'
  BY Zenon, <1>1, <1>2 DEF ShardInv, SkippedInv
<1> QED BY Zenon, <1>3, <1>4, <1>5, <1>6, <1>7 DEF ShardInv

\* The positions agree as before when a step leaves them alone.
LEMMA ExactFrame ==
    ASSUME NEW s \in Shards, SafeConfig => ExactInv(s), SafeConfig' = SafeConfig,
           UNCHANGED <<own[s], seq[s], file[s], savedSeq[s], proc>>,
           Missing(s) \subseteq Missing(s)', applied[s] \subseteq applied'[s],
           Listening(s)' => Listening(s),
           pc'[s] \notin {"report", "ended"} => pc[s] \notin {"report", "ended"}
    PROVE  SafeConfig' => ExactInv(s)'
BY Zenon DEF ExactInv, Follows

\* Nothing new is skipped when a step leaves the positions alone.
LEMMA SkippedFrame ==
    ASSUME NEW s \in Shards, config.replicate => SkippedInv(s), config' = config,
           UNCHANGED <<length[s], seq[s], file[s], acked[s]>>,
           Missing(s) \subseteq Missing(s)', applied[s] \subseteq applied'[s]
    PROVE  config'.replicate => SkippedInv(s)'
BY Zenon DEF SkippedInv

\* The steps of one stream that write no position into the file, and those of
\* the whole process.
shardStep(s) ==
    \/ Publish(s) \/ PublishOwn(s) \/ Deliver(s) \/ Lose(s)
    \/ RemoveConsumer(s)
    \/ \E m \in unacked[s] : Redeliver(s, m) \/ Forget(s, m)
    \/ Subscribe(s) \/ NextMsg(s) \/ Closed(s) \/ CallbackOK(s)
    \/ CallbackError(s) \/ CallbackCanceled(s) \/ SaveError(s)
    \/ Ack(s) \/ RequestError(s) \/ SaveOwnError(s)
processStep == Start \/ Panic \/ Cancel \/ Exit \/ Crash \/ Disconnect

LEMMA Cases ==
    [Next]_vars => \/ \E s \in Shards : shardStep(s) \/ Save(s) \/ SaveOwn(s)
                   \/ processStep
                   \/ UNCHANGED vars
BY Zenon DEF Next, Listen, shardStep, processStep

\* The configuration stays, and steps of one stream are none of the process.
LEMMA ProcessFrame ==
    ASSUME NEW s \in Shards, shardStep(s) \/ Save(s) \/ SaveOwn(s)
    PROVE  UNCHANGED <<proc, conn, config>>
BY Zenon DEF shardStep, Publish, PublishOwn, Deliver, Lose, FirstDelivery,
   Redeliver, Forget, RemoveConsumer, Subscribe, NextMsg, Closed, CallbackOK,
   CallbackError, CallbackCanceled, Save, SaveError, Ack, RequestError, SaveOwn,
   SaveOwnError, OwnSaved, process

\* A step of one shard, other than a successful save, leaves the others alone.
LEMMA OtherShards ==
    ASSUME TypeOK, NEW s \in Shards, NEW t \in Shards, t # s, shardStep(s)
    PROVE  UNCHANGED shardVars(t) /\ proc' = proc
<1> USE TypeParts DEF ConsumerTypes, LocalTypes, StateTypes, shardVars, Goto,
        Drop, consumer, local, state, publisher, process
<1>1. CASE Publish(s) BY Zenon, <1>1 DEF Publish, Store
<1>2. CASE Deliver(s) BY Zenon, <1>2 DEF Deliver, FirstDelivery
<1>3. CASE Lose(s) BY Zenon, <1>3 DEF Lose, FirstDelivery
<1>4. CASE RemoveConsumer(s) BY Zenon, <1>4 DEF RemoveConsumer
<1>5. CASE \E m \in unacked[s] : Redeliver(s, m) \/ Forget(s, m)
  BY Zenon, <1>5 DEF Redeliver, Forget
<1>6. CASE Subscribe(s) BY Zenon, <1>6 DEF Subscribe
<1>7. CASE NextMsg(s) BY ZenonT(30), <1>7 DEF NextMsg
<1>8. CASE Closed(s) BY Zenon, <1>8 DEF Closed
<1>9. CASE CallbackOK(s) BY Zenon, <1>9 DEF CallbackOK
<1>10. CASE CallbackError(s)
  <2>1. /\ UNCHANGED <<length, consumer, savedSeq, state, publisher, applied,
                       process>>
        /\ pc'[t] = pc[t] /\ msg'[t] = msg[t]
    <3>1. CASE UNCHANGED <<pc, msg>> BY Zenon, <1>10, <3>1 DEF CallbackError
    <3>2. CASE Drop(s, "report")
      <4>1. pc' = [pc EXCEPT ![s] = "report"] /\ msg' = [msg EXCEPT ![s] = 0]
        BY Zenon, <3>2 DEF Drop, Goto
      <4>2. pc'[t] = pc[t] /\ msg'[t] = msg[t] BY ZenonT(30), <4>1
      <4> HIDE DEF Drop
      <4> QED BY Zenon, <1>10, <4>2 DEF CallbackError
    <3> HIDE DEF Drop
    <3> QED BY Zenon, <1>10, <3>1, <3>2 DEF CallbackError
  <2> QED BY Zenon, <2>1
<1>11. CASE CallbackCanceled(s) BY Zenon, <1>11 DEF CallbackCanceled
<1>12. CASE SaveError(s) BY Zenon, <1>12 DEF SaveError, SavePositionFails
<1>13. CASE Ack(s) BY Zenon, <1>13 DEF Ack
<1>14. CASE RequestError(s) BY Zenon, <1>14 DEF RequestError
<1>15. CASE PublishOwn(s) BY Zenon, <1>15 DEF PublishOwn, Store
<1>16. CASE SaveOwnError(s)
  BY Zenon, <1>16 DEF SaveOwnError, OwnSaved, SavePositionFails
<1> QED BY Zenon, <1>1, <1>2, <1>3, <1>4, <1>5, <1>6, <1>7, <1>8, <1>9, <1>10,
           <1>11, <1>12, <1>13, <1>14, <1>15, <1>16 DEF shardStep

\* What is among the first messages of a queue stays there when the queue
\* grows at its end.
LEMMA BeforeGrows ==
    ASSUME NEW q, NEW r, NEW n, NEW L \in Nat, r[L + 1] = n,
           \A i \in 1..L : r[i] = q[i]
    PROVE  /\ \A k : Before(q, L, k) => Before(r, L, k) /\ Before(r, L + 1, k)
           /\ \A k : \A i \in 1..L : Before(q, i - 1, k) => Before(r, i - 1, k)
           /\ Before(r, L + 1, n)
<1>1. ASSUME NEW k, NEW i \in 0..L, Before(q, i, k) PROVE Before(r, i, k)
  <2>1. PICK j \in 1..i : q[j] = k BY Zenon, <1>1 DEF Before
  <2>2. j \in 1..L BY <2>1
  <2> QED BY Zenon, <2>1, <2>2 DEF Before
<1>2. \A i \in 1..L : i - 1 \in 0..L OBVIOUS
<1>3. ASSUME NEW k, Before(r, L, k) PROVE Before(r, L + 1, k)
  BY <1>3 DEF Before
<1>4. L \in 0..L /\ L + 1 \in 1..(L + 1) BY SMTT(20)
<1> QED BY Zenon, <1>1, <1>2, <1>3, <1>4 DEF Before

\* The types of the variables of one shard.
ShardTypeOK(s) ==
    /\ length[s] \in Nat /\ sent[s] \in Nat /\ msg[s] \in Nat
    /\ savedSeq[s] \in Nat /\ seq[s] \in Nat /\ file[s] \in Nat
    /\ own[s] \in Nat /\ acked[s] \in Nat
    /\ unacked[s] \subseteq Nat /\ lost[s] \subseteq Nat
    /\ applied[s] \subseteq Nat
    /\ inbox[s] \in Seq(Nat) /\ Len(inbox[s]) \in Nat

LEMMA ShardTypes ==
    ASSUME TypeOK, NEW s \in Shards
    PROVE  ShardTypeOK(s)
<1> USE TypeParts
<1>1. /\ length[s] \in Nat /\ sent[s] \in Nat /\ unacked[s] \in SUBSET Nat
      /\ lost[s] \in SUBSET Nat /\ inbox[s] \in Seq(Nat)
  BY Zenon DEF ConsumerTypes
<1>2. msg[s] \in Nat /\ savedSeq[s] \in Nat BY Zenon DEF LocalTypes
<1>3. /\ seq[s] \in Nat /\ file[s] \in Nat /\ applied[s] \in SUBSET Nat
      /\ own[s] \in Nat /\ acked[s] \in Nat
  BY Zenon DEF StateTypes
<1>4. Len(inbox[s]) \in Nat BY <1>1
<1> QED BY Zenon, <1>1, <1>2, <1>3, <1>4 DEF ShardTypeOK

\* One more message in the stream, of another node or of this one.
LEMMA StepPublish ==
    ASSUME TypeOK, NEW s \in Shards, ShardInv(s), Publish(s) \/ PublishOwn(s)
    PROVE  ShardInv(s)'
<1> USE DEF ShardInv, ShardTypeOK
<1>t. ShardTypeOK(s) BY ZenonT(30), ShardTypes
<1>1. /\ length'[s] = length[s] + 1
      /\ UNCHANGED <<sent[s], unacked[s], inbox[s], lost[s], pc[s], msg[s],
                     savedSeq[s], seq[s], file[s], acked[s], applied[s], proc,
                     config>>
      /\ \/ own'[s] = own[s]
         \/ own'[s] = length[s] + 1 /\ ~SafeConfig /\ proc # "down"
  BY Zenon, TypeParts DEF Publish, PublishOwn, Store, SafeConfig, ConsumerTypes,
     StateTypes, consumer, local, state, publisher, process
<1>2. \A m \in 1..length[s] : m \in 1..(length[s] + 1) BY <1>t
<1>m. Missing(s) \subseteq Missing(s)' /\ SafeConfig' = SafeConfig
  <2>1. Discarded(s) \in Nat /\ Discarded(s)' \in {Discarded(s), Discarded(s) + 1}
    BY Zenon, <1>1, DiscardFacts, TypeParts
  <2>2. 1..Discarded(s) \subseteq 1..(Discarded(s)') BY SMTT(20), <2>1
  <2> QED BY Zenon, <1>1, <2>2 DEF Missing, SafeConfig
<1>3. ConsumerInv(s)'
  <2>1. /\ sent[s] <= length[s] /\ seq[s] <= length[s] /\ file[s] <= length[s]
        /\ own[s] <= length[s] /\ acked[s] <= length[s]
    BY Zenon DEF ConsumerInv
  <2>2. \A n \in Nat : n <= length[s] => n <= length[s] + 1 BY <1>t
  <2>3. /\ sent[s] <= length[s] + 1 /\ seq[s] <= length[s] + 1
        /\ file[s] <= length[s] + 1 /\ own[s] <= length[s] + 1
        /\ acked[s] <= length[s] + 1
    BY Zenon, <2>1, <2>2, <1>t
  <2>4. applied[s] \subseteq 1..(length[s] + 1) BY Zenon, <1>2 DEF ConsumerInv
  <2>5. /\ msg[s] <= sent[s] /\ unacked[s] \subseteq 1..sent[s]
        /\ \A i \in 1..Len(inbox[s]) : inbox[s][i] \in 1..sent[s]
    BY Zenon DEF ConsumerInv
  <2>6. /\ own'[s] <= length[s] + 1
        /\ own'[s] # 0 => acked[s] <= own'[s]
    <3>1. length[s] + 1 <= length[s] + 1 BY <1>t
    <3> QED BY Zenon, <1>1, <2>3, <3>1 DEF ConsumerInv
  <2> QED BY Zenon, <1>1, <2>3, <2>4, <2>5, <2>6 DEF ConsumerInv
<1>4. InboxInv(s)'
  <2>1. Listening(s)' = Listening(s) /\ Front(s)' = Front(s)
    BY Zenon, <1>1 DEF Front, InHand, Listening
  <2> QED BY Zenon, <1>1, <1>m, <2>1 DEF InboxInv
<1>5. PositionInv(s)'
  BY Zenon, <1>1, <1>m DEF PositionInv, Follows, InHand, Listening
<1>6. SafeConfig' => ExactInv(s)'
  BY Zenon, <1>1, <1>m DEF ExactInv, Follows, Listening
<1>7. config'.replicate => SkippedInv(s)'
  <2> SUFFICES ASSUME config.replicate, NEW m \in 1..(length[s] + 1),
                      m <= seq[s] \/ m <= file[s]
               PROVE  m \in applied[s] \cup Missing(s) \cup 1..acked[s]
    BY Zenon, <1>1, <1>m DEF SkippedInv
  <2>1. seq[s] <= length[s] /\ file[s] <= length[s] BY Zenon DEF ConsumerInv
  <2>2. m \in 1..length[s] BY SMTT(40), <2>1, <1>t
  <2> QED BY Zenon, <2>2 DEF SkippedInv
<1> QED BY Zenon, <1>3, <1>4, <1>5, <1>6, <1>7

\* A message that goes out, and reaches the inbox or not.
LEMMA StepDelivery ==
    ASSUME TypeOK, NEW s \in Shards, ShardInv(s), Deliver(s) \/ Lose(s)
    PROVE  ShardInv(s)'
<1> USE DEF ShardInv, ShardTypeOK
<1>t. ShardTypeOK(s) BY Zenon, ShardTypes
<1> DEFINE n == Following(s)
           q == inbox[s]
<1>0. /\ n \in Nat /\ sent[s] < n
      /\ \A k \in Nat : k < n => k <= sent[s] \/ k <= Discarded(s)
      /\ Discarded(s) \in Nat
  BY Zenon, DiscardFacts, TypeParts
<1>1. /\ sent'[s] = n /\ n <= length[s]
      /\ unacked'[s] = unacked[s] \cup {n}
      /\ UNCHANGED <<length[s], pc[s], msg[s], savedSeq[s], seq[s], file[s],
                     own[s], acked[s], applied[s], proc, config>>
      /\ \/ inbox'[s] = Append(q, n) /\ lost'[s] = lost[s]
         \/ inbox'[s] = q /\ lost'[s] = lost[s] \cup {n}
  <2>2. n <= length[s] BY Zenon DEF Deliver, Lose, FirstDelivery
  <2>3. sent'[s] = n /\ unacked'[s] = unacked[s] \cup {n}
    BY Zenon, TypeParts DEF Deliver, Lose, FirstDelivery, ConsumerTypes
  <2>4. \/ inbox'[s] = Append(q, n) /\ lost'[s] = lost[s]
        \/ inbox'[s] = q /\ lost'[s] = lost[s] \cup {n}
    BY ZenonT(30), TypeParts DEF Deliver, Lose, FirstDelivery, ConsumerTypes
  <2>5. UNCHANGED <<length[s], pc[s], msg[s], savedSeq[s], seq[s], file[s],
                    own[s], acked[s], applied[s], proc, config>>
    BY Zenon DEF Deliver, Lose, FirstDelivery, local, state, publisher, process
  <2> QED BY Zenon, <2>2, <2>3, <2>4, <2>5
<1>m. /\ Missing(s) \subseteq Missing(s)' /\ SafeConfig' = SafeConfig
      /\ lost'[s] = lost[s] => Missing(s)' = Missing(s)
      /\ lost'[s] = lost[s] \cup {n} => Missing(s)' = Missing(s) \cup {n}
  <2>1. Discarded(s)' = Discarded(s) BY Zenon, <1>1 DEF Discarded
  <2> QED BY Zenon, <1>1, <2>1 DEF Missing, SafeConfig
<1>2. \A k \in 1..sent[s] : k \in 1..n BY <1>t, <1>0
<1>s. \A k \in 1..n : k # n /\ k \notin Missing(s) => k \in 1..sent[s]
  <2> SUFFICES ASSUME NEW k \in 1..n, k # n, k \notin Missing(s)
               PROVE  k \in 1..sent[s]
    BY Zenon
  <2>1. k \notin 1..Discarded(s) BY Zenon DEF Missing
  <2>2. k \in Nat /\ k < n /\ 1 <= k BY <1>0
  <2>3. k <= sent[s] \/ k <= Discarded(s) BY Zenon, <1>0, <2>2
  <2> QED BY <2>1, <2>2, <2>3, <1>0, <1>t
<1>3. q \in Seq(Nat) /\ Len(q) \in Nat BY Zenon, <1>t
<1>n. msg[s] <= n /\ unacked'[s] \subseteq 1..n /\ n \in 1..n
  <2>1. sent[s] \in Nat /\ msg[s] \in Nat BY Zenon, <1>t
  <2>2. n \in 1..n BY <2>1, <1>0
  <2>3. \A k \in Nat : k <= sent[s] => k <= n BY <2>1, <1>0
  <2>4. msg[s] <= sent[s] /\ unacked[s] \subseteq 1..sent[s]
    BY Zenon DEF ConsumerInv
  <2>5. unacked'[s] = unacked[s] \cup {n} BY Zenon, <1>1
  <2> QED BY Zenon, <1>2, <2>1, <2>2, <2>3, <2>4, <2>5
<1> HIDE DEF n
<1>p. PositionInv(s)'
  BY Zenon, <1>1, <1>m DEF PositionInv, Follows, InHand, Listening
<1>e. SafeConfig' => ExactInv(s)'
  <2>1. Listening(s)' = Listening(s) BY Zenon, <1>1 DEF Listening
  <2> QED BY Zenon, <1>1, <1>m, <2>1, ExactFrame
<1>k. config'.replicate => SkippedInv(s)' BY Zenon, <1>1, <1>m, SkippedFrame
<1>4. CASE inbox'[s] = Append(q, n) /\ lost'[s] = lost[s]
  <2>1. /\ Len(inbox'[s]) = Len(q) + 1
        /\ \A i \in 1..Len(q) : inbox'[s][i] = q[i]
        /\ inbox'[s][Len(q) + 1] = n
    BY SMTT(20), <1>0, <1>3, <1>4, InboxFacts
  <2>2. ConsumerInv(s)'
    <3>1. \A i \in 1..Len(inbox'[s]) : inbox'[s][i] \in 1..n
      <4> TAKE i \in 1..Len(inbox'[s])
      <4>1. CASE i \in 1..Len(q) BY Zenon, <4>1, <2>1, <1>2 DEF ConsumerInv
      <4>2. CASE i = Len(q) + 1 BY Zenon, <4>2, <2>1, <1>n
      <4> QED BY SMTT(20), <4>1, <4>2, <2>1, <1>3
    <3> QED BY Zenon, <1>1, <1>n, <3>1 DEF ConsumerInv
  <2>3. /\ \A k : Before(q, Len(q), k) => /\ Before(inbox'[s], Len(q), k)
                                          /\ Before(inbox'[s], Len(q) + 1, k)
        /\ \A k : \A i \in 1..Len(q) :
              Before(q, i - 1, k) => Before(inbox'[s], i - 1, k)
        /\ Before(inbox'[s], Len(q) + 1, n)
    <3> DEFINE r == inbox'[s]
               L == Len(q)
    <3>1. L \in Nat /\ r[L + 1] = n /\ \A i \in 1..L : r[i] = q[i]
      BY Zenon, <2>1, <1>3
    <3> HIDE DEF q, r, L
    <3>2. /\ \A k : Before(q, L, k) => Before(r, L, k) /\ Before(r, L + 1, k)
          /\ \A k : \A i \in 1..L : Before(q, i - 1, k) => Before(r, i - 1, k)
          /\ Before(r, L + 1, n)
      BY ZenonT(30), <3>1, BeforeGrows
    <3> QED BY Zenon, <3>2 DEF r, L
  <2>4. InboxInv(s)'
    <3> SUFFICES ASSUME Listening(s), NEW k \in 1..n, k > Front(s),
                        k \notin Missing(s)
                 PROVE  /\ Before(inbox'[s], Len(q) + 1, k)
                        /\ \A i \in 1..(Len(q) + 1) :
                              k < inbox'[s][i] => Before(inbox'[s], i - 1, k)
      BY ZenonT(30), <1>1, <1>4, <1>m, <2>1 DEF InboxInv, Listening, Front,
         InHand
    <3>1. CASE k = n
      <4>1. Before(inbox'[s], Len(q) + 1, k) BY Zenon, <3>1, <2>3
      <4>2. \A i \in 1..(Len(q) + 1) : inbox'[s][i] \in 1..n
        BY Zenon, <2>1, <2>2, <1>1 DEF ConsumerInv
      <4> QED BY SMTT(20), <3>1, <4>1, <4>2, <1>0
    <3>2. CASE k \in 1..sent[s]
      <4>1. /\ Before(q, Len(q), k)
            /\ \A i \in 1..Len(q) : k < q[i] => Before(q, i - 1, k)
        BY Zenon, <3>2 DEF InboxInv
      <4>2. Before(inbox'[s], Len(q), k) BY ZenonT(30), <4>1, <2>3
      <4>3. Before(inbox'[s], Len(q) + 1, k) BY Zenon, <4>1, <2>3
      <4>4. ASSUME NEW i \in 1..Len(q), k < inbox'[s][i]
            PROVE  Before(inbox'[s], i - 1, k)
        BY Zenon, <4>4, <4>1, <2>1, <2>3
      <4>5. Before(inbox'[s], (Len(q) + 1) - 1, k) BY <4>2, <1>3
      <4>6. \A i \in 1..(Len(q) + 1) : i \in 1..Len(q) \/ i = Len(q) + 1
        BY SMTT(20), <1>3
      <4> QED BY ZenonT(30), <4>3, <4>4, <4>5, <4>6
    <3> QED BY Zenon, <3>1, <3>2, <1>s
  <2> QED BY Zenon, <2>2, <2>4, <1>p, <1>e, <1>k
<1>5. CASE inbox'[s] = q /\ lost'[s] = lost[s] \cup {n}
  <2>1. ConsumerInv(s)'
    <3>1. \A i \in 1..Len(q) : q[i] \in 1..n BY Zenon, <1>2 DEF ConsumerInv
    <3> QED BY Zenon, <1>1, <1>5, <1>n, <3>1 DEF ConsumerInv
  <2>2. InboxInv(s)'
    <3> SUFFICES ASSUME Listening(s), NEW k \in 1..n, k > Front(s),
                        k \notin Missing(s), k # n
                 PROVE  /\ Before(q, Len(q), k)
                        /\ \A i \in 1..Len(q) :
                              k < q[i] => Before(q, i - 1, k)
      BY ZenonT(30), <1>1, <1>5, <1>m DEF InboxInv, Listening, Front, InHand
    <3>1. k \in 1..sent[s] BY Zenon, <1>s
    <3> QED BY ZenonT(40), <3>1 DEF InboxInv
  <2> QED BY Zenon, <2>1, <2>2, <1>p, <1>e, <1>k
<1> QED BY Zenon, <1>1, <1>4, <1>5

\* A message that is sent again goes behind everything in the inbox.
LEMMA StepRedeliver ==
    ASSUME TypeOK, NEW s \in Shards, ShardInv(s), NEW m \in unacked[s],
           Redeliver(s, m)
    PROVE  ShardInv(s)'
<1> USE DEF ShardInv, ShardTypeOK
<1>t. ShardTypeOK(s) BY Zenon, ShardTypes
<1> DEFINE q == inbox[s]
<1>1. /\ inbox'[s] = Append(q, m)
      /\ UNCHANGED <<length[s], sent[s], unacked[s], lost[s], pc[s], msg[s],
                     savedSeq[s], seq[s], file[s], own[s], acked[s], applied[s],
                     proc, config>>
  BY Zenon, TypeParts DEF Redeliver, ConsumerTypes, local, state, publisher,
     process
<1>m. UNCHANGED <<Missing(s), SafeConfig>> BY Zenon, <1>1, SameMissing
<1>2. m \in 1..sent[s] /\ m \in Nat BY Zenon, <1>t DEF ConsumerInv
<1>3. q \in Seq(Nat) /\ Len(q) \in Nat BY ZenonT(30), <1>t
<1>4. /\ Len(inbox'[s]) = Len(q) + 1
      /\ \A i \in 1..Len(q) : inbox'[s][i] = q[i]
      /\ inbox'[s][Len(q) + 1] = m
  BY SMTT(20), <1>1, <1>2, <1>3, InboxFacts
<1>5. ConsumerInv(s)'
  <2>1. \A i \in 1..Len(inbox'[s]) : inbox'[s][i] \in 1..sent[s]
    <3> TAKE i \in 1..Len(inbox'[s])
    <3>1. CASE i \in 1..Len(q) BY Zenon, <3>1, <1>4 DEF ConsumerInv
    <3>2. CASE i = Len(q) + 1 BY Zenon, <3>2, <1>2, <1>4
    <3> QED BY SMTT(20), <3>1, <3>2, <1>3, <1>4
  <2> QED BY Zenon, <1>1, <2>1 DEF ConsumerInv
<1>6. /\ \A k : Before(q, Len(q), k) => /\ Before(inbox'[s], Len(q), k)
                                        /\ Before(inbox'[s], Len(q) + 1, k)
      /\ \A k : \A i \in 1..Len(q) :
            Before(q, i - 1, k) => Before(inbox'[s], i - 1, k)
  <2> DEFINE r == inbox'[s]
             L == Len(q)
  <2>1. L \in Nat /\ r[L + 1] = m /\ \A i \in 1..L : r[i] = q[i]
    BY Zenon, <1>3, <1>4
  <2> HIDE DEF q, r, L
  <2>2. /\ \A k : Before(q, L, k) => Before(r, L, k) /\ Before(r, L + 1, k)
        /\ \A k : \A i \in 1..L : Before(q, i - 1, k) => Before(r, i - 1, k)
    BY ZenonT(30), <2>1, BeforeGrows
  <2> QED BY Zenon, <2>2 DEF r, L
<1>7. InboxInv(s)'
  <2> SUFFICES ASSUME Listening(s), NEW k \in 1..sent[s], k > Front(s),
                      k \notin Missing(s)
               PROVE  /\ Before(inbox'[s], Len(q) + 1, k)
                      /\ \A i \in 1..(Len(q) + 1) :
                            k < inbox'[s][i] => Before(inbox'[s], i - 1, k)
    BY Zenon, <1>1, <1>4, <1>m DEF InboxInv, Listening, Front, InHand
  <2>1. /\ Before(q, Len(q), k)
        /\ \A i \in 1..Len(q) : k < q[i] => Before(q, i - 1, k)
    BY ZenonT(30) DEF InboxInv
  <2>2. Before(inbox'[s], Len(q), k) BY Zenon, <2>1, <1>6
  <2>3. Before(inbox'[s], Len(q) + 1, k) BY Zenon, <2>1, <1>6
  <2>4. ASSUME NEW i \in 1..Len(q), k < inbox'[s][i]
        PROVE  Before(inbox'[s], i - 1, k)
    BY Zenon, <2>4, <2>1, <1>4, <1>6
  <2>5. Before(inbox'[s], (Len(q) + 1) - 1, k) BY SMTT(20), <2>2, <1>3
  <2> QED BY <2>3, <2>4, <2>5, <1>3
<1>8. PositionInv(s)'
  BY Zenon, <1>1, <1>m DEF PositionInv, Follows, InHand, Listening
<1>e. SafeConfig' => ExactInv(s)'
  <2>1. Listening(s)' => Listening(s) BY Zenon, <1>1 DEF Listening
  <2> QED BY Zenon, <1>1, <1>m, <2>1, ExactFrame
<1>k. config'.replicate => SkippedInv(s)' BY Zenon, <1>1, <1>m, SkippedFrame
<1> QED BY Zenon, <1>5, <1>7, <1>8, <1>e, <1>k

\* A message that the server gave up.
LEMMA StepForget ==
    ASSUME TypeOK, NEW s \in Shards, ShardInv(s), NEW m \in unacked[s],
           Forget(s, m)
    PROVE  ShardInv(s)'
<1> USE DEF ShardInv
<1>1. /\ unacked'[s] = unacked[s] \ {m}
      /\ UNCHANGED <<length[s], sent[s], inbox[s], lost[s], pc[s], msg[s],
                     savedSeq[s], seq[s], file[s], own[s], acked[s], applied[s],
                     proc, config>>
  BY Zenon, TypeParts DEF Forget, ConsumerTypes, local, state, publisher, process
<1>m. UNCHANGED <<Missing(s), SafeConfig>> BY Zenon, <1>1, SameMissing
<1>2. ConsumerInv(s)' BY Zenon, <1>1 DEF ConsumerInv
<1>3. InboxInv(s)' BY Zenon, <1>1, <1>m DEF InboxInv, Listening, Front, InHand
<1>4. PositionInv(s)'
  BY Zenon, <1>1, <1>m DEF PositionInv, Follows, InHand, Listening
<1>e. SafeConfig' => ExactInv(s)'
  <2>1. Listening(s)' => Listening(s) BY Zenon, <1>1 DEF Listening
  <2> QED BY Zenon, <1>1, <1>m, <2>1, ExactFrame
<1>k. config'.replicate => SkippedInv(s)' BY Zenon, <1>1, <1>m, SkippedFrame
<1> QED BY Zenon, <1>2, <1>3, <1>4, <1>e, <1>k

\* A new consumer has sent nothing.
LEMMA StepSubscribe ==
    ASSUME TypeOK, NEW s \in Shards, ShardInv(s), Subscribe(s), proc # "down"
    PROVE  ShardInv(s)'
<1> USE DEF ShardInv, ShardTypeOK
<1>t. ShardTypeOK(s) BY ZenonT(30), ShardTypes
<1>1. /\ sent'[s] = 0 /\ unacked'[s] = {} /\ inbox'[s] = <<>>
      /\ pc[s] = "off" /\ pc'[s] = "wait" /\ savedSeq'[s] = seq[s]
      /\ UNCHANGED <<length[s], lost[s], msg[s], seq[s], file[s], own[s],
                     acked[s], applied[s], proc, config>>
  BY Zenon, TypeParts DEF Subscribe, Goto, ConsumerTypes, LocalTypes, state,
     publisher, process
<1>m. UNCHANGED <<Missing(s), SafeConfig>> BY Zenon, <1>1, SameMissing
<1>2. msg[s] = 0 BY Zenon, <1>1 DEF PositionInv
<1>3. ConsumerInv(s)'
  <2>1. Len(inbox'[s]) = 0 /\ 1..0 = {}
    <3>1. Len(<<>>) = 0 /\ 1..0 = {} OBVIOUS
    <3> QED BY Zenon, <1>1, <3>1
  <2>2. \A n \in Nat : 0 <= n OBVIOUS
  <2>3. \A i \in 1..Len(inbox'[s]) : inbox'[s][i] \in 1..sent'[s]
    BY Zenon, <2>1
  <2>4. 0 <= 0 /\ 0 \in Nat OBVIOUS
  <2> QED BY Zenon, <1>1, <1>2, <2>2, <2>3, <2>4, <1>t DEF ConsumerInv
<1>4. InboxInv(s)'
  <2>1. \A k \in 1..0 : FALSE OBVIOUS
  <2> QED BY Zenon, <1>1, <2>1 DEF InboxInv
<1>5. PositionInv(s)'
  <2>1. seq[s] <= seq[s] BY <1>t
  <2> QED BY Zenon, <1>1, <1>2, <2>1 DEF PositionInv, InHand, Listening
<1>6. SafeConfig' => ExactInv(s)'
  BY Zenon, <1>1, <1>m DEF ExactInv, Listening, Follows
<1>7. config'.replicate => SkippedInv(s)' BY Zenon, <1>1, <1>m, SkippedFrame
<1> QED BY Zenon, <1>3, <1>4, <1>5, <1>6, <1>7

\* Taking the head of a queue brings the others forward.
LEMMA BeforeTail ==
    ASSUME NEW q, NEW r, NEW L \in Nat, L > 0,
           \A i \in 1..(L - 1) : r[i] = q[i + 1],
           NEW k, q[1] # k
    PROVE  \A i \in 0..L : Before(q, i, k) => Before(r, i - 1, k)
<1> SUFFICES ASSUME NEW i \in 0..L, Before(q, i, k) PROVE Before(r, i - 1, k)
  BY Zenon
<1>1. PICK j \in 1..i : q[j] = k BY Zenon DEF Before
<1>2. j # 1 BY Zenon, <1>1
<1>3. j - 1 \in 1..(i - 1) /\ j - 1 \in 1..(L - 1) /\ (j - 1) + 1 = j BY <1>2
<1>4. r[j - 1] = k BY Zenon, <1>1, <1>3
<1> QED BY Zenon, <1>3, <1>4 DEF Before

\* The next message is passed over or handed to the callback.
LEMMA StepNextMsg ==
    ASSUME TypeOK, NEW s \in Shards, ShardInv(s), NextMsg(s)
    PROVE  ShardInv(s)'
<1> USE DEF ShardInv, ShardTypeOK
<1>t. ShardTypeOK(s) BY Zenon, ShardTypes
<1> DEFINE q == inbox[s]
           r == inbox'[s]
           h == q[1]
           L == Len(q)
<1>1. /\ pc[s] = "wait" /\ q # <<>> /\ r = Tail(q) /\ Head(q) = h
      /\ UNCHANGED <<length[s], sent[s], unacked[s], lost[s], savedSeq[s],
                     seq[s], file[s], own[s], acked[s], applied[s], proc,
                     config>>
      /\ \/ h <= savedSeq[s] /\ pc'[s] = "wait" /\ msg'[s] = msg[s]
         \/ ~(h <= savedSeq[s]) /\ pc'[s] = "attempt" /\ msg'[s] = h
  <2>1. q # <<>> /\ q \in Seq(Nat) BY Zenon, <1>t DEF NextMsg
  <2>2. Head(q) = h BY Zenon, <2>1, InboxFacts
  <2> QED BY SMTT(20), <2>1, <2>2, TypeParts
          DEF NextMsg, Goto, ConsumerTypes, LocalTypes, state, publisher, process
<1>m. UNCHANGED <<Missing(s), SafeConfig>> BY Zenon, <1>1, SameMissing
<1>2. /\ L \in Nat /\ L > 0 /\ Len(r) = L - 1
      /\ \A i \in 1..(L - 1) : r[i] = q[i + 1]
  <2>1. q \in Seq(Nat) /\ q # <<>> /\ 0 \in Nat BY Zenon, <1>1, <1>t
  <2> HIDE DEF q
  <2>2. /\ Len(q) \in Nat /\ Len(q) > 0 /\ Len(Tail(q)) = Len(q) - 1
        /\ \A i \in 1..(Len(q) - 1) : Tail(q)[i] = q[i + 1]
    BY Zenon, <2>1, InboxFacts
  <2> QED BY ZenonT(30), <2>2, <1>1
<1>3. \A i \in 1..(L - 1) : i + 1 \in 1..L /\ (i + 1) - 1 = i /\ i \in 0..L
  BY SMTT(20), <1>2
<1>4. 1 \in 1..L /\ h \in 1..sent[s] BY <1>2 DEF ConsumerInv
<1>5. ConsumerInv(s)'
  <2>1. \A i \in 1..Len(r) : r[i] \in 1..sent[s]
    BY Zenon, <1>2, <1>3 DEF ConsumerInv
  <2>2. msg'[s] <= sent[s]
    <3>1. h <= sent[s] /\ msg[s] <= sent[s] BY SMTT(20), <1>4 DEF ConsumerInv
    <3> QED BY Zenon, <1>1, <3>1
  <2> QED BY ZenonT(30), <1>1, <2>1, <2>2 DEF ConsumerInv
<1>6. InboxInv(s)'
  <2>1. Front(s) = savedSeq[s] /\ Listening(s)
    BY ZenonT(30), <1>1 DEF Front, InHand, Listening
  <2>2. Front(s)' >= h /\ Front(s)' >= Front(s)
    <3>1. Front(s)' = IF h <= savedSeq[s] THEN savedSeq[s] ELSE h
      BY Zenon, <1>1 DEF Front, InHand
    <3>2. h \in Nat /\ savedSeq[s] \in Nat BY SMTT(20), <1>4, <1>t
    <3> QED BY <3>1, <3>2, <2>1
  <2> SUFFICES ASSUME NEW k \in 1..sent[s], k > Front(s)', k \notin Missing(s)
               PROVE  /\ Before(r, L - 1, k)
                      /\ \A i \in 1..(L - 1) : k < r[i] => Before(r, i - 1, k)
    BY Zenon, <1>1, <1>2, <1>m DEF InboxInv
  <2>3. Front(s)' \in Nat
    <3>1. h \in Nat BY SMTT(20), <1>4, <1>t
    <3> QED BY Zenon, <1>1, <3>1, <1>t DEF Front, InHand
  <2>4. h # k /\ k > Front(s) BY SMTT(20), <2>1, <2>2, <2>3, <1>4, <1>t
  <2>5. /\ Before(q, L, k)
        /\ \A i \in 1..L : k < q[i] => Before(q, i - 1, k)
    BY Zenon, <2>1, <2>4 DEF InboxInv
  <2>6. \A i \in 0..L : Before(q, i, k) => Before(r, i - 1, k)
    <3>1. L \in Nat /\ L > 0 /\ q[1] # k /\ \A i \in 1..(L - 1) : r[i] = q[i + 1]
      BY Zenon, <1>2, <2>4
    <3> HIDE DEF q, r, h, L
    <3> QED BY Zenon, <3>1, BeforeTail
  <2>7. Before(r, L - 1, k) BY <2>5, <2>6, <1>2
  <2>8. ASSUME NEW i \in 1..(L - 1), k < r[i] PROVE Before(r, i - 1, k)
    <3>1. k < q[i + 1] BY Zenon, <2>8, <1>2
    <3>2. Before(q, i, k) BY Zenon, <3>1, <2>5, <1>3
    <3> QED BY Zenon, <3>2, <2>6, <1>3
  <2> QED BY Zenon, <2>7, <2>8
<1>7. PositionInv(s)'
  <2>1. CASE h <= savedSeq[s]
    BY Zenon, <2>1, <1>1, <1>m DEF PositionInv, InHand, Listening
  <2>2. CASE ~(h <= savedSeq[s])
    <3>1. h > savedSeq[s] BY SMTT(40), <2>2, <1>4, <1>t
    <3>2. ASSUME NEW k \in 1..(h - 1), k > savedSeq[s], k \notin Missing(s)
          PROVE  FALSE
      <4>1. k \in 1..sent[s] /\ k < h BY SMTT(20), <1>4, <1>t
      <4>2. Before(q, 1 - 1, k)
        BY Zenon, <4>1, <3>2, <1>1, <1>4 DEF InboxInv, Listening, Front, InHand
      <4> QED BY SMTT(20), <4>2 DEF Before
    <3>3. Follows(s, savedSeq[s], h) BY Zenon, <3>1, <3>2 DEF Follows
    <3>4. Follows(s, savedSeq[s], msg[s])'
      BY ZenonT(30), <3>3, <2>2, <1>1, <1>m DEF Follows
    <3> QED BY ZenonT(30), <3>4, <2>2, <1>1 DEF PositionInv, InHand, Listening
  <2> QED BY Zenon, <2>1, <2>2
<1>e. SafeConfig' => ExactInv(s)'
  <2>1. Listening(s)' => Listening(s) BY Zenon, <1>1 DEF Listening
  <2> QED BY Zenon, <1>1, <1>m, <2>1, ExactFrame
<1>k. config'.replicate => SkippedInv(s)' BY Zenon, <1>1, <1>m, SkippedFrame
<1> QED BY Zenon, <1>5, <1>6, <1>7, <1>e, <1>k

\* A listener that stops with an error or because it was canceled.
LEMMA StopListening ==
    ASSUME TypeOK, NEW s \in Shards, ShardInv(s), proc # "down", proc' = proc,
           pc'[s] \in {"report", "ended"}, msg'[s] \in {0, msg[s]},
           UNCHANGED <<length[s], sent[s], unacked[s], inbox[s], lost[s],
                       savedSeq[s], seq[s], file[s], own[s], acked[s],
                       applied[s], config>>
    PROVE  ShardInv(s)'
<1> USE DEF ShardInv, ShardTypeOK
<1>t. ShardTypeOK(s) BY Zenon, ShardTypes
<1>m. UNCHANGED <<Missing(s), SafeConfig>> BY Zenon, SameMissing
<1>1. ConsumerInv(s)'
  <2>1. \A n \in Nat : 0 <= n OBVIOUS
  <2>2. msg'[s] <= sent[s] BY Zenon, <2>1, <1>t DEF ConsumerInv
  <2> QED BY ZenonT(30), <2>2 DEF ConsumerInv
<1>2. InboxInv(s)' BY Zenon DEF InboxInv, Listening
<1>3. PositionInv(s)' BY Zenon DEF PositionInv, InHand, Listening
<1>4. SafeConfig' => ExactInv(s)'
  BY Zenon, <1>m DEF ExactInv, Listening, Follows
<1>5. config'.replicate => SkippedInv(s)' BY Zenon, <1>m, SkippedFrame
<1> QED BY Zenon, <1>1, <1>2, <1>3, <1>4, <1>5

\* The ways out of Listen, and a failing attempt that is not the last one.
LEMMA StepStop ==
    ASSUME TypeOK, NEW s \in Shards, ShardInv(s), proc # "down",
           Closed(s) \/ CallbackCanceled(s) \/ RequestError(s) \/ CallbackError(s)
    PROVE  ShardInv(s)'
<1> USE TypeParts DEF LocalTypes, Goto, Drop, consumer, state, publisher, process
<1>1. CASE Closed(s) BY Zenon, <1>1, StopListening DEF Closed
<1>2. CASE CallbackCanceled(s)
  BY Zenon, <1>2, StopListening DEF CallbackCanceled
<1>3. CASE RequestError(s) BY ZenonT(30), <1>3, StopListening DEF RequestError
<1>4. CASE CallbackError(s)
  <2>1. CASE UNCHANGED <<pc, msg>>
    <3>1. UNCHANGED shardVars(s) /\ proc' = proc
      BY Zenon, <1>4, <2>1 DEF CallbackError, shardVars
    <3> QED BY Zenon, <3>1, ShardFrame
  <2>2. CASE Drop(s, "report")
    BY Zenon, <1>4, <2>2, StopListening DEF CallbackError
  <2> QED BY Zenon, <1>4, <2>1, <2>2 DEF CallbackError
<1> QED BY Zenon, <1>1, <1>2, <1>3, <1>4

\* The callback's transaction committed, or there was none.
LEMMA StepCallbackOK ==
    ASSUME TypeOK, NEW s \in Shards, ShardInv(s), CallbackOK(s)
    PROVE  ShardInv(s)'
<1> USE DEF ShardInv, ShardTypeOK
<1>t. ShardTypeOK(s) BY Zenon, ShardTypes
<1>1. /\ pc[s] = "attempt" /\ pc'[s] = "save"
      /\ applied[s] \subseteq applied'[s]
      /\ applied'[s] \subseteq applied[s] \cup {msg[s]}
      /\ config.replicate => msg[s] \in applied'[s]
      /\ UNCHANGED <<length[s], sent[s], unacked[s], inbox[s], lost[s], msg[s],
                     savedSeq[s], seq[s], file[s], own[s], acked[s], proc,
                     config>>
  BY Zenon, TypeParts DEF CallbackOK, Goto, LocalTypes, StateTypes, consumer,
     state, publisher, process
<1>m. UNCHANGED <<Missing(s), SafeConfig>> BY Zenon, <1>1, SameMissing
<1>2. Follows(s, savedSeq[s], msg[s])
  BY ZenonT(30), <1>1 DEF PositionInv, InHand
<1>3. msg[s] \in 1..length[s]
  <2>1. msg[s] > savedSeq[s] /\ msg[s] <= sent[s] /\ sent[s] <= length[s]
    BY Zenon, <1>2 DEF Follows, ConsumerInv
  <2> QED BY <2>1, <1>t
<1>4. ConsumerInv(s)' BY Zenon, <1>1, <1>3 DEF ConsumerInv
<1>5. Front(s)' = Front(s) /\ Listening(s)
  BY Zenon, <1>1 DEF Front, InHand, Listening
<1>6. InboxInv(s)' BY Zenon, <1>1, <1>5, <1>m DEF InboxInv
<1>7. PositionInv(s)'
  BY Zenon, <1>1, <1>2, <1>m DEF PositionInv, InHand, Listening, Follows
<1>8. SafeConfig' => ExactInv(s)' BY Zenon, <1>1, <1>5, <1>m, ExactFrame
<1>9. config'.replicate => SkippedInv(s)' BY Zenon, <1>1, <1>m, SkippedFrame
<1> QED BY Zenon, <1>4, <1>6, <1>7, <1>8, <1>9

\* Where a listener saves: the message in hand follows its copy of the
\* position, and in a SafeConfig the position on disk.
LEMMA AtSave ==
    ASSUME TypeOK, NEW s \in Shards, ShardInv(s), pc[s] = "save"
    PROVE  /\ proc # "down" /\ savedSeq[s] <= seq[s]
           /\ config.replicate => msg[s] \in applied[s]
           /\ msg[s] \in 1..length[s] /\ msg[s] <= length[s] /\ 0 <= sent[s]
           /\ Follows(s, savedSeq[s], msg[s])
           /\ SafeConfig => /\ savedSeq[s] = seq[s] /\ seq[s] = file[s]
                            /\ msg[s] \in applied[s]
                            /\ Follows(s, file[s], msg[s]) /\ msg[s] > seq[s]
                            /\ ~(msg[s] <= seq[s])
<1> USE DEF ShardTypeOK
<1>t. ShardTypeOK(s) BY Zenon, ShardTypes
<1>1. proc # "down" BY Zenon DEF ShardInv, PositionInv
<1>2. /\ savedSeq[s] <= seq[s] /\ Follows(s, savedSeq[s], msg[s])
      /\ config.replicate => msg[s] \in applied[s]
  BY Zenon DEF ShardInv, PositionInv, InHand, Listening
<1>3. msg[s] \in 1..length[s] /\ msg[s] <= length[s] /\ 0 <= sent[s]
  <2>1. msg[s] > savedSeq[s] /\ msg[s] <= sent[s] /\ sent[s] <= length[s]
    BY Zenon, <1>2 DEF Follows, ShardInv, ConsumerInv
  <2>2. /\ msg[s] \in Nat /\ savedSeq[s] \in Nat /\ sent[s] \in Nat
        /\ length[s] \in Nat
    BY Zenon, <1>t
  <2> QED BY <2>1, <2>2
<1>4. SafeConfig => savedSeq[s] = seq[s] /\ seq[s] = file[s]
  BY Zenon, <1>1 DEF ShardInv, ExactInv, Listening
<1>5. \A n \in Nat : n > seq[s] => ~(n <= seq[s])
  <2>1. seq[s] \in Nat BY Zenon, <1>t
  <2> QED BY <2>1
<1> QED BY Zenon, <1>1, <1>2, <1>3, <1>4, <1>5, <1>t DEF Follows, SafeConfig

\* Up to the message being saved, all were applied, are missing or were
\* acknowledged to Publish.
LEMMA SkippedAtSave ==
    ASSUME TypeOK, NEW s \in Shards, ShardInv(s), pc[s] = "save",
           config.replicate, NEW m \in 1..length[s], m <= msg[s]
    PROVE  m \in applied[s] \cup Missing(s) \cup 1..acked[s]
<1> USE DEF ShardTypeOK
<1>t. ShardTypeOK(s) BY ZenonT(30), ShardTypes
<1>0. savedSeq[s] <= seq[s] /\ Follows(s, savedSeq[s], msg[s])
  BY Zenon, AtSave
<1>1. /\ msg[s] \in Nat /\ savedSeq[s] \in Nat /\ seq[s] \in Nat /\ m \in Nat
      /\ 1 <= m
  BY <1>t
<1>2. CASE m <= seq[s] BY Zenon, <1>2 DEF ShardInv, SkippedInv
<1>3. CASE m = msg[s] BY Zenon, <1>3, AtSave
<1>4. CASE ~(m <= seq[s]) /\ m # msg[s]
  <2>1. m \in 1..(msg[s] - 1) /\ m > savedSeq[s] BY <1>0, <1>1, <1>4
  <2> QED BY Zenon, <2>1, <1>0 DEF Follows
<1> QED BY Zenon, <1>2, <1>3, <1>4

\* What a save does to the position of its own stream.
LEMMA SavedPosition ==
    ASSUME TypeOK, NEW s \in Shards, NEW m \in Nat, SavePosition(s, m)
    PROVE  /\ \A t \in Shards : t # s => /\ seq'[t] = seq[t]
                                         /\ file'[t] \in {seq[t], file[t]}
           /\ \/ m <= seq[s] /\ seq' = seq /\ file' = file
              \/ /\ m > seq[s] /\ seq'[s] = m /\ file'[s] = m
                 /\ seq' # seq
                 /\ \A t \in Shards : t # s => file'[t] = seq[t]
           /\ seq'[s] \in Nat /\ seq[s] <= seq'[s] /\ m <= seq'[s]
<1> USE TypeParts
<1>t. seq \in [Shards -> Nat] /\ seq[s] \in Nat BY Zenon DEF StateTypes
<1>1. CASE m <= seq[s]
  <2>1. seq' = seq /\ file' = file BY Zenon, <1>1 DEF SavePosition, state
  <2>2. seq[s] <= seq[s] BY <1>t
  <2> QED BY Zenon, <1>1, <2>1, <2>2, <1>t
<1>2. CASE ~(m <= seq[s])
  <2>1. seq' = [seq EXCEPT ![s] = m] /\ file' = seq'
    BY Zenon, <1>2 DEF SavePosition
  <2>2. m > seq[s] /\ m # seq[s] /\ seq[s] <= m /\ m <= m BY <1>2, <1>t
  <2>3. seq'[s] = m /\ \A t \in Shards : t # s => seq'[t] = seq[t]
    BY Zenon, <2>1, <1>t
  <2> QED BY Zenon, <2>1, <2>2, <2>3
<1> QED BY Zenon, <1>1, <1>2

\* A save that succeeds, for its own stream.
LEMMA StepSave ==
    ASSUME TypeOK, NEW s \in Shards, ShardInv(s), Save(s)
    PROVE  ShardInv(s)'
<1> USE DEF ShardInv, ShardTypeOK
<1>t. ShardTypeOK(s) BY Zenon, ShardTypes
<1>1. pc[s] = "save" BY Zenon DEF Save
<1>2. /\ pc'[s] = "ack" /\ savedSeq'[s] = seq'[s]
      /\ UNCHANGED <<length[s], sent[s], unacked[s], inbox[s], lost[s], msg[s],
                     own[s], acked[s], applied[s], proc, config>>
  BY Zenon, TypeParts DEF Save, Goto, LocalTypes, consumer, publisher, process
<1>3. /\ \/ msg[s] <= seq[s] /\ seq'[s] = seq[s] /\ file'[s] = file[s]
         \/ msg[s] > seq[s] /\ seq'[s] = msg[s] /\ file'[s] = msg[s]
      /\ seq'[s] \in Nat /\ seq'[s] <= seq'[s] /\ msg[s] <= seq'[s]
  <2>1. SavePosition(s, msg[s]) /\ msg[s] \in Nat BY Zenon, <1>t DEF Save
  <2>2. \A n \in Nat : n <= n OBVIOUS
  <2> QED BY Zenon, <2>1, <2>2, SavedPosition
<1>m. UNCHANGED <<Missing(s), SafeConfig>> BY Zenon, <1>2, SameMissing
<1>4. ConsumerInv(s)' BY Zenon, <1>1, <1>2, <1>3, AtSave DEF ConsumerInv
<1>5. InboxInv(s)'
  <2>1. Front(s) = msg[s] /\ Front(s)' = seq'[s] /\ Listening(s)
    BY Zenon, <1>1, <1>2 DEF Front, InHand, Listening
  <2>2. \A k \in 1..sent[s] : k > Front(s)' => k > Front(s)
    <3>1. msg[s] \in Nat /\ seq'[s] \in Nat /\ msg[s] <= seq'[s]
      BY Zenon, <1>3, <1>t
    <3>2. \A k \in 1..sent[s] : k > seq'[s] => k > msg[s]
      BY <3>1
    <3> QED BY Zenon, <2>1, <3>2
  <2> QED BY Zenon, <1>2, <1>m, <2>1, <2>2 DEF InboxInv
<1>6. PositionInv(s)'
  BY Zenon, <1>1, <1>2, <1>3, AtSave DEF PositionInv, InHand, Listening
<1>7. SafeConfig' => ExactInv(s)'
  BY Zenon, <1>1, <1>2, <1>3, <1>m, AtSave DEF ExactInv
<1>8. config'.replicate => SkippedInv(s)'
  <2>1. config.replicate => \A m \in 1..length[s] :
            m <= msg[s] => m \in applied[s] \cup Missing(s) \cup 1..acked[s]
    BY Zenon, <1>1, SkippedAtSave
  <2> QED BY Zenon, <2>1, <1>2, <1>3, <1>m DEF SkippedInv
<1> QED BY Zenon, <1>4, <1>5, <1>6, <1>7, <1>8

\* The number of the node's own message becomes the position.
LEMMA StepSaveOwn ==
    ASSUME TypeOK, NEW s \in Shards, ShardInv(s), OwnSaved(s),
           \/ seq' = seq /\ file' = file
           \/ /\ seq' # seq /\ own[s] > seq[s] /\ seq'[s] = own[s]
              /\ file'[s] \in {own[s], file[s]}
    PROVE  ShardInv(s)'
<1> USE DEF ShardInv, ShardTypeOK
<1>t. ShardTypeOK(s) BY Zenon, ShardTypes
<1>1. /\ own[s] # 0 /\ own'[s] = 0
      /\ UNCHANGED <<length[s], sent[s], unacked[s], inbox[s], lost[s], pc[s],
                     msg[s], savedSeq[s], applied[s], proc, config>>
  BY Zenon, TypeParts DEF OwnSaved, StateTypes, consumer, local, process
<1>2. ~SafeConfig /\ proc # "down" BY Zenon, <1>1 DEF ExactInv, PositionInv
<1>m. UNCHANGED <<Missing(s), SafeConfig>> BY Zenon, <1>1, SameMissing
<1>3. \A n \in Nat : 0 <= n OBVIOUS
<1>4. InboxInv(s)'
  BY Zenon, <1>1, <1>m DEF InboxInv, Listening, Front, InHand
<1>5. CASE seq' = seq /\ file' = file
  <2>1. acked'[s] = acked[s] BY Zenon, <1>5 DEF OwnSaved
  <2>2. ConsumerInv(s)' BY Zenon, <1>1, <1>3, <1>5, <2>1, <1>t DEF ConsumerInv
  <2>3. PositionInv(s)'
    BY Zenon, <1>1, <1>2, <1>5, <1>m DEF PositionInv, Follows, InHand, Listening
  <2>4. config'.replicate => SkippedInv(s)'
    BY Zenon, <1>1, <1>5, <1>m, <2>1, SkippedFrame
  <2> QED BY Zenon, <1>2, <1>4, <1>m, <2>2, <2>3, <2>4
<1>6. CASE /\ seq' # seq /\ own[s] > seq[s] /\ seq'[s] = own[s]
           /\ file'[s] \in {own[s], file[s]}
  <2>1. acked'[s] = own[s]
    BY Zenon, <1>6, TypeParts DEF OwnSaved, StateTypes
  <2>2. ConsumerInv(s)' BY Zenon, <1>1, <1>3, <1>6, <2>1, <1>t DEF ConsumerInv
  <2>3. PositionInv(s)'
    <3>1. savedSeq[s] <= seq[s] => savedSeq[s] <= own[s]
      <4>1. /\ savedSeq[s] \in Nat /\ seq[s] \in Nat /\ own[s] \in Nat
            /\ own[s] > seq[s]
        BY Zenon, <1>t, <1>6
      <4> QED BY <4>1
    <3> QED BY Zenon, <1>1, <1>2, <1>6, <1>m, <3>1 DEF PositionInv, Follows,
               InHand, Listening
  <2>4. config'.replicate => SkippedInv(s)'
    <3> SUFFICES ASSUME config.replicate, NEW m \in 1..length[s],
                        m <= own[s] \/ m <= file[s]
                 PROVE  m \in applied[s] \cup Missing(s) \cup 1..own[s]
      BY Zenon, <1>1, <1>6, <1>m, <2>1 DEF SkippedInv
    <3>1. acked[s] <= own[s] BY Zenon, <1>1 DEF ConsumerInv
    <3>2. m \in 1..acked[s] => m \in 1..own[s]
      <4>1. acked[s] \in Nat /\ own[s] \in Nat BY Zenon, <1>t
      <4> QED BY <3>1, <4>1
    <3>3. m <= own[s] => m \in 1..own[s]
      <4>1. own[s] \in Nat BY Zenon, <1>t
      <4> QED BY <4>1
    <3> QED BY Zenon, <3>2, <3>3 DEF SkippedInv
  <2> QED BY Zenon, <1>2, <1>4, <1>m, <2>2, <2>3, <2>4
<1> QED BY Zenon, <1>5, <1>6

\* A save that succeeds writes the position in memory of every other stream.
LEMMA StepSaveOther ==
    ASSUME TypeOK, NEW s \in Shards, ShardInv(s), Save(s) \/ SaveOwn(s),
           NEW t \in Shards, t # s, ShardInv(t)
    PROVE  ShardInv(t)'
<1> USE DEF ShardInv
<1>1. /\ seq'[t] = seq[t] /\ file'[t] \in {seq[t], file[t]} /\ proc # "down"
      /\ UNCHANGED <<length[t], sent[t], unacked[t], inbox[t], lost[t], pc[t],
                     msg[t], savedSeq[t], own[t], acked[t], applied[t], proc,
                     config>>
  <2>1. CASE Save(s)
    <3>1. SavePosition(s, msg[s]) /\ msg[s] \in Nat /\ pc[s] = "save"
      BY Zenon, <2>1, TypeParts DEF Save, LocalTypes
    <3>2. /\ seq'[t] = seq[t] /\ file'[t] \in {seq[t], file[t]}
          /\ proc # "down"
      BY Zenon, <3>1, SavedPosition, AtSave
    <3> QED BY Zenon, <2>1, <3>2, TypeParts
            DEF Save, Goto, LocalTypes, consumer, publisher, process
  <2>2. CASE SaveOwn(s)
    <3>1. SavePosition(s, own[s]) /\ own[s] \in Nat /\ OwnSaved(s)
      BY Zenon, <2>2, TypeParts DEF SaveOwn, StateTypes
    <3>2. seq'[t] = seq[t] /\ file'[t] \in {seq[t], file[t]}
      BY Zenon, <3>1, SavedPosition
    <3>3. proc # "down" BY Zenon, <3>1 DEF OwnSaved, PositionInv
    <3> QED BY Zenon, <3>1, <3>2, <3>3, TypeParts
            DEF OwnSaved, StateTypes, consumer, local, process
  <2> QED BY Zenon, <2>1, <2>2
<1>m. UNCHANGED <<Missing(t), SafeConfig>> BY Zenon, <1>1, SameMissing
<1>2. ConsumerInv(t)' BY Zenon, <1>1 DEF ConsumerInv
<1>3. InboxInv(t)' BY Zenon, <1>1, <1>m DEF InboxInv, Listening, Front, InHand
<1>4. PositionInv(t)'
  BY Zenon, <1>1, <1>m DEF PositionInv, Listening, InHand, Follows
<1>5. SafeConfig' => ExactInv(t)'
  BY Zenon, <1>1, <1>m DEF ExactInv, Listening, Follows
<1>6. config'.replicate => SkippedInv(t)' BY Zenon, <1>1, <1>m DEF SkippedInv
<1> QED BY Zenon, <1>2, <1>3, <1>4, <1>5, <1>6

\* A save that fails before or after the position in memory was set.
LEMMA StepSaveError ==
    ASSUME TypeOK, NEW s \in Shards, ShardInv(s), SaveError(s)
    PROVE  ShardInv(s)'
<1> USE DEF ShardInv
<1>1. /\ pc[s] = "save" /\ pc'[s] = "report" /\ msg'[s] = 0
      /\ UNCHANGED <<length[s], sent[s], unacked[s], inbox[s], lost[s],
                     savedSeq[s], file[s], own[s], acked[s], applied[s], proc,
                     config>>
      /\ seq'[s] \in {seq[s], msg[s]}
  BY Zenon, TypeParts DEF SaveError, SavePositionFails, Drop, Goto, LocalTypes,
     StateTypes, consumer, state, publisher, process
<1>m. UNCHANGED <<Missing(s), SafeConfig>> BY Zenon, <1>1, SameMissing
<1>2. CASE seq'[s] = seq[s] BY Zenon, <1>1, <1>2, AtSave, StopListening
<1>3. CASE seq'[s] = msg[s]
  <2>1. ConsumerInv(s)' BY Zenon, <1>1, <1>3, AtSave DEF ConsumerInv
  <2>2. InboxInv(s)' BY Zenon, <1>1 DEF InboxInv, Listening
  <2>3. PositionInv(s)'
    BY Zenon, <1>1, <1>3, AtSave DEF PositionInv, InHand, Listening
  <2>4. SafeConfig' => ExactInv(s)'
    BY Zenon, <1>1, <1>3, <1>m, AtSave DEF ExactInv, Listening, Follows
  <2>5. config'.replicate => SkippedInv(s)'
    <3>1. config.replicate => \A m \in 1..length[s] :
              m <= msg[s] => m \in applied[s] \cup Missing(s) \cup 1..acked[s]
      BY Zenon, <1>1, SkippedAtSave
    <3> QED BY Zenon, <3>1, <1>1, <1>3, <1>m DEF SkippedInv
  <2> QED BY Zenon, <2>1, <2>2, <2>3, <2>4, <2>5
<1> QED BY Zenon, <1>1, <1>2, <1>3

\* The two ends of Publish are as StepSaveOwn says.
LEMMA OwnEnds ==
    ASSUME TypeOK, NEW s \in Shards, SaveOwn(s) \/ SaveOwnError(s)
    PROVE  /\ OwnSaved(s)
           /\ \/ seq' = seq /\ file' = file
              \/ /\ seq' # seq /\ own[s] > seq[s] /\ seq'[s] = own[s]
                 /\ file'[s] \in {own[s], file[s]}
<1>t. own[s] \in Nat /\ seq \in [Shards -> Nat] /\ seq[s] \in Nat
  BY Zenon, TypeParts DEF StateTypes
<1>1. CASE SaveOwn(s) BY Zenon, <1>1, <1>t, SavedPosition DEF SaveOwn
<1>2. CASE SaveOwnError(s)
  <2>1. OwnSaved(s) /\ SavePositionFails(s, own[s])
    BY Zenon, <1>2 DEF SaveOwnError
  <2>2. CASE UNCHANGED state BY Zenon, <2>1, <2>2 DEF state
  <2>3. CASE seq' = [seq EXCEPT ![s] = own[s]] /\ file' = file
    <3>1. own[s] > seq[s] BY Zenon, <2>1 DEF SavePositionFails
    <3>2. own[s] # seq[s] BY <3>1, <1>t
    <3> QED BY Zenon, <2>1, <2>3, <3>1, <3>2, <1>t
  <2> QED BY Zenon, <2>1, <2>2, <2>3 DEF SavePositionFails
<1> QED BY Zenon, <1>1, <1>2

\* An acknowledgement.
LEMMA StepAck ==
    ASSUME TypeOK, NEW s \in Shards, ShardInv(s), Ack(s)
    PROVE  ShardInv(s)'
<1> USE DEF ShardInv, ShardTypeOK
<1>t. ShardTypeOK(s) BY Zenon, ShardTypes
<1>1. /\ pc[s] = "ack" /\ pc'[s] = "wait" /\ msg'[s] = 0
      /\ unacked'[s] = unacked[s] \ {msg[s]}
      /\ UNCHANGED <<length[s], sent[s], inbox[s], lost[s], savedSeq[s], seq[s],
                     file[s], own[s], acked[s], applied[s], proc, config>>
  BY Zenon, TypeParts DEF Ack, Drop, Goto, ConsumerTypes, LocalTypes, state,
     publisher, process
<1>m. UNCHANGED <<Missing(s), SafeConfig>> BY Zenon, <1>1, SameMissing
<1>2. ConsumerInv(s)'
  <2>1. \A n \in Nat : 0 <= n OBVIOUS
  <2>2. msg'[s] <= sent[s] BY Zenon, <1>1, <2>1, <1>t
  <2> QED BY Zenon, <1>1, <2>2 DEF ConsumerInv
<1>3. Front(s)' = Front(s) /\ Listening(s)
  BY Zenon, <1>1 DEF Front, InHand, Listening
<1>4. InboxInv(s)' BY Zenon, <1>1, <1>3, <1>m DEF InboxInv
<1>5. PositionInv(s)' BY Zenon, <1>1 DEF PositionInv, InHand, Listening
<1>6. SafeConfig' => ExactInv(s)' BY Zenon, <1>1, <1>3, <1>m, ExactFrame
<1>7. config'.replicate => SkippedInv(s)' BY Zenon, <1>1, <1>m, SkippedFrame
<1> QED BY Zenon, <1>2, <1>4, <1>5, <1>6, <1>7

\* A start reads the sequence map, an end of the process forgets the rest.
LEMMA StepProcess ==
    ASSUME TypeOK, NEW t \in Shards, ShardInv(t), processStep
    PROVE  ShardInv(t)'
<1> USE DEF ShardInv, ShardTypeOK
<1>t. ShardTypeOK(t) BY Zenon, ShardTypes
<1>1. CASE Start
  <2>1. /\ proc = "down" /\ proc' = "up" /\ seq'[t] = file[t]
        /\ UNCHANGED <<length[t], sent[t], unacked[t], inbox[t], lost[t], pc[t],
                       msg[t], savedSeq[t], file[t], own[t], acked[t],
                       applied[t], config>>
    BY Zenon, <1>1 DEF Start, consumer, local, publisher
  <2>m. UNCHANGED <<Missing(t), SafeConfig>> BY Zenon, <2>1, SameMissing
  <2>2. pc[t] = "off" BY Zenon, <2>1 DEF PositionInv
  <2>3. ConsumerInv(t)' BY Zenon, <2>1 DEF ConsumerInv
  <2>4. InboxInv(t)' BY Zenon, <2>1, <2>2 DEF InboxInv, Listening
  <2>5. PositionInv(t)' BY Zenon, <2>1, <2>2 DEF PositionInv, InHand, Listening
  <2>6. SafeConfig' => ExactInv(t)'
    BY Zenon, <2>1, <2>2, <2>m DEF ExactInv, Listening
  <2>7. config'.replicate => SkippedInv(t)' BY Zenon, <2>1, <2>m DEF SkippedInv
  <2> QED BY Zenon, <2>3, <2>4, <2>5, <2>6, <2>7
<1>2. CASE Panic \/ Exit \/ Crash
  <2>1. /\ proc' = "down" /\ seq'[t] = 0 /\ pc'[t] = "off" /\ msg'[t] = 0
        /\ sent'[t] = 0 /\ unacked'[t] = {} /\ inbox'[t] = <<>> /\ own'[t] = 0
        /\ UNCHANGED <<length[t], lost[t], file[t], acked[t], applied[t], config>>
    BY Zenon, <1>2 DEF Panic, Exit, Crash, Down
  <2>m. UNCHANGED <<Missing(t), SafeConfig>> BY Zenon, <2>1, SameMissing
  <2>2. ConsumerInv(t)'
    <3>1. Len(inbox'[t]) = 0 /\ 1..0 = {}
      <4>1. Len(<<>>) = 0 /\ 1..0 = {} OBVIOUS
      <4> QED BY Zenon, <2>1, <4>1
    <3>2. \A n \in Nat : 0 <= n OBVIOUS
    <3>3. \A i \in 1..Len(inbox'[t]) : inbox'[t][i] \in 1..sent'[t]
      BY Zenon, <3>1
    <3>4. 0 <= 0 OBVIOUS
    <3> QED BY Zenon, <2>1, <3>2, <3>3, <3>4, <1>t DEF ConsumerInv
  <2>3. InboxInv(t)' BY Zenon, <2>1 DEF InboxInv, Listening
  <2>4. PositionInv(t)' BY Zenon, <2>1 DEF PositionInv, InHand, Listening
  <2>5. SafeConfig' => ExactInv(t)' BY Zenon, <2>1 DEF ExactInv, Listening
  <2>6. config'.replicate => SkippedInv(t)'
    <3>1. \A n \in 1..length[t] : ~(n <= 0) OBVIOUS
    <3> QED BY Zenon, <2>1, <2>m, <3>1 DEF SkippedInv
  <2> QED BY Zenon, <2>2, <2>3, <2>4, <2>5, <2>6
<1>3. CASE Cancel \/ Disconnect
  <2>1. UNCHANGED shardVars(t) /\ (proc' = "down" <=> proc = "down")
    BY Zenon, <1>3 DEF Cancel, Disconnect, shardVars, consumer, local, state,
       publisher
  <2> QED BY Zenon, <2>1, ShardFrame
<1> QED BY Zenon, <1>1, <1>2, <1>3 DEF processStep

\* Every step keeps the inductive invariant.
LEMMA IndStep == IndInv /\ [Next]_vars => IndInv'
<1> SUFFICES ASSUME IndInv, [Next]_vars PROVE IndInv' BY Zenon
<1>0. /\ TypeOK /\ (proc = "down" => conn = "closed")
      /\ \A t \in Shards : ShardInv(t)
  BY Zenon DEF IndInv
<1>1. TypeOK'
  BY Zenon, <1>0, TypeParts, ConsumerTypesStep, LocalTypesStep, StateTypesStep,
     ProcessTypesStep
<1>2. (proc = "down" => conn = "closed")'
  <2>1. ASSUME NEW s \in Shards, shardStep(s) \/ Save(s) \/ SaveOwn(s)
        PROVE  UNCHANGED <<proc, conn>>
    BY Zenon, <2>1, ProcessFrame
  <2>2. CASE processStep
    BY Zenon, <2>2, <1>0 DEF processStep, Start, Panic, Cancel, Exit, Crash,
       Disconnect, Down, process
  <2> QED BY Zenon, <2>1, <2>2, <1>0, Cases DEF vars, process
<1>3. ASSUME NEW t \in Shards PROVE ShardInv(t)'
  <2>1. ASSUME NEW s \in Shards, shardStep(s) PROVE ShardInv(t)'
    <3>1. CASE t # s
      BY Zenon, <3>1, <2>1, <1>0, OtherShards, ShardFrame
    <3>2. CASE t = s
      <4>1. CASE Publish(s) \/ PublishOwn(s)
        BY Zenon, <4>1, <3>2, <1>0, StepPublish
      <4>2. CASE Deliver(s) \/ Lose(s) BY Zenon, <4>2, <3>2, <1>0, StepDelivery
      <4>3. CASE RemoveConsumer(s)
        <5>1. UNCHANGED shardVars(s) /\ proc' = proc
          BY ZenonT(30), <4>3 DEF RemoveConsumer, shardVars, local, state,
             publisher, process
        <5> QED BY Zenon, <5>1, <3>2, <1>0, ShardFrame
      <4>4. CASE \E m \in unacked[s] : Redeliver(s, m) \/ Forget(s, m)
        BY Zenon, <4>4, <3>2, <1>0, StepRedeliver, StepForget
      <4>5. CASE Subscribe(s)
        <5>1. proc # "down" BY Zenon, <4>5, <1>0 DEF Subscribe
        <5> QED BY Zenon, <4>5, <5>1, <3>2, <1>0, StepSubscribe
      <4>6. CASE NextMsg(s) BY Zenon, <4>6, <3>2, <1>0, StepNextMsg
      <4>7. CASE Closed(s) \/ CallbackCanceled(s) \/ RequestError(s)
                 \/ CallbackError(s)
        <5>1. proc # "down"
          BY ZenonT(30), <4>7, <1>0 DEF Closed, CallbackCanceled, RequestError,
             CallbackError, ShardInv, PositionInv
        <5> QED BY Zenon, <4>7, <5>1, <3>2, <1>0, StepStop
      <4>8. CASE CallbackOK(s) BY Zenon, <4>8, <3>2, <1>0, StepCallbackOK
      <4>9. CASE SaveError(s) BY Zenon, <4>9, <3>2, <1>0, StepSaveError
      <4>10. CASE Ack(s) BY Zenon, <4>10, <3>2, <1>0, StepAck
      <4>11. CASE SaveOwnError(s)
        BY Zenon, <4>11, <3>2, <1>0, OwnEnds, StepSaveOwn
      <4> QED BY Zenon, <2>1, <4>1, <4>2, <4>3, <4>4, <4>5, <4>6, <4>7, <4>8,
                 <4>9, <4>10, <4>11 DEF shardStep
    <3> QED BY Zenon, <3>1, <3>2
  <2>2. ASSUME NEW s \in Shards, Save(s) \/ SaveOwn(s) PROVE ShardInv(t)'
    <3>1. CASE t # s BY Zenon, <2>2, <3>1, <1>0, StepSaveOther
    <3>2. CASE t = s
      BY Zenon, <2>2, <3>2, <1>0, StepSave, OwnEnds, StepSaveOwn
    <3> QED BY Zenon, <3>1, <3>2
  <2>3. CASE processStep BY Zenon, <2>3, <1>0, StepProcess
  <2>4. CASE UNCHANGED vars
    <3>1. UNCHANGED shardVars(t) /\ proc' = proc
      BY Zenon, <2>4 DEF vars, shardVars, consumer, local, state, publisher,
         process
    <3> QED BY Zenon, <3>1, <1>0, ShardFrame
  <2> QED BY Zenon, <2>1, <2>2, <2>3, <2>4, Cases
<1> QED BY Zenon, <1>1, <1>2, <1>3 DEF IndInv

LEMMA IndInit == Init => IndInv
<1> SUFFICES ASSUME Init PROVE IndInv BY Zenon
<1>1. TypeOK
  BY SMTT(20), ListenerAssumption DEF Init, TypeOK, Steps
<1>2. ASSUME NEW t \in Shards PROVE ShardInv(t)
  <2>1. /\ length[t] = 0 /\ sent[t] = 0 /\ unacked[t] = {} /\ msg[t] = 0
        /\ inbox[t] = <<>> /\ pc[t] = "off" /\ seq[t] = 0 /\ file[t] = 0
        /\ applied[t] = {} /\ own[t] = 0 /\ acked[t] = 0 /\ proc = "down"
    BY Zenon DEF Init
  <2>2. Len(inbox[t]) = 0 /\ 1..0 = {} BY <2>1
  <2> QED BY SMTT(20), <2>1, <2>2 DEF ShardInv, ConsumerInv, InboxInv,
             PositionInv, ExactInv, SkippedInv, Listening, InHand
<1> QED BY Zenon, <1>1, <1>2 DEF IndInv, Init

LEMMA Inductive == Spec => []IndInv
BY IndInit, IndStep, PTL DEF Spec

\* Every variable of a listener keeps its type in every behaviour; with it, no
\* message is attempted more often than invokeListener allows.
THEOREM TypeCorrect == Spec => []TypeOK
<1>1. IndInv => TypeOK BY Zenon DEF IndInv
<1> QED BY <1>1, Inductive, PTL

\* The position that replicationState keeps, in memory and in its file, runs
\* ahead of the tables of a node that replicates only where the node's own
\* Publish put it, apart from lost and discarded messages: for any number of
\* shards, attempts, crashes and failing writes, and every configuration.
THEOREM NothingIsSkipped == Spec => []NothingSkipped
<1>1. IndInv => NothingSkipped
  BY Zenon DEF IndInv, ShardInv, SkippedInv, NothingSkipped
<1> QED BY <1>1, Inductive, PTL

-----------------------------------------------------------------------------
(* The listener of every stream implements OrderedReplay.                    *)

\* What the abstract specification sees of stream t.
seen(t) == <<length[t], Discarded(t), lost[t], applied[t], file[t]>>

LEMMA Stutter ==
    ASSUME NEW t \in Shards, UNCHANGED seen(t)
    PROVE  UNCHANGED Order(t)!vars
BY Zenon DEF seen, Order!vars

\* Missing messages are those the abstract specification may pass over.
LEMMA OrderFollows ==
    ASSUME TypeOK, NEW t \in Shards, NEW m, Follows(t, file[t], m)
    PROVE  Order(t)!Follows(m)
<1>1. Discarded(t) \in Nat BY Zenon, DiscardFacts, TypeParts
<1>2. \A k \in 1..Discarded(t) : k <= Discarded(t) BY <1>1
<1> QED BY Zenon, <1>2 DEF Order!Follows, Follows, Missing

\* A step of stream t itself is a step of the abstract specification.
LEMMA OwnStep ==
    ASSUME IndInv, SafeConfig, NEW t \in Shards, shardStep(t)
    PROVE  Order(t)!Next \/ UNCHANGED seen(t)
<1> USE DEF ShardTypeOK
<1>t. ShardTypeOK(t) BY Zenon, ShardTypes DEF IndInv
<1>0. /\ TypeOK /\ ShardInv(t) /\ ExactInv(t) /\ config' = config
      /\ length'[t] = length[t] => UNCHANGED Discarded(t)
  <2>1. config' = config BY Zenon, ProcessFrame
  <2> QED BY Zenon, <2>1 DEF IndInv, ShardInv, Discarded
<1>1. CASE Publish(t) \/ PublishOwn(t)
  <2>1. length'[t] = length[t] + 1 /\ UNCHANGED <<lost[t], applied[t], file[t]>>
    BY Zenon, <1>0, <1>1, TypeParts DEF Publish, PublishOwn, Store,
       ConsumerTypes, consumer, state
  <2>2. Discarded(t)' \in {Discarded(t), Discarded(t) + 1}
    BY Zenon, <2>1, <1>0, DiscardFacts, TypeParts
  <2>3. Order(t)!Publish BY Zenon, <2>1, <2>2 DEF Order!Publish
  <2> QED BY Zenon, <2>3 DEF Order!Next
<1>2. CASE Lose(t)
  <2> DEFINE n == Following(t)
  <2>1. /\ n <= length[t] /\ lost'[t] = lost[t] \cup {n}
        /\ UNCHANGED <<length[t], applied[t], file[t]>>
    BY Zenon, <1>0, <1>2, TypeParts DEF Lose, FirstDelivery, ConsumerTypes,
       state
  <2>2. n \in 1..length[t]
    <3>1. sent[t] \in Nat /\ length[t] \in Nat /\ n \in Nat /\ sent[t] < n
      BY Zenon, <1>t, <1>0, DiscardFacts, TypeParts
    <3> QED BY <2>1, <3>1
  <2>3. Order(t)!Lose(n) BY ZenonT(30), <2>1, <2>2, <1>0 DEF Order!Lose
  <2> QED BY Zenon, <2>2, <2>3 DEF Order!Next
<1>3. CASE CallbackOK(t)
  <2>1. /\ pc[t] = "attempt" /\ applied'[t] = applied[t] \cup {msg[t]}
        /\ UNCHANGED <<length[t], lost[t], file[t]>>
    BY Zenon, <1>0, <1>3, TypeParts DEF CallbackOK, SafeConfig, StateTypes,
       consumer, state
  <2>2. Follows(t, file[t], msg[t])
    <3>1. proc # "down" BY Zenon, <2>1, <1>0 DEF ShardInv, PositionInv
    <3>2. savedSeq[t] = file[t]
      BY Zenon, <2>1, <3>1, <1>0 DEF ExactInv, Listening
    <3> QED BY Zenon, <2>1, <3>2, <1>0 DEF ShardInv, PositionInv, InHand
  <2>3. msg[t] \in 1..length[t]
    <3>1. /\ msg[t] > file[t] /\ msg[t] <= sent[t] /\ sent[t] <= length[t]
          /\ msg[t] \in Nat /\ file[t] \in Nat /\ sent[t] \in Nat
          /\ length[t] \in Nat
      BY Zenon, <2>2, <1>0, <1>t DEF Follows, ShardInv, ConsumerInv
    <3> QED BY <3>1
  <2>4. Order(t)!Follows(msg[t]) BY Zenon, <2>2, <1>0, OrderFollows
  <2>5. Order(t)!Apply(msg[t]) BY Zenon, <2>1, <2>4, <1>0 DEF Order!Apply
  <2> QED BY Zenon, <2>3, <2>5 DEF Order!Next
<1>4. CASE \/ Deliver(t) \/ RemoveConsumer(t)
           \/ \E m \in unacked[t] : Redeliver(t, m) \/ Forget(t, m)
           \/ Subscribe(t) \/ NextMsg(t) \/ Closed(t) \/ CallbackError(t)
           \/ CallbackCanceled(t) \/ SaveError(t) \/ Ack(t) \/ RequestError(t)
           \/ SaveOwnError(t)
  <2>1. UNCHANGED <<length, lost, applied, file>>
    BY Zenon, <1>4 DEF Deliver, FirstDelivery, RemoveConsumer, Redeliver,
       Forget, Subscribe, NextMsg, Closed, CallbackError, CallbackCanceled,
       SaveError, SavePositionFails, Ack, RequestError, SaveOwnError, OwnSaved,
       consumer, state
  <2> QED BY Zenon, <2>1, <1>0 DEF seen
<1> QED BY Zenon, <1>1, <1>2, <1>3, <1>4 DEF shardStep

\* A save moves the position of every stream to an applied message that
\* follows it.
LEMMA SaveStep ==
    ASSUME IndInv, SafeConfig, NEW s \in Shards, Save(s), NEW t \in Shards
    PROVE  Order(t)!Next \/ UNCHANGED seen(t)
<1>0. TypeOK /\ ShardInv(s) /\ ShardInv(t) /\ ExactInv(t)
  BY Zenon DEF IndInv, ShardInv
<1>1. /\ UNCHANGED <<length[t], lost[t], applied[t], Discarded(t)>>
      /\ pc[s] = "save" /\ proc # "down"
  <2>1. UNCHANGED <<length, lost, applied, config>> /\ pc[s] = "save"
    BY ZenonT(30) DEF Save, consumer, process
  <2> QED BY Zenon, <2>1, <1>0, AtSave DEF Discarded
<1>2. ASSUME NEW n \in applied[t], Follows(t, file[t], n), file'[t] = n
      PROVE  Order(t)!Next
  <2>1. n \in 1..length[t] BY Zenon, <1>0 DEF ShardInv, ConsumerInv
  <2>2. Order(t)!Follows(n) BY Zenon, <1>0, <1>2, OrderFollows
  <2>3. Order(t)!Save(n) BY Zenon, <1>1, <1>2, <2>2 DEF Order!Save
  <2> QED BY Zenon, <2>1, <2>3 DEF Order!Next
<1>3. SavePosition(s, msg[s]) /\ msg[s] \in Nat
  BY Zenon, <1>0, TypeParts DEF Save, LocalTypes
<1>4. file'[s] = msg[s] /\ (t # s => file'[t] = seq[t])
  BY Zenon, <1>0, <1>1, <1>3, SavedPosition, AtSave
<1>5. CASE t = s BY ZenonT(30), <1>4, <1>0, <1>1, <1>2, <1>5, AtSave
<1>6. CASE t # s
  <2>1. CASE seq[t] = file[t] BY Zenon, <1>4, <1>6, <2>1, <1>1 DEF seen
  <2>2. CASE seq[t] \in applied[t] /\ Follows(t, file[t], seq[t])
    BY Zenon, <1>4, <1>6, <2>2, <1>2
  <2> QED BY Zenon, <1>1, <2>1, <2>2, <1>0 DEF ExactInv
<1> QED BY Zenon, <1>5, <1>6

\* For every stream, in the configurations where nothing but Listen writes the
\* position of a node that replicates, whatever the listeners, the server, the
\* disk and the process do: Listen applies messages in order, never a message
\* again once replicationState saved it, and passes over none that was neither
\* lost nor discarded.
THEOREM AppliesInOrder == Spec => AppliedInOrder
<1>1. Init => OrderInit
  <2> SUFFICES ASSUME Init, NEW t \in Shards PROVE Order(t)!Init
    BY Zenon DEF OrderInit
  <2>1. TypeOK /\ length[t] = 0 BY Zenon, IndInit DEF IndInv, Init
  <2>2. Discarded(t) = 0
    <3>1. config.maxMsgs \in Nat
      BY <2>1, ListenerAssumption, TypeParts DEF ProcessTypes, Config
    <3> QED BY <2>1, <3>1 DEF Discarded
  <2> QED BY Zenon, <2>2 DEF Init, Order!Init
<1>2. IndInv /\ [Next]_vars => [SafeConfig => OrderNext]_vars
  <2> SUFFICES ASSUME IndInv, [Next]_vars, SafeConfig, NEW t \in Shards
               PROVE  Order(t)!Next \/ UNCHANGED Order(t)!vars
    BY Zenon DEF OrderNext
  <2>1. ASSUME NEW s \in Shards, shardStep(s)
        PROVE  Order(t)!Next \/ UNCHANGED seen(t)
    <3>1. CASE s = t BY Zenon, <2>1, <3>1, OwnStep
    <3>2. CASE s # t
      BY Zenon, <2>1, <3>2, OtherShards DEF IndInv, shardVars, seen, Discarded
    <3> QED BY Zenon, <3>1, <3>2
  <2>2. ASSUME processStep \/ UNCHANGED vars PROVE UNCHANGED seen(t)
    <3>1. UNCHANGED <<length, lost, applied, file, config>>
      BY Zenon, <2>2 DEF processStep, Start, Panic, Cancel, Exit, Crash,
         Disconnect, Down, vars, consumer, state, process
    <3> QED BY Zenon, <3>1 DEF seen, Discarded
  <2>3. ASSUME NEW s \in Shards, SaveOwn(s) PROVE FALSE
    BY Zenon, <2>3 DEF IndInv, ShardInv, ExactInv, SaveOwn, OwnSaved
  <2> QED BY Zenon, <2>1, <2>2, <2>3, SaveStep, Stutter, Cases
<1> QED BY <1>1, <1>2, Inductive, PTL DEF Spec, AppliedInOrder

=============================================================================
