------------------------------- MODULE Listener --------------------------------
(***************************************************************************)
(* Replicator.Listen for every shard of one node: the stream with its limit, *)
(* the JetStream consumer it reads from, the attempts of invokeListener, the *)
(* sequence map in memory and on disk, the publisher of the same node, which *)
(* writes the map too, and the ways a listener stops.  Module Replication    *)
(* has the effect of the messages on the tables and module SnapshotLog the   *)
(* restore before the start; here the messages are numbers and what matters  *)
(* is which of them the callback gets, in which order, and what is left      *)
(* after a crash.                                                            *)
(***************************************************************************)
EXTENDS Integers, Sequences, FiniteSets

CONSTANTS
    Shards,                \* shard identifiers
    maxReplicateRetries,   \* attempts per message, 7 in the code
    Configs,               \* configurations the node may run with
    MaxLength,             \* bound: MaxLength[s] messages of a stream
    MaxFaults,             \* bound: failing requests, lost messages, crashes
    MaxStarts              \* bound: starts of the process

\* window: the limit on unacknowledged messages, which the code leaves to the
\* server; maxMsgs: messages a stream keeps; replicate: cfg replicate; saveAcks:
\* cfg snapshot.enable and publish; shards: its shards.
Config == [window : Nat, maxMsgs : Nat, replicate : BOOLEAN, saveAcks : BOOLEAN,
           shards : SUBSET Shards]

ASSUME ListenerAssumption ==
    /\ maxReplicateRetries \in Nat \ {0}
    /\ Configs \subseteq Config
    /\ MaxLength \in [Shards -> Nat]
    /\ MaxFaults \in Nat
    /\ MaxStarts \in Nat

VARIABLES
    length,     \* length[s]: last message of the stream
    consumers,  \* shards whose consumer exists on the server
    sent,       \* sent[s]: last message the consumer delivered first time
    unacked,    \* unacked[s]: messages delivered and not acknowledged
    inbox,      \* inbox[s]: messages waiting for NextMsg
    lost,       \* history: messages of s dropped on their first delivery
    pc,         \* pc[s]: step of the listener
    msg,        \* msg[s]: the message in hand, 0 if none
    attempt,    \* attempt[s]: repRetry
    savedSeq,   \* savedSeq[s]: local variable of Listen
    seq,        \* replicationState.seq
    file,       \* what the sequence map file says
    disk,       \* the file is "whole", or "torn" and cannot be decoded
    own,        \* own[s]: number of the node's own message that Publish is
                \* about to save, 0 if none
    acked,      \* history: greatest such number that went into seq
    applied,    \* history: messages of s whose transaction committed
    proc,       \* the process is "down", "up", or "canceled" with its context
    conn,       \* the connection to NATS: "open" or "closed"
    config,     \* the configuration
    faults,     \* count of faults
    starts      \* count of starts

consumer  == <<consumers, sent, unacked, inbox, lost>>
local     == <<pc, msg, attempt, savedSeq>>
state     == <<seq, file, disk>>
publisher == <<own, acked>>
process   == <<proc, conn, config, starts>>
vars      == <<length, consumer, local, state, publisher, applied, process,
               faults>>

Steps == {"off", "wait", "attempt", "save", "ack", "report", "ended"}

Init ==
    /\ length    = [s \in Shards |-> 0]
    /\ consumers = {}
    /\ sent      = [s \in Shards |-> 0]
    /\ unacked   = [s \in Shards |-> {}]
    /\ inbox     = [s \in Shards |-> <<>>]
    /\ lost      = [s \in Shards |-> {}]
    /\ pc        = [s \in Shards |-> "off"]
    /\ msg       = [s \in Shards |-> 0]
    /\ attempt   = [s \in Shards |-> 0]
    /\ savedSeq  = [s \in Shards |-> 0]
    /\ seq       = [s \in Shards |-> 0]
    /\ file      = [s \in Shards |-> 0]
    /\ disk      = "whole"
    /\ own       = [s \in Shards |-> 0]
    /\ acked     = [s \in Shards |-> 0]
    /\ applied   = [s \in Shards |-> {}]
    /\ proc      = "down"
    /\ conn      = "closed"
    /\ config \in Configs
    /\ faults    = 0
    /\ starts    = 0

Goto(s, step) == pc' = [pc EXCEPT ![s] = step]

\* Done with the message in hand.
Drop(s, step) ==
    /\ Goto(s, step)
    /\ msg' = [msg EXCEPT ![s] = 0]
    /\ attempt' = [attempt EXCEPT ![s] = 0]

Fault ==
    /\ faults < MaxFaults
    /\ faults' = faults + 1

-----------------------------------------------------------------------------
(* The stream and its ephemeral push consumer.                               *)

\* DiscardOld: a stream keeps its last maxMsgs messages.
Discarded(s) ==
    IF length[s] > config.maxMsgs THEN length[s] - config.maxMsgs ELSE 0

Store(s) ==
    /\ s \in config.shards
    /\ length[s] < MaxLength[s]
    /\ length' = [length EXCEPT ![s] = @ + 1]

\* A message of another node, or of this one when its number is not saved.
Publish(s) ==
    /\ Store(s)
    /\ UNCHANGED <<consumer, local, state, publisher, applied, process, faults>>

\* The next message for a consumer that has not seen those after sent[s]; what
\* is discarded it jumps over.
Following(s) == IF sent[s] < Discarded(s) THEN Discarded(s) + 1 ELSE sent[s] + 1

\* New messages go out in order while the window of unacknowledged ones has
\* room.  A message sent into a connection that breaks is lost.
FirstDelivery(s) ==
    /\ s \in consumers
    /\ conn = "open"
    /\ Following(s) <= length[s]
    /\ Cardinality(unacked[s]) < config.window
    /\ sent' = [sent EXCEPT ![s] = Following(s)]
    /\ unacked' = [unacked EXCEPT ![s] = @ \cup {Following(s)}]
    /\ UNCHANGED <<length, consumers, local, state, publisher, applied,
                   process>>

Deliver(s) ==
    /\ FirstDelivery(s)
    /\ inbox' = [inbox EXCEPT ![s] = Append(@, Following(s))]
    /\ UNCHANGED <<lost, faults>>

Lose(s) ==
    /\ Fault
    /\ FirstDelivery(s)
    /\ lost' = [lost EXCEPT ![s] = @ \cup {Following(s)}]
    /\ UNCHANGED inbox

\* After the acknowledgement timeout, or a Nak, a message is sent again, also
\* when the window is full and also while the listener is at work on it.
Redeliver(s, m) ==
    /\ s \in consumers
    /\ conn = "open"
    /\ m \in unacked[s]
    /\ m > Discarded(s)
    /\ \A i \in 1..Len(inbox[s]) : inbox[s][i] # m
    /\ inbox' = [inbox EXCEPT ![s] = Append(@, m)]
    /\ UNCHANGED <<length, consumers, sent, unacked, lost, local, state,
                   publisher, applied, process, faults>>

\* The server no longer waits for a message that the stream discarded.
Forget(s, m) ==
    /\ s \in consumers
    /\ m \in unacked[s]
    /\ m <= Discarded(s)
    /\ unacked' = [unacked EXCEPT ![s] = @ \ {m}]
    /\ UNCHANGED <<length, consumers, sent, inbox, lost, local, state,
                   publisher, applied, process, faults>>

\* The server removes a consumer it found without interest for a while.
RemoveConsumer(s) ==
    /\ Fault
    /\ s \in consumers
    /\ consumers' = consumers \ {s}
    /\ UNCHANGED <<length, sent, unacked, inbox, lost, local, state,
                   publisher, applied, process>>

\* The client gave up reconnecting and closed the connection.
Disconnect ==
    /\ Fault
    /\ conn = "open"
    /\ conn' = "closed"
    /\ UNCHANGED <<length, consumer, local, state, publisher, applied, proc,
                   config, starts>>

-----------------------------------------------------------------------------
(* Listen.                                                                   *)

\* SubscribeSync makes a consumer that starts with the first message.
Subscribe(s) ==
    /\ s \in config.shards
    /\ conn = "open"
    /\ pc[s] = "off"
    /\ consumers' = consumers \cup {s}
    /\ sent'      = [sent EXCEPT ![s] = 0]
    /\ unacked'   = [unacked EXCEPT ![s] = {}]
    /\ inbox'     = [inbox EXCEPT ![s] = <<>>]
    /\ savedSeq'  = [savedSeq EXCEPT ![s] = seq[s]]
    /\ Goto(s, "wait")
    /\ UNCHANGED <<length, lost, msg, attempt, state, publisher, applied,
                   process, faults>>

\* Mutants of NextMsg: messages are handed to the callback whether saved or
\* not; one message more than the saved ones is passed over.
NextMsgMutant(s) ==
    /\ conn = "open"
    /\ pc[s] = "wait"
    /\ inbox[s] # <<>>
    /\ inbox' = [inbox EXCEPT ![s] = Tail(@)]
    /\ Goto(s, "attempt")
    /\ msg' = [msg EXCEPT ![s] = Head(inbox[s])]
    /\ UNCHANGED <<length, consumers, sent, unacked, lost, attempt, savedSeq,
                   state, publisher, applied, process, faults>>
NextMsgMutantOffByOne(s) ==
    /\ conn = "open"
    /\ pc[s] = "wait"
    /\ inbox[s] # <<>>
    /\ inbox' = [inbox EXCEPT ![s] = Tail(@)]
    /\ IF Head(inbox[s]) <= savedSeq[s] + 1
       THEN UNCHANGED <<pc, msg>>
       ELSE /\ Goto(s, "attempt")
            /\ msg' = [msg EXCEPT ![s] = Head(inbox[s])]
    /\ UNCHANGED <<length, consumers, sent, unacked, lost, attempt, savedSeq,
                   state, publisher, applied, process, faults>>

\* A message up to savedSeq is passed over without an acknowledgement.
NextMsg(s) ==
    /\ conn = "open"
    /\ pc[s] = "wait"
    /\ inbox[s] # <<>>
    /\ inbox' = [inbox EXCEPT ![s] = Tail(@)]
    /\ IF Head(inbox[s]) <= savedSeq[s]
       THEN UNCHANGED <<pc, msg>>
       ELSE /\ Goto(s, "attempt")
            /\ msg' = [msg EXCEPT ![s] = Head(inbox[s])]
    /\ UNCHANGED <<length, consumers, sent, unacked, lost, attempt, savedSeq,
                   state, publisher, applied, process, faults>>

\* The connection was closed before the loop tested IsValid, and Listen
\* returns nil, or during NextMsg, and it returns the error.
Closed(s) ==
    /\ conn = "closed"
    /\ pc[s] = "wait"
    /\ Goto(s, "ended") \/ Goto(s, "report")
    /\ UNCHANGED <<length, consumer, msg, attempt, savedSeq, state, publisher,
                   applied, process, faults>>

\* The callback's transaction committed; a node that does not replicate returns
\* nil without one.
CallbackOK(s) ==
    /\ pc[s] = "attempt"
    /\ applied' = IF config.replicate
                  THEN [applied EXCEPT ![s] = @ \cup {msg[s]}] ELSE applied
    /\ Goto(s, "save")
    /\ attempt' = [attempt EXCEPT ![s] = 0]
    /\ UNCHANGED <<length, consumer, msg, savedSeq, state, publisher, process,
                   faults>>

\* Mutants: one attempt too many; after the last attempt the error of
\* invokeListener is dropped.
CallbackErrorMutantOffByOne(s) ==
    /\ pc[s] = "attempt"
    /\ IF attempt[s] < maxReplicateRetries /\ conn = "open"
       THEN /\ attempt' = [attempt EXCEPT ![s] = @ + 1]
            /\ UNCHANGED <<pc, msg>>
       ELSE Drop(s, "report")
    /\ UNCHANGED <<length, consumer, savedSeq, state, publisher, applied,
                   process, faults>>
CallbackErrorMutant(s) ==
    /\ pc[s] = "attempt"
    /\ IF attempt[s] + 1 < maxReplicateRetries /\ conn = "open"
       THEN /\ attempt' = [attempt EXCEPT ![s] = @ + 1]
            /\ UNCHANGED <<pc, msg>>
       ELSE /\ Goto(s, "save")
            /\ UNCHANGED <<msg, attempt>>
    /\ UNCHANGED <<length, consumer, savedSeq, state, publisher, applied,
                   process, faults>>

\* The callback failed: another attempt, unless it was the last one or
\* InProgress fails on a closed connection.  Then Nak and the error.
CallbackError(s) ==
    /\ pc[s] = "attempt"
    /\ IF attempt[s] + 1 < maxReplicateRetries /\ conn = "open"
       THEN /\ attempt' = [attempt EXCEPT ![s] = @ + 1]
            /\ UNCHANGED <<pc, msg>>
       ELSE Drop(s, "report")
    /\ UNCHANGED <<length, consumer, savedSeq, state, publisher, applied,
                   process, faults>>

\* The callback saw the canceled context; Listen returns nil.
CallbackCanceled(s) ==
    /\ pc[s] = "attempt"
    /\ proc = "canceled"
    /\ Drop(s, "ended")
    /\ UNCHANGED <<length, consumer, savedSeq, state, publisher, applied,
                   process, faults>>

\* replicationState.save writes the positions of all streams, unless the number
\* is not greater than the one it has.
SavePosition(s, m) ==
    IF m <= seq[s]
    THEN UNCHANGED state
    ELSE /\ seq' = [seq EXCEPT ![s] = m]
         /\ file' = seq'
         /\ disk' = "whole"

\* Seek failed, and nothing changed; or Encode failed after the position in
\* memory was set, and the file is the old one or cut short.
SavePositionFails(s, m) ==
    /\ m > seq[s]
    /\ \/ UNCHANGED state
       \/ /\ seq' = [seq EXCEPT ![s] = m]
          /\ disk' \in {disk, "torn"}
          /\ UNCHANGED file

Save(s) ==
    /\ pc[s] = "save"
    /\ SavePosition(s, msg[s])
    /\ savedSeq' = [savedSeq EXCEPT ![s] = seq'[s]]
    /\ Goto(s, "ack")
    /\ UNCHANGED <<length, consumer, msg, attempt, publisher, applied,
                   process, faults>>

SaveError(s) ==
    /\ Fault
    /\ pc[s] = "save"
    /\ SavePositionFails(s, msg[s])
    /\ Drop(s, "report")
    /\ UNCHANGED <<length, consumer, savedSeq, publisher, applied, process>>

Ack(s) ==
    /\ pc[s] = "ack"
    /\ conn = "open"
    /\ unacked' = [unacked EXCEPT ![s] = @ \ {msg[s]}]
    /\ Drop(s, "wait")
    /\ UNCHANGED <<length, consumers, sent, inbox, lost, savedSeq, state,
                   publisher, applied, process, faults>>

\* Any other call that fails: SubscribeSync, NextMsg (other than by a timeout),
\* Metadata, payloadDecompress, InProgress or Ack.
RequestError(s) ==
    /\ s \in config.shards
    /\ proc # "down"
    /\ pc[s] \in {"off", "wait", "attempt", "ack"}
    /\ \/ Fault
       \/ conn = "closed" /\ pc[s] \in {"off", "ack"} /\ UNCHANGED faults
    /\ Drop(s, "report")
    /\ UNCHANGED <<length, consumer, savedSeq, state, publisher, applied,
                   process>>

-----------------------------------------------------------------------------
(* Replicator.Publish of the same node, called by one goroutine.              *)

\* The stream acknowledged the node's own message.
PublishOwn(s) ==
    /\ proc # "down"
    /\ config.saveAcks
    /\ \A t \in Shards : own[t] = 0
    /\ Store(s)
    /\ own' = [own EXCEPT ![s] = length[s] + 1]
    /\ UNCHANGED <<consumer, local, state, acked, applied, process, faults>>

\* Its number is saved in the listeners' map.  An error is only logged.
OwnSaved(s) ==
    /\ own[s] # 0
    /\ own' = [own EXCEPT ![s] = 0]
    /\ acked' = IF seq' = seq THEN acked ELSE [acked EXCEPT ![s] = own[s]]
    /\ UNCHANGED <<length, consumer, local, applied, process>>

SaveOwn(s) ==
    /\ SavePosition(s, own[s])
    /\ OwnSaved(s)
    /\ UNCHANGED faults

SaveOwnError(s) ==
    /\ Fault
    /\ SavePositionFails(s, own[s])
    /\ OwnSaved(s)

-----------------------------------------------------------------------------
(* The process around the listeners.                                         *)

\* replicationState.init reads the file; it fails on a file it cannot decode,
\* and main panics.
Start ==
    /\ proc = "down"
    /\ starts < MaxStarts
    /\ disk = "whole"
    /\ proc'   = "up"
    /\ conn'   = "open"
    /\ starts' = starts + 1
    /\ seq'    = file
    /\ UNCHANGED <<length, consumer, local, file, disk, publisher, applied,
                   config, faults>>

Down ==
    /\ proc'      = "down"
    /\ conn'      = "closed"
    /\ consumers' = {}
    /\ sent'      = [s \in Shards |-> 0]
    /\ unacked'   = [s \in Shards |-> {}]
    /\ inbox'     = [s \in Shards |-> <<>>]
    /\ pc'        = [s \in Shards |-> "off"]
    /\ msg'       = [s \in Shards |-> 0]
    /\ attempt'   = [s \in Shards |-> 0]
    /\ savedSeq'  = [s \in Shards |-> 0]
    /\ seq'       = [s \in Shards |-> 0]
    /\ own'       = [s \in Shards |-> 0]
    /\ UNCHANGED <<length, lost, file, applied, acked, config, starts>>

\* main receives the error of a listener and panics.
Panic ==
    /\ \E s \in Shards : pc[s] = "report"
    /\ Down
    /\ UNCHANGED <<disk, faults>>

\* The sleep timeout: Cancel, then os.Exit.
Cancel ==
    /\ proc = "up"
    /\ proc' = "canceled"
    /\ UNCHANGED <<length, consumer, local, state, publisher, applied, conn,
                   config, starts, faults>>

Exit ==
    /\ proc = "canceled"
    /\ Down
    /\ UNCHANGED <<disk, faults>>

\* Power is cut at any point, also while the sequence map is being written.
Crash ==
    /\ Fault
    /\ proc # "down"
    /\ Down
    /\ disk' \in IF \E s \in Shards : \/ (pc[s] = "save" /\ msg[s] > seq[s])
                                     \/ own[s] > seq[s]
                 THEN {disk, "torn"} ELSE {disk}

-----------------------------------------------------------------------------

Listen(s) ==
    \/ Subscribe(s) \/ NextMsg(s) \/ Closed(s)
    \/ CallbackOK(s) \/ CallbackError(s) \/ CallbackCanceled(s)
    \/ Save(s) \/ SaveError(s) \/ Ack(s) \/ RequestError(s)

Next ==
    \/ \E s \in Shards : Publish(s) \/ Listen(s)
    \/ \E s \in Shards : PublishOwn(s) \/ SaveOwn(s) \/ SaveOwnError(s)
    \/ \E s \in Shards : Deliver(s) \/ Lose(s) \/ RemoveConsumer(s)
    \/ \E s \in Shards : \E m \in unacked[s] : Redeliver(s, m) \/ Forget(s, m)
    \/ Start \/ Panic \/ Cancel \/ Exit \/ Crash \/ Disconnect

Spec == Init /\ [][Next]_vars

\* A listener's loop ends only as above, main's loop gets to a waiting error
\* and to the exit it began, Publish returns, and the server delivers what a
\* consumer may get.
\* Nothing makes the process start again.
FairSpec ==
    /\ Spec
    /\ \A s \in Shards : WF_vars(Listen(s)) /\ WF_vars(Deliver(s))
    /\ \A s \in Shards : \A m \in 1..MaxLength[s] :
          WF_vars(Redeliver(s, m) \/ Forget(s, m))
    /\ \A s \in Shards : WF_vars(SaveOwn(s))
    /\ WF_vars(Panic) /\ WF_vars(Exit)

-----------------------------------------------------------------------------
(* Properties *)

\* Every variable keeps its type.
TypeOK ==
    /\ length    \in [Shards -> Nat]
    /\ consumers \subseteq Shards
    /\ sent      \in [Shards -> Nat]
    /\ unacked   \in [Shards -> SUBSET Nat]
    /\ inbox     \in [Shards -> Seq(Nat)]
    /\ lost      \in [Shards -> SUBSET Nat]
    /\ pc        \in [Shards -> Steps]
    /\ msg       \in [Shards -> Nat]
    /\ attempt   \in [Shards -> 0..(maxReplicateRetries - 1)]
    /\ savedSeq  \in [Shards -> Nat]
    /\ seq       \in [Shards -> Nat]
    /\ file      \in [Shards -> Nat]
    /\ disk      \in {"whole", "torn"}
    /\ own       \in [Shards -> Nat]
    /\ acked     \in [Shards -> Nat]
    /\ applied   \in [Shards -> SUBSET Nat]
    /\ proc      \in {"down", "up", "canceled"}
    /\ conn      \in {"open", "closed"}
    /\ config    \in Configs
    /\ faults \in Nat
    /\ starts \in Nat

\* Messages of s that cannot reach the listener any more, or not in order.
Missing(s) == lost[s] \cup 1..Discarded(s)

\* The configurations in which only listeners write the sequence map, and the
\* node applies what it receives.
SafeConfig == config.replicate /\ ~config.saveAcks

Order(s) == INSTANCE OrderedReplay WITH
    length <- length[s], discarded <- Discarded(s), lost <- lost[s],
    applied <- applied[s], position <- file[s]

OrderInit == \A s \in Shards : Order(s)!Init
OrderNext == \A s \in Shards : Order(s)!Next \/ UNCHANGED Order(s)!vars

\* The promise of module OrderedReplay, for every stream, with the position on
\* disk, in a SafeConfig: messages are applied in order, none again once it is
\* saved, none is passed over unless it was lost or discarded, through failing
\* attempts, redeliveries, failing writes of the sequence map, crashes and
\* restarts.  With snapshots on, a node that publishes and replicates does not
\* keep it: see Converges of module Replication.
AppliedInOrder == OrderInit /\ [][SafeConfig => OrderNext]_vars

\* The position a new start goes on from, and the one in memory, are ahead of
\* the tables of a replicating node only where the node's own Publish put
\* them: any other message up to them was applied, or lost on its only
\* delivery, or discarded by the stream.
NothingSkipped ==
    config.replicate =>
        \A s \in Shards : \A m \in 1..length[s] :
            m <= seq[s] \/ m <= file[s]
                => m \in applied[s] \cup Missing(s) \cup 1..acked[s]

\* The window of the consumer is full of messages the listener passed over.
Stalled(s) ==
    /\ Cardinality(unacked[s]) >= config.window
    /\ \A m \in unacked[s] : m <= savedSeq[s]

\* The end of the stream is saved, or only in memory after a write of Publish
\* failed.
AtEnd(s) == file[s] = length[s] \/ (config.saveAcks /\ seq[s] = length[s])

\* The ways a listener stops, and no other: in the end its saved position is
\* the end of the stream, unless the process is down, the window is full of
\* messages that Listen skipped without acknowledging them, the server removed
\* the consumer, or Listen returned nil because the context was canceled or
\* the connection closed between two messages.
KeepsUpOrStops ==
    \A s \in Shards : <>[](\/ AtEnd(s)
                           \/ proc = "down"
                           \/ Stalled(s)
                           \/ s \notin consumers
                           \/ /\ pc[s] = "ended"
                              /\ proc = "canceled" \/ conn = "closed")

-----------------------------------------------------------------------------
(* The strengthening that makes NothingSkipped inductive.                    *)

Listening(s) == pc[s] \in {"wait", "attempt", "save", "ack"}
InHand(s)    == pc[s] \in {"attempt", "save"}

\* Nothing but missing messages lies between position p and message m.
Follows(s, p, m) ==
    /\ m > p
    /\ \A k \in 1..(m - 1) : k > p => k \in Missing(s)

\* Only messages of the stream are delivered, saved and applied.
ConsumerInv(s) ==
    /\ sent[s] <= length[s]
    /\ msg[s] <= sent[s]
    /\ unacked[s] \subseteq 1..sent[s]
    /\ applied[s] \subseteq 1..length[s]
    /\ seq[s] <= length[s] /\ file[s] <= length[s]
    /\ own[s] <= length[s] /\ acked[s] <= length[s]
    /\ own[s] # 0 => acked[s] <= own[s]
    /\ \A i \in 1..Len(inbox[s]) : inbox[s][i] \in 1..sent[s]

\* How far the listener got.
Front(s) == IF InHand(s) THEN msg[s] ELSE savedSeq[s]

\* Message k is among the first i of the queue q.
Before(q, i, k) == \E j \in 1..i : q[j] = k

\* A message ahead of the listener that was sent and is not missing waits in
\* the inbox, in front of every greater one.
InboxInv(s) ==
    Listening(s) =>
        \A k \in 1..sent[s] : k > Front(s) /\ k \notin Missing(s) =>
            /\ Before(inbox[s], Len(inbox[s]), k)
            /\ \A i \in 1..Len(inbox[s]) :
                  k < inbox[s][i] => Before(inbox[s], i - 1, k)

\* The listener's copy of the position is not ahead of the map, and nothing it
\* could still get lies between the copy and the message in hand.
PositionInv(s) ==
    /\ proc = "down" => pc[s] = "off" /\ seq[s] = 0 /\ own[s] = 0
    /\ pc[s] = "off" => msg[s] = 0
    /\ Listening(s) => savedSeq[s] <= seq[s]
    /\ InHand(s) => Follows(s, savedSeq[s], msg[s])
    /\ pc[s] = "save" /\ config.replicate => msg[s] \in applied[s]

\* In a SafeConfig the three copies of the position agree while a listener
\* works.  After a write that failed the one in memory is ahead by the message
\* just applied.
ExactInv(s) ==
    /\ own[s] = 0
    /\ proc # "down" /\ pc[s] \notin {"report", "ended"} => seq[s] = file[s]
    /\ Listening(s) => savedSeq[s] = seq[s]
    /\ proc # "down" =>
          \/ seq[s] = file[s]
          \/ seq[s] \in applied[s] /\ Follows(s, file[s], seq[s])

\* NothingSkipped for the stream s.
SkippedInv(s) ==
    \A m \in 1..length[s] :
        m <= seq[s] \/ m <= file[s]
            => m \in applied[s] \cup Missing(s) \cup 1..acked[s]

ShardInv(s) ==
    /\ ConsumerInv(s) /\ InboxInv(s) /\ PositionInv(s)
    /\ SafeConfig => ExactInv(s)
    /\ config.replicate => SkippedInv(s)

\* Only a process that is up has a connection.
IndInv ==
    /\ TypeOK
    /\ proc = "down" => conn = "closed"
    /\ \A s \in Shards : ShardInv(s)
=============================================================================
