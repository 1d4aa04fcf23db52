------------------------------ MODULE Replication ------------------------------
(***************************************************************************)
(* Replication of row changes between Marmot nodes through JetStream.      *)
(*                                                                         *)
(* Every node has a local SQLite database that its applications write.     *)
(* Triggers queue each change in the node's change log; the publisher      *)
(* (publishChangeLog, onTableChanged, Replicator.Publish) appends the      *)
(* changes one by one to the stream of the row's shard; one listener per   *)
(* shard (Replicator.Listen, onChangeEvent) replays the stream into the    *)
(* local tables and records how far it got in the sequence map, a file     *)
(* that survives a restart (replicationState).                             *)
(*                                                                         *)
(* The streams keep every message here; retention and snapshots are        *)
(* outside this module.  The change log is a queue here; module ChangeLog  *)
(* has its tables.                                                         *)
(***************************************************************************)
EXTENDS Naturals, Sequences

CONSTANTS
    Nodes,              \* Marmot processes, each beside its own database
    Rows,               \* primary keys (table name and key columns)
    Values,             \* contents of a row
    None,               \* the content of an absent row
    Initial,            \* the common copy of the database all nodes start from
    shards,             \* cfg replication_log.shards
    Hash,               \* ChangeLogEvent.Hash of the events of a row
    SnapshotEnable,     \* nodes with cfg snapshot.enabled = true, the default
    Publish,            \* nodes with cfg publish = true; applications write here
    Replicate,          \* nodes with cfg replicate = true
    PkUpdates,          \* applications may UPDATE a primary key
    MaxWrites,          \* bound: application statements
    MaxRestarts,        \* bound: crashes followed by a restart
    MaxPublishErrors    \* bound: js.Publish calls that return an error

Cell  == Values \cup {None}
Event == [row : Rows, val : Cell]
Shard == 1..shards

ASSUME ConfigAssumption ==
    /\ shards \in Nat \ {0}
    /\ Hash \in [Rows -> Nat]
    /\ None \notin Values
    /\ Initial \in [Rows -> Cell]
    /\ SnapshotEnable \subseteq Nodes
    /\ PkUpdates \in BOOLEAN
    /\ Publish \subseteq Nodes
    /\ Replicate \subseteq Nodes
    /\ MaxWrites \in Nat
    /\ MaxRestarts \in Nat
    /\ MaxPublishErrors \in Nat

VARIABLES
    table,       \* table[n][r]: content of row r in the database of n
    pending,     \* pending[n]: changes of n not yet marked published
    stream,      \* stream[s]: messages of the JetStream of shard s
    pub,         \* pub[n]: where the publisher of n is with Head(pending[n])
    seqMap,      \* seqMap[n][s]: replicationState.seq, memory and file
    savedSeq,    \* savedSeq[n][s]: the local variable of Listen
    next,        \* next[n][s]: first message the consumer did not deliver yet
    cur,         \* cur[n][s]: message replayed and not yet saved, 0 if none
    unstreamed,  \* history: rows of n changed by a write no stream received
    writes,      \* count of application statements
    restarts,    \* count of restarts
    errors       \* count of failed js.Publish calls

listener == <<savedSeq, next, cur>>
counters == <<writes, restarts, errors>>
vars     == <<table, pending, stream, pub, seqMap, listener, unstreamed,
              counters>>

Idle == [pc |-> "idle", shard |-> 1, seq |-> 0]

\* The shard a row is published to: every node computes the same one.
ShardOf(r) == (Hash[r] % shards) + 1

Init ==
    /\ table      = [n \in Nodes |-> Initial]
    /\ pending    = [n \in Nodes |-> <<>>]
    /\ stream     = [s \in Shard |-> <<>>]
    /\ pub        = [n \in Nodes |-> Idle]
    /\ seqMap     = [n \in Nodes |-> [s \in Shard |-> 0]]
    /\ savedSeq   = [n \in Nodes |-> [s \in Shard |-> 0]]
    /\ next       = [n \in Nodes |-> [s \in Shard |-> 1]]
    /\ cur        = [n \in Nodes |-> [s \in Shard |-> 0]]
    /\ unstreamed = [n \in Nodes |-> {}]
    /\ writes     = 0
    /\ restarts   = 0
    /\ errors     = 0

-----------------------------------------------------------------------------
(* The applications.  The triggers run in the transaction of the statement. *)

Capture(n, e) ==
    /\ writes < MaxWrites
    /\ writes'  = writes + 1
    /\ pending' = [pending EXCEPT ![n] = Append(@, e)]

\* INSERT, UPDATE of other columns, or DELETE of one row; deleting an absent
\* row fires no trigger.
Write(n, r, v) ==
    /\ v # None \/ table[n][r] # None
    /\ Capture(n, [row |-> r, val |-> v])
    /\ table' = [table EXCEPT ![n][r] = v]
    /\ UNCHANGED <<stream, pub, seqMap, listener, unstreamed, restarts, errors>>

\* UPDATE of the primary key from r to q: the trigger records NEW only, so
\* nothing tells the stream that r is gone.
UpdateKey(n, r, q) ==
    /\ PkUpdates
    /\ table[n][r] # None
    /\ table[n][q] = None
    /\ Capture(n, [row |-> q, val |-> table[n][r]])
    /\ table' = [table EXCEPT ![n][q] = table[n][r], ![n][r] = None]
    /\ unstreamed' = [unstreamed EXCEPT ![n] = @ \cup {r}]
    /\ UNCHANGED <<stream, pub, seqMap, listener, restarts, errors>>

-----------------------------------------------------------------------------
(* replicationState.save: keep the greater of the two, return what is kept. *)

SaveResult(n, s, seq) ==
    IF seq <= seqMap[n][s] THEN seqMap[n][s] ELSE seq

-----------------------------------------------------------------------------
(* The publisher of a node, working through its change log in order.       *)

\* js.Publish stored the event and acknowledged its sequence number.
PublishEvent(n) ==
    /\ pub[n].pc = "idle"
    /\ pending[n] # <<>>
    /\ LET e == Head(pending[n])
           s == ShardOf(e.row)
       IN  /\ stream' = [stream EXCEPT ![s] = Append(@, e)]
           /\ pub' = [pub EXCEPT ![n] =
                        [pc    |-> IF n \in SnapshotEnable THEN "acked"
                                  ELSE "mark",
                         shard |-> s,
                         seq   |-> Len(stream[s]) + 1]]
    /\ UNCHANGED <<table, pending, seqMap, listener, unstreamed, counters>>

\* js.Publish returned an error: the event was not stored, or it was stored
\* and the acknowledgement was lost.  A change that could not be read was not
\* stored either.  publishChangeLog logs the error and goes on to mark the change
\* published.
\* Mutant: the change goes to the state Failed, which no step leads out of.
PublishErrorMutant(n) ==
    /\ pub[n].pc = "idle"
    /\ pending[n] # <<>>
    /\ errors < MaxPublishErrors
    /\ errors' = errors + 1
    /\ pub' = [pub EXCEPT ![n] = [Idle EXCEPT !.pc = "failed"]]
    /\ UNCHANGED <<table, pending, stream, seqMap, listener, unstreamed,
                   writes, restarts>>
PublishError(n) ==
    /\ pub[n].pc = "idle"
    /\ pending[n] # <<>>
    /\ errors < MaxPublishErrors
    /\ errors' = errors + 1
    /\ pub' = [pub EXCEPT ![n] = [Idle EXCEPT !.pc = "mark"]]
    /\ LET e == Head(pending[n])
           s == ShardOf(e.row)
       IN  \/ /\ unstreamed' = [unstreamed EXCEPT ![n] = @ \cup {e.row}]
              /\ UNCHANGED stream
           \/ /\ stream' = [stream EXCEPT ![s] = Append(@, e)]
              /\ UNCHANGED unstreamed
    /\ UNCHANGED <<table, pending, seqMap, listener, writes, restarts>>

\* Replicator.Publish saves the acknowledged sequence number.
SaveAck(n) ==
    /\ pub[n].pc = "acked"
    /\ LET s == pub[n].shard
       IN  seqMap' = [seqMap EXCEPT ![n][s] = SaveResult(n, s, pub[n].seq)]
    /\ pub' = [pub EXCEPT ![n].pc = "mark"]
    /\ UNCHANGED <<table, pending, stream, listener, unstreamed, counters>>

\* markChangePublished; one that fails leaves the change to be sent again, which
\* module ChangeLog has.
\* Mutant: a mark that keeps failing is tried again and again.
MarkPublishedMutant(n) ==
    /\ pub[n].pc = "mark"
    /\ UNCHANGED vars
MarkPublished(n) ==
    /\ pub[n].pc = "mark"
    /\ pending' = [pending EXCEPT ![n] = Tail(@)]
    /\ pub' = [pub EXCEPT ![n] = Idle]
    /\ UNCHANGED <<table, stream, seqMap, listener, unstreamed, counters>>

-----------------------------------------------------------------------------
(* The listener of a node on one shard.  The consumer delivers the stream  *)
(* in order, and may deliver again what it delivered before.               *)

Delivers(n, s, m) ==
    /\ cur[n][s] = 0
    /\ m \in 1..Len(stream[s])
    /\ m <= next[n][s]

Advance(n, s, m) ==
    next' = [next EXCEPT ![n][s] = IF m = @ THEN @ + 1 ELSE @]

\* Mutant of Skip: one message too many is passed over.
SkipMutant(n, s, m) ==
    /\ Delivers(n, s, m)
    /\ m <= savedSeq[n][s] + 1
    /\ Advance(n, s, m)
    /\ UNCHANGED <<table, pending, stream, pub, seqMap, savedSeq, cur,
                   unstreamed, counters>>

\* Messages up to savedSeq are passed over.
Skip(n, s, m) ==
    /\ Delivers(n, s, m)
    /\ m <= savedSeq[n][s]
    /\ Advance(n, s, m)
    /\ UNCHANGED <<table, pending, stream, pub, seqMap, savedSeq, cur,
                   unstreamed, counters>>

\* Mutant of Replay: the comparison with savedSeq is missing.
ReplayMutant(n, s, m) ==
    /\ Delivers(n, s, m)
    /\ Advance(n, s, m)
    /\ cur' = [cur EXCEPT ![n][s] = m]
    /\ LET e == stream[s][m]
       IN  IF n \in Replicate
           THEN /\ table' = [table EXCEPT ![n][e.row] = e.val]
                /\ unstreamed' = [unstreamed EXCEPT ![n] = @ \ {e.row}]
           ELSE UNCHANGED <<table, unstreamed>>
    /\ UNCHANGED <<pending, stream, pub, seqMap, savedSeq, counters>>

\* Any other message is handed to the callback, whose transaction upserts or
\* deletes the row; with replicate = false the callback does nothing.
Replay(n, s, m) ==
    /\ Delivers(n, s, m)
    /\ m > savedSeq[n][s]
    /\ Advance(n, s, m)
    /\ cur' = [cur EXCEPT ![n][s] = m]
    /\ LET e == stream[s][m]
       IN  IF n \in Replicate
           THEN /\ table' = [table EXCEPT ![n][e.row] = e.val]
                /\ unstreamed' = [unstreamed EXCEPT ![n] = @ \ {e.row}]
           ELSE UNCHANGED <<table, unstreamed>>
    /\ UNCHANGED <<pending, stream, pub, seqMap, savedSeq, counters>>

\* The replayed message is saved in the sequence map, and what save returns
\* becomes savedSeq; the acknowledgement that follows changes nothing here,
\* because an acknowledged message may still be delivered again.
SaveSeq(n, s) ==
    /\ cur[n][s] # 0
    /\ LET seq == SaveResult(n, s, cur[n][s])
       IN  /\ seqMap'   = [seqMap EXCEPT ![n][s] = seq]
           /\ savedSeq' = [savedSeq EXCEPT ![n][s] = seq]
    /\ cur' = [cur EXCEPT ![n][s] = 0]
    /\ UNCHANGED <<table, pending, stream, pub, next, unstreamed, counters>>

-----------------------------------------------------------------------------
(* The process stops at any point and is started again: the tables, the    *)
(* change log and the sequence map are on disk, new subscriptions deliver  *)
(* the streams from their first message.                                   *)

Restart(n) ==
    /\ restarts < MaxRestarts
    /\ restarts' = restarts + 1
    /\ pub'      = [pub EXCEPT ![n] = Idle]
    /\ savedSeq' = [savedSeq EXCEPT ![n] = seqMap[n]]
    /\ next'     = [next EXCEPT ![n] = [s \in Shard |-> 1]]
    /\ cur'      = [cur EXCEPT ![n] = [s \in Shard |-> 0]]
    /\ UNCHANGED <<table, pending, stream, seqMap, unstreamed, writes, errors>>

-----------------------------------------------------------------------------

Application(n) ==
    \/ \E r \in Rows, v \in Cell : Write(n, r, v)
    \/ \E r, q \in Rows : UpdateKey(n, r, q)

Publisher(n) ==
    PublishEvent(n) \/ PublishError(n) \/ SaveAck(n) \/ MarkPublished(n)

Listener(n, s) ==
    \/ \E m \in 1..Len(stream[s]) : Skip(n, s, m) \/ Replay(n, s, m)
    \/ SaveSeq(n, s)

Next ==
    \/ \E n \in Publish : Application(n)
    \/ \E n \in Nodes : Publisher(n) \/ Restart(n)
    \/ \E n \in Nodes, s \in Shard : Listener(n, s)

Spec == Init /\ [][Next]_vars

\* The publisher goroutine and the listener goroutines keep running: a node
\* that is up takes every step its loops offer, and restarts are bounded.
ListenNew(n, s) ==
    \/ Skip(n, s, next[n][s]) \/ Replay(n, s, next[n][s])
    \/ SaveSeq(n, s)

Fairness ==
    /\ \A n \in Nodes : WF_vars(Publisher(n))
    /\ \A n \in Nodes, s \in Shard : WF_vars(ListenNew(n, s))

FairSpec == Spec /\ Fairness

-----------------------------------------------------------------------------
(* Properties *)

\* Every variable keeps its type: stored rows and events are well formed, the
\* publisher is at one of its steps, sequence numbers lie within the streams.
TypeOK ==
    /\ table      \in [Nodes -> [Rows -> Cell]]
    /\ pending    \in [Nodes -> Seq(Event)]
    /\ stream     \in [Shard -> Seq(Event)]
    /\ pub        \in [Nodes -> [pc : {"idle", "acked", "mark"},
                                 shard : Shard, seq : Nat]]
    /\ seqMap     \in [Nodes -> [Shard -> Nat]]
    /\ savedSeq   \in [Nodes -> [Shard -> Nat]]
    /\ next       \in [Nodes -> [Shard -> Nat]]
    /\ cur        \in [Nodes -> [Shard -> Nat]]
    /\ unstreamed \in [Nodes -> SUBSET Rows]
    /\ writes   \in Nat
    /\ restarts \in Nat
    /\ errors   \in Nat

\* A node with nothing left to publish or to receive.
Settled(n) ==
    /\ pending[n] = <<>>
    /\ \A s \in Shard : cur[n][s] = 0 /\ next[n][s] = Len(stream[s]) + 1

\* Message i is the last one for row r.
IsLast(log, i, r) ==
    /\ i \in 1..Len(log)
    /\ log[i].row = r
    /\ \A j \in 1..Len(log) : j > i => log[j].row # r

\* Row r of node n is what the stream's last message for it says.
Current(n, r) ==
    LET log == stream[ShardOf(r)]
    IN  /\ \A i \in 1..Len(log) : IsLast(log, i, r) => table[n][r] = log[i].val
        /\ (\A i \in 1..Len(log) : log[i].row # r) => table[n][r] = Initial[r]

\* The last writer wins: in the database of a settled replica every row has
\* the content of the last message of its stream, for all rows whose local
\* changes reached the stream.  Reached by any interleaving of local writes,
\* publishing, replay, duplicates after a crash and redeliveries.
LastWriterWins ==
    \A n \in Replicate : Settled(n) =>
        \A r \in Rows \ unstreamed[n] : Current(n, r)

\* What README.md promises, without the exception for lost changes: settled
\* replicas hold what the streams say, hence the same tables.
Converges ==
    \A n \in Replicate : Settled(n) => \A r \in Rows : Current(n, r)

\* The sequence map of a replica, which decides what a restart passes over,
\* moves only from a message to the next one, and only after that one was
\* replayed into the tables.
SavedOnlyAfterReplay ==
    [][\A n \in Replicate, s \in Shard :
          seqMap'[n][s] # seqMap[n][s] =>
              /\ seqMap'[n][s] = seqMap[n][s] + 1
              /\ seqMap'[n][s] = cur[n][s]]_vars

\* All mutations eventually converge: once applications, crashes and publish
\* errors stop, every node settles, for good.
EventuallySettled == <>[](\A n \in Nodes : Settled(n))

-----------------------------------------------------------------------------
(* The strengthening that makes LastWriterWins inductive. *)

\* Configurations in which the sequence map of a replica is written by its
\* listeners alone: a node that publishes and replicates has snapshots off.
SafeConfig == Publish \cap Replicate \cap SnapshotEnable = {}

\* A node that does not publish has nothing to publish, and a publisher at
\* work is at work on the head of the change log.
PublisherInv ==
    \A n \in Nodes :
        /\ n \notin Publish => pending[n] = <<>>
        /\ pending[n] = <<>> => pub[n].pc = "idle"
        /\ n \notin SnapshotEnable => pub[n].pc # "acked"

\* Every message is in the stream of its row's shard.
ShardInv ==
    \A s \in Shard : \A i \in 1..Len(stream[s]) : ShardOf(stream[s][i].row) = s

\* A replica replays without gaps: the message being replayed is the one after
\* savedSeq, and the consumer is never ahead of the replay.
PositionInv ==
    \A n \in Replicate, s \in Shard :
        /\ seqMap[n][s] = savedSeq[n][s]
        /\ savedSeq[n][s] <= Len(stream[s])
        /\ next[n][s] >= 1
        /\ cur[n][s] = 0 => next[n][s] <= savedSeq[n][s] + 1
        /\ cur[n][s] # 0 => /\ cur[n][s] = savedSeq[n][s] + 1
                            /\ next[n][s] = cur[n][s] + 1
                            /\ cur[n][s] <= Len(stream[s])

\* A change of row r waits in the change log of n to be sent.
Waiting(n, r) ==
    \E i \in 1..Len(pending[n]) :
        /\ pending[n][i].row = r
        /\ i > 1 \/ pub[n].pc = "idle"

\* A message for row r is ahead of the listener of n.
Coming(n, r) ==
    LET s == ShardOf(r)
    IN  \E i \in 1..Len(stream[s]) :
            /\ stream[s][i].row = r
            /\ i > savedSeq[n][s]
            /\ i # cur[n][s]

\* A row that differs from the stream's last word has a change under way that
\* the replica will replay.
RowInv ==
    \A n \in Replicate : \A r \in Rows :
        \/ r \in unstreamed[n]
        \/ Waiting(n, r)
        \/ Coming(n, r)
        \/ Current(n, r)

IndInv == TypeOK /\ PublisherInv /\ ShardInv /\ PositionInv /\ RowInv
=============================================================================
