------------------------------ MODULE SnapshotLog ------------------------------
(***************************************************************************)
(* Snapshots and the bounded replication log.  Each stream keeps its last   *)
(* MaxEntries messages; a publishing node saves a snapshot of its database  *)
(* when the sequence number of shard 1 crosses a threshold or a timer       *)
(* fires; a replica that boots too far behind the streams restores the      *)
(* snapshot before it listens.                                              *)
(*                                                                         *)
(* One node publishes and does not replicate, the others replicate only.    *)
(* Applying a message and saving its sequence number is one step here;      *)
(* modules Listener, Replication, SnapshotStorage and SnapshotLease have    *)
(* the steps inside.  A write is named by its number.                       *)
(***************************************************************************)
EXTENDS Naturals, Sequences

CONSTANTS
    Replicas,      \* nodes that replicate
    Rows,
    shards,        \* cfg replication_log.shards
    RowShard,      \* RowShard[r]: the shard the row hashes to
    MaxEntries,    \* cfg replication_log.max_entries
    Interval,      \* cfg snapshot.interval is not 0
    DeleteFirst,   \* the storage deletes the old snapshot first, as NATS does
    MaxPublished,  \* a snapshot is saved before this many messages went out
    Skew,          \* streams differ by at most this many messages
    MaxWrites,     \* bound: statements of the publisher's applications
    MaxPending,    \* bound: changes waiting to be published
    MaxBoots,      \* bound: boots of replicas
    MaxFailures    \* bound: snapshots that fail in a row

SnapshotShardID == 1
Shard == 1..shards

ASSUME SnapshotLogAssumption ==
    /\ shards \in Nat \ {0}
    /\ RowShard \in [Rows -> Shard]
    /\ MaxEntries \in Nat \ {0}
    /\ Interval \in BOOLEAN
    /\ DeleteFirst \in BOOLEAN
    /\ MaxPublished \in Nat
    /\ Skew \in Nat
    /\ MaxWrites \in Nat
    /\ MaxPending \in Nat
    /\ MaxBoots \in Nat
    /\ MaxFailures \in Nat

Upto == [Shard -> 0..MaxWrites]

VARIABLES
    master,    \* the publisher's table
    pending,   \* its change log
    log,       \* log[s]: every message the stream ever had
    saver,     \* the publisher's SaveSnapshot: idle, backup, upload or put
    age,       \* messages published since saver started
    failures,  \* snapshots that failed since the last one that was stored
    backup,    \* the file being uploaded
    stored,    \* the snapshot stored last; not found once it was deleted
    pc,        \* pc[n]: replica n is down, about to restore, or up
    table,     \* table[n]: its table
    seqMap,    \* seqMap[n][s]: its sequence map
    next,      \* next[n][s]: first message not yet delivered
    have,      \* history: have[n][s]: last message its table reflects
    gap,       \* history: gap[n][s]: Listen passed over a message not in it
    writes, boots   \* counters

publisher == <<master, pending, log, saver, age, failures, backup, stored>>
replica   == <<pc, table, seqMap, next, have, gap>>
counters  == <<writes, boots>>
vars      == <<publisher, replica, counters>>

\* A copy of the publisher's table and, as history, how much of each stream is
\* in it; found is FALSE while nothing is stored.
Nothing == [found |-> FALSE, rows |-> [r \in Rows |-> 0],
            upto |-> [s \in Shard |-> 0]]

\* DiscardOld: messages below FirstSeq are gone.  An empty stream reports 0.
Discarded(s) == IF Len(log[s]) > MaxEntries THEN Len(log[s]) - MaxEntries ELSE 0
FirstSeq(s)  == IF log[s] = <<>> THEN 0 ELSE Discarded(s) + 1

Init ==
    /\ master = [r \in Rows |-> 0]
    /\ pending = <<>>
    /\ log = [s \in Shard |-> <<>>]
    /\ saver = "idle"
    /\ age = 0
    /\ failures = 0
    /\ backup = Nothing
    /\ stored = Nothing
    /\ pc = [n \in Replicas |-> "down"]
    /\ table = [n \in Replicas |-> [r \in Rows |-> 0]]
    /\ seqMap = [n \in Replicas |-> [s \in Shard |-> 0]]
    /\ next = [n \in Replicas |-> [s \in Shard |-> 1]]
    /\ have = [n \in Replicas |-> [s \in Shard |-> 0]]
    /\ gap = [n \in Replicas |-> [s \in Shard |-> FALSE]]
    /\ writes = 0 /\ boots = 0

-----------------------------------------------------------------------------
(* The publisher *)

Write(r) ==
    /\ writes < MaxWrites
    /\ Len(pending) < MaxPending
    /\ writes' = writes + 1
    /\ master' = [master EXCEPT ![r] = writes + 1]
    /\ pending' = Append(pending, [row |-> r, val |-> writes + 1])
    /\ UNCHANGED <<log, saver, age, failures, backup, stored, replica, boots>>

snapshotEntries == MaxEntries \div shards

\* The threshold test of Publish on the acknowledged sequence number.
\* Mutant: shards are counted from 0.
ThresholdMutant(s, seq) ==
    /\ snapshotEntries # 0
    /\ seq % snapshotEntries = 0
    /\ s = SnapshotShardID - 1
Threshold(s, seq) ==
    /\ snapshotEntries # 0
    /\ seq % snapshotEntries = 0
    /\ s = SnapshotShardID

\* The hashes spread the rows over the shards: no stream gets ahead of another
\* by more than Skew.
Even(s) == \A t \in Shard : Len(log[s]) + 1 <= Len(log[t]) + Skew

\* Publish, which may start SaveSnapshot; a call that finds another one running
\* returns ErrPendingSnapshot.
PublishNext ==
    /\ pending # <<>>
    /\ LET e == Head(pending)
           s == RowShard[e.row]
       IN  /\ Even(s)
           /\ log' = [log EXCEPT ![s] = Append(@, e)]
           /\ IF saver = "idle" /\ Threshold(s, Len(log[s]) + 1)
              THEN saver' = "backup" /\ age' = 0
              ELSE /\ saver = "idle" \/ age < MaxPublished
                   /\ age' = IF saver = "idle" THEN age ELSE age + 1
                   /\ UNCHANGED saver
    /\ pending' = Tail(pending)
    /\ UNCHANGED <<master, failures, backup, stored, replica, counters>>

\* The snapshot ticker of the main loop.
TimerSnapshot ==
    /\ Interval
    /\ saver = "idle"
    /\ saver' = "backup"
    /\ age' = 0
    /\ UNCHANGED <<master, pending, log, failures, backup, stored, replica,
                   counters>>

BackupTo ==
    /\ saver = "backup"
    /\ saver' = "upload"
    /\ backup' = [found |-> TRUE, rows |-> master,
                  upto |-> [s \in Shard |-> Len(log[s])]]
    /\ UNCHANGED <<master, pending, log, age, failures, stored, replica,
                   counters>>

\* The NATS storage deletes the object before it puts the new one.
Delete ==
    /\ DeleteFirst
    /\ saver = "upload"
    /\ saver' = "put"
    /\ stored' = [Nothing EXCEPT !.upto = stored.upto]
    /\ UNCHANGED <<master, pending, log, age, failures, backup, replica,
                   counters>>

\* Mutant: the copy of the database is kept.
PutMutant ==
    /\ saver = IF DeleteFirst THEN "put" ELSE "upload"
    /\ saver' = "idle"
    /\ age' = 0
    /\ failures' = 0
    /\ stored' = backup
    /\ UNCHANGED <<master, pending, log, backup, replica, counters>>
Put ==
    /\ saver = IF DeleteFirst THEN "put" ELSE "upload"
    /\ saver' = "idle"
    /\ age' = 0
    /\ failures' = 0
    /\ stored' = backup
    /\ backup' = Nothing
    /\ UNCHANGED <<master, pending, log, replica, counters>>

\* SaveSnapshot does not get the lease, the backup or the upload fails, or the
\* publisher crashes: the next threshold or tick tries again.
SnapshotError ==
    /\ saver # "idle"
    /\ failures < MaxFailures
    /\ failures' = failures + 1
    /\ saver' = "idle"
    /\ age' = 0
    /\ backup' = Nothing
    /\ UNCHANGED <<master, pending, log, stored, replica, counters>>

-----------------------------------------------------------------------------
(* The replicas *)

\* RestoreSnapshot compares every stream with the sequence map.  Messages only
\* go out and are only discarded, so that comparing the streams one by one has
\* no other outcomes.
NeedsSnapshot(n) == \E s \in Shard : seqMap[n][s] < FirstSeq(s)

Boot(n) ==
    /\ pc[n] = "down"
    /\ boots < MaxBoots
    /\ boots' = boots + 1
    /\ pc' = [pc EXCEPT ![n] = IF NeedsSnapshot(n) THEN "restore" ELSE "up"]
    /\ UNCHANGED <<publisher, table, seqMap, next, have, gap, writes>>

\* A restored snapshot replaces the table, the sequence map stays as it is.
\* Where there is none the start goes on without.
RestoreSnapshot(n) ==
    /\ pc[n] = "restore"
    /\ pc' = [pc EXCEPT ![n] = "up"]
    /\ IF stored.found
       THEN /\ table' = [table EXCEPT ![n] = stored.rows]
            /\ have' = [have EXCEPT ![n] = stored.upto]
            /\ gap' = [gap EXCEPT ![n] = [s \in Shard |-> FALSE]]
       ELSE UNCHANGED <<table, have, gap>>
    /\ UNCHANGED <<publisher, seqMap, next, counters>>

\* The first message that is left for a subscription that waits for the k-th.
FirstLeft(s, k) == IF k > Discarded(s) THEN k ELSE Discarded(s) + 1

\* Listen's subscription asks for all messages: whenever it is made, it receives
\* what is left when it is served.  What the sequence map says is done is passed
\* over, the rest is applied and saved.
\* Mutant: the message after the saved one is passed over too.
ListenMutant(n, s) ==
    LET m == FirstLeft(s, next[n][s])
        e == log[s][m]
    IN  /\ pc[n] = "up"
        /\ m <= Len(log[s])
        /\ next' = [next EXCEPT ![n][s] = m + 1]
        /\ IF m <= seqMap[n][s] + 1
           THEN UNCHANGED <<table, seqMap, have, gap>>
           ELSE /\ table' = [table EXCEPT ![n][e.row] = e.val]
                /\ seqMap' = [seqMap EXCEPT ![n][s] = m]
                /\ have' = [have EXCEPT ![n][s] = m]
                /\ gap' = [gap EXCEPT ![n][s] = @ \/ m > have[n][s] + 1]
        /\ UNCHANGED <<publisher, pc, counters>>
Listen(n, s) ==
    LET m == FirstLeft(s, next[n][s])
        e == log[s][m]
    IN  /\ pc[n] = "up"
        /\ m <= Len(log[s])
        /\ next' = [next EXCEPT ![n][s] = m + 1]
        /\ IF m <= seqMap[n][s]
           THEN /\ gap' = [gap EXCEPT ![n][s] = @ \/ m > have[n][s]]
                /\ UNCHANGED <<table, seqMap, have>>
           ELSE /\ table' = [table EXCEPT ![n][e.row] = e.val]
                /\ seqMap' = [seqMap EXCEPT ![n][s] = m]
                /\ have' = [have EXCEPT ![n][s] = m]
                /\ gap' = [gap EXCEPT ![n][s] = @ \/ m > have[n][s] + 1]
        /\ UNCHANGED <<publisher, pc, counters>>

Stop(n) ==
    /\ pc[n] # "down"
    /\ pc' = [pc EXCEPT ![n] = "down"]
    /\ next' = [next EXCEPT ![n] = [s \in Shard |-> 1]]
    /\ UNCHANGED <<publisher, table, seqMap, have, gap, counters>>

-----------------------------------------------------------------------------

Next ==
    \/ \E r \in Rows : Write(r)
    \/ PublishNext
    \/ TimerSnapshot \/ BackupTo \/ Delete \/ Put \/ SnapshotError
    \/ \E n \in Replicas : Boot(n) \/ RestoreSnapshot(n) \/ Stop(n)
    \/ \E n \in Replicas, s \in Shard : Listen(n, s)

Spec == Init /\ [][Next]_vars

-----------------------------------------------------------------------------
(* Properties *)

Change == [row : Rows, val : 1..MaxWrites]
Copy   == [found : BOOLEAN, rows : [Rows -> 0..MaxWrites], upto : Upto]

\* Tables hold writes, snapshots are copies of tables, positions lie in the
\* streams, and a copy exists exactly while it is being uploaded.
TypeOK ==
    /\ master \in [Rows -> 0..MaxWrites]
    /\ pending \in Seq(Change)
    /\ log \in [Shard -> Seq(Change)]
    /\ saver \in {"idle", "backup", "upload", "put"}
    /\ age \in 0..MaxPublished
    /\ failures \in 0..MaxFailures
    /\ backup \in Copy
    /\ stored \in Copy
    /\ saver \in {"upload", "put"} <=> backup.found
    /\ pc \in [Replicas -> {"down", "restore", "up"}]
    /\ table \in [Replicas -> [Rows -> 0..MaxWrites]]
    /\ seqMap \in [Replicas -> Upto]
    /\ next \in [Replicas -> [Shard -> 1..(MaxWrites + 1)]]
    /\ have \in [Replicas -> Upto]
    /\ gap \in [Replicas -> [Shard -> BOOLEAN]]
    /\ writes \in 0..MaxWrites
    /\ boots \in 0..MaxBoots

\* How many messages of s the snapshot stored last may lack: a threshold and
\* what is published while a snapshot is saved, once more for every snapshot
\* that failed since, and what the streams differ by.
Lag(s) ==
    (1 + failures) * (snapshotEntries + MaxPublished) + MaxPublished
        + IF s = SnapshotShardID THEN 0 ELSE 2 * Skew

\* The threshold test of Publish, with the calls it drops while a snapshot is
\* being saved, keeps the distance between every stream and the snapshot
\* stored last below Lag, whatever fails.
LagBounded ==
    snapshotEntries # 0 =>
        \A s \in Shard : Len(log[s]) <= stored.upto[s] + Lag(s)

\* What internals.mdx means by enough headroom: every message that a stream
\* discarded is in the snapshot stored last.
Covered == \A s \in Shard : Discarded(s) <= stored.upto[s]

\* The streams are long enough for it.  With one shard they are not unless
\* nothing is published while a snapshot is saved.
Headroom ==
    /\ snapshotEntries # 0
    /\ snapshotEntries + 2 * MaxPublished <= MaxEntries
    /\ shards > 1 => snapshotEntries + 2 * MaxPublished + 2 * Skew <= MaxEntries

\* Replica n received everything there is for shard s.
CaughtUp(n, s) ==
    /\ pc[n] = "up"
    /\ next[n][s] = Len(log[s]) + 1
    /\ \A i \in 1..Len(pending) : RowShard[pending[i].row] # s

\* A replica that caught up on a shard has the publisher's rows of the shard,
\* however long it was away, wherever its boot was overtaken by messages,
\* snapshots and deletions, and although the sequence map makes Listen replay
\* old messages over a newer snapshot; unless Listen passed over a message that
\* was neither in the snapshot nor applied.
Recovers ==
    \A n \in Replicas, s \in Shard :
        CaughtUp(n, s) /\ ~gap[n][s]
            => \A r \in Rows : RowShard[r] = s => table[n][r] = master[r]

\* What internals.mdx says of a node that was away: after it restored the
\* snapshot and applied the log it is fully up to date.
UpToDate ==
    \A n \in Replicas :
        (\A s \in Shard : CaughtUp(n, s)) => table[n] = master

-----------------------------------------------------------------------------
(* The strengthenings that make the invariants provable: for TypeOK,         *)

\* No stream has more messages than there were writes.
LengthInv == \A s \in Shard : Len(log[s]) + Len(pending) <= writes

(* for LagBounded,                                                           *)

EvenUpto(upto) == \A s, t \in Shard : upto[s] <= upto[t] + Skew

\* How far the snapshot stored last is behind the snapshot shard.
LagInv ==
    LET length == Len(log[SnapshotShardID])
        stale  == stored.upto[SnapshotShardID] + MaxPublished
                      + failures * (snapshotEntries + MaxPublished)
    IN  /\ IF saver = "idle"
           THEN length <= stale + (length % snapshotEntries)
           ELSE length <= stale + snapshotEntries + age
        /\ backup.found => length <= backup.upto[SnapshotShardID] + age
        /\ EvenUpto([s \in Shard |-> Len(log[s])])
        /\ EvenUpto(backup.upto) /\ EvenUpto(stored.upto)

(* and for Recovers:                                                         *)

\* Write v went out on s after message u, or is still pending.
Later(s, u, v) ==
    \/ \E i \in 1..Len(log[s]) : i > u /\ log[s][i].val = v
    \/ \E i \in 1..Len(pending) : pending[i].val = v

\* Every change has its row's shard, and the publisher's table has the last
\* change of each row.
ChangeInv ==
    /\ \A s \in Shard : \A i \in 1..Len(log[s]) :
          LET e == log[s][i]
          IN  /\ RowShard[e.row] = s
              /\ e.val <= writes
              /\ \A r \in Rows : e.val = master[r] => e.row = r
              /\ e.val = master[e.row] \/ Later(s, i, master[e.row])
    /\ \A i \in 1..Len(pending) :
          LET e == pending[i]
          IN  /\ e.val <= writes
              /\ \A r \in Rows : e.val = master[r] => e.row = r
              /\ \/ e.val = master[e.row]
                 \/ \E j \in 1..Len(pending) :
                       j > i /\ pending[j].val = master[e.row]
    /\ \A r \in Rows : master[r] <= writes

\* Rows of s that are not the publisher's change again after message u.
Fresh(s, rows, u) ==
    \A r \in Rows : RowShard[r] = s => rows[r] = master[r] \/ Later(s, u, master[r])

\* Copies and tables are as new as their positions say.
FreshInv ==
    \A s \in Shard :
        /\ backup.found => Fresh(s, backup.rows, backup.upto[s])
        /\ stored.found => Fresh(s, stored.rows, stored.upto[s])
        /\ \A n \in Replicas :
              ~gap[n][s] => /\ Fresh(s, table[n], have[n][s])
                            /\ next[n][s] <= have[n][s] + 1

\* Only a replica that is up listens, and no position is beyond the stream.
PositionInv ==
    \A s \in Shard :
        /\ backup.upto[s] <= Len(log[s])
        /\ stored.upto[s] <= Len(log[s])
        /\ \A n \in Replicas : /\ have[n][s] <= Len(log[s])
                               /\ pc[n] # "up" => next[n][s] = 1

RecoverInv == ChangeInv /\ FreshInv /\ PositionInv
=============================================================================
