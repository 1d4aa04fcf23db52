------------------------------- MODULE ChangeLog -------------------------------
(***************************************************************************)
(* The publishing side of one node: the change log tables that triggers    *)
(* fill, and the goroutine that empties them (watchChanges and             *)
(* publishChangeLog of db/change_log.go), with the periodic clean-up and   *)
(* the shutdown of marmot.go beside it.                                    *)
(*                                                                         *)
(* A captured statement is named by its number in commit order, which is   *)
(* also the id of its row in the global change log and stands for its      *)
(* creation time.  OnChange, the callback that hands an event to the       *)
(* replicator, is an outcome: nil, an error, or context.Canceled.          *)
(***************************************************************************)
EXTENDS Naturals, Sequences, FiniteSets

CONSTANTS
    Tables,             \* watched tables
    ScanMaxChanges,     \* cfg scan_max_changes
    Polling,            \* cfg polling_interval is not 0
    MaxWrites,          \* bound: captured statements
    MaxStops,           \* bound: crashes and sleep timeouts
    MaxPublishErrors,   \* bound: errors of consumeChangeLogs
    MaxMarkErrors,      \* bound: markChangePublished errors
    MaxScanErrors       \* bound: errors of countChanges, getGlobalChanges, getChangeEntry

ASSUME ChangeLogAssumption ==
    /\ ScanMaxChanges \in Nat \ {0}
    /\ Polling \in BOOLEAN
    /\ MaxWrites \in Nat
    /\ MaxStops \in Nat
    /\ MaxPublishErrors \in Nat
    /\ MaxMarkErrors \in Nat
    /\ MaxScanErrors \in Nat

VARIABLES
    changeLog,     \* rows of all tables' change logs
    globalLog,     \* rows of the global change log
    lastId,        \* lastId[t]: AUTOINCREMENT counter of t's change log
    commits,       \* captured statements; AUTOINCREMENT counter of the global log
    pc,            \* the watcher goroutine, "down" when the process is
    changes,       \* rows of the global log publishChangeLog still has to visit
    notified,      \* a file system event awaits the watcher
    canceled,      \* ctxSt is canceled
    accepted,      \* history: statements OnChange accepted, in order
    failed,        \* history: statements OnChange failed on
    unread,        \* history: statements given up before OnChange was called
    stops, publishErrors, markErrors, scanErrors    \* counters

tables   == <<changeLog, globalLog, lastId, commits>>
watcher  == <<pc, changes>>
history  == <<accepted, failed, unread>>
counters == <<stops, publishErrors, markErrors, scanErrors>>
vars     == <<tables, watcher, notified, canceled, history, counters>>

LogRow    == [table : Tables, id : Nat, created_at : Nat,
              state : {"Pending", "Published"}]
GlobalRow == [id : Nat, table_name : Tables, change_table_id : Nat]

Accepted(w) == \E i \in 1..Len(accepted) : accepted[i] = w
Handled(w)  == Accepted(w) \/ w \in failed
Consumed(w) == Handled(w) \/ w \in unread
Queued(w)   == \E g \in globalLog : g.id = w

Init ==
    /\ changeLog = {}
    /\ globalLog = {}
    /\ lastId = [t \in Tables |-> 0]
    /\ commits = 0
    /\ pc = "down"
    /\ changes = {}
    /\ notified = FALSE
    /\ canceled = FALSE
    /\ accepted = <<>>
    /\ failed = {}
    /\ unread = {}
    /\ stops = 0 /\ publishErrors = 0 /\ markErrors = 0 /\ scanErrors = 0

\* A commit to the database file, seen by the watcher when there is one.
Notify == notified' = (pc # "down")

-----------------------------------------------------------------------------
(* A statement on a watched table, whether Marmot runs or not: the trigger  *)
(* inserts a row into the table's change log and one into the global log.   *)

AppWrite(t) ==
    /\ commits < MaxWrites
    /\ commits' = commits + 1
    /\ lastId' = [lastId EXCEPT ![t] = @ + 1]
    /\ changeLog' = changeLog \cup
          {[table |-> t, id |-> lastId[t] + 1, created_at |-> commits + 1,
            state |-> "Pending"]}
    /\ globalLog' = globalLog \cup
          {[id |-> commits + 1, table_name |-> t,
            change_table_id |-> lastId[t] + 1]}
    /\ Notify
    /\ UNCHANGED <<watcher, canceled, history, counters>>

-----------------------------------------------------------------------------
(* The watcher *)

\* The process comes up: files are watched, then the residual changes are
\* published before the first event is awaited.
Start ==
    /\ pc = "down"
    /\ pc' = "scan"
    /\ UNCHANGED <<tables, changes, notified, canceled, history, counters>>

\* A file system event or a tick starts publishChangeLog.
Wake ==
    /\ pc = "idle"
    /\ notified \/ Polling
    /\ notified' = FALSE
    /\ pc' = "scan"
    /\ UNCHANGED <<tables, changes, canceled, history, counters>>

\* countChanges and getGlobalChanges: the first rows by id, up to the limit.
\* Mutant: the rows come in no particular order.
FirstChangesMutant(B) ==
    /\ B \subseteq globalLog
    /\ \/ Cardinality(B) = ScanMaxChanges
       \/ Cardinality(B) < ScanMaxChanges /\ B = globalLog
FirstChanges(B) ==
    /\ B \subseteq globalLog
    /\ \A b \in B, g \in globalLog \ B : b.id < g.id
    /\ \/ Cardinality(B) = ScanMaxChanges
       \/ Cardinality(B) < ScanMaxChanges /\ B = globalLog

Scan ==
    /\ pc = "scan"
    /\ \E B \in SUBSET globalLog :
          /\ FirstChanges(B)
          /\ changes' = B
          /\ pc' = IF B = {} THEN "idle" ELSE "publish"
    /\ UNCHANGED <<tables, notified, canceled, history, counters>>

\* A query of publishChangeLog fails, before the loop or in it: it returns.
ScanError ==
    /\ pc \in {"scan", "publish"}
    /\ scanErrors < MaxScanErrors
    /\ scanErrors' = scanErrors + 1
    /\ changes' = {}
    /\ pc' = "idle"
    /\ UNCHANGED <<tables, notified, canceled, history,
                   stops, publishErrors, markErrors>>

\* The row the loop is at.
AtHead(c) == c \in changes /\ \A d \in changes : c.id <= d.id

\* getChangeEntry finds the pending row a global row points to; publishChangeLog
\* panics when there is none.
Found(c) ==
    \E row \in changeLog : /\ row.table = c.table_name
                           /\ row.id = c.change_table_id
                           /\ row.state = "Pending"

\* OnChange returned nil.
PublishOK(c) ==
    /\ pc = "publish"
    /\ AtHead(c)
    /\ Found(c)
    /\ accepted' = Append(accepted, c.id)
    /\ pc' = "mark"
    /\ UNCHANGED <<tables, changes, notified, canceled, failed, unread, counters>>

\* OnChange returned an error: it is logged, and the loop goes on to mark the
\* row published like any other.
PublishError(c) ==
    /\ pc = "publish"
    /\ AtHead(c)
    /\ Found(c)
    /\ publishErrors < MaxPublishErrors
    /\ publishErrors' = publishErrors + 1
    /\ failed' = failed \cup {c.id}
    /\ pc' = "mark"
    /\ UNCHANGED <<tables, changes, notified, canceled, accepted, unread,
                   stops, markErrors, scanErrors>>

\* consumeChangeLogs ends without a call of OnChange: fetchChangeRows or fetchRow
\* returned an error, or Next returned false because of an error that nothing
\* asks for (rows.Err), and the result is nil.  Either way the row is marked.
PublishUnread(c) ==
    /\ pc = "publish"
    /\ AtHead(c)
    /\ Found(c)
    /\ publishErrors < MaxPublishErrors
    /\ publishErrors' = publishErrors + 1
    /\ unread' = unread \cup {c.id}
    /\ pc' = "mark"
    /\ UNCHANGED <<tables, changes, notified, canceled, accepted, failed,
                   stops, markErrors, scanErrors>>

\* OnChange returned context.Canceled: the loop ends.  IsCanceled may miss a
\* cancellation, so the other outcomes stay possible.
\* Mutant: the row is marked all the same.
PublishCanceledMutant(c) ==
    /\ pc = "publish"
    /\ AtHead(c)
    /\ Found(c)
    /\ canceled
    /\ pc' = "mark"
    /\ UNCHANGED <<tables, changes, notified, canceled, history, counters>>
PublishCanceled(c) ==
    /\ pc = "publish"
    /\ AtHead(c)
    /\ Found(c)
    /\ canceled
    /\ changes' = {}
    /\ pc' = "idle"
    /\ UNCHANGED <<tables, notified, canceled, history, counters>>

\* Mutant: the loop does not move on.
NextChangeMutant(c) == changes' = changes /\ pc' = "publish"
NextChange(c) ==
    /\ changes' = changes \ {c}
    /\ pc' = IF changes = {c} THEN "idle" ELSE "publish"

\* markChangePublished, one transaction; it is a commit the watcher sees.
\* Mutant: the watcher does not see it.
MarkMutantQuiet(c) ==
    /\ pc = "mark"
    /\ AtHead(c)
    /\ changeLog' = {IF row.table = c.table_name /\ row.id = c.change_table_id
                     THEN [row EXCEPT !.state = "Published"]
                     ELSE row : row \in changeLog}
    /\ globalLog' = globalLog \ {c}
    /\ NextChange(c)
    /\ UNCHANGED <<lastId, commits, notified, canceled, history, counters>>
Mark(c) ==
    /\ pc = "mark"
    /\ AtHead(c)
    /\ changeLog' = {IF row.table = c.table_name /\ row.id = c.change_table_id
                     THEN [row EXCEPT !.state = "Published"]
                     ELSE row : row \in changeLog}
    /\ globalLog' = globalLog \ {c}
    /\ NextChange(c)
    /\ Notify
    /\ UNCHANGED <<lastId, commits, canceled, history, counters>>

\* markChangePublished fails and is rolled back: logged, and the loop goes on.
MarkError(c) ==
    /\ pc = "mark"
    /\ AtHead(c)
    /\ markErrors < MaxMarkErrors
    /\ markErrors' = markErrors + 1
    /\ NextChange(c)
    /\ UNCHANGED <<tables, notified, canceled, history,
                   stops, publishErrors, scanErrors>>

-----------------------------------------------------------------------------
(* The main loop *)

\* CleanupChangeLogs deletes published rows up to an age, one statement for
\* each table; an error stops it between two tables.
\* Mutant: the state of the rows is not looked at.
CleanupChangeLogsMutant(t, before) ==
    /\ pc # "down"
    /\ changeLog' = {row \in changeLog :
                        ~(row.table = t /\ row.created_at <= before)}
    /\ changeLog' # changeLog
    /\ Notify
    /\ UNCHANGED <<globalLog, lastId, commits, watcher, canceled, history,
                   counters>>
CleanupChangeLogs(t, before) ==
    /\ pc # "down"
    /\ changeLog' = {row \in changeLog :
                        ~(/\ row.table = t
                          /\ row.state = "Published"
                          /\ row.created_at <= before)}
    /\ changeLog' # changeLog
    /\ Notify
    /\ UNCHANGED <<globalLog, lastId, commits, watcher, canceled, history,
                   counters>>

Down ==
    /\ pc' = "down"
    /\ changes' = {}
    /\ notified' = FALSE
    /\ canceled' = FALSE

\* The sleep timeout cancels the context, saves a snapshot and exits.
Cancel ==
    /\ pc # "down"
    /\ ~canceled
    /\ stops < MaxStops
    /\ stops' = stops + 1
    /\ canceled' = TRUE
    /\ UNCHANGED <<tables, watcher, notified, history,
                   publishErrors, markErrors, scanErrors>>

Exit ==
    /\ canceled
    /\ Down
    /\ UNCHANGED <<tables, history, counters>>

\* The process dies at any point: a signal, or the panic on a listener error.
Crash ==
    /\ pc # "down"
    /\ stops < MaxStops
    /\ stops' = stops + 1
    /\ Down
    /\ UNCHANGED <<tables, history, publishErrors, markErrors, scanErrors>>

-----------------------------------------------------------------------------

Visit(c) ==
    \/ PublishOK(c) \/ PublishError(c) \/ PublishUnread(c) \/ PublishCanceled(c)
    \/ Mark(c) \/ MarkError(c)

Watcher ==
    \/ Start \/ Wake \/ Scan \/ ScanError
    \/ \E c \in changes : Visit(c)

Next ==
    \/ \E t \in Tables : AppWrite(t)
    \/ Watcher
    \/ \E t \in Tables, before \in 1..MaxWrites : CleanupChangeLogs(t, before)
    \/ Cancel \/ Exit \/ Crash

Spec == Init /\ [][Next]_vars

\* The watcher's loop keeps running, a process that began to exit exits, and
\* one that is down is started again by its supervisor.
FairSpec == Spec /\ WF_vars(Watcher) /\ WF_vars(Exit)

-----------------------------------------------------------------------------
(* Properties *)

\* Every variable keeps its type, and visited rows come from the global log.
TypeOK ==
    /\ changeLog \subseteq LogRow
    /\ globalLog \subseteq GlobalRow
    /\ lastId \in [Tables -> Nat]
    /\ commits \in Nat
    /\ pc \in {"down", "idle", "scan", "publish", "mark"}
    /\ changes \subseteq globalLog
    /\ notified \in BOOLEAN
    /\ canceled \in BOOLEAN
    /\ accepted \in Seq(Nat)
    /\ failed \subseteq Nat
    /\ unread \subseteq Nat
    /\ stops \in Nat
    /\ publishErrors \in Nat
    /\ markErrors \in Nat
    /\ scanErrors \in Nat

\* The two logs agree: each global row points to a pending row of its table's
\* change log, so publishChangeLog never panics on a row it does not find, and
\* each pending row has a global row that will bring it to the publisher.
LogsAgree ==
    /\ \A g \in globalLog : Found(g)
    /\ \A row \in changeLog : row.state = "Pending" =>
          \E g \in globalLog : /\ g.table_name = row.table
                               /\ g.change_table_id = row.id

\* No captured statement is forgotten: it is still queued, or OnChange returned
\* for it, with or without an error, or consumeChangeLogs gave up on it before it
\* called OnChange; through crashes, shutdowns, failed scans and failed marks.
NothingForgotten ==
    \A w \in 1..commits : Queued(w) \/ Consumed(w)

\* What internals.mdx says: a change is marked published once JetStream has it.
\* A statement that OnChange did not accept stays queued.
MarkedIsPublished ==
    \A w \in 1..commits : Queued(w) \/ Accepted(w)

\* Statements are first handed over in commit order: when one is accepted, all
\* earlier ones were accepted before it, save those consumeChangeLogs failed on.
\* Only the first time counts: a row whose mark failed is handed over again,
\* after rows that come behind it.
FirstInOrder ==
    \A j \in 1..Len(accepted) : \A w \in 1..(accepted[j] - 1) :
        \/ w \in failed \cup unread
        \/ \E i \in 1..(j - 1) : accepted[i] = w

\* The change log is the durable queue of module ChangeQueue: global rows are
\* the queue, a statement was handed over when OnChange returned for it, with or
\* without an error, and dropped when consumeChangeLogs did not get that far.
\* Every step of the tables, the watcher, the clean-up, the shutdown and the
\* crashes is a step of the queue or leaves it alone.
Queue == INSTANCE ChangeQueue WITH
    queued  <- {g.id : g \in globalLog},
    handed  <- {accepted[i] : i \in 1..Len(accepted)} \cup failed,
    dropped <- unread

ImplementsQueue == Queue!Spec

\* Every captured statement is eventually handed to OnChange, unless its row
\* could not be read: also those that do not fit into one scan, that were captured
\* while the process was down, and that a crash or a shutdown interrupted.  A
\* failed scan is retried only by polling or at the next commit, so without
\* polling it is the other exception.
EventuallyHandled ==
    \A w \in 1..MaxWrites :
        (commits >= w) ~> \/ Handled(w)
                          \/ w \in unread
                          \/ ~Polling /\ scanErrors > 0

-----------------------------------------------------------------------------
(* The strengthening that makes the safety properties inductive. *)

\* Global rows have ids below the AUTOINCREMENT counters, and no two of them
\* have the same id or point to the same row.
KeyInv ==
    /\ \A g \in globalLog : /\ g.id <= commits
                            /\ g.change_table_id <= lastId[g.table_name]
    /\ \A g, h \in globalLog : g.id = h.id => g = h
    /\ \A g, h \in globalLog :
          g.table_name = h.table_name /\ g.change_table_id = h.change_table_id
              => g = h

\* consumeChangeLogs returned for the row about to be marked, and every queued
\* row that comes before a row still to be visited is to be visited as well, or
\* was consumed (its mark failed).
LoopInv ==
    /\ pc = "mark" => \A c \in changes : AtHead(c) => Consumed(c.id)
    /\ \A c \in changes, g \in globalLog :
          g.id < c.id => g \in changes \/ Consumed(g.id)

IndInv == TypeOK /\ KeyInv /\ LoopInv /\ LogsAgree /\ NothingForgotten /\ FirstInOrder
=============================================================================
