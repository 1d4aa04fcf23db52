-------------------------------- MODULE Process --------------------------------
(***************************************************************************)
(* One marmot process from its start to its end: the start of module Startup *)
(* followed by main's select loop, the watcher, the listeners and the        *)
(* goroutines that save snapshots, which share the pool of connections, the  *)
(* mutex of NatsDBSnapshot, the canceled context and errChan.  What the      *)
(* threads do to tables and streams is in the other modules; here they       *)
(* borrow, use and return connections, fail and end.                         *)
(***************************************************************************)
EXTENDS Startup

CONSTANTS
    Watcher,          \* the goroutine of watchChanges
    Goroutines,       \* bound: SaveSnapshot calls started by Publish
    SnapshotEnable,   \* snapshot.enable, publish and sleep_timeout of the
    Publish,          \* configuration
    Sleep,
    MaxWrites         \* bound: transactions of applications

Savers == {Main} \cup Goroutines
Users  == {Watcher} \cup Shards

ASSUME ProcessAssumption ==
    /\ Threads = {Main} \cup Users
    /\ Main \notin Users /\ Watcher \notin Shards /\ Main \notin Goroutines
    /\ PoolSize >= 2 /\ IsFiniteSet(Tables)
    /\ SnapshotEnable \in BOOLEAN /\ Publish \in BOOLEAN /\ Sleep \in BOOLEAN
    /\ MaxWrites \in Nat

VARIABLES
    step,      \* step[u]: of the watcher and of the listeners
    context,   \* ctxSt: "live" or "canceled"
    save,      \* save[k]: step of a SaveSnapshot call
    mutex,     \* set of the calls that hold the mutex of NatsDBSnapshot
    version,   \* transactions committed to the database
    copy,      \* copy[k]: version in the backup of k
    stored,    \* version in the snapshot storage
    asleep,    \* version when the sleep timeout came
    outcome    \* of main's last SaveSnapshot: "ok", "error" or "pending"

saveVars == <<save, mutex, copy, stored, outcome>>
runVars  == <<step, context, saveVars, version, asleep>>
vars     == <<poolVars, bootVars, runVars>>

Init ==
    /\ StartupInit
    /\ step    = [u \in Users |-> "off"]
    /\ context = "live"
    /\ save    = [k \in Savers |-> "off"]
    /\ mutex   = {}
    /\ version = 0
    /\ copy    = [k \in Savers |-> 0]
    /\ stored  = 0
    /\ asleep  = 0
    /\ outcome = "ok"

Up == ended = "no"
Step(u, where) == step' = [step EXCEPT ![u] = where]

-----------------------------------------------------------------------------
(* The end of InstallCDC and the start of the loop.                           *)

Boot == MainBoots /\ UNCHANGED runVars

\* The watcher runs before the connection of InstallCDC is back.
Watch ==
    /\ At("watch")
    /\ \/ Goto("installed") /\ Step(Watcher, "idle")
       \/ End("return") /\ UNCHANGED step
    /\ UNCHANGED <<poolVars, connect, context, saveVars, version, asleep>>

Installed ==
    /\ At("installed")
    /\ Return(Main)
    /\ Goto("listeners")
    /\ UNCHANGED <<connect, runVars>>

StartListeners ==
    /\ At("listeners")
    /\ Goto("select")
    /\ step' = [u \in Users |-> IF u \in Shards THEN "idle" ELSE step[u]]
    /\ UNCHANGED <<poolVars, connect, context, saveVars, version, asleep>>

-----------------------------------------------------------------------------
(* The watcher and the listeners: functions that borrow one connection each,  *)
(* one after the other.                                                       *)

UserBorrow(u) ==
    /\ Up
    /\ step[u] = "idle"
    /\ Borrow(u)
    /\ Step(u, "borrow")
    /\ UNCHANGED <<bootVars, context, saveVars, version, asleep>>

UserReceive(u) ==
    /\ Up
    /\ Receive(u)
    /\ UNCHANGED <<bootVars, runVars>>

\* The call is over.  Listen may return with its error.
Finish(u) == Step(u, "idle") \/ (u \in Shards /\ Step(u, "report"))

\* A connection that the start did not open may fail to open here.
UserBorrowed(u) ==
    /\ Up
    /\ \/ Borrowed(u) /\ Step(u, "use")
       \/ BorrowFails(u) /\ Finish(u)
    /\ UNCHANGED <<bootVars, context, saveVars, version, asleep>>

\* Mutant: the connection is kept for the next call.
UserReturnMutant(u) ==
    /\ Up
    /\ step[u] = "use"
    /\ Step(u, "idle")
    /\ UNCHANGED <<poolVars, bootVars, context, saveVars, version, asleep>>

\* Return; after fetchChangeRows the watcher goes on to read the rows.  Commits
\* of a listener are versions of the database like any other.
UserReturn(u) ==
    /\ Up
    /\ step[u] = "use"
    /\ Return(u)
    /\ Finish(u)
    /\ UNCHANGED <<bootVars, context, saveVars, version, asleep>>

\* Listen returns an error, or nil after the context was canceled or the
\* connection closed.  With an error changeListener waits at errChan.
ListenReturns(s) ==
    /\ Up
    /\ step[s] = "idle"
    /\ Step(s, "report") \/ Step(s, "ended")
    /\ UNCHANGED <<poolVars, bootVars, context, saveVars, version, asleep>>

\* Replicator.Publish, called by the watcher with no connection in hand,
\* reached a threshold.  IsCanceled may miss a canceled context.
PublishTriggers(k) ==
    /\ Up
    /\ SnapshotEnable /\ Publish
    /\ step[Watcher] = "idle"
    /\ save[k] = "off"
    /\ save' = [save EXCEPT ![k] = "lease"]
    /\ UNCHANGED <<poolVars, bootVars, step, context, mutex, copy, stored,
                   outcome, version, asleep>>

\* An application commits.
Write ==
    /\ Up
    /\ version < MaxWrites
    /\ version' = version + 1
    /\ UNCHANGED <<poolVars, bootVars, step, context, saveVars, asleep>>

-----------------------------------------------------------------------------
(* SaveSnapshot, by main or by a goroutine of its own.                        *)

SaveStep(k) ==
    Up /\ UNCHANGED <<poolVars, bootVars, step, context, version, asleep>>

SaveEnds(k, how) ==
    /\ save' = [save EXCEPT ![k] = "off"]
    /\ copy' = [copy EXCEPT ![k] = 0]
    /\ mutex' = mutex \ {k}
    /\ outcome' = IF k = Main THEN how ELSE outcome

\* ContextRefreshingLease: the lease, another's lease, or an error.
Lease(k) ==
    /\ SaveStep(k)
    /\ save[k] = "lease"
    /\ \/ /\ save' = [save EXCEPT ![k] = "lock"]
          /\ UNCHANGED <<mutex, copy, outcome>>
       \/ SaveEnds(k, "error")
    /\ UNCHANGED stored

\* Mutant: the result of TryLock is not looked at.
TryLockMutant(k) ==
    /\ SaveStep(k)
    /\ save[k] = "lock"
    /\ mutex' = mutex \cup {k}
    /\ save' = [save EXCEPT ![k] = "backup"]
    /\ UNCHANGED <<copy, outcome, stored>>

\* ForceSaveSnapshot: TryLock.
TryLock(k) ==
    /\ SaveStep(k)
    /\ save[k] = "lock"
    /\ IF mutex = {}
       THEN /\ mutex' = {k}
            /\ save' = [save EXCEPT ![k] = "backup"]
            /\ UNCHANGED <<copy, outcome>>
       ELSE SaveEnds(k, "pending")
    /\ UNCHANGED stored

\* BackupTo, in a directory of its own and over a connection of its own.
Backup(k) ==
    /\ SaveStep(k)
    /\ save[k] = "backup"
    /\ \/ /\ save' = [save EXCEPT ![k] = "upload"]
          /\ copy' = [copy EXCEPT ![k] = version]
          /\ UNCHANGED <<mutex, outcome>>
       \/ SaveEnds(k, "error")
    /\ UNCHANGED stored

\* For a storage that replaces the snapshot in one request; modules
\* SnapshotStorage and SnapshotLog have the NATS storage's delete and put.
Upload(k) ==
    /\ SaveStep(k)
    /\ save[k] = "upload"
    /\ \/ stored' = copy[k] /\ SaveEnds(k, "ok")
       \/ stored' = stored /\ SaveEnds(k, "error")

Saving(k) == Lease(k) \/ TryLock(k) \/ Backup(k) \/ Upload(k)

-----------------------------------------------------------------------------
(* The select loop of main.                                                   *)

\* Mutant: the error is logged and the loop goes on.
ReceiveErrorMutant(s) ==
    /\ At("select")
    /\ step[s] = "report"
    /\ Step(s, "ended")
    /\ UNCHANGED <<poolVars, bootVars, context, saveVars, version, asleep>>

ReceiveError(s) ==
    /\ At("select")
    /\ step[s] = "report"
    /\ End("panic")
    /\ UNCHANGED <<poolVars, connect, runVars>>

CleanupTick ==
    /\ At("select")
    /\ Goto("clean")
    /\ UNCHANGED <<poolVars, connect, runVars>>

Delete ==
    /\ At("delete")
    /\ Return(Main)
    /\ Goto("select")
    /\ UNCHANGED <<connect, runVars>>

SnapshotTick ==
    /\ At("select")
    /\ SnapshotEnable /\ Publish
    /\ Goto("save")
    /\ save' = [save EXCEPT ![Main] = "lease"]
    /\ UNCHANGED <<poolVars, connect, step, context, mutex, copy, stored,
                   outcome, version, asleep>>

\* Mutant: main exits without waiting for the upload.
SleepTickMutant ==
    /\ At("select")
    /\ Sleep
    /\ context' = "canceled"
    /\ asleep' = version
    /\ End("exit")
    /\ UNCHANGED <<poolVars, connect, step, save, mutex, copy, stored, outcome,
                   version>>

\* The timer's Reset does not empty its channel: an old tick counts.
SleepTick ==
    /\ At("select")
    /\ Sleep
    /\ context' = "canceled"
    /\ asleep' = version
    /\ IF SnapshotEnable /\ Publish
       THEN /\ Goto("sleep")
            /\ save' = [save EXCEPT ![Main] = "lock"]
       ELSE End("exit") /\ UNCHANGED save
    /\ UNCHANGED <<poolVars, connect, step, mutex, copy, stored, outcome, version>>

\* The -save-snapshot flag.
ForceSave ==
    /\ At("force")
    /\ Goto("forced")
    /\ save' = [save EXCEPT ![Main] = "lock"]
    /\ UNCHANGED <<poolVars, connect, step, context, mutex, copy, stored,
                   outcome, version, asleep>>

\* main's own SaveSnapshot returned: back to the loop, or the end.
Saved ==
    /\ Up
    /\ save[Main] = "off"
    /\ \/ main = "save"   /\ Goto("select")
       \/ main = "sleep"  /\ End("exit")
       \/ main = "forced" /\ End("return")
    /\ UNCHANGED <<poolVars, connect, runVars>>

-----------------------------------------------------------------------------

UserStep(u) ==
    UserReceive(u) \/ UserBorrowed(u) \/ UserReturn(u)

MainStep ==
    \/ Boot \/ Watch \/ Installed \/ StartListeners
    \/ Delete \/ ForceSave \/ Saved

Tick == CleanupTick \/ SnapshotTick \/ SleepTick

Next ==
    \/ MainStep \/ Tick \/ Write
    \/ Outside /\ UNCHANGED runVars
    \/ \E u \in Users : UserBorrow(u) \/ UserStep(u)
    \/ \E s \in Shards : ListenReturns(s) \/ ReceiveError(s)
    \/ \E k \in Goroutines : PublishTriggers(k)
    \/ \E k \in Savers : Saving(k)

Spec == Init /\ [][Next]_vars

\* Goroutines run; requests return, if only by a timeout; a select with several
\* ready channels takes each of them some time; the DNS name gets an entry and
\* the cluster its JetStream.  No tick, write or message has to come.  Other
\* processes do not keep the WAL busy at every attempt of the checkpoint: one
\* that did would keep performCheckpoint in its loop.
FairSpec ==
    /\ Spec
    /\ WF_vars(MainStep)
    /\ SF_vars(Checkpoint /\ UNCHANGED runVars)
    /\ WF_vars(Listed /\ UNCHANGED runVars)
    /\ WF_vars(JetStreamReady /\ UNCHANGED runVars)
    /\ \A u \in Users : WF_vars(UserStep(u))
    /\ \A k \in Savers : WF_vars(Saving(k))
    /\ SF_vars(\E s \in Shards : ReceiveError(s))

-----------------------------------------------------------------------------
(* Properties *)

MainSteps ==
    {"load", "open", "checkpoint", "busy", "cleanup", "remove", "storage", "connect",
     "reconnect", "dial", "discover", "server", "prepare", "streams", "info",
     "add", "compare", "flag", "force", "forced", "restore", "tables", "install",
     "schema", "global", "globalScript", "triggers", "trigger",
     "triggerScript", "watch", "installed", "listeners", "select", "clean",
     "delete", "save", "sleep"}

\* Every variable keeps its type.
TypeOK ==
    /\ PoolTypeOK
    /\ main    \in MainSteps
    /\ storage \in {"pending", "ready"}
    /\ attempt \in 0..ConnectRetries
    /\ todo    \subseteq Shards \cup Tables
    /\ info    \in {"absent", "mine", "other"}
    /\ stream  \in [Shards -> {"absent", "mine", "other"}]
    /\ dns     \in 0..Peers
    /\ server  \in {"off", "started", "ready"}
    /\ ended   \in {"no", "return", "panic", "exit"}
    /\ step    \in [Users -> {"off", "idle", "borrow", "use", "report", "ended"}]
    /\ context \in {"live", "canceled"}
    /\ save    \in [Savers -> {"off", "lease", "lock", "backup", "upload"}]
    /\ mutex   \subseteq Savers
    /\ version \in Nat /\ stored \in Nat /\ asleep \in Nat
    /\ copy    \in [Savers -> Nat]
    /\ outcome \in {"ok", "error", "pending"}

\* Threads that wait for a connection never hold all of them: if none is free,
\* some thread that does not wait has one and will return it.  InstallCDC
\* alone borrows a second connection while it holds one.
NoCircularWait ==
    Up /\ waiting # <<>> /\ connections = <<>> =>
        \E t \in Threads : ~Waits(t) /\ \E c \in Connections : Has(t, c)

\* When the watcher and the listeners start, every connection is open, so their
\* Borrow has nothing left to do that could fail: the start borrows in turn
\* from the front of the channel and returns to its end, three times and once
\* for each table.  With the four connections of the code one table is enough.
AllOpened ==
    PoolSize <= Cardinality(Tables) + 3 /\ step[Watcher] # "off"
        => opened = Connections

\* Within one process snapshots are stored in the order they were taken: a
\* call that started early and uploads late never replaces a newer one.
SnapshotsInOrder == [][stored' >= stored]_vars

\* A process that went to sleep and did not fail to save left a snapshot of
\* everything committed before the timeout.  The exception is a snapshot that
\* another goroutine was still working on: ForceSaveSnapshot gives up, and
\* the exit ends the other one too.
SleepSaves ==
    ended = "exit" /\ SnapshotEnable /\ Publish /\ outcome = "ok"
        => stored >= asleep

\* Every Borrow is served: a thread that waits gets a connection, or the
\* process ends.
EveryBorrowServed ==
    \A t \in Threads : Waits(t) ~> (~Waits(t) \/ ~Up)

\* The error of a listener, and the sleep timeout, end the process, whatever
\* main is doing when they come.
EndsWhenDue ==
    (context = "canceled" \/ \E s \in Shards : step[s] = "report") ~> ~Up

\* A start comes to an end: none of the loops and waits on the way (checkpoint,
\* dial, discovery, JetStream, the pool) keeps main for ever, so the watcher is
\* started or the process ended with an error or as its flags asked.
EveryStartEnds == <>(step[Watcher] # "off" \/ ~Up)

-----------------------------------------------------------------------------
(* The strengthening that makes the invariants inductive.                     *)

\* Steps of main with one connection, with up to two, and of the loop.
OneSteps ==
    {"checkpoint", "busy", "remove", "schema", "global", "triggers", "trigger",
     "watch", "installed", "delete"}
TwoSteps  == {"globalScript", "triggerScript"}
LoopSteps == {"select", "clean", "delete", "save", "sleep"}

\* main waits only where it borrows.  Other goroutines, and its own snapshots,
\* start where they start.
MainInv ==
    /\ Waits(Main) \/ taken[Main] # 0 => main \in DOMAIN AfterBorrow
    /\ main \notin OneSteps \cup TwoSteps => held[Main] = {}
    /\ main \in OneSteps => \A c, d \in held[Main] : c = d
    /\ main \in TwoSteps => \E c, d \in Connections : held[Main] \subseteq {c, d}

StartInv ==
    /\ main \in {"streams", "info", "add", "compare"} => todo \subseteq Shards
    /\ main \in {"info", "add", "compare"} => todo # {}
    /\ main \notin LoopSteps \cup {"installed", "listeners"} => step[Watcher] = "off"
    /\ main \notin LoopSteps => \A s \in Shards : step[s] = "off"
    /\ main \notin {"save", "sleep", "forced"} => save[Main] = "off"

\* A thread other than main borrows with empty hands.
UserInv(u) ==
    /\ Waits(u) \/ taken[u] # 0 => step[u] = "borrow"
    /\ step[u] # "use" => held[u] = {}
    /\ \A c, d \in held[u] : c = d

\* The holder of the mutex is alone, and its copy is not older than what is
\* stored.
SaveInv ==
    /\ \A k \in Savers : k \in mutex <=> save[k] \in {"backup", "upload"}
    /\ \A j, k \in mutex : j = k
    /\ stored <= version /\ asleep <= version
    /\ \A k \in Savers :
          save[k] = "upload" => stored <= copy[k] /\ copy[k] <= version

\* main's own snapshot before the exit is taken after the timeout.
SleepInv ==
    /\ main = "sleep" /\ Up =>
          /\ save[Main] = "upload" => copy[Main] >= asleep
          /\ save[Main] = "off" /\ outcome = "ok" => stored >= asleep
    /\ SleepSaves

IndInv ==
    /\ TypeOK
    /\ PoolInv
    /\ Up => MainInv /\ StartInv /\ \A u \in Users : UserInv(u)
    /\ SaveInv
    /\ SleepInv

\* How many times main has borrowed when it gets to step m of the start, with n
\* tables left.
Borrows(m, n) ==
    CASE m \in {"load", "open"}        -> 0
      [] m \in {"schema", "global"}    -> 2
      [] m = "globalScript"            -> 3
      [] m \in {"triggers", "trigger"} -> 3 + Cardinality(Tables) - n
      [] m = "triggerScript"           -> 4 + Cardinality(Tables) - n
      [] m = "watch"                   -> 3 + Cardinality(Tables)
      [] OTHER                         -> 1

\* While main is alone, no connection that is open comes before one that is not,
\* so every Borrow opens one more until all are.
OpensInTurn ==
    /\ main \in {"triggers", "trigger", "triggerScript"} => todo \subseteq Tables
    /\ main \notin LoopSteps \cup {"installed", "listeners"} =>
          /\ \A i, j \in 1..Len(connections) :
                i < j /\ connections[i] \in opened => connections[j] \in opened
          /\ taken[Main] \in opened =>
                \A i \in 1..Len(connections) : connections[i] \in opened
          /\ \/ opened = Connections
             \/ Cardinality(opened) >= Borrows(main, Cardinality(todo))

\* Inductive together with IndInv.
OpenInv == (Up => OpensInTurn) /\ AllOpened
=============================================================================
