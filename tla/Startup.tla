-------------------------------- MODULE Startup --------------------------------
(***************************************************************************)
(* The start of one marmot process: main up to the point where it starts the *)
(* watcher and the listeners, with stream.Connect (an external server, or    *)
(* the embedded one with its peer discovery), the streams of NewReplicator,  *)
(* and InstallCDC, which borrows a connection while it holds one.            *)
(***************************************************************************)
EXTENDS ConnectionPool

CONSTANTS
    Main,             \* the main goroutine
    Shards,           \* shards, each with a stream and a listener
    Tables,           \* tables to watch
    ConnectRetries,   \* nats.connect_retries
    UpdateExisting,   \* replication_log.update_existing
    Peers             \* bound: entries of the DNS name

ASSUME StartupAssumption ==
    /\ Main \in Threads
    /\ ConnectRetries \in Nat /\ Peers \in Nat
    /\ UpdateExisting \in BOOLEAN

VARIABLES
    main,      \* step of main
    storage,   \* "pending": the snapshot storage is to get a connection
    attempt,   \* connection attempts made
    todo,      \* shards or tables left in the loop main is in
    info,      \* configuration in the last StreamInfo or AddStream response
    stream,    \* stream[s]: "absent", "mine" or "other" configuration
    dns,       \* entries of the DNS name
    server,    \* embedded server: "off", "started", "ready" with JetStream
    ended      \* "no", "return", "panic" or "exit"

bootVars == <<main, storage, attempt, todo, info, stream, dns, server, ended>>

StartupInit ==
    /\ PoolInit
    /\ main = "load"
    /\ storage = "ready"
    /\ attempt = 0
    /\ todo = {}
    /\ info = "absent"
    /\ stream = [s \in Shards |-> "absent"]
    /\ dns = 0
    /\ server = "off"
    /\ ended = "no"

At(step) == main = step /\ ended = "no"
Goto(step) == main' = step /\ ended' = ended
End(how)   == ended' = how /\ main' = main

\* main goes on, or the call failed and the process ends, with the connections
\* it still holds.
GotoOrEnd(step, how) == Goto(step) \/ End(how)

connect == <<storage, attempt, todo, info, stream, dns, server>>

-----------------------------------------------------------------------------
(* Borrowing.  Every step of main that begins with a Borrow, and the step it  *)
(* goes on with.                                                             *)

AfterBorrow ==
    [open |-> "checkpoint", cleanup |-> "remove", install |-> "schema",
     global |-> "globalScript", trigger |-> "triggerScript", clean |-> "delete"]

MainBorrow ==
    /\ ended = "no"
    /\ main \in DOMAIN AfterBorrow
    /\ Borrow(Main)
    /\ UNCHANGED bootVars

MainReceive ==
    /\ ended = "no"
    /\ Receive(Main)
    /\ UNCHANGED bootVars

MainBorrowed ==
    /\ ended = "no"
    /\ Borrowed(Main)
    /\ Goto(AfterBorrow[main])
    /\ UNCHANGED connect

\* Every caller in the start gives up; the clean-up of the loop is skipped.
MainBorrowFails ==
    /\ ended = "no"
    /\ BorrowFails(Main)
    /\ CASE main = "clean"   -> Goto("select")
         [] main = "cleanup" -> End("panic")
         [] OTHER            -> End("return")
    /\ UNCHANGED connect

-----------------------------------------------------------------------------

Load ==
    /\ At("load")
    /\ GotoOrEnd("open", "panic")
    /\ UNCHANGED <<poolVars, connect>>

\* Mutant: the connection of the checkpoint is kept.
CheckpointMutant ==
    /\ At("checkpoint")
    /\ Goto("cleanup") \/ GotoOrEnd("storage", "return")
    /\ UNCHANGED <<poolVars, connect>>

\* performCheckpoint: while another process keeps the WAL busy, the checkpoint
\* sleeps and is tried again.
CheckpointBusy ==
    /\ (At("checkpoint") /\ Goto("busy")) \/ (At("busy") /\ Goto("checkpoint"))
    /\ UNCHANGED <<poolVars, connect>>

\* The rest of OpenStreamDB, once the checkpoint is complete or failed.
Checkpoint ==
    /\ At("checkpoint")
    /\ Return(Main)
    /\ Goto("cleanup") \/ GotoOrEnd("storage", "return")
    /\ UNCHANGED connect

\* RemoveCDC, when the -cleanup flag is given.
RemoveCDC ==
    /\ At("remove")
    /\ Return(Main)
    /\ End("return") \/ End("panic")
    /\ UNCHANGED connect

\* The nats storage makes a connection of its own.  The others dial theirs
\* when it is made or used, or fail on their settings.
NewSnapshotStorage ==
    /\ At("storage")
    /\ GotoOrEnd("connect", "panic")
    /\ storage' \in {"pending", "ready"}
    /\ UNCHANGED <<poolVars, attempt, todo, info, stream, dns, server>>

-----------------------------------------------------------------------------
(* stream.Connect, for a nats storage and again for the replicator.           *)

\* Credentials, then an external server, or the embedded one with or without
\* dns:// addresses.
Connect ==
    /\ At("connect")
    /\ Goto("dial") \/ Goto("discover") \/ GotoOrEnd("server", "panic")
    /\ UNCHANGED <<poolVars, connect>>

\* The connection goes to the storage, or NewReplicator goes on with it.
Connected ==
    /\ storage' = "ready"
    /\ IF storage = "pending"
       THEN Goto("reconnect") /\ UNCHANGED todo
       ELSE Goto("streams") /\ todo' = Shards

\* The second call: the embedded server is there already.
Reconnect ==
    /\ At("reconnect")
    /\ GotoOrEnd(IF server = "off" THEN "dial" ELSE "prepare", "panic")
    /\ attempt' = 0
    /\ UNCHANGED <<poolVars, storage, todo, info, stream, dns, server>>

\* Mutant: one attempt too many.
DialAgainMutant ==
    /\ At("dial")
    /\ attempt <= ConnectRetries
    /\ attempt' = attempt + 1
    /\ UNCHANGED <<poolVars, main, storage, todo, info, stream, dns, server, ended>>

\* RetryOnFailedConnect: a server out of reach is no error but a connection
\* that is not connected, and the next attempt makes another.
DialAgain ==
    /\ At("dial")
    /\ attempt < ConnectRetries
    /\ attempt' = attempt + 1
    /\ UNCHANGED <<poolVars, main, storage, todo, info, stream, dns, server, ended>>

\* Connected, or the attempts are used up and the last connection is returned
\* as it is.  Without an attempt, or after an error, the connection is nil and
\* its first use panics.
Dial ==
    /\ At("dial")
    /\ \/ /\ ConnectRetries > 0
          /\ Connected
       \/ /\ attempt < ConnectRetries \/ ConnectRetries = 0
          /\ End("panic")
          /\ UNCHANGED <<storage, todo>>
    /\ UNCHANGED <<poolVars, attempt, info, stream, dns, server>>

\* queryDNSRoutes: a name without entries is an error and asked again.  The
\* minimum of entries given in the address is not waited for: both callers pass
\* waitDNSEntries, which makes it 0.
Discover ==
    /\ At("discover")
    /\ dns > 0
    /\ Goto("server")
    /\ UNCHANGED <<poolVars, connect>>

StartEmbeddedServer ==
    /\ At("server")
    /\ \/ /\ Goto("prepare")
          /\ server' = "started"
       \/ /\ End("panic")
          /\ UNCHANGED server
    /\ UNCHANGED <<poolVars, storage, attempt, todo, info, stream, dns>>

\* prepareConnection tries again until JetStream answers.
PrepareConnection ==
    /\ At("prepare")
    /\ server = "ready"
    /\ \/ Connected
       \/ End("panic") /\ UNCHANGED <<storage, todo>>
    /\ UNCHANGED <<poolVars, attempt, info, stream, dns, server>>

\* Outside: entries appear, and with this node's server the cluster has what
\* JetStream needs.
Listed ==
    /\ At("discover")
    /\ dns < Peers
    /\ dns' = dns + 1
    /\ UNCHANGED <<poolVars, main, storage, attempt, todo, info, stream, server,
                   ended>>

JetStreamReady ==
    /\ ended = "no"
    /\ server = "started"
    /\ server' = "ready"
    /\ UNCHANGED <<poolVars, main, storage, attempt, todo, info, stream, dns,
                   ended>>

-----------------------------------------------------------------------------
(* NewReplicator: a stream for every shard, then the two local stores.        *)

\* The shard the loop is at: they are taken in a fixed order.
cur == CHOOSE s \in todo : TRUE

NextStream ==
    /\ At("streams")
    /\ todo # {}
    /\ Goto("info")
    /\ UNCHANGED <<poolVars, connect>>

\* The local stores.  What the start knows of the server is of no use after
\* this and is forgotten.
StreamsReady ==
    /\ At("streams")
    /\ todo = {}
    /\ GotoOrEnd("flag", "panic")
    /\ attempt' = 0
    /\ info'    = "absent"
    /\ stream'  = [s \in Shards |-> "absent"]
    /\ dns'     = 0
    /\ server'  = "off"
    /\ UNCHANGED <<poolVars, storage, todo>>

StreamInfo ==
    /\ At("info")
    /\ info' = stream[cur]
    /\ GotoOrEnd(IF stream[cur] = "absent" THEN "add" ELSE "compare", "panic")
    /\ UNCHANGED <<poolVars, storage, attempt, todo, stream, dns, server>>

\* The server accepts a stream that exists with the same configuration.
AddStream ==
    /\ At("add")
    /\ \/ /\ stream[cur] # "other"
          /\ stream' = [stream EXCEPT ![cur] = "mine"]
          /\ info' = "mine"
          /\ Goto("compare")
       \/ End("panic") /\ UNCHANGED <<info, stream>>
    /\ UNCHANGED <<poolVars, storage, attempt, todo, dns, server>>

CompareStream ==
    /\ At("compare")
    /\ IF UpdateExisting /\ info = "other"
       THEN \/ Goto("streams") /\ stream' = [stream EXCEPT ![cur] = "mine"]
            \/ End("panic") /\ UNCHANGED stream
       ELSE Goto("streams") /\ UNCHANGED stream
    /\ todo' = todo \ {cur}
    /\ UNCHANGED <<poolVars, storage, attempt, info, dns, server>>

\* Another node adds or updates a stream.  Only the loop above looks at them.
OtherNode(s) ==
    /\ ended = "no"
    /\ main \in {"info", "add", "compare"}
    /\ stream' \in {[stream EXCEPT ![s] = k] : k \in {"mine", "other"}}
    /\ UNCHANGED <<poolVars, main, storage, attempt, todo, info, dns, server,
                   ended>>

\* The -save-snapshot flag ("force"), or on; RestoreSnapshot, which module
\* SnapshotLog describes, or an error of it; GetAllDBTables.
Flag ==
    /\ At("flag")
    /\ Goto("force") \/ Goto("restore")
    /\ UNCHANGED <<poolVars, connect>>

RestoreSnapshot ==
    /\ At("restore")
    /\ GotoOrEnd("tables", "panic")
    /\ UNCHANGED <<poolVars, connect>>

GetAllDBTables ==
    /\ At("tables")
    /\ GotoOrEnd("install", "return")
    /\ UNCHANGED <<poolVars, connect>>

-----------------------------------------------------------------------------
(* InstallCDC, with the first connection in hand.  Which of its connections   *)
(* main returns first makes no difference.                                    *)

Schema ==
    /\ At("schema")
    /\ GotoOrEnd("global", "return")
    /\ UNCHANGED <<poolVars, connect>>

GlobalScript ==
    /\ At("globalScript")
    /\ Return(Main)
    /\ GotoOrEnd("triggers", "return")
    /\ todo' = Tables
    /\ UNCHANGED <<storage, attempt, info, stream, dns, server>>

NextTable ==
    /\ At("triggers")
    /\ Goto(IF todo = {} THEN "watch" ELSE "trigger")
    /\ UNCHANGED <<poolVars, connect>>

TriggerScript ==
    /\ At("triggerScript")
    /\ Return(Main)
    /\ GotoOrEnd("triggers", "return")
    /\ \E t \in todo : todo' = todo \ {t}
    /\ UNCHANGED <<storage, attempt, info, stream, dns, server>>

-----------------------------------------------------------------------------

\* Steps of main before it starts other goroutines, and of the world outside.
MainBoots ==
    \/ MainBorrow \/ MainReceive \/ MainBorrowed \/ MainBorrowFails
    \/ Load \/ CheckpointBusy \/ Checkpoint \/ RemoveCDC
    \/ NewSnapshotStorage \/ Connect
    \/ Reconnect \/ DialAgain \/ Dial \/ Discover
    \/ StartEmbeddedServer \/ PrepareConnection \/ NextStream \/ StreamsReady
    \/ StreamInfo \/ AddStream \/ CompareStream
    \/ Flag \/ RestoreSnapshot \/ GetAllDBTables
    \/ Schema \/ GlobalScript \/ NextTable \/ TriggerScript

Outside == Listed \/ JetStreamReady \/ \E s \in Shards : OtherNode(s)
=============================================================================
