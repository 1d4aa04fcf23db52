---------------------------- MODULE ConnectionPool -----------------------------
(***************************************************************************)
(* pool.SQLitePool: a buffered channel of SQLite connections that are opened *)
(* when they are borrowed for the first time.  A thread that finds the       *)
(* channel empty waits, without a timeout, and the runtime serves waiting    *)
(* threads in the order they came.                                           *)
(***************************************************************************)
EXTENDS Integers, Sequences, FiniteSets

CONSTANTS
    Threads,    \* goroutines that use the pool
    PoolSize    \* db.PoolSize, 4 in the code

ASSUME PoolAssumption == PoolSize \in Nat \ {0}

VARIABLES
    connections,   \* the channel
    opened,        \* connections whose database handle is open (state = 1)
    waiting,       \* threads blocked in the receive of Borrow
    taken,         \* taken[t]: connection t received and still has to init, or 0
    held           \* held[t]: connections that Borrow returned to t

poolVars == <<connections, opened, waiting, taken, held>>

Connections == 1..PoolSize

\* NewSQLitePool, lazy: nothing is open.
PoolInit ==
    /\ connections = [i \in Connections |-> i]
    /\ opened  = {}
    /\ waiting = <<>>
    /\ taken   = [t \in Threads |-> 0]
    /\ held    = [t \in Threads |-> {}]

Waits(t) == \E i \in 1..Len(waiting) : waiting[i] = t

-----------------------------------------------------------------------------
(* Borrow: the receive, then init.                                           *)

Borrow(t) ==
    /\ ~Waits(t)
    /\ taken[t] = 0
    /\ waiting' = Append(waiting, t)
    /\ UNCHANGED <<connections, opened, taken, held>>

Receive(t) ==
    /\ waiting # <<>> /\ t = Head(waiting)
    /\ connections # <<>>
    /\ waiting' = Tail(waiting)
    /\ taken' = [taken EXCEPT ![t] = Head(connections)]
    /\ connections' = Tail(connections)
    /\ UNCHANGED <<opened, held>>

\* Mutant: init leaves the state at 0.
BorrowedMutant(t) ==
    /\ taken[t] # 0
    /\ held' = [held EXCEPT ![t] = @ \cup {taken[t]}]
    /\ taken' = [taken EXCEPT ![t] = 0]
    /\ UNCHANGED <<connections, opened, waiting>>

\* The connection was open already, or OpenRaw opened it.
Borrowed(t) ==
    /\ taken[t] # 0
    /\ opened' = opened \cup {taken[t]}
    /\ held' = [held EXCEPT ![t] = @ \cup {taken[t]}]
    /\ taken' = [taken EXCEPT ![t] = 0]
    /\ UNCHANGED <<connections, waiting>>

\* Mutant: an error of init returns without a replacement.
BorrowFailsMutant(t) ==
    /\ taken[t] \notin opened \cup {0}
    /\ taken' = [taken EXCEPT ![t] = 0]
    /\ UNCHANGED <<connections, opened, waiting, held>>

\* OpenRaw failed: a new connection goes into the channel in place of this
\* one, under its number.
BorrowFails(t) ==
    /\ taken[t] \notin opened \cup {0}
    /\ Len(connections) < PoolSize
    /\ connections' = Append(connections, taken[t])
    /\ taken' = [taken EXCEPT ![t] = 0]
    /\ UNCHANGED <<opened, waiting, held>>

\* Mutant: the connection stays with the thread that returned it.
ReturnMutant(t) ==
    /\ Len(connections) < PoolSize
    /\ \E c \in held[t] : connections' = Append(connections, c)
    /\ UNCHANGED <<opened, waiting, taken, held>>

\* Dispose: the send would block on a full channel.
Return(t) ==
    /\ Len(connections) < PoolSize
    /\ \E c \in held[t] :
          /\ connections' = Append(connections, c)
          /\ held' = [held EXCEPT ![t] = @ \ {c}]
    /\ UNCHANGED <<opened, waiting, taken>>

-----------------------------------------------------------------------------

PoolNext ==
    \E t \in Threads :
        Borrow(t) \/ Receive(t) \/ Borrowed(t) \/ BorrowFails(t) \/ Return(t)

PoolSpec == PoolInit /\ [][PoolNext]_poolVars

-----------------------------------------------------------------------------
(* Properties *)

\* Every variable of the pool keeps its type.
PoolTypeOK ==
    /\ connections \in Seq(Connections)
    /\ opened  \subseteq Connections
    /\ waiting \in Seq(Threads)
    /\ taken   \in [Threads -> {0} \cup Connections]
    /\ held    \in [Threads -> SUBSET Connections]

Free(c)   == \E i \in 1..Len(connections) : connections[i] = c
Has(t, c) == taken[t] = c \/ c \in held[t]

\* No connection is lost and none is borrowed twice: each one is in the channel
\* once, or with one thread, whatever opens fail and whoever returns; and a
\* thread borrows only an open one.  Borrowed is not in use: fetchChangeRows of
\* db/change_log.go returns its connection while its rows are still being read.
PoolConserved ==
    /\ \A i, j \in 1..Len(connections) :
          connections[i] = connections[j] => i = j
    /\ \A c \in Connections : Free(c) \/ \E t \in Threads : Has(t, c)
    /\ \A t \in Threads : \A c \in Connections : Has(t, c) =>
          /\ ~Free(c)
          /\ ~(taken[t] = c /\ c \in held[t])
          /\ \A u \in Threads : Has(u, c) => u = t
    /\ \A t \in Threads : held[t] \subseteq opened

\* A thread waits in one Borrow at a time.  With this PoolConserved is
\* inductive: a second receive would drop the first connection.
WaitsOnce ==
    /\ \A i, j \in 1..Len(waiting) : waiting[i] = waiting[j] => i = j
    /\ \A t \in Threads : Waits(t) => taken[t] = 0

PoolInv == PoolTypeOK /\ WaitsOnce /\ PoolConserved

\* The sends of Dispose and of a failing Borrow always find room.
ReturnNeverBlocks ==
    \A t \in Threads : taken[t] # 0 \/ held[t] # {} => Len(connections) < PoolSize
=============================================================================
