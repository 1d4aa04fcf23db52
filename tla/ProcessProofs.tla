----------------------------- MODULE ProcessProofs -----------------------------
(* Machine-checked proofs about modules ConnectionPool and Process, for any     *)
(* number of listeners, tables and snapshot goroutines and any pool of two or   *)
(* more connections.                                                           *)
EXTENDS Process, TLAPS

-----------------------------------------------------------------------------
(* The pool, for any set of threads that borrow and return. *)

\* Adding to and taking from a queue of connections or threads.
LEMMA QueueFacts ==
    ASSUME NEW S, NEW q \in Seq(S), NEW x \in S
    PROVE  /\ Append(q, x) \in Seq(S)
           /\ Len(q) \in Nat
           /\ Len(Append(q, x)) = Len(q) + 1
           /\ \A i \in 1..Len(q) : Append(q, x)[i] = q[i]
           /\ Append(q, x)[Len(q) + 1] = x
OBVIOUS

LEMMA TailFacts ==
    ASSUME NEW S, NEW q \in Seq(S), q # <<>>
    PROVE  /\ Len(q) \in Nat \ {0}
           /\ Head(q) \in S /\ Head(q) = q[1]
           /\ Tail(q) \in Seq(S)
           /\ Len(Tail(q)) = Len(q) - 1
           /\ \A i \in 1..(Len(q) - 1) : Tail(q)[i] = q[i + 1]
OBVIOUS

LEMMA PoolTypes ==
    ASSUME PoolTypeOK, [PoolNext]_poolVars
    PROVE  PoolTypeOK'
<1> USE DEF PoolTypeOK
<1>1. ASSUME NEW t \in Threads, Borrow(t) PROVE PoolTypeOK'
  BY <1>1, QueueFacts DEF Borrow
<1>2. ASSUME NEW t \in Threads, Receive(t) PROVE PoolTypeOK'
  BY <1>2, TailFacts DEF Receive
<1>3. ASSUME NEW t \in Threads, Borrowed(t) PROVE PoolTypeOK'
  BY <1>3 DEF Borrowed
<1>4. ASSUME NEW t \in Threads, BorrowFails(t) PROVE PoolTypeOK'
  <2>1. taken[t] \in Connections BY <1>4 DEF BorrowFails
  <2> QED BY <1>4, <2>1, QueueFacts DEF BorrowFails
<1>5. ASSUME NEW t \in Threads, Return(t) PROVE PoolTypeOK'
  BY <1>5, QueueFacts DEF Return
<1>6. CASE UNCHANGED poolVars BY <1>6 DEF poolVars
<1> QED BY <1>1, <1>2, <1>3, <1>4, <1>5, <1>6 DEF PoolNext

\* What is in a queue without repetitions after an addition and a removal.
In(q, c) == \E i \in 1..Len(q) : q[i] = c
Distinct(q) == \A i, j \in 1..Len(q) : q[i] = q[j] => i = j

LEMMA AddDistinct ==
    ASSUME NEW S, NEW q \in Seq(S), NEW x \in S, Distinct(q), ~In(q, x)
    PROVE  /\ Distinct(Append(q, x))
           /\ \A c : In(Append(q, x), c) <=> In(q, c) \/ c = x
<1> DEFINE r == Append(q, x)
<1>1. /\ Len(q) \in Nat /\ Len(r) = Len(q) + 1 /\ r[Len(q) + 1] = x
      /\ \A i \in 1..Len(q) : r[i] = q[i]
  BY QueueFacts
<1> HIDE DEF r
<1>2. Distinct(r) BY <1>1 DEF Distinct, In
<1>3. \A c : In(r, c) <=> In(q, c) \/ c = x
  <2> TAKE c
  <2>1. In(r, c) => In(q, c) \/ c = x BY <1>1 DEF In
  <2>2. In(q, c) => In(r, c) BY <1>1 DEF In
  <2>3. c = x => In(r, c) BY <1>1 DEF In
  <2> QED BY <2>1, <2>2, <2>3
<1> QED BY <1>2, <1>3 DEF r

LEMMA TailDistinct ==
    ASSUME NEW S, NEW q \in Seq(S), q # <<>>, Distinct(q)
    PROVE  /\ Distinct(Tail(q)) /\ In(q, Head(q))
           /\ \A c : In(Tail(q), c) <=> In(q, c) /\ c # Head(q)
<1> DEFINE r == Tail(q)
           h == Head(q)
<1>1. /\ Len(q) \in Nat \ {0} /\ Len(r) = Len(q) - 1 /\ h = q[1]
      /\ \A i \in 1..(Len(q) - 1) : r[i] = q[i + 1]
  BY TailFacts
<1> HIDE DEF r, h
<1>2. Distinct(r)
  <2> SUFFICES ASSUME NEW i \in 1..Len(r), NEW j \in 1..Len(r), r[i] = r[j]
               PROVE  i = j
    BY DEF Distinct
  <2>1. i + 1 \in 1..Len(q) /\ j + 1 \in 1..Len(q) /\ q[i + 1] = q[j + 1]
    BY <1>1
  <2>2. i + 1 = j + 1 BY <2>1 DEF Distinct
  <2> QED BY <2>2, <1>1
<1>3. \A c : In(r, c) <=> In(q, c) /\ c # h
  <2> TAKE c
  <2>1. ASSUME In(r, c) PROVE In(q, c) /\ c # h
    <3>1. PICK i \in 1..Len(r) : r[i] = c BY <2>1 DEF In
    <3>2. i + 1 \in 1..Len(q) /\ q[i + 1] = c /\ 1 \in 1..Len(q) /\ i + 1 # 1
      BY <3>1, <1>1
    <3>3. c # q[1] BY <3>2 DEF Distinct
    <3> QED BY <3>2, <3>3, <1>1 DEF In
  <2>2. ASSUME In(q, c), c # h PROVE In(r, c)
    <3>1. PICK i \in 1..Len(q) : q[i] = c BY <2>2 DEF In
    <3>2. i - 1 \in 1..Len(r) /\ i - 1 \in 1..(Len(q) - 1) BY <3>1, <2>2, <1>1
    <3>3. r[i - 1] = q[(i - 1) + 1] BY <3>2, <1>1
    <3> QED BY <3>1, <3>2, <3>3 DEF In
  <2> QED BY <2>1, <2>2
<1>4. In(q, h) BY <1>1 DEF In
<1> QED BY <1>2, <1>3, <1>4 DEF r, h

\* WaitsOnce in these terms.
LEMMA Waiting ==
    /\ WaitsOnce <=> /\ Distinct(waiting)
                     /\ \A t \in Threads : In(waiting, t) => taken[t] = 0
    /\ WaitsOnce' <=> /\ Distinct(waiting')
                      /\ \A t \in Threads : In(waiting', t) => taken'[t] = 0
    /\ \A t : Waits(t) <=> In(waiting, t)
BY DEF WaitsOnce, Waits, Distinct, In

LEMMA HeadWaits ==
    ASSUME PoolTypeOK, WaitsOnce, waiting # <<>>
    PROVE  Waits(Head(waiting))
BY TailDistinct, Waiting DEF PoolTypeOK

LEMMA WaitsOnceStep ==
    ASSUME PoolTypeOK, WaitsOnce, [PoolNext]_poolVars
    PROVE  WaitsOnce'
<1>1. ASSUME NEW t \in Threads, Borrow(t) PROVE WaitsOnce'
  <2>1. /\ Distinct(waiting')
        /\ \A u : In(waiting', u) <=> In(waiting, u) \/ u = t
    BY <1>1, Waiting, AddDistinct DEF Borrow, PoolTypeOK
  <2>2. taken' = taken /\ taken[t] = 0 BY <1>1 DEF Borrow
  <2> QED BY <2>1, <2>2, Waiting
<1>2. ASSUME NEW t \in Threads, Receive(t) PROVE WaitsOnce'
  <2> DEFINE h == Head(connections)
  <2>1. /\ Distinct(waiting')
        /\ \A u : In(waiting', u) <=> In(waiting, u) /\ u # t
    BY <1>2, Waiting, TailDistinct DEF Receive, PoolTypeOK
  <2>2. taken' = [taken EXCEPT ![t] = h] BY <1>2 DEF Receive
  <2> HIDE DEF h
  <2> QED BY <2>1, <2>2, Waiting DEF PoolTypeOK
<1>3. ASSUME NEW t \in Threads, Borrowed(t) \/ BorrowFails(t) PROVE WaitsOnce'
  <2>1. waiting' = waiting /\ taken' = [taken EXCEPT ![t] = 0]
    BY <1>3 DEF Borrowed, BorrowFails
  <2> QED BY <2>1, Waiting DEF PoolTypeOK
<1>4. ASSUME NEW t \in Threads, Return(t) PROVE WaitsOnce'
  BY <1>4 DEF Return, WaitsOnce, Waits
<1>5. CASE UNCHANGED poolVars BY <1>5 DEF poolVars, WaitsOnce, Waits
<1> QED BY <1>1, <1>2, <1>3, <1>4, <1>5 DEF PoolNext

\* PoolConserved in these terms.
LEMMA Conserved ==
    /\ PoolConserved <=>
        /\ Distinct(connections)
        /\ \A c \in Connections :
              In(connections, c) \/ \E t \in Threads : Has(t, c)
        /\ \A t \in Threads : \A c \in Connections : Has(t, c) =>
              /\ ~In(connections, c)
              /\ ~(taken[t] = c /\ c \in held[t])
              /\ \A u \in Threads : Has(u, c) => u = t
        /\ \A t \in Threads : held[t] \subseteq opened
    /\ (PoolConserved <=>
        /\ Distinct(connections)
        /\ \A c \in Connections :
              In(connections, c) \/ \E t \in Threads : Has(t, c)
        /\ \A t \in Threads : \A c \in Connections : Has(t, c) =>
              /\ ~In(connections, c)
              /\ ~(taken[t] = c /\ c \in held[t])
              /\ \A u \in Threads : Has(u, c) => u = t
        /\ \A t \in Threads : held[t] \subseteq opened)'
BY DEF PoolConserved, Distinct, In, Free, Has

\* Every step of the pool keeps it.
LEMMA ConservedStep ==
    ASSUME PoolInv, [PoolNext]_poolVars
    PROVE  PoolConserved'
<1> USE DEF PoolInv
<1>0. 0 \notin Connections BY DEF Connections
<1>1. ASSUME NEW t \in Threads, Borrow(t) PROVE PoolConserved'
  BY <1>1 DEF Borrow, PoolConserved, Free, Has
<1>2. ASSUME NEW t \in Threads, Receive(t) PROVE PoolConserved'
  <2> DEFINE h == Head(connections)
  <2>1. /\ Distinct(connections') /\ In(connections, h) /\ h \in Connections
        /\ \A c : In(connections', c) <=> In(connections, c) /\ c # h
    BY <1>2, Conserved, TailDistinct, TailFacts DEF Receive, PoolTypeOK
  <2>2. /\ taken' = [taken EXCEPT ![t] = h] /\ held' = held /\ opened' = opened
    BY <1>2 DEF Receive
  <2> HIDE DEF h
  <2>3. taken[t] = 0 BY <1>2, HeadWaits DEF Receive, WaitsOnce
  <2> QED BY <1>0, <2>1, <2>2, <2>3, Conserved DEF Has, PoolTypeOK
<1>3. ASSUME NEW t \in Threads, Borrowed(t) PROVE PoolConserved'
  BY SMTT(40), <1>0, <1>3 DEF Borrowed, PoolConserved, Free, Has, PoolTypeOK
<1>4. ASSUME NEW t \in Threads, BorrowFails(t) PROVE PoolConserved'
  <2>1. taken[t] \in Connections /\ Has(t, taken[t]) /\ taken[t] \notin held[t]
    BY <1>4 DEF BorrowFails, PoolTypeOK, PoolConserved, Has
  <2>2. ~In(connections, taken[t]) BY <2>1, Conserved
  <2>3. /\ Distinct(connections')
        /\ \A c : In(connections', c) <=> In(connections, c) \/ c = taken[t]
    BY <1>4, <2>1, <2>2, Conserved, AddDistinct DEF BorrowFails, PoolTypeOK
  <2>4. /\ taken' = [taken EXCEPT ![t] = 0] /\ held' = held /\ opened' = opened
    BY <1>4 DEF BorrowFails
  <2> QED BY <1>0, <2>1, <2>3, <2>4, Conserved DEF Has, PoolTypeOK
<1>5. ASSUME NEW t \in Threads, Return(t) PROVE PoolConserved'
  <2>1. PICK d \in held[t] : /\ connections' = Append(connections, d)
                             /\ held' = [held EXCEPT ![t] = @ \ {d}]
    BY Zenon, <1>5 DEF Return
  <2>2. d \in Connections /\ Has(t, d) /\ taken[t] # d
    BY <2>1 DEF PoolTypeOK, PoolConserved, Has
  <2>3. ~In(connections, d) BY <2>2, Conserved
  <2>4. /\ Distinct(connections')
        /\ \A c : In(connections', c) <=> In(connections, c) \/ c = d
    BY <2>1, <2>2, <2>3, Conserved, AddDistinct DEF PoolTypeOK
  <2>5. taken' = taken /\ opened' = opened BY <1>5 DEF Return
  <2> QED BY <1>0, <2>1, <2>2, <2>4, <2>5, Conserved DEF Has, PoolTypeOK
<1>6. CASE UNCHANGED poolVars
  BY <1>6 DEF poolVars, PoolConserved, Free, Has
<1> QED BY <1>1, <1>2, <1>3, <1>4, <1>5, <1>6 DEF PoolNext

LEMMA PoolInvStep == PoolInv /\ [PoolNext]_poolVars => PoolInv'
BY PoolTypes, WaitsOnceStep, ConservedStep DEF PoolInv

LEMMA PoolInvInit == PoolInit => PoolInv
<1> SUFFICES ASSUME PoolInit PROVE PoolInv OBVIOUS
<1> USE PoolAssumption
<1>1. /\ connections \in Seq(Connections) /\ Len(connections) = PoolSize
      /\ \A i \in 1..PoolSize : connections[i] = i
  BY DEF PoolInit, Connections
<1>2. PoolTypeOK BY <1>1 DEF PoolInit, PoolTypeOK
<1>3. WaitsOnce BY DEF PoolInit, WaitsOnce, Waits
<1>4. PoolConserved
  BY <1>1 DEF PoolInit, PoolConserved, Free, Has, Connections
<1> QED BY <1>2, <1>3, <1>4 DEF PoolInv

-----------------------------------------------------------------------------
(* The pool inside the process. *)

\* Steps of main that leave the pool alone.
quietBoot ==
    \/ Load \/ NewSnapshotStorage \/ Connect \/ Reconnect
    \/ DialAgain \/ Dial \/ Discover \/ CheckpointBusy
    \/ StartEmbeddedServer \/ PrepareConnection \/ NextStream \/ StreamsReady
    \/ StreamInfo \/ AddStream \/ CompareStream \/ Flag \/ RestoreSnapshot
    \/ GetAllDBTables \/ Schema \/ NextTable

\* Steps of main that return a connection.
returnBoot ==
    Checkpoint \/ RemoveCDC \/ GlobalScript \/ TriggerScript

borrowBoot ==
    MainBorrow \/ MainReceive \/ MainBorrowed \/ MainBorrowFails

LEMMA BootCases == MainBoots <=> quietBoot \/ returnBoot \/ borrowBoot
BY Zenon DEF MainBoots, quietBoot, returnBoot, borrowBoot

LEMMA QuietBoot == quietBoot => UNCHANGED poolVars
BY Zenon DEF quietBoot, Load, NewSnapshotStorage, Connect, Reconnect, Connected,
   DialAgain, Dial, Discover, CheckpointBusy, StartEmbeddedServer, PrepareConnection,
   NextStream, StreamsReady, StreamInfo, AddStream, CompareStream, Flag,
   RestoreSnapshot, GetAllDBTables, Schema, NextTable

LEMMA ReturnBoot == returnBoot => Return(Main)
BY Zenon DEF returnBoot, Checkpoint, RemoveCDC, GlobalScript, TriggerScript

LEMMA BorrowBoot ==
    borrowBoot => Borrow(Main) \/ Receive(Main) \/ Borrowed(Main) \/ BorrowFails(Main)
BY Zenon DEF borrowBoot, MainBorrow, MainReceive, MainBorrowed, MainBorrowFails

\* The steps of the loop, and those of the world outside, that leave the pool
\* alone.
quietRun ==
    \/ Watch \/ StartListeners \/ ForceSave \/ Saved \/ Tick \/ Write
    \/ Outside /\ UNCHANGED runVars
    \/ \E s \in Shards : ListenReturns(s) \/ ReceiveError(s)
    \/ \E k \in Goroutines : PublishTriggers(k)
    \/ \E k \in Savers : Saving(k)

LEMMA QuietRun == quietRun => UNCHANGED poolVars
BY Zenon DEF quietRun, Watch, StartListeners, ForceSave, Saved, Tick,
   CleanupTick, SnapshotTick, SleepTick, Write, Outside, Listed, JetStreamReady,
   OtherNode, ListenReturns, ReceiveError, PublishTriggers, Saving, Lease,
   TryLock, Backup, Upload, SaveStep

LEMMA Cases ==
    [Next]_vars => \/ (quietBoot \/ returnBoot \/ borrowBoot) /\ UNCHANGED runVars
                   \/ quietRun
                   \/ Installed \/ Delete
                   \/ \E u \in Users : UserBorrow(u) \/ UserStep(u)
                   \/ UNCHANGED vars
BY Zenon, BootCases DEF Next, MainStep, Boot, quietRun

\* Whatever the process does to the pool is a step of module ConnectionPool.
LEMMA PoolSteps == [Next]_vars => [PoolNext]_poolVars
<1> SUFFICES ASSUME [Next]_vars PROVE [PoolNext]_poolVars BY Zenon
<1>0. Main \in Threads /\ Users \subseteq Threads
  BY Zenon, ProcessAssumption, StartupAssumption
<1>1. CASE quietBoot \/ quietRun BY Zenon, <1>1, QuietBoot, QuietRun
<1>2. CASE returnBoot \/ borrowBoot
  BY Zenon, <1>0, <1>2, ReturnBoot, BorrowBoot DEF PoolNext
<1>3. CASE Installed \/ Delete
  BY Zenon, <1>0, <1>3 DEF Installed, Delete, PoolNext
<1>4. ASSUME NEW u \in Users, UserBorrow(u) \/ UserStep(u)
      PROVE  [PoolNext]_poolVars
  BY Zenon, <1>0, <1>4 DEF UserBorrow, UserStep, UserReceive, UserBorrowed,
     UserReturn, PoolNext
<1>5. CASE UNCHANGED vars BY Zenon, <1>5 DEF vars
<1> QED BY Zenon, <1>1, <1>2, <1>3, <1>4, <1>5, Cases

\* The process implements the pool: its goroutines use the pool only as module
\* ConnectionPool lets them.
THEOREM UsesThePool == Spec => PoolSpec
<1>1. Init => PoolInit BY Zenon DEF Init, StartupInit
<1> QED BY <1>1, PoolSteps, PTL DEF Spec, PoolSpec

-----------------------------------------------------------------------------
(* What a step of the pool does to the thread that takes it and to the others. *)

\* t is in a Borrow.
Busy(t) == Waits(t) \/ taken[t] # 0

PoolStep(t) ==
    Borrow(t) \/ Receive(t) \/ Borrowed(t) \/ BorrowFails(t) \/ Return(t)

LEMMA OthersKept ==
    ASSUME PoolInv, NEW t \in Threads, NEW u \in Threads, u # t, PoolStep(t)
    PROVE  (Busy(u)' => Busy(u)) /\ held'[u] = held[u]
<1> USE DEF PoolInv
<1>1. CASE Borrow(t)
  <2>1. taken' = taken /\ held' = held BY Zenon, <1>1 DEF Borrow
  <2>2. \A v : In(waiting', v) <=> In(waiting, v) \/ v = t
    BY Zenon, <1>1, Waiting, AddDistinct DEF Borrow, PoolTypeOK
  <2> QED BY Zenon, <2>1, <2>2, Waiting DEF Busy, Waits, In
<1>2. CASE Receive(t)
  <2>1. taken'[u] = taken[u] /\ held' = held
    BY Zenon, <1>2 DEF Receive, PoolTypeOK
  <2>2. \A v : In(waiting', v) => In(waiting, v)
    BY Zenon, <1>2, Waiting, TailDistinct DEF Receive, PoolTypeOK
  <2> QED BY Zenon, <2>1, <2>2 DEF Busy, Waits, In
<1>3. CASE Borrowed(t) \/ BorrowFails(t) \/ Return(t)
  <2>1. waiting' = waiting /\ taken'[u] = taken[u] /\ held'[u] = held[u]
    BY Zenon, <1>3 DEF Borrowed, BorrowFails, Return, PoolTypeOK
  <2> QED BY Zenon, <2>1 DEF Busy, Waits
<1> QED BY Zenon, <1>1, <1>2, <1>3 DEF PoolStep

LEMMA OwnKept ==
    ASSUME PoolInv, NEW t \in Threads
    PROVE  /\ Borrow(t) => held' = held
           /\ Receive(t) => Busy(t) /\ held' = held
           /\ Borrowed(t) => /\ Busy(t) /\ ~Busy(t)'
                             /\ taken[t] \in Connections
                             /\ held'[t] = held[t] \cup {taken[t]}
           /\ BorrowFails(t) => Busy(t) /\ ~Busy(t)' /\ held' = held
           /\ Return(t) => /\ Busy(t)' => Busy(t)
                           /\ \E c \in held[t] : held'[t] = held[t] \ {c}
<1> USE DEF PoolInv
<1>1. Borrow(t) => held' = held BY Zenon DEF Borrow
<1>2. Receive(t) => Busy(t) /\ held' = held
  BY Zenon, HeadWaits DEF Receive, Busy
<1>3. ASSUME Borrowed(t) \/ BorrowFails(t)
      PROVE  Busy(t) /\ ~Busy(t)' /\ taken[t] \in Connections
  <2>1. /\ taken[t] # 0 /\ waiting' = waiting /\ taken'[t] = 0
        /\ taken[t] \in Connections
    BY Zenon, <1>3 DEF Borrowed, BorrowFails, PoolTypeOK
  <2>2. ~Waits(t) BY Zenon, <2>1 DEF WaitsOnce
  <2> QED BY Zenon, <2>1, <2>2 DEF Busy, Waits
<1>4. Borrowed(t) => held'[t] = held[t] \cup {taken[t]}
  BY Zenon DEF Borrowed, PoolTypeOK
<1>5. BorrowFails(t) => held' = held BY Zenon DEF BorrowFails
<1>6. ASSUME Return(t)
      PROVE  /\ Busy(t)' => Busy(t)
             /\ \E c \in held[t] : held'[t] = held[t] \ {c}
  BY Zenon, <1>6 DEF Return, PoolTypeOK, Busy, Waits
<1> QED BY Zenon, <1>1, <1>2, <1>3, <1>4, <1>5, <1>6

\* A step that leaves the pool alone.
LEMMA QuietKept ==
    ASSUME UNCHANGED poolVars, NEW t
    PROVE  (Busy(t)' <=> Busy(t)) /\ held'[t] = held[t]
BY Zenon DEF poolVars, Busy, Waits

-----------------------------------------------------------------------------
(* main and the connections it holds.                                         *)

LEMMA NextUp == Next => Up
<1>1. quietBoot \/ returnBoot \/ borrowBoot => Up
  BY Zenon DEF quietBoot, returnBoot, borrowBoot, Up, At, Load,
     NewSnapshotStorage, Connect, Reconnect, Connected, DialAgain, Dial, Discover,
     CheckpointBusy,
     StartEmbeddedServer, PrepareConnection, NextStream, StreamsReady,
     StreamInfo, AddStream, CompareStream, Flag, RestoreSnapshot,
     GetAllDBTables, Schema, NextTable, Checkpoint, RemoveCDC, GlobalScript,
     TriggerScript, MainBorrow, MainReceive, MainBorrowed, MainBorrowFails
<1>2. Watch \/ Installed \/ StartListeners \/ Delete \/ ForceSave \/ Saved => Up
  BY Zenon DEF Watch, Installed, StartListeners, Delete, ForceSave, Saved, Up,
     At
<1>3. Tick \/ Write \/ Outside => Up
  BY Zenon DEF Tick, CleanupTick, SnapshotTick, SleepTick, Write, Outside,
     Listed, JetStreamReady, OtherNode, Up, At
<1>4. \A u : UserBorrow(u) \/ UserStep(u) => Up
  BY Zenon DEF UserBorrow, UserStep, UserReceive, UserBorrowed, UserReturn
<1>5. \A s : ListenReturns(s) \/ ReceiveError(s) \/ PublishTriggers(s) => Up
  BY Zenon DEF ListenReturns, ReceiveError, PublishTriggers, Up, At
<1>6. \A k : Saving(k) => Up
  BY Zenon DEF Saving, Lease, TryLock, Backup, Upload, SaveStep
<1> QED BY Zenon, <1>1, <1>2, <1>3, <1>4, <1>5, <1>6, BootCases
        DEF Next, MainStep, Boot

LEMMA Borrowing ==
    /\ DOMAIN AfterBorrow =
           {"open", "cleanup", "install", "global", "trigger", "clean"}
    /\ AfterBorrow["open"] = "checkpoint" /\ AfterBorrow["cleanup"] = "remove"
    /\ AfterBorrow["install"] = "schema" /\ AfterBorrow["clean"] = "delete"
    /\ AfterBorrow["global"] = "globalScript"
    /\ AfterBorrow["trigger"] = "triggerScript"
BY Zenon DEF AfterBorrow

\* How main moves in a step that leaves the pool alone: not out of a Borrow,
\* and not to a step with another number of connections.
MovesQuietly ==
    \/ ended' # "no"
    \/ main' = main
    \/ /\ main \notin {"open", "cleanup", "install", "global", "trigger", "clean"}
       /\ \/ main \in OneSteps /\ main' \in OneSteps
          \/ main \notin OneSteps \cup TwoSteps /\ main' \notin OneSteps \cup TwoSteps

LEMMA BootMovesQuietly == quietBoot => MovesQuietly
<1> USE DEF MovesQuietly, OneSteps, TwoSteps, At, Goto, End, GotoOrEnd
<1>1. Load \/ NewSnapshotStorage \/ Connect \/ Reconnect
      \/ DialAgain \/ Dial \/ Discover \/ CheckpointBusy
        => MovesQuietly
  BY Zenon DEF Load, NewSnapshotStorage, Connect, Reconnect, Connected,
     DialAgain, Dial, Discover, CheckpointBusy
<1>2. StartEmbeddedServer \/ PrepareConnection \/ NextStream \/ StreamsReady
        => MovesQuietly
  BY Zenon DEF StartEmbeddedServer, PrepareConnection, Connected, NextStream,
     StreamsReady
<1>3. StreamInfo \/ AddStream \/ CompareStream => MovesQuietly
  BY Zenon DEF StreamInfo, AddStream, CompareStream
<1>4. Flag \/ RestoreSnapshot \/ GetAllDBTables \/ Schema \/ NextTable
        => MovesQuietly
  BY Zenon DEF Flag, RestoreSnapshot, GetAllDBTables, Schema, NextTable
<1> QED BY Zenon, <1>1, <1>2, <1>3, <1>4 DEF quietBoot

LEMMA RunMovesQuietly == quietRun => MovesQuietly
<1> USE DEF MovesQuietly, OneSteps, TwoSteps, At, Goto, End
<1>1. Watch \/ StartListeners \/ ForceSave \/ Saved \/ Tick => MovesQuietly
  BY Zenon DEF Watch, StartListeners, ForceSave, Saved, Tick, CleanupTick,
     SnapshotTick, SleepTick
<1>2. Write \/ Outside => MovesQuietly
  BY Zenon DEF Write, Outside, Listed, JetStreamReady, OtherNode, bootVars
<1>3. \A s : ListenReturns(s) \/ ReceiveError(s) \/ PublishTriggers(s)
        => MovesQuietly
  BY Zenon DEF ListenReturns, ReceiveError, PublishTriggers, bootVars
<1>4. \A k : Saving(k) => MovesQuietly
  BY Zenon DEF Saving, Lease, TryLock, Backup, Upload, SaveStep, bootVars
<1> QED BY Zenon, <1>1, <1>2, <1>3, <1>4 DEF quietRun

LEMMA MainInvStep ==
    ASSUME PoolInv, MainInv, [Next]_vars, ended' = "no"
    PROVE  MainInv'
<1> DEFINE B == {"open", "cleanup", "install", "global", "trigger", "clean"}
<1>0. Main \in Threads /\ Users \subseteq Threads /\ Main \notin Users
  BY Zenon, ProcessAssumption, StartupAssumption
<1>a. /\ Busy(Main) => main \in B
      /\ main \notin OneSteps \cup TwoSteps => held[Main] = {}
      /\ main \in OneSteps => \A c, d \in held[Main] : c = d
      /\ main \in TwoSteps =>
            \E c, d \in Connections : held[Main] \subseteq {c, d}
  BY Zenon, Borrowing DEF MainInv, Busy
<1> SUFFICES
      /\ Busy(Main)' => main' \in B
      /\ main' \notin OneSteps \cup TwoSteps => held'[Main] = {}
      /\ main' \in OneSteps => \A c, d \in held'[Main] : c = d
      /\ main' \in TwoSteps =>
            \E c, d \in Connections : held'[Main] \subseteq {c, d}
  BY Zenon, Borrowing DEF MainInv, Busy, Waits
<1> USE DEF OneSteps, TwoSteps
<1>1. CASE quietBoot \/ quietRun
  <2>1. (Busy(Main)' <=> Busy(Main)) /\ held'[Main] = held[Main]
    BY Zenon, <1>1, QuietBoot, QuietRun, QuietKept
  <2>2. MovesQuietly BY Zenon, <1>1, BootMovesQuietly, RunMovesQuietly
  <2> QED BY Zenon, <1>a, <2>1, <2>2 DEF MovesQuietly
<1>2. CASE returnBoot \/ Installed \/ Delete
  <2>1. Return(Main) BY Zenon, <1>2, ReturnBoot DEF Installed, Delete
  <2>2. PICK c \in held[Main] : held'[Main] = held[Main] \ {c}
    BY Zenon, <1>0, <2>1, OwnKept
  <2>3. Busy(Main)' => Busy(Main) BY Zenon, <1>0, <2>1, OwnKept
  <2>4. \/ main = "checkpoint" /\ main' \in {"cleanup", "storage"}
        \/ main = "installed" /\ main' = "listeners"
        \/ main = "delete" /\ main' = "select"
        \/ main \in TwoSteps /\ main' = "triggers"
    BY Zenon, <1>2 DEF returnBoot, Checkpoint, RemoveCDC, GlobalScript,
       TriggerScript, Installed, Delete, At, Goto, End, GotoOrEnd
  <2> QED BY Zenon, <1>a, <2>2, <2>3, <2>4
<1>3. CASE borrowBoot
  <2>1. CASE MainBorrow
    BY <1>a, <1>0, <2>1, OwnKept, Borrowing DEF MainBorrow, bootVars
  <2>2. CASE MainReceive
    BY Zenon, <1>a, <1>0, <2>2, OwnKept DEF MainReceive, bootVars
  <2>3. CASE MainBorrowed
    <3>1. /\ Busy(Main) /\ ~Busy(Main)' /\ taken[Main] \in Connections
          /\ held'[Main] = held[Main] \cup {taken[Main]}
      BY Zenon, <1>0, <2>3, OwnKept DEF MainBorrowed
    <3>2. main \in B /\ main' = AfterBorrow[main]
      BY Zenon, <1>a, <3>1, <2>3 DEF MainBorrowed, Goto
    <3>3. CASE main \in {"open", "cleanup", "install", "clean"}
      BY Zenon, <1>a, <3>1, <3>2, <3>3, Borrowing
    <3>4. CASE main \in {"global", "trigger"}
      <4>1. main' \in TwoSteps BY Zenon, <3>2, <3>4, Borrowing
      <4>2. \E d \in Connections : held[Main] \subseteq {d}
        <5>1. held[Main] \subseteq Connections
          BY Zenon, <1>0 DEF PoolInv, PoolTypeOK
        <5>2. CASE held[Main] = {} BY Zenon, <5>2, <3>1
        <5>3. CASE held[Main] # {} BY Zenon, <5>1, <5>3, <1>a, <3>4
        <5> QED BY Zenon, <5>2, <5>3
      <4> QED BY Zenon, <3>1, <4>1, <4>2
    <3> QED BY Zenon, <3>2, <3>3, <3>4
  <2>4. CASE MainBorrowFails
    <3>1. main = "clean" /\ main' = "select"
      BY Zenon, <2>4 DEF MainBorrowFails, Goto, End
    <3>2. ~Busy(Main)' /\ held' = held
      BY Zenon, <1>0, <2>4, OwnKept DEF MainBorrowFails
    <3> QED BY Zenon, <1>a, <3>1, <3>2
  <2> QED BY Zenon, <1>3, <2>1, <2>2, <2>3, <2>4 DEF borrowBoot
<1>4. ASSUME NEW u \in Users, UserBorrow(u) \/ UserStep(u)
      PROVE  /\ Busy(Main)' => Busy(Main)
             /\ held'[Main] = held[Main] /\ main' = main
  <2>1. PoolStep(u) /\ main' = main
    BY Zenon, <1>4 DEF UserBorrow, UserStep, UserReceive, UserBorrowed,
       UserReturn, PoolStep, bootVars
  <2> QED BY Zenon, <2>1, <1>0, OthersKept
<1>5. CASE UNCHANGED vars
  BY Zenon, <1>a, <1>5, QuietKept DEF vars, bootVars
<1>6. CASE \E u \in Users : UserBorrow(u) \/ UserStep(u)
  BY Zenon, <1>a, <1>4, <1>6
<1> QED BY Zenon, <1>1, <1>2, <1>3, <1>5, <1>6, Cases

-----------------------------------------------------------------------------
(* Types and places.                                                          *)

BootOK ==
    /\ main    \in MainSteps
    /\ storage \in {"pending", "ready"}
    /\ attempt \in 0..ConnectRetries
    /\ todo    \subseteq Shards \cup Tables
    /\ info    \in {"absent", "mine", "other"}
    /\ stream  \in [Shards -> {"absent", "mine", "other"}]
    /\ dns     \in 0..Peers
    /\ server  \in {"off", "started", "ready"}
    /\ ended   \in {"no", "return", "panic", "exit"}

StepOK ==
    /\ step    \in [Users -> {"off", "idle", "borrow", "use", "report", "ended"}]
    /\ context \in {"live", "canceled"}

SaveOK ==
    /\ save    \in [Savers -> {"off", "lease", "lock", "backup", "upload"}]
    /\ mutex   \subseteq Savers
    /\ version \in Nat /\ stored \in Nat /\ asleep \in Nat
    /\ copy    \in [Savers -> Nat]
    /\ outcome \in {"ok", "error", "pending"}

LEMMA TypeParts ==
    /\ TypeOK <=> PoolTypeOK /\ BootOK /\ StepOK /\ SaveOK
    /\ TypeOK' <=> PoolTypeOK' /\ BootOK' /\ StepOK' /\ SaveOK'
BY Zenon DEF TypeOK, BootOK, StepOK, SaveOK

\* The step main goes to.
LEMMA MainTypes ==
    ASSUME PoolInv, BootOK, MainInv, [Next]_vars
    PROVE  main' \in MainSteps /\ ended' \in {"no", "return", "panic", "exit"}
<1> USE DEF MainSteps, BootOK, At, Goto, End, GotoOrEnd
<1>1. CASE quietBoot
  <2>1. CASE Load \/ NewSnapshotStorage \/ Connect \/ Reconnect
             \/ DialAgain \/ Dial \/ Discover \/ CheckpointBusy
    BY ZenonT(40), <2>1 DEF Load, NewSnapshotStorage, Connect, Reconnect, Connected,
       DialAgain, Dial, Discover, CheckpointBusy
  <2>2. CASE StartEmbeddedServer \/ PrepareConnection \/ NextStream \/ StreamsReady
    BY Zenon, <2>2 DEF StartEmbeddedServer, PrepareConnection, Connected,
       NextStream, StreamsReady
  <2>3. CASE StreamInfo \/ AddStream \/ CompareStream
    BY Zenon, <2>3 DEF StreamInfo, AddStream, CompareStream
  <2>4. CASE Flag \/ RestoreSnapshot \/ GetAllDBTables \/ Schema \/ NextTable
    BY Zenon, <2>4 DEF Flag, RestoreSnapshot, GetAllDBTables, Schema, NextTable
  <2> QED BY Zenon, <1>1, <2>1, <2>2, <2>3, <2>4 DEF quietBoot
<1>2. CASE returnBoot \/ Installed \/ Delete
  BY Zenon, <1>2 DEF returnBoot, Checkpoint, RemoveCDC, GlobalScript,
     TriggerScript, Installed, Delete
<1>3. CASE borrowBoot
  <2>1. CASE MainBorrow \/ MainReceive \/ MainBorrowFails
    BY Zenon, <2>1 DEF MainBorrow, MainReceive, MainBorrowFails, bootVars
  <2>2. CASE MainBorrowed
    <3>1. main \in DOMAIN AfterBorrow
      BY Zenon, <2>2 DEF MainBorrowed, Borrowed, MainInv
    <3> QED BY <2>2, <3>1, Borrowing DEF MainBorrowed
  <2> QED BY Zenon, <1>3, <2>1, <2>2 DEF borrowBoot
<1>4. CASE quietRun
  <2>1. CASE Watch \/ StartListeners \/ ForceSave \/ Saved \/ Tick
    BY Zenon, <2>1 DEF Watch, StartListeners, ForceSave, Saved, Tick,
       CleanupTick, SnapshotTick, SleepTick
  <2>2. CASE Write \/ Outside
    BY Zenon, <2>2 DEF Write, Outside, Listed, JetStreamReady, OtherNode,
       bootVars
  <2>3. ASSUME NEW s, ListenReturns(s) \/ ReceiveError(s) \/ PublishTriggers(s)
        PROVE  main' \in MainSteps /\ ended' \in {"no", "return", "panic", "exit"}
    BY Zenon, <2>3 DEF ListenReturns, ReceiveError, PublishTriggers, bootVars
  <2>4. ASSUME NEW k, Saving(k)
        PROVE  main' \in MainSteps /\ ended' \in {"no", "return", "panic", "exit"}
    BY Zenon, <2>4 DEF Saving, Lease, TryLock, Backup, Upload, SaveStep,
       bootVars
  <2> QED BY Zenon, <1>4, <2>1, <2>2, <2>3, <2>4 DEF quietRun
<1>5. ASSUME NEW u \in Users, UserBorrow(u) \/ UserStep(u)
      PROVE  main' \in MainSteps /\ ended' \in {"no", "return", "panic", "exit"}
  BY Zenon, <1>5 DEF UserBorrow, UserStep, UserReceive, UserBorrowed,
     UserReturn, bootVars
<1>6. CASE UNCHANGED vars BY <1>6 DEF vars, bootVars
<1> QED BY Zenon, <1>1, <1>2, <1>3, <1>4, <1>5, <1>6, Cases

\* Most steps leave alone what Connect and NewReplicator work with.
LEMMA ConnectKept ==
    ASSUME [Next]_vars
    PROVE  \/ quietBoot \/ GlobalScript \/ TriggerScript \/ Outside
           \/ UNCHANGED connect
<1>1. CASE returnBoot \/ Installed \/ Delete
  BY Zenon, <1>1 DEF returnBoot, Checkpoint, RemoveCDC, Installed, Delete
<1>2. CASE borrowBoot
  BY Zenon, <1>2 DEF borrowBoot, MainBorrow, MainReceive, MainBorrowed,
     MainBorrowFails, bootVars, connect
<1>3. CASE quietRun
  <2>1. CASE Watch \/ StartListeners \/ ForceSave \/ Saved \/ Tick \/ Write
    BY Zenon, <2>1 DEF Watch, StartListeners, ForceSave, Saved, Tick,
       CleanupTick, SnapshotTick, SleepTick, Write, bootVars, connect
  <2>2. ASSUME NEW s, ListenReturns(s) \/ ReceiveError(s) \/ PublishTriggers(s)
        PROVE  UNCHANGED connect
    BY Zenon, <2>2 DEF ListenReturns, ReceiveError, PublishTriggers, bootVars,
       connect
  <2>3. ASSUME NEW k, Saving(k) PROVE UNCHANGED connect
    BY Zenon, <2>3 DEF Saving, Lease, TryLock, Backup, Upload, SaveStep,
       bootVars, connect
  <2> QED BY Zenon, <1>3, <2>1, <2>2, <2>3 DEF quietRun
<1>4. ASSUME NEW u \in Users, UserBorrow(u) \/ UserStep(u) PROVE UNCHANGED connect
  BY Zenon, <1>4 DEF UserBorrow, UserStep, UserReceive, UserBorrowed,
     UserReturn, bootVars, connect
<1>5. CASE UNCHANGED vars BY Zenon, <1>5 DEF vars, bootVars, connect
<1> QED BY Zenon, <1>1, <1>2, <1>3, <1>4, <1>5, Cases

LEMMA CurShard == ASSUME todo # {}, todo \subseteq Shards PROVE cur \in Shards
BY Zenon DEF cur

LEMMA BootTypes ==
    ASSUME PoolInv, BootOK, MainInv, StartInv, [Next]_vars
    PROVE  BootOK'
<1>1. main' \in MainSteps /\ ended' \in {"no", "return", "panic", "exit"}
  BY Zenon, MainTypes
<1> SUFFICES
      /\ storage' \in {"pending", "ready"}
      /\ attempt' \in 0..ConnectRetries
      /\ todo'    \subseteq Shards \cup Tables
      /\ info'    \in {"absent", "mine", "other"}
      /\ stream'  \in [Shards -> {"absent", "mine", "other"}]
      /\ dns'     \in 0..Peers
      /\ server'  \in {"off", "started", "ready"}
  BY Zenon, <1>1 DEF BootOK
<1> USE StartupAssumption DEF BootOK, connect
<1>2. CASE quietBoot
  <2>1. CASE Load \/ NewSnapshotStorage \/ Connect \/ Discover \/ CheckpointBusy
             \/ NextStream
    BY Zenon, <2>1 DEF Load, NewSnapshotStorage, Connect, Discover,
       CheckpointBusy, NextStream
  <2>2. CASE Flag \/ RestoreSnapshot \/ GetAllDBTables \/ Schema \/ NextTable
    BY Zenon, <2>2 DEF Flag, RestoreSnapshot, GetAllDBTables, Schema, NextTable
  <2>3. CASE Reconnect \/ DialAgain \/ Dial
    BY <2>3 DEF Reconnect, DialAgain, Dial, Connected
  <2>4. CASE StartEmbeddedServer \/ PrepareConnection
    BY Zenon, <2>4 DEF StartEmbeddedServer, PrepareConnection, Connected
  <2>5. CASE StreamsReady BY <2>5 DEF StreamsReady
  <2>6. CASE StreamInfo
    <3>1. main = "info" BY Zenon, <2>6 DEF StreamInfo, At
    <3>2. cur \in Shards BY Zenon, <3>1, CurShard DEF StartInv
    <3> QED BY Zenon, <2>6, <3>2 DEF StreamInfo
  <2>7. CASE AddStream \/ CompareStream
    BY Zenon, <2>7 DEF AddStream, CompareStream
  <2> QED BY Zenon, <1>2, <2>1, <2>2, <2>3, <2>4, <2>5, <2>6, <2>7 DEF quietBoot
<1>3. CASE GlobalScript \/ TriggerScript
  BY Zenon, <1>3 DEF GlobalScript, TriggerScript
<1>4. CASE Outside
  BY <1>4 DEF Outside, Listed, JetStreamReady, OtherNode
<1>5. CASE UNCHANGED connect BY Zenon, <1>5
<1> QED BY Zenon, <1>2, <1>3, <1>4, <1>5, ConnectKept

\* Where main goes outside Connect and NewReplicator.
MainGoes ==
    \/ main' = main
    \/ main \in {"open", "cleanup", "install", "global", "trigger", "clean"}
       /\ main' = AfterBorrow[main]
    \/ main = "clean" /\ main' = "select"
    \/ main = "checkpoint" /\ main' \in {"cleanup", "storage"}
    \/ main \in TwoSteps /\ main' = "triggers"
    \/ main = "watch" /\ main' = "installed"
    \/ main = "installed" /\ main' = "listeners"
    \/ main = "force" /\ main' = "forced"
    \/ /\ main \in LoopSteps \cup {"listeners"} /\ main' \in LoopSteps
       /\ main' = "sleep" => SleepTick

LEMMA MainGoesOn ==
    ASSUME MainInv, [Next]_vars, ended' = "no"
    PROVE  quietBoot \/ MainGoes
<1> USE DEF MainGoes, TwoSteps, LoopSteps, At, Goto, End, GotoOrEnd
<1>2. CASE returnBoot \/ Installed \/ Delete
  BY Zenon, <1>2 DEF returnBoot, Checkpoint, RemoveCDC, GlobalScript,
     TriggerScript, Installed, Delete
<1>3. CASE borrowBoot
  <2>1. CASE MainBorrow \/ MainReceive \/ MainBorrowFails
    BY Zenon, <2>1 DEF MainBorrow, MainReceive, MainBorrowFails, bootVars
  <2>2. CASE MainBorrowed
    <3>1. main \in DOMAIN AfterBorrow
      BY Zenon, <2>2 DEF MainBorrowed, Borrowed, MainInv
    <3> QED BY Zenon, <2>2, <3>1, Borrowing DEF MainBorrowed
  <2> QED BY Zenon, <1>3, <2>1, <2>2 DEF borrowBoot
<1>4. CASE quietRun
  <2>1. CASE Watch \/ StartListeners \/ ForceSave \/ Saved \/ Tick
    BY Zenon, <2>1 DEF Watch, StartListeners, ForceSave, Saved, Tick,
       CleanupTick, SnapshotTick, SleepTick
  <2>2. CASE Write \/ Outside
    BY Zenon, <2>2 DEF Write, Outside, Listed, JetStreamReady, OtherNode,
       bootVars
  <2>3. ASSUME NEW s, ListenReturns(s) \/ ReceiveError(s) \/ PublishTriggers(s)
        PROVE  main' = main
    BY Zenon, <2>3 DEF ListenReturns, ReceiveError, PublishTriggers, bootVars
  <2>4. ASSUME NEW k, Saving(k) PROVE main' = main
    BY Zenon, <2>4 DEF Saving, Lease, TryLock, Backup, Upload, SaveStep,
       bootVars
  <2> QED BY Zenon, <1>4, <2>1, <2>2, <2>3, <2>4 DEF quietRun
<1>5. ASSUME NEW u \in Users, UserBorrow(u) \/ UserStep(u) PROVE main' = main
  BY Zenon, <1>5 DEF UserBorrow, UserStep, UserReceive, UserBorrowed,
     UserReturn, bootVars
<1>6. CASE UNCHANGED vars BY Zenon, <1>6 DEF vars, bootVars
<1> QED BY Zenon, <1>2, <1>3, <1>4, <1>5, <1>6, Cases

\* quietBoot stays within the start.
LEMMA QuietBootStarts ==
    ASSUME quietBoot, ended' = "no"
    PROVE  /\ main  \notin LoopSteps \cup {"installed", "listeners", "forced"}
           /\ main' \notin LoopSteps \cup {"installed", "listeners", "forced"}
<1> USE DEF LoopSteps, At, Goto, End, GotoOrEnd
<1>1. CASE Load \/ NewSnapshotStorage \/ Connect \/ Reconnect
           \/ DialAgain \/ Dial \/ Discover \/ CheckpointBusy
  BY Zenon, <1>1 DEF Load, NewSnapshotStorage, Connect, Reconnect, Connected,
     DialAgain, Dial, Discover, CheckpointBusy
<1>2. CASE StartEmbeddedServer \/ PrepareConnection \/ NextStream \/ StreamsReady
  BY Zenon, <1>2 DEF StartEmbeddedServer, PrepareConnection, Connected,
     NextStream, StreamsReady
<1>3. CASE StreamInfo \/ AddStream \/ CompareStream
  BY Zenon, <1>3 DEF StreamInfo, AddStream, CompareStream
<1>4. CASE Flag \/ RestoreSnapshot \/ GetAllDBTables \/ Schema \/ NextTable
  BY Zenon, <1>4 DEF Flag, RestoreSnapshot, GetAllDBTables, Schema, NextTable
<1> QED BY Zenon, <1>1, <1>2, <1>3, <1>4 DEF quietBoot

\* The loop over the shards.
LEMMA TodoStep ==
    ASSUME MainInv, StartInv, [Next]_vars, ended' = "no"
    PROVE  /\ main' \in {"streams", "info", "add", "compare"} => todo' \subseteq Shards
           /\ main' \in {"info", "add", "compare"} => todo' # {}
<1> USE DEF StartInv
<1>1. CASE quietBoot
  <2> USE DEF At, Goto, End, GotoOrEnd, connect
  <2>1. CASE Load \/ NewSnapshotStorage \/ Connect \/ Reconnect
             \/ DialAgain \/ Dial \/ Discover \/ CheckpointBusy
    BY Zenon, <2>1 DEF Load, NewSnapshotStorage, Connect, Reconnect, Connected,
       DialAgain, Dial, Discover, CheckpointBusy
  <2>2. CASE StartEmbeddedServer \/ PrepareConnection \/ NextStream \/ StreamsReady
    BY Zenon, <2>2 DEF StartEmbeddedServer, PrepareConnection, Connected,
       NextStream, StreamsReady
  <2>3. CASE StreamInfo \/ AddStream \/ CompareStream
    BY Zenon, <2>3 DEF StreamInfo, AddStream, CompareStream
  <2>4. CASE Flag \/ RestoreSnapshot \/ GetAllDBTables \/ Schema \/ NextTable
    BY Zenon, <2>4 DEF Flag, RestoreSnapshot, GetAllDBTables, Schema, NextTable
  <2> QED BY Zenon, <1>1, <2>1, <2>2, <2>3, <2>4 DEF quietBoot
<1>2. CASE GlobalScript \/ TriggerScript
  BY Zenon, <1>2 DEF GlobalScript, TriggerScript, Goto, End, GotoOrEnd
<1>3. CASE Outside
  BY Zenon, <1>3 DEF Outside, Listed, JetStreamReady, OtherNode
<1>4. CASE MainGoes /\ UNCHANGED connect
  BY Zenon, <1>4, Borrowing DEF MainGoes, connect, LoopSteps
<1> QED BY Zenon, <1>1, <1>2, <1>3, <1>4, ConnectKept, MainGoesOn

\* A step of main before the loop leaves the other goroutines alone, and a step
\* that main does not take leaves main alone.
LEMMA Kinds ==
    ASSUME [Next]_vars
    PROVE  \/ UNCHANGED runVars
           \/ Watch \/ StartListeners
           \/ ForceSave \/ Tick
           \/ Write
           \/ \E u \in Users : UserBorrow(u) \/ UserBorrowed(u) \/ UserReturn(u)
           \/ \E s \in Shards : ListenReturns(s)
           \/ \E k \in Goroutines : PublishTriggers(k)
           \/ \E k \in Savers : Saving(k)
<1>1. CASE quietRun
  BY Zenon, <1>1 DEF quietRun, Saved, ReceiveError
<1>2. CASE Installed \/ Delete BY Zenon, <1>2 DEF Installed, Delete
<1>3. ASSUME NEW u \in Users, UserReceive(u) PROVE UNCHANGED runVars
  BY Zenon, <1>3 DEF UserReceive
<1>4. CASE UNCHANGED vars BY Zenon, <1>4 DEF vars
<1> QED BY Zenon, <1>1, <1>2, <1>3, <1>4, Cases DEF UserStep

LEMMA StepTypes ==
    ASSUME StepOK, [Next]_vars
    PROVE  StepOK'
<1> USE DEF StepOK
<1>1. Watcher \in Users /\ Shards \subseteq Users BY Zenon DEF Users
<1>2. CASE UNCHANGED runVars BY Zenon, <1>2 DEF runVars
<1>3. CASE Watch BY Zenon, <1>1, <1>3 DEF Watch, Step
<1>4. CASE StartListeners BY Zenon, <1>4 DEF StartListeners
<1>5. CASE ForceSave \/ Tick \/ Write
  BY Zenon, <1>5 DEF ForceSave, Tick, CleanupTick, SnapshotTick, SleepTick,
     Write, runVars
<1>6. ASSUME NEW u \in Users, UserBorrow(u) \/ UserBorrowed(u) \/ UserReturn(u)
      PROVE  StepOK'
  BY Zenon, <1>6 DEF UserBorrow, UserBorrowed, UserReturn, Finish, Step
<1>7. ASSUME NEW s \in Shards, ListenReturns(s) PROVE StepOK'
  BY Zenon, <1>1, <1>7 DEF ListenReturns, Step
<1>8. ASSUME NEW k, PublishTriggers(k) \/ Saving(k) PROVE StepOK'
  BY Zenon, <1>8 DEF PublishTriggers, Saving, Lease, TryLock, Backup, Upload,
     SaveStep
<1> QED BY Zenon, <1>2, <1>3, <1>4, <1>5, <1>6, <1>7, <1>8, Kinds

\* The steps of the pool in these terms.
LEMMA Others ==
    ASSUME PoolInv, [Next]_vars, NEW u \in Users,
           ~(UserBorrow(u) \/ UserStep(u))
    PROVE  (Busy(u)' => Busy(u)) /\ held'[u] = held[u]
<1>0. Main \in Threads /\ Users \subseteq Threads /\ Main \notin Users
  BY Zenon, ProcessAssumption, StartupAssumption
<1>1. CASE quietBoot \/ quietRun \/ UNCHANGED vars
  <2>1. UNCHANGED poolVars BY Zenon, <1>1, QuietBoot, QuietRun DEF vars
  <2> QED BY Zenon, <2>1, QuietKept
<1>2. CASE returnBoot \/ borrowBoot \/ Installed \/ Delete
  <2>1. PoolStep(Main)
    BY Zenon, <1>2, ReturnBoot, BorrowBoot DEF Installed, Delete, PoolStep
  <2> QED BY Zenon, <2>1, <1>0, OthersKept
<1>3. ASSUME NEW v \in Users, UserBorrow(v) \/ UserStep(v)
      PROVE  (Busy(u)' => Busy(u)) /\ held'[u] = held[u]
  <2>1. PoolStep(v)
    BY Zenon, <1>3 DEF UserBorrow, UserStep, UserReceive, UserBorrowed,
       UserReturn, PoolStep
  <2>2. v # u BY Zenon, <1>3
  <2> QED BY Zenon, <2>1, <2>2, <1>0, OthersKept
<1> QED BY Zenon, <1>1, <1>2, <1>3, Cases

LEMMA UserInvStep ==
    ASSUME PoolInv, StepOK, StartInv, [Next]_vars,
           NEW u \in Users, UserInv(u)
    PROVE  UserInv(u)'
<1>0. u \in Threads /\ Watcher \in Users BY Zenon, ProcessAssumption DEF Users
<1>a. /\ Busy(u) => step[u] = "borrow"
      /\ step[u] # "use" => held[u] = {}
      /\ \A c, d \in held[u] : c = d
  BY Zenon DEF UserInv, Busy
<1> SUFFICES /\ Busy(u)' => step'[u] = "borrow"
             /\ step'[u] # "use" => held'[u] = {}
             /\ \A c, d \in held'[u] : c = d
  BY Zenon DEF UserInv, Busy, Waits
<1>1. CASE UserBorrow(u)
  <2>1. held' = held /\ step[u] = "idle" /\ step'[u] = "borrow"
    BY Zenon, <1>0, <1>1, OwnKept DEF UserBorrow, Step, StepOK
  <2> QED BY Zenon, <1>a, <2>1
<1>2. CASE UserReceive(u)
  <2>1. Busy(u) /\ held' = held /\ step' = step
    BY Zenon, <1>0, <1>2, OwnKept DEF UserReceive, runVars
  <2> QED BY Zenon, <1>a, <2>1
<1>3. CASE UserBorrowed(u)
  <2>1. CASE Borrowed(u) /\ Step(u, "use")
    <3>1. Busy(u) /\ ~Busy(u)' /\ held'[u] = held[u] \cup {taken[u]}
      BY Zenon, <1>0, <2>1, OwnKept
    <3>2. step'[u] = "use" BY Zenon, <2>1 DEF Step, StepOK
    <3> QED BY Zenon, <1>a, <3>1, <3>2
  <2>2. CASE BorrowFails(u)
    <3>1. Busy(u) /\ ~Busy(u)' /\ held' = held BY Zenon, <1>0, <2>2, OwnKept
    <3> QED BY Zenon, <1>a, <3>1
  <2> QED BY Zenon, <1>3, <2>1, <2>2 DEF UserBorrowed
<1>4. CASE UserReturn(u)
  <2>1. Busy(u)' => Busy(u) BY Zenon, <1>0, <1>4, OwnKept DEF UserReturn
  <2>2. PICK c \in held[u] : held'[u] = held[u] \ {c}
    BY Zenon, <1>0, <1>4, OwnKept DEF UserReturn
  <2>3. step[u] = "use" BY Zenon, <1>4 DEF UserReturn
  <2> QED BY Zenon, <1>a, <2>1, <2>2, <2>3
<1>5. CASE ~(UserBorrow(u) \/ UserStep(u))
  <2>1. (Busy(u)' => Busy(u)) /\ held'[u] = held[u] BY Zenon, <1>5, Others
  <2> SUFFICES \/ step'[u] = step[u]
               \/ step[u] \in {"off", "idle"} /\ step'[u] # "use"
    BY Zenon, <1>a, <2>1
  <2>2. CASE UNCHANGED runVars BY Zenon, <2>2 DEF runVars
  <2>3. CASE Watch
    <3>1. step[Watcher] = "off"
      BY Zenon, <2>3 DEF Watch, At, StartInv, LoopSteps
    <3>2. step' = step \/ step' = [step EXCEPT ![Watcher] = "idle"]
      BY Zenon, <2>3 DEF Watch, Step
    <3> QED BY Zenon, <3>1, <3>2, <1>0 DEF StepOK
  <2>4. CASE StartListeners
    <3>1. \A s \in Shards : step[s] = "off"
      BY Zenon, <2>4 DEF StartListeners, At, StartInv, LoopSteps
    <3>2. step'[u] = IF u \in Shards THEN "idle" ELSE step[u]
      BY Zenon, <2>4 DEF StartListeners
    <3> QED BY Zenon, <3>1, <3>2
  <2>5. CASE ForceSave \/ Tick \/ Write
    BY Zenon, <2>5 DEF ForceSave, Tick, CleanupTick, SnapshotTick, SleepTick,
       Write, runVars
  <2>6. ASSUME NEW v \in Users, UserBorrow(v) \/ UserBorrowed(v) \/ UserReturn(v)
        PROVE  step'[u] = step[u]
    <3>1. v # u BY Zenon, <1>5, <2>6 DEF UserStep
    <3> QED BY Zenon, <3>1, <2>6 DEF UserBorrow, UserBorrowed, UserReturn,
               Finish, Step, StepOK
  <2>7. ASSUME NEW s \in Shards, ListenReturns(s)
        PROVE  \/ step'[u] = step[u]
               \/ step[u] \in {"off", "idle"} /\ step'[u] # "use"
    BY Zenon, <2>7 DEF ListenReturns, Step, StepOK, Users
  <2>8. ASSUME NEW k, PublishTriggers(k) \/ Saving(k) PROVE step' = step
    BY Zenon, <2>8 DEF PublishTriggers, Saving, Lease, TryLock, Backup, Upload,
       SaveStep
  <2> QED BY Zenon, <2>2, <2>3, <2>4, <2>5, <2>6, <2>7, <2>8, Kinds
<1> QED BY Zenon, <1>1, <1>2, <1>3, <1>4, <1>5 DEF UserStep

\* A goroutine that was not started does not move.
LEMMA OffStays ==
    ASSUME StepOK, [Next]_vars, ended' = "no",
           NEW u \in Users, UserInv(u), step[u] = "off",
           main' \notin LoopSteps,
           u = Watcher => main' # "installed"
    PROVE  step'[u] = "off"
<1>2. CASE UNCHANGED runVars BY Zenon, <1>2 DEF runVars
<1>3. CASE Watch
  <2>1. main' = "installed" /\ step' = [step EXCEPT ![Watcher] = "idle"]
    BY Zenon, <1>3 DEF Watch, At, Goto, End, Step
  <2> QED BY Zenon, <2>1 DEF StepOK
<1>4. CASE StartListeners BY Zenon, <1>4 DEF StartListeners, Goto, LoopSteps
<1>5. CASE ForceSave \/ Tick \/ Write
  BY Zenon, <1>5 DEF ForceSave, Tick, CleanupTick, SnapshotTick, SleepTick,
     Write, runVars
<1>6. ASSUME NEW v \in Users, UserBorrow(v) \/ UserBorrowed(v) \/ UserReturn(v)
      PROVE  step'[u] = "off"
  <2>1. v # u
    BY Zenon, <1>6 DEF UserBorrow, UserBorrowed, UserReturn, Borrowed,
       BorrowFails, UserInv
  <2> QED BY Zenon, <2>1, <1>6 DEF UserBorrow, UserBorrowed, UserReturn, Finish,
             Step, StepOK
<1>7. ASSUME NEW s \in Shards, ListenReturns(s) PROVE step'[u] = "off"
  BY Zenon, <1>7 DEF ListenReturns, Step, StepOK
<1>8. ASSUME NEW k, PublishTriggers(k) \/ Saving(k) PROVE step' = step
  BY Zenon, <1>8 DEF PublishTriggers, Saving, Lease, TryLock, Backup, Upload,
     SaveStep
<1> QED BY Zenon, <1>2, <1>3, <1>4, <1>5, <1>6, <1>7, <1>8, Kinds

\* SaveSnapshot, whoever calls it.
LEMMA SavingMoves ==
    ASSUME SaveOK, NEW k \in Savers, Saving(k)
    PROVE  /\ save[k] # "off"
           /\ save' = [save EXCEPT ![k] = save'[k]]
           /\ UNCHANGED <<bootVars, step, version, asleep>>
<1> USE DEF SaveOK, Saving, SaveStep, SaveEnds
<1>1. CASE Lease(k) BY Zenon, <1>1 DEF Lease
<1>2. CASE TryLock(k) BY Zenon, <1>2 DEF TryLock
<1>3. CASE Backup(k) BY Zenon, <1>3 DEF Backup
<1>4. CASE Upload(k) BY Zenon, <1>4 DEF Upload
<1> QED BY Zenon, <1>1, <1>2, <1>3, <1>4

LEMMA MainSaveStep ==
    ASSUME MainInv, SaveOK, [Next]_vars, ended' = "no",
           main \notin {"save", "sleep", "forced"} => save[Main] = "off"
    PROVE  main' \notin {"save", "sleep", "forced"} => save'[Main] = "off"
<1>0. Main \in Savers BY Zenon DEF Savers
<1>1. CASE UNCHANGED runVars
  <2>1. save' = save BY Zenon, <1>1 DEF runVars, saveVars
  <2>2. CASE quietBoot
    BY Zenon, <2>1, <2>2, QuietBootStarts DEF LoopSteps
  <2>3. CASE MainGoes /\ ~(main \in {"save", "sleep"})
    BY Zenon, <2>1, <2>3, Borrowing DEF MainGoes, TwoSteps, LoopSteps
  <2>4. CASE main \in {"save", "sleep"} /\ ~quietBoot
    <3>1. CASE Saved BY Zenon, <2>1, <3>1 DEF Saved
    <3>2. CASE main' = main BY Zenon, <3>2, <2>4
    <3> SUFFICES Saved \/ main' = main BY Zenon, <3>1, <3>2
    <3>3. CASE returnBoot \/ borrowBoot \/ Installed \/ Delete
      <4>1. CASE returnBoot \/ Installed \/ Delete
        BY Zenon, <2>4, <4>1 DEF returnBoot, Checkpoint, RemoveCDC,
           GlobalScript, TriggerScript, Installed, Delete, At
      <4>2. CASE borrowBoot
        BY Zenon, <2>4, <4>2, Borrowing DEF borrowBoot, MainBorrow, MainReceive,
           MainBorrowed, MainBorrowFails, Borrowed, BorrowFails, MainInv, bootVars,
           Goto, End
      <4> QED BY Zenon, <3>3, <4>1, <4>2
    <3>4. CASE quietRun
      <4>1. CASE Watch \/ StartListeners \/ ForceSave \/ Tick
        BY Zenon, <2>4, <4>1 DEF Watch, StartListeners, ForceSave, Tick,
           CleanupTick, SnapshotTick, SleepTick, At
      <4>2. CASE Write \/ Outside
        BY Zenon, <4>2 DEF Write, Outside, Listed, JetStreamReady, OtherNode,
           bootVars
      <4>3. ASSUME NEW s, ListenReturns(s) \/ ReceiveError(s) \/ PublishTriggers(s)
            PROVE  main' = main
        BY Zenon, <4>3 DEF ListenReturns, ReceiveError, PublishTriggers,
           bootVars, End
      <4>4. ASSUME NEW k, Saving(k) PROVE main' = main
        BY Zenon, <4>4 DEF Saving, Lease, TryLock, Backup, Upload, SaveStep,
           bootVars
      <4> QED BY Zenon, <3>4, <4>1, <4>2, <4>3, <4>4 DEF quietRun
    <3>5. ASSUME NEW u \in Users, UserBorrow(u) \/ UserStep(u) PROVE main' = main
      BY Zenon, <3>5 DEF UserBorrow, UserStep, UserReceive, UserBorrowed,
         UserReturn, bootVars
    <3>6. CASE UNCHANGED vars BY Zenon, <3>6 DEF vars, bootVars
    <3> QED BY Zenon, <2>4, <3>3, <3>4, <3>5, <3>6, Cases
  <2> QED BY Zenon, <2>2, <2>3, <2>4, MainGoesOn
<1>2. CASE Watch \/ StartListeners \/ Write
  BY Zenon, <1>2 DEF Watch, StartListeners, Write, saveVars, At, Goto, bootVars
<1>3. CASE ForceSave \/ Tick
  BY Zenon, <1>3 DEF ForceSave, Tick, CleanupTick, SnapshotTick, SleepTick, At,
     Goto, End, runVars, saveVars
<1>4. ASSUME NEW u \in Users, UserBorrow(u) \/ UserBorrowed(u) \/ UserReturn(u)
      PROVE  save' = save /\ main' = main
  BY Zenon, <1>4 DEF UserBorrow, UserBorrowed, UserReturn, saveVars, bootVars
<1>5. ASSUME NEW s \in Shards, ListenReturns(s) PROVE save' = save /\ main' = main
  BY Zenon, <1>5 DEF ListenReturns, saveVars, bootVars
<1>6. ASSUME NEW k \in Goroutines, PublishTriggers(k)
      PROVE  save'[Main] = save[Main] /\ main' = main
  BY Zenon, <1>0, <1>6, ProcessAssumption DEF PublishTriggers, bootVars, SaveOK
<1>7. ASSUME NEW k \in Savers, Saving(k)
      PROVE  main' = main /\ (save[Main] = "off" => save'[Main] = "off")
  <2>1. /\ save[k] # "off" /\ save' = [save EXCEPT ![k] = save'[k]]
        /\ main' = main
    BY Zenon, <1>7, SavingMoves DEF bootVars
  <2> QED BY Zenon, <2>1, <1>0 DEF SaveOK
<1> QED BY Zenon, <1>1, <1>2, <1>3, <1>4, <1>5, <1>6, <1>7, Kinds

LEMMA StartInvStep ==
    ASSUME MainInv, StepOK, SaveOK, StartInv, \A u \in Users : UserInv(u),
           [Next]_vars, ended' = "no"
    PROVE  StartInv'
<1>0. Watcher \in Users /\ Shards \subseteq Users /\ Watcher \notin Shards
  BY Zenon, ProcessAssumption DEF Users
<1>1. ASSUME main' \notin LoopSteps
      PROVE  main \notin LoopSteps
  BY Zenon, <1>1, MainGoesOn, QuietBootStarts, Borrowing DEF MainGoes,
     LoopSteps, TwoSteps
<1>2. ASSUME main' \notin LoopSteps \cup {"installed", "listeners"}
      PROVE  main \notin LoopSteps \cup {"installed", "listeners"}
  BY Zenon, <1>2, MainGoesOn, QuietBootStarts, Borrowing DEF MainGoes,
     LoopSteps, TwoSteps
<1>3. main' \notin LoopSteps \cup {"installed", "listeners"} => step'[Watcher] = "off"
  BY Zenon, <1>0, <1>2, OffStays DEF StartInv
<1>4. main' \notin LoopSteps => \A s \in Shards : step'[s] = "off"
  BY Zenon, <1>0, <1>1, OffStays DEF StartInv
<1>5. main' \notin {"save", "sleep", "forced"} => save'[Main] = "off"
  BY Zenon, MainSaveStep DEF StartInv
<1> QED BY Zenon, <1>3, <1>4, <1>5, TodoStep DEF StartInv

-----------------------------------------------------------------------------
(* Snapshots.                                                                 *)

\* Steps that change nothing about snapshots.
LEMMA SaveKinds ==
    ASSUME [Next]_vars
    PROVE  \/ UNCHANGED <<saveVars, version, asleep>>
           \/ ForceSave \/ SnapshotTick \/ SleepTick \/ Write
           \/ \E k \in Goroutines : PublishTriggers(k)
           \/ \E k \in Savers : Saving(k)
<1>1. CASE UNCHANGED runVars BY Zenon, <1>1 DEF runVars
<1>2. CASE Watch \/ StartListeners BY Zenon, <1>2 DEF Watch, StartListeners
<1>3. CASE Tick BY Zenon, <1>3 DEF Tick, CleanupTick, runVars
<1>4. ASSUME NEW u \in Users, UserBorrow(u) \/ UserBorrowed(u) \/ UserReturn(u)
      PROVE  UNCHANGED <<saveVars, version, asleep>>
  BY Zenon, <1>4 DEF UserBorrow, UserBorrowed, UserReturn
<1>5. ASSUME NEW s \in Shards, ListenReturns(s)
      PROVE  UNCHANGED <<saveVars, version, asleep>>
  BY Zenon, <1>5 DEF ListenReturns
<1> QED BY Zenon, <1>1, <1>2, <1>3, <1>4, <1>5, Kinds

\* What a SaveSnapshot call does in one step.
SaveGoes(k) ==
    \/ /\ save[k] = "lease"
       /\ save' = [save EXCEPT ![k] = "lock"]
       /\ UNCHANGED <<mutex, copy, stored, outcome>>
    \/ /\ save[k] = "lock" /\ mutex = {}
       /\ save' = [save EXCEPT ![k] = "backup"]
       /\ mutex' = {k}
       /\ UNCHANGED <<copy, stored, outcome>>
    \/ /\ save[k] = "backup"
       /\ save' = [save EXCEPT ![k] = "upload"]
       /\ copy' = [copy EXCEPT ![k] = version]
       /\ UNCHANGED <<mutex, stored, outcome>>
    \/ /\ save[k] = "upload" /\ stored' = copy[k] /\ SaveEnds(k, "ok")
    \/ stored' = stored /\ (SaveEnds(k, "error") \/ SaveEnds(k, "pending"))

LEMMA SavingGoes ==
    ASSUME NEW k, Saving(k)
    PROVE  SaveGoes(k) /\ version' = version /\ asleep' = asleep
BY Zenon DEF Saving, Lease, TryLock, Backup, Upload, SaveStep, SaveGoes

LEMMA SaveTypes ==
    ASSUME SaveOK, [Next]_vars
    PROVE  SaveOK'
<1> USE DEF SaveOK
<1>0. Main \in Savers /\ Goroutines \subseteq Savers BY Zenon DEF Savers
<1>1. CASE UNCHANGED <<saveVars, version, asleep>> BY Zenon, <1>1 DEF saveVars
<1>2. CASE ForceSave \/ SnapshotTick \/ SleepTick
  BY Zenon, <1>0, <1>2 DEF ForceSave, SnapshotTick, SleepTick
<1>3. CASE Write BY <1>3 DEF Write, saveVars
<1>4. ASSUME NEW k \in Goroutines, PublishTriggers(k) PROVE SaveOK'
  BY Zenon, <1>0, <1>4 DEF PublishTriggers
<1>5. ASSUME NEW k \in Savers, Saving(k) PROVE SaveOK'
  BY <1>5, SavingGoes DEF SaveGoes, SaveEnds
<1> QED BY Zenon, <1>1, <1>2, <1>3, <1>4, <1>5, SaveKinds

LEMMA SaveInvStep ==
    ASSUME SaveOK, SaveInv, Up => StartInv, [Next]_vars
    PROVE  SaveInv'
<1> USE DEF SaveOK
<1>0. Main \in Savers /\ Goroutines \subseteq Savers BY Zenon DEF Savers
<1>1. CASE UNCHANGED <<saveVars, version, asleep>>
  BY Zenon, <1>1 DEF saveVars, SaveInv
<1>2. CASE ForceSave \/ SnapshotTick \/ SleepTick
  <2>1. save[Main] = "off"
    BY Zenon, <1>2 DEF ForceSave, SnapshotTick, SleepTick, At, Up, StartInv
  <2>2. /\ save' = save \/ \E w \in {"lease", "lock"} : save' = [save EXCEPT ![Main] = w]
        /\ mutex' = mutex /\ copy' = copy /\ stored' = stored /\ version' = version
        /\ asleep' = asleep \/ asleep' = version
    BY Zenon, <1>2 DEF ForceSave, SnapshotTick, SleepTick
  <2> QED BY <1>0, <2>1, <2>2 DEF SaveInv
<1>3. CASE Write BY <1>3 DEF Write, saveVars, SaveInv
<1>4. ASSUME NEW k \in Goroutines, PublishTriggers(k) PROVE SaveInv'
  BY Zenon, <1>0, <1>4 DEF PublishTriggers, SaveInv
<1>5. ASSUME NEW k \in Savers, Saving(k) PROVE SaveInv'
  <2> USE DEF SaveInv, SaveEnds
  <2>0. SaveGoes(k) /\ version' = version /\ asleep' = asleep
    BY Zenon, <1>5, SavingGoes
  <2>1. \A j \in Savers : j \in mutex' <=> save'[j] \in {"backup", "upload"}
    BY Zenon, <2>0 DEF SaveGoes
  <2>2. \A i, j \in mutex' : i = j BY Zenon, <2>0 DEF SaveGoes
  <2>3. stored' <= version' /\ asleep' <= version'
    BY ZenonT(40), <2>0 DEF SaveGoes
  <2>4. ASSUME NEW j \in Savers, save'[j] = "upload"
        PROVE  stored' <= copy'[j] /\ copy'[j] <= version'
    <3>1. CASE j = k BY <2>0, <2>4, <3>1 DEF SaveGoes
    <3>2. CASE j # k
      <4>1. save[j] = "upload" /\ copy'[j] = copy[j]
        BY Zenon, <2>0, <2>4, <3>2 DEF SaveGoes
      <4>2. j \in mutex BY Zenon, <4>1
      <4>3. k \notin mutex BY Zenon, <4>2, <3>2
      <4>4. save[k] # "upload" BY Zenon, <4>3
      <4>5. stored' = stored BY Zenon, <2>0, <4>4 DEF SaveGoes
      <4> QED BY Zenon, <4>1, <4>5, <2>0
    <3> QED BY Zenon, <3>1, <3>2
  <2> QED BY Zenon, <2>1, <2>2, <2>3, <2>4
<1> QED BY Zenon, <1>1, <1>2, <1>3, <1>4, <1>5, SaveKinds

\* What is stored is never replaced by something older.
LEMMA StoredGrows ==
    ASSUME SaveOK, SaveInv, [Next]_vars
    PROVE  stored' >= stored
<1> USE DEF SaveOK
<1>1. CASE UNCHANGED <<saveVars, version, asleep>> BY <1>1 DEF saveVars
<1>2. CASE ForceSave \/ SnapshotTick \/ SleepTick \/ Write
  BY <1>2 DEF ForceSave, SnapshotTick, SleepTick, Write, saveVars
<1>3. ASSUME NEW k, PublishTriggers(k) PROVE stored' = stored
  BY Zenon, <1>3 DEF PublishTriggers
<1>4. ASSUME NEW k \in Savers, Saving(k) PROVE stored' >= stored
  BY <1>4, SavingGoes DEF SaveGoes, SaveInv
<1> QED BY <1>1, <1>2, <1>3, <1>4, SaveKinds

\* The process exits only from the select loop, when the sleep timeout came.
LEMMA Exits ==
    ASSUME [Next]_vars, ended' = "exit"
    PROVE  SleepTick \/ Saved \/ UNCHANGED vars
<1> USE DEF At, Goto, End, GotoOrEnd, bootVars
<1>0. CASE Up
  <2> USE DEF Up
  <2>1. ~quietBoot
    <3>1. ~(Load \/ NewSnapshotStorage \/ Connect \/ Reconnect
            \/ DialAgain \/ Dial \/ Discover \/ CheckpointBusy)
      BY Zenon, <1>0 DEF Load, NewSnapshotStorage, Connect, Reconnect,
         Connected, DialAgain, Dial, Discover, CheckpointBusy
    <3>2. ~(StartEmbeddedServer \/ PrepareConnection \/ NextStream \/ StreamsReady)
      BY Zenon, <1>0 DEF StartEmbeddedServer, PrepareConnection, Connected,
         NextStream, StreamsReady
    <3>3. ~(StreamInfo \/ AddStream \/ CompareStream)
      BY Zenon, <1>0 DEF StreamInfo, AddStream, CompareStream
    <3>4. ~(Flag \/ RestoreSnapshot \/ GetAllDBTables \/ Schema \/ NextTable)
      BY Zenon, <1>0 DEF Flag, RestoreSnapshot, GetAllDBTables, Schema,
         NextTable
    <3> QED BY Zenon, <3>1, <3>2, <3>3, <3>4 DEF quietBoot
  <2>2. ~(returnBoot \/ borrowBoot \/ Installed \/ Delete)
    BY Zenon, <1>0 DEF returnBoot, Checkpoint, RemoveCDC, GlobalScript,
       TriggerScript, borrowBoot, MainBorrow, MainReceive, MainBorrowed,
       MainBorrowFails, Installed, Delete
  <2>3. quietRun => SleepTick \/ Saved
    <3>1. ~(Watch \/ StartListeners \/ ForceSave \/ CleanupTick \/ SnapshotTick)
      BY Zenon, <1>0 DEF Watch, StartListeners, ForceSave, CleanupTick,
         SnapshotTick
    <3>2. ~(Write \/ Outside)
      BY Zenon, <1>0 DEF Write, Outside, Listed, JetStreamReady, OtherNode
    <3>3. \A k : ~(ListenReturns(k) \/ ReceiveError(k) \/ PublishTriggers(k))
      BY Zenon, <1>0 DEF ListenReturns, ReceiveError, PublishTriggers
    <3>4. \A k : ~Saving(k)
      BY Zenon, <1>0 DEF Saving, Lease, TryLock, Backup, Upload, SaveStep
    <3> QED BY Zenon, <3>1, <3>2, <3>3, <3>4 DEF quietRun, Tick
  <2>4. \A u : ~(UserBorrow(u) \/ UserStep(u))
    BY Zenon, <1>0 DEF UserBorrow, UserStep, UserReceive, UserBorrowed,
       UserReturn
  <2> QED BY Zenon, <2>1, <2>2, <2>3, <2>4, Cases
<1> QED BY Zenon, <1>0, NextUp

LEMMA SleepInvStep ==
    ASSUME SaveOK, SaveInv, SleepInv, Up => MainInv /\ StartInv, [Next]_vars
    PROVE  SleepInv'
<1> USE DEF SaveOK
<1>0. Main \in Savers BY Zenon DEF Savers
<1>1. SleepSaves'
  <2> SUFFICES ASSUME ended' = "exit", SnapshotEnable, Publish, outcome' = "ok"
               PROVE  stored' >= asleep'
    BY Zenon DEF SleepSaves
  <2>1. CASE UNCHANGED vars
    BY Zenon, <2>1 DEF vars, bootVars, runVars, saveVars, SleepInv, SleepSaves
  <2>2. CASE SleepTick BY Zenon, <2>2 DEF SleepTick, Goto, At
  <2>3. CASE Saved
    <3>1. main = "sleep" /\ Up /\ save[Main] = "off"
      BY Zenon, <2>3 DEF Saved, Goto, End, Up
    <3>2. stored' = stored /\ asleep' = asleep /\ outcome' = outcome
      BY Zenon, <2>3 DEF Saved, runVars, saveVars
    <3> QED BY Zenon, <3>1, <3>2 DEF SleepInv
  <2> QED BY Zenon, <2>1, <2>2, <2>3, Exits
<1>2. ASSUME main' = "sleep", ended' = "no"
      PROVE  /\ save'[Main] = "upload" => copy'[Main] >= asleep'
             /\ save'[Main] = "off" /\ outcome' = "ok" => stored' >= asleep'
  <2>1. CASE SleepTick
    <3>1. save'[Main] = "lock"
      <4>1. main = "select" BY Zenon, <2>1 DEF SleepTick, At
      <4>2. save' = [save EXCEPT ![Main] = "lock"]
        BY Zenon, <1>2, <2>1, <4>1 DEF SleepTick, Goto, End
      <4> QED BY Zenon, <1>0, <4>2
    <3> QED BY Zenon, <3>1
  <2>2. CASE ~SleepTick
    <3>1. Up BY Zenon, <1>2, NextUp DEF Up, vars, bootVars
    <3>2. main = "sleep"
      BY Zenon, <1>2, <2>2, <3>1, MainGoesOn, QuietBootStarts, Borrowing
         DEF MainGoes, LoopSteps
    <3>3. /\ save[Main] = "upload" => copy[Main] >= asleep
          /\ save[Main] = "off" /\ outcome = "ok" => stored >= asleep
      BY Zenon, <3>1, <3>2 DEF SleepInv
    <3>4. CASE UNCHANGED <<saveVars, version, asleep>>
      BY Zenon, <3>3, <3>4 DEF saveVars
    <3>5. CASE ForceSave \/ SnapshotTick
      BY Zenon, <3>2, <3>5 DEF ForceSave, SnapshotTick, At
    <3>6. CASE Write BY Zenon, <3>3, <3>6 DEF Write, saveVars
    <3>7. ASSUME NEW k \in Goroutines, PublishTriggers(k)
          PROVE  /\ save'[Main] = save[Main] /\ copy' = copy /\ asleep' = asleep
                 /\ stored' = stored /\ outcome' = outcome
      BY Zenon, <1>0, <3>7, ProcessAssumption DEF PublishTriggers
    <3>8. ASSUME NEW k \in Savers, Saving(k)
          PROVE  /\ save'[Main] = "upload" => copy'[Main] >= asleep'
                 /\ save'[Main] = "off" /\ outcome' = "ok" => stored' >= asleep'
      <4>1. SaveGoes(k) /\ version' = version /\ asleep' = asleep
        BY Zenon, <3>8, SavingGoes
      <4>2. CASE k = Main
        BY Zenon, <1>0, <3>3, <4>1, <4>2 DEF SaveGoes, SaveEnds, SaveInv
      <4>3. CASE k # Main
        <5>1. stored' >= stored BY Zenon, StoredGrows
        <5>2. /\ save'[Main] = save[Main] /\ copy'[Main] = copy[Main]
              /\ outcome' = outcome
          BY Zenon, <1>0, <4>1, <4>3 DEF SaveGoes, SaveEnds
        <5>3. stored' \in Nat BY Zenon, SaveTypes
        <5> QED BY <3>3, <4>1, <5>1, <5>2, <5>3
      <4> QED BY Zenon, <4>2, <4>3
    <3> QED BY Zenon, <2>2, <3>3, <3>4, <3>5, <3>6, <3>7, <3>8, SaveKinds
  <2> QED BY Zenon, <2>1, <2>2
<1> QED BY Zenon, <1>1, <1>2 DEF SleepInv, Up

-----------------------------------------------------------------------------
(* The inductive invariant and the theorems.                                  *)

LEMMA IndInvInit == Init => IndInv
<1> SUFFICES ASSUME Init PROVE IndInv BY Zenon
<1> USE DEF Init, StartupInit
<1>0. /\ Main \in Threads /\ Users \subseteq Threads /\ Main \in Savers
      /\ ConnectRetries \in Nat /\ Peers \in Nat /\ Watcher \in Users
      /\ Shards \subseteq Users
  BY Zenon, ProcessAssumption, StartupAssumption DEF Users, Savers
<1>1. PoolInv BY Zenon, PoolInvInit
<1>2. BootOK BY <1>0 DEF BootOK, MainSteps
<1>3. StepOK /\ SaveOK BY Zenon DEF StepOK, SaveOK
<1>4. TypeOK BY Zenon, <1>1, <1>2, <1>3, TypeParts DEF PoolInv
<1>5. \A t \in Threads : ~Waits(t) /\ taken[t] = 0 /\ held[t] = {}
  BY DEF PoolInit, Waits
<1>6. MainInv BY Zenon, <1>0, <1>5 DEF MainInv, OneSteps, TwoSteps
<1>7. StartInv BY Zenon, <1>0 DEF StartInv
<1>8. \A u \in Users : UserInv(u) BY Zenon, <1>0, <1>5 DEF UserInv
<1>9. SaveInv BY DEF SaveInv
<1>10. SleepInv BY Zenon DEF SleepInv, SleepSaves
<1> QED BY Zenon, <1>1, <1>4, <1>6, <1>7, <1>8, <1>9, <1>10 DEF IndInv

LEMMA IndInvStep == IndInv /\ [Next]_vars => IndInv'
<1> SUFFICES ASSUME IndInv, [Next]_vars PROVE IndInv' BY Zenon
<1>1. /\ PoolInv /\ BootOK /\ StepOK /\ SaveOK /\ SaveInv /\ SleepInv
      /\ Up => MainInv /\ StartInv /\ \A u \in Users : UserInv(u)
  BY Zenon, TypeParts DEF IndInv
<1>2. PoolInv' BY Zenon, <1>1, PoolSteps, PoolInvStep
<1>3. StepOK' /\ SaveOK' BY Zenon, <1>1, StepTypes, SaveTypes
<1>4. BootOK'
  <2>1. CASE Up BY Zenon, <1>1, <2>1, BootTypes
  <2>2. CASE ~Up
    <3>1. UNCHANGED vars BY Zenon, <2>2, NextUp
    <3> QED BY Zenon, <1>1, <3>1 DEF vars, bootVars, BootOK
  <2> QED BY Zenon, <2>1, <2>2
<1>5. ASSUME Up'
      PROVE  MainInv' /\ StartInv' /\ \A u \in Users : UserInv(u)'
  <2>1. ended' = "no" /\ Up BY Zenon, <1>5, NextUp DEF Up, vars, bootVars
  <2>2. MainInv' BY Zenon, <1>1, <2>1, MainInvStep
  <2>3. StartInv' BY Zenon, <1>1, <2>1, StartInvStep
  <2>4. \A u \in Users : UserInv(u)' BY Zenon, <1>1, <2>1, UserInvStep
  <2> QED BY Zenon, <2>2, <2>3, <2>4
<1>6. SaveInv' BY Zenon, <1>1, SaveInvStep
<1>7. SleepInv' BY Zenon, <1>1, SleepInvStep
<1>8. TypeOK' BY Zenon, <1>2, <1>3, <1>4, TypeParts DEF PoolInv
<1> QED BY Zenon, <1>2, <1>5, <1>6, <1>7, <1>8 DEF IndInv

\* Of the first two connections, neither of which is free, one has a holder
\* that does not wait: a goroutine waits with empty hands, and main with at
\* most one connection.
LEMMA SomeoneReturns == IndInv => NoCircularWait
<1> SUFFICES ASSUME IndInv, Up, connections = <<>>,
                    \A t \in Threads : Waits(t) \/ \A c \in Connections : ~Has(t, c)
             PROVE  FALSE
  BY Zenon DEF NoCircularWait
<1>0. /\ PoolSize \in Nat /\ PoolSize >= 2 /\ Threads = {Main} \cup Users
  BY ProcessAssumption, PoolAssumption
<1>1. 1 \in Connections /\ 2 \in Connections BY <1>0 DEF Connections
<1>2. /\ PoolTypeOK /\ WaitsOnce /\ PoolConserved /\ MainInv
      /\ \A u \in Users : UserInv(u)
  BY Zenon DEF IndInv, PoolInv
<1>3. ASSUME NEW c \in Connections PROVE Waits(Main) /\ c \in held[Main]
  <2>1. ~Free(c) BY DEF Free
  <2>2. PICK t \in Threads : Has(t, c) BY Zenon, <1>2, <2>1 DEF PoolConserved
  <2>3. Waits(t) /\ taken[t] = 0 BY Zenon, <2>2, <1>2 DEF WaitsOnce
  <2>4. c # 0 BY <1>0 DEF Connections
  <2>5. c \in held[t] BY Zenon, <2>2, <2>3, <2>4 DEF Has
  <2>6. t \notin Users BY Zenon, <1>2, <2>3, <2>5 DEF UserInv
  <2> QED BY Zenon, <1>0, <2>3, <2>5, <2>6
<1>4. 1 \in held[Main] /\ 2 \in held[Main] /\ Waits(Main) BY Zenon, <1>1, <1>3
<1>5. main \in DOMAIN AfterBorrow BY Zenon, <1>2, <1>4 DEF MainInv
<1>6. main \notin TwoSteps BY Zenon, <1>5, Borrowing DEF TwoSteps
<1>7. \A c, d \in held[Main] : c = d BY Zenon, <1>2, <1>6 DEF MainInv
<1>8. 1 = 2 BY Zenon, <1>4, <1>7
<1> QED BY <1>8

LEMMA Inductive == Spec => []IndInv
BY IndInvInit, IndInvStep, PTL DEF Spec

\* Every variable keeps its type, whatever the process does.
THEOREM TypeCorrect == Spec => []TypeOK
<1>1. IndInv => TypeOK BY Zenon DEF IndInv
<1> QED BY <1>1, Inductive, PTL

\* The pool of two or more connections cannot be exhausted by threads that all
\* wait for another one, although InstallCDC borrows while it holds.
THEOREM NoDeadlock == Spec => []NoCircularWait
BY SomeoneReturns, Inductive, PTL

\* The snapshots of one process are stored in the order they were taken,
\* however many calls of SaveSnapshot run at the same time.
THEOREM StoredInOrder == Spec => SnapshotsInOrder
<1>1. IndInv /\ [Next]_vars => stored' >= stored
  BY Zenon, TypeParts, StoredGrows DEF IndInv
<1>2. IndInv /\ [Next]_vars => [stored' >= stored]_vars BY Zenon, <1>1
<1> QED BY <1>2, Inductive, PTL DEF Spec, SnapshotsInOrder

\* A process that slept without an error of its last snapshot left everything
\* committed before the timeout in the storage.
THEOREM SleepLeavesASnapshot == Spec => []SleepSaves
<1>1. IndInv => SleepSaves BY Zenon DEF IndInv, SleepInv
<1> QED BY <1>1, Inductive, PTL

-----------------------------------------------------------------------------
(* What the start opens.                                                      *)

\* Where main is before it starts the watcher.
Starting == main \notin LoopSteps \cup {"installed", "listeners"}

\* The order of the channel, and the connection main received from it.
InOrder(q, o) == \A i, j \in 1..Len(q) : i < j /\ q[i] \in o => q[j] \in o
AllIn(q, o)   == \A i \in 1..Len(q) : q[i] \in o

LEMMA OrderFacts ==
    ASSUME NEW q \in Seq(Connections), NEW o, InOrder(q, o)
    PROVE  /\ \A c \in o \cap Connections :
                 /\ InOrder(Append(q, c), o)
                 /\ AllIn(q, o) => AllIn(Append(q, c), o)
           /\ q # <<>> => /\ InOrder(Tail(q), o)
                          /\ Head(q) \in o => AllIn(Tail(q), o)
<1>1. ASSUME NEW c \in o \cap Connections
      PROVE  /\ InOrder(Append(q, c), o)
             /\ AllIn(q, o) => AllIn(Append(q, c), o)
  <2> DEFINE r == Append(q, c)
  <2>1. /\ Len(q) \in Nat /\ Len(r) = Len(q) + 1 /\ r[Len(q) + 1] = c
        /\ \A i \in 1..Len(q) : r[i] = q[i]
    BY QueueFacts
  <2> HIDE DEF r
  <2>2. InOrder(r, o) BY <2>1 DEF InOrder
  <2>3. AllIn(q, o) => AllIn(r, o) BY <2>1 DEF AllIn
  <2> QED BY <2>2, <2>3 DEF r
<1>2. ASSUME q # <<>>
      PROVE  InOrder(Tail(q), o) /\ (Head(q) \in o => AllIn(Tail(q), o))
  <2> DEFINE r == Tail(q)
             h == Head(q)
  <2>1. /\ Len(q) \in Nat \ {0} /\ Len(r) = Len(q) - 1 /\ h = q[1]
        /\ \A i \in 1..(Len(q) - 1) : r[i] = q[i + 1]
    BY <1>2, TailFacts
  <2> HIDE DEF r, h
  <2>2. InOrder(r, o)
    <3> SUFFICES ASSUME NEW i \in 1..Len(r), NEW j \in 1..Len(r), i < j, r[i] \in o
                 PROVE  r[j] \in o
      BY DEF InOrder
    <3>1. /\ i + 1 \in 1..Len(q) /\ j + 1 \in 1..Len(q) /\ i + 1 < j + 1
          /\ q[i + 1] \in o /\ r[j] = q[j + 1]
      BY <2>1
    <3> QED BY Zenon, <3>1 DEF InOrder
  <2>3. ASSUME h \in o, NEW i \in 1..Len(r) PROVE r[i] \in o
    <3>1. /\ 1 \in 1..Len(q) /\ i + 1 \in 1..Len(q) /\ 1 < i + 1
          /\ q[1] \in o /\ r[i] = q[i + 1]
      BY <2>1, <2>3
    <3> QED BY Zenon, <3>1 DEF InOrder
  <2> QED BY Zenon, <2>2, <2>3 DEF r, h, AllIn
<1> QED BY <1>1, <1>2

\* The steps of the start between the first Borrow and InstallCDC's.
Ones ==
    {"checkpoint", "busy", "cleanup", "storage", "connect", "reconnect", "dial",
     "discover", "server", "prepare", "streams", "info", "add", "compare",
     "flag", "force", "forced",
     "restore", "tables", "install"}

LEMMA Counts ==
    ASSUME NEW m, NEW n
    PROVE  /\ m \in {"load", "open"} => Borrows(m, n) = 0
           /\ m \in Ones \cup {"remove"} => Borrows(m, n) = 1
           /\ m \in {"schema", "global"} => Borrows(m, n) = 2
           /\ m = "globalScript" => Borrows(m, n) = 3
           /\ m \in {"triggers", "trigger"} =>
                 Borrows(m, n) = 3 + Cardinality(Tables) - n
           /\ m = "triggerScript" => Borrows(m, n) = 4 + Cardinality(Tables) - n
           /\ m = "watch" => Borrows(m, n) = 3 + Cardinality(Tables)
BY DEF Borrows, Ones

\* How main moves through the start in a step that leaves the pool alone.
QuietCount ==
    \/ main' = main /\ todo' = todo
    \/ main = "load" /\ main' = "open"
    \/ main \in Ones /\ main' \in Ones
    \/ main = "schema" /\ main' = "global"
    \/ main = "triggers" /\ main' = "trigger" /\ todo' = todo
    \/ main = "triggers" /\ main' = "watch" /\ todo = {}
    \/ main = "watch" /\ main' = "installed"

LEMMA QuietBootCounts == quietBoot /\ ended' = "no" => QuietCount
<1> USE DEF QuietCount, Ones, At, Goto, End, GotoOrEnd, connect
<1>1. Load \/ NewSnapshotStorage \/ Connect \/ Reconnect
      \/ DialAgain \/ Dial \/ Discover \/ CheckpointBusy
        => (ended' = "no" => QuietCount)
  BY Zenon DEF Load, NewSnapshotStorage, Connect, Reconnect, Connected,
     DialAgain, Dial, Discover, CheckpointBusy
<1>2. StartEmbeddedServer \/ PrepareConnection \/ NextStream \/ StreamsReady
        => (ended' = "no" => QuietCount)
  BY Zenon DEF StartEmbeddedServer, PrepareConnection, Connected, NextStream,
     StreamsReady
<1>3. StreamInfo \/ AddStream \/ CompareStream => (ended' = "no" => QuietCount)
  BY Zenon DEF StreamInfo, AddStream, CompareStream
<1>4. Flag \/ RestoreSnapshot \/ GetAllDBTables \/ Schema \/ NextTable
        => (ended' = "no" => QuietCount)
  BY Zenon DEF Flag, RestoreSnapshot, GetAllDBTables, Schema, NextTable
<1> QED BY Zenon, <1>1, <1>2, <1>3, <1>4 DEF quietBoot

LEMMA QuietRunCounts == quietRun /\ ended' = "no" /\ Starting => QuietCount
<1> SUFFICES ASSUME quietRun, ended' = "no", Starting PROVE QuietCount BY Zenon
<1> USE DEF QuietCount, Ones, At, Goto, End, connect, bootVars
<1>1. CASE Watch \/ StartListeners \/ ForceSave \/ Saved \/ Tick
  BY Zenon, <1>1 DEF Watch, StartListeners, ForceSave, Saved, Tick, CleanupTick,
     SnapshotTick, SleepTick, Starting, LoopSteps
<1>2. CASE Write \/ Outside
  BY Zenon, <1>2 DEF Write, Outside, Listed, JetStreamReady, OtherNode
<1>3. ASSUME NEW s, ListenReturns(s) \/ ReceiveError(s) \/ PublishTriggers(s)
      PROVE  QuietCount
  BY Zenon, <1>3 DEF ListenReturns, ReceiveError, PublishTriggers
<1>4. ASSUME NEW k, Saving(k) PROVE QuietCount
  BY Zenon, <1>4 DEF Saving, Lease, TryLock, Backup, Upload, SaveStep
<1> QED BY Zenon, <1>1, <1>2, <1>3, <1>4 DEF quietRun

LEMMA OpenParts ==
    /\ OpensInTurn <=>
        /\ main \in {"triggers", "trigger", "triggerScript"} => todo \subseteq Tables
        /\ Starting =>
              /\ InOrder(connections, opened)
              /\ taken[Main] \in opened => AllIn(connections, opened)
              /\ \/ opened = Connections
                 \/ Cardinality(opened) >= Borrows(main, Cardinality(todo))
    /\ (OpensInTurn <=>
        /\ main \in {"triggers", "trigger", "triggerScript"} => todo \subseteq Tables
        /\ Starting =>
              /\ InOrder(connections, opened)
              /\ taken[Main] \in opened => AllIn(connections, opened)
              /\ \/ opened = Connections
                 \/ Cardinality(opened) >= Borrows(main, Cardinality(todo)))'
BY Zenon DEF OpensInTurn, Starting, InOrder, AllIn

\* A Return puts a connection that is open at the end of the channel.
LEMMA ReturnInOrder ==
    ASSUME PoolInv, Return(Main), InOrder(connections, opened),
           taken[Main] \in opened => AllIn(connections, opened)
    PROVE  /\ opened' = opened
           /\ InOrder(connections', opened')
           /\ taken'[Main] \in opened' => AllIn(connections', opened')
<1> USE DEF PoolInv
<1>1. Main \in Threads BY Zenon, StartupAssumption
<1>2. /\ opened' = opened /\ taken' = taken
      /\ connections \in Seq(Connections) /\ opened \subseteq Connections
  BY Zenon DEF Return, PoolTypeOK
<1>3. PICK c \in held[Main] : connections' = Append(connections, c)
  BY Zenon DEF Return
<1>4. c \in opened \cap Connections BY Zenon, <1>1, <1>2, <1>3 DEF PoolConserved
<1> QED BY Zenon, <1>2, <1>3, <1>4, OrderFacts

\* A Borrow takes from its front.
LEMMA ReceiveInOrder ==
    ASSUME PoolInv, Receive(Main), InOrder(connections, opened)
    PROVE  /\ opened' = opened
           /\ InOrder(connections', opened')
           /\ taken'[Main] \in opened' => AllIn(connections', opened')
<1> USE DEF PoolInv
<1>1. Main \in Threads BY Zenon, StartupAssumption
<1>2. /\ opened' = opened /\ taken'[Main] = Head(connections)
      /\ connections \in Seq(Connections) /\ connections # <<>>
      /\ connections' = Tail(connections)
  BY Zenon, <1>1 DEF Receive, PoolTypeOK
<1> QED BY Zenon, <1>2, OrderFacts

LEMMA BorrowedInOrder ==
    ASSUME PoolInv, Borrowed(Main), InOrder(connections, opened)
    PROVE  InOrder(connections', opened') /\ taken'[Main] \notin opened'
<1> USE DEF PoolInv
<1>1. Main \in Threads BY Zenon, StartupAssumption
<1>2. /\ connections' = connections /\ opened' = opened \cup {taken[Main]}
      /\ taken'[Main] = 0 /\ taken[Main] \in Connections
      /\ opened \subseteq Connections
  BY Zenon, <1>1 DEF Borrowed, PoolTypeOK
<1>3. 0 \notin Connections BY PoolAssumption DEF Connections
<1>4. Has(Main, taken[Main]) BY Zenon DEF Has
<1>5. ~Free(taken[Main]) BY Zenon, <1>1, <1>2, <1>4 DEF PoolConserved
<1>6. InOrder(connections, opened \cup {taken[Main]})
  BY Zenon, <1>5 DEF InOrder, Free
<1> QED BY Zenon, <1>2, <1>3, <1>6

\* In the start only main has to do with the pool.
LEMMA Alone ==
    ASSUME PoolInv, StartInv, Starting, \A u \in Users : UserInv(u)
    PROVE  /\ \A u \in Users : step[u] = "off"
           /\ \A u \in Users : ~(UserBorrow(u) \/ UserStep(u))
           /\ \A u \in Threads \ {Main} : taken[u] = 0
<1>1. \A u \in Users : step[u] = "off" BY Zenon DEF StartInv, Starting, Users
<1>2. Users \subseteq Threads /\ Threads = {Main} \cup Users
  BY Zenon, ProcessAssumption
<1>3. \A u \in Users : ~Busy(u) BY Zenon, <1>1 DEF UserInv, Busy
<1>4. ASSUME NEW u \in Users PROVE ~(UserBorrow(u) \/ UserStep(u))
  <2>1. ~Receive(u) /\ ~Borrowed(u) /\ ~BorrowFails(u)
    BY Zenon, <1>2, <1>3, OwnKept
  <2> QED BY Zenon, <1>1, <2>1 DEF UserBorrow, UserStep, UserReceive, UserBorrowed,
             UserReturn
<1> QED BY Zenon, <1>1, <1>2, <1>3, <1>4 DEF Busy

\* What Cardinality says of the sets that are counted here.
Counting ==
    /\ Cardinality({}) = 0
    /\ \A S \in SUBSET Tables :
          /\ Cardinality(S) \in Nat
          /\ \A t \in S : Cardinality(S \ {t}) = Cardinality(S) - 1
    /\ \A S \in SUBSET Connections :
          /\ Cardinality(S) \in Nat
          /\ \A c \in Connections \ S : Cardinality(S \cup {c}) = Cardinality(S) + 1
          /\ Cardinality(S) >= PoolSize => S = Connections

\* A Borrow in the start opens one more, or all are open.
LEMMA Opens ==
    ASSUME Counting, PoolInv, NEW t \in Threads, Borrowed(t),
           taken[t] \in opened => AllIn(connections, opened),
           \A u \in Threads \ {t} : taken[u] = 0
    PROVE  opened' = Connections \/ Cardinality(opened') = Cardinality(opened) + 1
<1> USE DEF PoolInv
<1>1. /\ taken[t] \in Connections /\ opened' = opened \cup {taken[t]}
      /\ opened \subseteq Connections
  BY Zenon DEF Borrowed, PoolTypeOK
<1>2. CASE taken[t] \in opened
  <2>1. ASSUME NEW c \in Connections PROVE c \in opened
    <3>1. Free(c) \/ \E u \in Threads : Has(u, c) BY Zenon DEF PoolConserved
    <3>2. Free(c) => c \in opened BY Zenon, <1>2 DEF Free, AllIn
    <3>3. c # 0 BY PoolAssumption DEF Connections
    <3>4. ASSUME NEW u \in Threads, Has(u, c) PROVE c \in opened
      BY Zenon, <1>2, <3>3, <3>4 DEF Has, PoolConserved
    <3> QED BY Zenon, <3>1, <3>2, <3>4
  <2> QED BY Zenon, <1>1, <1>2, <2>1
<1>3. CASE taken[t] \notin opened
  BY Zenon, <1>1, <1>3 DEF Counting
<1> QED BY Zenon, <1>2, <1>3

\* A step that leaves the pool alone does not make main expect more.
LEMMA QuietOpens ==
    ASSUME Counting, OpensInTurn, Starting, UNCHANGED poolVars, QuietCount
    PROVE  OpensInTurn'
<1> DEFINE n == Cardinality(todo)
           m == Cardinality(todo')
           t == Cardinality(Tables)
<1>1. /\ connections' = connections /\ opened' = opened /\ taken' = taken
  BY Zenon DEF poolVars
<1>2. main \in {"triggers", "trigger", "triggerScript"} => todo \subseteq Tables
  BY Zenon, OpenParts
<1>3. main' \in {"triggers", "trigger", "triggerScript"} => todo' \subseteq Tables
  BY Zenon, <1>2 DEF QuietCount, Ones
<1>4. Starting' => Borrows(main', m) = Borrows(main, n)
  <2>0. t \in Nat BY Zenon DEF Counting
  <2> SUFFICES ASSUME Starting' PROVE Borrows(main', m) = Borrows(main, n)
    BY Zenon
  <2>1. CASE main' = main /\ todo' = todo BY Zenon, <2>1
  <2>2. CASE main = "load" /\ main' = "open"
    <3>1. Borrows(main, n) = 0 /\ Borrows(main', m) = 0 BY Zenon, <2>2, Counts
    <3> QED BY Zenon, <3>1
  <2>3. CASE main \in Ones /\ main' \in Ones
    <3>1. Borrows(main, n) = 1 /\ Borrows(main', m) = 1 BY Zenon, <2>3, Counts
    <3> QED BY Zenon, <3>1
  <2>4. CASE main = "schema" /\ main' = "global"
    <3>1. Borrows(main, n) = 2 /\ Borrows(main', m) = 2 BY Zenon, <2>4, Counts
    <3> QED BY Zenon, <3>1
  <2>5. CASE main = "triggers" /\ main' = "trigger" /\ todo' = todo
    <3>1. Borrows(main, n) = 3 + t - n /\ Borrows(main', m) = 3 + t - n
      BY Zenon, <2>5, Counts
    <3> QED BY Zenon, <3>1
  <2>6. CASE main = "triggers" /\ main' = "watch" /\ todo = {}
    <3>1. Borrows(main, n) = 3 + t - n /\ Borrows(main', m) = 3 + t
      BY Zenon, <2>6, Counts
    <3>2. n = 0 BY Zenon, <2>6 DEF Counting
    <3> QED BY <2>0, <3>1, <3>2
  <2>7. main' # "installed" BY Zenon DEF Starting
  <2> QED BY Zenon, <2>1, <2>2, <2>3, <2>4, <2>5, <2>6, <2>7 DEF QuietCount
<1> QED BY Zenon, <1>1, <1>3, <1>4, OpenParts

\* The loop over the tables.
LEMMA ReturnCounts ==
    ASSUME Counting, OpensInTurn, returnBoot, ended' = "no"
    PROVE  /\ main' \in {"triggers", "trigger", "triggerScript"} => todo' \subseteq Tables
           /\ Starting
           /\ Borrows(main', Cardinality(todo')) = Borrows(main, Cardinality(todo))
<1> DEFINE t == Cardinality(Tables)
<1> USE DEF At, Goto, End, GotoOrEnd
<1>0. t \in Nat BY Zenon DEF Counting
<1>1. CASE Checkpoint
  <2>1. main = "checkpoint" /\ main' \in {"cleanup", "storage"}
    BY Zenon, <1>1 DEF Checkpoint
  <2> QED BY ZenonT(40), <2>1, Counts DEF Ones, Starting, LoopSteps
<1>2. CASE RemoveCDC BY Zenon, <1>2 DEF RemoveCDC
<1>3. CASE GlobalScript
  <2>1. main = "globalScript" /\ main' = "triggers" /\ todo' = Tables
    BY Zenon, <1>3 DEF GlobalScript
  <2>2. /\ Borrows(main, Cardinality(todo)) = 3
        /\ Borrows(main', Cardinality(todo')) = 3 + t - t
    BY Zenon, <2>1, Counts
  <2>3. Borrows(main', Cardinality(todo')) = 3 BY <2>2, <1>0
  <2> QED BY Zenon, <2>1, <2>2, <2>3 DEF Starting, LoopSteps
<1>4. CASE TriggerScript
  <2>1. main = "triggerScript" /\ main' = "triggers"
    BY Zenon, <1>4 DEF TriggerScript
  <2>2. PICK x \in todo : todo' = todo \ {x} BY Zenon, <1>4 DEF TriggerScript
  <2>3. todo \subseteq Tables BY Zenon, <2>1 DEF OpensInTurn
  <2>4. /\ Cardinality(todo) \in Nat
        /\ Cardinality(todo') = Cardinality(todo) - 1
    BY Zenon, <2>2, <2>3 DEF Counting
  <2>5. /\ Borrows(main, Cardinality(todo)) = 4 + t - Cardinality(todo)
        /\ Borrows(main', Cardinality(todo')) = 3 + t - Cardinality(todo')
    BY Zenon, <2>1, Counts
  <2>6. Borrows(main', Cardinality(todo')) = Borrows(main, Cardinality(todo))
    BY <1>0, <2>4, <2>5
  <2> QED BY Zenon, <2>1, <2>2, <2>3, <2>6 DEF Starting, LoopSteps
<1> QED BY Zenon, <1>1, <1>2, <1>3, <1>4 DEF returnBoot

\* The steps main takes with a Borrow add one.
LEMMA BorrowCounts ==
    ASSUME Counting, OpensInTurn, Starting, main \in DOMAIN AfterBorrow,
           main' = AfterBorrow[main], todo' = todo
    PROVE  /\ main' \in {"triggers", "trigger", "triggerScript"} => todo' \subseteq Tables
           /\ Borrows(main, Cardinality(todo)) \in Int
           /\ Borrows(main', Cardinality(todo')) \in Int
           /\ Borrows(main', Cardinality(todo')) <= Borrows(main, Cardinality(todo)) + 1
<1> DEFINE t == Cardinality(Tables)
           n == Cardinality(todo)
<1>0. t \in Nat BY Zenon DEF Counting
<1>1. main \in {"open", "cleanup", "install", "global", "trigger"}
  BY Zenon, Borrowing DEF Starting, LoopSteps
<1>2. CASE main \in {"open", "cleanup", "install", "global"}
  <2>1. main' \in {"checkpoint", "remove", "schema", "globalScript"}
    BY Zenon, <1>2, Borrowing
  <2>2. \/ Borrows(main, n) = 0 /\ Borrows(main', n) = 1
        \/ Borrows(main, n) = 1 /\ Borrows(main', n) = 1
        \/ Borrows(main, n) = 1 /\ Borrows(main', n) = 2
        \/ Borrows(main, n) = 2 /\ Borrows(main', n) = 3
    <3>1. CASE main = "open"
      <4>1. main' = "checkpoint" BY Zenon, <3>1, Borrowing
      <4> QED BY Zenon, <3>1, <4>1, Counts DEF Ones
    <3>2. CASE main = "cleanup"
      <4>1. main' = "remove" BY Zenon, <3>2, Borrowing
      <4> QED BY Zenon, <3>2, <4>1, Counts DEF Ones
    <3>3. CASE main = "install"
      <4>1. main' = "schema" BY Zenon, <3>3, Borrowing
      <4> QED BY Zenon, <3>3, <4>1, Counts DEF Ones
    <3>4. CASE main = "global"
      <4>1. main' = "globalScript" BY Zenon, <3>4, Borrowing
      <4> QED BY Zenon, <3>4, <4>1, Counts
    <3> QED BY Zenon, <1>2, <3>1, <3>2, <3>3, <3>4
  <2>3. /\ Borrows(main, n) \in Int /\ Borrows(main', n) \in Int
        /\ Borrows(main', n) <= Borrows(main, n) + 1
    BY <2>2
  <2> QED BY Zenon, <2>1, <2>3
<1>3. CASE main = "trigger"
  <2>1. main' = "triggerScript" BY Zenon, <1>3, Borrowing
  <2>2. todo \subseteq Tables BY Zenon, <1>3 DEF OpensInTurn
  <2>3. n \in Nat BY Zenon, <2>2 DEF Counting
  <2>4. Borrows(main, n) = 3 + t - n /\ Borrows(main', n) = 4 + t - n
    BY Zenon, <1>3, <2>1, Counts
  <2>5. /\ Borrows(main, n) \in Int /\ Borrows(main', n) \in Int
        /\ Borrows(main', n) <= Borrows(main, n) + 1
    BY <1>0, <2>3, <2>4
  <2> QED BY Zenon, <2>2, <2>5
<1> QED BY Zenon, <1>1, <1>2, <1>3

LEMMA OpensStep ==
    ASSUME Counting, PoolInv, MainInv, StartInv, OpensInTurn, \A u \in Users : UserInv(u),
           [Next]_vars, ended' = "no"
    PROVE  OpensInTurn'
<1>1. CASE ~Starting
  <2>1. main \in LoopSteps \cup {"installed", "listeners"} BY Zenon, <1>1 DEF Starting
  <2>2. main' \in LoopSteps \cup {"installed", "listeners"}
    <3>1. ~quietBoot BY Zenon, <2>1, QuietBootStarts
    <3>2. MainGoes BY Zenon, <3>1, MainGoesOn
    <3> QED BY Zenon, <2>1, <3>2, Borrowing DEF MainGoes, LoopSteps, TwoSteps
  <2>3. main' \notin {"triggers", "trigger", "triggerScript"}
    BY Zenon, <2>2 DEF LoopSteps
  <2> QED BY Zenon, <2>2, <2>3 DEF OpensInTurn
<1>2. CASE Starting /\ (quietBoot \/ quietRun)
  BY Zenon, <1>2, QuietBootCounts, QuietRunCounts, QuietBoot, QuietRun, QuietOpens
<1> DEFINE Enough == \/ opened = Connections
                     \/ Cardinality(opened) >= Borrows(main, Cardinality(todo))
<1>3. CASE returnBoot
  <2>1. /\ main' \in {"triggers", "trigger", "triggerScript"} => todo' \subseteq Tables
        /\ Starting
        /\ Borrows(main', Cardinality(todo')) = Borrows(main, Cardinality(todo))
    BY Zenon, <1>3, ReturnCounts
  <2>2. /\ opened' = opened
        /\ InOrder(connections', opened')
        /\ taken'[Main] \in opened' => AllIn(connections', opened')
    BY Zenon, <1>3, <2>1, ReturnBoot, ReturnInOrder, OpenParts
  <2> QED BY Zenon, <2>1, <2>2, OpenParts
<1>4. CASE Starting /\ borrowBoot
  <2>0. /\ InOrder(connections, opened)
        /\ taken[Main] \in opened => AllIn(connections, opened)
        /\ Enough
        /\ main \in {"triggers", "trigger", "triggerScript"} => todo \subseteq Tables
    BY Zenon, <1>4, OpenParts
  <2>1. CASE MainBorrow
    <3>1. UNCHANGED <<connections, opened, taken, main, todo>>
      BY Zenon, <2>1 DEF MainBorrow, Borrow, bootVars
    <3> QED BY Zenon, <2>0, <3>1, OpenParts
  <2>2. CASE MainReceive
    <3>1. Receive(Main) /\ UNCHANGED <<main, todo>>
      BY Zenon, <2>2 DEF MainReceive, bootVars
    <3>2. /\ opened' = opened
          /\ InOrder(connections', opened')
          /\ taken'[Main] \in opened' => AllIn(connections', opened')
      BY Zenon, <2>0, <3>1, ReceiveInOrder
    <3> QED BY Zenon, <2>0, <3>1, <3>2, OpenParts
  <2>3. CASE MainBorrowed
    <3>1. /\ Borrowed(Main) /\ main \in DOMAIN AfterBorrow
          /\ main' = AfterBorrow[main] /\ todo' = todo
      BY Zenon, <2>3 DEF MainBorrowed, Borrowed, MainInv, Goto, connect
    <3>2. /\ main' \in {"triggers", "trigger", "triggerScript"} => todo' \subseteq Tables
          /\ Borrows(main, Cardinality(todo)) \in Int
          /\ Borrows(main', Cardinality(todo')) <= Borrows(main, Cardinality(todo)) + 1
      BY Zenon, <1>4, <3>1, BorrowCounts
    <3>3. InOrder(connections', opened') /\ taken'[Main] \notin opened'
      BY Zenon, <2>0, <3>1, BorrowedInOrder
    <3>4. opened' = Connections \/ Cardinality(opened') = Cardinality(opened) + 1
      BY ZenonT(40), <1>4, <2>0, <3>1, Alone, Opens, StartupAssumption
    <3>5. opened = Connections => opened' = Connections
      BY Zenon, <3>1, StartupAssumption DEF Borrowed, PoolInv, PoolTypeOK
    <3>6. Cardinality(opened) \in Nat BY Zenon DEF PoolInv, PoolTypeOK, Counting
    <3>7. Borrows(main', Cardinality(todo')) \in Int
      BY Zenon, <1>4, <3>1, BorrowCounts
    <3>8. \/ opened' = Connections
          \/ Cardinality(opened') >= Borrows(main', Cardinality(todo'))
      <4> DEFINE a == Cardinality(opened)
                 b == Borrows(main, Cardinality(todo))
                 c == Cardinality(opened')
                 d == Borrows(main', Cardinality(todo'))
      <4>1. a >= b /\ c = a + 1 => c >= d
        <5> HIDE DEF a, b, c, d
        <5>1. a \in Nat /\ b \in Int /\ d \in Int /\ d <= b + 1
          BY Zenon, <3>2, <3>6, <3>7 DEF a, b, d
        <5> QED BY <5>1
      <4> QED BY ZenonT(40), <2>0, <3>4, <3>5, <4>1
    <3> QED BY Zenon, <3>2, <3>3, <3>8, OpenParts
  <2>4. CASE MainBorrowFails
    <3>1. main = "clean" BY Zenon, <2>4 DEF MainBorrowFails, End
    <3> QED BY Zenon, <1>4, <3>1 DEF Starting, LoopSteps
  <2> QED BY Zenon, <1>4, <2>1, <2>2, <2>3, <2>4 DEF borrowBoot
<1>5. CASE Installed \/ Delete
  <2>1. ~Starting BY Zenon, <1>5 DEF Installed, Delete, At, Starting, LoopSteps
  <2> QED BY Zenon, <1>1, <2>1
<1>6. CASE Starting /\ \E u \in Users : UserBorrow(u) \/ UserStep(u)
  BY Zenon, <1>6, Alone
<1>7. CASE UNCHANGED vars
  BY Zenon, <1>7 DEF OpensInTurn, vars, poolVars, bootVars
<1> QED BY Zenon, <1>1, <1>2, <1>3, <1>4, <1>5, <1>6, <1>7, Cases

\* Once the watcher runs, what is open stays open.
LEMMA AllOpenedStep ==
    ASSUME Counting, PoolInv, PoolTypeOK', StepOK, AllOpened, [Next]_vars,
           Up => StartInv /\ OpensInTurn /\ \A u \in Users : UserInv(u)
    PROVE  AllOpened'
<1>0. Main \in Threads /\ Users \subseteq Threads /\ Watcher \in Users
  BY Zenon, ProcessAssumption, StartupAssumption DEF Users
<1>1. opened \subseteq opened'
  <2>1. [PoolNext]_poolVars BY Zenon, PoolSteps
  <2> QED BY Zenon, <2>1 DEF PoolNext, Borrow, Receive, Borrowed, BorrowFails,
             Return, poolVars
<1>2. opened' \subseteq Connections BY Zenon DEF PoolTypeOK
<1>3. CASE step[Watcher] # "off"
  BY Zenon, <1>1, <1>2, <1>3 DEF AllOpened
<1>4. CASE Watch /\ main' = "installed" /\ step[Watcher] = "off"
  <2>1. main = "watch" /\ Up /\ opened' = opened
    BY Zenon, <1>4 DEF Watch, At, Up, poolVars
  <2>2. opened = Connections \/ Cardinality(opened) >= 3 + Cardinality(Tables)
    <3>1. Starting BY Zenon, <2>1 DEF Starting, LoopSteps
    <3>2. Borrows(main, Cardinality(todo)) = 3 + Cardinality(Tables)
      BY Zenon, <2>1, Counts
    <3> QED BY Zenon, <2>1, <3>1, <3>2, OpenParts
  <2>3. ASSUME PoolSize <= Cardinality(Tables) + 3 PROVE opened = Connections
    <3>1. Cardinality(Tables) \in Nat /\ PoolSize \in Nat
      BY Zenon, PoolAssumption DEF Counting
    <3>2. CASE Cardinality(opened) >= 3 + Cardinality(Tables)
      <4>1. opened \subseteq Connections BY Zenon DEF PoolInv, PoolTypeOK
      <4>2. Cardinality(opened) \in Nat BY Zenon, <4>1 DEF Counting
      <4>3. Cardinality(opened) >= PoolSize BY SMTT(40), <2>3, <3>1, <3>2, <4>2
      <4> QED BY Zenon, <4>1, <4>3 DEF Counting
    <3> QED BY Zenon, <2>2, <3>2
  <2> QED BY Zenon, <2>1, <2>3 DEF AllOpened
<1>5. CASE step[Watcher] = "off" /\ ~(Watch /\ main' = "installed")
  <2> SUFFICES step'[Watcher] = "off" BY Zenon DEF AllOpened
  <2>1. CASE UNCHANGED runVars BY Zenon, <1>5, <2>1 DEF runVars
  <2>2. CASE Watch BY Zenon, <1>5, <2>2 DEF Watch, Goto
  <2>3. CASE StartListeners
    BY Zenon, <1>0, <1>5, <2>3, ProcessAssumption DEF StartListeners
  <2>4. CASE ForceSave \/ Tick \/ Write
    BY Zenon, <1>5, <2>4 DEF ForceSave, Tick, CleanupTick, SnapshotTick,
       SleepTick, Write, runVars
  <2>5. ASSUME NEW v \in Users, UserBorrow(v) \/ UserBorrowed(v) \/ UserReturn(v)
        PROVE  step'[Watcher] = "off"
    <3>1. UserInv(Watcher) BY Zenon, <1>0, <2>5 DEF UserBorrow, UserBorrowed, UserReturn
    <3>2. v # Watcher
      BY Zenon, <1>5, <2>5, <3>1 DEF UserBorrow, UserBorrowed, UserReturn,
         Borrowed, BorrowFails, UserInv
    <3> QED BY Zenon, <1>0, <1>5, <3>2, <2>5 DEF UserBorrow, UserBorrowed,
               UserReturn, Finish, Step, StepOK
  <2>6. ASSUME NEW s \in Shards, ListenReturns(s) PROVE step'[Watcher] = "off"
    BY Zenon, <1>0, <1>5, <2>6 DEF ListenReturns, Step, StepOK
  <2>7. ASSUME NEW k, PublishTriggers(k) \/ Saving(k) PROVE step' = step
    BY Zenon, <2>7 DEF PublishTriggers, Saving, Lease, TryLock, Backup, Upload,
       SaveStep
  <2> QED BY ZenonT(40), <1>5, <2>1, <2>2, <2>3, <2>4, <2>5, <2>6, <2>7, Kinds
<1> QED BY Zenon, <1>3, <1>4, <1>5

LEMMA OpenInvInit == Counting /\ Init => OpenInv
<1> SUFFICES ASSUME Counting, Init PROVE OpenInv BY Zenon
<1>1. opened = {} /\ main = "load" BY Zenon DEF Init, StartupInit, PoolInit
<1>2. Borrows(main, Cardinality(todo)) = 0 BY Zenon, <1>1, Counts
<1>3. Cardinality(opened) = 0 BY Zenon, <1>1 DEF Counting
<1>4. Cardinality(opened) >= Borrows(main, Cardinality(todo)) BY <1>2, <1>3
<1>5. OpensInTurn BY Zenon, <1>1, <1>4 DEF OpensInTurn
<1>6. AllOpened BY Zenon DEF Init, AllOpened, Users
<1> QED BY Zenon, <1>5, <1>6 DEF OpenInv

LEMMA OpenInvStep ==
    Counting /\ IndInv /\ IndInv' /\ OpenInv /\ [Next]_vars => OpenInv'
<1> SUFFICES ASSUME Counting, IndInv, IndInv', OpenInv, [Next]_vars
             PROVE  OpenInv'
  BY Zenon
<1>1. /\ PoolInv /\ StepOK /\ PoolTypeOK' /\ AllOpened
      /\ Up => MainInv /\ StartInv /\ OpensInTurn /\ \A u \in Users : UserInv(u)
  BY Zenon, TypeParts DEF IndInv, OpenInv
<1>2. ASSUME Up' PROVE OpensInTurn'
  <2>1. ended' = "no" /\ Up BY Zenon, <1>2, NextUp DEF Up, vars, bootVars
  <2> QED BY Zenon, <1>1, <2>1, OpensStep
<1>3. AllOpened' BY Zenon, <1>1, AllOpenedStep
<1> QED BY Zenon, <1>2, <1>3 DEF OpenInv

-----------------------------------------------------------------------------
(* Facts about finite sets, and the theorems that need them.                  *)

INSTANCE FiniteSetTheorems

\* A queue without repetitions, and without a connection c, has room for c.
LEMMA Room ==
    ASSUME NEW q \in Seq(Connections), Distinct(q), NEW c \in Connections,
           ~In(q, c)
    PROVE  Len(q) < PoolSize
<1> USE PoolAssumption
<1> DEFINE S == 1..Len(q)
           T == Connections \ {c}
<1>1. q \in [S -> T] BY DEF In
<1>2. q \in Injection(S, T) BY SMTT(40), <1>1 DEF Injection, IsInjective, Distinct
<1>3. IsFiniteSet(Connections) /\ Cardinality(Connections) = PoolSize
  BY FS_Interval DEF Connections
<1>4. IsFiniteSet(T) /\ Cardinality(T) = PoolSize - 1
  BY ZenonT(40), <1>3, FS_RemoveElement
<1>5. Cardinality(S) <= PoolSize - 1 BY SMTT(40), <1>2, <1>4, FS_Injection
<1>6. Len(q) \in Nat OBVIOUS
<1>7. Cardinality(S) = Len(q)
  <2>1. Cardinality(S) = IF 1 > Len(q) THEN 0 ELSE Len(q) - 1 + 1
    <3>1. 1 \in Int /\ Len(q) \in Int BY SMTT(40), <1>6
    <3> QED BY Zenon, <3>1, FS_Interval
  <2> QED BY SMTT(40), <2>1, <1>6
<1> QED BY SMTT(40), <1>5, <1>6, <1>7

LEMMA RoomToReturn == PoolInv => ReturnNeverBlocks
<1> SUFFICES ASSUME PoolInv, NEW t \in Threads, taken[t] # 0 \/ held[t] # {}
             PROVE  Len(connections) < PoolSize
  BY Zenon DEF ReturnNeverBlocks
<1>1. PICK c \in Connections : Has(t, c) BY DEF PoolInv, PoolTypeOK, Has
<1> QED BY SMTT(40), <1>1, Conserved, Room DEF PoolInv, PoolTypeOK

\* However the threads use the pool: Borrow and Return lose no connection and
\* give none to two threads, and no Return or failing Borrow blocks on a full
\* channel.
THEOREM PoolKept == PoolSpec => [](PoolTypeOK /\ PoolConserved /\ ReturnNeverBlocks)
<1>1. PoolSpec => []PoolInv BY PoolInvInit, PoolInvStep, PTL DEF PoolSpec
<1>2. PoolInv => PoolTypeOK /\ PoolConserved /\ ReturnNeverBlocks
  BY RoomToReturn DEF PoolInv
<1> QED BY <1>1, <1>2, PTL

\* No goroutine of the process loses a borrowed connection or gets one that is
\* with another, and no return of one ever blocks.
THEOREM PoolSound == Spec => []PoolConserved /\ []ReturnNeverBlocks
BY UsesThePool, PoolKept, PTL

LEMMA CountingHolds == Counting
<1>1. Cardinality({}) = 0 BY Zenon, FS_EmptySet
<1>2. ASSUME NEW S \in SUBSET Tables
      PROVE  /\ Cardinality(S) \in Nat
             /\ \A t \in S : Cardinality(S \ {t}) = Cardinality(S) - 1
  <2>1. IsFiniteSet(S) BY ZenonT(40), ProcessAssumption, FS_Subset
  <2> QED BY ZenonT(40), <2>1, FS_CardinalityType, FS_RemoveElement
<1>3. ASSUME NEW S \in SUBSET Connections
      PROVE  /\ Cardinality(S) \in Nat
             /\ \A c \in Connections \ S : Cardinality(S \cup {c}) = Cardinality(S) + 1
             /\ Cardinality(S) >= PoolSize => S = Connections
  <2>1. IsFiniteSet(Connections) /\ Cardinality(Connections) = PoolSize
    BY SMTT(40), PoolAssumption, FS_Interval DEF Connections
  <2>2. /\ IsFiniteSet(S) /\ Cardinality(S) <= Cardinality(Connections)
        /\ Cardinality(S) = Cardinality(Connections) => S = Connections
    BY ZenonT(40), <2>1, FS_Subset
  <2>3. Cardinality(S) \in Nat /\ PoolSize \in Nat
    BY ZenonT(40), <2>2, PoolAssumption, FS_CardinalityType
  <2>4. Cardinality(S) >= PoolSize => Cardinality(S) = PoolSize
    BY SMTT(40), <2>1, <2>2, <2>3
  <2>5. \A c \in Connections \ S : Cardinality(S \cup {c}) = Cardinality(S) + 1
    BY ZenonT(40), <2>2, FS_AddElement
  <2> QED BY ZenonT(40), <2>1, <2>2, <2>3, <2>4, <2>5
<1> QED BY ZenonT(40), <1>1, <1>2, <1>3 DEF Counting

\* A pool of at most three connections more than there are tables is opened by
\* the start, so no Borrow of the watcher or of a listener can fail to open one.
THEOREM StartOpensThePool == Spec => []AllOpened
<1>1. Init => OpenInv BY ZenonT(40), CountingHolds, OpenInvInit
<1>2. IndInv /\ IndInv' /\ OpenInv /\ [Next]_vars => OpenInv'
  BY ZenonT(40), CountingHolds, OpenInvStep
<1>3. OpenInv => AllOpened BY Zenon DEF OpenInv
<1> QED BY <1>1, <1>2, <1>3, Inductive, PTL DEF Spec
=============================================================================
