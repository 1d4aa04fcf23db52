-------------------------- MODULE SnapshotLeaseProofs --------------------------
(***************************************************************************)
(* Proofs about the snapshot lease, for any number of nodes, workers and    *)
(* clocks: the types, and that a lease changes hands only once it expired.  *)
(***************************************************************************)
EXTENDS SnapshotLease, TLAPS

\* Every thread belongs to a worker, and its worker to a node.
LEMMA ThreadFacts ==
    /\ \A x \in Threads : NodeOf(x) \in Nodes /\ x[1] \in Workers /\ x[2] \in Roles
    /\ \A w \in Workers : <<w, "caller">> \in Threads /\ <<w, "refresher">> \in Threads
  BY LeaseAssumption DEF Threads, Roles, NodeOf

\* Moving a thread to a label keeps pc and since well typed.
LEMMA GoTypes ==
  ASSUME TypeOK, NEW x \in Threads, NEW label \in PCs, Go(x, label)
  PROVE  /\ pc' \in [Threads -> PCs]
         /\ since' \in [Threads -> Nat]
         /\ \A y \in Threads : pc'[y] = "cas" => (y = x /\ label = "cas") \/ pc[y] = "cas"
  BY DEF TypeOK, Go

\* Acquiring the lease keeps pc and since well typed and sends no thread to
\* the compare-and-swap.
LEMMA AcquiredTypes ==
  ASSUME TypeOK, NEW x \in Threads, Acquired(x)
  PROVE  /\ pc' \in [Threads -> PCs]
         /\ since' \in [Threads -> Nat]
         /\ \A y \in Threads : pc'[y] = "cas" => pc[y] = "cas"
  <1>1. CASE x[2] = "caller"
    <2>1. <<x[1], "refresher">> \in Threads
      BY Zenon, ThreadFacts
    <2>. QED BY <1>1, <2>1 DEF TypeOK, Acquired, PCs
  <1>2. CASE x[2] # "caller"
    <2>1. Go(x, "wait")
      BY <1>2 DEF Acquired
    <2>. QED BY <2>1, GoTypes DEF PCs
  <1>. QED BY <1>1, <1>2

-----------------------------------------------------------------------------

\* Initially no thread is about to write, and everything has its type.
LEMMA InitInd == Init => IndInv
  <1>. SUFFICES ASSUME Init PROVE IndInv
    OBVIOUS
  <1>1. TypeOK
    BY DEF Init, TypeOK, Entry, PCs
  <1>2. CasInv
    BY DEF Init, CasInv
  <1>. QED BY <1>1, <1>2 DEF IndInv

\* Every step keeps the types and what a pending write knows of the entry.
LEMMA NextInd == IndInv /\ [Next]_vars => IndInv'
  <1>. SUFFICES ASSUME TypeOK, CasInv, [Next]_vars PROVE TypeOK' /\ CasInv'
    BY DEF IndInv
  <1>. USE LeaseAssumption
  <1>1. ASSUME Tick PROVE TypeOK' /\ CasInv'
    BY <1>1 DEF Tick, TypeOK, CasInv
  <1>2. ASSUME NEW x \in Threads, ReadClock(x) PROVE TypeOK' /\ CasInv'
    <2>1. Go(x, "get") /\ "get" \in PCs
      BY <1>2 DEF ReadClock, PCs
    <2>2. clock + Skew[NodeOf(x)] \in Nat
      BY ThreadFacts DEF TypeOK
    <2>3. TypeOK'
      BY <1>2, <2>1, <2>2, GoTypes DEF TypeOK, ReadClock
    <2>4. ASSUME NEW y \in Threads, pc'[y] = "cas" PROVE y # x /\ pc[y] = "cas"
      BY <2>1, <2>4 DEF Go, TypeOK
    <2>5. CasInv'
      BY <1>2, <2>4 DEF ReadClock, CasInv, TypeOK
    <2>. QED BY <2>3, <2>5
  <1>3. ASSUME NEW x \in Threads, Get(x) PROVE TypeOK' /\ CasInv'
    <2>1. CASE HeldByOther(x) /\ Refused(x) /\ UNCHANGED rev
      <3>1. PICK label \in PCs : Go(x, label) /\ label # "cas"
        BY <2>1 DEF Refused, PCs
      <3>2. TypeOK'
        BY <1>3, <2>1, <3>1, GoTypes DEF TypeOK, Get
      <3>3. CasInv'
        BY <1>3, <2>1, <3>1, GoTypes DEF CasInv, Get
      <3>. QED BY <3>2, <3>3
    <2>2. CASE /\ ~HeldByOther(x)
               /\ rev' = [rev EXCEPT ![x] = kv.rev]
               /\ Go(x, "cas")
      <3>1. "cas" \in PCs /\ kv.rev \in Nat /\ kv.ts \in Nat /\ now[x] \in Nat
        BY DEF PCs, TypeOK, Entry
      <3>2. TypeOK'
        BY <1>3, <2>2, <3>1, GoTypes DEF TypeOK, Get
      <3>3. kv' = kv /\ now' = now
        BY <1>3 DEF Get
      <3>4. kv.rev # 0 => kv.node = NodeOf(x) \/ kv.ts + TTL <= now[x]
        BY <2>2, <3>1 DEF HeldByOther
      <3>5. ASSUME NEW y \in Threads, pc'[y] = "cas"
            PROVE  /\ rev'[y] <= kv'.rev
                   /\ rev'[y] = kv'.rev /\ kv'.rev # 0 =>
                         kv'.node = NodeOf(y) \/ kv'.ts + TTL <= now'[y]
        <4>1. CASE y = x
          BY <2>2, <3>1, <3>3, <3>4, <4>1 DEF TypeOK
        <4>2. CASE y # x
          <5>1. pc[y] = "cas" /\ rev'[y] = rev[y]
            BY <2>2, <3>5, <4>2 DEF Go, TypeOK
          <5>. QED BY <3>3, <5>1 DEF CasInv
        <4>. QED BY <4>1, <4>2
      <3>6. CasInv'
        BY <3>5 DEF CasInv, NodeOf
      <3>. QED BY <3>2, <3>6
    <2>. QED BY <1>3, <2>1, <2>2 DEF Get
  <1>4. ASSUME NEW x \in Threads, Cas(x) PROVE TypeOK' /\ CasInv'
    <2>1. CASE /\ kv.rev = rev[x]
               /\ kv' = [node |-> NodeOf(x), ts |-> now[x], rev |-> kv.rev + 1]
               /\ Acquired(x)
      <3>1. kv' \in Entry
        BY <2>1, ThreadFacts DEF TypeOK, Entry
      <3>2. TypeOK'
        BY <1>4, <2>1, <3>1, AcquiredTypes DEF TypeOK, Cas
      <3>3. ASSUME NEW y \in Threads, pc'[y] = "cas"
            PROVE  rev'[y] <= kv'.rev /\ rev'[y] # kv'.rev
        <4>1. pc[y] = "cas" /\ rev' = rev
          BY <1>4, <2>1, <3>3, AcquiredTypes DEF Cas
        <4>2. rev[y] <= kv.rev /\ rev[y] \in Nat /\ kv.rev \in Nat
          BY <4>1 DEF CasInv, TypeOK, Entry
        <4>. QED BY <2>1, <4>1, <4>2
      <3>4. CasInv'
        BY <3>3 DEF CasInv
      <3>. QED BY <3>2, <3>4
    <2>2. CASE kv.rev # rev[x] /\ Failed(x) /\ UNCHANGED kv
      <3>1. PICK label \in PCs : Go(x, label) /\ label # "cas"
        BY <2>2 DEF Failed, PCs
      <3>2. TypeOK'
        BY <1>4, <2>2, <3>1, GoTypes DEF TypeOK, Cas
      <3>3. CasInv'
        BY <1>4, <2>2, <3>1, GoTypes DEF CasInv, Cas
      <3>. QED BY <3>2, <3>3
    <2>. QED BY <1>4, <2>1, <2>2 DEF Cas
  <1>5. ASSUME NEW w \in Workers, FinishUpload(w) \/ RefreshTick(w) \/ ContextDone(w)
        PROVE  TypeOK' /\ CasInv'
    <2>1. PICK x \in Threads, label \in PCs : Go(x, label) /\ label # "cas"
      BY <1>5, ThreadFacts DEF FinishUpload, RefreshTick, ContextDone, PCs
    <2>2. UNCHANGED <<clock, kv, now, rev>>
      BY <1>5 DEF FinishUpload, RefreshTick, ContextDone
    <2>3. TypeOK'
      BY <2>1, <2>2, GoTypes DEF TypeOK
    <2>4. CasInv'
      BY <2>1, <2>2, GoTypes DEF CasInv
    <2>. QED BY <2>3, <2>4
  <1>6. ASSUME NEW x \in Threads, RequestError(x) PROVE TypeOK' /\ CasInv'
    <2>1. PICK label \in PCs : Go(x, label) /\ label \in {"done", "off"}
      BY <1>6 DEF RequestError, Failed, PCs
    <2>2. clock' = clock /\ now' = now /\ rev' = rev
      BY <1>6 DEF RequestError
    <2>3. ASSUME NEW y \in Threads, pc'[y] = "cas" PROVE y # x /\ pc[y] = "cas"
      BY <2>1, <2>3 DEF Go, TypeOK
    <2>4. CASE kv' = kv
      BY <2>1, <2>2, <2>3, <2>4, GoTypes DEF TypeOK, CasInv
    <2>5. CASE /\ kv.rev = rev[x]
               /\ kv' = [node |-> NodeOf(x), ts |-> now[x], rev |-> kv.rev + 1]
      <3>1. kv' \in Entry
        BY <2>5, ThreadFacts DEF TypeOK, Entry
      <3>2. TypeOK'
        BY <2>1, <2>2, <3>1, GoTypes DEF TypeOK
      <3>3. ASSUME NEW y \in Threads, pc'[y] = "cas"
            PROVE  rev'[y] <= kv'.rev /\ rev'[y] # kv'.rev
        <4>1. rev[y] <= kv.rev /\ rev[y] \in Nat /\ kv.rev \in Nat
          BY <2>3, <3>3 DEF CasInv, TypeOK, Entry
        <4>. QED BY <2>2, <2>5, <4>1
      <3>4. CasInv'
        BY <3>3 DEF CasInv
      <3>. QED BY <3>2, <3>4
    <2>. QED BY <1>6, <2>4, <2>5 DEF RequestError
  <1>7. CASE UNCHANGED vars
    BY <1>7 DEF vars, TypeOK, CasInv
  <1>. QED BY <1>1, <1>2, <1>3, <1>4, <1>5, <1>6, <1>7 DEF Next

\* The entry of the bucket, the threads' labels and their readings keep their
\* types, and a write that would succeed is one the lease allows: the inductive
\* invariant of AcquireLease's read, check and compare-and-swap.
THEOREM Inductive == Spec => []IndInv
  BY InitInd, NextInd, PTL DEF Spec

\* The lease's variables keep their types.
THEOREM TypeCorrect == Spec => []TypeOK
  BY Inductive, PTL DEF IndInv

\* A node takes the lease from another only when its time stamp is at least the
\* lease's duration after the one it replaces, whatever happens between
\* AcquireLease's clock reading, its Get and its Update.
THEOREM HandoverHolds == Spec => HandoverAfterExpiry
  <1>1. IndInv /\ [Next]_vars =>
          [kv.rev # 0 /\ kv'.node # kv.node => kv'.ts >= kv.ts + TTL]_vars
    <2>. SUFFICES ASSUME TypeOK, CasInv, Next, kv.rev # 0, kv'.node # kv.node
                  PROVE  kv'.ts >= kv.ts + TTL
      BY DEF IndInv
    <2>1. PICK x \in Threads : (Cas(x) \/ RequestError(x)) /\ kv' # kv
      BY Zenon DEF Next, Tick, ReadClock, Get, FinishUpload, RefreshTick, ContextDone
    <2>2. /\ pc[x] = "cas"
          /\ kv.rev = rev[x]
          /\ kv' = [node |-> NodeOf(x), ts |-> now[x], rev |-> kv.rev + 1]
      BY <2>1 DEF Cas, RequestError
    <2>3. kv.ts + TTL <= now[x]
      BY <2>2 DEF CasInv
    <2>. QED BY <2>2, <2>3, LeaseAssumption DEF TypeOK, Entry
  <1>. QED BY <1>1, Inductive, PTL DEF Spec, HandoverAfterExpiry

-----------------------------------------------------------------------------
(* One uploader at a time, when requests are prompt and clocks agree well     *)
(* enough.                                                                    *)

C(w) == <<w, "caller">>
R(w) == <<w, "refresher">>

Half == TTL \div 2

\* The two threads of a worker, and that there are no others.
LEMMA Pairs ==
    /\ \A w \in Workers :
          /\ C(w) \in Threads /\ C(w)[1] = w /\ C(w)[2] = "caller"
          /\ R(w) \in Threads /\ R(w)[1] = w /\ R(w)[2] = "refresher"
          /\ NodeOf(C(w)) = Owner[w] /\ NodeOf(R(w)) = Owner[w]
          /\ Owner[w] \in Nodes
    /\ \A v, w \in Workers :
          C(v) # R(w) /\ (C(v) = C(w) => v = w) /\ (R(v) = R(w) => v = w)
    /\ \A x \in Threads :
          /\ x[1] \in Workers /\ NodeOf(x) = Owner[x[1]]
          /\ \/ x = C(x[1]) /\ x[2] = "caller"
             \/ x = R(x[1]) /\ x[2] = "refresher"
  BY LeaseAssumption DEF Threads, Roles, NodeOf, C, R

LEMMA Constants ==
    /\ Half \in Nat /\ MaxDelay \in Nat /\ TTL \in Nat
    /\ \A x \in Threads : Skew[NodeOf(x)] \in Nat
    /\ \A w \in Workers : Skew[Owner[w]] \in Nat
  BY LeaseAssumption, Pairs DEF Half

\* The lags of a refresher's steps grow by what each step may take.
LEMMA Lags ==
    /\ Lag("wait")  = 2 * MaxDelay
    /\ Lag("start") = Half + 3 * MaxDelay
    /\ Lag("get")   = Half + 4 * MaxDelay
    /\ Lag("cas")   = Half + 5 * MaxDelay
  BY DEF Lag, Half

\* What TimeInv says of one thread.
InTime(x) ==
    /\ since[x] <= clock
    /\ pc[x] \in {"get", "cas"} \/ (pc[x] = "start" /\ x[2] = "refresher")
          => clock <= since[x] + MaxDelay
    /\ pc[x] = "wait" => clock <= since[x] + Half + MaxDelay
    /\ pc[x] = "get" => now[x] = since[x] + Skew[NodeOf(x)]
    /\ pc[x] = "cas" => /\ now[x] <= since[x] + Skew[NodeOf(x)]
                        /\ since[x] + Skew[NodeOf(x)] <= now[x] + MaxDelay

LEMMA TimeParts ==
    /\ TimeInv <=> \A x \in Threads : InTime(x)
    /\ TimeInv' <=> \A x \in Threads : InTime(x)'
  BY DEF TimeInv, InTime, Half, NodeOf

\* The numbers of a thread and of the entry.
LEMMA Numbers ==
  ASSUME TypeOK
  PROVE  /\ clock \in Nat /\ kv.ts \in Nat /\ kv.rev \in Nat
         /\ \A x \in Threads : now[x] \in Nat /\ since[x] \in Nat /\ rev[x] \in Nat
  BY DEF TypeOK, Entry

LEMMA GoFacts ==
  ASSUME TypeOK, NEW x \in Threads, NEW label, Go(x, label)
  PROVE  /\ pc'[x] = label
         /\ since'[x] = IF label \in {"off", "done"} THEN 0 ELSE clock
         /\ \A y \in Threads : y # x => pc'[y] = pc[y] /\ since'[y] = since[y]
  BY Zenon DEF Go, TypeOK

\* The threads that do not move stay in time.
LEMMA StaysInTime ==
  ASSUME NEW y \in Threads, InTime(y), clock' = clock,
         pc'[y] = pc[y], since'[y] = since[y], now'[y] = now[y]
  PROVE  InTime(y)'
  BY Zenon DEF InTime, NodeOf

\* A thread that moves to a step other than those inside AcquireLease starts
\* its time there.
LEMMA GoInTime ==
  ASSUME TypeOK, TimeInv, NEW x \in Threads, NEW label, Go(x, label),
         label \notin {"get", "cas"}, clock' = clock, now' = now
  PROVE  TimeInv'
  <1>. SUFFICES ASSUME NEW y \in Threads PROVE InTime(y)'
    BY Zenon, TimeParts
  <1>1. CASE y = x
    <2>1. pc'[y] = label /\ since'[y] \in {0, clock} /\ (label \in {"start", "wait"} => since'[y] = clock)
      BY Zenon, <1>1, GoFacts
    <2>2. clock \in Nat /\ Half \in Nat /\ MaxDelay \in Nat
      BY Zenon, Constants, Numbers
    <2>3. since'[y] <= clock
      BY <2>1, <2>2
    <2>4. label \in {"start", "wait"} =>
             clock <= since'[y] + MaxDelay /\ clock <= since'[y] + Half + MaxDelay
      BY <2>1, <2>2
    <2>. QED BY Zenon, <2>1, <2>3, <2>4 DEF InTime
  <1>2. CASE y # x
    BY Zenon, <1>2, GoFacts, TimeParts, StaysInTime
  <1>. QED BY <1>1, <1>2

\* Time passes only while no thread is at its deadline.
LEMMA TickInTime ==
  ASSUME TypeOK, TimeInv, Tick
  PROVE  TimeInv'
  <1>. SUFFICES ASSUME NEW y \in Threads PROVE InTime(y)'
    BY Zenon, TimeParts
  <1>1. /\ clock' = clock + 1 /\ clock < Deadline(y)
        /\ UNCHANGED <<kv, pc, now, rev, since>>
    BY Zenon DEF Tick
  <1>2. InTime(y) /\ clock \in Nat /\ since[y] \in Nat /\ MaxDelay \in Nat /\ Half \in Nat
    BY Zenon, TimeParts, Numbers, Constants
  <1>3. /\ pc[y] \in {"get", "cas"} => Deadline(y) = since[y] + MaxDelay
        /\ pc[y] = "start" /\ y[2] = "refresher" => Deadline(y) = since[y] + MaxDelay
        /\ pc[y] = "wait" => Deadline(y) = since[y] + Half + MaxDelay
    BY DEF Deadline, Half
  <1>4. since[y] <= clock + 1
    BY <1>2 DEF InTime
  <1>5. /\ clock < since[y] + MaxDelay => clock + 1 <= since[y] + MaxDelay
        /\ clock < since[y] + Half + MaxDelay => clock + 1 <= since[y] + Half + MaxDelay
    BY <1>2
  <1>. QED BY Zenon, <1>1, <1>2, <1>3, <1>4, <1>5 DEF InTime, NodeOf

\* Where Get and Cas find the threads, and the step Get takes.
LEMMA GetInTime ==
  ASSUME TypeOK, TimeInv, NEW x \in Threads, pc[x] = "get", Go(x, "cas"),
         clock' = clock, now' = now
  PROVE  TimeInv'
  <1>. SUFFICES ASSUME NEW y \in Threads PROVE InTime(y)'
    BY Zenon, TimeParts
  <1>1. CASE y = x
    <2>1. pc'[x] = "cas" /\ since'[x] = clock
      BY Zenon, GoFacts
    <2>2. /\ since[x] <= clock /\ clock <= since[x] + MaxDelay
          /\ now[x] = since[x] + Skew[NodeOf(x)]
      BY Zenon, TimeParts DEF InTime
    <2>3. /\ clock \in Nat /\ since[x] \in Nat /\ MaxDelay \in Nat /\ now[x] \in Nat
          /\ Skew[NodeOf(x)] \in Nat
      BY Zenon, Constants, Numbers
    <2>4. /\ clock <= clock /\ clock <= clock + MaxDelay
          /\ now[x] <= clock + Skew[NodeOf(x)]
          /\ clock + Skew[NodeOf(x)] <= now[x] + MaxDelay
      BY <2>2, <2>3
    <2>. QED BY Zenon, <1>1, <2>1, <2>4 DEF InTime, NodeOf
  <1>2. CASE y # x
    BY ZenonT(40), <1>2, GoFacts, TimeParts, StaysInTime
  <1>. QED BY <1>1, <1>2

LEMMA ReadInTime ==
  ASSUME TypeOK, TimeInv, NEW x \in Threads, ReadClock(x)
  PROVE  TimeInv'
  <1>. SUFFICES ASSUME NEW y \in Threads PROVE InTime(y)'
    BY Zenon, TimeParts
  <1>0. /\ now' = [now EXCEPT ![x] = clock + Skew[NodeOf(x)]] /\ Go(x, "get")
        /\ clock' = clock
    BY Zenon DEF ReadClock
  <1>1. CASE y = x
    <2>1. pc'[x] = "get" /\ since'[x] = clock
      BY Zenon, <1>0, GoFacts
    <2>2. now'[x] = clock + Skew[NodeOf(x)]
      BY Zenon, <1>0 DEF TypeOK
    <2>3. clock \in Nat /\ MaxDelay \in Nat
      BY Zenon, Constants, Numbers
    <2>4. clock <= clock /\ clock <= clock + MaxDelay
      BY <2>3
    <2>. QED BY Zenon, <1>0, <1>1, <2>1, <2>2, <2>4 DEF InTime, NodeOf
  <1>2. CASE y # x
    <2>1. now'[y] = now[y]
      BY Zenon, <1>0, <1>2 DEF TypeOK
    <2>. QED BY ZenonT(40), <1>0, <1>2, <2>1, GoFacts, TimeParts, StaysInTime
  <1>. QED BY <1>1, <1>2

\* A caller that acquires the lease starts its refresher.
LEMMA AcquiredFacts ==
  ASSUME TypeOK, NEW x \in Threads, Acquired(x)
  PROVE  LET w == x[1]
         IN  \/ /\ x = C(w) /\ pc'[x] = "upload" /\ since'[x] = 0
                /\ pc'[R(w)] = "start" /\ since'[R(w)] = clock
                /\ \A y \in Threads : y # x /\ y # R(w) =>
                      pc'[y] = pc[y] /\ since'[y] = since[y]
             \/ x = R(w) /\ Go(x, "wait")
  <1>1. CASE x[2] = "caller"
    <2>1. x = C(x[1]) /\ R(x[1]) \in Threads /\ x # R(x[1])
      BY Zenon, <1>1, Pairs
    <2>2. /\ pc' = [pc EXCEPT ![x] = "upload", ![R(x[1])] = "start"]
          /\ since' = [since EXCEPT ![x] = 0, ![R(x[1])] = clock]
      BY <1>1 DEF Acquired, R
    <2>. QED BY <2>1, <2>2 DEF TypeOK
  <1>2. CASE x[2] # "caller"
    BY Zenon, <1>2, Pairs DEF Acquired
  <1>. QED BY <1>1, <1>2

LEMMA AcquiredInTime ==
  ASSUME TypeOK, TimeInv, NEW x \in Threads, Acquired(x), clock' = clock, now' = now
  PROVE  TimeInv'
  <1>1. CASE Go(x, "wait")
    BY Zenon, <1>1, GoInTime
  <1>2. CASE /\ pc'[x] = "upload" /\ since'[x] = 0
             /\ pc'[R(x[1])] = "start" /\ since'[R(x[1])] = clock
             /\ \A y \in Threads : y # x /\ y # R(x[1]) =>
                   pc'[y] = pc[y] /\ since'[y] = since[y]
    <2>. SUFFICES ASSUME NEW y \in Threads PROVE InTime(y)'
      BY Zenon, TimeParts
    <2>0. clock \in Nat /\ MaxDelay \in Nat
      BY Zenon, Numbers, Constants
    <2>1. 0 <= clock /\ clock <= clock /\ clock <= clock + MaxDelay
      BY <2>0
    <2>2. CASE y = x
      BY Zenon, <1>2, <2>1, <2>2 DEF InTime
    <2>3. CASE y = R(x[1])
      BY Zenon, <1>2, <2>1, <2>3 DEF InTime
    <2>4. CASE y # x /\ y # R(x[1])
      BY Zenon, <1>2, <2>4, TimeParts, StaysInTime
    <2>. QED BY <2>2, <2>3, <2>4
  <1>. QED BY Zenon, <1>1, <1>2, AcquiredFacts

-----------------------------------------------------------------------------

\* RoleInv in terms of the threads: a caller is never at a refresher's steps
\* of its own, nor the other way round.
RoleSteps(x) ==
    IF x[2] = "caller" THEN {"start", "get", "cas", "upload", "done"}
                       ELSE {"off", "start", "get", "cas", "wait"}

LEMMA RoleParts ==
    /\ RoleInv <=> \A x \in Threads : pc[x] \in RoleSteps(x)
    /\ RoleInv' <=> \A x \in Threads : pc'[x] \in RoleSteps(x)
  <1>1. \A w \in Workers :
           /\ RoleSteps(C(w)) = {"start", "get", "cas", "upload", "done"}
           /\ RoleSteps(R(w)) = {"off", "start", "get", "cas", "wait"}
    BY Pairs DEF RoleSteps
  <1>a. \A x \in Threads : \E w \in Workers : x = C(w) \/ x = R(w)
    <2>. SUFFICES ASSUME NEW x \in Threads
                  PROVE  \E w \in Workers : x = C(w) \/ x = R(w)
      OBVIOUS
    <2>1. x[1] \in Workers /\ (x = C(x[1]) \/ x = R(x[1]))
      BY Zenon, Pairs
    <2>. QED BY Zenon, <2>1
  <1>b. \A w \in Workers : C(w) \in Threads /\ R(w) \in Threads
    BY Zenon, Pairs
  <1>c. /\ RoleInv <=> \A w \in Workers :
              pc[C(w)] \in RoleSteps(C(w)) /\ pc[R(w)] \in RoleSteps(R(w))
        /\ RoleInv' <=> \A w \in Workers :
              pc'[C(w)] \in RoleSteps(C(w)) /\ pc'[R(w)] \in RoleSteps(R(w))
    BY Zenon, <1>1 DEF RoleInv, C, R
  <1>2. RoleInv <=> \A x \in Threads : pc[x] \in RoleSteps(x)
    BY Zenon, <1>a, <1>b, <1>c
  <1>3. RoleInv' <=> \A x \in Threads : pc'[x] \in RoleSteps(x)
    BY Zenon, <1>a, <1>b, <1>c
  <1>. QED BY <1>2, <1>3

LEMMA GoRole ==
  ASSUME TypeOK, RoleInv, NEW x \in Threads, NEW label \in RoleSteps(x), Go(x, label)
  PROVE  RoleInv'
  BY Zenon, RoleParts, GoFacts

\* What an active worker has of the lease, and how recent it is.
LEMMA HoldParts ==
    /\ \A w : Active(w) <=> pc[C(w)] = "upload" /\ pc[R(w)] # "off"
    /\ \A w : Active(w)' <=> pc'[C(w)] = "upload" /\ pc'[R(w)] # "off"
    /\ \A w : HoldsLease(w) <=>
          /\ kv.rev # 0 /\ kv.node = Owner[w]
          /\ since[R(w)] + Skew[Owner[w]] <= kv.ts + Lag(pc[R(w)])
    /\ \A w : HoldsLease(w)' <=>
          /\ kv'.rev # 0 /\ kv'.node = Owner[w]
          /\ since'[R(w)] + Skew[Owner[w]] <= kv'.ts + Lag(pc'[R(w)])
  BY Zenon DEF Active, HoldsLease, C, R, Lag

\* A thread moves and leaves the entry alone.  If it is the refresher of an
\* active worker, the time it took is within the lag of its next step.
LEMMA GoHolds ==
  ASSUME TypeOK, LeaseInv, NEW x \in Threads, NEW label, Go(x, label), kv' = kv,
         label # "upload", pc[x] # "off",
         x[2] = "refresher" /\ label # "off" /\ kv.node = NodeOf(x) =>
            /\ label \in {"start", "get", "cas", "wait"}
            /\ clock + Lag(pc[x]) <= since[x] + Lag(label)
            /\ Lag(pc[x]) \in Nat /\ Lag(label) \in Nat
  PROVE  \A w \in Workers : Active(w)' => HoldsLease(w)'
  <1>. TAKE w \in Workers
  <1>. HAVE Active(w)'
  <1>0. C(w) \in Threads /\ R(w) \in Threads /\ C(w) # R(w)
    BY Zenon, Pairs
  <1>a. pc'[C(w)] = "upload" /\ pc'[R(w)] # "off"
    BY Zenon, HoldParts
  <1>b. pc'[x] = label
    BY Zenon, GoFacts
  <1>1. C(w) # x
    BY Zenon, <1>a, <1>b
  <1>2. pc[C(w)] = "upload" /\ pc[R(w)] # "off"
    <2>1. pc'[C(w)] = pc[C(w)]
      BY Zenon, <1>0, <1>1, GoFacts
    <2>2. R(w) # x => pc'[R(w)] = pc[R(w)]
      BY Zenon, <1>0, GoFacts
    <2>. QED BY Zenon, <1>a, <2>1, <2>2
  <1>3. HoldsLease(w)
    BY Zenon, <1>2, HoldParts DEF LeaseInv
  <1>4. CASE R(w) # x
    <2>1. pc'[R(w)] = pc[R(w)] /\ since'[R(w)] = since[R(w)]
      BY Zenon, <1>0, <1>4, GoFacts
    <2>. QED BY Zenon, <1>3, <2>1, HoldParts
  <1>5. CASE R(w) = x
    <2>1. /\ kv.rev # 0 /\ kv.node = Owner[w] /\ NodeOf(x) = Owner[w]
          /\ since[x] + Skew[Owner[w]] <= kv.ts + Lag(pc[x])
      BY ZenonT(40), <1>3, <1>5, HoldParts, Pairs
    <2>2. pc'[x] = label /\ label # "off" /\ x[2] = "refresher"
      BY Zenon, <1>5, <1>a, <1>b, Pairs
    <2>3. /\ label \in {"start", "get", "cas", "wait"}
          /\ clock + Lag(pc[x]) <= since[x] + Lag(label)
          /\ Lag(pc[x]) \in Nat /\ Lag(label) \in Nat
      BY Zenon, <2>1, <2>2
    <2>4. since'[x] = clock
      BY Zenon, <2>3, GoFacts
    <2>5. /\ clock \in Nat /\ since[x] \in Nat /\ kv.ts \in Nat
          /\ Skew[Owner[w]] \in Nat
      BY Zenon, Numbers, Constants
    <2>6. clock + Skew[Owner[w]] <= kv.ts + Lag(label)
      BY <2>1, <2>3, <2>5
    <2>. QED BY Zenon, <1>5, <2>1, <2>2, <2>4, <2>6, HoldParts
  <1>. QED BY <1>4, <1>5

\* No other node can write the entry of an active worker: it would need a time
\* stamp as late as the end of the lease.
LEMMA NoTakeover ==
  ASSUME Timely, TypeOK, CasInv, LeaseInv, NEW x \in Threads, pc[x] = "cas",
         kv.rev = rev[x], NEW w \in Workers, Active(w)
  PROVE  NodeOf(x) = Owner[w]
  <1>. SUFFICES ASSUME NodeOf(x) # Owner[w] PROVE FALSE
    OBVIOUS
  <1>1. /\ kv.rev # 0 /\ kv.node = Owner[w]
        /\ since[R(w)] + Skew[Owner[w]] <= kv.ts + Lag(pc[R(w)])
    BY Zenon, HoldParts DEF LeaseInv
  <1>2. kv.ts + TTL <= now[x]
    BY Zenon, <1>1 DEF CasInv
  <1>3. InTime(x) /\ InTime(R(w)) /\ R(w) \in Threads /\ R(w)[2] = "refresher"
    BY Zenon, TimeParts, Pairs DEF LeaseInv
  <1>4. now[x] <= since[x] + Skew[NodeOf(x)] /\ since[x] <= clock
    BY Zenon, <1>3 DEF InTime
  <1>5. pc[R(w)] \in {"start", "get", "cas", "wait"}
    BY Zenon, HoldParts DEF LeaseInv, RoleInv, R
  <1>6. /\ clock \in Nat /\ kv.ts \in Nat /\ now[x] \in Nat /\ since[x] \in Nat
        /\ since[R(w)] \in Nat /\ Half \in Nat /\ MaxDelay \in Nat /\ TTL \in Nat
        /\ Skew[NodeOf(x)] \in Nat /\ Skew[Owner[w]] \in Nat
    BY Zenon, <1>3, Numbers, Constants
  <1>7. clock + Skew[Owner[w]] <= kv.ts + Half + 6 * MaxDelay
    <2>1. CASE pc[R(w)] = "wait"
      <3>1. clock <= since[R(w)] + Half + MaxDelay
        BY Zenon, <1>3, <2>1 DEF InTime
      <3>2. since[R(w)] + Skew[Owner[w]] <= kv.ts + 2 * MaxDelay
        BY Zenon, <1>1, <2>1, Lags
      <3>. QED BY <1>6, <3>1, <3>2
    <2>2. CASE pc[R(w)] \in {"start", "get", "cas"}
      <3>1. clock <= since[R(w)] + MaxDelay
        BY Zenon, <1>3, <2>2 DEF InTime
      <3>2. \E k \in {3, 4, 5} :
               since[R(w)] + Skew[Owner[w]] <= kv.ts + (Half + k * MaxDelay)
        BY Zenon, <1>1, <2>2, Lags
      <3>3. since[R(w)] + Skew[Owner[w]] <= kv.ts + (Half + 5 * MaxDelay)
        BY <1>6, <3>2
      <3>. QED BY <1>6, <3>1, <3>3
    <2>. QED BY Zenon, <1>5, <2>1, <2>2
  <1>8. Half + 6 * MaxDelay + Skew[NodeOf(x)] < TTL + Skew[Owner[w]]
    <2>1. NodeOf(x) \in Nodes /\ Owner[w] \in Nodes
      BY LeaseAssumption DEF Threads, NodeOf
    <2>2. \A m, n \in Nodes : Half + 6 * MaxDelay + Skew[m] < TTL + Skew[n]
      BY Zenon DEF Timely, Half
    <2>. QED BY <2>1, <2>2
  <1>. QED BY SMTT(40), <1>2, <1>4, <1>6, <1>7, <1>8

\* A successful write keeps the lease of every active worker: they are on the
\* writer's node, and its time stamp is at most two steps old.
LEMMA WriteHolds ==
  ASSUME Timely, TypeOK, CasInv, LeaseInv, NEW x \in Threads, pc[x] = "cas",
         kv.rev = rev[x],
         kv' = [node |-> NodeOf(x), ts |-> now[x], rev |-> kv.rev + 1]
  PROVE  /\ kv'.rev # 0 /\ kv'.node = NodeOf(x) /\ kv'.ts = now[x]
         /\ clock + Skew[NodeOf(x)] <= now[x] + 2 * MaxDelay
         /\ \A w \in Workers :
               Active(w) /\ pc'[R(w)] = pc[R(w)] /\ since'[R(w)] = since[R(w)]
                  => HoldsLease(w)'
  <1>1. kv'.rev # 0 /\ kv'.node = NodeOf(x) /\ kv'.ts = now[x]
    BY Numbers
  <1>2. InTime(x)
    BY Zenon, TimeParts DEF LeaseInv
  <1>3. /\ clock <= since[x] + MaxDelay
        /\ since[x] + Skew[NodeOf(x)] <= now[x] + MaxDelay
    BY Zenon, <1>2 DEF InTime
  <1>4. /\ clock \in Nat /\ since[x] \in Nat /\ now[x] \in Nat /\ Half \in Nat
        /\ MaxDelay \in Nat /\ Skew[NodeOf(x)] \in Nat
    BY Zenon, Numbers, Constants
  <1>5. clock + Skew[NodeOf(x)] <= now[x] + 2 * MaxDelay
    BY <1>3, <1>4
  <1>6. ASSUME NEW w \in Workers, Active(w),
               pc'[R(w)] = pc[R(w)], since'[R(w)] = since[R(w)]
        PROVE  HoldsLease(w)'
    <2>1. NodeOf(x) = Owner[w]
      BY Zenon, <1>6, NoTakeover
    <2>2. since[R(w)] \in Nat /\ since[R(w)] <= clock
      BY Zenon, TimeParts, Pairs, Numbers DEF LeaseInv, InTime
    <2>3. pc[R(w)] \in {"start", "get", "cas", "wait"}
      BY Zenon, <1>6, HoldParts DEF LeaseInv, RoleInv, R
    <2>4. since[R(w)] + Skew[NodeOf(x)] <= now[x] + 2 * MaxDelay
      BY <1>4, <1>5, <2>2
    <2>5. since[R(w)] + Skew[NodeOf(x)] <= now[x] + Lag(pc[R(w)])
      <3>1. \A k \in {3, 4, 5} : since[R(w)] + Skew[NodeOf(x)] <= now[x] + (Half + k * MaxDelay)
        BY <1>4, <2>2, <2>4
      <3>. QED BY Zenon, <2>3, <2>4, <3>1, Lags
    <2>. QED BY Zenon, <1>1, <1>6, <2>1, <2>5, HoldParts
  <1>. QED BY Zenon, <1>1, <1>5, <1>6

-----------------------------------------------------------------------------

\* Every step keeps the lease with the workers that upload under it.
LEMMA LeaseStep ==
  ASSUME Timely, TypeOK, CasInv, LeaseInv, [Next]_vars
  PROVE  LeaseInv'
  <1>. DEFINE Holds == \A w \in Workers : Active(w) => HoldsLease(w)
  <1>a. RoleInv /\ TimeInv
    BY Zenon DEF LeaseInv
  <1>l. /\ Lag("wait") \in Nat /\ Lag("start") \in Nat /\ Lag("get") \in Nat
        /\ Lag("cas") \in Nat
    BY Lags, Constants
  <1>1. CASE Tick
    <2>1. pc' = pc /\ since' = since /\ kv' = kv
      BY Zenon, <1>1 DEF Tick
    <2>2. RoleInv' /\ Holds'
      BY Zenon, <2>1, HoldParts, RoleParts DEF LeaseInv
    <2>. QED BY Zenon, <1>a, <1>1, <2>2, TickInTime DEF LeaseInv
  <1>2. ASSUME NEW x \in Threads, ReadClock(x) PROVE LeaseInv'
    <2>0. pc[x] = "start" /\ Go(x, "get") /\ kv' = kv
      BY Zenon, <1>2 DEF ReadClock
    <2>1. "get" \in RoleSteps(x)
      BY Zenon DEF RoleSteps
    <2>2. x[2] = "refresher" => clock + Lag(pc[x]) <= since[x] + Lag("get")
      <3>. SUFFICES ASSUME x[2] = "refresher"
                    PROVE  clock + Lag("start") <= since[x] + Lag("get")
        BY Zenon, <2>0
      <3>1. clock <= since[x] + MaxDelay
        BY Zenon, <1>a, <2>0, TimeParts DEF InTime
      <3>2. clock \in Nat /\ since[x] \in Nat /\ MaxDelay \in Nat /\ Half \in Nat
        BY Zenon, Numbers, Constants
      <3>. QED BY <3>1, <3>2, Lags
    <2>3. RoleInv'
      BY Zenon, <1>a, <2>0, <2>1, GoRole
    <2>4. Holds'
      BY Zenon, <1>l, <2>0, <2>2, GoHolds
    <2>. QED BY Zenon, <1>a, <1>2, <2>3, <2>4, ReadInTime DEF LeaseInv
  <1>3. ASSUME NEW x \in Threads, Get(x) PROVE LeaseInv'
    <2>0. pc[x] = "get" /\ clock' = clock /\ kv' = kv /\ now' = now
      BY Zenon, <1>3 DEF Get
    <2>1. CASE HeldByOther(x) /\ Refused(x)
      <3>1. PICK label \in RoleSteps(x) :
               Go(x, label) /\ label \in {"done", "start"}
        BY Zenon, <2>1 DEF Refused, RoleSteps
      <3>2. kv.node # NodeOf(x)
        BY Zenon, <2>1 DEF HeldByOther
      <3>3. RoleInv'
        BY Zenon, <1>a, <3>1, GoRole
      <3>4. TimeInv'
        BY Zenon, <1>a, <2>0, <3>1, GoInTime
      <3>5. Holds'
        BY Zenon, <2>0, <3>1, <3>2, GoHolds
      <3>. QED BY Zenon, <3>3, <3>4, <3>5 DEF LeaseInv
    <2>2. CASE Go(x, "cas")
      <3>1. "cas" \in RoleSteps(x)
        BY Zenon DEF RoleSteps
      <3>2. clock + Lag("get") <= since[x] + Lag("cas")
        <4>1. clock <= since[x] + MaxDelay
          BY Zenon, <1>a, <2>0, TimeParts DEF InTime
        <4>2. clock \in Nat /\ since[x] \in Nat /\ MaxDelay \in Nat /\ Half \in Nat
          BY Zenon, Numbers, Constants
        <4>. QED BY <4>1, <4>2, Lags
      <3>3. RoleInv'
        BY Zenon, <1>a, <2>2, <3>1, GoRole
      <3>4. TimeInv'
        BY Zenon, <1>a, <2>0, <2>2, GetInTime
      <3>5. Holds'
        BY Zenon, <1>l, <2>0, <2>2, <3>2, GoHolds
      <3>. QED BY Zenon, <3>3, <3>4, <3>5 DEF LeaseInv
    <2>. QED BY Zenon, <1>3, <2>1, <2>2 DEF Get
  <1>4. ASSUME NEW x \in Threads, pc[x] \in {"get", "cas"}, Failed(x),
               clock' = clock, now' = now,
               \/ kv' = kv
               \/ /\ pc[x] = "cas" /\ kv.rev = rev[x]
                  /\ kv' = [node |-> NodeOf(x), ts |-> now[x], rev |-> kv.rev + 1]
        PROVE  LeaseInv'
    <2>1. PICK label \in RoleSteps(x) : /\ Go(x, label)
                                        /\ \/ x[2] = "caller" /\ label = "done"
                                           \/ x[2] # "caller" /\ label = "off"
      BY Zenon, <1>4 DEF Failed, RoleSteps
    <2>2. RoleInv'
      BY Zenon, <1>a, <2>1, GoRole
    <2>3. TimeInv'
      BY Zenon, <1>a, <1>4, <2>1, GoInTime
    <2>4. CASE kv' = kv
      <3>1. Holds'
        BY Zenon, <1>4, <2>1, <2>4, GoHolds
      <3>. QED BY Zenon, <2>2, <2>3, <3>1 DEF LeaseInv
    <2>5. CASE /\ pc[x] = "cas" /\ kv.rev = rev[x]
               /\ kv' = [node |-> NodeOf(x), ts |-> now[x], rev |-> kv.rev + 1]
      <3>1. ASSUME NEW w \in Workers, Active(w)' PROVE HoldsLease(w)'
        <4>1. C(w) \in Threads /\ R(w) \in Threads
          BY Zenon, Pairs
        <4>2. C(w) # x /\ R(w) # x
          <5>1. pc'[C(w)] = "upload" /\ pc'[R(w)] # "off"
            BY Zenon, <3>1, HoldParts
          <5>2. pc'[x] = label
            BY Zenon, <2>1, GoFacts
          <5>3. R(w)[2] # "caller"
            BY Zenon, Pairs
          <5>. QED BY <2>1, <5>1, <5>2, <5>3
        <4>3. /\ pc'[C(w)] = pc[C(w)] /\ pc'[R(w)] = pc[R(w)]
              /\ since'[R(w)] = since[R(w)]
          BY ZenonT(40), <2>1, <4>1, <4>2, GoFacts
        <4>4. Active(w)
          BY Zenon, <3>1, <4>3, HoldParts
        <4>. QED BY Zenon, <2>5, <4>3, <4>4, WriteHolds
      <3>. QED BY Zenon, <2>2, <2>3, <3>1 DEF LeaseInv
    <2>. QED BY Zenon, <1>4, <2>4, <2>5
  <1>5. ASSUME NEW x \in Threads, pc[x] = "cas", kv.rev = rev[x],
               kv' = [node |-> NodeOf(x), ts |-> now[x], rev |-> kv.rev + 1],
               Acquired(x), clock' = clock, now' = now
        PROVE  LeaseInv'
    <2>. DEFINE v == x[1]
    <2>0. /\ v \in Workers /\ C(v) \in Threads /\ R(v) \in Threads
          /\ NodeOf(x) = Owner[v] /\ C(v) # R(v)
      BY Zenon, Pairs
    <2>1. TimeInv'
      BY Zenon, <1>a, <1>5, AcquiredInTime
    <2>2. /\ kv'.rev # 0 /\ kv'.node = Owner[v] /\ kv'.ts = now[x]
          /\ clock + Skew[Owner[v]] <= now[x] + 2 * MaxDelay
      BY Zenon, <1>5, <2>0, WriteHolds
    <2>3. /\ clock + Skew[Owner[v]] <= now[x] + Lag("wait")
          /\ clock + Skew[Owner[v]] <= now[x] + Lag("start")
      <3>1. /\ clock \in Nat /\ now[x] \in Nat /\ Half \in Nat /\ MaxDelay \in Nat
            /\ Skew[Owner[v]] \in Nat
        BY Zenon, <2>0, Numbers, Constants
      <3>. QED BY <2>2, <3>1, Lags
    <2>4. /\ pc'[R(v)] \in {"start", "wait"} /\ since'[R(v)] = clock
          /\ \A y \in Threads : y # C(v) /\ y # R(v) =>
                pc'[y] = pc[y] /\ since'[y] = since[y]
          /\ \/ x = C(v) /\ pc'[x] = "upload"
             \/ x = R(v) /\ pc'[C(v)] = pc[C(v)]
      <3>1. CASE x = R(v) /\ Go(x, "wait")
        <4>1. /\ pc'[x] = "wait" /\ since'[x] = clock
              /\ \A y \in Threads : y # x => pc'[y] = pc[y] /\ since'[y] = since[y]
          BY Zenon, <3>1, GoFacts
        <4>. QED BY Zenon, <2>0, <3>1, <4>1
      <3>2. CASE ~(x = R(v) /\ Go(x, "wait"))
        <4>1. /\ x = C(v) /\ pc'[x] = "upload"
              /\ pc'[R(v)] = "start" /\ since'[R(v)] = clock
              /\ \A y \in Threads : y # x /\ y # R(v) =>
                    pc'[y] = pc[y] /\ since'[y] = since[y]
          BY Zenon, <1>5, <3>2, AcquiredFacts
        <4>. QED BY Zenon, <4>1
      <3>. QED BY Zenon, <3>1, <3>2
    <2>5. RoleInv'
      <3>1. pc'[C(v)] \in RoleSteps(C(v)) /\ pc'[R(v)] \in RoleSteps(R(v))
        BY ZenonT(40), <1>a, <2>0, <2>4, RoleParts, Pairs DEF RoleSteps
      <3>. QED BY Zenon, <1>a, <2>4, <3>1, RoleParts
    <2>6. ASSUME NEW w \in Workers, Active(w)' PROVE HoldsLease(w)'
      <3>1. CASE w = v
        BY Zenon, <2>2, <2>3, <2>4, <3>1, HoldParts
      <3>2. CASE w # v
        <4>1. /\ C(w) \in Threads /\ R(w) \in Threads
              /\ C(w) # C(v) /\ C(w) # R(v) /\ R(w) # C(v) /\ R(w) # R(v)
          BY ZenonT(40), <2>0, <3>2, Pairs
        <4>2. /\ pc'[C(w)] = pc[C(w)] /\ pc'[R(w)] = pc[R(w)]
              /\ since'[R(w)] = since[R(w)]
          BY Zenon, <2>4, <4>1
        <4>3. Active(w)
          BY Zenon, <2>6, <4>2, HoldParts
        <4>. QED BY Zenon, <1>5, <4>2, <4>3, WriteHolds
      <3>. QED BY Zenon, <3>1, <3>2
    <2>. QED BY Zenon, <2>1, <2>5, <2>6 DEF LeaseInv
  <1>6. ASSUME NEW w \in Workers, FinishUpload(w) PROVE LeaseInv'
    <2>1. /\ pc[C(w)] = "upload" /\ Go(C(w), "done")
          /\ kv' = kv /\ clock' = clock /\ now' = now
      BY Zenon, <1>6 DEF FinishUpload, C
    <2>2. "done" \in RoleSteps(C(w)) /\ C(w) \in Threads /\ C(w)[2] = "caller"
      BY Zenon, Pairs DEF RoleSteps
    <2>3. RoleInv' /\ TimeInv'
      BY Zenon, <1>a, <2>1, <2>2, GoRole, GoInTime
    <2>4. Holds'
      BY Zenon, <2>1, <2>2, GoHolds
    <2>. QED BY Zenon, <2>3, <2>4 DEF LeaseInv
  <1>7. ASSUME NEW w \in Workers, RefreshTick(w) PROVE LeaseInv'
    <2>1. /\ pc[R(w)] = "wait" /\ Go(R(w), "start")
          /\ kv' = kv /\ clock' = clock /\ now' = now
      BY Zenon, <1>7 DEF RefreshTick, R
    <2>2. "start" \in RoleSteps(R(w)) /\ R(w) \in Threads /\ R(w)[2] = "refresher"
      BY Zenon, Pairs DEF RoleSteps
    <2>3. RoleInv' /\ TimeInv'
      BY Zenon, <1>a, <2>1, <2>2, GoRole, GoInTime
    <2>4. clock + Lag("wait") <= since[R(w)] + Lag("start")
      <3>1. clock <= since[R(w)] + Half + MaxDelay
        BY Zenon, <1>a, <2>1, <2>2, TimeParts DEF InTime
      <3>2. /\ clock \in Nat /\ since[R(w)] \in Nat /\ MaxDelay \in Nat /\ Half \in Nat
        BY Zenon, <2>2, Numbers, Constants
      <3>. QED BY <3>1, <3>2, Lags
    <2>5. Holds'
      BY Zenon, <1>l, <2>1, <2>2, <2>4, GoHolds
    <2>. QED BY Zenon, <2>3, <2>5 DEF LeaseInv
  <1>8. ASSUME NEW w \in Workers, ContextDone(w) PROVE LeaseInv'
    <2>1. /\ pc[R(w)] = "wait" /\ Go(R(w), "off")
          /\ kv' = kv /\ clock' = clock /\ now' = now
      BY Zenon, <1>8 DEF ContextDone, R
    <2>2. "off" \in RoleSteps(R(w)) /\ R(w) \in Threads
      BY Zenon, Pairs DEF RoleSteps
    <2>3. RoleInv' /\ TimeInv'
      BY Zenon, <1>a, <2>1, <2>2, GoRole, GoInTime
    <2>4. Holds'
      BY Zenon, <2>1, <2>2, GoHolds
    <2>. QED BY Zenon, <2>3, <2>4 DEF LeaseInv
  <1>9. CASE UNCHANGED vars
    BY Zenon, <1>9 DEF vars, LeaseInv, RoleInv, TimeInv, Active, HoldsLease, NodeOf, Lag
  <1>10. ASSUME NEW x \in Threads, Cas(x) PROVE LeaseInv'
    BY Zenon, <1>4, <1>5, <1>10 DEF Cas
  <1>11. ASSUME NEW x \in Threads, RequestError(x) PROVE LeaseInv'
    BY Zenon, <1>4, <1>11 DEF RequestError
  <1>. QED BY Zenon, <1>1, <1>2, <1>3, <1>6, <1>7, <1>8, <1>9, <1>10, <1>11 DEF Next

\* Two nodes never upload at the same time, each with a refresher at work:
\* for any lease duration, clocks and step times for which half the duration
\* exceeds six steps and the difference of two clocks, whatever requests fail.
THEOREM LeaseIsExclusive ==
  ASSUME Timely
  PROVE  Spec => []OneUploader
  <1>1. Init => LeaseInv
    <2>. SUFFICES ASSUME Init PROVE LeaseInv
      OBVIOUS
    <2>1. \A x \in Threads : pc[x] = IF x[2] = "caller" THEN "start" ELSE "off"
      BY DEF Init
    <2>2. RoleInv
      BY Zenon, <2>1, RoleParts DEF RoleSteps
    <2>3. \A x \in Threads : since[x] <= clock /\ ~(pc[x] = "start" /\ x[2] = "refresher")
      BY <2>1 DEF Init
    <2>4. TimeInv
      BY Zenon, <2>1, <2>3, TimeParts DEF InTime
    <2>5. \A w \in Workers : ~Active(w)
      BY Zenon, <2>1, Pairs, HoldParts
    <2>. QED BY Zenon, <2>2, <2>4, <2>5 DEF LeaseInv
  <1>2. IndInv /\ LeaseInv /\ [Next]_vars => LeaseInv'
    BY LeaseStep DEF IndInv
  <1>3. LeaseInv => OneUploader
    BY Zenon DEF LeaseInv, HoldsLease, Active, OneUploader, Uploading
  <1>. QED BY <1>1, <1>2, <1>3, Inductive, PTL DEF Spec
=============================================================================
