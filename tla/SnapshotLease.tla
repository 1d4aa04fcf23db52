----------------------------- MODULE SnapshotLease -----------------------------
(***************************************************************************)
(* The lease that decides which node uploads a snapshot: an entry of a NATS *)
(* key-value bucket with the holder's node id and time stamp, taken and     *)
(* refreshed by compare-and-swap (replicatorMetaStore), around each call of *)
(* Replicator.SaveSnapshot.                                                 *)
(*                                                                          *)
(* A worker is one call of SaveSnapshot: the caller, which acquires the     *)
(* lease and uploads, and the goroutine it starts, which keeps refreshing   *)
(* the lease until the caller's context is canceled.  Both run AcquireLease *)
(* and are the worker's two threads.  A node may have several workers: the  *)
(* publisher starts one for a log threshold, the main loop one for a timer. *)
(***************************************************************************)
EXTENDS Naturals

CONSTANTS
    Nodes,
    Workers,    \* calls of SaveSnapshot
    Owner,      \* Owner[w]: the node whose process runs worker w
    TTL,        \* SnapshotLeaseTTL, in ticks
    Skew,       \* Skew[n]: how far the clock of n is ahead of real time
    Errors,     \* requests to the bucket may fail
    MaxDelay,   \* a thread at work takes its next step within this time
    MaxTime     \* bound: real time

ASSUME LeaseAssumption ==
    /\ Owner \in [Workers -> Nodes]
    /\ TTL \in Nat \ {0}
    /\ Skew \in [Nodes -> Nat]
    /\ Errors \in BOOLEAN
    /\ MaxDelay \in Nat
    /\ MaxTime \in Nat

Roles   == {"caller", "refresher"}
Threads == Workers \X Roles
NodeOf(x) == Owner[x[1]]

VARIABLES
    clock,   \* real time
    kv,      \* the entry: holder, its time stamp, revision (0: no entry)
    pc,      \* pc[x]: where thread x is
    now,     \* now[x]: time.Now() of its running AcquireLease
    rev,     \* rev[x]: revision its Get returned
    since    \* since[x]: real time of its last step, 0 when nothing is due

vars == <<clock, kv, pc, now, rev, since>>

PCs   == {"off", "start", "get", "cas", "wait", "upload", "done"}
Entry == [node : Nodes, ts : Nat, rev : Nat]

Init ==
    /\ clock = 0
    /\ \E n \in Nodes : kv = [node |-> n, ts |-> 0, rev |-> 0]
    /\ pc = [x \in Threads |-> IF x[2] = "caller" THEN "start" ELSE "off"]
    /\ now = [x \in Threads |-> 0]
    /\ rev = [x \in Threads |-> 0]
    /\ since = [x \in Threads |-> 0]

Go(x, label) ==
    /\ pc' = [pc EXCEPT ![x] = label]
    /\ since' = [since EXCEPT ![x] = IF label \in {"off", "done"} THEN 0 ELSE clock]

\* A caller returns when its lease is refused or fails, and a refresher when
\* it fails; a refresher that is refused tries again at once.
Refused(x) == Go(x, IF x[2] = "caller" THEN "done" ELSE "start")
Failed(x)  == Go(x, IF x[2] = "caller" THEN "done" ELSE "off")

-----------------------------------------------------------------------------
(* AcquireLease: read the clock, get the entry, create or update it.        *)

\* Mutant: a time stamp taken from a difference that may fall below zero.
ReadClockMutant(x) ==
    /\ pc[x] = "start"
    /\ now' = [now EXCEPT ![x] = clock - Skew[NodeOf(x)]]
    /\ Go(x, "get")
    /\ UNCHANGED <<clock, kv, rev>>
ReadClock(x) ==
    /\ pc[x] = "start"
    /\ now' = [now EXCEPT ![x] = clock + Skew[NodeOf(x)]]
    /\ Go(x, "get")
    /\ UNCHANGED <<clock, kv, rev>>

\* Another node's lease that has not run out yet refuses this one.
\* Mutant: a lease counts as run out as soon as its refresh is due.
HeldByOtherMutant(x) ==
    /\ kv.rev # 0
    /\ kv.node # NodeOf(x)
    /\ kv.ts + (TTL \div 2) > now[x]
HeldByOther(x) ==
    /\ kv.rev # 0
    /\ kv.node # NodeOf(x)
    /\ kv.ts + TTL > now[x]

Get(x) ==
    /\ pc[x] = "get"
    /\ \/ /\ HeldByOther(x)
          /\ Refused(x)
          /\ UNCHANGED rev
       \/ /\ ~HeldByOther(x)
          /\ rev' = [rev EXCEPT ![x] = kv.rev]
          /\ Go(x, "cas")
    /\ UNCHANGED <<clock, kv, now>>

\* The lease is acquired: a caller starts its refresher and uploads, a
\* refresher waits for half the duration.
Acquired(x) ==
    LET w == x[1]
    IN  IF x[2] = "caller"
        THEN /\ pc' = [pc EXCEPT ![x] = "upload", ![<<w, "refresher">>] = "start"]
             /\ since' = [since EXCEPT ![x] = 0, ![<<w, "refresher">>] = clock]
        ELSE Go(x, "wait")

\* Create succeeds while there is no entry, Update while the entry still has
\* the revision that was read.
\* Mutant: the entry is put whatever its revision.
CasMutant(x) ==
    /\ pc[x] = "cas"
    /\ kv' = [node |-> NodeOf(x), ts |-> now[x], rev |-> kv.rev + 1]
    /\ Acquired(x)
    /\ UNCHANGED <<clock, now, rev>>
Cas(x) ==
    /\ pc[x] = "cas"
    /\ \/ /\ kv.rev = rev[x]
          /\ kv' = [node |-> NodeOf(x), ts |-> now[x], rev |-> kv.rev + 1]
          /\ Acquired(x)
       \/ /\ kv.rev # rev[x]
          /\ Failed(x)
          /\ UNCHANGED kv
    /\ UNCHANGED <<clock, now, rev>>

\* Get, Create or Update returns an error; a write may be stored all the same.
RequestError(x) ==
    /\ Errors
    /\ pc[x] \in {"get", "cas"}
    /\ Failed(x)
    /\ \/ UNCHANGED kv
       \/ /\ pc[x] = "cas"
          /\ kv.rev = rev[x]
          /\ kv' = [node |-> NodeOf(x), ts |-> now[x], rev |-> kv.rev + 1]
    /\ UNCHANGED <<clock, now, rev>>

-----------------------------------------------------------------------------
(* The two threads of a worker *)

\* ForceSaveSnapshot returns, and the deferred cancel ends the context.  The
\* node's mutex lets one upload run at a time; a second call returns at once,
\* which is this step without delay.
FinishUpload(w) ==
    /\ pc[<<w, "caller">>] = "upload"
    /\ Go(<<w, "caller">>, "done")
    /\ UNCHANGED <<clock, kv, now, rev>>

\* The refresher's select: the ticker, or the end of the context.
RefreshTick(w) ==
    LET x == <<w, "refresher">>
    IN  /\ pc[x] = "wait"
        /\ clock >= since[x] + (TTL \div 2)
        /\ Go(x, "start")
        /\ UNCHANGED <<clock, kv, now, rev>>

ContextDone(w) ==
    LET x == <<w, "refresher">>
    IN  /\ pc[x] = "wait"
        /\ pc[<<w, "caller">>] = "done"
        /\ Go(x, "off")
        /\ UNCHANGED <<clock, kv, now, rev>>

-----------------------------------------------------------------------------
(* Time.  A thread inside AcquireLease, or due to enter it, takes its next  *)
(* step within MaxDelay; callers may start at any time.                     *)

Deadline(x) ==
    CASE pc[x] \in {"get", "cas"} -> since[x] + MaxDelay
      [] pc[x] = "start" /\ x[2] = "refresher" -> since[x] + MaxDelay
      [] pc[x] = "wait" -> since[x] + (TTL \div 2) + MaxDelay
      [] OTHER -> MaxTime

Tick ==
    /\ clock < MaxTime
    /\ \A x \in Threads : clock < Deadline(x)
    /\ clock' = clock + 1
    /\ UNCHANGED <<kv, pc, now, rev, since>>

Next ==
    \/ Tick
    \/ \E x \in Threads : ReadClock(x) \/ Get(x) \/ Cas(x) \/ RequestError(x)
    \/ \E w \in Workers : FinishUpload(w) \/ RefreshTick(w) \/ ContextDone(w)

Spec == Init /\ [][Next]_vars

-----------------------------------------------------------------------------
(* Properties *)

\* The entry, the threads and their readings keep their types.
TypeOK ==
    /\ clock \in Nat
    /\ kv \in Entry
    /\ pc \in [Threads -> PCs]
    /\ now \in [Threads -> Nat]
    /\ rev \in [Threads -> Nat]
    /\ since \in [Threads -> Nat]

\* A lease changes hands only after it ran out: whoever takes the entry over
\* from another node carries a time stamp at least TTL later, however the
\* reads and writes of all threads interleave and however long they take.
HandoverAfterExpiry ==
    [][kv.rev # 0 /\ kv'.node # kv.node => kv'.ts >= kv.ts + TTL]_vars

\* A call of SaveSnapshot on n uploads, and its refresher has not given up.
Uploading(n) ==
    \E w \in Workers : /\ Owner[w] = n
                      /\ pc[<<w, "caller">>] = "upload"
                      /\ pc[<<w, "refresher">>] # "off"

\* Two nodes never upload at the same time under refreshed leases, which is what
\* the lease is for, as long as requests are prompt and clocks agree well enough.
\* A failed request ends a refresher while the upload it protects goes on, so an
\* upload without its refresher is left out.
OneUploader ==
    \A m, n \in Nodes : Uploading(m) /\ Uploading(n) => m = n

-----------------------------------------------------------------------------
(* The strengthening that makes HandoverAfterExpiry provable: a thread whose *)
(* revision is still current may write the entry.                            *)

CasInv ==
    \A x \in Threads : pc[x] = "cas" =>
        /\ rev[x] <= kv.rev
        /\ rev[x] = kv.rev /\ kv.rev # 0 =>
              kv.node = NodeOf(x) \/ kv.ts + TTL <= now[x]

IndInv == TypeOK /\ CasInv

-----------------------------------------------------------------------------
(* The strengthening that makes OneUploader provable: how old the entry of an *)
(* uploading worker can get before its refresher writes it again.             *)

\* From one write of a refresher to its next one passes half the duration and
\* six steps at most: what is left of the duration exceeds the difference of
\* any two clocks.
Timely ==
    \A m, n \in Nodes :
        (TTL \div 2) + 6 * MaxDelay + Skew[m] < TTL + Skew[n]

\* Each thread stays with the steps of its role.
RoleInv ==
    \A w \in Workers :
        /\ pc[<<w, "caller">>] \in {"start", "get", "cas", "upload", "done"}
        /\ pc[<<w, "refresher">>] \in {"off", "start", "get", "cas", "wait"}

\* No thread is past its deadline, and the time it read is that recent.
TimeInv ==
    \A x \in Threads :
        /\ since[x] <= clock
        /\ pc[x] \in {"get", "cas"} \/ (pc[x] = "start" /\ x[2] = "refresher")
              => clock <= since[x] + MaxDelay
        /\ pc[x] = "wait" => clock <= since[x] + (TTL \div 2) + MaxDelay
        /\ pc[x] = "get" => now[x] = since[x] + Skew[NodeOf(x)]
        /\ pc[x] = "cas" => /\ now[x] <= since[x] + Skew[NodeOf(x)]
                            /\ since[x] + Skew[NodeOf(x)] <= now[x] + MaxDelay

\* How far the entry's time stamp may be behind a refresher's last step.
Lag(label) ==
    CASE label = "wait"  -> 2 * MaxDelay
      [] label = "start" -> (TTL \div 2) + 3 * MaxDelay
      [] label = "get"   -> (TTL \div 2) + 4 * MaxDelay
      [] label = "cas"   -> (TTL \div 2) + 5 * MaxDelay

Active(w) == pc[<<w, "caller">>] = "upload" /\ pc[<<w, "refresher">>] # "off"

\* While a worker uploads and its refresher is at work, its node has the lease.
HoldsLease(w) ==
    LET x == <<w, "refresher">>
    IN  /\ kv.rev # 0
        /\ kv.node = Owner[w]
        /\ since[x] + Skew[Owner[w]] <= kv.ts + Lag(pc[x])

LeaseInv == RoleInv /\ TimeInv /\ \A w \in Workers : Active(w) => HoldsLease(w)
=============================================================================
