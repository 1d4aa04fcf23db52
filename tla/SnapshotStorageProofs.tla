------------------------- MODULE SnapshotStorageProofs -------------------------
(***************************************************************************)
(* Proofs about the snapshot storages, for any number of nodes, backups and  *)
(* failures, and with or without the lease.                                  *)
(***************************************************************************)
EXTENDS SnapshotStorage, TLAPS

Labels   == {"idle", "upload", "put", "rename", "write", "read"}
Outcomes == {"none", "notFound", "whole", "torn"}

\* The objects the actions build are objects.
LEMMA ObjectFacts ==
    /\ Absent \in Object
    /\ Absent.whole
    /\ \A v \in 0..MaxBackups : /\ Backup(v) \in Object /\ Backup(v).whole
                                /\ Torn(v) \in Object /\ ~Torn(v).whole
    /\ \A o \in Object : o.whole \in BOOLEAN /\ o.ver \in 0..MaxBackups
  BY StorageAssumption DEF Absent, Backup, Torn, Object

\* A step of Upload that stores an object keeps the invariant, if only SFTP
\* stores incomplete ones.
LEMMA StoreObjectInd ==
  ASSUME TypeOK, WholeInv, WholeUnlessDisturbed,
         NEW n \in Nodes, NEW obj \in Object, NEW label \in {"idle", "put", "rename", "write"},
         StoreObject(n, obj, label), done' \in 0..MaxBackups,
         store # "sftp" => obj.whole,
         label \in {"put", "rename", "write"} => mine[n] # 0
  PROVE  TypeOK' /\ WholeInv' /\ WholeUnlessDisturbed'
  <1>. USE DEF StoreObject
  <1>1. pc' \in [Nodes -> Labels] /\ disturbed' \in [Nodes -> BOOLEAN]
    <2>1. pc' \in [Nodes -> Labels]
      BY DEF TypeOK, Labels
    <2>2. \A m \in Nodes : (disturbed[m] \/ pc[m] = "read") \in BOOLEAN
      BY DEF TypeOK
    <2>. QED BY <2>1, <2>2
  <1>2. \A m \in Nodes : Uploading(m)' => mine'[m] # 0
    <2>. SUFFICES ASSUME NEW m \in Nodes, Uploading(m)' PROVE mine[m] # 0
      OBVIOUS
    <2>1. CASE m = n
      <3>1. pc'[n] = label
        BY DEF TypeOK
      <3>. QED BY <2>1, <3>1 DEF Uploading
    <2>2. CASE m # n
      BY <2>2 DEF TypeOK, Uploading
    <2>. QED BY <2>1, <2>2
  <1>3. TypeOK'
    BY <1>1, <1>2 DEF TypeOK, Labels
  <1>4. \A m \in Nodes : pc'[m] = "read" => pc[m] = "read" /\ disturbed'[m]
    BY Zenon DEF TypeOK, Labels
  <1>5. \A m \in Nodes : disturbed[m] => disturbed'[m]
    BY DEF TypeOK
  <1>6. WholeInv'
    BY <1>4 DEF WholeInv
  <1>7. WholeUnlessDisturbed'
    BY <1>5 DEF WholeUnlessDisturbed
  <1>. QED BY <1>3, <1>6, <1>7

\* The step of Upload that returns nil keeps the invariant.
LEMMA CompletesInd ==
  ASSUME TypeOK, WholeInv, WholeUnlessDisturbed,
         NEW n \in Nodes, NEW obj \in Object, Completes(n, obj),
         store # "sftp" => obj.whole
  PROVE  TypeOK' /\ WholeInv' /\ WholeUnlessDisturbed'
  <1>1. done' \in 0..MaxBackups
    BY DEF Completes, TypeOK
  <1>. QED BY <1>1, StoreObjectInd DEF Completes

-----------------------------------------------------------------------------

\* Initially nothing is stored and nobody reads.
LEMMA InitInd == Init => IndInv
  <1>. SUFFICES ASSUME Init PROVE IndInv
    OBVIOUS
  <1>1. TypeOK
    BY ObjectFacts, StorageAssumption DEF Init, TypeOK, Uploading
  <1>2. WholeInv /\ WholeUnlessDisturbed
    BY ObjectFacts DEF Init, WholeInv, WholeUnlessDisturbed
  <1>. QED BY <1>1, <1>2 DEF IndInv

\* Every step of an upload keeps the invariant.
LEMMA SaveInd ==
  ASSUME TypeOK, WholeInv, WholeUnlessDisturbed, NEW n \in Nodes, SaveSnapshot(n)
  PROVE  TypeOK' /\ WholeInv' /\ WholeUnlessDisturbed'
  <1>m. mine[n] \in 0..MaxBackups /\ (Uploading(n) => mine[n] # 0)
    BY DEF TypeOK
  <1>d. UNCHANGED done => done' \in 0..MaxBackups
    BY DEF TypeOK
  <1>1. CASE BackupTo(n)
    <2>1. backups + 1 \in 0..MaxBackups /\ backups + 1 # 0
      BY <1>1, StorageAssumption DEF BackupTo, TypeOK
    <2>2. /\ mine' = [mine EXCEPT ![n] = backups + 1]
          /\ pc' = [pc EXCEPT ![n] = "upload"]
          /\ backups' = backups + 1
          /\ UNCHANGED <<store, object, seen, outcome, history, failures>>
      BY <1>1 DEF BackupTo
    <2>3. \A m \in Nodes : Uploading(m)' => mine'[m] # 0
      BY <2>1, <2>2 DEF TypeOK, Uploading
    <2>4. TypeOK'
      BY <2>1, <2>2, <2>3 DEF TypeOK, history
    <2>5. WholeInv' /\ WholeUnlessDisturbed'
      BY <2>2 DEF TypeOK, WholeInv, WholeUnlessDisturbed, history
    <2>. QED BY <2>4, <2>5
  <1>2. CASE NatsDelete(n)
    <2>1. mine[n] # 0
      BY <1>2, <1>m DEF NatsDelete, Uploading
    <2>. QED BY <1>2, <1>d, <2>1, ObjectFacts, StoreObjectInd DEF NatsDelete
  <1>3. CASE NatsPut(n)
    BY <1>3, <1>m, ObjectFacts, CompletesInd DEF NatsPut
  <1>4. CASE S3Put(n)
    BY <1>4, <1>m, ObjectFacts, CompletesInd DEF S3Put
  <1>5. CASE WebDAVWrite(n)
    <2>1. /\ pc[n] = "upload"
          /\ pc' = [pc EXCEPT ![n] = "rename"]
          /\ UNCHANGED <<store, object, mine, seen, outcome, backups, history, failures>>
      BY <1>5 DEF WebDAVWrite
    <2>2. \A m \in Nodes : Uploading(m)' => mine'[m] # 0
      BY <2>1 DEF TypeOK, Uploading
    <2>3. TypeOK'
      BY <2>1, <2>2 DEF TypeOK, history
    <2>4. WholeInv' /\ WholeUnlessDisturbed'
      BY <2>1 DEF TypeOK, WholeInv, WholeUnlessDisturbed, history
    <2>. QED BY <2>3, <2>4
  <1>6. CASE WebDAVRename(n)
    BY <1>6, <1>m, ObjectFacts, CompletesInd DEF WebDAVRename
  <1>7. CASE SftpTruncate(n)
    <2>1. mine[n] # 0
      BY <1>7, <1>m DEF SftpTruncate, Uploading
    <2>. QED BY <1>7, <1>d, <1>m, <2>1, ObjectFacts, StoreObjectInd DEF SftpTruncate
  <1>8. CASE SftpWrite(n)
    <2>1. PICK obj \in Object : Completes(n, obj)
      BY <1>8, <1>m, ObjectFacts DEF SftpWrite
    <2>2. store = "sftp"
      BY <1>8 DEF SftpWrite
    <2>. QED BY <2>1, <2>2, CompletesInd
  <1>. QED
    BY <1>1, <1>2, <1>3, <1>4, <1>5, <1>6, <1>7, <1>8 DEF SaveSnapshot

\* Every step of a download keeps the invariant.
LEMMA RestoreInd ==
  ASSUME TypeOK, WholeInv, WholeUnlessDisturbed, NEW n \in Nodes, RestoreSnapshot(n)
  PROVE  TypeOK' /\ WholeInv' /\ WholeUnlessDisturbed'
  <1>1. CASE Open(n)
    <2>0. /\ begun' = [begun EXCEPT ![n] = done]
          /\ UNCHANGED <<store, object, mine, backups, done, failures>>
          /\ pc[n] = "idle"
      BY <1>1 DEF Open
    <2>1. CASE /\ outcome' = [outcome EXCEPT ![n] = "notFound"]
               /\ UNCHANGED <<pc, seen, disturbed>>
      <3>1. TypeOK'
        BY <2>0, <2>1 DEF TypeOK, Uploading
      <3>2. WholeInv' /\ WholeUnlessDisturbed'
        BY <2>0, <2>1 DEF TypeOK, WholeInv, WholeUnlessDisturbed
      <3>. QED BY <3>1, <3>2
    <2>2. CASE /\ seen' = [seen EXCEPT ![n] = object]
               /\ pc' = [pc EXCEPT ![n] = "read"]
               /\ outcome' = [outcome EXCEPT ![n] = "none"]
               /\ disturbed' = [disturbed EXCEPT ![n] = ~object.whole]
      <3>1. (~object.whole) \in BOOLEAN
        OBVIOUS
      <3>2. disturbed' \in [Nodes -> BOOLEAN]
        BY <2>2, <3>1 DEF TypeOK
      <3>3. \A m \in Nodes : Uploading(m)' => mine'[m] # 0
        BY <2>0, <2>2 DEF TypeOK, Uploading
      <3>4. TypeOK'
        BY <2>0, <2>2, <3>2, <3>3 DEF TypeOK
      <3>5. disturbed'[n] = ~object.whole /\ seen'[n] = object /\ outcome'[n] = "none"
        BY <2>2 DEF TypeOK
      <3>6. \A m \in Nodes \ {n} :
               /\ disturbed'[m] = disturbed[m] /\ seen'[m] = seen[m]
               /\ outcome'[m] = outcome[m] /\ pc'[m] = pc[m]
        BY <2>2 DEF TypeOK
      <3>7. WholeInv'
        BY Zenon, <2>0, <3>5, <3>6 DEF WholeInv
      <3>8. WholeUnlessDisturbed'
        BY <2>0, <3>5, <3>6 DEF WholeUnlessDisturbed
      <3>. QED BY <3>4, <3>7, <3>8
    <2>. QED BY <1>1, <2>1, <2>2 DEF Open
  <1>2. CASE Read(n)
    <2>0. /\ pc[n] = "read"
          /\ seen' = [seen EXCEPT ![n] = Content(n)]
          /\ outcome' = [outcome EXCEPT ![n] =
                            IF Content(n).whole THEN "whole" ELSE "torn"]
          /\ pc' = [pc EXCEPT ![n] = "idle"]
          /\ UNCHANGED <<store, object, mine, backups, done, begun, disturbed, failures>>
      BY <1>2 DEF Read, Restored, history
    <2>1. Content(n) \in Object
      BY ObjectFacts DEF Content, TypeOK
    <2>2. ~Content(n).whole => store = "sftp" /\ disturbed[n]
      BY <2>0, ObjectFacts DEF Content, WholeInv, TypeOK
    <2>3. \A m \in Nodes : Uploading(m)' => mine'[m] # 0
      BY <2>0 DEF TypeOK, Uploading
    <2>4. TypeOK'
      BY <2>0, <2>1, <2>3 DEF TypeOK
    <2>5. WholeInv'
      BY <2>0, <2>2 DEF WholeInv, TypeOK
    <2>6. WholeUnlessDisturbed'
      BY <2>0, <2>2 DEF WholeUnlessDisturbed, TypeOK
    <2>. QED BY <2>4, <2>5, <2>6
  <1>3. CASE ReadReplaced(n)
    <2>0. /\ pc' = [pc EXCEPT ![n] = "idle"]
          /\ UNCHANGED <<store, object, mine, seen, outcome, backups, history, failures>>
      BY <1>3 DEF ReadReplaced
    <2>1. TypeOK'
      BY <2>0 DEF TypeOK, Uploading, history
    <2>2. WholeInv' /\ WholeUnlessDisturbed'
      BY <2>0 DEF TypeOK, WholeInv, WholeUnlessDisturbed, history
    <2>. QED BY <2>1, <2>2
  <1>. QED BY <1>1, <1>2, <1>3 DEF RestoreSnapshot

\* Every step keeps the invariant.
LEMMA NextInd == IndInv /\ [Next]_vars => IndInv'
  <1>. SUFFICES ASSUME TypeOK, WholeInv, WholeUnlessDisturbed, [Next]_vars
                PROVE  TypeOK' /\ WholeInv' /\ WholeUnlessDisturbed'
    BY DEF IndInv
  <1>1. ASSUME NEW n \in Nodes, SaveSnapshot(n)
        PROVE  TypeOK' /\ WholeInv' /\ WholeUnlessDisturbed'
    BY <1>1, SaveInd
  <1>2. ASSUME NEW n \in Nodes, RestoreSnapshot(n)
        PROVE  TypeOK' /\ WholeInv' /\ WholeUnlessDisturbed'
    BY <1>2, RestoreInd
  <1>3. ASSUME NEW n \in Nodes, Fail(n)
        PROVE  TypeOK' /\ WholeInv' /\ WholeUnlessDisturbed'
    <2>0. /\ pc' = [pc EXCEPT ![n] = "idle"]
          /\ failures' \in 0..MaxFailures
          /\ UNCHANGED <<store, object, mine, seen, outcome, backups, history>>
      BY <1>3, StorageAssumption DEF Fail, TypeOK
    <2>1. TypeOK'
      BY <2>0 DEF TypeOK, Uploading, history
    <2>2. WholeInv' /\ WholeUnlessDisturbed'
      BY <2>0 DEF TypeOK, WholeInv, WholeUnlessDisturbed, history
    <2>. QED BY <2>1, <2>2
  <1>4. CASE UNCHANGED vars
    BY <1>4 DEF vars, history, TypeOK, Uploading, WholeInv, WholeUnlessDisturbed
  <1>. QED BY <1>1, <1>2, <1>3, <1>4 DEF Next

\* What a download knows of the object it reads, through every interleaving of
\* uploads and downloads: the inductive invariant.
THEOREM Inductive == Spec => []IndInv
  BY InitInd, NextInd, PTL DEF Spec

\* The variables of the storages keep their types.
THEOREM TypeCorrect == Spec => []TypeOK
  BY Inductive, PTL DEF IndInv

\* RestoreSnapshot over NATS, S3 and WebDAV only ever restores a complete
\* backup, and over SFTP too unless an upload touched the file meanwhile or
\* left it incomplete.
THEOREM RestoresWholeBackups == Spec => []WholeUnlessDisturbed
  BY Inductive, PTL DEF IndInv

-----------------------------------------------------------------------------
(* Under the lease: what a download gets is not older than the uploads that   *)
(* were reported before it began.                                             *)

\* A step of Upload that stores an object at least as new as every backup an
\* Upload has reported, or NATS's deletion, keeps the order.
LEMMA StoreObjectOrder ==
  ASSUME Exclusive, TypeOK, OrderInv, NotOlder, done' \in 0..MaxBackups,
         NEW n \in Nodes, NEW obj \in Object, NEW label \in {"idle", "put", "rename", "write"},
         StoreObject(n, obj, label), Uploading(n),
         done <= done', done' <= backups,
         obj.ver >= done' \/ (store = "nats" /\ obj.ver = 0)
  PROVE  OrderInv' /\ NotOlder'
  <1>1. /\ object' = obj /\ pc' = [pc EXCEPT ![n] = label]
        /\ UNCHANGED <<store, mine, seen, outcome, backups, begun, failures>>
    BY DEF StoreObject
  <1>2. pc \in [Nodes -> Labels]
    BY DEF TypeOK, Labels
  <1>3. \A m \in Nodes : /\ Uploading(m)' => Uploading(m)
                         /\ pc'[m] = "read" => pc[m] = "read"
    BY <1>1, <1>2 DEF Uploading
  <1>4. \A m \in Nodes : begun[m] <= done'
    <2>. TAKE m \in Nodes
    <2>1. begun[m] <= done /\ begun[m] \in Nat /\ done \in Nat /\ done' \in Nat
      BY DEF OrderInv, TypeOK
    <2>. QED BY <2>1
  <1>5. OrderInv'
    BY <1>1, <1>3, <1>4 DEF OrderInv
  <1>6. NotOlder'
    BY <1>1 DEF NotOlder
  <1>. QED BY <1>5, <1>6

\* The step that returns nil stores the backup it reports.
LEMMA CompletesOrder ==
  ASSUME Exclusive, TypeOK, OrderInv, NotOlder,
         NEW n \in Nodes, NEW obj \in Object, Completes(n, obj), Uploading(n),
         obj.ver = mine[n]
  PROVE  OrderInv' /\ NotOlder'
  <1>1. mine[n] = backups /\ done <= backups /\ done \in 0..MaxBackups
    BY DEF OrderInv, TypeOK
  <1>2. backups \in 0..MaxBackups
    BY DEF TypeOK
  <1>3. done' = IF mine[n] > done THEN mine[n] ELSE done
    BY DEF Completes
  <1>4. done' = backups
    BY <1>1, <1>2, <1>3
  <1>5. StoreObject(n, obj, "idle") /\ obj.ver >= done' /\ done' <= backups
    BY <1>1, <1>2, <1>4 DEF Completes
  <1>. QED BY <1>1, <1>2, <1>4, <1>5, StoreObjectOrder

\* A step that only moves node n, and starts no upload or download, keeps the
\* order.
LEMMA MoveOrder ==
  ASSUME TypeOK, OrderInv, NotOlder, NEW n \in Nodes, NEW label \in Labels,
         pc' = [pc EXCEPT ![n] = label], label # "read",
         label \in {"upload", "put", "rename", "write"} => Uploading(n),
         UNCHANGED <<store, object, mine, seen, outcome, backups, done, begun>>
  PROVE  OrderInv' /\ NotOlder'
  <1>1. pc \in [Nodes -> Labels]
    BY DEF TypeOK, Labels
  <1>2. \A m \in Nodes : /\ Uploading(m)' => Uploading(m)
                         /\ pc'[m] = "read" => pc[m] = "read"
    BY <1>1 DEF Uploading
  <1>3. OrderInv'
    BY <1>2 DEF OrderInv
  <1>4. NotOlder'
    BY DEF NotOlder
  <1>. QED BY <1>3, <1>4

\* Every step of an upload keeps the order.
LEMMA SaveOrder ==
  ASSUME Exclusive, TypeOK, OrderInv, NotOlder, NEW n \in Nodes, SaveSnapshot(n)
  PROVE  OrderInv' /\ NotOlder'
  <1>m. mine[n] \in 0..MaxBackups
    BY DEF TypeOK
  <1>o. /\ Absent.ver = 0
        /\ \A v \in 0..MaxBackups : Backup(v).ver = v /\ Torn(v).ver = v
    BY DEF Absent, Backup, Torn
  <1>d. done \in 0..MaxBackups /\ done <= backups /\ done <= done
    BY DEF TypeOK, OrderInv
  <1>1. CASE BackupTo(n)
    <2>1. /\ \A m \in Nodes : ~Uploading(m)
          /\ mine' = [mine EXCEPT ![n] = backups + 1]
          /\ pc' = [pc EXCEPT ![n] = "upload"]
          /\ backups' = backups + 1
          /\ UNCHANGED <<store, object, seen, outcome, done, begun>>
      BY <1>1 DEF BackupTo, history
    <2>2. mine'[n] = backups + 1
      BY <2>1 DEF TypeOK
    <2>3. \A m \in Nodes : Uploading(m)' => m = n
      BY <2>1 DEF Uploading, TypeOK
    <2>4. \A m \in Nodes : pc'[m] = "read" => pc[m] = "read"
      BY <2>1 DEF TypeOK
    <2>5. done <= backups + 1
      BY <1>d DEF TypeOK
    <2>6. OrderInv'
      BY <2>1, <2>2, <2>3, <2>4, <2>5 DEF OrderInv
    <2>7. NotOlder'
      BY <2>1 DEF NotOlder
    <2>. QED BY <2>6, <2>7
  <1>2. CASE NatsDelete(n)
    <2>1. /\ StoreObject(n, Absent, "put") /\ done' = done /\ store = "nats"
          /\ Uploading(n)
      BY <1>2 DEF NatsDelete, Uploading
    <2>. QED BY <1>o, <1>d, <2>1, ObjectFacts, StoreObjectOrder
  <1>3. CASE NatsPut(n)
    <2>1. Completes(n, Backup(mine[n])) /\ Uploading(n)
      BY <1>3 DEF NatsPut, Uploading
    <2>. QED BY <1>m, <1>o, <2>1, ObjectFacts, CompletesOrder
  <1>4. CASE S3Put(n)
    <2>1. Completes(n, Backup(mine[n])) /\ Uploading(n)
      BY <1>4 DEF S3Put, Uploading
    <2>. QED BY <1>m, <1>o, <2>1, ObjectFacts, CompletesOrder
  <1>5. CASE WebDAVWrite(n)
    <2>1. pc' = [pc EXCEPT ![n] = "rename"] /\ Uploading(n) /\ "rename" \in Labels
      BY <1>5 DEF WebDAVWrite, Uploading, Labels
    <2>2. UNCHANGED <<store, object, mine, seen, outcome, backups, done, begun>>
      BY <1>5 DEF WebDAVWrite, history
    <2>. QED BY Zenon, <2>1, <2>2, MoveOrder
  <1>6. CASE WebDAVRename(n)
    <2>1. Completes(n, Backup(mine[n])) /\ Uploading(n)
      BY <1>6 DEF WebDAVRename, Uploading
    <2>. QED BY <1>m, <1>o, <2>1, ObjectFacts, CompletesOrder
  <1>7. CASE SftpTruncate(n)
    <2>1. StoreObject(n, Torn(mine[n]), "write") /\ done' = done /\ Uploading(n)
      BY <1>7 DEF SftpTruncate, Uploading
    <2>2. mine[n] = backups
      BY <2>1 DEF OrderInv
    <2>3. mine[n] >= done
      BY <2>2, <1>d, <1>m
    <2>. QED BY <1>m, <1>o, <1>d, <2>1, <2>3, ObjectFacts, StoreObjectOrder
  <1>8. CASE SftpWrite(n)
    <2>1. Uploading(n) /\ \E obj \in {Backup(mine[n]), Torn(mine[n])} : Completes(n, obj)
      BY <1>8 DEF SftpWrite, Uploading
    <2>. QED BY <1>m, <1>o, <2>1, ObjectFacts, CompletesOrder
  <1>. QED
    BY <1>1, <1>2, <1>3, <1>4, <1>5, <1>6, <1>7, <1>8 DEF SaveSnapshot

\* Every step of a download keeps the order.
LEMMA RestoreOrder ==
  ASSUME Exclusive, TypeOK, OrderInv, NotOlder, NEW n \in Nodes, RestoreSnapshot(n)
  PROVE  OrderInv' /\ NotOlder'
  <1>t. /\ done \in Nat /\ begun[n] \in Nat /\ object.ver \in Nat
        /\ seen[n].ver \in Nat /\ begun[n] <= done
    BY ObjectFacts, StorageAssumption DEF TypeOK, OrderInv
  <1>1. CASE Open(n)
    <2>0. /\ begun' = [begun EXCEPT ![n] = done]
          /\ UNCHANGED <<store, object, mine, backups, done>>
          /\ pc[n] = "idle"
      BY <1>1 DEF Open
    <2>1. CASE /\ object.ver = 0
               /\ outcome' = [outcome EXCEPT ![n] = "notFound"]
               /\ UNCHANGED <<pc, seen, disturbed>>
      <3>1. done = 0 \/ store = "nats"
        BY <1>t, <2>1 DEF OrderInv
      <3>2. OrderInv'
        BY <1>t, <2>0, <2>1 DEF OrderInv, Uploading, TypeOK
      <3>3. NotOlder'
        BY <2>0, <2>1, <3>1 DEF NotOlder, TypeOK
      <3>. QED BY <3>2, <3>3
    <2>2. CASE /\ object.ver # 0
               /\ seen' = [seen EXCEPT ![n] = object]
               /\ pc' = [pc EXCEPT ![n] = "read"]
               /\ outcome' = [outcome EXCEPT ![n] = "none"]
      <3>1. object.ver >= done
        BY <2>2 DEF OrderInv
      <3>2. \A m \in Nodes : Uploading(m)' => Uploading(m)
        BY <2>2 DEF Uploading, TypeOK
      <3>3. /\ seen'[n] = object /\ begun'[n] = done /\ outcome'[n] = "none"
            /\ \A m \in Nodes \ {n} : /\ seen'[m] = seen[m] /\ begun'[m] = begun[m]
                                      /\ outcome'[m] = outcome[m] /\ pc'[m] = pc[m]
        BY <2>0, <2>2 DEF TypeOK
      <3>4. done <= done
        BY SMTT(40), <1>t
      <3>5. OrderInv'
        BY SMTT(40), <2>0, <3>1, <3>2, <3>3, <3>4 DEF OrderInv
      <3>6. NotOlder'
        BY <2>0, <3>3 DEF NotOlder
      <3>. QED BY <3>5, <3>6
    <2>. QED BY <1>1, <2>1, <2>2 DEF Open
  <1>2. CASE Read(n)
    <2>0. /\ pc[n] = "read"
          /\ seen' = [seen EXCEPT ![n] = Content(n)]
          /\ outcome' = [outcome EXCEPT ![n] =
                            IF Content(n).whole THEN "whole" ELSE "torn"]
          /\ pc' = [pc EXCEPT ![n] = "idle"]
          /\ UNCHANGED <<store, object, mine, backups, done, begun>>
      BY <1>2 DEF Read, Restored, history
    <2>1. Content(n).ver >= begun[n]
      <3>1. CASE store = "sftp" /\ object # seen[n]
        <4>1. Content(n).ver = object.ver
          BY <3>1 DEF Content, Torn
        <4>2. object.ver >= done
          BY SMTT(40), <3>1 DEF OrderInv
        <4>. QED BY <1>t, <4>1, <4>2
      <3>2. CASE ~(store = "sftp" /\ object # seen[n])
        BY <2>0, <3>2 DEF Content, OrderInv
      <3>. QED BY <3>1, <3>2
    <2>2. \A m \in Nodes : /\ Uploading(m)' => Uploading(m)
                           /\ pc'[m] = "read" => m # n /\ pc[m] = "read"
      BY <2>0 DEF Uploading, TypeOK
    <2>3. /\ seen'[n] = Content(n) /\ outcome'[n] # "notFound"
          /\ \A m \in Nodes \ {n} : seen'[m] = seen[m] /\ outcome'[m] = outcome[m]
      BY SMTT(40), <2>0 DEF TypeOK
    <2>4. OrderInv'
      BY SMTT(40), <2>0, <2>2, <2>3 DEF OrderInv
    <2>5. NotOlder'
      BY <2>0, <2>1, <2>3 DEF NotOlder
    <2>. QED BY <2>4, <2>5
  <1>3. CASE ReadReplaced(n)
    <2>1. /\ pc' = [pc EXCEPT ![n] = "idle"] /\ "idle" \in Labels
          /\ UNCHANGED <<store, object, mine, seen, outcome, backups, done, begun>>
      BY <1>3 DEF ReadReplaced, history, Labels
    <2>. QED BY Zenon, <2>1, MoveOrder
  <1>. QED BY <1>1, <1>2, <1>3 DEF RestoreSnapshot

\* A node that restores a snapshot after an Upload returned nil gets that
\* backup or a later one, over every storage and whatever fails, as long as the
\* lease keeps uploads apart; only NATS, between its deletion and its put, may
\* report that there is none.
THEOREM RestoresTheLatest == Spec => []NotOlder
  <1>. DEFINE Inv == Exclusive => OrderInv /\ NotOlder
  <1>1. Init => Inv
    BY DEF Init, OrderInv, NotOlder, Uploading, Absent
  <1>2. TypeOK /\ Inv /\ [Next]_vars => Inv'
    <2>. SUFFICES ASSUME Exclusive, TypeOK, OrderInv, NotOlder, [Next]_vars
                  PROVE  OrderInv' /\ NotOlder'
      OBVIOUS
    <2>1. ASSUME NEW n \in Nodes, SaveSnapshot(n) PROVE OrderInv' /\ NotOlder'
      BY <2>1, SaveOrder
    <2>2. ASSUME NEW n \in Nodes, RestoreSnapshot(n) PROVE OrderInv' /\ NotOlder'
      BY <2>2, RestoreOrder
    <2>3. ASSUME NEW n \in Nodes, Fail(n) PROVE OrderInv' /\ NotOlder'
      <3>1. /\ pc' = [pc EXCEPT ![n] = "idle"] /\ "idle" \in Labels
            /\ UNCHANGED <<store, object, mine, seen, outcome, backups, done, begun>>
        BY <2>3 DEF Fail, history, Labels
      <3>. QED BY Zenon, <3>1, MoveOrder
    <2>4. CASE UNCHANGED vars
      BY <2>4 DEF vars, history, OrderInv, NotOlder, Uploading
    <2>. QED BY <2>1, <2>2, <2>3, <2>4 DEF Next
  <1>3. Inv => NotOlder
    BY Zenon DEF NotOlder
  <1>. HIDE DEF Inv
  <1>. QED BY <1>1, <1>2, <1>3, TypeCorrect, PTL DEF Spec
=============================================================================
