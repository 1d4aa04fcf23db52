---------------------------- MODULE SnapshotStorage ----------------------------
(***************************************************************************)
(* Saving and restoring snapshots: NatsDBSnapshot.SaveSnapshot backs the    *)
(* database up and uploads the file under one fixed name, RestoreSnapshot   *)
(* downloads that name.  The four storages differ in the steps of their     *)
(* Upload and Download, and uploads and downloads of different nodes        *)
(* overlap.                                                                 *)
(*                                                                         *)
(* A snapshot is named by the number of its backup.  The services behind    *)
(* the storages are external: NATS and S3 publish an object at once and     *)
(* notice, while it is read, that it was replaced; a WebDAV reader keeps    *)
(* the file it opened; SFTP reads and writes one file in place.             *)
(***************************************************************************)
EXTENDS Naturals

CONSTANTS
    Nodes,
    Stores,       \* storages to consider: "nats", "s3", "webdav", "sftp"
    Exclusive,    \* uploads are made under the snapshot lease
    MaxBackups,   \* bound: backups
    MaxFailures   \* bound: steps that return an error, processes that die

ASSUME StorageAssumption ==
    /\ Stores \subseteq {"nats", "s3", "webdav", "sftp"}
    /\ Exclusive \in BOOLEAN
    /\ MaxBackups \in Nat
    /\ MaxFailures \in Nat

VARIABLES
    store,      \* cfg snapshot.store
    object,     \* what is stored under the name; ver = 0 when nothing is
    pc,         \* pc[n]: the call that holds the mutex of n
    mine,       \* mine[n]: the backup n uploads
    seen,       \* seen[n]: the object n opened for download
    outcome,    \* outcome[n]: what the last download of n gave it
    backups,    \* count of backups
    done,       \* history: the latest backup whose Upload returned nil
    begun,      \* history: done when the last download of n began
    disturbed,  \* history: an upload wrote, or was cut short, while n downloaded
    failures    \* count of failures

history == <<done, begun, disturbed>>
vars    == <<store, object, pc, mine, seen, outcome, backups, history, failures>>

Object  == [ver : 0..MaxBackups, whole : BOOLEAN]
Absent  == [ver |-> 0, whole |-> TRUE]
Backup(v) == [ver |-> v, whole |-> TRUE]
Torn(v)   == [ver |-> v, whole |-> FALSE]

Uploading(n) == pc[n] \in {"upload", "put", "rename", "write"}

Init ==
    /\ store \in Stores
    /\ object = Absent
    /\ pc = [n \in Nodes |-> "idle"]
    /\ mine = [n \in Nodes |-> 0]
    /\ seen = [n \in Nodes |-> Absent]
    /\ outcome = [n \in Nodes |-> "none"]
    /\ backups = 0
    /\ done = 0
    /\ begun = [n \in Nodes |-> 0]
    /\ disturbed = [n \in Nodes |-> FALSE]
    /\ failures = 0

-----------------------------------------------------------------------------
(* SaveSnapshot.  The mutex of the node is free: pc[n] = "idle"; a call that *)
(* finds it taken returns ErrPendingSnapshot.                                *)

\* Mutant: the file of the backup before is uploaded.
BackupToMutant(n) ==
    /\ pc[n] = "idle"
    /\ Exclusive => \A m \in Nodes : ~Uploading(m)
    /\ backups < MaxBackups
    /\ backups' = backups + 1
    /\ mine' = [mine EXCEPT ![n] = backups]
    /\ pc' = [pc EXCEPT ![n] = "upload"]
    /\ UNCHANGED <<store, object, seen, outcome, history, failures>>
BackupTo(n) ==
    /\ pc[n] = "idle"
    /\ Exclusive => \A m \in Nodes : ~Uploading(m)
    /\ backups < MaxBackups
    /\ backups' = backups + 1
    /\ mine' = [mine EXCEPT ![n] = backups + 1]
    /\ pc' = [pc EXCEPT ![n] = "upload"]
    /\ UNCHANGED <<store, object, seen, outcome, history, failures>>

\* A step of Upload that changes what is stored, seen by running downloads.
StoreObject(n, obj, label) ==
    /\ object' = obj
    /\ pc' = [pc EXCEPT ![n] = label]
    /\ disturbed' = [m \in Nodes |-> disturbed[m] \/ pc[m] = "read"]
    /\ UNCHANGED <<store, mine, seen, outcome, backups, begun, failures>>

\* The last step of an Upload that returns nil.
Completes(n, obj) ==
    /\ StoreObject(n, obj, "idle")
    /\ done' = IF mine[n] > done THEN mine[n] ELSE done

\* NATS deletes the old object and then puts the new one.
NatsDelete(n) ==
    /\ store = "nats"
    /\ pc[n] = "upload"
    /\ StoreObject(n, Absent, "put")
    /\ UNCHANGED done

NatsPut(n) ==
    /\ store = "nats"
    /\ pc[n] = "put"
    /\ Completes(n, Backup(mine[n]))

\* S3 puts the new object over the old one.
S3Put(n) ==
    /\ store = "s3"
    /\ pc[n] = "upload"
    /\ Completes(n, Backup(mine[n]))

\* WebDAV writes a temporary file of its own and renames it.
\* Mutants: it writes the file under its final name; it removes the old file
\* first.
WebDAVWriteMutant(n) ==
    /\ store = "webdav"
    /\ pc[n] = "upload"
    /\ StoreObject(n, Torn(mine[n]), "rename")
    /\ UNCHANGED done
WebDAVWriteMutantDelete(n) ==
    /\ store = "webdav"
    /\ pc[n] = "upload"
    /\ StoreObject(n, Absent, "rename")
    /\ UNCHANGED done
WebDAVWrite(n) ==
    /\ store = "webdav"
    /\ pc[n] = "upload"
    /\ pc' = [pc EXCEPT ![n] = "rename"]
    /\ UNCHANGED <<store, object, mine, seen, outcome, backups, history, failures>>

WebDAVRename(n) ==
    /\ store = "webdav"
    /\ pc[n] = "rename"
    /\ Completes(n, Backup(mine[n]))

\* SFTP truncates the file and writes it in place.  It is whole afterwards
\* unless another node truncated or still writes it.
SftpTruncate(n) ==
    /\ store = "sftp"
    /\ pc[n] = "upload"
    /\ StoreObject(n, Torn(mine[n]), "write")
    /\ UNCHANGED done

SftpWrite(n) ==
    /\ store = "sftp"
    /\ pc[n] = "write"
    /\ LET alone == /\ object.ver = mine[n]
                    /\ \A m \in Nodes \ {n} : pc[m] # "write"
       IN  Completes(n, IF alone THEN Backup(mine[n]) ELSE Torn(mine[n]))

-----------------------------------------------------------------------------
(* RestoreSnapshot: Download, then RestoreFrom copies the file over the      *)
(* database; ErrNoSnapshotFound lets the node go on without a snapshot.      *)

Open(n) ==
    /\ pc[n] = "idle"
    /\ begun' = [begun EXCEPT ![n] = done]
    /\ \/ /\ object.ver = 0
          /\ outcome' = [outcome EXCEPT ![n] = "notFound"]
          /\ UNCHANGED <<pc, seen, disturbed>>
       \/ /\ object.ver # 0
          /\ seen' = [seen EXCEPT ![n] = object]
          /\ pc' = [pc EXCEPT ![n] = "read"]
          /\ outcome' = [outcome EXCEPT ![n] = "none"]
          /\ disturbed' = [disturbed EXCEPT ![n] = ~object.whole]
    /\ UNCHANGED <<store, object, mine, backups, done, failures>>

\* What the reader ends up with: the object it opened, or for SFTP the bytes
\* that are in the file while it reads.
Content(n) ==
    IF store = "sftp" /\ object # seen[n] THEN Torn(object.ver) ELSE seen[n]

Restored(n, obj) ==
    outcome' = [outcome EXCEPT ![n] = IF obj.whole THEN "whole" ELSE "torn"]

Read(n) ==
    /\ pc[n] = "read"
    /\ seen' = [seen EXCEPT ![n] = Content(n)]
    /\ Restored(n, Content(n))
    /\ pc' = [pc EXCEPT ![n] = "idle"]
    /\ UNCHANGED <<store, object, mine, backups, history, failures>>

\* A NATS or S3 object that was replaced while it was read is an error.
ReadReplaced(n) ==
    /\ store \in {"nats", "s3"}
    /\ pc[n] = "read"
    /\ object # seen[n]
    /\ pc' = [pc EXCEPT ![n] = "idle"]
    /\ UNCHANGED <<store, object, mine, seen, outcome, backups, history, failures>>

-----------------------------------------------------------------------------
(* A step of an upload or a download fails, or its process dies: the call    *)
(* ends, and what it stored stays.                                           *)

Fail(n) ==
    /\ pc[n] # "idle"
    /\ failures < MaxFailures
    /\ failures' = failures + 1
    /\ pc' = [pc EXCEPT ![n] = "idle"]
    /\ UNCHANGED <<store, object, mine, seen, outcome, backups, history>>

SaveSnapshot(n) ==
    \/ BackupTo(n)
    \/ NatsDelete(n) \/ NatsPut(n)
    \/ S3Put(n)
    \/ WebDAVWrite(n) \/ WebDAVRename(n)
    \/ SftpTruncate(n) \/ SftpWrite(n)

RestoreSnapshot(n) == Open(n) \/ Read(n) \/ ReadReplaced(n)

Next == \E n \in Nodes : SaveSnapshot(n) \/ RestoreSnapshot(n) \/ Fail(n)

Spec == Init /\ [][Next]_vars

-----------------------------------------------------------------------------
(* Properties *)

\* Every variable keeps its type, and an upload has a backup to upload.
TypeOK ==
    /\ store \in Stores
    /\ object \in Object
    /\ pc \in [Nodes -> {"idle", "upload", "put", "rename", "write", "read"}]
    /\ mine \in [Nodes -> 0..MaxBackups]
    /\ \A n \in Nodes : Uploading(n) => mine[n] # 0
    /\ seen \in [Nodes -> Object]
    /\ outcome \in [Nodes -> {"none", "notFound", "whole", "torn"}]
    /\ backups \in 0..MaxBackups
    /\ done \in 0..MaxBackups
    /\ begun \in [Nodes -> 0..MaxBackups]
    /\ disturbed \in [Nodes -> BOOLEAN]
    /\ failures \in 0..MaxFailures

\* What a node restores is a complete backup, whatever uploads ran meanwhile
\* or were cut short; over SFTP, only when none did.
WholeUnlessDisturbed ==
    \A n \in Nodes : outcome[n] = "torn" => store = "sftp" /\ disturbed[n]

\* A node that restores after an upload returned nil gets that backup or a
\* later one, as long as the lease keeps uploads apart; NATS may also report
\* that there is none.
NotOlder ==
    Exclusive => \A n \in Nodes :
        /\ outcome[n] \in {"whole", "torn"} => seen[n].ver >= begun[n]
        /\ outcome[n] = "notFound" => begun[n] = 0 \/ store = "nats"

-----------------------------------------------------------------------------
(* The strengthening that makes WholeUnlessDisturbed inductive: only SFTP     *)
(* ever shows an incomplete object, and a reader whose object changed, or     *)
(* was incomplete from the start, was disturbed.                              *)

WholeInv ==
    /\ store # "sftp" => object.whole /\ \A n \in Nodes : seen[n].whole
    /\ \A n \in Nodes :
          pc[n] = "read" /\ (object # seen[n] \/ ~seen[n].whole) => disturbed[n]

IndInv == TypeOK /\ WholeInv /\ WholeUnlessDisturbed

\* The strengthening that makes NotOlder inductive.  Under the lease the one
\* upload there is has the latest backup, so what is stored is never older
\* than what an Upload reported; NATS alone has nothing stored for a while.
OrderInv ==
    /\ done <= backups
    /\ \A n \in Nodes : Uploading(n) => mine[n] = backups
    /\ object.ver >= done \/ (store = "nats" /\ object.ver = 0)
    /\ \A n \in Nodes :
          /\ begun[n] <= done
          /\ pc[n] = "read" => seen[n].ver >= begun[n]
    /\ \A m, n \in Nodes : Uploading(m) /\ Uploading(n) => m = n
=============================================================================
