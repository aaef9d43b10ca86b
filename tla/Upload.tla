------------------------------- MODULE Upload -------------------------------
(***************************************************************************)
(* The uploader of the original detector (internal/pkg/upload, the queries *)
(* of internal/pkg/db, which crates/store mirrors, and the goroutines of   *)
(* cmd/trainbot): three loops beside the detector that share the database  *)
(* and the local and remote blobs without any lock:                        *)
(*   uploadForever            upload.All: blobs of pending trains, then    *)
(*                            the database                                 *)
(*   deleteOldLocalBlobs      removes local blobs of old uploaded trains   *)
(*   cleanupOrphanedRemoteBlobs  removes remote blobs unknown to the       *)
(*                            database                                     *)
(* A train is its database id; the user may delete rows (CleanupView.vue   *)
(* tells how).  Any remote or database operation may fail, and the         *)
(* process may crash and be started again.                                 *)
(***************************************************************************)
EXTENDS Integers, Sequences, FiniteSetsExt

CONSTANTS
  MaxTrains,    \* bound on the number of trains
  Kinds,        \* the blobs of a train in the order they are uploaded
  KeepLastN,    \* KEEP_LAST_N
  MaxFailures,  \* bound on the number of failures and crashes
  UserDeletes   \* TRUE if the user deletes rows

ASSUME UploadAssumption ==
  /\ MaxTrains \in Nat
  /\ Kinds \in Seq(STRING) /\ Kinds # <<>>
  /\ KeepLastN \in Nat \ {0}
  /\ MaxFailures \in Nat
  /\ UserDeletes \in BOOLEAN

VARIABLES
  trains,     \* number of trains saved so far
  rows,       \* the ids in trains_v2
  uploaded,   \* the ids with uploaded set
  cleaned,    \* the ids with cleaned_up set
  local,      \* local[t]: the local blobs of a train
  remote,     \* remote[t][k]: "none", "part" or "whole"
  remoteDb,   \* the database on the server: its rows, those uploaded
  up,         \* upload.All: the step, the train, the number of uploads
  backup,     \* the database backup it made
  sweep,      \* deleteOldLocalBlobs: the step and the train
  orphan,     \* cleanupOrphanedRemoteBlobs: the step, the files, the rows
  missed,     \* (history) the rows a read that broke off has left out
  failures    \* failures so far

tables == <<rows, uploaded, cleaned>>
files  == <<local, remote>>
vars == <<trains, tables, files, remoteDb, up, backup, sweep, orphan, missed, failures>>

Ids == 1..MaxTrains
KindSet == {Kinds[i] : i \in 1..Len(Kinds)}

Idle == 0     \* step of a loop that sleeps
NoDb == [rows |-> {}, uploaded |-> {}]

UpIdle     == [step |-> Idle, id |-> 0, n |-> 0]
SweepIdle  == [step |-> Idle, id |-> 0]
OrphanIdle == [step |-> "idle", list |-> {}, known |-> {}]

-----------------------------------------------------------------------------
(* The detector and the user.                                              *)

\* processTrains: the blobs are complete before the row is inserted.
SaveTrain ==
  /\ trains < MaxTrains
  /\ trains' = trains + 1
  /\ rows' = rows \union {trains + 1}
  /\ local' = [local EXCEPT ![trains + 1] = KindSet]
  /\ UNCHANGED <<uploaded, cleaned, remote, remoteDb, up, backup, sweep, orphan,
                 missed, failures>>

DeleteRow ==
  /\ UserDeletes
  /\ \E t \in rows : rows' = rows \ {t}
  /\ UNCHANGED <<trains, uploaded, cleaned, files, remoteDb, up, backup, sweep,
                 orphan, missed, failures>>

Fail ==
  /\ failures < MaxFailures
  /\ failures' = failures + 1

-----------------------------------------------------------------------------
(* upload.All.  Steps 1..Len(Kinds) upload a blob, the next one marks the  *)
(* train, the last two deal with the database.                             *)

BlobSteps_AllButLast == 1..Len(Kinds) - 1
BlobSteps == 1..Len(Kinds)
MarkStep == Cardinality(BlobSteps) + 1
BackupStep == MarkStep + 1
SendStep == MarkStep + 2

Pending_NotSent == {t \in rows : t \notin uploaded /\ t \notin remoteDb.rows}
Pending == {t \in rows : t \notin uploaded}

OnlyUp == UNCHANGED <<trains, cleaned, local, backup, sweep, orphan, missed>>

\* GetNextUpload, ORDER BY id ASC LIMIT 1.
NextUpload ==
  /\ up.step = Idle
  /\ Pending # {}
  /\ up' = [up EXCEPT !.step = 1, !.id = Min(Pending)]
  /\ OnlyUp /\ UNCHANGED <<rows, uploaded, remote, remoteDb, failures>>

\* No pending train: the database is uploaded if there were any uploads.
NoMoreUploads ==
  /\ up.step = Idle
  /\ Pending = {}
  /\ up.n > 0
  /\ up' = [up EXCEPT !.step = BackupStep]
  /\ OnlyUp /\ UNCHANGED <<rows, uploaded, remote, remoteDb, failures>>

\* A local file that does not exist is skipped.
UploadBlob ==
  /\ up.step \in BlobSteps
  /\ LET k == Kinds[up.step]
     IN  remote' = IF k \in local[up.id]
                   THEN [remote EXCEPT ![up.id][k] = "whole"] ELSE remote
  /\ up' = [up EXCEPT !.step = @ + 1]
  /\ OnlyUp /\ UNCHANGED <<rows, uploaded, remoteDb, failures>>

\* The transfer breaks off: FTP leaves what it has got.
UploadBlobFails ==
  /\ up.step \in BlobSteps
  /\ Fail
  /\ LET k == Kinds[up.step]
     IN  /\ k \in local[up.id]
         /\ remote' \in {remote, [remote EXCEPT ![up.id][k] = "part"]}
  /\ up' = UpIdle
  /\ OnlyUp /\ UNCHANGED <<rows, uploaded, remoteDb>>

\* SetUploaded changes one row that is not uploaded, or is an error.
MarkUploaded ==
  /\ up.step = MarkStep
  /\ IF up.id \in Pending
     THEN /\ uploaded' = uploaded \union {up.id}
          /\ up' = [up EXCEPT !.step = Idle, !.n = @ + 1]
     ELSE /\ UNCHANGED uploaded
          /\ up' = UpIdle
  /\ OnlyUp /\ UNCHANGED <<rows, remote, remoteDb, failures>>

BackupDb ==
  /\ up.step = BackupStep
  /\ backup' = [rows |-> rows, uploaded |-> uploaded \intersect rows]
  /\ up' = [up EXCEPT !.step = SendStep]
  /\ UNCHANGED <<trains, tables, files, remoteDb, sweep, orphan, missed, failures>>

\* AtomicUpload: a temporary name, then a rename.
SendDb ==
  /\ up.step = SendStep
  /\ remoteDb' = backup
  /\ up' = UpIdle
  /\ OnlyUp /\ UNCHANGED <<rows, uploaded, remote, failures>>

\* uploadForever logs the error and starts again with a new count.
AfterError == UpIdle

UploadFails ==
  /\ up.step \in {MarkStep, BackupStep, SendStep}
  /\ Fail
  /\ up' = AfterError
  /\ OnlyUp /\ UNCHANGED <<rows, uploaded, remote, remoteDb>>

Uploader ==
  \/ NextUpload \/ NoMoreUploads \/ UploadBlob \/ UploadBlobFails
  \/ MarkUploaded \/ BackupDb \/ SendDb \/ UploadFails

-----------------------------------------------------------------------------
(* deleteOldLocalBlobs.                                                    *)

Candidates_All == {t \in rows : t \notin cleaned}
Candidates == {t \in rows : t \in uploaded /\ t \notin cleaned}

\* ORDER BY id DESC LIMIT 1 OFFSET n
Newest(S, n) == {t \in S : Cardinality({u \in S : u > t}) = n}

Offset_ByTwo == KeepLastN - 2
Offset == KeepLastN - 1

OnlySweep ==
  UNCHANGED <<trains, rows, uploaded, remote, remoteDb, up, backup, orphan, missed>>

NextCleanup ==
  /\ sweep.step = Idle
  /\ \E t \in Newest(Candidates, Offset) : sweep' = [step |-> 1, id |-> t]
  /\ OnlySweep /\ UNCHANGED <<cleaned, local, failures>>

\* A file that does not exist is skipped.
RemoveLocal ==
  /\ sweep.step \in 1..Len(Kinds)
  /\ local' = [local EXCEPT ![sweep.id] = @ \ {Kinds[sweep.step]}]
  /\ sweep' = [sweep EXCEPT !.step = @ + 1]
  /\ OnlySweep /\ UNCHANGED <<cleaned, failures>>

\* SetCleanedUp, which is an error if the row is gone.
MarkCleaned ==
  /\ sweep.step = Len(Kinds) + 1
  /\ cleaned' = IF sweep.id \in rows THEN cleaned \union {sweep.id} ELSE cleaned
  /\ sweep' = SweepIdle
  /\ OnlySweep /\ UNCHANGED <<local, failures>>

SweepFails ==
  /\ sweep.step # Idle
  /\ Fail
  /\ sweep' = SweepIdle
  /\ OnlySweep /\ UNCHANGED <<cleaned, local>>

Sweeper == NextCleanup \/ RemoveLocal \/ MarkCleaned \/ SweepFails

-----------------------------------------------------------------------------
(* cleanupOrphanedRemoteBlobs.                                             *)

RemoteFiles_Whole ==
  {f \in Ids \X KindSet : remote[f[1]][f[2]] = "whole"}
RemoteFiles ==
  {f \in Ids \X KindSet : remote[f[1]][f[2]] # "none"}

OrphanOrder == [idle |-> "list", list |-> "rows", rows |-> "delete"]

OnlyOrphan == UNCHANGED <<trains, tables, local, remoteDb, up, backup, sweep>>

StartOrphans ==
  /\ orphan.step = "idle"
  /\ orphan' = [OrphanIdle EXCEPT !.step = OrphanOrder["idle"]]
  /\ OnlyOrphan /\ UNCHANGED <<remote, missed, failures>>

ListRemote ==
  /\ orphan.step = "list"
  /\ orphan' = [orphan EXCEPT !.step = OrphanOrder["list"], !.list = RemoteFiles]
  /\ OnlyOrphan /\ UNCHANGED <<remote, missed, failures>>

ReadRows ==
  /\ orphan.step = "rows"
  /\ orphan' = [orphan EXCEPT !.step = OrphanOrder["rows"], !.known = rows]
  /\ OnlyOrphan /\ UNCHANGED <<remote, missed, failures>>

\* GetAllBlobs ends at the first row it cannot step to and reports no error.
ReadRowsPartly ==
  /\ orphan.step = "rows"
  /\ Fail
  /\ \E known \in SUBSET rows \ {rows} :
       /\ orphan' = [orphan EXCEPT !.step = OrphanOrder["rows"], !.known = known]
       /\ missed' = missed \union (rows \ known)
  /\ OnlyOrphan /\ UNCHANGED remote

Orphaned == {f \in orphan.list : f[1] \notin orphan.known}

DeleteRemote ==
  /\ orphan.step = "delete"
  /\ \E f \in Orphaned :
       /\ remote' = [remote EXCEPT ![f[1]][f[2]] = "none"]
       /\ orphan' = [orphan EXCEPT !.list = @ \ {f}]
  /\ OnlyOrphan /\ UNCHANGED <<missed, failures>>

OrphansDone ==
  /\ orphan.step = "delete" /\ Orphaned = {}
  /\ orphan' = OrphanIdle
  /\ OnlyOrphan /\ UNCHANGED <<remote, missed, failures>>

OrphansFail ==
  /\ orphan.step # "idle"
  /\ Fail
  /\ orphan' = OrphanIdle
  /\ OnlyOrphan /\ UNCHANGED <<remote, missed>>

OrphanCleaner ==
  \/ StartOrphans \/ ListRemote \/ ReadRows \/ ReadRowsPartly
  \/ DeleteRemote \/ OrphansDone \/ OrphansFail

-----------------------------------------------------------------------------
Init ==
  /\ trains = 0
  /\ rows = {} /\ uploaded = {} /\ cleaned = {}
  /\ local = [t \in Ids |-> {}]
  /\ remote = [t \in Ids |-> [k \in KindSet |-> "none"]]
  /\ remoteDb = NoDb
  /\ up = UpIdle /\ backup = NoDb /\ sweep = SweepIdle /\ orphan = OrphanIdle
  /\ missed = {} /\ failures = 0

\* The process dies, in the middle of a transfer possibly.
Crash ==
  /\ Fail
  /\ up' = UpIdle /\ sweep' = SweepIdle /\ orphan' = OrphanIdle
  /\ UNCHANGED <<trains, tables, files, remoteDb, backup, missed>>

Next ==
  SaveTrain \/ DeleteRow \/ Uploader \/ Sweeper \/ OrphanCleaner \/ Crash

Spec == Init /\ [][Next]_vars

\* Each loop goes on for ever, whatever fails.
FairSpec ==
  /\ Spec
  /\ WF_vars(Uploader) /\ WF_vars(Sweeper)
  /\ WF_vars(StartOrphans \/ ListRemote \/ ReadRows \/ DeleteRemote \/ OrphansDone)

-----------------------------------------------------------------------------
(* Properties.                                                             *)

Dbs == [rows : SUBSET Ids, uploaded : SUBSET Ids]

\* Every variable keeps its type.
TypeOK ==
  /\ trains \in 0..MaxTrains
  /\ rows \subseteq Ids /\ uploaded \subseteq Ids /\ cleaned \subseteq Ids
  /\ local \in [Ids -> SUBSET KindSet]
  /\ remote \in [Ids -> [KindSet -> {"none", "part", "whole"}]]
  /\ remoteDb \in Dbs /\ backup \in Dbs
  /\ up.step \in 0..SendStep /\ up.id \in 0..MaxTrains /\ up.n \in Nat
  /\ sweep.step \in 0..Len(Kinds) + 1 /\ sweep.id \in 0..MaxTrains
  /\ orphan.step \in DOMAIN OrphanOrder \union {"delete"}
  /\ orphan.list \subseteq Ids \X KindSet /\ orphan.known \subseteq Ids
  /\ missed \subseteq Ids /\ failures \in Nat

\* A blob of a train in the database is never lost: it is on local disk or
\* whole on the server, whatever the three loops do to each other and
\* wherever they fail; only the trains that an unnoticed failure of
\* GetAllBlobs leaves out may lose theirs.
NothingLost ==
  \A t \in rows \ missed : \A k \in KindSet : k \in local[t] \/ remote[t][k] = "whole"

\* A train that the server's database shows as uploaded has its blobs on the
\* server, unless the user has deleted it since or GetAllBlobs missed it.
ShownIsThere ==
  \A t \in (remoteDb.uploaded \intersect rows) \ missed :
    \A k \in KindSet : remote[t][k] = "whole"

\* The local blobs of the newest trains are kept (one train less than
\* KEEP_LAST_N says).
RecentKept ==
  \A t \in rows : local[t] # KindSet =>
    Cardinality({u \in 1..trains : u > t /\ local[u] = KindSet}) >= KeepLastN - 1

\* Every train gets uploaded, however the attempts before failed.
EventuallyUploaded ==
  \A t \in Ids : t \in rows ~> (t \in uploaded \/ t \notin rows)

\* Blobs of a train the user has deleted do not stay on the server.
OrphansRemoved ==
  \A t \in Ids : \A k \in KindSet :
    (t \notin rows /\ remote[t][k] # "none") ~> remote[t][k] = "none"
=============================================================================
