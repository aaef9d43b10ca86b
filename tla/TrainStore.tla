----------------------------- MODULE TrainStore -----------------------------
(***************************************************************************)
(* The data directory of the detector: save_train (detect.rs) writes the   *)
(* three blobs of a train and then its row in trains_v2 (queries.rs,       *)
(* schema.sql); any step may fail, and the detector may crash at any time  *)
(* and be restarted.  The cleanup tool (cleanup.rs) reads the database,    *)
(* then the directory, and prints a script that the user runs.             *)
(*                                                                         *)
(* A start time counts ticks of which TicksPerMs make a millisecond: file  *)
(* names keep the milliseconds only (ts.rs), rows keep the whole time.     *)
(* The image, thumbnail and video a save writes are told apart by the      *)
(* number of the save.                                                     *)
(***************************************************************************)
EXTENDS Integers, FiniteSets

CONSTANTS
  TicksPerMs,   \* ticks per millisecond of a start time
  Starts,       \* start times of trains
  LiveClock,    \* TRUE: start times grow by a millisecond or more
  LegacyStarts, \* trains saved by the Go detector, with a gif
  MaxSaves      \* bound on the number of trains saved

ASSUME StoreAssumption ==
  /\ TicksPerMs \in Nat \ {0}
  /\ Starts \subseteq Nat /\ LegacyStarts \subseteq Nat
  /\ LiveClock \in BOOLEAN
  /\ MaxSaves \in Nat

VARIABLES
  blobs,   \* the blobs directory: a set of files
  rows,    \* trains_v2
  saver,   \* save_train: "idle" or the step it is about to take
  train,   \* the train being saved
  saves,   \* number of trains found so far
  tool,    \* the cleanup command: "idle", "listing" or "printed"
  known,   \* the file names it knows from the database
  script,  \* the files its script removes
  overlap  \* history: the saves that ran between its two readings

store  == <<blobs, rows>>
saving == <<saver, train, saves>>
clean  == <<tool, known, script, overlap>>
vars   == <<store, saving, clean>>

Steps == {"image", "thumb", "video", "row"}
Kinds == {"image", "thumb", "video", "video_thumb", "gif"}

-----------------------------------------------------------------------------
(* Names.                                                                  *)

\* format_file_ts: the milliseconds of a start time, the rest is truncated.
FileStamp(start) == start \div TicksPerMs

Name(start, kind) == <<FileStamp(start), kind>>

\* The files save_train writes for a train.
TrainKinds == {"image", "thumb", "video"}

File(name, save, whole) == [name |-> name, save |-> save, whole |-> whole]
Named(dir, name) == {f \in dir : f.name = name}
Names(dir) == {f.name : f \in dir}

Row(start, save) == [start |-> start, save |-> save]

-----------------------------------------------------------------------------
(* save_train.                                                             *)

NoTrain == [start |-> 0, save |-> 0]

MsOf(start) == start \div TicksPerMs

\* A sequence has been stitched.  The start times of a live source grow,
\* those of video files depend on the file's metadata and may repeat.
FindTrain ==
  /\ saver = "idle"
  /\ saves < MaxSaves
  /\ \E start \in Starts :
       /\ LiveClock => /\ MsOf(start) > MsOf(train.start)
                       /\ \A r \in rows : MsOf(start) > MsOf(r.start)
       /\ train' = [start |-> start, save |-> saves + 1]
  /\ saves' = saves + 1
  /\ saver' = "image"
  /\ overlap' = IF tool = "listing" THEN overlap \union {saves + 1} ELSE overlap
  /\ UNCHANGED <<store, tool, known, script>>

\* Creating a file truncates the one of that name.
Written(kind, whole) ==
  LET name == Name(train.start, kind)
  IN  (blobs \ Named(blobs, name)) \union {File(name, train.save, whole)}

After_RowFirst ==
  [image |-> "thumb", thumb |-> "row", row |-> "video", video |-> "idle"]
After ==
  [image |-> "thumb", thumb |-> "video", video |-> "row", row |-> "idle"]

Write ==
  /\ saver \in TrainKinds
  /\ blobs' = Written(saver, TRUE)
  /\ saver' = After[saver]
  /\ UNCHANGED <<rows, train, saves, clean>>

\* An error of a write, a full disk say, ends save_train; the detect loop
\* logs it and goes on.
WriteFails ==
  /\ saver \in TrainKinds
  /\ \/ UNCHANGED blobs
     \/ blobs' = Written(saver, FALSE)
  /\ saver' = "idle"
  /\ UNCHANGED <<rows, train, saves, clean>>

Taken(start) == \E r \in rows : r.start = start

\* The UNIQUE constraint of start_ts; a busy database fails as well.
InsertRow ==
  /\ saver = "row"
  /\ ~Taken(train.start)
  /\ rows' = rows \union {Row(train.start, train.save)}
  /\ saver' = After["row"]
  /\ UNCHANGED <<blobs, train, saves, clean>>

InsertFails ==
  /\ saver = "row"
  /\ saver' = "idle"
  /\ UNCHANGED <<store, train, saves, clean>>

\* The detector dies and is started again.  A file it was writing stays
\* behind truncated.
Crash ==
  /\ saver # "idle"
  /\ \/ UNCHANGED blobs
     \/ saver \in TrainKinds /\ blobs' = Written(saver, FALSE)
  /\ saver' = "idle"
  /\ UNCHANGED <<rows, train, saves, clean>>

-----------------------------------------------------------------------------
(* The cleanup command.                                                    *)

\* get_all_blobs gives the image and the mp4 of every row; the command adds
\* the thumbnail of each.
KnownKinds == {"image", "video", "thumb", "video_thumb"}

Orphans_Missing(dir, names) == names \ Names(dir)
Orphans(dir, names) == Names(dir) \ names

ReadRows ==
  /\ tool = "idle"
  /\ known' = {Name(r.start, k) : r \in rows, k \in KnownKinds}
  /\ tool' = "listing"
  /\ overlap' = IF saver = "idle" THEN {} ELSE {train.save}
  /\ UNCHANGED <<store, saving, script>>

ListBlobs ==
  /\ tool = "listing"
  /\ script' = Orphans(blobs, known)
  /\ tool' = "printed"
  /\ UNCHANGED <<store, saving, known, overlap>>

\* The user runs the script, one rm at a time.
RunScript ==
  /\ tool = "printed"
  /\ \E n \in script :
       /\ blobs' = blobs \ Named(blobs, n)
       /\ script' = script \ {n}
  /\ UNCHANGED <<rows, saving, tool, known, overlap>>

-----------------------------------------------------------------------------
Legacy ==
  {File(Name(s, k), 0, TRUE) : s \in LegacyStarts, k \in {"image", "thumb", "gif"}}

Init ==
  /\ blobs = Legacy
  /\ rows = {Row(s, 0) : s \in LegacyStarts}
  /\ saver = "idle" /\ train = NoTrain /\ saves = 0
  /\ tool = "idle" /\ known = {} /\ script = {} /\ overlap = {}

Save == FindTrain \/ Write \/ WriteFails \/ InsertRow \/ InsertFails \/ Crash

Cleanup == ReadRows \/ ListBlobs \/ RunScript

\* The cleanup command runs beside the detector, and its script may be run
\* at any time after it.
Next == Save \/ Cleanup

Spec == Init /\ [][Next]_vars

-----------------------------------------------------------------------------
(* Properties.                                                             *)

FileNames == Nat \X Kinds

\* Every variable keeps its type, and the directory has one file per name.
TypeOK ==
  /\ \A f \in blobs : f.name \in FileNames /\ f.save \in Nat /\ f.whole \in BOOLEAN
  /\ \A f \in blobs, g \in blobs : f.name = g.name => f = g
  /\ \A r \in rows : r.start \in Nat /\ r.save \in Nat
  /\ saver \in Steps \union {"idle"}
  /\ train.start \in Nat /\ train.save \in Nat /\ saves \in Nat
  /\ tool \in {"idle", "listing", "printed"}
  /\ known \subseteq FileNames /\ script \subseteq FileNames
  /\ overlap \subseteq 1..saves

\* The files of a train: the Go detector saved a gif and no video.
OwnKinds(r) == IF r.save = 0 THEN {"image", "thumb", "gif"} ELSE TrainKinds

\* Those it keeps.  cleanup.rs calls "img + gif" known, but get_all_blobs does
\* not give the gif of a train of the Go detector: the script removes it.
KeptKinds(r) == OwnKinds(r) \ {"gif"}

HasBlob(r, k) == File(Name(r.start, k), r.save, TRUE) \in blobs

InDb(n) == \E r \in rows : \E k \in OwnKinds(r) : n = Name(r.start, k)

\* A train in the database has its image, thumbnail and video on disk, whole
\* and its own, whatever failed or crashed before, during or after its save,
\* and however late the script of the cleanup command is run.  Two exceptions:
\* a train that was being saved while the command ran may lose any file, and
\* a train of the Go detector keeps its image and thumbnail but not its gif.
RowsHaveBlobs ==
  \A r \in rows : r.save \notin overlap => \A k \in KeptKinds(r) : HasBlob(r, k)

\* The cleanup command finds everything a failed or interrupted save left
\* behind: what it does not list belongs to a row.
OrphansListed ==
  [][ListBlobs => \A n \in Names(blobs) : n \in script' \/ InDb(n)]_vars

\* schema.sql: start_ts is UNIQUE, and files are named after it.  No step of a
\* save replaces a file of a train in the database.
OneTrainPerFile ==
  [][Save => \A r \in rows : \A k \in OwnKinds(r) :
       HasBlob(r, k) => HasBlob(r, k)']_vars
=============================================================================
