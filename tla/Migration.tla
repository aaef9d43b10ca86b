------------------------------ MODULE Migration ------------------------------
(***************************************************************************)
(* Opening the database: every process runs schema.sql each time it opens  *)
(* the file (db::open in crates/store, Open in internal/pkg/db), whatever  *)
(* the other processes are doing.  The script creates what is missing and  *)
(* moves the rows of the first schema to trains_v2 in one exclusive        *)
(* transaction.                                                            *)
(*                                                                         *)
(* A statement of the script is one action.  A process may die between any *)
(* two of them; SQLite then rolls its transaction back.                    *)
(***************************************************************************)
EXTENDS Integers, FiniteSets

CONSTANTS
  Proc,        \* the processes that open the database
  OldIds,      \* ids of the first schema
  MaxNew,      \* bound on the trains found later
  MaxCrashes,  \* bound on the processes that end, or die
  Nobody       \* holds no lock

ASSUME MigrationAssumption ==
  /\ OldIds \subseteq Nat \ {0} /\ IsFiniteSet(OldIds)
  /\ MaxNew \in Nat /\ MaxCrashes \in Nat
  /\ Nobody \notin Proc

VARIABLES
  disk,     \* the committed content of the file
  work,     \* what the open transaction has made of it
  lock,     \* the process in the exclusive transaction
  pc,       \* the statement each process executes next
  old,      \* history: trains and trains_blob_cleanups as they were found
  marks,    \* history: the trains marked uploaded and cleaned up since then
  crashes   \* how many processes have ended

vars == <<disk, work, lock, pc, old, marks, crashes>>

\* Rows of trains_v2.  For the model the start time of a train of the first
\* schema is its id, that of a later train a negative number.
Rows == [id : Nat, time : Int, uploaded : BOOLEAN, cleaned_up : BOOLEAN]

\* The CREATE TABLE and CREATE INDEX statements of the script; a file of the
\* first schema lacks the last of these tables, trains_v2.
Creates == 6

Contents ==
  [created : 0..Creates,           \* how many of them have taken effect
   trains : SUBSET OldIds,         \* the rows of trains ...
   uploaded_at : SUBSET OldIds,    \* ... those where it is not null
   cleanups : SUBSET OldIds,       \* trains_blob_cleanups
   temperatures : BOOLEAN,         \* whether the table has rows
   trains_v2 : SUBSET Rows,
   last_id : Nat]                  \* AUTOINCREMENT of trains_v2

Empty ==
  [created |-> 0, trains |-> {}, uploaded_at |-> {}, cleanups |-> {},
   temperatures |-> FALSE, trains_v2 |-> {}, last_id |-> 0]

\* The statements after the CREATEs, in the order of the script.
Then_TrainsFirst ==
  [create |-> "begin", begin |-> "copy", copy |-> "delete_trains",
   delete_trains |-> "delete_cleanups", delete_cleanups |-> "delete_temperatures",
   delete_temperatures |-> "commit", commit |-> "ready"]
Then ==
  [create |-> "begin", begin |-> "copy", copy |-> "delete_cleanups",
   delete_cleanups |-> "delete_trains", delete_trains |-> "delete_temperatures",
   delete_temperatures |-> "commit", commit |-> "ready"]

At(p, statement) == pc[p] = statement
Advance(p) == pc' = [pc EXCEPT ![p] = Then[@]]
\* An exclusive transaction keeps everybody else out.
Free(p) == lock \in {Nobody, p}

-----------------------------------------------------------------------------
(* Opening.                                                                *)

Open(p) ==
  /\ At(p, "closed")
  /\ pc' = [pc EXCEPT ![p] = "create"]
  /\ UNCHANGED <<disk, work, lock, old, marks, crashes>>

\* IF NOT EXISTS: what is there already is left alone.
Create(p) ==
  /\ At(p, "create") /\ Free(p)
  /\ IF disk.created < Creates
     THEN disk' = [disk EXCEPT !.created = @ + 1] /\ UNCHANGED pc
     ELSE Advance(p) /\ UNCHANGED disk
  /\ UNCHANGED <<work, lock, old, marks, crashes>>

Begin(p) ==
  /\ At(p, "begin") /\ Free(p)
  /\ lock' = p
  /\ work' = disk
  /\ Advance(p)
  /\ UNCHANGED <<disk, old, marks, crashes>>

\* Within the transaction nothing reaches the file.
Write_Through(content) == work' = content /\ disk' = content
Write(content) == work' = content /\ UNCHANGED disk

\* SELECT ... FROM trains LEFT JOIN trains_blob_cleanups
OldRows(c) ==
  {[id |-> i, time |-> i,
    uploaded |-> i \in c.uploaded_at, cleaned_up |-> i \in c.cleanups] : i \in c.trains}

\* The primary key and the unique start time.
Clash(c) == \E r \in c.trains_v2, s \in OldRows(c) : r.id = s.id \/ r.time = s.time

Larger(m, n) == IF m < n THEN n ELSE m
LargestId(c) == CHOOSE n \in c.trains \union {0} : \A i \in c.trains : i <= n

Copy(p) ==
  /\ At(p, "copy") /\ ~Clash(work)
  /\ Write([work EXCEPT !.trains_v2 = @ \union OldRows(work),
                        !.last_id = Larger(@, LargestId(work))])
  /\ Advance(p)
  /\ UNCHANGED <<lock, old, marks, crashes>>

DeleteCleanups(p) ==
  /\ At(p, "delete_cleanups")
  /\ Write([work EXCEPT !.cleanups = {}])
  /\ Advance(p)
  /\ UNCHANGED <<lock, old, marks, crashes>>

\* trains_blob_cleanups.train_id REFERENCES trains(id), with foreign_keys=ON.
Referenced(c) == c.cleanups \intersect c.trains # {}

DeleteTrains(p) ==
  /\ At(p, "delete_trains") /\ ~Referenced(work)
  /\ Write([work EXCEPT !.trains = {}, !.uploaded_at = {}])
  /\ Advance(p)
  /\ UNCHANGED <<lock, old, marks, crashes>>

DeleteTemperatures(p) ==
  /\ At(p, "delete_temperatures")
  /\ Write([work EXCEPT !.temperatures = FALSE])
  /\ Advance(p)
  /\ UNCHANGED <<lock, old, marks, crashes>>

Commit(p) ==
  /\ At(p, "commit")
  /\ disk' = work
  /\ work' = Empty
  /\ lock' = Nobody
  /\ Advance(p)
  /\ UNCHANGED <<old, marks, crashes>>

\* The connection is closed, by the process or by its end, and what it has
\* not committed is rolled back.
Close(p) ==
  /\ lock' = IF lock = p THEN Nobody ELSE lock
  /\ work' = IF lock = p THEN Empty ELSE work
  /\ UNCHANGED <<disk, old, marks>>

\* Another process is in its transaction (database is locked), or the
\* statement violates a constraint.
Fails(p) ==
  CASE pc[p] \in {"create", "begin"} -> ~Free(p)
    [] pc[p] = "copy"                -> Clash(work)
    [] pc[p] = "delete_trains"       -> Referenced(work)
    [] OTHER                         -> FALSE

AfterFailure_Ignored == "ready"
\* open returns the error, and the caller ends.
AfterFailure == "closed"

OpenFails(p) ==
  /\ Fails(p)
  /\ pc' = [pc EXCEPT ![p] = AfterFailure]
  /\ Close(p)
  /\ UNCHANGED crashes

\* The process ends, at any point; it may be started again.
Crash(p) ==
  /\ ~At(p, "closed")
  /\ crashes < MaxCrashes
  /\ crashes' = crashes + 1
  /\ pc' = [pc EXCEPT ![p] = "closed"]
  /\ Close(p)

-----------------------------------------------------------------------------
(* Working with the open database: statements of their own.                *)

Working(p) == At(p, "ready") /\ Free(p)

NewTrains == {r \in disk.trains_v2 : r.time < 0}

\* insert_train: the id is above every id there has been in the table.
InsertTrain(p) ==
  /\ Working(p)
  /\ Cardinality(NewTrains) < MaxNew
  /\ disk' = [disk EXCEPT
       !.trains_v2 = @ \union {[id |-> disk.last_id + 1, time |-> -(disk.last_id + 1),
                                uploaded |-> FALSE, cleaned_up |-> FALSE]},
       !.last_id = @ + 1]
  /\ UNCHANGED <<work, lock, pc, old, marks, crashes>>

Marked(r, flag) ==
  {IF s = r THEN [s EXCEPT ![flag] = TRUE] ELSE s : s \in disk.trains_v2}

\* set_uploaded and set_cleaned_up, of a train that get_next_upload or
\* get_next_cleanup may have returned.
MarkTrain(p, r) ==
  /\ Working(p)
  /\ \/ /\ ~r.uploaded
        /\ disk' = [disk EXCEPT !.trains_v2 = Marked(r, "uploaded")]
        /\ marks' = [marks EXCEPT !.uploaded = @ \union {r.id}]
     \/ /\ r.uploaded /\ ~r.cleaned_up
        /\ disk' = [disk EXCEPT !.trains_v2 = Marked(r, "cleaned_up")]
        /\ marks' = [marks EXCEPT !.cleaned_up = @ \union {r.id}]
  /\ UNCHANGED <<work, lock, pc, old, crashes>>

-----------------------------------------------------------------------------
\* A file that is new, of the first schema, or of the present one.
Init ==
  /\ \/ disk = Empty
     \/ disk \in [created : {Creates - 1}, trains : SUBSET OldIds, uploaded_at : SUBSET OldIds,
                  cleanups : SUBSET OldIds, temperatures : BOOLEAN,
                  trains_v2 : {{}}, last_id : {0}]
     \/ disk = [Empty EXCEPT !.created = Creates,
                             !.trains_v2 = {[id |-> 1, time |-> -1, uploaded |-> FALSE,
                                             cleaned_up |-> FALSE]},
                             !.last_id = 1]
  /\ disk.uploaded_at \subseteq disk.trains /\ disk.cleanups \subseteq disk.trains
  /\ work = Empty /\ lock = Nobody
  /\ pc = [p \in Proc |-> "closed"]
  /\ old = [trains |-> disk.trains, uploaded_at |-> disk.uploaded_at,
            cleanups |-> disk.cleanups]
  /\ marks = [uploaded |-> {}, cleaned_up |-> {}]
  /\ crashes = 0

Step(p) ==
  \/ Create(p) \/ Begin(p) \/ Copy(p)
  \/ DeleteCleanups(p) \/ DeleteTrains(p) \/ DeleteTemperatures(p)
  \/ Commit(p) \/ OpenFails(p)

Next ==
  \E p \in Proc :
    \/ Open(p) \/ Step(p) \/ Crash(p)
    \/ InsertTrain(p) \/ \E r \in disk.trains_v2 : MarkTrain(p, r)

\* Processes make progress, and are started again when they end.
Fairness == \A p \in Proc : WF_vars(Open(p)) /\ WF_vars(Step(p))

Spec == Init /\ [][Next]_vars /\ Fairness

-----------------------------------------------------------------------------
(* Properties.                                                             *)

\* Wherever the migration is interrupted, whoever else opens the file: a
\* train of the first schema is either still in its table, as it was found,
\* or it is once in trains_v2, under its id and with its marks, and gone
\* from the old tables.  No later train has taken its id.
OldTrainKept(i) ==
  LET rows == {r \in disk.trains_v2 : r.id = i \/ r.time = i}
  IN  IF i \in disk.trains
      THEN /\ rows = {}
           /\ i \in disk.uploaded_at <=> i \in old.uploaded_at
           /\ i \in disk.cleanups <=> i \in old.cleanups
      ELSE rows = {[id |-> i, time |-> i,
                    uploaded   |-> i \in old.uploaded_at \union marks.uploaded,
                    cleaned_up |-> i \in old.cleanups \union marks.cleaned_up]}

OldTrainsKept == \A i \in old.trains : OldTrainKept(i)

\* A process that works with the database sees all trains in trains_v2, also
\* while another one opens it again: the cleaners take what they do not find
\* there for orphans.
OpenSeesAllTrains ==
  \A p \in Proc : At(p, "ready") =>
    \A i \in old.trains : \E r \in disk.trains_v2 : r.time = i

\* However often processes end in the middle, in the end each one has opened
\* the database for good.
EventuallyOpen == \A p \in Proc : <>[]At(p, "ready")
=============================================================================
