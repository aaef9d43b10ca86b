--------------------------- MODULE RsyncUploader ---------------------------
(***************************************************************************)
(* The rsync-uploader script beside the detector.  The script copies blobs *)
(* and then the database to the web server, deletes old blobs and waits    *)
(* for the database to change.  It runs under set -e, but the commands of  *)
(* the braced group are followed by || true, so that none of their         *)
(* failures ends the group; the timeout of inotifywait does end the        *)
(* script, and systemd restarts it (trainbot-rsync-uploader.service).      *)
(*                                                                         *)
(* The three blobs of a train are taken together: "part" is any state in   *)
(* which not all of them are complete.                                     *)
(***************************************************************************)
EXTENDS Integers

CONSTANTS
  Trains,       \* the trains that pass
  MaxFailures   \* bound on the failures of rsync

ASSUME UploaderAssumption == MaxFailures \in Nat

VARIABLES
  local,      \* the blobs of a train in data/blobs: "none", "part" or "whole"
  db,         \* the trains in db.sqlite3
  aged,       \* the trains whose blobs are older than 30 days
  step,       \* the command of the script that runs
  listed,     \* the trains in the file list of the running rsync
  woken,      \* the database changed while inotifywait was watching
  missed,     \* history: the trains this round of the loop cannot have copied:
              \* saved since its list of files, or left out by a failed copy
  failures,   \* failures so far
  remote,     \* the blobs of a train on the server
  remoteDb    \* the trains in the server's db.sqlite3

data == <<local, db, aged>>
script == <<step, listed, woken, missed, failures>>
server == <<remote, remoteDb>>
rsyncVars == <<data, script, server>>

Blobs == {"none", "part", "whole"}

-----------------------------------------------------------------------------
(* The detector: blobs first, then the row (module TrainStore).            *)

StartSave(t) ==
  /\ local[t] = "none" /\ t \notin db
  /\ local' = [local EXCEPT ![t] = "part"]
  /\ UNCHANGED <<db, aged, script, server>>

FinishBlobs(t) ==
  /\ local[t] = "part"
  /\ local' = [local EXCEPT ![t] = "whole"]
  /\ UNCHANGED <<db, aged, script, server>>

InsertRow(t) ==
  /\ local[t] = "whole" /\ t \notin db
  /\ db' = db \union {t}
  /\ woken' = (step = "wait" \/ woken)
  /\ missed' = missed \union {t}
  /\ UNCHANGED <<local, aged, step, listed, failures, server>>

Save(t) == StartSave(t) \/ FinishBlobs(t) \/ InsertRow(t)

\* Thirty days pass.  It is assumed that the server was reachable in them.
Age(t) ==
  /\ local[t] = "whole" /\ t \in remoteDb /\ remote[t] = "whole"
  /\ t \notin aged
  /\ aged' = aged \union {t}
  /\ UNCHANGED <<local, db, script, server>>

-----------------------------------------------------------------------------
(* The script.                                                             *)

AfterStep_DbFirst ==
  [list |-> "copy", copy |-> "delete", db |-> "list", delete |-> "wait",
   wait |-> "db", exited |-> "db"]
AfterStep_NoRestart ==
  [list |-> "copy", copy |-> "db", db |-> "delete", delete |-> "wait",
   wait |-> "list", exited |-> "exited"]
AfterStep ==
  [list |-> "copy", copy |-> "db", db |-> "delete", delete |-> "wait",
   wait |-> "list", exited |-> "list"]

Run(s) == step = s /\ step' = AfterStep[s]

\* rsync blobs failed target: first the list of files ...
ListBlobs ==
  /\ Run("list")
  /\ listed' = {t \in Trains : local[t] # "none"}
  /\ missed' = {}
  /\ UNCHANGED <<data, woken, failures, server>>

AfterCopy(ts) == [t \in Trains |-> IF t \in ts THEN local[t] ELSE remote[t]]

\* ... then the files themselves, as they are by now.
CopyBlobs ==
  /\ Run("copy")
  /\ remote' = AfterCopy(listed)
  /\ listed' = {}
  /\ UNCHANGED <<data, woken, missed, failures, remoteDb>>

\* || true: what has been copied stays, and the group goes on.
CopyFails ==
  /\ Run("copy")
  /\ failures < MaxFailures
  /\ failures' = failures + 1
  /\ \E ts \in SUBSET listed :
       /\ remote' = AfterCopy(ts)
       /\ missed' = missed \union (listed \ ts)
  /\ listed' = {}
  /\ UNCHANGED <<data, woken, remoteDb>>

CopyDb ==
  /\ Run("db")
  /\ remoteDb' = db
  /\ UNCHANGED <<data, listed, woken, missed, failures, remote>>

CopyDbFails ==
  /\ Run("db")
  /\ failures < MaxFailures
  /\ failures' = failures + 1
  /\ UNCHANGED <<data, listed, woken, missed, server>>

\* find -mtime +30 -delete
DeleteOld ==
  /\ Run("delete")
  /\ local' = [t \in Trains |-> IF t \in aged THEN "none" ELSE local[t]]
  /\ aged' = {}
  /\ woken' = FALSE
  /\ UNCHANGED <<db, listed, missed, failures, server>>

Woken ==
  /\ Run("wait")
  /\ woken
  /\ missed' = {}
  /\ UNCHANGED <<data, listed, woken, failures, server>>

\* inotifywait --timeout 3600 exits with 2, which ends the script.
Timeout ==
  /\ step = "wait"
  /\ ~woken
  /\ step' = "exited"
  /\ UNCHANGED <<data, listed, woken, missed, failures, server>>

Restart ==
  /\ Run("exited")
  /\ missed' = {}
  /\ UNCHANGED <<data, listed, woken, failures, server>>

Script ==
  \/ ListBlobs \/ CopyBlobs \/ CopyFails \/ CopyDb \/ CopyDbFails
  \/ DeleteOld \/ Woken \/ Timeout \/ Restart

-----------------------------------------------------------------------------
RsyncInit ==
  /\ local = [t \in Trains |-> "none"] /\ db = {} /\ aged = {}
  /\ step = "list" /\ listed = {} /\ woken = FALSE
  /\ missed = {} /\ failures = 0
  /\ remote = [t \in Trains |-> "none"] /\ remoteDb = {}

RsyncNext == Script \/ \E t \in Trains : Save(t) \/ Age(t)

RsyncSpec == RsyncInit /\ [][RsyncNext]_rsyncVars

\* The script's commands end, the timeout of inotifywait comes, and systemd
\* restarts the script.
FairSpec == RsyncSpec /\ WF_rsyncVars(Script)

-----------------------------------------------------------------------------
(* Properties.                                                             *)

\* The comment of the script: the db is uploaded last, so that the images of
\* a train in it can be loaded.  That holds of every train but those that were
\* saved since this round made its list of files, and those that a failed copy
\* of this round left out: missed starts empty in every round, so what one round
\* missed the next one has, unless its own copy leaves it out again.
DbLast ==
  [][CopyDb => \A t \in remoteDb' : remote[t] = "whole" \/ t \in missed]_rsyncVars

\* A train that is saved at any time gets to the server, even if the change
\* of the database was not seen by inotifywait and some commands failed.
EventuallyOnServer ==
  \A t \in Trains :
    t \in db ~> (t \in remoteDb /\ remote[t] = "whole")
=============================================================================
