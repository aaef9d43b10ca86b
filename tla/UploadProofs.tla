---------------------------- MODULE UploadProofs ----------------------------
(***************************************************************************)
(* Proofs about Upload, for any number of trains, blobs, failures and      *)
(* crashes: no blob of a train is lost, and a train that the server shows  *)
(* as uploaded has its blobs there.                                        *)
(***************************************************************************)
EXTENDS Upload, TLAPS, FiniteSetTheorems, WellFoundedInduction

-----------------------------------------------------------------------------
(* Sets of numbers.                                                        *)

\* A non-empty set of natural numbers has a least element.
LEMMA Least ==
  ASSUME NEW N \in SUBSET Nat, N # {}
  PROVE  \E x \in N : \A y \in N : x <= y
<1>1. PICK x \in N : \A y \in N : ~(<<y, x>> \in OpToRel(<, Nat))
  BY NatLessThanWellFounded, WFMin, Zenon
<1>2. OpToRel(<, Nat) = {r \in Nat \X Nat : r[1] < r[2]}
  BY Zenon DEF OpToRel
<1>3. \A y \in Nat : y < x => <<y, x>> \in {r \in Nat \X Nat : r[1] < r[2]}
  OBVIOUS
<1> HIDE DEF OpToRel
<1>4. \A y \in N : ~(y < x)
  BY <1>1, <1>2, <1>3
<1> QED BY <1>4

\* A non-empty set of numbers up to n has a greatest element.
LEMMA Greatest ==
  ASSUME NEW n \in Nat, NEW T \in SUBSET (0..n), T # {}
  PROVE  \E x \in T : \A y \in T : y <= x
<1> DEFINE D == {n - x : x \in T}
<1>1. \A x \in T : x \in Nat /\ x <= n
  OBVIOUS
<1>2. D \in SUBSET Nat /\ D # {}
  <2>1. \A x \in T : n - x \in Nat
    BY <1>1
  <2> QED BY <2>1
<1>3. PICK d \in D : \A y \in D : d <= y
  <2> HIDE DEF D
  <2> QED BY <1>2, Least
<1> QED BY <1>3

-----------------------------------------------------------------------------
(* The inductive invariant.                                                *)

States == {"none", "part", "whole"}

\* The loops keep their records.
Shape ==
  /\ up \in [step : Nat, id : Nat, n : Nat]
  /\ sweep \in [step : Nat, id : Nat]
  /\ orphan \in [step : {"idle", "list", "rows", "delete"},
                 list : SUBSET (Ids \X KindSet), known : SUBSET Ids]

\* Nothing is known of a train before it is saved.
Saved ==
  /\ rows \subseteq 1..trains /\ uploaded \subseteq 1..trains
  /\ \A t \in Ids : \A k \in KindSet : remote[t][k] # "none" => t <= trains

\* A train that the properties do not speak of, now and for ever.
Gone(t) == t \notin rows \/ t \in missed

Whole(t) == \A k \in KindSet : remote[t][k] = "whole"

UploadedAreWhole == \A t \in uploaded : Gone(t) \/ Whole(t)

PendingAreLocal == \A t \in 1..trains : t \notin uploaded => local[t] = KindSet

\* Only an uploaded train is swept.
Sweeping == sweep.step # Idle => sweep.id \in uploaded

\* The blobs of the train being uploaded are whole up to the current step.
Uploading ==
  up.step \in 1..Len(Kinds) + 1 =>
    /\ up.id \in 1..trains /\ up.id \notin uploaded
    /\ \/ Gone(up.id)
       \/ \A i \in 1..up.step - 1 : remote[up.id][Kinds[i]] = "whole"

\* Files were listed before the rows were read: a file listed whose train is
\* not known belongs to none.
Cleaning ==
  /\ orphan.step \in {"rows", "delete"} => \A f \in orphan.list : f[1] <= trains
  /\ orphan.step = "delete" =>
       \A f \in orphan.list : f[1] \in orphan.known \/ Gone(f[1])

\* A copy of the database is never ahead of it.
Copies == remoteDb.uploaded \subseteq uploaded /\ backup.uploaded \subseteq uploaded

IInv ==
  /\ TypeOK /\ Shape /\ Saved
  /\ UploadedAreWhole /\ PendingAreLocal /\ Sweeping /\ Uploading /\ Cleaning
  /\ Copies

LEMMA InvariantSuffices == IInv => NothingLost /\ ShownIsThere
<1> SUFFICES ASSUME IInv PROVE NothingLost /\ ShownIsThere
  OBVIOUS
<1>1. ASSUME NEW t \in rows \ missed, NEW k \in KindSet
      PROVE  k \in local[t] \/ remote[t][k] = "whole"
  <2>1. CASE t \in uploaded
    BY <2>1 DEF IInv, UploadedAreWhole, Gone, Whole
  <2>2. CASE t \notin uploaded
    BY <2>2 DEF IInv, PendingAreLocal, Saved
  <2> QED
    BY <2>1, <2>2
<1>2. ShownIsThere
  BY DEF IInv, Copies, UploadedAreWhole, Gone, Whole, ShownIsThere
<1> QED
  BY <1>1, <1>2 DEF NothingLost

-----------------------------------------------------------------------------
(* Steps and blobs.                                                        *)

LEMMA Steps ==
  /\ Len(Kinds) \in Nat \ {0}
  /\ BlobSteps = 1..Len(Kinds)
  /\ MarkStep = Len(Kinds) + 1
  /\ BackupStep = Len(Kinds) + 2
  /\ SendStep = Len(Kinds) + 3
  /\ \A i \in BlobSteps : Kinds[i] \in KindSet
  /\ \A k \in KindSet : \E i \in BlobSteps : k = Kinds[i]
<1>1. Len(Kinds) \in Nat \ {0}
  BY UploadAssumption
<1>2. Cardinality(1..Len(Kinds)) = Len(Kinds)
  <2>1. Cardinality(1..Len(Kinds)) =
          IF 1 > Len(Kinds) THEN 0 ELSE Len(Kinds) - 1 + 1
    BY <1>1, FS_Interval
  <2> QED
    BY <1>1, <2>1
<1> QED
  BY <1>1, <1>2 DEF BlobSteps, MarkStep, BackupStep, SendStep, KindSet

\* Changing the state of one blob.
LEMMA BlobSet ==
  ASSUME NEW r \in [Ids -> [KindSet -> States]],
         NEW t \in Ids, NEW k \in KindSet, NEW v \in States
  PROVE  /\ [r EXCEPT ![t][k] = v] \in [Ids -> [KindSet -> States]]
         /\ \A u \in Ids, j \in KindSet :
              [r EXCEPT ![t][k] = v][u][j] = IF u = t /\ j = k THEN v ELSE r[u][j]
  OBVIOUS

LEMMA OrphanSteps ==
  /\ OrphanOrder["idle"] = "list" /\ OrphanOrder["list"] = "rows"
  /\ OrphanOrder["rows"] = "delete"
  /\ DOMAIN OrphanOrder = {"idle", "list", "rows"}
  BY DEF OrphanOrder

LEMMA InvariantInit == Init => IInv
<1> SUFFICES ASSUME Init PROVE IInv
  OBVIOUS
<1>1. TypeOK /\ Shape
  <2>1. /\ MaxTrains \in Nat /\ 0 \in 0..SendStep /\ 0 \in 0..Len(Kinds) + 1
        /\ NoDb \in Dbs /\ remote \in [Ids -> [KindSet -> States]]
        /\ local \in [Ids -> SUBSET KindSet]
    BY UploadAssumption, Steps DEF NoDb, Dbs, Init, States
  <2>2. /\ up.step = 0 /\ up.id = 0 /\ up.n = 0 /\ sweep.step = 0 /\ sweep.id = 0
        /\ orphan.step = "idle" /\ orphan.list = {} /\ orphan.known = {}
    BY DEF Init, UpIdle, SweepIdle, OrphanIdle, Idle
  <2>3. TypeOK
    BY <2>1, <2>2, OrphanSteps DEF Init, TypeOK, States
  <2>4. Shape
    BY DEF Init, Shape, UpIdle, SweepIdle, OrphanIdle, Idle
  <2> QED
    BY <2>3, <2>4
<1>2. Saved /\ UploadedAreWhole /\ PendingAreLocal /\ Sweeping /\ Uploading
  BY Steps
  DEF Init, Saved, UploadedAreWhole, PendingAreLocal, Sweeping, Uploading, UpIdle,
      SweepIdle, Idle
<1>3. Cleaning /\ Copies
  BY DEF Init, Cleaning, Copies, OrphanIdle, NoDb
<1> QED
  BY <1>1, <1>2, <1>3 DEF IInv

-----------------------------------------------------------------------------
(* The detector and the user.                                              *)

LEMMA SaveKeeps ==
  ASSUME IInv, SaveTrain
  PROVE  IInv'
<1>1. /\ trains < MaxTrains /\ trains' = trains + 1 /\ rows' = rows \union {trains + 1}
      /\ local' = [local EXCEPT ![trains + 1] = KindSet]
      /\ UNCHANGED <<uploaded, cleaned, remote, remoteDb, up, backup, sweep, orphan,
                     missed, failures>>
  BY DEF SaveTrain
<1>2. /\ trains \in Nat /\ MaxTrains \in Nat /\ trains + 1 \in Ids
      /\ local \in [Ids -> SUBSET KindSet]
      /\ rows \subseteq 1..trains /\ uploaded \subseteq 1..trains
  BY <1>1, UploadAssumption DEF IInv, TypeOK, Saved, Ids
<1>3. TypeOK' /\ Shape'
  BY <1>1, <1>2 DEF IInv, TypeOK, Shape, Ids
<1>4. \A t \in 1..trains : Gone(t)' <=> Gone(t)
  BY <1>1, <1>2 DEF Gone
<1>5. Saved' /\ Sweeping' /\ Copies'
  BY <1>1, <1>2 DEF IInv, Saved, Sweeping, Copies, Ids
<1>6. UploadedAreWhole'
  BY <1>1, <1>2, <1>4 DEF IInv, UploadedAreWhole, Whole
<1>7. PendingAreLocal'
  <2> SUFFICES ASSUME NEW t \in 1..trains + 1, t \notin uploaded
               PROVE  local'[t] = KindSet
    BY <1>1 DEF PendingAreLocal
  <2>1. t \in 1..trains \/ t = trains + 1
    BY <1>2
  <2> QED
    BY <1>1, <1>2, <2>1 DEF IInv, PendingAreLocal
<1>8. Uploading'
  BY <1>1, <1>2, <1>4 DEF IInv, Uploading
<1>9. Cleaning'
  <2>1. \A f \in orphan.list : f[1] \in Nat
    BY DEF IInv, Shape, Ids
  <2>2. \A f \in orphan.list : f[1] \in Ids
    BY DEF IInv, Shape
  <2> QED
    BY <1>1, <1>2, <1>4, <2>1, <2>2 DEF IInv, Cleaning, Gone
<1> QED
  BY <1>3, <1>5, <1>6, <1>7, <1>8, <1>9 DEF IInv

LEMMA DeleteRowKeeps ==
  ASSUME IInv, DeleteRow
  PROVE  IInv'
<1>1. /\ rows' \subseteq rows
      /\ UNCHANGED <<trains, uploaded, cleaned, remoteDb, up, backup, sweep, orphan,
                     missed, failures>>
      /\ UNCHANGED files
  BY DEF DeleteRow
<1>2. \A t : Gone(t) => Gone(t)'
  BY <1>1 DEF Gone
<1>3. TypeOK' /\ Shape' /\ Saved' /\ PendingAreLocal' /\ Sweeping' /\ Copies'
  BY <1>1
  DEF IInv, TypeOK, Shape, Saved, PendingAreLocal, Sweeping, Copies, files
<1>4. UploadedAreWhole' /\ Uploading' /\ Cleaning'
  BY <1>1, <1>2 DEF IInv, UploadedAreWhole, Whole, Uploading, Cleaning, files
<1> QED
  BY <1>3, <1>4 DEF IInv

-----------------------------------------------------------------------------
(* The uploader.                                                           *)

LEMMA PendingMin ==
  ASSUME IInv, Pending # {}
  PROVE  Min(Pending) \in Pending
<1>1. Pending \in SUBSET Nat
  <2>1. rows \subseteq Ids /\ Ids \subseteq Nat
    BY UploadAssumption DEF IInv, TypeOK, Ids
  <2> QED
    BY <2>1 DEF Pending
<1>2. \E x \in Pending : \A y \in Pending : x <= y
  BY <1>1, Least
<1> QED
  BY <1>2 DEF Min

\* A step of the uploader that moves no blob and marks no train.
LEMMA UpMovesKeep ==
  ASSUME IInv, OnlyUp, UNCHANGED <<rows, uploaded, remote>>,
         up' \in [step : 0..SendStep, id : 0..MaxTrains, n : Nat],
         failures' \in Nat,
         remoteDb' \in Dbs, remoteDb'.uploaded \subseteq uploaded,
         Uploading'
  PROVE  IInv'
<1>1. up' \in [step : Nat, id : Nat, n : Nat]
  BY Steps, UploadAssumption
<1>2. TypeOK' /\ Shape'
  BY <1>1 DEF IInv, TypeOK, Shape, OnlyUp
<1>3. Saved' /\ PendingAreLocal' /\ Sweeping' /\ Copies'
  BY DEF IInv, Saved, PendingAreLocal, Sweeping, Copies, OnlyUp
<1>4. UploadedAreWhole' /\ Cleaning'
  BY DEF IInv, UploadedAreWhole, Cleaning, Gone, Whole, OnlyUp
<1> QED
  BY <1>2, <1>3, <1>4 DEF IInv

LEMMA UpTypes ==
  ASSUME IInv
  PROVE  /\ up \in [step : 0..SendStep, id : 0..MaxTrains, n : Nat]
         /\ UpIdle \in [step : 0..SendStep, id : 0..MaxTrains, n : Nat]
         /\ UpIdle.step = 0 /\ AfterError = UpIdle
         /\ remoteDb \in Dbs /\ remoteDb.uploaded \subseteq uploaded
         /\ backup \in Dbs /\ backup.uploaded \subseteq uploaded
         /\ failures \in Nat /\ trains \in Nat /\ trains <= MaxTrains
  BY Steps, UploadAssumption
  DEF IInv, TypeOK, Shape, UpIdle, Idle, Copies, AfterError

LEMMA UploaderMovesKeep ==
  ASSUME IInv, NextUpload \/ NoMoreUploads \/ SendDb \/ UploadFails
  PROVE  IInv'
<1>1. OnlyUp /\ UNCHANGED <<rows, uploaded, remote>>
  BY DEF NextUpload, NoMoreUploads, SendDb, UploadFails
<1>2. CASE NextUpload
  <2>1. /\ up' = [up EXCEPT !.step = 1, !.id = Min(Pending)] /\ Pending # {}
        /\ UNCHANGED <<remoteDb, failures>>
    BY <1>2 DEF NextUpload
  <2>2. Min(Pending) \in rows /\ Min(Pending) \notin uploaded /\ rows \subseteq 1..trains
    BY <2>1, PendingMin DEF Pending, IInv, Saved
  <2>3. /\ up'.step = 1 /\ up'.id \in 1..trains /\ up'.id \notin uploaded
        /\ up' \in [step : 0..SendStep, id : 0..MaxTrains, n : Nat]
    <3> DEFINE m == Min(Pending)
    <3>1. m \in 1..trains /\ m \notin uploaded /\ m \in 0..MaxTrains
      <4>1. m \in 1..trains /\ m \notin uploaded
        BY <2>2
      <4> HIDE DEF m
      <4> QED
        BY <4>1, UpTypes, UploadAssumption
    <3> HIDE DEF m
    <3>2. up' = [up EXCEPT !.step = 1, !.id = m]
      BY <2>1 DEF m
    <3>3. 1 \in 0..SendStep
      BY Steps
    <3>4. up' = [step |-> 1, id |-> m, n |-> up.n] /\ up.n \in Nat
      BY <3>2, UpTypes
    <3> QED
      BY <3>1, <3>3, <3>4
  <2>4. Uploading'
    BY <1>1, <2>3 DEF Uploading, OnlyUp
  <2> QED
    BY <1>1, <2>1, <2>3, <2>4, UpTypes, UpMovesKeep
<1>3. CASE NoMoreUploads
  <2>1. up' = [up EXCEPT !.step = BackupStep] /\ UNCHANGED <<remoteDb, failures>>
    BY <1>3 DEF NoMoreUploads
  <2>2. /\ up'.step = Len(Kinds) + 2
        /\ up' \in [step : 0..SendStep, id : 0..MaxTrains, n : Nat]
    BY <2>1, UpTypes, Steps
  <2>3. Uploading'
    BY <2>2, Steps DEF Uploading
  <2> QED
    BY <1>1, <2>1, <2>2, <2>3, UpTypes, UpMovesKeep
<1>4. CASE SendDb \/ UploadFails
  <2>1. /\ up' = UpIdle /\ remoteDb' \in {remoteDb, backup}
        /\ failures' \in {failures, failures + 1}
    BY <1>4, UpTypes DEF SendDb, UploadFails, Fail
  <2>2. Uploading'
    BY <2>1, UpTypes, Steps DEF Uploading
  <2> QED
    BY <1>1, <2>1, <2>2, UpTypes, UpMovesKeep
<1> QED
  BY <1>2, <1>3, <1>4

LEMMA BackupKeeps ==
  ASSUME IInv, BackupDb
  PROVE  IInv'
<1>1. /\ up.step = BackupStep
      /\ backup' = [rows |-> rows, uploaded |-> uploaded \intersect rows]
      /\ up' = [up EXCEPT !.step = SendStep]
      /\ UNCHANGED <<trains, remoteDb, sweep, orphan, missed, failures>>
      /\ UNCHANGED tables /\ UNCHANGED files
  BY DEF BackupDb
<1>2. /\ up'.step = Len(Kinds) + 3 /\ up'.id = up.id /\ up'.n = up.n
      /\ up' \in [step : Nat, id : Nat, n : Nat]
  BY <1>1, Steps DEF IInv, Shape
<1>3. backup' \in Dbs /\ backup'.uploaded \subseteq uploaded
  BY <1>1 DEF IInv, TypeOK, Dbs
<1>4. TypeOK' /\ Shape' /\ Copies'
  BY <1>1, <1>2, <1>3, Steps DEF IInv, TypeOK, Shape, Copies, tables, files
<1>5. Uploading'
  BY <1>2, Steps DEF Uploading
<1>6. Saved' /\ PendingAreLocal' /\ Sweeping' /\ UploadedAreWhole' /\ Cleaning'
  BY <1>1
  DEF IInv, Saved, PendingAreLocal, Sweeping, UploadedAreWhole, Cleaning, Gone, Whole,
      tables, files
<1> QED
  BY <1>4, <1>5, <1>6 DEF IInv

\* A transfer, complete or broken off, of a blob of a train not uploaded yet.
LEMMA TransferKeeps ==
  ASSUME IInv, UploadBlob \/ UploadBlobFails
  PROVE  IInv'
<1> DEFINE k == Kinds[up.step]
<1>1. /\ up.step \in 1..Len(Kinds) /\ k \in KindSet
      /\ up.id \in 1..trains /\ up.id \in Ids /\ up.id \notin uploaded
      /\ local[up.id] = KindSet
  BY Steps DEF IInv, Uploading, TypeOK, PendingAreLocal, UploadBlob, UploadBlobFails, Ids
<1>2. PICK v \in States : remote' = remote \/ remote' = [remote EXCEPT ![up.id][k] = v]
  BY DEF UploadBlob, UploadBlobFails, States
<1>3. remote \in [Ids -> [KindSet -> States]]
  BY DEF IInv, TypeOK, States
<1> HIDE DEF k
<1>4. /\ remote' \in [Ids -> [KindSet -> States]]
      /\ \A u \in Ids, j \in KindSet :
           (u # up.id \/ j # k) => remote'[u][j] = remote[u][j]
  <2>1. CASE remote' = remote
    BY <1>3, <2>1
  <2>2. CASE remote' = [remote EXCEPT ![up.id][k] = v]
    BY <1>1, <1>3, <2>2, BlobSet
  <2> QED
    BY <1>2, <2>1, <2>2
<1>5. /\ OnlyUp /\ UNCHANGED <<rows, uploaded, remoteDb>>
      /\ failures' \in {failures, failures + 1}
  BY UpTypes DEF UploadBlob, UploadBlobFails, Fail
<1>6. \/ up' = UpIdle
      \/ /\ up' = [up EXCEPT !.step = up.step + 1]
         /\ remote' = [remote EXCEPT ![up.id][k] = "whole"]
  BY <1>1 DEF UploadBlob, UploadBlobFails, k
<1>7. /\ up' \in [step : 0..SendStep, id : 0..MaxTrains, n : Nat]
      /\ up' \in [step : Nat, id : Nat, n : Nat]
  BY <1>1, <1>6, UpTypes, Steps, UploadAssumption
<1>8. TypeOK' /\ Shape'
  BY <1>4, <1>5, <1>7, UpTypes DEF IInv, TypeOK, Shape, OnlyUp, States
<1>9. Saved'
  <2> SUFFICES ASSUME NEW t \in Ids, NEW j \in KindSet, remote'[t][j] # "none"
               PROVE  t <= trains
    BY <1>5 DEF IInv, Saved, OnlyUp
  <2>1. CASE t = up.id
    BY <1>1, <2>1, UpTypes
  <2>2. CASE t # up.id
    BY <1>4, <2>2 DEF IInv, Saved
  <2> QED
    BY <2>1, <2>2
<1>10. UploadedAreWhole'
  <2> SUFFICES ASSUME NEW t \in uploaded, ~Gone(t), NEW j \in KindSet
               PROVE  remote'[t][j] = "whole"
    BY <1>5 DEF UploadedAreWhole, Whole, Gone, OnlyUp
  <2>1. t \in Ids /\ t # up.id /\ remote[t][j] = "whole"
    BY <1>1 DEF IInv, TypeOK, UploadedAreWhole, Whole
  <2> QED
    BY <1>4, <2>1
<1>11. Uploading'
  <2>1. CASE up' = UpIdle
    BY <2>1, UpTypes DEF Uploading
  <2>2. CASE up' # UpIdle
    <3>1. /\ up'.step = up.step + 1 /\ up'.id = up.id
          /\ remote' = [remote EXCEPT ![up.id][k] = "whole"]
      BY <1>6, <2>2, UpTypes
    <3>2. /\ remote'[up.id][k] = "whole"
          /\ \A j \in KindSet : remote[up.id][j] = "whole" => remote'[up.id][j] = "whole"
      BY <1>1, <1>3, <3>1, BlobSet DEF States
    <3>3. ASSUME ~Gone(up.id), NEW i \in 1..up.step
          PROVE  remote'[up.id][Kinds[i]] = "whole"
      <4>1. i \in BlobSteps /\ Kinds[i] \in KindSet
        BY <1>1, Steps
      <4>2. CASE i = up.step
        BY <3>2, <4>2 DEF k
      <4>3. CASE i # up.step
        <5>1. i \in 1..up.step - 1 /\ up.step \in 1..Len(Kinds) + 1
          BY <1>1, <4>3, Steps
        <5> QED
          BY <3>2, <3>3, <4>1, <5>1 DEF IInv, Uploading
      <4> QED
        BY <4>2, <4>3
    <3>4. up'.step - 1 = up.step
      BY <1>1, <3>1
    <3> QED
      BY <1>1, <1>5, <3>1, <3>3, <3>4 DEF Uploading, Gone, OnlyUp
  <2> QED
    BY <2>1, <2>2
<1>12. PendingAreLocal' /\ Sweeping' /\ Cleaning' /\ Copies'
  BY <1>5
  DEF IInv, PendingAreLocal, Sweeping, Cleaning, Gone, Copies, OnlyUp
<1> QED
  BY <1>8, <1>9, <1>10, <1>11, <1>12 DEF IInv

\* A train is marked when all of its blobs are whole.
LEMMA MarkKeeps ==
  ASSUME IInv, MarkUploaded
  PROVE  IInv'
<1>1. /\ up.step = Len(Kinds) + 1
      /\ OnlyUp /\ UNCHANGED <<rows, remote, remoteDb, failures>>
      /\ uploaded' \subseteq uploaded \union {up.id} /\ uploaded \subseteq uploaded'
      /\ up' = [up EXCEPT !.step = Idle, !.n = up.n + 1] \/ up' = UpIdle
  BY Steps DEF MarkUploaded
<1>2. /\ up.id \in 1..trains /\ up.id \in Ids
      /\ Gone(up.id) \/ Whole(up.id)
  <2>1. up.step \in 1..Len(Kinds) + 1 /\ up.step - 1 = Len(Kinds)
    BY <1>1, Steps
  <2>2. up.id \in 1..trains
    BY <2>1 DEF IInv, Uploading
  <2>3. ASSUME ~Gone(up.id), NEW k \in KindSet PROVE remote[up.id][k] = "whole"
    <3>1. PICK i \in 1..Len(Kinds) : k = Kinds[i]
      BY Steps
    <3> QED
      BY <2>1, <2>3, <3>1 DEF IInv, Uploading
  <2> QED
    BY <2>2, <2>3, UpTypes, UploadAssumption DEF Whole, Ids
<1>3. /\ up'.step = 0
      /\ up' \in [step : 0..SendStep, id : 0..MaxTrains, n : Nat]
      /\ up' \in [step : Nat, id : Nat, n : Nat]
  <2>1. CASE up' = UpIdle
    <3>1. UpIdle \in [step : Nat, id : Nat, n : Nat]
      BY DEF UpIdle, Idle
    <3> QED
      BY <2>1, <3>1, UpTypes
  <2>2. CASE up' # UpIdle
    <3>1. up' = [step |-> 0, id |-> up.id, n |-> up.n + 1]
      BY <1>1, <2>2, UpTypes DEF Idle
    <3>2. up.id \in 0..MaxTrains /\ up.id \in Nat /\ up.n + 1 \in Nat /\ 0 \in 0..SendStep
      BY UpTypes, Steps, UploadAssumption
    <3> QED
      BY <3>1, <3>2
  <2> QED
    BY <2>1, <2>2
<1>4. TypeOK' /\ Shape'
  BY <1>1, <1>2, <1>3, UpTypes DEF IInv, TypeOK, Shape, OnlyUp
<1>5. Saved' /\ PendingAreLocal' /\ Sweeping' /\ Copies'
  BY <1>1, <1>2 DEF IInv, Saved, PendingAreLocal, Sweeping, Copies, OnlyUp
<1>6. UploadedAreWhole'
  BY <1>1, <1>2 DEF IInv, UploadedAreWhole, Gone, Whole, OnlyUp
<1>7. Uploading' /\ Cleaning'
  BY <1>1, <1>3 DEF IInv, Uploading, Cleaning, Gone, OnlyUp
<1> QED
  BY <1>4, <1>5, <1>6, <1>7 DEF IInv

-----------------------------------------------------------------------------
(* The cleaners and the end of the process.                                *)

\* A step of deleteOldLocalBlobs removes blobs of an uploaded train only.
LEMMA SweeperKeeps ==
  ASSUME IInv, Sweeper
  PROVE  IInv'
<1>1. OnlySweep /\ failures' \in {failures, failures + 1}
  BY DEF Sweeper, NextCleanup, RemoveLocal, MarkCleaned, SweepFails, Fail
<1>2. /\ cleaned \subseteq Ids /\ rows \subseteq Ids /\ local \in [Ids -> SUBSET KindSet]
      /\ sweep \in [step : Nat, id : Nat] /\ uploaded \subseteq Ids
      /\ sweep.step \in 0..Len(Kinds) + 1 /\ sweep.id \in 0..MaxTrains
  BY DEF IInv, TypeOK, Shape
<1>3. /\ sweep' \in [step : Nat, id : Nat]
      /\ sweep'.step \in 0..Len(Kinds) + 1 /\ sweep'.id \in 0..MaxTrains
      /\ Sweeping'
  <2>1. CASE NextCleanup
    <3>1. PICK t \in Newest(Candidates, Offset) : sweep' = [step |-> 1, id |-> t]
      BY <2>1 DEF NextCleanup
    <3>2. t \in rows /\ t \in uploaded /\ t \in 0..MaxTrains /\ t \in Nat
      BY <1>2, UploadAssumption DEF Newest, Candidates, Ids
    <3> QED
      BY <1>1, <3>1, <3>2, Steps DEF Sweeping, OnlySweep
  <2>2. CASE RemoveLocal
    <3>1. /\ sweep' = [step |-> sweep.step + 1, id |-> sweep.id]
          /\ sweep.step \in 1..Len(Kinds)
      BY <1>2, <2>2 DEF RemoveLocal
    <3>2. sweep.id \in uploaded
      BY <3>1 DEF IInv, Sweeping, Idle
    <3> QED
      BY <1>1, <1>2, <3>1, <3>2, Steps DEF Sweeping, OnlySweep
  <2>3. CASE MarkCleaned \/ SweepFails
    <3>1. sweep' = [step |-> 0, id |-> 0]
      BY <2>3 DEF MarkCleaned, SweepFails, SweepIdle, Idle
    <3> QED
      BY <3>1, Steps, UploadAssumption DEF Sweeping, Idle
  <2> QED
    BY <2>1, <2>2, <2>3 DEF Sweeper
<1>4. /\ local' \in [Ids -> SUBSET KindSet]
      /\ \A t \in Ids \ uploaded : local'[t] = local[t]
  <2>1. CASE RemoveLocal
    <3>1. /\ local' = [local EXCEPT ![sweep.id] = local[sweep.id] \ {Kinds[sweep.step]}]
          /\ sweep.step \in 1..Len(Kinds)
      BY <2>1 DEF RemoveLocal
    <3>2. sweep.id \in uploaded
      BY <3>1 DEF IInv, Sweeping, Idle
    <3> QED
      BY <1>2, <3>1, <3>2
  <2>2. CASE local' = local
    BY <1>2, <2>2
  <2> QED
    BY <2>1, <2>2 DEF Sweeper, NextCleanup, MarkCleaned, SweepFails
<1>5. cleaned' \subseteq Ids
  <2>1. CASE MarkCleaned
    BY <1>2, <2>1 DEF MarkCleaned
  <2>2. CASE cleaned' = cleaned
    BY <1>2, <2>2
  <2> QED
    BY <2>1, <2>2 DEF Sweeper, NextCleanup, RemoveLocal, SweepFails
<1>6. TypeOK' /\ Shape'
  BY <1>1, <1>3, <1>4, <1>5, UpTypes DEF IInv, TypeOK, Shape, OnlySweep
<1>7. PendingAreLocal'
  <2>1. 1..trains \subseteq Ids
    BY UpTypes, UploadAssumption DEF Ids
  <2> QED
    BY <1>1, <1>4, <2>1 DEF IInv, PendingAreLocal, OnlySweep
<1>8. Saved' /\ UploadedAreWhole' /\ Uploading' /\ Cleaning' /\ Copies'
  BY <1>1
  DEF IInv, Saved, UploadedAreWhole, Uploading, Cleaning, Gone, Whole, Copies, OnlySweep
<1> QED
  BY <1>3, <1>6, <1>7, <1>8 DEF IInv

\* A step of cleanupOrphanedRemoteBlobs that deletes nothing.
LEMMA OrphanReadsKeep ==
  ASSUME IInv, OnlyOrphan, UNCHANGED remote, failures' \in Nat,
         missed \subseteq missed', missed' \subseteq Ids,
         orphan' \in [step : {"idle", "list", "rows", "delete"},
                      list : SUBSET (Ids \X KindSet), known : SUBSET Ids],
         Cleaning'
  PROVE  IInv'
<1>1. TypeOK' /\ Shape'
  BY OrphanSteps DEF IInv, TypeOK, Shape, OnlyOrphan, tables
<1>2. Saved' /\ PendingAreLocal' /\ Sweeping' /\ Copies'
  BY DEF IInv, Saved, PendingAreLocal, Sweeping, Copies, OnlyOrphan, tables
<1>3. \A t : Gone(t) => Gone(t)'
  BY DEF Gone, OnlyOrphan, tables
<1>4. UploadedAreWhole' /\ Uploading'
  BY <1>3 DEF IInv, UploadedAreWhole, Uploading, Whole, OnlyOrphan, tables
<1> QED
  BY <1>1, <1>2, <1>4 DEF IInv

LEMMA OrphanListingKeeps ==
  ASSUME IInv,
         \/ StartOrphans \/ ListRemote \/ ReadRows \/ ReadRowsPartly
         \/ OrphansDone \/ OrphansFail
  PROVE  IInv'
<1> DEFINE Loops == [step : {"idle", "list", "rows", "delete"},
                     list : SUBSET (Ids \X KindSet), known : SUBSET Ids]
<1>1. /\ OnlyOrphan /\ UNCHANGED remote /\ failures' \in {failures, failures + 1}
      /\ missed \subseteq missed'
  BY DEF StartOrphans, ListRemote, ReadRows, ReadRowsPartly, OrphansDone, OrphansFail, Fail
<1>2. /\ orphan \in Loops /\ rows \subseteq Ids /\ missed \subseteq Ids /\ failures' \in Nat
      /\ UNCHANGED <<trains, rows>>
  BY <1>1, UpTypes DEF IInv, TypeOK, Shape, OnlyOrphan, tables
<1>3. CASE StartOrphans \/ OrphansDone \/ OrphansFail
  <2>1. /\ orphan' \in Loops /\ orphan'.list = {} /\ missed' = missed
    BY <1>3, OrphanSteps DEF StartOrphans, OrphansDone, OrphansFail, OrphanIdle
  <2>2. Cleaning'
    BY <2>1 DEF Cleaning
  <2> QED
    BY <1>1, <1>2, <2>1, <2>2, OrphanReadsKeep
<1>4. CASE ListRemote
  <2>1. /\ orphan' = [orphan EXCEPT !.step = "rows", !.list = RemoteFiles]
        /\ missed' = missed
    BY <1>4, OrphanSteps DEF ListRemote
  <2>2. /\ RemoteFiles \in SUBSET (Ids \X KindSet)
        /\ \A f \in RemoteFiles : f[1] <= trains
    BY DEF RemoteFiles, IInv, Saved
  <2> HIDE DEF RemoteFiles
  <2>3. /\ orphan' \in Loops /\ orphan'.step = "rows" /\ orphan'.list = RemoteFiles
    BY <1>2, <2>1, <2>2
  <2>4. Cleaning'
    BY <1>2, <2>2, <2>3 DEF Cleaning
  <2> QED
    BY <1>1, <1>2, <2>1, <2>3, <2>4, OrphanReadsKeep
<1>5. CASE ReadRows \/ ReadRowsPartly
  <2>1. PICK known \in SUBSET Ids :
          /\ orphan' = [orphan EXCEPT !.step = "delete", !.known = known]
          /\ missed' \subseteq Ids
          /\ \A t : t \in known \/ Gone(t)'
    <3>1. CASE ReadRows
      BY <1>2, <3>1, OrphanSteps DEF ReadRows, Gone
    <3>2. CASE ReadRowsPartly
      <4>1. PICK known \in SUBSET rows :
              /\ orphan' = [orphan EXCEPT !.step = "delete", !.known = known]
              /\ missed' = missed \union (rows \ known)
        BY <3>2, OrphanSteps DEF ReadRowsPartly
      <4> QED
        BY <1>2, <4>1 DEF Gone
    <3> QED
      BY <1>5, <3>1, <3>2
  <2>2. /\ orphan' \in Loops /\ orphan'.known = known /\ orphan'.list = orphan.list
        /\ orphan.step = "rows"
    BY <1>2, <1>5, <2>1 DEF ReadRows, ReadRowsPartly
  <2>3. Cleaning'
    BY <1>2, <2>1, <2>2 DEF IInv, Cleaning
  <2> QED
    BY <1>1, <1>2, <2>1, <2>2, <2>3, OrphanReadsKeep
<1> QED
  BY <1>3, <1>4, <1>5

\* Only blobs of a train that is gone are deleted.
LEMMA DeleteRemoteKeeps ==
  ASSUME IInv, DeleteRemote
  PROVE  IInv'
<1>1. PICK f \in Orphaned :
        /\ remote' = [remote EXCEPT ![f[1]][f[2]] = "none"]
        /\ orphan' = [orphan EXCEPT !.list = orphan.list \ {f}]
  BY DEF DeleteRemote
<1>2. /\ orphan.step = "delete" /\ OnlyOrphan /\ UNCHANGED <<missed, failures>>
      /\ orphan \in [step : {"idle", "list", "rows", "delete"},
                     list : SUBSET (Ids \X KindSet), known : SUBSET Ids]
      /\ remote \in [Ids -> [KindSet -> States]]
  BY DEF DeleteRemote, IInv, TypeOK, Shape, States
<1>3. f \in orphan.list /\ f[1] \in Ids /\ f[2] \in KindSet /\ Gone(f[1])
  BY <1>2 DEF Orphaned, IInv, Cleaning
<1>4. PICK t \in Ids, k \in KindSet : t = f[1] /\ k = f[2]
  BY <1>3
<1>5. /\ remote' \in [Ids -> [KindSet -> States]]
      /\ \A u \in Ids, j \in KindSet :
           /\ u # t => remote'[u][j] = remote[u][j]
           /\ remote'[u][j] # "none" => remote'[u][j] = remote[u][j]
  <2>1. remote' = [remote EXCEPT ![t][k] = "none"] /\ "none" \in States
    BY <1>1, <1>4 DEF States
  <2> QED
    BY <1>2, <2>1, BlobSet
<1>6. /\ orphan' \in [step : {"idle", "list", "rows", "delete"},
                      list : SUBSET (Ids \X KindSet), known : SUBSET Ids]
      /\ orphan'.step = orphan.step /\ orphan'.known = orphan.known
      /\ orphan'.list \subseteq orphan.list
  BY <1>1, <1>2
<1>7. TypeOK' /\ Shape'
  BY <1>2, <1>5, <1>6, OrphanSteps DEF IInv, TypeOK, Shape, OnlyOrphan, tables, States
<1>8. Saved' /\ PendingAreLocal' /\ Sweeping' /\ Copies'
  BY <1>2, <1>5 DEF IInv, Saved, PendingAreLocal, Sweeping, Copies, OnlyOrphan, tables
<1>9. Cleaning'
  BY <1>2, <1>6 DEF IInv, Cleaning, Gone, OnlyOrphan, tables
<1>10. UploadedAreWhole'
  <2> SUFFICES ASSUME NEW u \in uploaded, ~Gone(u), NEW j \in KindSet
               PROVE  remote'[u][j] = "whole"
    BY <1>2 DEF UploadedAreWhole, Whole, Gone, OnlyOrphan, tables
  <2>1. u \in Ids /\ u # t /\ remote[u][j] = "whole"
    BY <1>3, <1>4 DEF IInv, TypeOK, UploadedAreWhole, Whole
  <2> QED
    BY <1>5, <2>1
<1>11. Uploading'
  <2> SUFFICES ASSUME up.step \in 1..Len(Kinds) + 1, ~Gone(up.id), NEW i \in 1..up.step - 1
               PROVE  remote'[up.id][Kinds[i]] = "whole"
    BY <1>2 DEF IInv, Uploading, Gone, OnlyOrphan, tables
  <2>1. /\ up.id \in 1..trains /\ remote[up.id][Kinds[i]] = "whole"
    BY DEF IInv, Uploading
  <2>2. i \in BlobSteps
    BY Steps
  <2>3. up.id \in Ids /\ up.id # t /\ Kinds[i] \in KindSet
    BY <1>3, <1>4, <2>1, <2>2, Steps, UpTypes, UploadAssumption DEF Ids
  <2> QED
    BY <1>5, <2>1, <2>3
<1> QED
  BY <1>7, <1>8, <1>9, <1>10, <1>11 DEF IInv

LEMMA CrashKeeps ==
  ASSUME IInv, Crash
  PROVE  IInv'
<1>1. /\ up' = UpIdle /\ sweep' = SweepIdle /\ orphan' = OrphanIdle
      /\ failures' = failures + 1 /\ UNCHANGED <<trains, remoteDb, backup, missed>>
      /\ UNCHANGED tables /\ UNCHANGED files
  BY DEF Crash, Fail
<1>2. /\ UpIdle \in [step : Nat, id : Nat, n : Nat] /\ UpIdle.id = 0 /\ UpIdle.n = 0
      /\ SweepIdle \in [step : Nat, id : Nat]
      /\ SweepIdle.step = 0 /\ SweepIdle.id = 0
      /\ OrphanIdle \in [step : {"idle", "list", "rows", "delete"},
                         list : SUBSET (Ids \X KindSet), known : SUBSET Ids]
      /\ OrphanIdle.step = "idle" /\ OrphanIdle.list = {} /\ OrphanIdle.known = {}
  BY DEF UpIdle, SweepIdle, OrphanIdle, Idle
<1>3. TypeOK' /\ Shape'
  <2>1. /\ 0 \in 0..SendStep /\ 0 \in 0..MaxTrains /\ 0 \in 0..Len(Kinds) + 1
        /\ failures + 1 \in Nat
    BY UpTypes, Steps, UploadAssumption
  <2>2. UpIdle.step = 0
    BY UpTypes
  <2>3. TypeOK'
    BY <1>1, <1>2, <2>1, <2>2, OrphanSteps DEF IInv, TypeOK, tables, files
  <2>4. Shape'
    BY <1>1, <1>2 DEF Shape
  <2> QED
    BY <2>3, <2>4
<1>4. Saved' /\ UploadedAreWhole' /\ PendingAreLocal' /\ Copies'
  BY <1>1
  DEF IInv, Saved, UploadedAreWhole, PendingAreLocal, Copies, Gone, Whole, tables, files
<1>5. Sweeping' /\ Uploading' /\ Cleaning'
  BY <1>1, <1>2, UpTypes, Steps DEF Sweeping, Uploading, Cleaning, Idle
<1> QED
  BY <1>3, <1>4, <1>5 DEF IInv

-----------------------------------------------------------------------------
(* The theorems.                                                           *)

LEMMA InvariantNext == IInv /\ [Next]_vars => IInv'
<1> SUFFICES ASSUME IInv, [Next]_vars PROVE IInv'
  OBVIOUS
<1>1. CASE SaveTrain
  BY <1>1, SaveKeeps
<1>2. CASE DeleteRow
  BY <1>2, DeleteRowKeeps
<1>3. CASE Uploader
  BY <1>3, UploaderMovesKeep, BackupKeeps, TransferKeeps, MarkKeeps DEF Uploader
<1>4. CASE Sweeper
  BY <1>4, SweeperKeeps
<1>5. CASE OrphanCleaner
  BY <1>5, OrphanListingKeeps, DeleteRemoteKeeps DEF OrphanCleaner
<1>6. CASE Crash
  BY <1>6, CrashKeeps
<1>7. CASE UNCHANGED vars
  BY <1>7
  DEF vars, tables, files, IInv, TypeOK, Shape, Saved, UploadedAreWhole, PendingAreLocal,
      Sweeping, Uploading, Cleaning, Copies, Gone, Whole
<1> QED
  BY <1>1, <1>2, <1>3, <1>4, <1>5, <1>6, <1>7 DEF Next

LEMMA Invariant == Spec => []IInv
<1> QED
  BY InvariantInit, InvariantNext, PTL DEF Spec

\* Every variable of the uploader and the cleaners keeps its type.
THEOREM UploadTypes == Spec => []TypeOK
<1>1. IInv => TypeOK
  BY DEF IInv
<1> QED
  BY <1>1, Invariant, PTL

\* However upload.All and the two cleaners interleave, fail and crash, every
\* blob of a train in the database is on local disk or whole on the server.
THEOREM NoBlobIsLost == Spec => []NothingLost
<1>1. IInv => NothingLost
  BY InvariantSuffices
<1> QED
  BY <1>1, Invariant, PTL

\* A train that the database on the server shows as uploaded has all of its
\* blobs there, unless its row is gone.
THEOREM ShownTrainsAreThere == Spec => []ShownIsThere
<1>1. IInv => ShownIsThere
  BY InvariantSuffices
<1> QED
  BY <1>1, Invariant, PTL

-----------------------------------------------------------------------------
(* The newest trains.                                                      *)

\* A train that is being swept, or was, has KeepLastN - 1 trains after it:
\* there were as many candidates, and ids are given in order.
SweptIsOld ==
  /\ sweep.step # Idle => sweep.id + Offset <= trains
  /\ \A t \in 1..trains : local[t] # KindSet => t + Offset <= trains

\* The train that is chosen has Offset candidates after it.
LEMMA ChosenIsOld ==
  ASSUME IInv, NEW t \in Newest(Candidates, Offset)
  PROVE  t + Offset <= trains
<1> DEFINE S == {u \in Candidates : u > t}
<1>1. /\ trains \in Nat /\ rows \subseteq 1..trains /\ t \in 1..trains
      /\ Offset \in Nat /\ Cardinality(S) = Offset
  BY UploadAssumption DEF IInv, TypeOK, Saved, Newest, Candidates, Offset
<1>2. S \subseteq t + 1..trains
  <2> SUFFICES ASSUME NEW u \in Candidates, u > t
               PROVE  u \in t + 1..trains
    OBVIOUS
  <2>1. u \in 1..trains
    BY <1>1 DEF Candidates
  <2> QED BY <1>1, <2>1
<1>3. IsFiniteSet(t + 1..trains) /\ Cardinality(t + 1..trains) = trains - t
  <2>1. t + 1 \in Int /\ trains \in Int
    BY <1>1
  <2>2. /\ IsFiniteSet(t + 1..trains)
        /\ Cardinality(t + 1..trains) = IF t + 1 > trains THEN 0 ELSE trains - (t + 1) + 1
    BY <2>1, FS_Interval
  <2> QED BY <1>1, <2>2
<1>4. Cardinality(S) <= trains - t
  <2> HIDE DEF S
  <2> QED BY <1>2, <1>3, FS_Subset
<1> QED BY <1>1, <1>4

LEMMA SweptStaysOld ==
  ASSUME IInv, SweptIsOld, [Next]_vars
  PROVE  SweptIsOld'
<1>1. /\ trains \in Nat /\ Offset \in Nat /\ local \in [Ids -> SUBSET KindSet]
      /\ sweep \in [step : Nat, id : Nat]
  BY UploadAssumption DEF IInv, TypeOK, Shape, Offset
<1>2. CASE SaveTrain
  <2>1. /\ trains' = trains + 1 /\ trains + 1 \in Ids /\ sweep' = sweep
        /\ local' = [local EXCEPT ![trains + 1] = KindSet]
    BY <1>1, <1>2, UploadAssumption DEF SaveTrain, Ids
  <2>2. \A t \in 1..trains + 1 : t \in 1..trains \/ local'[t] = KindSet
    BY <1>1, <2>1
  <2>3. \A t \in 1..trains : local'[t] = local[t] \/ local'[t] = KindSet
    BY <1>1, <2>1
  <2>4. \A t \in 1..trains : t + Offset <= trains => t + Offset <= trains + 1
    BY <1>1
  <2>5. sweep.step # Idle => sweep.id + Offset <= trains + 1
    BY <1>1 DEF SweptIsOld
  <2> QED BY <2>1, <2>2, <2>3, <2>4, <2>5 DEF SweptIsOld, Offset
<1>3. CASE NextCleanup
  <2>1. PICK t \in Newest(Candidates, Offset) : sweep' = [step |-> 1, id |-> t]
    BY <1>3 DEF NextCleanup
  <2> QED BY <1>3, <2>1, ChosenIsOld DEF NextCleanup, OnlySweep, SweptIsOld, Offset
<1>4. CASE RemoveLocal
  <2>1. /\ sweep.step \in 1..Len(Kinds) /\ trains' = trains
        /\ local' = [local EXCEPT ![sweep.id] = local[sweep.id] \ {Kinds[sweep.step]}]
        /\ sweep' = [sweep EXCEPT !.step = sweep.step + 1]
    BY <1>4 DEF RemoveLocal, OnlySweep
  <2>2. sweep'.id = sweep.id /\ sweep.id + Offset <= trains
    BY <1>1, <2>1 DEF SweptIsOld, Idle
  <2>3. \A t \in 1..trains : t = sweep.id \/ local'[t] = local[t]
    BY <1>1, <2>1
  <2> QED BY <2>1, <2>2, <2>3 DEF SweptIsOld, Offset
<1>5. CASE trains' = trains /\ local' = local /\ sweep' \in {sweep, SweepIdle}
  BY <1>5 DEF SweptIsOld, SweepIdle, Idle, Offset
<1> QED
  BY <1>2, <1>3, <1>4, <1>5
  DEF Next, vars, tables, files, DeleteRow, Uploader, NextUpload, NoMoreUploads, UploadBlob,
      UploadBlobFails, MarkUploaded, BackupDb, SendDb, UploadFails, OnlyUp, Sweeper,
      MarkCleaned, SweepFails, OnlySweep, OrphanCleaner, StartOrphans, ListRemote, ReadRows,
      ReadRowsPartly, DeleteRemote, OrphansDone, OrphansFail, OnlyOrphan, Crash

\* Of the trains whose local blobs are not complete the newest has enough
\* trains after it, all of which are complete.
LEMMA OldSuffices ==
  ASSUME IInv, SweptIsOld
  PROVE  RecentKept
<1> SUFFICES ASSUME NEW t \in rows, local[t] # KindSet
             PROVE  Cardinality({u \in 1..trains : u > t /\ local[u] = KindSet}) >= Offset
  BY DEF RecentKept, Offset
<1> DEFINE Swept == {u \in 1..trains : local[u] # KindSet}
           Kept  == {u \in 1..trains : u > t /\ local[u] = KindSet}
<1>1. trains \in Nat /\ Offset \in Nat /\ t \in 1..trains
  BY UploadAssumption DEF IInv, TypeOK, Saved, Offset
<1>2. PICK m \in Swept : \A u \in Swept : u <= m
  <2>1. Swept \in SUBSET (0..trains) /\ t \in Swept
    BY <1>1
  <2> HIDE DEF Swept
  <2> QED BY <1>1, <2>1, Greatest
<1>3. m \in 1..trains /\ m >= t /\ m + Offset <= trains
  BY <1>1, <1>2 DEF SweptIsOld
<1>4. m + 1..trains \subseteq Kept
  <2> SUFFICES ASSUME NEW u \in m + 1..trains PROVE u \in Kept
    OBVIOUS
  <2>1. u \in 1..trains /\ u > t /\ ~(u <= m)
    BY <1>1, <1>3
  <2> QED BY <1>2, <2>1
<1>5. Cardinality(m + 1..trains) = trains - m
  <2>1. m + 1 \in Int /\ trains \in Int
    BY <1>1, <1>3
  <2>2. Cardinality(m + 1..trains) =
          IF m + 1 > trains THEN 0 ELSE trains - (m + 1) + 1
    BY <2>1, FS_Interval
  <2> QED BY <1>1, <1>3, <2>2
<1>6. /\ Cardinality(m + 1..trains) <= Cardinality(Kept)
      /\ Cardinality(Kept) \in Nat
  <2>1. IsFiniteSet(1..trains)
    BY <1>1, FS_Interval
  <2>2. Kept \subseteq 1..trains
    OBVIOUS
  <2>3. IsFiniteSet(Kept)
    <3> HIDE DEF Kept
    <3> QED BY <2>1, <2>2, FS_Subset
  <2> HIDE DEF Kept
  <2> QED BY <1>4, <2>3, FS_Subset, FS_CardinalityType
<1>7. Cardinality(Kept) >= Offset
  <2> HIDE DEF Kept
  <2> QED BY <1>1, <1>3, <1>5, <1>6
<1> QED BY <1>7

\* deleteOldLocalBlobs leaves the newest trains alone, although it may be
\* interrupted, rows may be deleted and trains found while it runs.
THEOREM NewestTrainsAreKept == Spec => []RecentKept
<1>1. Init => SweptIsOld
  BY DEF Init, SweptIsOld, SweepIdle, Idle
<1>2. IInv /\ SweptIsOld /\ [Next]_vars => SweptIsOld'
  BY SweptStaysOld
<1>3. IInv /\ SweptIsOld => RecentKept
  BY OldSuffices
<1> QED BY <1>1, <1>2, <1>3, Invariant, PTL DEF Spec
=============================================================================
