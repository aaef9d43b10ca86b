-------------------------- MODULE TrainStoreProofs --------------------------
(***************************************************************************)
(* Proofs about TrainStore with a live clock, for any number of saves and  *)
(* any start times: a train in the database keeps its own whole blobs, no  *)
(* save replaces those of another train, and the cleanup command lists     *)
(* every orphan.                                                           *)
(***************************************************************************)
EXTENDS TrainStore, TLAPS

-----------------------------------------------------------------------------
(* The inductive invariant.                                                *)

\* A time stamp that is in use: every train found later has a greater one.
Old(m) ==
  \/ m <= FileStamp(train.start)
  \/ \E s \in LegacyStarts : m = FileStamp(s)

\* Rows are older than the train being saved.
RowsOld ==
  /\ \A s \in LegacyStarts : Row(s, 0) \in rows
  /\ \A r \in rows : r.save <= saves /\ (r.save = 0 => r.start \in LegacyStarts)
  /\ train.save <= saves
  /\ saver # "idle" =>
       /\ train.save = saves /\ saves > 0
       /\ \A r \in rows : /\ FileStamp(r.start) < FileStamp(train.start)
                          /\ r.save < saves

\* A file is one of the Go detector or was written by a save.
FilesOld ==
  \A f \in blobs :
    /\ f = File(f.name, f.save, f.whole) /\ f.save <= saves
    /\ \/ f \in Legacy
       \/ /\ f.name[2] \in TrainKinds /\ f.name[1] <= FileStamp(train.start)
          /\ \A s \in LegacyStarts : f.name[1] # FileStamp(s)

Before ==
  [image |-> {}, thumb |-> {"image"}, video |-> {"image", "thumb"}, row |-> TrainKinds]

\* What the save has written so far is there.
Progress ==
  saver # "idle" /\ train.save \notin overlap =>
    \A k \in Before[saver] : File(Name(train.start, k), train.save, TRUE) \in blobs

\* Between the two readings of the cleanup command a row is known, or its
\* save overlaps; afterwards the script has nothing of any other row.
Listing ==
  tool = "listing" =>
    /\ saver # "idle" => train.save \in overlap
    /\ \A r \in rows : r.save \notin overlap =>
         \A k \in KeptKinds(r) : Name(r.start, k) \in known
    /\ \A n \in known : \E r \in rows, k \in KnownKinds : n = Name(r.start, k)

Printed ==
  /\ tool = "idle" => overlap = {}
  /\ tool # "printed" => script = {}
  /\ \A n \in script :
       /\ Old(n[1])
       /\ \A r \in rows : r.save \notin overlap =>
            \A k \in KeptKinds(r) : n # Name(r.start, k)
       /\ saver # "idle" /\ train.save \notin overlap =>
            \A k \in TrainKinds : n # Name(train.start, k)

IInv ==
  /\ TypeOK /\ RowsOld /\ FilesOld /\ Progress /\ Listing /\ Printed
  /\ RowsHaveBlobs

-----------------------------------------------------------------------------
(* Names.                                                                  *)

LEMMA Stamps ==
  /\ \A s \in Nat : FileStamp(s) \in Nat /\ MsOf(s) = FileStamp(s)
  /\ \A s, t, j, k : Name(s, j) = Name(t, k) <=> FileStamp(s) = FileStamp(t) /\ j = k
<1>1. \A s \in Nat : s \div TicksPerMs \in Nat
  BY StoreAssumption
<1>2. \A s \in Nat : FileStamp(s) \in Nat /\ MsOf(s) = FileStamp(s)
  BY <1>1 DEF FileStamp, MsOf
<1>3. ASSUME NEW s, NEW t, NEW j, NEW k
      PROVE  Name(s, j) = Name(t, k) <=> FileStamp(s) = FileStamp(t) /\ j = k
  BY DEF Name
<1> QED
  BY <1>2, <1>3

\* A file of the train being saved never has the name of another train's.
LEMMA RowFacts ==
  ASSUME IInv, NEW r \in rows
  PROVE  /\ r.start \in Nat /\ r.save \in Nat /\ FileStamp(r.start) \in Nat
         /\ r.save <= saves
         /\ KeptKinds(r) \subseteq TrainKinds /\ OwnKinds(r) \subseteq Kinds
         /\ KeptKinds(r) \subseteq Kinds
         /\ saver # "idle" =>
              \A j, k : Name(r.start, j) # Name(train.start, k)
<1>1. /\ r.start \in Nat /\ r.save \in Nat /\ FileStamp(r.start) \in Nat
      /\ r.save <= saves /\ FileStamp(train.start) \in Nat
  BY Stamps DEF IInv, TypeOK, RowsOld
<1>2. /\ KeptKinds(r) \subseteq TrainKinds /\ OwnKinds(r) \subseteq Kinds
      /\ KeptKinds(r) \subseteq Kinds
  BY DEF KeptKinds, OwnKinds, TrainKinds, Kinds
<1>3. saver # "idle" => FileStamp(r.start) # FileStamp(train.start)
  BY <1>1 DEF IInv, RowsOld
<1> QED
  BY <1>1, <1>2, <1>3, Stamps

LEMMA TrainFacts ==
  ASSUME IInv
  PROVE  /\ train.start \in Nat /\ train.save \in Nat /\ saves \in Nat
         /\ FileStamp(train.start) \in Nat
         /\ train.save <= saves
         /\ saver # "idle" => train.save = saves /\ saves > 0
         /\ \A s \in LegacyStarts : s \in Nat /\ FileStamp(s) \in Nat
         /\ saver # "idle" => \A s \in LegacyStarts : FileStamp(s) < FileStamp(train.start)
<1>1. \A s \in LegacyStarts : s \in Nat /\ Row(s, 0) \in rows /\ Row(s, 0).start = s
  BY StoreAssumption DEF IInv, RowsOld, Row
<1> QED
  BY <1>1, Stamps DEF IInv, TypeOK, RowsOld

LEMMA LegacyFacts ==
  ASSUME NEW f \in Legacy
  PROVE  /\ f = File(f.name, 0, TRUE) /\ f.save = 0 /\ f.whole = TRUE
         /\ f.whole \in BOOLEAN
         /\ f.name \in FileNames
         /\ f.name[2] \in {"image", "thumb", "gif"}
         /\ \E s \in LegacyStarts : f.name[1] = FileStamp(s)
<1>1. PICK s \in LegacyStarts, k \in {"image", "thumb", "gif"} :
        f = File(Name(s, k), 0, TRUE)
  BY DEF Legacy, File
<1>2. f.name = Name(s, k) /\ f.save = 0 /\ f.whole = TRUE
  BY <1>1 DEF File
<1>3. Name(s, k) \in FileNames /\ Name(s, k)[1] = FileStamp(s) /\ Name(s, k)[2] = k
  BY Stamps, StoreAssumption DEF Name, FileNames, Kinds
<1>4. f.whole \in BOOLEAN
  BY <1>2, Zenon
<1> QED
  BY <1>1, <1>2, <1>3, <1>4

LEMMA InvariantInit == Init => IInv
<1> SUFFICES ASSUME Init PROVE IInv
  OBVIOUS
<1>1. blobs = Legacy /\ saver = "idle" /\ saves = 0 /\ train.start = 0 /\ train.save = 0
      /\ tool = "idle" /\ known = {} /\ script = {} /\ overlap = {}
  BY DEF Init, NoTrain
<1>2. \A r \in rows : r.save = 0 /\ r.start \in LegacyStarts /\ r.start \in Nat
  BY StoreAssumption DEF Init, Row
<1>3. TypeOK
  <2>1. ASSUME NEW f \in blobs, NEW g \in blobs, f.name = g.name PROVE f = g
    <3>1. f \in Legacy /\ g \in Legacy
      BY <1>1
    <3>2. f = File(f.name, 0, TRUE) /\ g = File(g.name, 0, TRUE)
      BY <3>1, LegacyFacts
    <3> QED
      BY <2>1, <3>2
  <2>2. ASSUME NEW f \in blobs
        PROVE  f.name \in FileNames /\ f.save \in Nat /\ f.whole \in BOOLEAN
    <3>1. f \in Legacy
      BY <1>1
    <3>2. f.name \in FileNames /\ f.save = 0 /\ f.whole \in BOOLEAN
      BY <3>1, LegacyFacts
    <3> QED
      BY <3>2
  <2> QED
    BY <1>1, <1>2, <2>1, <2>2 DEF TypeOK
<1>4. RowsOld
  BY <1>1, <1>2 DEF Init, RowsOld
<1>5. FilesOld
  <2>1. ASSUME NEW f \in blobs
        PROVE  f = File(f.name, f.save, f.whole) /\ f.save <= saves /\ f \in Legacy
    <3>1. f \in Legacy
      BY <1>1
    <3>2. f = File(f.name, 0, TRUE) /\ f.save = 0 /\ f.whole = TRUE
      BY <3>1, LegacyFacts
    <3>3. File(f.name, f.save, f.whole) = File(f.name, 0, TRUE)
      BY <3>2 DEF File
    <3>4. f = File(f.name, f.save, f.whole)
      BY <3>2, <3>3, Zenon
    <3>5. f.save <= saves
      BY <1>1, <3>2
    <3> QED
      BY <3>1, <3>4, <3>5
  <2> QED
    BY <2>1 DEF FilesOld
<1>6. Progress /\ Listing /\ Printed
  BY <1>1 DEF Progress, Listing, Printed
<1>7. RowsHaveBlobs
  <2> SUFFICES ASSUME NEW r \in rows, NEW k \in {"image", "thumb"}
               PROVE  File(Name(r.start, k), r.save, TRUE) \in Legacy
    BY <1>1, <1>2 DEF RowsHaveBlobs, KeptKinds, OwnKinds, HasBlob
  <2>1. r.save = 0 /\ r.start \in LegacyStarts
    BY <1>2
  <2>2. File(Name(r.start, k), 0, TRUE) \in Legacy
    <3>1. k \in {"image", "thumb", "gif"}
      OBVIOUS
    <3> DEFINE Dir(w) == {File(Name(s, j), 0, w) :
                            s \in LegacyStarts, j \in {"image", "thumb", "gif"}}
    <3>2. ASSUME NEW w PROVE File(Name(r.start, k), 0, w) \in Dir(w)
      BY <2>1, <3>1
    <3>3. Legacy = Dir(TRUE)
      BY DEF Legacy
    <3> HIDE DEF Dir
    <3>4. File(Name(r.start, k), 0, TRUE) \in Dir(TRUE)
      BY <3>2, Zenon
    <3> QED
      BY <3>3, <3>4, Zenon
  <2> QED
    BY <2>1, <2>2, Zenon
<1> QED
  BY <1>3, <1>4, <1>5, <1>6, <1>7 DEF IInv

-----------------------------------------------------------------------------
(* save_train.                                                             *)

\* The files of other trains and the other files of this one stay.
LEMMA WrittenFacts ==
  ASSUME NEW w \in BOOLEAN, NEW k
  PROVE  LET e == File(Name(train.start, k), train.save, w)
         IN  /\ e.name = Name(train.start, k) /\ e.save = train.save /\ e.whole = w
             /\ e \in Written(k, w)
             /\ \A f \in Written(k, w) :
                  f = e \/ (f \in blobs /\ f.name # Name(train.start, k))
             /\ \A f \in blobs : f.name # Name(train.start, k) => f \in Written(k, w)
<1> DEFINE e == File(Name(train.start, k), train.save, w)
<1>1. e.name = Name(train.start, k) /\ e.save = train.save /\ e.whole = w
  BY DEF File
<1>2. Written(k, w) = {f \in blobs : f.name # Name(train.start, k)} \union {e}
  BY DEF Written, Named
<1> HIDE DEF e
<1>3. /\ e \in Written(k, w)
      /\ \A f \in Written(k, w) : f = e \/ (f \in blobs /\ f.name # Name(train.start, k))
      /\ \A f \in blobs : f.name # Name(train.start, k) => f \in Written(k, w)
  BY <1>2
<1> QED
  BY <1>1, <1>3 DEF e

LEMMA WrittenKeeps ==
  ASSUME IInv, saver \in TrainKinds, NEW w \in BOOLEAN, blobs' = Written(saver, w)
  PROVE  /\ \A f \in blobs' : f.name \in FileNames /\ f.save \in Nat /\ f.whole \in BOOLEAN
         /\ \A f \in blobs', g \in blobs' : f.name = g.name => f = g
         /\ \A f \in blobs' :
              /\ f = File(f.name, f.save, f.whole) /\ f.save <= saves
              /\ \/ f \in Legacy
                 \/ /\ f.name[2] \in TrainKinds /\ f.name[1] <= FileStamp(train.start)
                    /\ \A s \in LegacyStarts : f.name[1] # FileStamp(s)
         /\ \A r \in rows, k \in Kinds :
              HasBlob(r, k) => File(Name(r.start, k), r.save, TRUE) \in blobs'
<1> DEFINE e == File(Name(train.start, saver), train.save, w)
<1>1. saver # "idle" /\ saver \in Kinds
  BY DEF TrainKinds, Kinds
<1>2. /\ e.name = Name(train.start, saver) /\ e.save = train.save /\ e.whole = w
      /\ e = File(e.name, e.save, e.whole)
      /\ e \in blobs'
      /\ \A f \in blobs' : f = e \/ (f \in blobs /\ f.name # Name(train.start, saver))
      /\ \A f \in blobs : f.name # Name(train.start, saver) => f \in blobs'
  BY WrittenFacts
<1>3. /\ e.name \in FileNames /\ e.name[1] = FileStamp(train.start) /\ e.name[2] = saver
      /\ e.save \in Nat /\ e.save <= saves
  BY <1>1, <1>2, TrainFacts DEF Name, FileNames
<1>4. \A s \in LegacyStarts : FileStamp(train.start) # FileStamp(s)
  BY <1>1, TrainFacts
<1>5. FileStamp(train.start) <= FileStamp(train.start)
  BY TrainFacts
<1> HIDE DEF e
<1>6. \A f \in blobs' : f.name \in FileNames /\ f.save \in Nat /\ f.whole \in BOOLEAN
  BY <1>2, <1>3 DEF IInv, TypeOK
<1>7. \A f \in blobs', g \in blobs' : f.name = g.name => f = g
  BY <1>2 DEF IInv, TypeOK
<1>8. ASSUME NEW f \in blobs'
      PROVE  /\ f = File(f.name, f.save, f.whole) /\ f.save <= saves
             /\ \/ f \in Legacy
                \/ /\ f.name[2] \in TrainKinds /\ f.name[1] <= FileStamp(train.start)
                   /\ \A s \in LegacyStarts : f.name[1] # FileStamp(s)
  <2>1. CASE f = e
    BY <1>2, <1>3, <1>4, <1>5, <2>1
  <2>2. CASE f \in blobs
    BY <2>2 DEF IInv, FilesOld
  <2> QED
    BY <1>2, <2>1, <2>2
<1>9. ASSUME NEW r \in rows, NEW k \in Kinds, HasBlob(r, k)
      PROVE  File(Name(r.start, k), r.save, TRUE) \in blobs'
  <2>1. Name(r.start, k) # Name(train.start, saver)
    BY <1>1, RowFacts
  <2>2. File(Name(r.start, k), r.save, TRUE).name = Name(r.start, k)
    BY DEF File
  <2> QED
    BY <1>2, <1>9, <2>1, <2>2 DEF HasBlob
<1> QED
  BY <1>6, <1>7, <1>8, <1>9

\* A step of the save that writes a file, in part or whole, or none.
LEMMA SavingKeeps ==
  ASSUME IInv, saver # "idle", UNCHANGED <<rows, train, saves, clean>>,
         \/ blobs' = blobs
         \/ saver \in TrainKinds /\ \E w \in BOOLEAN : blobs' = Written(saver, w),
         saver' \in Steps \union {"idle"}, Progress'
  PROVE  IInv'
<1>1. /\ \A f \in blobs' : f.name \in FileNames /\ f.save \in Nat /\ f.whole \in BOOLEAN
      /\ \A f \in blobs', g \in blobs' : f.name = g.name => f = g
      /\ \A f \in blobs' :
           /\ f = File(f.name, f.save, f.whole) /\ f.save <= saves
           /\ \/ f \in Legacy
              \/ /\ f.name[2] \in TrainKinds /\ f.name[1] <= FileStamp(train.start)
                 /\ \A s \in LegacyStarts : f.name[1] # FileStamp(s)
      /\ \A r \in rows, k \in Kinds :
           HasBlob(r, k) => File(Name(r.start, k), r.save, TRUE) \in blobs'
  <2>1. CASE blobs' = blobs
    BY <2>1 DEF IInv, TypeOK, FilesOld, HasBlob
  <2>2. CASE saver \in TrainKinds /\ \E w \in BOOLEAN : blobs' = Written(saver, w)
    BY <2>2, WrittenKeeps
  <2> QED
    BY <2>1, <2>2
<1>2. TypeOK'
  BY <1>1 DEF IInv, TypeOK, clean
<1>3. FilesOld'
  BY <1>1 DEF FilesOld
<1>4. RowsOld' /\ Listing' /\ Printed'
  BY DEF IInv, RowsOld, Listing, Printed, Old, clean
<1>5. RowsHaveBlobs'
  BY <1>1, RowFacts DEF IInv, RowsHaveBlobs, HasBlob, clean
<1> QED
  BY <1>2, <1>3, <1>4, <1>5 DEF IInv

LEMMA SaveStepsKeep ==
  ASSUME IInv, Write \/ WriteFails \/ InsertFails \/ Crash
  PROVE  IInv'
<1>1. CASE Write
  <2>1. /\ saver \in TrainKinds /\ saver # "idle" /\ blobs' = Written(saver, TRUE)
        /\ saver' = After[saver] /\ UNCHANGED <<rows, train, saves, clean>>
    BY <1>1 DEF Write, TrainKinds
  <2>2. /\ saver' \in Steps /\ saver \notin Before[saver]
        /\ Before[saver'] = Before[saver] \union {saver}
    BY <2>1 DEF TrainKinds, After, Before, Steps
  <2>3. Progress'
    <3> SUFFICES ASSUME train.save \notin overlap, NEW k \in Before[saver] \union {saver}
                 PROVE  File(Name(train.start, k), train.save, TRUE) \in blobs'
      BY <2>1, <2>2 DEF Progress, clean
    <3>1. CASE k = saver
      BY <2>1, <3>1, WrittenFacts
    <3>2. CASE k \in Before[saver]
      <4>1. Name(train.start, k) # Name(train.start, saver)
        BY <2>2, <3>2, Stamps
      <4>2. /\ File(Name(train.start, k), train.save, TRUE) \in blobs
            /\ File(Name(train.start, k), train.save, TRUE).name = Name(train.start, k)
        BY <2>1, <3>2 DEF IInv, Progress, File
      <4> QED
        BY <2>1, <4>1, <4>2, WrittenFacts
    <3> QED
      BY <3>1, <3>2
  <2> QED
    BY <2>1, <2>2, <2>3, SavingKeeps
<1>2. CASE WriteFails \/ InsertFails \/ Crash
  <2>1. /\ saver # "idle" /\ saver' = "idle" /\ UNCHANGED <<rows, train, saves, clean>>
        /\ \/ blobs' = blobs
           \/ saver \in TrainKinds /\ blobs' = Written(saver, FALSE)
    BY <1>2 DEF WriteFails, InsertFails, Crash, TrainKinds, store
  <2>2. Progress'
    BY <2>1 DEF Progress
  <2> QED
    BY <2>1, <2>2, SavingKeeps
<1> QED
  BY <1>1, <1>2

LEMMA InsertKeeps ==
  ASSUME IInv, InsertRow
  PROVE  IInv'
<1> DEFINE e == Row(train.start, train.save)
<1>1. /\ saver = "row" /\ saver' = "idle" /\ rows' = rows \union {e}
      /\ UNCHANGED <<blobs, train, saves>> /\ UNCHANGED clean
  BY DEF InsertRow, After
<1>2. e.start = train.start /\ e.save = train.save
  BY DEF Row
<1> HIDE DEF e
<1>3. /\ train.start \in Nat /\ train.save = saves /\ saves \in Nat /\ saves > 0
  BY <1>1, TrainFacts
<1>4. KeptKinds(e) = TrainKinds
  BY <1>2, <1>3 DEF KeptKinds, OwnKinds, TrainKinds
<1>5. TypeOK'
  BY <1>1, <1>2, <1>3 DEF IInv, TypeOK, clean
<1>6. RowsOld' /\ FilesOld' /\ Progress'
  BY <1>1, <1>2, <1>3, RowFacts DEF IInv, RowsOld, FilesOld, Progress
<1>7. Listing'
  BY <1>1, <1>2 DEF IInv, Listing, clean
<1>8. Printed'
  <2> SUFFICES ASSUME NEW n \in script
               PROVE  /\ Old(n[1])
                      /\ \A r \in rows' : r.save \notin overlap =>
                           \A k \in KeptKinds(r) : n # Name(r.start, k)
    BY <1>1 DEF IInv, Printed, Old, clean
  <2>1. /\ Old(n[1])
        /\ \A r \in rows : r.save \notin overlap =>
             \A k \in KeptKinds(r) : n # Name(r.start, k)
        /\ train.save \notin overlap => \A k \in TrainKinds : n # Name(train.start, k)
    BY <1>1 DEF IInv, Printed
  <2> QED
    BY <1>1, <1>2, <1>4, <2>1
<1>9. RowsHaveBlobs'
  <2> SUFFICES ASSUME NEW r \in rows', r.save \notin overlap, NEW k \in KeptKinds(r)
               PROVE  HasBlob(r, k)
    BY <1>1 DEF RowsHaveBlobs, HasBlob, clean
  <2>1. CASE r \in rows
    BY <2>1 DEF IInv, RowsHaveBlobs
  <2>2. CASE r = e
    <3>1. Before[saver] = TrainKinds
      BY <1>1 DEF Before
    <3>2. k \in TrainKinds /\ train.save \notin overlap
      BY <1>2, <1>4, <2>2
    <3>3. File(Name(train.start, k), train.save, TRUE) \in blobs
      BY <1>1, <3>1, <3>2 DEF IInv, Progress
    <3> QED
      BY <1>2, <2>2, <3>3 DEF HasBlob
  <2> QED
    BY <1>1, <2>1, <2>2
<1> QED
  BY <1>5, <1>6, <1>7, <1>8, <1>9 DEF IInv

\* A live clock gives a new train a stamp that no file and no row has.
LEMMA FindKeeps ==
  ASSUME IInv, LiveClock, FindTrain
  PROVE  IInv'
<1>1. PICK start \in Starts :
        /\ MsOf(start) > MsOf(train.start)
        /\ \A r \in rows : MsOf(start) > MsOf(r.start)
        /\ train' = [start |-> start, save |-> saves + 1]
  BY DEF FindTrain
<1>2. /\ saver = "idle" /\ saver' = "image" /\ saves' = saves + 1
      /\ overlap' = IF tool = "listing" THEN overlap \union {saves + 1} ELSE overlap
      /\ UNCHANGED <<blobs, rows, tool, known, script>>
  BY DEF FindTrain, store
<1>3. /\ start \in Nat /\ train'.start = start /\ train'.save = saves + 1
      /\ FileStamp(start) \in Nat /\ MsOf(start) = FileStamp(start)
  BY <1>1, Stamps, StoreAssumption
<1>4. /\ saves \in Nat /\ FileStamp(train.start) \in Nat
      /\ FileStamp(train.start) < FileStamp(start)
      /\ \A r \in rows : FileStamp(r.start) < FileStamp(start)
  BY <1>1, <1>3, TrainFacts, RowFacts, Stamps
<1>5. \A s \in LegacyStarts : FileStamp(s) \in Nat /\ FileStamp(s) < FileStamp(start)
  <2>1. \A s \in LegacyStarts : Row(s, 0) \in rows /\ Row(s, 0).start = s
    BY DEF IInv, RowsOld, Row
  <2> QED
    BY <1>4, <2>1, TrainFacts
<1>6. TypeOK'
  <2>1. overlap' \subseteq 1..saves + 1
    BY <1>2, <1>4 DEF IInv, TypeOK
  <2> QED
    BY <1>2, <1>3, <1>4, <2>1 DEF IInv, TypeOK, Steps
<1>7. RowsOld'
  <2>1. \A r \in rows : r.save <= saves /\ r.save \in Nat
    BY RowFacts
  <2> QED
    BY <1>2, <1>3, <1>4, <2>1 DEF IInv, RowsOld
<1>8. FilesOld'
  <2> SUFFICES ASSUME NEW f \in blobs
               PROVE  /\ f = File(f.name, f.save, f.whole) /\ f.save <= saves + 1
                      /\ \/ f \in Legacy
                         \/ /\ f.name[2] \in TrainKinds /\ f.name[1] <= FileStamp(start)
                            /\ \A s \in LegacyStarts : f.name[1] # FileStamp(s)
    BY <1>2, <1>3 DEF FilesOld
  <2>1. f.save \in Nat /\ f.name[1] \in Nat
    BY DEF IInv, TypeOK, FileNames
  <2>2. f = File(f.name, f.save, f.whole)
    BY DEF IInv, FilesOld
  <2>3. f.save <= saves + 1
    BY <1>4, <2>1 DEF IInv, FilesOld
  <2>4. CASE f \in Legacy
    BY <2>2, <2>3, <2>4
  <2>5. CASE f \notin Legacy
    <3>1. /\ f.name[2] \in TrainKinds /\ f.name[1] <= FileStamp(train.start)
          /\ \A s \in LegacyStarts : f.name[1] # FileStamp(s)
      BY <2>5 DEF IInv, FilesOld
    <3>2. f.name[1] <= FileStamp(start)
      BY <1>3, <1>4, <2>1, <3>1
    <3> QED
      BY <2>2, <2>3, <3>1, <3>2
  <2> QED
    BY <2>4, <2>5
<1>9. Progress'
  BY <1>2 DEF Progress, Before
<1>10. \A r \in rows : r.save \in Nat /\ r.save <= saves
  BY RowFacts
<1>11. Listing'
  BY <1>2, <1>3, <1>10 DEF IInv, Listing
<1>12. Printed'
  <2>1. overlap' = {} \/ tool # "idle"
    BY <1>2 DEF IInv, Printed
  <2> SUFFICES ASSUME NEW n \in script
               PROVE  /\ n[1] <= FileStamp(start) \/ \E s \in LegacyStarts : n[1] = FileStamp(s)
                      /\ \A r \in rows : r.save \notin overlap =>
                           \A k \in KeptKinds(r) : n # Name(r.start, k)
                      /\ \A k \in TrainKinds : n # Name(start, k)
    BY <1>2, <1>3, <2>1 DEF IInv, Printed, Old
  <2>2. n[1] \in Nat /\ Old(n[1])
    BY DEF IInv, TypeOK, FileNames, Printed
  <2>3. n[1] < FileStamp(start)
    BY <1>3, <1>4, <1>5, <2>2 DEF Old
  <2>4. \A k : Name(start, k)[1] = FileStamp(start)
    BY DEF Name
  <2> QED
    BY <1>3, <2>2, <2>3, <2>4 DEF IInv, Printed
<1>13. RowsHaveBlobs'
  BY <1>2 DEF IInv, RowsHaveBlobs, HasBlob
<1> QED
  BY <1>6, <1>7, <1>8, <1>9, <1>11, <1>12, <1>13 DEF IInv

-----------------------------------------------------------------------------
(* The cleanup command.                                                    *)

LEMMA ReadRowsKeeps ==
  ASSUME IInv, ReadRows
  PROVE  IInv'
<1>1. /\ tool = "idle" /\ tool' = "listing"
      /\ known' = {Name(r.start, k) : r \in rows, k \in KnownKinds}
      /\ overlap' = IF saver = "idle" THEN {} ELSE {train.save}
      /\ UNCHANGED <<blobs, rows, saver, train, saves, script>>
  BY DEF ReadRows, store, saving
<1>2. overlap = {} /\ script = {}
  BY <1>1 DEF IInv, Printed
<1>3. /\ \A r \in rows, k \in KnownKinds : Name(r.start, k) \in known'
      /\ \A n \in known' : \E r \in rows, k \in KnownKinds : n = Name(r.start, k)
  BY <1>1
<1>4. known' \subseteq FileNames
  <2> SUFFICES ASSUME NEW n \in known' PROVE n \in FileNames
    OBVIOUS
  <2>1. PICK r \in rows, k \in KnownKinds : n = Name(r.start, k)
    BY <1>3
  <2>2. FileStamp(r.start) \in Nat /\ k \in Kinds
    BY RowFacts DEF KnownKinds, Kinds
  <2> QED
    BY <2>1, <2>2 DEF Name, FileNames
<1>5. overlap' \subseteq 1..saves
  BY <1>1, TrainFacts
<1>6. TypeOK'
  BY <1>1, <1>4, <1>5 DEF IInv, TypeOK
<1>7. RowsOld' /\ FilesOld' /\ Progress' /\ RowsHaveBlobs'
  BY <1>1, <1>2 DEF IInv, RowsOld, FilesOld, Progress, RowsHaveBlobs, HasBlob
<1>8. \A r \in rows : KeptKinds(r) \subseteq KnownKinds
  BY DEF KeptKinds, OwnKinds, KnownKinds, TrainKinds
<1>9. Listing'
  BY <1>1, <1>3, <1>8 DEF Listing
<1>10. Printed'
  BY <1>1, <1>2 DEF Printed
<1> QED
  BY <1>6, <1>7, <1>9, <1>10 DEF IInv

LEMMA ListBlobsKeeps ==
  ASSUME IInv, ListBlobs
  PROVE  IInv'
<1>1. /\ tool = "listing" /\ tool' = "printed" /\ script' = Names(blobs) \ known
      /\ UNCHANGED <<blobs, rows, saver, train, saves, known, overlap>>
  BY DEF ListBlobs, Orphans, store, saving
<1>2. ASSUME NEW n \in script'
      PROVE  /\ n \in FileNames /\ Old(n[1])
             /\ \A r \in rows : r.save \notin overlap =>
                  \A k \in KeptKinds(r) : n # Name(r.start, k)
  <2>1. PICK f \in blobs : n = f.name /\ n \notin known
    BY <1>1 DEF Names
  <2>2. Old(n[1])
    <3>1. CASE f \in Legacy
      BY <2>1, <3>1, LegacyFacts DEF Old
    <3>2. CASE f \notin Legacy
      BY <2>1, <3>2 DEF Old, IInv, FilesOld
    <3> QED
      BY <3>1, <3>2
  <2>3. n \in FileNames
    BY <2>1 DEF IInv, TypeOK
  <2> QED
    BY <1>1, <2>1, <2>2, <2>3 DEF IInv, Listing
<1>3. TypeOK'
  BY <1>1, <1>2 DEF IInv, TypeOK
<1>4. RowsOld' /\ FilesOld' /\ Progress' /\ RowsHaveBlobs' /\ Listing'
  BY <1>1 DEF IInv, RowsOld, FilesOld, Progress, RowsHaveBlobs, HasBlob, Listing
<1>5. Printed'
  <2>1. saver # "idle" => train.save \in overlap
    BY <1>1 DEF IInv, Listing
  <2> QED
    BY <1>1, <1>2, <2>1 DEF Printed, Old
<1> QED
  BY <1>3, <1>4, <1>5 DEF IInv

\* A line of the script removes nothing of a train whose save did not overlap.
LEMMA RunScriptKeeps ==
  ASSUME IInv, RunScript
  PROVE  IInv'
<1>1. PICK n \in script :
        blobs' = {f \in blobs : f.name # n} /\ script' = script \ {n}
  BY DEF RunScript, Named
<1>2. tool = "printed" /\ UNCHANGED <<rows, saver, train, saves, tool, known, overlap>>
  BY DEF RunScript, saving
<1>3. /\ \A r \in rows : r.save \notin overlap =>
           \A k \in KeptKinds(r) : n # Name(r.start, k)
      /\ saver # "idle" /\ train.save \notin overlap =>
           \A k \in TrainKinds : n # Name(train.start, k)
  BY DEF IInv, Printed
<1>4. TypeOK'
  BY <1>1, <1>2 DEF IInv, TypeOK
<1>5. RowsOld' /\ FilesOld' /\ Listing'
  BY <1>1, <1>2 DEF IInv, RowsOld, FilesOld, Listing
<1>6. Printed'
  BY <1>1, <1>2 DEF IInv, Printed, Old
<1>7. Progress'
  <2> SUFFICES ASSUME saver # "idle", train.save \notin overlap, NEW k \in Before[saver]
               PROVE  File(Name(train.start, k), train.save, TRUE) \in blobs'
    BY <1>2 DEF Progress
  <2>1. saver \in Steps /\ k \in TrainKinds
    <3>1. saver \in Steps
      BY DEF IInv, TypeOK
    <3>2. Before[saver] \subseteq TrainKinds
      BY <3>1 DEF Steps, Before, TrainKinds
    <3> QED
      BY <3>1, <3>2
  <2>2. File(Name(train.start, k), train.save, TRUE) \in blobs
    BY DEF IInv, Progress
  <2>3. File(Name(train.start, k), train.save, TRUE).name = Name(train.start, k)
    BY DEF File
  <2> QED
    BY <1>1, <1>3, <2>1, <2>2, <2>3
<1>8. RowsHaveBlobs'
  <2> SUFFICES ASSUME NEW r \in rows, r.save \notin overlap, NEW k \in KeptKinds(r)
               PROVE  File(Name(r.start, k), r.save, TRUE) \in blobs'
    BY <1>2 DEF RowsHaveBlobs, HasBlob
  <2>1. File(Name(r.start, k), r.save, TRUE) \in blobs
    BY DEF IInv, RowsHaveBlobs, HasBlob
  <2>2. File(Name(r.start, k), r.save, TRUE).name = Name(r.start, k)
    BY DEF File
  <2> QED
    BY <1>1, <1>3, <2>1, <2>2
<1> QED
  BY <1>4, <1>5, <1>6, <1>7, <1>8 DEF IInv

-----------------------------------------------------------------------------
(* The theorems.                                                           *)

LEMMA InvariantNext ==
  ASSUME LiveClock, IInv, [Next]_vars
  PROVE  IInv'
<1>1. CASE FindTrain
  BY <1>1, FindKeeps
<1>2. CASE Write \/ WriteFails \/ InsertFails \/ Crash
  BY <1>2, SaveStepsKeep
<1>3. CASE InsertRow
  BY <1>3, InsertKeeps
<1>4. CASE Cleanup
  BY <1>4, ReadRowsKeeps, ListBlobsKeeps, RunScriptKeeps DEF Cleanup
<1>5. CASE UNCHANGED vars
  BY <1>5
  DEF vars, store, saving, clean, IInv, TypeOK, RowsOld, FilesOld, Old, Progress,
      Listing, Printed, RowsHaveBlobs, HasBlob
<1> QED
  BY <1>1, <1>2, <1>3, <1>4, <1>5 DEF Next, Save

LEMMA Invariant ==
  ASSUME LiveClock
  PROVE  Spec => []IInv
<1>1. IInv /\ [Next]_vars => IInv'
  BY InvariantNext
<1> QED
  BY <1>1, InvariantInit, PTL DEF Spec

\* Every variable of the store keeps its type, and names are unique.
THEOREM StoreTypes == ASSUME LiveClock PROVE Spec => []TypeOK
<1>1. IInv => TypeOK
  BY DEF IInv
<1>2. Spec => []IInv
  BY Invariant
<1> QED
  BY <1>1, <1>2, PTL

\* With a live clock a train in the database keeps its own whole blobs,
\* unless it was being saved while the cleanup command ran.
THEOREM RowsKeepBlobs == ASSUME LiveClock PROVE Spec => []RowsHaveBlobs
<1>1. IInv => RowsHaveBlobs
  BY DEF IInv
<1>2. Spec => []IInv
  BY Invariant
<1> QED
  BY <1>1, <1>2, PTL

\* With a live clock what the cleanup command does not list belongs to a row.
THEOREM AllOrphansListed == ASSUME LiveClock PROVE Spec => OrphansListed
<1>1. ASSUME IInv, ListBlobs, NEW n \in Names(blobs)
      PROVE  n \in script' \/ InDb(n)
  <2>1. tool = "listing" /\ script' = Names(blobs) \ known
    BY <1>1 DEF ListBlobs, Orphans
  <2> SUFFICES ASSUME n \in known PROVE InDb(n)
    BY <2>1
  <2>2. PICK r \in rows, k \in KnownKinds : n = Name(r.start, k)
    BY <1>1, <2>1 DEF IInv, Listing
  <2>3. PICK f \in blobs : n = f.name
    BY DEF Names
  <2>4. n[1] = FileStamp(r.start) /\ n[2] = k
    BY <2>2 DEF Name
  <2>5. k \in OwnKinds(r)
    <3>1. CASE f \in Legacy
      <4>1. k \in {"image", "thumb"}
        BY <2>3, <2>4, <3>1, LegacyFacts DEF KnownKinds
      <4> QED
        BY <4>1 DEF OwnKinds, TrainKinds
    <3>2. CASE f \notin Legacy
      <4>1. k \in TrainKinds /\ \A s \in LegacyStarts : FileStamp(r.start) # FileStamp(s)
        BY <1>1, <2>3, <2>4, <3>2 DEF IInv, FilesOld
      <4>2. r.save # 0
        BY <1>1, <4>1 DEF IInv, RowsOld
      <4> QED
        BY <4>1, <4>2 DEF OwnKinds
    <3> QED
      BY <3>1, <3>2
  <2> QED
    BY <2>2, <2>5 DEF InDb
<1>2. IInv /\ [Next]_vars => [ListBlobs => \A n \in Names(blobs) : n \in script' \/ InDb(n)]_vars
  BY <1>1
<1>3. Spec => []IInv
  BY Invariant
<1> QED
  BY <1>2, <1>3, PTL DEF Spec, OrphansListed

\* With a live clock no step of a save replaces a file of a train in the
\* database: what the store_overwrite run shows needs a start time that
\* repeats.
THEOREM NoSaveReplaces == ASSUME LiveClock PROVE Spec => OneTrainPerFile
<1>1. ASSUME IInv, Save, NEW r \in rows, NEW k \in OwnKinds(r), HasBlob(r, k)
      PROVE  HasBlob(r, k)'
  <2>1. k \in Kinds
    BY <1>1, RowFacts
  <2>2. CASE blobs' = blobs
    BY <1>1, <2>2 DEF HasBlob
  <2>3. CASE saver \in TrainKinds /\ \E w \in BOOLEAN : blobs' = Written(saver, w)
    BY <1>1, <2>1, <2>3, WrittenKeeps DEF HasBlob
  <2> QED
    BY <1>1, <2>2, <2>3
    DEF Save, FindTrain, Write, WriteFails, InsertRow, InsertFails, Crash, store
<1>2. IInv /\ [Next]_vars =>
        [Save => \A r \in rows : \A k \in OwnKinds(r) :
           HasBlob(r, k) => HasBlob(r, k)']_vars
  BY <1>1
<1>3. Spec => []IInv
  BY Invariant
<1> QED
  BY <1>2, <1>3, PTL DEF Spec, OneTrainPerFile
=============================================================================
