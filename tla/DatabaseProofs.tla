--------------------------- MODULE DatabaseProofs ---------------------------
(***************************************************************************)
(* Theorems about the database file: its migration (Migration), for every  *)
(* number of processes, every content of a file of the first schema and    *)
(* every number of interruptions, and its way to the web server beside the *)
(* blobs (RsyncUploader), for every set of trains and number of failures.  *)
(***************************************************************************)
EXTENDS Migration, RsyncUploader, TLAPS, FiniteSetTheorems, WellFoundedInduction

\* The statements of the transaction, after its begin.
InTransaction == {"copy", "delete_cleanups", "delete_trains", "delete_temperatures", "commit"}
Statements == {"closed", "create", "begin", "ready"} \union InTransaction

Typed ==
  /\ disk \in Contents /\ work \in Contents
  /\ pc \in [Proc -> Statements]
  /\ lock \in Proc \union {Nobody}
  /\ old.trains \subseteq OldIds
  /\ marks \in [uploaded : SUBSET Nat, cleaned_up : SUBSET Nat]

\* Who is in the transaction holds the lock.
LockHeld == \A p \in Proc : pc[p] \in InTransaction <=> lock = p

\* The old tables as they were found, and nothing in the new one.
Unmigrated ==
  /\ disk.trains = old.trains /\ disk.uploaded_at = old.uploaded_at
  /\ disk.cleanups = old.cleanups
  /\ disk.trains_v2 = {} /\ marks = [uploaded |-> {}, cleaned_up |-> {}]
  /\ \A p \in Proc : ~At(p, "ready")

Migrated(c) ==
  /\ c.trains = {} /\ c.uploaded_at = {} /\ c.cleanups = {}
  /\ \A i \in old.trains :
       {r \in c.trains_v2 : r.id = i \/ r.time = i} =
         {[id |-> i, time |-> i,
           uploaded   |-> i \in old.uploaded_at \union marks.uploaded,
           cleaned_up |-> i \in old.cleanups \union marks.cleaned_up]}
  /\ \A r \in c.trains_v2 : r.id <= c.last_id

\* What the transaction has made of the committed content so far.
Copied ==
  /\ work.trains_v2 = disk.trains_v2 \union OldRows(disk)
  /\ work.last_id = Larger(disk.last_id, LargestId(disk))

WorkDone ==
  \A p \in Proc :
    /\ pc[p] = "copy" => work = disk
    /\ pc[p] \in InTransaction \ {"copy"} => Copied
    /\ pc[p] \in {"delete_trains", "delete_temperatures", "commit"} => work.cleanups = {}
    /\ pc[p] \in {"delete_temperatures", "commit"} => work.trains = {} /\ work.uploaded_at = {}

IInv == Typed /\ LockHeld /\ WorkDone /\ (Unmigrated \/ Migrated(disk))

-----------------------------------------------------------------------------
LEMMA EmptyTyped == Empty \in Contents
BY DEF Empty, Contents, Creates

LEMMA ContentsTyped ==
  ASSUME NEW c \in Contents
  PROVE  /\ c.trains \subseteq OldIds /\ c.trains \subseteq Nat
         /\ c.uploaded_at \subseteq OldIds /\ c.cleanups \subseteq OldIds
         /\ c.trains_v2 \subseteq Rows /\ c.last_id \in Nat
<1>1. c.trains \subseteq OldIds /\ c.uploaded_at \subseteq OldIds /\ c.cleanups \subseteq OldIds
  BY DEF Contents
<1>2. c.trains_v2 \subseteq Rows /\ c.last_id \in Nat
  BY DEF Contents
<1>3. OldIds \subseteq Nat
  BY MigrationAssumption
<1> QED BY <1>1, <1>2, <1>3

\* A non-empty finite set of numbers has a greatest element: a minimal one
\* of the sets of the elements from x on, ordered by strict inclusion, is picked.
LEMMA GreatestOfFinite ==
  ASSUME NEW T \in SUBSET Int, T # {}, IsFiniteSet(T)
  PROVE  \E x \in T : \A y \in T : y <= x
<1> DEFINE Up(x) == {y \in T : x <= y}
           U == {Up(x) : x \in T}
           R == StrictSubsetOrdering(T)
<1>1. IsWellFoundedOn(R, FiniteSubsetsOf(T))
  BY FS_StrictSubsetOrderingWellFounded
<1>2. U \subseteq FiniteSubsetsOf(T)
  BY FS_Subset DEF FiniteSubsetsOf
<1>3. U # {}
  OBVIOUS
<1>4. PICK u \in U : \A v \in U : ~(<<v, u>> \in R)
  <2> HIDE DEF U, R
  <2> QED BY <1>1, <1>2, <1>3, WFMin
<1>5. PICK x \in T : u = Up(x)
  OBVIOUS
<1>6. ASSUME NEW y \in T, ~(y <= x)
      PROVE  FALSE
  <2>1. Up(y) \subseteq Up(x) /\ Up(y) # Up(x)
    <3>1. x \in Up(x) /\ x \notin Up(y)
      BY <1>6
    <3>2. ASSUME NEW z \in T, y <= z
          PROVE  x <= z
      <4>1. x \in Int /\ y \in Int /\ z \in Int
        OBVIOUS
      <4> QED BY <1>6, <3>2, <4>1
    <3> QED BY <3>1, <3>2
  <2>2. <<Up(y), Up(x)>> \in R
    BY <2>1 DEF StrictSubsetOrdering
  <2> QED BY <1>4, <1>5, <2>2
<1> QED BY <1>6

\* The greatest id of the old table, or 0.
LEMMA LargestIdBounds ==
  ASSUME NEW c \in Contents
  PROVE  LargestId(c) \in Nat /\ \A i \in c.trains : i <= LargestId(c)
<1> DEFINE T == c.trains \union {0}
<1>1. T \subseteq Nat /\ T # {}
  BY ContentsTyped
<1>2. IsFiniteSet(T)
  <2>1. IsFiniteSet(c.trains)
    BY MigrationAssumption, ContentsTyped, FS_Subset
  <2> QED BY <2>1, FS_AddElement
<1>3. PICK n \in T : \A i \in T : i <= n
  <2> HIDE DEF T
  <2>1. T \in SUBSET Int
    BY <1>1
  <2> QED BY <1>1, <1>2, <2>1, GreatestOfFinite
<1>4. \A i \in c.trains : i <= n
  BY <1>3
<1>5. LargestId(c) \in T /\ \A i \in c.trains : i <= LargestId(c)
  BY <1>4 DEF LargestId
<1> QED BY <1>1, <1>5

LEMMA OldRowsTyped ==
  ASSUME NEW c \in Contents
  PROVE  OldRows(c) \subseteq Rows
<1>1. c.trains \subseteq Nat
  BY ContentsTyped
<1>2. ASSUME NEW i \in c.trains
      PROVE  [id |-> i, time |-> i, uploaded |-> i \in c.uploaded_at,
              cleaned_up |-> i \in c.cleanups] \in Rows
  <2>1. i \in Nat /\ i \in Int
    BY <1>1
  <2>2. (i \in c.uploaded_at) \in BOOLEAN /\ (i \in c.cleanups) \in BOOLEAN
    OBVIOUS
  <2> QED BY <2>1, <2>2, Zenon DEF Rows
<1> QED BY <1>2 DEF OldRows

\* The copied table is that of a migrated file.
LEMMA CopyMigrates ==
  ASSUME Typed, Unmigrated \/ Migrated(disk), Copied,
         work.trains = {}, work.uploaded_at = {}, work.cleanups = {}
  PROVE  Migrated(work)
<1>1. LargestId(disk) \in Nat /\ \A i \in disk.trains : i <= LargestId(disk)
  BY LargestIdBounds DEF Typed
<1>2. disk.last_id \in Nat /\ disk.trains_v2 \subseteq Rows
  BY ContentsTyped DEF Typed
<1>3. CASE Unmigrated
  <2>1. work.trains_v2 = OldRows(disk)
    BY <1>3 DEF Copied, Unmigrated
  <2>2. ASSUME NEW r \in work.trains_v2
        PROVE  r.id <= work.last_id
    <3>1. PICK i \in disk.trains : r.id = i
      BY <2>1 DEF OldRows
    <3>2. i \in Nat
      BY ContentsTyped DEF Typed
    <3> QED BY <1>1, <1>2, <3>1, <3>2 DEF Copied, Larger
  <2>3. ASSUME NEW i \in old.trains
        PROVE  {r \in work.trains_v2 : r.id = i \/ r.time = i} =
                 {[id |-> i, time |-> i,
                   uploaded   |-> i \in old.uploaded_at \union marks.uploaded,
                   cleaned_up |-> i \in old.cleanups \union marks.cleaned_up]}
    <3> DEFINE Row(k) == [id |-> k, time |-> k, uploaded |-> k \in disk.uploaded_at,
                          cleaned_up |-> k \in disk.cleanups]
    <3>1. work.trains_v2 = {Row(k) : k \in disk.trains}
      BY <2>1 DEF OldRows
    <3>2. \A k : Row(k).id = k /\ Row(k).time = k
      OBVIOUS
    <3>3. i \in disk.trains
      BY <1>3 DEF Unmigrated
    <3>4. Row(i) = [id |-> i, time |-> i,
                    uploaded   |-> i \in old.uploaded_at \union marks.uploaded,
                    cleaned_up |-> i \in old.cleanups \union marks.cleaned_up]
      <4>1. (i \in disk.uploaded_at) = (i \in old.uploaded_at \union marks.uploaded)
        BY <1>3 DEF Unmigrated
      <4>2. (i \in disk.cleanups) = (i \in old.cleanups \union marks.cleaned_up)
        BY <1>3 DEF Unmigrated
      <4> QED BY <4>1, <4>2
    <3> HIDE DEF Row
    <3>5. {r \in work.trains_v2 : r.id = i \/ r.time = i} = {Row(i)}
      BY <3>1, <3>2, <3>3
    <3> QED BY <3>4, <3>5
  <2> QED BY <2>2, <2>3 DEF Migrated
<1>4. CASE Migrated(disk)
  <2>1. work.trains_v2 = disk.trains_v2
    BY <1>4 DEF Copied, OldRows, Migrated
  <2>2. disk.last_id <= work.last_id
    BY <1>1, <1>2 DEF Copied, Larger
  <2>3. work.last_id \in Nat
    BY ContentsTyped DEF Typed
  <2>4. ASSUME NEW r \in work.trains_v2
        PROVE  r.id <= work.last_id
    <3>1. r.id \in Nat /\ r.id <= disk.last_id
      BY <1>2, <1>4, <2>1 DEF Migrated, Rows
    <3> QED BY <1>2, <2>2, <2>3, <3>1
  <2> QED BY <1>4, <2>1, <2>4 DEF Migrated
<1> QED BY <1>3, <1>4

-----------------------------------------------------------------------------
(* The steps.                                                              *)

LEMMA ThenValues ==
  /\ Then["create"] = "begin" /\ Then["begin"] = "copy"
  /\ Then["copy"] = "delete_cleanups" /\ Then["delete_cleanups"] = "delete_trains"
  /\ Then["delete_trains"] = "delete_temperatures"
  /\ Then["delete_temperatures"] = "commit" /\ Then["commit"] = "ready"
BY DEF Then

LEMMA InitInv == Init => IInv
<1> SUFFICES ASSUME Init
             PROVE  IInv
  OBVIOUS
<1>1. /\ pc = [p \in Proc |-> "closed"] /\ lock = Nobody /\ work = Empty
      /\ old.trains = disk.trains /\ old.uploaded_at = disk.uploaded_at
      /\ old.cleanups = disk.cleanups
      /\ marks = [uploaded |-> {}, cleaned_up |-> {}]
  BY DEF Init
<1>2. disk \in Contents
  <2>1. CASE disk = Empty
    BY <2>1, EmptyTyped
  <2>2. CASE disk \in [created : {Creates - 1}, trains : SUBSET OldIds,
                       uploaded_at : SUBSET OldIds, cleanups : SUBSET OldIds,
                       temperatures : BOOLEAN, trains_v2 : {{}}, last_id : {0}]
    BY <2>2 DEF Contents, Creates
  <2>3. CASE disk = [Empty EXCEPT !.created = Creates,
                       !.trains_v2 = {[id |-> 1, time |-> -1, uploaded |-> FALSE,
                                       cleaned_up |-> FALSE]},
                       !.last_id = 1]
    <3>1. [id |-> 1, time |-> -1, uploaded |-> FALSE, cleaned_up |-> FALSE] \in Rows
      BY DEF Rows
    <3> DEFINE first == [id |-> 1, time |-> -1, uploaded |-> FALSE, cleaned_up |-> FALSE]
    <3>2. disk = [created |-> 6, trains |-> {}, uploaded_at |-> {}, cleanups |-> {},
                  temperatures |-> FALSE, trains_v2 |-> {first}, last_id |-> 1]
      BY <2>3 DEF Empty, Creates
    <3>3. {first} \in SUBSET Rows
      BY <3>1
    <3> HIDE DEF first
    <3> QED BY <3>2, <3>3 DEF Contents, Creates
  <2> QED BY <2>1, <2>2, <2>3 DEF Init
<1>3. Typed
  BY <1>1, <1>2, EmptyTyped, ContentsTyped DEF Typed, Statements
<1>4. LockHeld /\ WorkDone
  BY <1>1, MigrationAssumption DEF LockHeld, WorkDone, InTransaction
<1>5. Unmigrated \/ Migrated(disk)
  <2>1. CASE disk.trains_v2 = {}
    BY <1>1, <2>1 DEF Unmigrated, At
  <2>2. CASE disk = [Empty EXCEPT !.created = Creates,
                       !.trains_v2 = {[id |-> 1, time |-> -1, uploaded |-> FALSE,
                                       cleaned_up |-> FALSE]},
                       !.last_id = 1]
    BY <1>1, <2>2 DEF Empty, Migrated
  <2>3. Empty.trains_v2 = {}
    BY DEF Empty
  <2> QED BY <2>1, <2>2, <2>3 DEF Init
<1> QED BY <1>3, <1>4, <1>5 DEF IInv

\* A process that has not got as far as the transaction moves alone.
LEMMA OutsideInv ==
  ASSUME IInv, NEW p \in Proc, NEW s \in {"closed", "create", "begin"},
         pc[p] \notin InTransaction, pc' = [pc EXCEPT ![p] = s],
         UNCHANGED <<disk, work, lock, old, marks>>
  PROVE  IInv'
<1>1. Typed'
  BY DEF IInv, Typed, Statements
<1>2. LockHeld' /\ WorkDone'
  BY DEF IInv, Typed, LockHeld, WorkDone, InTransaction, Copied, OldRows
<1>3. (Unmigrated \/ Migrated(disk))'
  BY DEF IInv, Typed, Unmigrated, Migrated, At
<1> QED BY <1>1, <1>2, <1>3 DEF IInv

\* The end of a connection rolls its transaction back.
LEMMA CloseInv ==
  ASSUME IInv, NEW p \in Proc, pc' = [pc EXCEPT ![p] = "closed"], Close(p)
  PROVE  IInv'
<1>1. Typed'
  BY EmptyTyped DEF IInv, Typed, Statements, Close
<1>2. LockHeld'
  BY MigrationAssumption DEF IInv, Typed, LockHeld, InTransaction, Close
<1>3. WorkDone'
  <2>1. CASE lock = p
    BY <2>1 DEF IInv, Typed, LockHeld, WorkDone, InTransaction, Close
  <2>2. CASE lock # p
    BY <2>2 DEF IInv, Typed, LockHeld, WorkDone, InTransaction, Copied, OldRows, Close
  <2> QED BY <2>1, <2>2
<1>4. (Unmigrated \/ Migrated(disk))'
  BY DEF IInv, Typed, Unmigrated, Migrated, At, Close
<1> QED BY <1>1, <1>2, <1>3, <1>4 DEF IInv

\* CREATE does not touch the rows.
LEMMA CreateInv ==
  ASSUME IInv, NEW p \in Proc, Create(p)
  PROVE  IInv'
<1>1. CASE disk.created < Creates
  <2>1. /\ disk' = [disk EXCEPT !.created = @ + 1]
        /\ UNCHANGED <<pc, work, lock, old, marks>>
    BY <1>1 DEF Create
  <2>2. lock = Nobody
    BY DEF IInv, LockHeld, InTransaction, Create, At, Free
  <2>3. disk' \in Contents
    BY <1>1, <2>1 DEF IInv, Typed, Contents, Creates
  <2>4. /\ disk'.trains = disk.trains /\ disk'.uploaded_at = disk.uploaded_at
        /\ disk'.cleanups = disk.cleanups /\ disk'.trains_v2 = disk.trains_v2
        /\ disk'.last_id = disk.last_id
    BY <2>1 DEF IInv, Typed, Contents
  <2>5. Typed' /\ LockHeld'
    BY <2>1, <2>3 DEF IInv, Typed, LockHeld
  <2>6. WorkDone'
    BY <2>1, <2>2, MigrationAssumption DEF IInv, Typed, LockHeld, WorkDone, InTransaction
  <2>7. (Unmigrated \/ Migrated(disk))'
    BY <2>1, <2>4 DEF IInv, Unmigrated, Migrated, At
  <2> QED BY <2>5, <2>6, <2>7 DEF IInv
<1>2. CASE ~(disk.created < Creates)
  <2>1. pc' = [pc EXCEPT ![p] = "begin"] /\ UNCHANGED <<disk, work, lock, old, marks>>
    BY <1>2, ThenValues DEF Create, Advance, At
  <2>2. pc[p] \notin InTransaction
    BY DEF Create, At, InTransaction
  <2> QED BY <2>1, <2>2, OutsideInv
<1> QED BY <1>1, <1>2

\* A statement in the transaction leaves the file alone.
LEMMA InsideInv ==
  ASSUME IInv, NEW p \in Proc, lock = p, NEW s \in InTransaction,
         pc' = [pc EXCEPT ![p] = s], pc[p] \in InTransaction,
         work' \in Contents, WorkDone', UNCHANGED <<disk, lock, old, marks>>
  PROVE  IInv'
<1>1. Typed'
  BY DEF IInv, Typed, Statements
<1>2. LockHeld'
  BY DEF IInv, Typed, LockHeld
<1>3. (Unmigrated \/ Migrated(disk))'
  BY DEF IInv, Typed, Unmigrated, Migrated, At, InTransaction
<1> QED BY <1>1, <1>2, <1>3 DEF IInv

LEMMA BeginInv ==
  ASSUME IInv, NEW p \in Proc, Begin(p)
  PROVE  IInv'
<1>1. /\ pc[p] = "begin" /\ pc' = [pc EXCEPT ![p] = "copy"] /\ lock' = p /\ work' = disk
      /\ UNCHANGED <<disk, old, marks>>
  BY ThenValues DEF Begin, Advance, At
<1>2. lock = Nobody
  BY <1>1 DEF IInv, LockHeld, InTransaction, Begin, Free
<1>3. \A q \in Proc : pc[q] \notin InTransaction
  BY <1>2, MigrationAssumption DEF IInv, LockHeld
<1>4. Typed'
  BY <1>1 DEF IInv, Typed, Statements, InTransaction
<1>5. LockHeld' /\ WorkDone'
  BY <1>1, <1>3 DEF IInv, Typed, LockHeld, WorkDone, InTransaction
<1>6. (Unmigrated \/ Migrated(disk))'
  BY <1>1 DEF IInv, Typed, Unmigrated, Migrated, At
<1> QED BY <1>4, <1>5, <1>6 DEF IInv

\* Only the one in the transaction has done anything.
LEMMA Alone ==
  ASSUME IInv, NEW p \in Proc, pc[p] \in InTransaction
  PROVE  lock = p /\ \A q \in Proc \ {p} : pc[q] \notin InTransaction
BY DEF IInv, LockHeld

LEMMA CopyInv ==
  ASSUME IInv, NEW p \in Proc, Copy(p)
  PROVE  IInv'
<1>1. /\ pc[p] = "copy" /\ pc' = [pc EXCEPT ![p] = "delete_cleanups"]
      /\ work' = [work EXCEPT !.trains_v2 = @ \union OldRows(work),
                              !.last_id = Larger(@, LargestId(work))]
      /\ UNCHANGED <<disk, lock, old, marks>>
  BY ThenValues DEF Copy, Advance, At, Write
<1>2. work = disk /\ work \in Contents
  BY <1>1 DEF IInv, WorkDone, Typed
<1>3. lock = p /\ \A q \in Proc \ {p} : pc[q] \notin InTransaction
  BY <1>1, Alone DEF InTransaction
<1>4. OldRows(work) \subseteq Rows /\ LargestId(work) \in Nat
  BY <1>2, OldRowsTyped, LargestIdBounds
<1>5. Larger(work.last_id, LargestId(work)) \in Nat
  BY <1>2, <1>4, ContentsTyped DEF Larger
<1>6. work' \in Contents
  BY <1>1, <1>2, <1>4, <1>5 DEF Contents
<1>7. Copied'
  BY <1>1, <1>2 DEF Copied, Contents, OldRows, LargestId
<1>8. WorkDone'
  BY <1>1, <1>3, <1>7 DEF WorkDone, IInv, Typed, InTransaction
<1> QED BY <1>1, <1>3, <1>6, <1>8, InsideInv DEF InTransaction

LEMMA DeleteInv ==
  ASSUME IInv, NEW p \in Proc,
         DeleteCleanups(p) \/ DeleteTrains(p) \/ DeleteTemperatures(p)
  PROVE  IInv'
<1>1. pc[p] \in {"delete_cleanups", "delete_trains", "delete_temperatures"}
  BY DEF DeleteCleanups, DeleteTrains, DeleteTemperatures, At
<1>2. lock = p /\ \A q \in Proc \ {p} : pc[q] \notin InTransaction
  BY <1>1, Alone DEF InTransaction
<1>3. work \in Contents /\ Copied
  BY <1>1 DEF IInv, Typed, WorkDone, InTransaction
<1>4. CASE DeleteCleanups(p)
  <2>1. /\ pc[p] = "delete_cleanups" /\ pc' = [pc EXCEPT ![p] = "delete_trains"]
        /\ work' = [work EXCEPT !.cleanups = {}] /\ UNCHANGED <<disk, lock, old, marks>>
    BY <1>4, ThenValues DEF DeleteCleanups, Advance, At, Write
  <2>2. work' \in Contents
    BY <1>3, <2>1 DEF Contents
  <2>3. Copied' /\ work'.cleanups = {}
    BY <1>3, <2>1 DEF Copied, Contents, OldRows, LargestId
  <2>4. WorkDone'
    BY <1>2, <2>1, <2>3 DEF WorkDone, IInv, Typed, InTransaction
  <2> QED BY <1>2, <2>1, <2>2, <2>4, InsideInv DEF InTransaction
<1>5. CASE DeleteTrains(p)
  <2>1. /\ pc[p] = "delete_trains" /\ pc' = [pc EXCEPT ![p] = "delete_temperatures"]
        /\ work' = [work EXCEPT !.trains = {}, !.uploaded_at = {}]
        /\ UNCHANGED <<disk, lock, old, marks>>
    BY <1>5, ThenValues DEF DeleteTrains, Advance, At, Write
  <2>2. work' \in Contents
    BY <1>3, <2>1 DEF Contents
  <2>3. work.cleanups = {}
    BY <2>1 DEF IInv, WorkDone
  <2>4. Copied' /\ work'.cleanups = {} /\ work'.trains = {} /\ work'.uploaded_at = {}
    BY <1>3, <2>1, <2>3 DEF Copied, Contents, OldRows, LargestId
  <2>5. WorkDone'
    BY <1>2, <2>1, <2>4 DEF WorkDone, IInv, Typed, InTransaction
  <2> QED BY <1>2, <2>1, <2>2, <2>5, InsideInv DEF InTransaction
<1>6. CASE DeleteTemperatures(p)
  <2>1. /\ pc[p] = "delete_temperatures" /\ pc' = [pc EXCEPT ![p] = "commit"]
        /\ work' = [work EXCEPT !.temperatures = FALSE] /\ UNCHANGED <<disk, lock, old, marks>>
    BY <1>6, ThenValues DEF DeleteTemperatures, Advance, At, Write
  <2>2. work' \in Contents
    BY <1>3, <2>1 DEF Contents
  <2>3. work.cleanups = {} /\ work.trains = {} /\ work.uploaded_at = {}
    BY <2>1 DEF IInv, WorkDone
  <2>4. Copied' /\ work'.cleanups = {} /\ work'.trains = {} /\ work'.uploaded_at = {}
    BY <1>3, <2>1, <2>3 DEF Copied, Contents, OldRows, LargestId
  <2>5. WorkDone'
    BY <1>2, <2>1, <2>4 DEF WorkDone, IInv, Typed, InTransaction
  <2> QED BY <1>2, <2>1, <2>2, <2>5, InsideInv DEF InTransaction
<1> QED BY <1>4, <1>5, <1>6

LEMMA CommitInv ==
  ASSUME IInv, NEW p \in Proc, Commit(p)
  PROVE  IInv'
<1>1. /\ pc[p] = "commit" /\ pc' = [pc EXCEPT ![p] = "ready"]
      /\ disk' = work /\ work' = Empty /\ lock' = Nobody /\ UNCHANGED <<old, marks>>
  BY ThenValues DEF Commit, Advance, At
<1>2. \A q \in Proc \ {p} : pc[q] \notin InTransaction
  BY <1>1, Alone DEF InTransaction
<1>3. Migrated(work)
  BY <1>1, CopyMigrates DEF IInv, WorkDone, InTransaction
<1>4. Typed'
  BY <1>1, EmptyTyped DEF IInv, Typed, Statements
<1>5. LockHeld' /\ WorkDone'
  BY <1>1, <1>2, MigrationAssumption DEF IInv, Typed, LockHeld, WorkDone, InTransaction
<1>6. Migrated(disk)'
  BY <1>1, <1>3 DEF Migrated
<1> QED BY <1>4, <1>5, <1>6 DEF IInv

\* Who works with the database has a migrated one, and nobody migrates it.
LEMMA WorkingMigrated ==
  ASSUME IInv, NEW p \in Proc, Working(p)
  PROVE  Migrated(disk) /\ lock = Nobody /\ \A q \in Proc : pc[q] \notin InTransaction
<1>1. Migrated(disk)
  BY DEF IInv, Unmigrated, Working
<1>2. lock = Nobody
  BY DEF IInv, LockHeld, Working, At, Free, InTransaction
<1> QED BY <1>1, <1>2, MigrationAssumption DEF IInv, LockHeld

LEMMA InsertInv ==
  ASSUME IInv, NEW p \in Proc, InsertTrain(p)
  PROVE  IInv'
<1> DEFINE n == disk.last_id + 1
           new == [id |-> n, time |-> -n, uploaded |-> FALSE, cleaned_up |-> FALSE]
<1>1. /\ disk' = [disk EXCEPT !.trains_v2 = @ \union {new}, !.last_id = @ + 1]
      /\ UNCHANGED <<work, lock, pc, old, marks>>
  BY DEF InsertTrain
<1>2. Migrated(disk) /\ lock = Nobody /\ \A q \in Proc : pc[q] \notin InTransaction
  BY WorkingMigrated DEF InsertTrain
<1>3. disk \in Contents /\ disk.last_id \in Nat /\ disk.trains_v2 \subseteq Rows
  BY ContentsTyped DEF IInv, Typed
<1>4. n \in Nat /\ -n \in Int /\ new \in Rows
  BY <1>3 DEF Rows
<1>5. new.id = n /\ new.time = -n
  OBVIOUS
<1> HIDE DEF new
<1>6. disk' \in Contents
  BY <1>1, <1>3, <1>4 DEF Contents
<1>7. /\ disk'.trains_v2 = disk.trains_v2 \union {new} /\ disk'.last_id = n
      /\ disk'.trains = disk.trains /\ disk'.uploaded_at = disk.uploaded_at
      /\ disk'.cleanups = disk.cleanups
  BY <1>1, <1>3 DEF Contents
<1>8. ASSUME NEW i \in old.trains
      PROVE  {r \in disk'.trains_v2 : r.id = i \/ r.time = i} =
               {r \in disk.trains_v2 : r.id = i \/ r.time = i}
  <2>1. i \in Nat
    BY MigrationAssumption DEF IInv, Typed
  <2>2. i # -n
    BY <1>3, <2>1
  <2>3. i # n
    <3>1. PICK r \in disk.trains_v2 : r.id = i
      <4> DEFINE row == [id |-> i, time |-> i,
                         uploaded   |-> i \in old.uploaded_at \union marks.uploaded,
                         cleaned_up |-> i \in old.cleanups \union marks.cleaned_up]
      <4>1. row \in {r \in disk.trains_v2 : r.id = i \/ r.time = i}
        BY <1>2 DEF Migrated
      <4>2. row.id = i
        OBVIOUS
      <4> QED BY <4>1, <4>2
    <3> QED BY <1>2, <1>3, <2>1, <3>1 DEF Migrated
  <2> QED BY <1>5, <1>7, <2>2, <2>3
<1>9. ASSUME NEW r \in disk'.trains_v2
      PROVE  r.id <= disk'.last_id
  <2>1. CASE r = new
    BY <1>4, <1>5, <1>7, <2>1
  <2>2. CASE r \in disk.trains_v2
    <3>1. r.id \in Nat /\ r.id <= disk.last_id
      BY <1>2, <1>3, <2>2 DEF Migrated, Rows
    <3> QED BY <1>3, <1>7, <3>1
  <2> QED BY <1>7, <2>1, <2>2
<1>10. Migrated(disk)'
  <2>1. old' = old /\ marks' = marks
    BY <1>1
  <2> HIDE DEF n
  <2> QED BY <1>2, <1>7, <1>8, <1>9, <2>1 DEF Migrated
<1>11. Typed' /\ LockHeld'
  BY <1>1, <1>6 DEF IInv, Typed, LockHeld
<1>12. WorkDone'
  BY <1>1, <1>2 DEF WorkDone, InTransaction
<1> QED BY <1>10, <1>11, <1>12 DEF IInv

\* Marking a train changes one flag of its row, and the history with it.
LEMMA MarkInv ==
  ASSUME IInv, NEW p \in Proc, NEW t \in disk.trains_v2, MarkTrain(p, t)
  PROVE  IInv'
<1>1. Migrated(disk) /\ lock = Nobody /\ \A q \in Proc : pc[q] \notin InTransaction
  BY WorkingMigrated DEF MarkTrain
<1>2. PICK flag \in {"uploaded", "cleaned_up"} :
        /\ disk' = [disk EXCEPT !.trains_v2 = Marked(t, flag)]
        /\ marks' = IF flag = "uploaded"
                    THEN [marks EXCEPT !.uploaded = @ \union {t.id}]
                    ELSE [marks EXCEPT !.cleaned_up = @ \union {t.id}]
  BY DEF MarkTrain
<1>3. UNCHANGED <<work, lock, pc, old>>
  BY DEF MarkTrain
<1>4. disk \in Contents /\ disk.trains_v2 \subseteq Rows
  BY ContentsTyped DEF IInv, Typed
<1> DEFINE m(s) == IF s = t THEN [s EXCEPT ![flag] = TRUE] ELSE s
<1>5. Marked(t, flag) = {m(s) : s \in disk.trains_v2}
  BY DEF Marked
<1>6. ASSUME NEW s \in Rows
      PROVE  m(s) \in Rows /\ m(s).id = s.id /\ m(s).time = s.time
  <2>1. CASE flag = "uploaded"
    BY <2>1 DEF Rows
  <2>2. CASE flag = "cleaned_up"
    BY <2>2 DEF Rows
  <2> QED BY <2>1, <2>2
<1>7. t \in Rows /\ t.id \in Nat
  BY <1>4 DEF Rows
<1>8. /\ disk'.trains_v2 = {m(s) : s \in disk.trains_v2} /\ disk'.last_id = disk.last_id
      /\ disk'.trains = disk.trains /\ disk'.uploaded_at = disk.uploaded_at
      /\ disk'.cleanups = disk.cleanups
  BY <1>2, <1>4, <1>5 DEF Contents
<1>9. disk' \in Contents
  <2>1. {m(s) : s \in disk.trains_v2} \subseteq Rows
    <3> HIDE DEF m
    <3> QED BY <1>4, <1>6
  <2> HIDE DEF m
  <2> QED BY <1>2, <1>4, <1>5, <2>1 DEF Contents
<1>10. ASSUME NEW i \in old.trains
       PROVE  {r \in disk'.trains_v2 : r.id = i \/ r.time = i} =
                {[id |-> i, time |-> i,
                  uploaded   |-> i \in old.uploaded_at \union marks'.uploaded,
                  cleaned_up |-> i \in old.cleanups \union marks'.cleaned_up]}
  <2> DEFINE row == [id |-> i, time |-> i,
                     uploaded   |-> i \in old.uploaded_at \union marks.uploaded,
                     cleaned_up |-> i \in old.cleanups \union marks.cleaned_up]
             next == [id |-> i, time |-> i,
                      uploaded   |-> i \in old.uploaded_at \union marks'.uploaded,
                      cleaned_up |-> i \in old.cleanups \union marks'.cleaned_up]
  <2>1. {r \in disk.trains_v2 : r.id = i \/ r.time = i} = {row}
    BY <1>1 DEF Migrated
  <2>2. {r \in disk'.trains_v2 : r.id = i \/ r.time = i} = {m(row)}
    <3> HIDE DEF m, row
    <3> QED BY <1>4, <1>6, <1>8, <2>1
  <2>3. m(row) = next
    <3>1. CASE row = t
      <4>1. t.id = i
        BY <3>1
      <4>2. CASE flag = "uploaded"
        <5>1. marks'.uploaded = marks.uploaded \union {i} /\ marks'.cleaned_up = marks.cleaned_up
          BY <1>2, <4>1, <4>2 DEF IInv, Typed
        <5>2. m(row) = [row EXCEPT !.uploaded = TRUE]
          BY <3>1, <4>2
        <5> QED BY <5>1, <5>2, Zenon
      <4>3. CASE flag = "cleaned_up"
        <5>1. marks'.cleaned_up = marks.cleaned_up \union {i} /\ marks'.uploaded = marks.uploaded
          BY <1>2, <4>1, <4>3 DEF IInv, Typed
        <5>2. m(row) = [row EXCEPT !.cleaned_up = TRUE]
          BY <3>1, <4>3
        <5> QED BY <5>1, <5>2, Zenon
      <4> QED BY <4>2, <4>3
    <3>2. CASE row # t
      <4>1. t.id # i
        BY <2>1, <3>2
      <4>2. /\ i \in marks'.uploaded <=> i \in marks.uploaded
            /\ i \in marks'.cleaned_up <=> i \in marks.cleaned_up
        BY <1>2, <4>1 DEF IInv, Typed
      <4>3. m(row) = row
        BY <3>2
      <4> QED BY <4>2, <4>3
    <3> QED BY <3>1, <3>2
  <2> QED BY <2>2, <2>3
<1>11. ASSUME NEW r \in disk'.trains_v2
       PROVE  r.id <= disk'.last_id
  <2> HIDE DEF m
  <2>1. PICK s \in disk.trains_v2 : r = m(s)
    BY <1>8
  <2> QED BY <1>1, <1>4, <1>6, <1>8, <2>1 DEF Migrated
<1>12. Migrated(disk)'
  <2> HIDE DEF m
  <2> QED BY <1>1, <1>3, <1>8, <1>10, <1>11 DEF Migrated
<1>13. Typed' /\ LockHeld'
  <2>1. marks' \in [uploaded : SUBSET Nat, cleaned_up : SUBSET Nat]
    BY <1>2, <1>7 DEF IInv, Typed
  <2> HIDE DEF m
  <2> QED BY <1>3, <1>9, <2>1 DEF IInv, Typed, LockHeld
<1>14. WorkDone'
  BY <1>1, <1>3 DEF WorkDone, InTransaction
<1> QED BY <1>12, <1>13, <1>14 DEF IInv

-----------------------------------------------------------------------------
(* The theorems.                                                           *)

LEMMA StepInv ==
  ASSUME IInv, [Next]_vars
  PROVE  IInv'
<1>1. CASE UNCHANGED vars
  BY <1>1 DEF vars, IInv, Typed, LockHeld, WorkDone, Copied, OldRows, LargestId, Larger,
              Unmigrated, Migrated, At
<1>2. CASE Next
  <2>1. PICK p \in Proc :
          Open(p) \/ Step(p) \/ Crash(p) \/ InsertTrain(p)
          \/ \E r \in disk.trains_v2 : MarkTrain(p, r)
    BY <1>2 DEF Next
  <2>2. CASE Open(p)
    BY <2>2, OutsideInv DEF Open, At, InTransaction
  <2>3. CASE Crash(p)
    BY <2>3, CloseInv DEF Crash
  <2>4. CASE OpenFails(p)
    BY <2>4, CloseInv DEF OpenFails, AfterFailure
  <2>5. CASE Create(p) \/ Begin(p) \/ Copy(p) \/ Commit(p)
    BY <2>5, CreateInv, BeginInv, CopyInv, CommitInv
  <2>6. CASE DeleteCleanups(p) \/ DeleteTrains(p) \/ DeleteTemperatures(p)
    BY <2>6, DeleteInv
  <2>7. CASE InsertTrain(p)
    BY <2>7, InsertInv
  <2>8. CASE \E r \in disk.trains_v2 : MarkTrain(p, r)
    BY <2>8, MarkInv
  <2> QED BY <2>1, <2>2, <2>3, <2>4, <2>5, <2>6, <2>7, <2>8 DEF Step
<1> QED BY <1>1, <1>2

\* The inductive invariant holds in every state.
THEOREM MigrationInvariant == Spec => []IInv
<1>1. Init => IInv
  BY InitInv
<1>2. IInv /\ [Next]_vars => IInv'
  BY StepInv
<1> QED BY <1>1, <1>2, PTL DEF Spec

\* schema.sql loses, doubles or renumbers no train of the first schema and
\* keeps its marks, whoever runs it, however often, wherever it stops.
THEOREM NoOldTrainIsLost == Spec => []OldTrainsKept
<1>1. IInv => OldTrainsKept
  <2> SUFFICES ASSUME IInv, NEW i \in old.trains
               PROVE  OldTrainKept(i)
    BY DEF OldTrainsKept
  <2>1. CASE Unmigrated
    BY <2>1 DEF Unmigrated, OldTrainKept
  <2>2. CASE Migrated(disk)
    BY <2>2 DEF Migrated, OldTrainKept
  <2> QED BY <2>1, <2>2 DEF IInv
<1> QED BY <1>1, MigrationInvariant, PTL

\* Who has opened the database finds every train in trains_v2.
THEOREM OpenedIsMigrated == Spec => []OpenSeesAllTrains
<1>1. IInv => OpenSeesAllTrains
  <2> SUFFICES ASSUME IInv, NEW p \in Proc, At(p, "ready"), NEW i \in old.trains
               PROVE  \E r \in disk.trains_v2 : r.time = i
    BY DEF OpenSeesAllTrains
  <2>1. Migrated(disk)
    BY DEF IInv, Unmigrated
  <2> DEFINE row == [id |-> i, time |-> i,
                     uploaded   |-> i \in old.uploaded_at \union marks.uploaded,
                     cleaned_up |-> i \in old.cleanups \union marks.cleaned_up]
  <2>2. row \in {r \in disk.trains_v2 : r.id = i \/ r.time = i}
    BY <2>1 DEF Migrated
  <2> QED BY <2>2
<1> QED BY <1>1, MigrationInvariant, PTL

-----------------------------------------------------------------------------
(* The rsync script.                                                       *)

RsyncTyped ==
  /\ local \in [Trains -> Blobs] /\ remote \in [Trains -> Blobs]
  /\ db \subseteq Trains /\ aged \subseteq Trains /\ listed \subseteq Trains
  /\ step \in DOMAIN AfterStep

\* What is old enough to be deleted is on the server.
AgedAreCopied == \A t \in aged : local[t] = "whole" /\ remote[t] = "whole"

\* A train in the database has its blobs, here or, once deleted, there.
SavedAreKept ==
  \A t \in db : local[t] = "whole" \/ (local[t] = "none" /\ remote[t] = "whole")

\* What was listed is there until it is copied: nothing is deleted meanwhile.
ListedAreThere == step = "copy" => \A t \in listed : local[t] # "none"

\* The list has all blobs that the database needed when it was made and the
\* server may not have, ...
ListSuffices ==
  step = "copy" => \A t \in db : local[t] # "none" => t \in listed \/ t \in missed

\* ... so that after the copy the server has them, but for what was missed.
CopySuffices == step = "db" => \A t \in db : remote[t] = "whole" \/ t \in missed

RsyncInv ==
  /\ RsyncTyped /\ AgedAreCopied /\ SavedAreKept /\ ListedAreThere
  /\ ListSuffices /\ CopySuffices

LEMMA StepsAre ==
  DOMAIN AfterStep = {"list", "copy", "db", "delete", "wait", "exited"}
BY DEF AfterStep

\* The order of the commands.
LEMMA Follows ==
  ASSUME NEW s, Run(s)
  PROVE  /\ step = s
         /\ s = "list" => step' = "copy"
         /\ s = "copy" => step' = "db"
         /\ s = "db" => step' = "delete"
         /\ s = "delete" => step' = "wait"
         /\ s \in {"wait", "exited"} => step' = "list"
BY DEF Run, AfterStep

LEMMA RsyncStarts == RsyncInit => RsyncInv
BY StepsAre DEF RsyncInit, RsyncInv, RsyncTyped, AgedAreCopied, SavedAreKept, ListedAreThere,
   ListSuffices, CopySuffices, Blobs

LEMMA SaveRsync ==
  ASSUME RsyncInv, NEW t \in Trains, Save(t)
  PROVE  RsyncInv'
<1> USE DEF RsyncInv, RsyncTyped, AgedAreCopied, SavedAreKept, ListedAreThere, ListSuffices,
            CopySuffices, Blobs
<1>1. CASE StartSave(t)
  BY <1>1 DEF StartSave, script, server
<1>2. CASE FinishBlobs(t)
  BY <1>2 DEF FinishBlobs, script, server
<1>3. CASE InsertRow(t)
  BY <1>3 DEF InsertRow, server
<1> QED BY <1>1, <1>2, <1>3 DEF Save

LEMMA AgeRsync ==
  ASSUME RsyncInv, NEW t \in Trains, Age(t)
  PROVE  RsyncInv'
BY DEF Age, script, server, RsyncInv, RsyncTyped, AgedAreCopied, SavedAreKept, ListedAreThere,
       ListSuffices, CopySuffices

LEMMA ListRsync ==
  ASSUME RsyncInv, ListBlobs
  PROVE  RsyncInv'
<1>1. step' = "copy"
  BY Follows DEF ListBlobs
<1> QED
  BY <1>1, StepsAre DEF ListBlobs, data, server, RsyncInv, RsyncTyped, AgedAreCopied,
     SavedAreKept, ListedAreThere, ListSuffices, CopySuffices

\* Only what was listed is copied, so a copy takes nothing from the server
\* that is only there.
LEMMA CopyKeeps ==
  ASSUME RsyncInv, step = "copy", NEW ts \in SUBSET listed, remote' = AfterCopy(ts),
         UNCHANGED data
  PROVE  /\ remote' \in [Trains -> Blobs]
         /\ AgedAreCopied' /\ SavedAreKept'
         /\ \A t \in db : t \in ts \/ local[t] = "none" => remote'[t] = "whole"
<1> USE DEF RsyncInv, RsyncTyped, AgedAreCopied, SavedAreKept, ListedAreThere
<1>1. \A t \in Trains : remote'[t] = IF t \in ts THEN local[t] ELSE remote[t]
  BY DEF AfterCopy
<1>2. remote' \in [Trains -> Blobs]
  BY DEF AfterCopy
<1>3. \A t \in db : t \in ts \/ local[t] = "none" => remote'[t] = "whole"
  BY <1>1
<1> QED BY <1>1, <1>2, <1>3 DEF data

LEMMA CopyRsync ==
  ASSUME RsyncInv, CopyBlobs \/ CopyFails
  PROVE  RsyncInv'
<1>1. step = "copy" /\ step' = "db" /\ UNCHANGED data /\ listed' = {}
  BY Follows DEF CopyBlobs, CopyFails
<1>2. PICK ts \in SUBSET listed :
        remote' = AfterCopy(ts) /\ missed' = missed \union (listed \ ts)
  <2>1. CASE CopyBlobs
    <3>1. remote' = AfterCopy(listed) /\ missed' = missed \union (listed \ listed)
      BY <2>1 DEF CopyBlobs
    <3> QED BY <3>1
  <2>2. CASE CopyFails
    BY <2>2 DEF CopyFails
  <2> QED BY <2>1, <2>2
<1>4. /\ remote' \in [Trains -> Blobs] /\ AgedAreCopied' /\ SavedAreKept'
      /\ \A t \in db : t \in ts \/ local[t] = "none" => remote'[t] = "whole"
  BY <1>1, <1>2, CopyKeeps
<1>5. RsyncTyped'
  BY <1>1, <1>4, StepsAre DEF RsyncInv, RsyncTyped, data
<1>6. \A t \in db : remote'[t] = "whole" \/ t \in missed'
  BY <1>1, <1>2, <1>4 DEF RsyncInv, ListSuffices
<1> QED BY <1>1, <1>4, <1>5, <1>6 DEF RsyncInv, ListedAreThere, ListSuffices, CopySuffices, data

LEMMA DeleteRsync ==
  ASSUME RsyncInv, DeleteOld
  PROVE  RsyncInv'
<1>1. step' = "wait"
  BY Follows DEF DeleteOld
<1> QED
  BY <1>1, StepsAre DEF DeleteOld, server, RsyncInv, RsyncTyped, AgedAreCopied, SavedAreKept,
     ListedAreThere, ListSuffices, CopySuffices, Blobs

\* The commands that touch neither the blobs nor the tables here.
LEMMA OtherRsync ==
  ASSUME RsyncInv, CopyDb \/ CopyDbFails \/ Woken \/ Timeout \/ Restart
  PROVE  RsyncInv'
<1>1. step' \in {"list", "delete", "exited"}
  BY Follows DEF CopyDb, CopyDbFails, Woken, Timeout, Restart
<1>2. UNCHANGED <<data, listed, remote>>
  BY DEF CopyDb, CopyDbFails, Woken, Timeout, Restart, server, RsyncInv, RsyncTyped
<1> QED
  BY <1>1, <1>2, StepsAre DEF data, RsyncInv, RsyncTyped, AgedAreCopied, SavedAreKept,
     ListedAreThere, ListSuffices, CopySuffices

LEMMA RsyncKeeps == RsyncInv /\ [RsyncNext]_rsyncVars => RsyncInv'
<1> SUFFICES ASSUME RsyncInv, [RsyncNext]_rsyncVars
             PROVE  RsyncInv'
  OBVIOUS
<1>1. CASE UNCHANGED rsyncVars
  BY <1>1 DEF rsyncVars, data, script, server, RsyncInv, RsyncTyped, AgedAreCopied,
     SavedAreKept, ListedAreThere, ListSuffices, CopySuffices
<1>2. CASE Script
  BY <1>2, ListRsync, CopyRsync, DeleteRsync, OtherRsync DEF Script
<1>3. ASSUME NEW t \in Trains, Save(t) \/ Age(t)
      PROVE  RsyncInv'
  BY <1>3, SaveRsync, AgeRsync
<1> QED BY <1>1, <1>2, <1>3 DEF RsyncNext

\* When the database is copied, the server has the blobs of all its trains but
\* those saved since this round made its list and those its copy left out,
\* whatever failed in earlier rounds and whatever was deleted here.
THEOREM DatabaseIsLast == RsyncSpec => DbLast
<1>1. RsyncInv /\ [RsyncNext]_rsyncVars
        => [CopyDb => \A t \in remoteDb' : remote[t] = "whole" \/ t \in missed]_rsyncVars
  BY DEF RsyncInv, CopySuffices, CopyDb, Run
<1> QED BY <1>1, RsyncStarts, RsyncKeeps, PTL DEF RsyncSpec, DbLast
=============================================================================
