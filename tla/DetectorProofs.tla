--------------------------- MODULE DetectorProofs ---------------------------
(***************************************************************************)
(* Proofs about the detector, AutoStitcher, and the search it calls for    *)
(* every pair of frames, PatchMatch, for every configuration: no bound on  *)
(* frames, offsets, the length of a sequence or the size of the area is    *)
(* used, nor anything about the order in which the workers finish.         *)
(***************************************************************************)
EXTENDS AutoStitcher, PatchMatch, TLAPS, FiniteSetTheorems, WellFoundedInduction,
        SequenceTheorems

-----------------------------------------------------------------------------
(* The helpers.                                                            *)

\* A non-empty set of natural numbers has a least element.
LEMMA Least ==
  ASSUME NEW N \in SUBSET Nat, N # {}
  PROVE  \E x \in N : \A y \in N : x <= y
<1>1. PICK x \in N : \A y \in N : ~(<<y, x>> \in OpToRel(<, Nat))
  BY NatLessThanWellFounded, WFMin, Zenon
<1>2. OpToRel(<, Nat) = {r \in Nat \X Nat : r[1] < r[2]}
  BY Zenon DEF OpToRel
<1>3. \A y \in Nat : y < x => <<y, x>> \in {r \in Nat \X Nat : r[1] < r[2]}
  OBVIOUS
<1> HIDE DEF OpToRel
<1>4. \A y \in N : ~(y < x)
  BY <1>1, <1>2, <1>3
<1> QED BY <1>4

\* A non-empty set of numbers up to n has a greatest element.
LEMMA Greatest ==
  ASSUME NEW n \in Nat, NEW T \in SUBSET (0..n), T # {}
  PROVE  \E x \in T : \A y \in T : y <= x
<1> DEFINE D == {n - x : x \in T}
<1>1. \A x \in T : x \in Nat /\ x <= n
  OBVIOUS
<1>2. D \in SUBSET Nat /\ D # {}
  <2>1. \A x \in T : n - x \in Nat
    BY <1>1
  <2> QED BY <2>1
<1>3. PICK d \in D : \A y \in D : d <= y
  <2> HIDE DEF D
  <2> QED BY <1>2, Least
<1> QED BY <1>3

\* What holds of 0, and of k whenever it holds of k - 1, holds up to n.
LEMMA UpTo ==
  ASSUME NEW n \in Nat, NEW B, 0 \in B, \A k \in 1..n : k - 1 \in B => k \in B
  PROVE  \A k \in 0..n : k \in B
<1> DEFINE N == {k \in 0..n : k \notin B}
<1> SUFFICES ASSUME N # {} PROVE FALSE
  OBVIOUS
<1>1. N \in SUBSET Nat
  OBVIOUS
<1>2. PICK k \in N : \A y \in N : k <= y
  <2> HIDE DEF N
  <2> QED BY <1>1, Least
<1>3. k \in 1..n /\ k - 1 \in 0..n
  OBVIOUS
<1>4. k - 1 \notin N
  BY <1>2, <1>3
<1> QED BY <1>3, <1>4

\* A sequence whose neighbours are in order is in order.
LEMMA Ascending ==
  ASSUME NEW n \in Nat, NEW f, \A i \in 1..n : f[i] \in Int,
         \A i \in 2..n : f[i - 1] <= f[i]
  PROVE  \A i, j \in 1..n : i <= j => f[i] <= f[j]
<1> SUFFICES ASSUME NEW i \in 1..n, NEW j \in 1..n, i <= j, ~(f[i] <= f[j])
             PROVE  FALSE
  OBVIOUS
<1> DEFINE T == {k \in i..n : ~(f[i] <= f[k])}
<1>1. T \in SUBSET Nat /\ j \in T
  OBVIOUS
<1>2. PICK k \in T : \A y \in T : k <= y
  <2> HIDE DEF T
  <2> QED BY <1>1, Least
<1>3. k # i /\ k \in 2..n /\ k - 1 \in i..n
  OBVIOUS
<1>4. k - 1 \notin T
  BY <1>2, <1>3
<1>5. f[i] <= f[k - 1] /\ f[k - 1] <= f[k]
  BY <1>3, <1>4
<1>6. f[i] \in Int /\ f[k - 1] \in Int /\ f[k] \in Int
  BY <1>3
<1> QED BY <1>2, <1>5, <1>6

\* Absolute values are natural numbers.
LEMMA AbsType == \A n \in Int : Abs(n) \in Nat /\ (Abs(n) = 0 <=> n = 0)
  BY DEF Abs

\* min_px_per_frame and max_px_per_frame are at least one pixel.
LEMMA PxPerFrameType ==
  \A p \in Nat : /\ MinPxPerFrame(p) \in Nat \ {0}
                 /\ MaxPxPerFrame(p) \in Nat \ {0}
<1> TAKE p \in Nat
<1>1. MinSpeed * p \in Nat /\ MaxSpeed * p \in Nat
  BY SpeedAssumption
<1>2. /\ (MinSpeed * p) \div TicksPerSecond \in Int
      /\ (MaxSpeed * p) \div TicksPerSecond \in Int
  BY <1>1, TimeAssumption
<1> QED BY <1>2 DEF MinPxPerFrame, MaxPxPerFrame, AtLeastOne

\* The loop that pops trailing zeros stops behind the last moving frame.
LEMMA StrippedLenProperties ==
  ASSUME NEW s \in Seq(Int)
  PROVE  /\ StrippedLen(s) \in 0..Len(s)
         /\ \A i \in StrippedLen(s) + 1..Len(s) : s[i] = 0
         /\ StrippedLen(s) > 0 => s[StrippedLen(s)] # 0
<1> DEFINE Last(n) == /\ \A i \in n + 1..Len(s) : s[i] = 0
                      /\ n > 0 => s[n] # 0
           M == {0} \union {i \in 1..Len(s) : s[i] # 0}
<1>1. Len(s) \in Nat
  OBVIOUS
<1>2. M \in SUBSET (0..Len(s)) /\ M # {}
  BY <1>1
<1>3. PICK n \in M : \A i \in M : i <= n
  <2> HIDE DEF M
  <2> QED BY <1>1, <1>2, Greatest
<1>4. n \in 0..Len(s) /\ Last(n)
  <2>1. ASSUME NEW i \in n + 1..Len(s)
        PROVE  s[i] = 0
    <3>1. n \in Nat /\ i \in 1..Len(s) /\ ~(i <= n)
      BY <1>1, <1>2
    <3>2. i \notin M
      BY <1>3, <3>1
    <3> QED BY <3>1, <3>2
  <2> QED BY <1>2, <2>1
<1> QED BY <1>4 DEF StrippedLen

\* The low pass stays a natural number.
LEMMA LowPassStepType ==
  ASSUME lowPass \in Nat, NEW d \in Int
  PROVE  LowPassStep(d) \in Nat
<1> DEFINE w == LowPassDen - LowPassNum
           a == lowPass * LowPassNum
           b == Abs(d) * Scale
<1>1. w \in Nat /\ LowPassNum \in Nat /\ LowPassDen \in Nat \ {0}
  BY LowPassAssumption
<1>2. a \in Nat
  BY <1>1
<1>3. b \in Nat
  BY AbsType, LowPassAssumption
<1>4. b * w \in Nat
  <2> HIDE DEF b, w
  <2> QED BY <1>1, <1>3
<1>5. (a + b * w) \div LowPassDen \in Nat
  <2>1. ASSUME NEW n \in Nat
        PROVE  n \div LowPassDen \in Nat
    BY <1>1
  <2> HIDE DEF a, b, w
  <2> QED BY <1>2, <1>4, <2>1
<1> QED BY <1>5 DEF LowPassStep

-----------------------------------------------------------------------------
(* Every step is one of three kinds.                                       *)

\* The time and the ordinal of the previous frame only move forward.
PrevAdvances ==
  /\ prevTs' \in Nat \union {None}
  /\ prevIx' \in Nat
  /\ prevTs <= prevTs'
  /\ prevIx <= prevIx'

\* The frame is left out: unseen, or looked at and not too far behind the last
\* recorded one.
Skipping ==
  /\ UNCHANGED <<seq, lowPass, handed>>
  /\ result' = "none"
  /\ disposition' \in Dispositions
  /\ \/ prevIx < prevIx' /\ unseen' = unseen \union {prevIx'}
     \/ /\ UNCHANGED unseen
        /\ IsActive /\ prevTs # None
             => ~(prevTs' - ts[Len(ts)] > MaxFramePeriod)

\* The frame is recorded.
Recorded(p, d) ==
  /\ prevTs # None
  /\ ~TooFast(p)
  /\ ~TooNarrow(p)
  /\ d \in Found(p)
  /\ prevTs' = prevTs + p
  /\ prevIx' = prevIx + 1
  /\ ~IsActive => d # 0
  /\ IsActive => ~SequenceFull
  /\ Record(p, d)
  /\ lowPass' \in Nat
  /\ UNCHANGED <<handed, unseen>>
  /\ result' = "none"
  /\ disposition' \in {"recorded", "recorded_new_sequence"}

\* The sequence ends.
Ending ==
  /\ TryStitchAndReset
  /\ UNCHANGED unseen
  /\ disposition' \in Dispositions

\* Next is the disjunction of the three kinds of steps.
LEMMA StepKinds ==
  ASSUME Typed, Next
  PROVE  /\ PrevAdvances
         /\ closed' \in BOOLEAN
         /\ \/ Skipping
            \/ \E p \in Periods, d \in Offsets : Recorded(p, d)
            \/ Ending
<1> USE DEF Typed, PrevAdvances, Dispositions, None
<1>1. ASSUME NEW p \in Periods
      PROVE  p \in Nat
  BY <1>1, TimeAssumption
<1>2. CASE FirstFrame
  <2>1. closed' \in BOOLEAN
    BY <1>2 DEF FirstFrame
  <2>3. PrevAdvances
    BY <1>2 DEF FirstFrame
  <2>2. Skipping
    BY <1>2 DEF FirstFrame, Skip, Skipping, Return
  <2> QED BY <2>1, <2>2, <2>3
<1>3. CASE EndOfStream
  BY <1>3 DEF EndOfStream, Ending, prev
<1>4. ASSUME NEW p \in Periods, Later(p)
      PROVE  PrevAdvances /\ closed' \in BOOLEAN
  BY <1>1, <1>4 DEF Later, Advance
<1>5. ASSUME NEW p \in Periods,
             FastFrame(p) \/ SlowFrame(p) \/ DarkFrame(p)
      PROVE  Later(p) /\ Skipping
  <2>1. Later(p)
    BY <1>5 DEF FastFrame, SlowFrame, DarkFrame, Usable
  <2>2. prevIx' = prevIx + 1 /\ prevIx < prevIx' /\ prevTs' = prevTs + p
    BY <2>1 DEF Later, Advance
  <2>3. CASE FastFrame(p) \/ SlowFrame(p)
    BY <2>1, <2>2, <2>3 DEF FastFrame, SlowFrame, Skip, Skipping, Return
  <2>4. CASE DarkFrame(p)
    <3>1. IsActive => ~((prevTs + p) - ts[Len(ts)] > MaxFramePeriod)
      BY <2>4 DEF DarkFrame, DarkTooLong, Elapsed
    <3>2. /\ UNCHANGED <<seq, lowPass, handed, unseen>>
          /\ result' = "none" /\ disposition' = "low_contrast"
      BY <2>4 DEF DarkFrame, Usable, Skip, Return
    <3>3. IsActive => ~(prevTs' - ts[Len(ts)] > MaxFramePeriod)
      BY <2>2, <3>1
    <3> QED BY <2>1, <3>2, <3>3 DEF Skipping
  <2> QED BY <1>5, <2>3, <2>4
<1>6. ASSUME NEW p \in Periods, NEW d \in Offsets, NEW cos \in Score,
             StandingFrame(p, d, cos) \/ InconclusiveFrame(p, d, cos)
      PROVE  Later(p) /\ Skipping
  BY <1>6 DEF StandingFrame, InconclusiveFrame, Usable, Skip, Skipping, Return
<1>7. ASSUME NEW p \in Periods, DarkEnd(p)
      PROVE  Later(p) /\ Ending
  BY <1>7 DEF DarkEnd, Usable, Ending
<1>8. ASSUME NEW p \in Periods, NEW d \in Offsets, SequenceEnd(p, d)
      PROVE  Later(p) /\ Ending
  BY <1>8 DEF SequenceEnd, Usable, Ending
<1>11. ASSUME NEW p \in Periods
       PROVE  Found(p) \subseteq Offsets
  BY DEF Found
<1>9. ASSUME NEW p \in Periods, NEW d \in Found(p), RecordFrame(p, d)
      PROVE  Later(p) /\ Recorded(p, d)
  <2>1. LowPassStep(d) \in Nat
    BY <1>11, LowPassStepType, SpeedAssumption
  <2> QED
    BY <1>9, <2>1 DEF RecordFrame, Usable, Later, Advance, Recorded, Return
<1>10. ASSUME NEW p \in Periods, NEW d \in Found(p), NEW cos \in Score,
              NewSequence(p, d, cos)
       PROVE  Later(p) /\ Recorded(p, d)
  <2>0. d \in Int
    BY <1>11, SpeedAssumption
  <2>1. d # 0
    <3>1. Abs(d) >= MinPxPerFrame(p) /\ MinPxPerFrame(p) \in Nat \ {0}
      BY <1>1, <1>10, PxPerFrameType DEF NewSequence, StartsSequence
    <3> QED BY <3>1 DEF Abs
  <2>2. Abs(d) * Scale \in Nat
    <3>1. Abs(d) \in Nat
      BY <2>0, AbsType
    <3> QED BY <3>1, LowPassAssumption
  <2> QED
    BY <1>10, <2>1, <2>2
       DEF NewSequence, Usable, Later, Advance, Recorded, Return
<1> HIDE DEF Typed, PrevAdvances, Dispositions
<1> QED
  BY <1>2, <1>3, <1>4, <1>5, <1>6, <1>7, <1>8, <1>9, <1>10, <1>11 DEF Next

-----------------------------------------------------------------------------
(* Well-formed sequences.                                                  *)

TypedSequence(s) == SequenceType(s) /\ s.startTs \in Nat \union {None}

Extended(s, start, n, d, t) ==
  [startTs |-> start, images |-> Append(s.images, n),
   dx |-> Append(s.dx, d), ts |-> Append(s.ts, t)]

Truncated(s, n) ==
  [startTs |-> s.startTs, images |-> SubSeq(s.images, 1, n),
   dx |-> SubSeq(s.dx, 1, n), ts |-> SubSeq(s.ts, 1, n)]

\* The frames of a well-formed sequence are in order, also over a distance.
LEMMA WellFormedAscending ==
  ASSUME NEW s, TypedSequence(s), WellFormed(s),
         NEW i \in 1..Len(s.dx), NEW j \in 1..Len(s.dx), i <= j
  PROVE  s.images[i] <= s.images[j] /\ s.ts[i] <= s.ts[j]
<1> DEFINE n == Len(s.dx)
           f == s.images
           g == s.ts
<1>1. Len(f) = n /\ Len(g) = n /\ n \in Nat
  BY DEF TypedSequence, SequenceType, WellFormed, SameLength
<1>2. \A k \in 1..n : f[k] \in Int /\ g[k] \in Int
  <2>1. f \in Seq(Nat) /\ g \in Seq(Nat)
    BY DEF TypedSequence, SequenceType
  <2> HIDE DEF f, g, n
  <2> QED BY <1>1, <2>1, ElementOfSeq
<1>3. \A k \in 2..n : f[k - 1] < f[k]
  BY <1>1 DEF WellFormed, FramesInOrder
<1>4. \A k \in 2..n : g[k] - g[k - 1] >= MinFramePeriod
  BY <1>1 DEF WellFormed, GapsPositive, Gap
<1> HIDE DEF f, g, n
<1>5. \A k \in 2..n : f[k - 1] <= f[k] /\ g[k - 1] <= g[k]
  <2> SUFFICES ASSUME NEW k \in 2..n
               PROVE  f[k - 1] <= f[k] /\ g[k - 1] <= g[k]
    OBVIOUS
  <2>1. /\ f[k - 1] \in Int /\ f[k] \in Int
        /\ g[k - 1] \in Int /\ g[k] \in Int
    BY <1>1, <1>2
  <2>2. f[k - 1] < f[k] /\ g[k] - g[k - 1] >= MinFramePeriod
    BY <1>3, <1>4
  <2> QED BY <2>1, <2>2, TimeAssumption
<1>6. i \in 1..n /\ j \in 1..n
  BY DEF n
<1>7. f[i] <= f[j]
  BY <1>1, <1>2, <1>5, <1>6, Ascending
<1>8. g[i] <= g[j]
  BY <1>1, <1>2, <1>5, <1>6, Ascending
<1> QED BY <1>7, <1>8 DEF f, g

\* Recording one more frame keeps a sequence well formed.
LEMMA AppendWellFormed ==
  ASSUME NEW s, TypedSequence(s), WellFormed(s),
         NEW start \in Nat, NEW n \in Nat, NEW d \in Int, NEW t \in Nat,
         s.dx = <<>> => d # 0 /\ t - start >= MinFramePeriod,
         s.dx # <<>> => /\ start = s.startTs
                        /\ t - s.ts[Len(s.ts)] >= MinFramePeriod
                        /\ s.images[Len(s.images)] < n
  PROVE  WellFormed(Extended(s, start, n, d, t))
<1> USE DEF TypedSequence, SequenceType, Extended
<1> DEFINE r == Extended(s, start, n, d, t)
           l == Len(s.dx)
<1>1. Len(s.images) = l /\ Len(s.ts) = l /\ l \in Nat
  BY DEF WellFormed, SameLength
<1>2. /\ Len(r.images) = l + 1
      /\ \A i \in 1..l : r.images[i] = s.images[i]
      /\ r.images[l + 1] = n
  BY <1>1, AppendProperties
<1>3. /\ Len(r.dx) = l + 1
      /\ \A i \in 1..l : r.dx[i] = s.dx[i]
      /\ r.dx[l + 1] = d
  BY <1>1, AppendProperties
<1>4. /\ Len(r.ts) = l + 1
      /\ \A i \in 1..l : r.ts[i] = s.ts[i]
      /\ r.ts[l + 1] = t
  <2>1. s.ts \in Seq(Nat) /\ r.ts = Append(s.ts, t)
    OBVIOUS
  <2> HIDE DEF r
  <2> QED BY <1>1, <2>1, AppendProperties
<1>5. s.dx = <<>> <=> l = 0
  BY EmptySeq
<1>6. SameLength(r)
  BY <1>2, <1>3, <1>4 DEF SameLength
<1>7. StartsMoving(r)
  <2>1. r.dx[1] # 0
    BY <1>1, <1>3, <1>5 DEF WellFormed, StartsMoving
  <2> QED BY <2>1 DEF StartsMoving, None
<1>8. GapsPositive(r)
  <2>1. ASSUME NEW i \in 1..l + 1
        PROVE  Gap(r, i) >= MinFramePeriod
    <3>1. CASE i <= l
      <4>1. s.startTs = start
        BY <1>1, <1>5, <3>1
      <4>2. r.ts[i] = s.ts[i] /\ (i # 1 => r.ts[i - 1] = s.ts[i - 1])
        <5>1. i \in 1..l /\ (i # 1 => i - 1 \in 1..l)
          BY <1>1, <3>1
        <5> HIDE DEF r
        <5> QED BY <1>4, <5>1
      <4>3. Gap(r, i) = Gap(s, i)
        BY <4>1, <4>2 DEF Gap
      <4> QED BY <1>1, <3>1, <4>3 DEF WellFormed, GapsPositive
    <3>2. CASE i = l + 1
      <4>1. CASE l = 0
        BY <1>4, <1>5, <3>2, <4>1 DEF Gap
      <4>2. CASE l # 0
        BY <1>1, <1>4, <1>5, <3>2, <4>2 DEF Gap
      <4> QED BY <4>1, <4>2
    <3> QED BY <1>1, <3>1, <3>2
  <2> QED BY <1>4, <2>1 DEF GapsPositive
<1>9. FramesInOrder(r)
  <2>1. ASSUME NEW i \in 2..l + 1
        PROVE  r.images[i - 1] < r.images[i]
    <3>1. CASE i <= l
      <4>1. i - 1 \in 1..l /\ i \in 1..l /\ i \in 2..l
        BY <1>1, <3>1
      <4>2. s.images[i - 1] < s.images[i]
        BY <1>1, <4>1 DEF WellFormed, FramesInOrder
      <4> QED BY <1>2, <4>1, <4>2
    <3>2. CASE i = l + 1
      <4>1. i - 1 = l /\ l \in 1..l /\ s.dx # <<>>
        BY <1>1, <3>2, EmptySeq
      <4> QED BY <1>1, <1>2, <3>2, <4>1
    <3> QED BY <1>1, <3>1, <3>2
  <2> QED BY <1>2, <2>1 DEF FramesInOrder
<1> QED BY <1>6, <1>7, <1>8, <1>9 DEF WellFormed

\* A prefix agrees with the sequence.
LEMMA PrefixProperties ==
  ASSUME NEW S, NEW q \in Seq(S), NEW n \in 0..Len(q)
  PROVE  /\ SubSeq(q, 1, n) \in Seq(S) /\ Len(SubSeq(q, 1, n)) = n
         /\ \A i \in 1..n : SubSeq(q, 1, n)[i] = q[i]
<1>1. /\ 1 \in 1..Len(q) + 1 /\ n \in 1 - 1..Len(q) /\ n - 1 + 1 = n
      /\ \A i \in 1..n : 1 + i - 1 = i
  OBVIOUS
<1> QED BY <1>1, SubSeqProperties

\* A prefix of a well-formed sequence is well formed.
LEMMA PrefixWellFormed ==
  ASSUME NEW s, TypedSequence(s), WellFormed(s), NEW n \in 0..Len(s.dx)
  PROVE  /\ WellFormed(Truncated(s, n))
         /\ TypedSequence(Truncated(s, n))
         /\ Len(Truncated(s, n).dx) = n
<1> USE DEF TypedSequence, SequenceType, Truncated
<1> DEFINE r == Truncated(s, n)
<1>1. Len(s.images) = Len(s.dx) /\ Len(s.ts) = Len(s.dx) /\ n \in Nat
  BY DEF WellFormed, SameLength
<1>t. s.images \in Seq(Nat) /\ s.dx \in Seq(Int) /\ s.ts \in Seq(Nat)
  OBVIOUS
<1>u. /\ r.images = SubSeq(s.images, 1, n)
      /\ r.dx = SubSeq(s.dx, 1, n)
      /\ r.ts = SubSeq(s.ts, 1, n)
  OBVIOUS
<1>v. n \in 0..Len(s.images) /\ n \in 0..Len(s.dx) /\ n \in 0..Len(s.ts)
  BY <1>1
<1>2. /\ Len(r.images) = n /\ r.images \in Seq(Nat)
      /\ \A i \in 1..n : r.images[i] = s.images[i]
  <2> HIDE DEF r, TypedSequence, SequenceType, Truncated
  <2> DEFINE q == s.images
  <2>1. q \in Seq(Nat) /\ n \in 0..Len(q) /\ r.images = SubSeq(q, 1, n)
    BY <1>t, <1>u, <1>v
  <2> HIDE DEF q
  <2>2. /\ SubSeq(q, 1, n) \in Seq(Nat) /\ Len(SubSeq(q, 1, n)) = n
        /\ \A i \in 1..n : SubSeq(q, 1, n)[i] = q[i]
    BY <2>1, PrefixProperties
  <2>3. /\ Len(r.images) = n /\ r.images \in Seq(Nat)
        /\ \A i \in 1..n : r.images[i] = q[i]
    BY <2>1, <2>2
  <2> QED BY <2>3 DEF q
<1>3. /\ Len(r.dx) = n /\ r.dx \in Seq(Int)
      /\ \A i \in 1..n : r.dx[i] = s.dx[i]
  <2> HIDE DEF r, TypedSequence, SequenceType, Truncated
  <2> DEFINE q == s.dx
  <2>1. q \in Seq(Int) /\ n \in 0..Len(q) /\ r.dx = SubSeq(q, 1, n)
    BY <1>t, <1>u, <1>v
  <2> HIDE DEF q
  <2>2. /\ SubSeq(q, 1, n) \in Seq(Int) /\ Len(SubSeq(q, 1, n)) = n
        /\ \A i \in 1..n : SubSeq(q, 1, n)[i] = q[i]
    BY <2>1, PrefixProperties
  <2>3. /\ Len(r.dx) = n /\ r.dx \in Seq(Int)
        /\ \A i \in 1..n : r.dx[i] = q[i]
    BY <2>1, <2>2
  <2> QED BY <2>3 DEF q
<1>4. /\ Len(r.ts) = n /\ r.ts \in Seq(Nat)
      /\ \A i \in 1..n : r.ts[i] = s.ts[i]
  <2> HIDE DEF r, TypedSequence, SequenceType, Truncated
  <2> DEFINE q == s.ts
  <2>1. q \in Seq(Nat) /\ n \in 0..Len(q) /\ r.ts = SubSeq(q, 1, n)
    BY <1>t, <1>u, <1>v
  <2> HIDE DEF q
  <2>2. /\ SubSeq(q, 1, n) \in Seq(Nat) /\ Len(SubSeq(q, 1, n)) = n
        /\ \A i \in 1..n : SubSeq(q, 1, n)[i] = q[i]
    BY <2>1, PrefixProperties
  <2>3. /\ Len(r.ts) = n /\ r.ts \in Seq(Nat)
        /\ \A i \in 1..n : r.ts[i] = q[i]
    BY <2>1, <2>2
  <2> QED BY <2>3 DEF q
<1>5. TypedSequence(r)
  BY <1>2, <1>3, <1>4
<1>6. SameLength(r)
  BY <1>2, <1>3, <1>4 DEF SameLength
<1>7. StartsMoving(r)
  <2>1. r.dx # <<>> => n > 0 /\ s.dx # <<>>
    BY <1>1, <1>3, EmptySeq
  <2> QED BY <1>1, <1>3, <2>1 DEF WellFormed, StartsMoving
<1>8. GapsPositive(r)
  <2>1. ASSUME NEW i \in 1..n
        PROVE  Gap(r, i) >= MinFramePeriod
    <3>1. Gap(r, i) = Gap(s, i)
      BY <1>1, <1>4 DEF Gap
    <3> QED BY <1>1, <3>1 DEF WellFormed, GapsPositive
  <2> QED BY <1>4, <2>1 DEF GapsPositive
<1>9. FramesInOrder(r)
  BY <1>1, <1>2 DEF WellFormed, FramesInOrder
<1> QED BY <1>3, <1>5, <1>6, <1>7, <1>8, <1>9 DEF WellFormed

-----------------------------------------------------------------------------
(* The inductive invariant.                                                *)

\* Everything recorded was received: it is not later than the previous frame.
InThePast(s, ix, t) ==
  s.dx # <<>> => /\ s.images[Len(s.images)] <= ix
                 /\ s.ts[Len(s.ts)] <= t

IInv ==
  /\ Typed
  /\ OpenWellFormed
  /\ HandedWellFormed
  /\ BufferBounded
  /\ InThePast(Recording, prevIx, prevTs)
  /\ InThePast(handed, prevIx, prevTs)
  /\ SequencesDisjoint

LEMMA RecordingTyped ==
  ASSUME Typed
  PROVE  TypedSequence(Recording) /\ TypedSequence(handed)
  BY DEF Typed, TypedSequence, SequenceType, Recording, None

\* What is in the past stays there.
LEMMA PastStays ==
  ASSUME NEW s, TypedSequence(s), SameLength(s),
         NEW i1 \in Int, NEW t1 \in Int, NEW i2 \in Int, NEW t2 \in Int,
         i1 <= i2, t1 <= t2, InThePast(s, i1, t1)
  PROVE  InThePast(s, i2, t2)
<1> USE DEF TypedSequence, SequenceType, SameLength
<1> SUFFICES ASSUME s.dx # <<>>
             PROVE  /\ s.images[Len(s.images)] <= i2
                    /\ s.ts[Len(s.ts)] <= t2
  BY DEF InThePast
<1>1. Len(s.dx) \in Nat \ {0}
  BY EmptySeq
<1>2. s.images[Len(s.images)] \in Nat
  <2>1. s.images \in Seq(Nat) /\ Len(s.images) \in 1..Len(s.images)
    BY <1>1
  <2> QED BY <2>1, ElementOfSeq
<1>3. s.ts[Len(s.ts)] \in Nat
  <2>1. s.ts \in Seq(Nat) /\ Len(s.ts) \in 1..Len(s.ts)
    BY <1>1
  <2> QED BY <2>1, ElementOfSeq
<1>4. s.images[Len(s.images)] <= i1 /\ s.ts[Len(s.ts)] <= t1
  BY DEF InThePast
<1> HIDE DEF TypedSequence, SequenceType, SameLength
<1> QED BY <1>2, <1>3, <1>4

\* The initial state satisfies the invariant.
LEMMA InitInv == Init => IInv
<1> SUFFICES ASSUME Init
             PROVE  IInv
  OBVIOUS
<1> USE DEF Init, None, NoSequence
<1>1. Typed
  <2>1. closed \in BOOLEAN
    OBVIOUS
  <2>2. disposition \in Dispositions /\ result \in Results
    BY DEF Dispositions, Results
  <2>3. SequenceType(handed) /\ handed.startTs \in Nat \union {None}
    BY DEF SequenceType
  <2> QED BY <2>1, <2>2, <2>3 DEF Typed
<1>2. WellFormed(Recording) /\ WellFormed(handed)
  BY DEF WellFormed, SameLength, StartsMoving, GapsPositive, FramesInOrder,
         Recording
<1>3. BufferBounded
  BY LimitAssumption DEF BufferBounded
<1> QED
  BY <1>1, <1>2, <1>3
     DEF IInv, OpenWellFormed, HandedWellFormed, InThePast,
         SequencesDisjoint, IsActive, Recording

\* A frame that is left out preserves the invariant.
LEMMA SkippingInv ==
  ASSUME IInv, PrevAdvances, closed' \in BOOLEAN, Skipping
  PROVE  IInv'
<1> USE DEF IInv
<1>1. /\ startWall' = startWall /\ startTs' = startTs
      /\ images' = images /\ dx' = dx /\ ts' = ts
      /\ lowPass' = lowPass /\ handed' = handed
  BY DEF Skipping, seq
<1>2. Typed'
  BY <1>1 DEF Typed, PrevAdvances, Skipping, Results
<1>3. OpenWellFormed' /\ HandedWellFormed' /\ BufferBounded'
  BY <1>1 DEF OpenWellFormed, HandedWellFormed, BufferBounded, Recording
<1>4. prevTs \in Int /\ prevTs' \in Int /\ prevIx \in Int /\ prevIx' \in Int
  BY DEF Typed, PrevAdvances, None
<1>5. InThePast(Recording, prevIx', prevTs') /\ InThePast(handed, prevIx', prevTs')
  BY <1>4, RecordingTyped, PastStays
     DEF PrevAdvances, OpenWellFormed, HandedWellFormed, WellFormed
<1>6. Recording' = Recording
  BY <1>1 DEF Recording
<1>7. SequencesDisjoint'
  BY <1>1 DEF SequencesDisjoint, IsActive
<1> QED BY <1>1, <1>2, <1>3, <1>5, <1>6, <1>7

\* Recording a frame preserves the invariant.
LEMMA RecordedInv ==
  ASSUME IInv, PrevAdvances, closed' \in BOOLEAN,
         NEW p \in Periods, NEW d \in Offsets, Recorded(p, d)
  PROVE  IInv'
<1> USE DEF IInv
<1>1. /\ prevTs \in Nat /\ prevIx \in Nat /\ p \in Nat /\ d \in Int
      /\ p >= MinFramePeriod /\ MinFramePeriod \in Nat
      /\ prevTs' = prevTs + p /\ prevIx' = prevIx + 1
  BY TimeAssumption, SpeedAssumption DEF Recorded, Typed, TooFast, None
<1>2. /\ images' = Append(images, prevIx + 1)
      /\ dx' = Append(dx, d)
      /\ ts' = Append(ts, prevTs + p)
      /\ startTs' = IF startTs = None THEN prevTs ELSE startTs
      /\ startWall' = IF startWall = None THEN prevIx + 1 ELSE startWall
      /\ handed' = handed /\ unseen' = unseen
  BY DEF Recorded, Record
<1>3. images \in Seq(Nat) /\ dx \in Seq(Int) /\ ts \in Seq(Nat)
  BY DEF Typed
<1>4. Len(images) = Len(dx) /\ Len(ts) = Len(dx) /\ Len(dx) \in Nat
  BY <1>3 DEF OpenWellFormed, WellFormed, SameLength, Recording
<1>5. /\ images' \in Seq(Nat) /\ Len(images') = Len(dx) + 1
      /\ images'[Len(dx) + 1] = prevIx + 1
      /\ \A i \in 1..Len(dx) : images'[i] = images[i]
  <2>1. prevIx + 1 \in Nat /\ images' = Append(images, prevIx + 1)
    BY <1>1, <1>2
  <2> QED BY <1>3, <1>4, <2>1, AppendProperties
<1>6. dx' \in Seq(Int) /\ Len(dx') = Len(dx) + 1
  <2> HIDE DEF IInv
  <2> QED BY <1>1, <1>2, <1>3, AppendProperties
<1>7. /\ ts' \in Seq(Nat) /\ Len(ts') = Len(dx) + 1
      /\ ts'[Len(dx) + 1] = prevTs + p
  <2>1. prevTs + p \in Nat /\ ts' = Append(ts, prevTs + p)
    BY <1>1, <1>2
  <2> HIDE DEF IInv
  <2> QED BY <1>3, <1>4, <2>1, AppendProperties
<1>8. startTs' \in Nat /\ startTs' # None
  BY <1>1, <1>2 DEF Typed, None
<1>9. Typed'
  <2>1. disposition' \in Dispositions /\ result' \in Results
    BY DEF Recorded, Dispositions, Results
  <2>2. startWall' \in Nat \union {None} /\ lowPass' \in Nat
    BY <1>1, <1>2 DEF Typed, Recorded
  <2> QED
    BY <1>1, <1>2, <1>5, <1>6, <1>7, <1>8, <2>1, <2>2 DEF Typed
<1>10. dx = <<>> => startTs' = prevTs
  BY <1>2 DEF OpenWellFormed
<1>11. dx # <<>> => startTs' = startTs
  BY <1>2 DEF OpenWellFormed
<1>12. WellFormed(Recording')
  <2>1. TypedSequence(Recording) /\ WellFormed(Recording)
    BY RecordingTyped DEF OpenWellFormed
  <2>2. /\ Recording.dx = dx /\ Recording.ts = ts
        /\ Recording.images = images /\ Recording.startTs = startTs
    BY DEF Recording
  <2>3. dx = <<>> => d # 0 /\ (prevTs + p) - startTs' >= MinFramePeriod
    BY <1>1, <1>10 DEF Recorded, IsActive
  <2>4. dx # <<>> => /\ (prevTs + p) - ts[Len(ts)] >= MinFramePeriod
                     /\ images[Len(images)] < prevIx + 1
    <3>1. dx # <<>> => ts[Len(ts)] \in Nat /\ images[Len(images)] \in Nat
      BY <1>3, <1>4, EmptySeq, ElementOfSeq
    <3> QED BY <1>1, <3>1 DEF InThePast, Recording
  <2>5. prevIx + 1 \in Nat /\ prevTs + p \in Nat
    BY <1>1
  <2>6. WellFormed(Extended(Recording, startTs', prevIx + 1, d, prevTs + p))
    <3>1. Recording.dx = <<>> =>
            d # 0 /\ (prevTs + p) - startTs' >= MinFramePeriod
      BY <2>2, <2>3
    <3>2. Recording.dx # <<>> =>
            /\ startTs' = Recording.startTs
            /\ (prevTs + p) - Recording.ts[Len(Recording.ts)] >= MinFramePeriod
            /\ Recording.images[Len(Recording.images)] < prevIx + 1
      BY <1>11, <2>2, <2>4
    <3>3. d \in Int /\ startTs' \in Nat
      BY <1>1, <1>8
    <3> HIDE DEF IInv
    <3> DEFINE s == Recording
               start == startTs'
               n == prevIx + 1
               t == prevTs + p
    <3>4. TypedSequence(s) /\ WellFormed(s)
      BY <2>1
    <3>5. start \in Nat /\ n \in Nat /\ d \in Int /\ t \in Nat
      BY <2>5, <3>3
    <3>6. s.dx = <<>> => d # 0 /\ t - start >= MinFramePeriod
      BY <1>1, <3>1, <3>3
    <3>7. s.dx # <<>> => /\ start = s.startTs
                         /\ t - s.ts[Len(s.ts)] >= MinFramePeriod
                         /\ s.images[Len(s.images)] < n
      BY <1>1, <3>2, <3>3
    <3> HIDE DEF s, start, n, t
    <3>8. WellFormed(Extended(s, start, n, d, t))
      BY <3>4, <3>5, <3>6, <3>7, AppendWellFormed
    <3> QED BY <3>8 DEF s, start, n, t
  <2> QED BY <1>2, <2>2, <2>6 DEF Recording, Extended
<1>13. OpenWellFormed'
  <2>1. dx' # <<>>
    BY <1>4, <1>6, EmptySeq
  <2> QED BY <1>8, <1>12, <2>1 DEF OpenWellFormed
<1>14. HandedWellFormed'
  BY <1>2 DEF HandedWellFormed
<1>15. BufferBounded'
  <2>1. Len(dx) <= MaxFrameCount
    <3>1. CASE IsActive
      BY <1>4, <3>1, LimitAssumption DEF Recorded, SequenceFull
    <3>2. CASE ~IsActive
      BY <1>3, <3>2, EmptySeq, LimitAssumption DEF IsActive
    <3> QED BY <3>1, <3>2
  <2> QED BY <1>4, <1>5, <2>1, LimitAssumption DEF BufferBounded
<1>16. InThePast(Recording', prevIx', prevTs')
  BY <1>1, <1>4, <1>5, <1>7 DEF InThePast, Recording
<1>17. InThePast(handed', prevIx', prevTs')
  <2>1. InThePast(handed, prevIx', prevTs')
    <3>1. TypedSequence(handed) /\ SameLength(handed)
      BY RecordingTyped DEF HandedWellFormed, WellFormed
    <3>2. /\ prevTs \in Int /\ prevTs' \in Int /\ prevTs <= prevTs'
          /\ prevIx \in Int /\ prevIx' \in Int /\ prevIx <= prevIx'
      BY <1>1
    <3> QED BY <3>1, <3>2, PastStays
  <2> QED BY <1>2, <2>1
<1>18. SequencesDisjoint'
  <2> SUFFICES ASSUME handed.dx # <<>>
               PROVE  /\ images'[1] > handed.images[Len(handed.images)]
                      /\ startTs' >= handed.ts[Len(handed.ts)]
    BY <1>2 DEF SequencesDisjoint
  <2>1. /\ handed.images[Len(handed.images)] \in Nat
        /\ handed.ts[Len(handed.ts)] \in Nat
    <3>1. Len(handed.dx) \in Nat \ {0}
      BY EmptySeq DEF Typed, SequenceType
    <3>2. handed.images \in Seq(Nat) /\ handed.ts \in Seq(Nat)
      BY DEF Typed, SequenceType
    <3>3. Len(handed.images) = Len(handed.dx) /\ Len(handed.ts) = Len(handed.dx)
      BY DEF HandedWellFormed, WellFormed, SameLength
    <3> QED BY <3>1, <3>2, <3>3, ElementOfSeq
  <2>2. CASE dx = <<>>
    BY <1>1, <1>3, <1>5, <1>10, <2>1, <2>2, EmptySeq DEF InThePast
  <2>3. CASE dx # <<>>
    <3>1. images'[1] = images[1]
      BY <1>3, <1>4, <1>5, <2>3, EmptySeq
    <3> QED BY <1>11, <2>3, <3>1 DEF SequencesDisjoint, IsActive
  <2> QED BY <2>2, <2>3
<1> QED
  BY <1>9, <1>13, <1>14, <1>15, <1>16, <1>17, <1>18

\* Ending a sequence preserves the invariant.
LEMMA EndingInv ==
  ASSUME IInv, PrevAdvances, closed' \in BOOLEAN, Ending
  PROVE  IInv'
<1> USE DEF IInv
<1>1. /\ startWall' = None /\ startTs' = None
      /\ images' = <<>> /\ dx' = <<>> /\ ts' = <<>> /\ lowPass' = 0
      /\ unseen' = unseen
  BY DEF Ending, TryStitchAndReset, ClearSequence
<1>2. \/ IsActive /\ handed' = Stripped /\ result' \in Outcomes(Stripped)
      \/ handed' = handed /\ result' = "none"
  BY DEF Ending, TryStitchAndReset
<1>3. prevTs \in Int /\ prevTs' \in Int /\ prevIx \in Int /\ prevIx' \in Int
  BY DEF Typed, PrevAdvances, None
<1> DEFINE k == StrippedLen(dx)
<1>4. /\ k \in 0..Len(dx) /\ Len(dx) \in Nat
      /\ k > 0 => dx[k] # 0
  BY StrippedLenProperties DEF Typed
<1>5. Stripped = Truncated(Recording, k)
  BY DEF Stripped, Truncated, Recording
<1>6. /\ WellFormed(Stripped) /\ TypedSequence(Stripped)
      /\ Len(Stripped.dx) = k
  <2>1. TypedSequence(Recording) /\ WellFormed(Recording)
    BY RecordingTyped DEF OpenWellFormed
  <2>2. Recording.dx = dx
    BY DEF Recording
  <2> HIDE DEF IInv, k
  <2> QED BY <1>4, <1>5, <2>1, <2>2, PrefixWellFormed
<1>7. Stripped.dx # <<>> => Stripped.dx[Len(Stripped.dx)] # 0
  <2>1. Stripped.dx # <<>> => k > 0
    <3>1. Stripped.dx \in Seq(Int)
      BY <1>6 DEF TypedSequence, SequenceType
    <3> QED BY <1>4, <1>6, <3>1, EmptySeq
  <2>2. k > 0 => Stripped.dx[k] = dx[k]
    BY <1>4, SubSeqProperties DEF Stripped, Typed
  <2> QED BY <1>4, <1>6, <2>1, <2>2
<1>8. InThePast(Stripped, prevIx, prevTs)
  <2> SUFFICES ASSUME Stripped.dx # <<>>
               PROVE  /\ Stripped.images[Len(Stripped.images)] <= prevIx
                      /\ Stripped.ts[Len(Stripped.ts)] <= prevTs
    BY DEF InThePast
  <2>1. PICK n \in Nat \ {0} : n = k /\ n <= Len(dx)
    <3>1. Stripped.dx \in Seq(Int)
      BY <1>6 DEF TypedSequence, SequenceType
    <3> QED BY <1>4, <1>6, <3>1, EmptySeq
  <2>2. /\ Len(Stripped.images) = n /\ Len(Stripped.ts) = n
    BY <1>6, <2>1 DEF WellFormed, SameLength
  <2>3. /\ Len(images) = Len(dx) /\ Len(ts) = Len(dx)
        /\ images \in Seq(Nat) /\ ts \in Seq(Nat)
    BY DEF OpenWellFormed, WellFormed, SameLength, Recording, Typed
  <2>4. Stripped.images[n] = images[n] /\ Stripped.ts[n] = ts[n]
    BY <2>1, <2>3, SubSeqProperties DEF Stripped
  <2>5. images[Len(images)] <= prevIx /\ ts[Len(ts)] <= prevTs
    BY <1>4, <2>1, <2>3, EmptySeq DEF InThePast, Recording
  <2>6. images[n] <= images[Len(images)] /\ ts[n] <= ts[Len(ts)]
    <3>1. Recording.dx = dx /\ Recording.images = images /\ Recording.ts = ts
      BY DEF Recording
    <3>2. TypedSequence(Recording) /\ WellFormed(Recording)
      BY RecordingTyped DEF OpenWellFormed
    <3>3. n \in 1..Len(dx) /\ Len(dx) \in 1..Len(dx)
      BY <1>4, <2>1
    <3> HIDE DEF IInv
    <3> QED BY <2>1, <2>3, <3>1, <3>2, <3>3, WellFormedAscending
  <2>7. /\ images[n] \in Nat /\ images[Len(images)] \in Nat
        /\ ts[n] \in Nat /\ ts[Len(ts)] \in Nat
    BY <2>1, <2>3, ElementOfSeq
  <2> QED BY <1>3, <2>2, <2>4, <2>5, <2>6, <2>7
<1>9. Typed'
  <2>1. disposition' \in Dispositions
    BY DEF Ending
  <2>2. result' \in Results
    <3>1. Outcomes(Stripped) \subseteq Results
      BY DEF Outcomes, Results, Rejections
    <3>2. "none" \in Results
      BY DEF Results
    <3> QED BY <1>2, <3>1, <3>2
  <2>3. SequenceType(handed)' /\ handed'.startTs \in Nat \union {None}
    <3>1. CASE handed' = Stripped
      BY <1>6, <3>1 DEF TypedSequence, SequenceType
    <3>2. CASE handed' = handed
      BY <3>2 DEF Typed, SequenceType
    <3> QED BY <1>2, <3>1, <3>2
  <2> QED
    BY <1>1, <2>1, <2>2, <2>3 DEF Typed, PrevAdvances
<1>10. OpenWellFormed'
  BY <1>1
     DEF OpenWellFormed, Recording, WellFormed, SameLength, StartsMoving,
         GapsPositive, FramesInOrder
<1>11. HandedWellFormed'
  BY <1>2, <1>6, <1>7 DEF HandedWellFormed
<1>12. BufferBounded'
  BY <1>1, LimitAssumption DEF BufferBounded
<1>13. InThePast(Recording', prevIx', prevTs')
  BY <1>1 DEF InThePast, Recording
<1>14. InThePast(handed', prevIx', prevTs')
  <2>1. TypedSequence(handed) /\ SameLength(handed)
    BY RecordingTyped DEF HandedWellFormed, WellFormed
  <2>2. TypedSequence(Stripped) /\ SameLength(Stripped)
    BY <1>6 DEF WellFormed
  <2>3. InThePast(handed, prevIx', prevTs') /\ InThePast(Stripped, prevIx', prevTs')
    BY <1>3, <1>8, <2>1, <2>2, PastStays DEF PrevAdvances
  <2> QED BY <1>2, <2>3
<1>15. SequencesDisjoint'
  BY <1>1 DEF SequencesDisjoint, IsActive
<1> QED
  BY <1>9, <1>10, <1>11, <1>12, <1>13, <1>14, <1>15

-----------------------------------------------------------------------------
(* The theorems.                                                           *)

\* The invariant holds in every reachable state.
THEOREM Invariance == Spec => []IInv
<1>1. Init => IInv
  BY InitInv
<1>2. IInv /\ [Next]_vars => IInv'
  <2> SUFFICES ASSUME IInv, [Next]_vars
               PROVE  IInv'
    OBVIOUS
  <2>1. CASE Next
    <3>1. Typed
      BY DEF IInv
    <3> QED
      BY <2>1, <3>1, StepKinds, SkippingInv, RecordedInv, EndingInv
  <2>2. CASE UNCHANGED vars
    BY <2>2
       DEF vars, prev, seq, IInv, Typed, OpenWellFormed, HandedWellFormed,
           BufferBounded, SequencesDisjoint, Recording, IsActive
  <2> QED BY <2>1, <2>2
<1> QED BY <1>1, <1>2, PTL DEF Spec

\* The type invariant, with the bound of the frame buffer.
THEOREM TypeCorrect == Spec => []TypeOK
<1>1. IInv => TypeOK
  BY DEF IInv, TypeOK
<1> QED BY <1>1, Invariance, PTL

\* The open sequence is consistent: equal lengths, a start time, a moving
\* first frame, positive gaps; and what the fit receives satisfies everything
\* it unwraps, indexes and divides by.
THEOREM SequenceConsistent == Spec => []SequenceWellFormed
<1>1. IInv => SequenceWellFormed
  BY DEF IInv, SequenceWellFormed
<1> QED BY <1>1, Invariance, PTL

\* Successive sequences share no frame and no time.
THEOREM NoSharedFrames == Spec => []SequencesDisjoint
<1>1. IInv => SequencesDisjoint
  BY DEF IInv
<1> QED BY <1>1, Invariance, PTL

-----------------------------------------------------------------------------
(* Bounds on speed and on jumps.                                            *)

\* In a longer time a train may move further.
LEMMA MaxPxPerFrameMonotone ==
  ASSUME NEW p \in Nat, NEW q \in Nat, p <= q
  PROVE  MaxPxPerFrame(p) <= MaxPxPerFrame(q)
<1>1. MaxSpeed * p \in Nat /\ MaxSpeed * q \in Nat /\ MaxSpeed * p <= MaxSpeed * q
  <2>1. q - p \in Nat /\ MaxSpeed \in Nat
    BY SpeedAssumption
  <2>2. MaxSpeed * (q - p) \in Nat /\ MaxSpeed * p \in Nat
    BY <2>1
  <2>3. MaxSpeed * q = MaxSpeed * p + MaxSpeed * (q - p)
    BY <2>1
  <2> QED BY <2>2, <2>3
<1>2. ASSUME NEW a \in Nat, NEW b \in Nat, a <= b
      PROVE  a \div TicksPerSecond <= b \div TicksPerSecond
  BY <1>2, TimeAssumption
<1>3. (MaxSpeed * p) \div TicksPerSecond <= (MaxSpeed * q) \div TicksPerSecond
  BY <1>1, <1>2
<1>4. /\ (MaxSpeed * p) \div TicksPerSecond \in Int
      /\ (MaxSpeed * q) \div TicksPerSecond \in Int
  BY <1>1, TimeAssumption
<1> QED BY <1>3, <1>4 DEF MaxPxPerFrame, AtLeastOne

\* No velocity of a sequence is above the maximum.
SpeedBounded(s) == \A i \in 1..Len(s.dx) : Abs(s.dx[i]) <= MaxPxPerFrame(Gap(s, i))
SpeedInv == SpeedBounded(Recording) /\ SpeedBounded(handed)

\* Skipped frames make the gap before the next recorded one longer, and with
\* it the offset that is allowed.
LEMMA RecordedSpeed ==
  ASSUME IInv, SpeedInv, NEW p \in Periods, NEW d \in Offsets, Recorded(p, d)
  PROVE  SpeedInv'
<1> DEFINE l == Len(dx)
<1>1. /\ prevTs \in Nat /\ p \in Nat /\ d \in Int
      /\ Abs(d) <= MaxPxPerFrame(p) /\ MaxPxPerFrame(p) \in Nat
  BY TimeAssumption, SpeedAssumption, PxPerFrameType DEF IInv, Recorded, Typed, None, Found
<1>2. /\ dx' = Append(dx, d) /\ ts' = Append(ts, prevTs + p)
      /\ startTs' = IF startTs = None THEN prevTs ELSE startTs
      /\ handed' = handed
  BY DEF Recorded, Record
<1>3. /\ dx \in Seq(Int) /\ ts \in Seq(Nat) /\ Len(ts) = l /\ l \in Nat
      /\ startTs \in Nat \union {None}
  BY DEF IInv, Typed, OpenWellFormed, WellFormed, SameLength, Recording
<1>4. /\ Len(dx') = l + 1 /\ dx'[l + 1] = d
      /\ \A i \in 1..l : dx'[i] = dx[i]
  BY <1>1, <1>2, <1>3, AppendProperties
<1>5. /\ ts'[l + 1] = prevTs + p
      /\ \A i \in 1..l : ts'[i] = ts[i]
  <2>1. prevTs + p \in Nat
    BY <1>1
  <2> QED BY <1>2, <1>3, <2>1, AppendProperties
<1>6. l = 0 <=> startTs = None
  BY <1>3, EmptySeq DEF IInv, OpenWellFormed
<1>7. /\ Recording.dx = dx /\ Recording.ts = ts /\ Recording.startTs = startTs
      /\ Recording'.dx = dx' /\ Recording'.ts = ts' /\ Recording'.startTs = startTs'
  BY DEF Recording
<1>8. ASSUME NEW i \in 1..l
      PROVE  Abs(dx'[i]) <= MaxPxPerFrame(Gap(Recording', i))
  <2>1. startTs' = startTs
    BY <1>2, <1>3, <1>6
  <2>2. Gap(Recording', i) = Gap(Recording, i)
    <3>1. ts'[i] = ts[i] /\ (i # 1 => ts'[i - 1] = ts[i - 1])
      <4>1. i # 1 => i - 1 \in 1..l
        BY <1>3
      <4> HIDE DEF l
      <4> QED BY <1>5, <4>1
    <3> QED BY <1>7, <2>1, <3>1 DEF Gap
  <2>3. Abs(dx[i]) <= MaxPxPerFrame(Gap(Recording, i))
    BY <1>7 DEF SpeedInv, SpeedBounded
  <2> QED BY <1>4, <2>2, <2>3
<1>9. Abs(dx'[l + 1]) <= MaxPxPerFrame(Gap(Recording', l + 1))
  <2> DEFINE g == Gap(Recording', l + 1)
  <2>1. g \in Nat /\ p <= g
    <3>1. CASE l = 0
      <4>1. g = (prevTs + p) - prevTs
        BY <1>2, <1>5, <1>6, <1>7, <3>1 DEF Gap
      <4> QED BY <1>1, <4>1
    <3>2. CASE l # 0
      <4>1. g = (prevTs + p) - ts[l]
        <5>1. l \in 1..l /\ l + 1 # 1 /\ (l + 1) - 1 = l
          BY <1>3, <3>2
        <5>2. ts'[l] = ts[l]
          BY <1>5, <5>1
        <5> HIDE DEF l
        <5> QED BY <1>5, <1>7, <5>1, <5>2 DEF Gap
      <4>2. ts[l] <= prevTs /\ ts[l] \in Nat
        <5>1. dx # <<>> /\ l \in 1..Len(ts)
          BY <1>3, <3>2, EmptySeq
        <5>2. ts[Len(ts)] <= prevTs
          BY <1>7, <5>1 DEF IInv, InThePast
        <5> QED BY <1>3, <5>1, <5>2, ElementOfSeq
      <4> HIDE DEF g
      <4> QED BY <1>1, <4>1, <4>2
    <3> QED BY <3>1, <3>2
  <2> HIDE DEF g
  <2>2. MaxPxPerFrame(p) <= MaxPxPerFrame(g) /\ MaxPxPerFrame(g) \in Nat
    BY <1>1, <2>1, MaxPxPerFrameMonotone, PxPerFrameType
  <2>3. Abs(d) \in Nat
    BY <1>1, AbsType
  <2>4. Abs(d) <= MaxPxPerFrame(g)
    BY <1>1, <2>2, <2>3
  <2> QED BY <1>4, <2>4 DEF g
<1>10. SpeedBounded(Recording')
  <2>1. \A i \in 1..l + 1 : i \in 1..l \/ i = l + 1
    BY <1>3
  <2> HIDE DEF l
  <2> QED BY <1>4, <1>7, <1>8, <1>9, <2>1 DEF SpeedBounded
<1> QED BY <1>2, <1>10 DEF SpeedInv, SpeedBounded

\* What is stripped takes nothing from the velocities before it.
LEMMA EndingSpeed ==
  ASSUME IInv, SpeedInv, Ending
  PROVE  SpeedInv'
<1>1. dx' = <<>> /\ (handed' = handed \/ handed' = Stripped)
  BY DEF Ending, TryStitchAndReset, ClearSequence
<1>2. SpeedBounded(Recording')
  BY <1>1 DEF Recording, SpeedBounded
<1>3. SpeedBounded(Stripped)
  <2> DEFINE k == StrippedLen(dx)
  <2>1. k \in 0..Len(dx) /\ Len(dx) \in Nat
    BY StrippedLenProperties DEF IInv, Typed
  <2>2. /\ dx \in Seq(Int) /\ ts \in Seq(Nat) /\ Len(ts) = Len(dx)
    BY DEF IInv, Typed, OpenWellFormed, WellFormed, SameLength, Recording
  <2>3. /\ Stripped.dx = SubSeq(dx, 1, k) /\ Stripped.ts = SubSeq(ts, 1, k)
        /\ Stripped.startTs = startTs
        /\ Recording.dx = dx /\ Recording.ts = ts /\ Recording.startTs = startTs
    BY DEF Stripped, Recording
  <2> HIDE DEF k
  <2>4. /\ Len(Stripped.dx) = k
        /\ \A i \in 1..k : Stripped.dx[i] = dx[i] /\ Stripped.ts[i] = ts[i]
    BY <2>1, <2>2, <2>3, SubSeqProperties
  <2>5. ASSUME NEW i \in 1..k
        PROVE  Abs(Stripped.dx[i]) <= MaxPxPerFrame(Gap(Stripped, i))
    <3>1. i \in 1..Len(dx) /\ (i # 1 => i - 1 \in 1..k)
      BY <2>1
    <3>2. Gap(Stripped, i) = Gap(Recording, i)
      BY <2>3, <2>4, <3>1 DEF Gap
    <3>3. Abs(dx[i]) <= MaxPxPerFrame(Gap(Recording, i))
      BY <2>3, <3>1 DEF SpeedInv, SpeedBounded
    <3> QED BY <2>4, <3>2, <3>3
  <2> QED BY <2>4, <2>5 DEF SpeedBounded
<1> QED BY <1>1, <1>2, <1>3 DEF SpeedInv

\* The fit never sees a velocity above the configured maximum, however many
\* frames were skipped between two recorded ones.
THEOREM SpeedsAreBounded == Spec => []SpeedNotOverestimated
<1>1. Init => SpeedInv
  BY DEF Init, SpeedInv, SpeedBounded, Recording, NoSequence
<1>2. IInv /\ SpeedInv /\ [Next]_vars => SpeedInv'
  <2> SUFFICES ASSUME IInv, SpeedInv, [Next]_vars
               PROVE  SpeedInv'
    OBVIOUS
  <2>1. ASSUME UNCHANGED <<seq, handed>>
        PROVE  SpeedInv'
    BY <2>1 DEF seq, SpeedInv, SpeedBounded, Recording, Gap
  <2>2. CASE Next
    <3>1. CASE Skipping
      BY <2>1, <3>1 DEF Skipping
    <3> QED BY <2>2, <3>1, StepKinds, RecordedSpeed, EndingSpeed DEF IInv
  <2>3. CASE UNCHANGED vars
    BY <2>1, <2>3 DEF vars
  <2> QED BY <2>2, <2>3
<1>3. SpeedInv => SpeedNotOverestimated
  BY DEF SpeedInv, SpeedBounded, SpeedNotOverestimated
<1> QED BY <1>1, <1>2, <1>3, Invariance, PTL DEF Spec

\* Every unseen frame is in the past; while none has come since the last
\* recorded frame, that one is recent.
JumpInv ==
  /\ JumpsOnlyUnseen
  /\ \A j \in unseen : j <= prevIx
  /\ IsActive /\ AllSeen(images[Len(images)], prevIx + 1)
       => prevTs - ts[Len(ts)] <= MaxFramePeriod

\* What the detector bears as darkness and one usable period are no jump.
LEMMA NoJump ==
  ASSUME NEW p \in Nat, ~TooNarrow(p), NEW gap \in Int, gap - MaxFramePeriod <= p
  PROVE  ~Jump(gap)
<1> SUFFICES ASSUME gap > MaxFramePeriod
             PROVE  ~TooNarrow(gap - MaxFramePeriod)
  BY DEF Jump
<1>1. PICK q \in Nat : q = gap - MaxFramePeriod /\ q <= p
  BY TimeAssumption
<1>2. /\ MaxPxPerFrame(q) <= MaxPxPerFrame(p)
      /\ MaxPxPerFrame(q) \in Nat /\ MaxPxPerFrame(p) \in Nat
  BY <1>1, MaxPxPerFrameMonotone, PxPerFrameType
<1> QED BY <1>1, <1>2, SpeedAssumption DEF TooNarrow

\* What is known of the open sequence when its last frame is looked back at.
LEMMA LastRecorded ==
  ASSUME IInv, IsActive
  PROVE  /\ Len(ts) = Len(dx) /\ Len(images) = Len(dx) /\ Len(dx) \in Nat \ {0}
         /\ images[Len(images)] \in Nat /\ images[Len(images)] <= prevIx
         /\ ts[Len(ts)] \in Nat /\ ts[Len(ts)] <= prevTs
<1>1. /\ dx \in Seq(Int) /\ ts \in Seq(Nat) /\ images \in Seq(Nat)
      /\ Len(ts) = Len(dx) /\ Len(images) = Len(dx)
  BY DEF IInv, Typed, OpenWellFormed, WellFormed, SameLength, Recording
<1>2. Len(dx) \in Nat \ {0}
  BY <1>1, EmptySeq DEF IsActive
<1>3. images[Len(images)] \in Nat /\ ts[Len(ts)] \in Nat
  BY <1>1, <1>2, ElementOfSeq
<1>4. images[Len(images)] <= prevIx /\ ts[Len(ts)] <= prevTs
  BY DEF IInv, InThePast, Recording, IsActive
<1> QED BY <1>1, <1>2, <1>3, <1>4

\* Darkness that is borne is short, and a frame that was not looked at is the
\* witness of what comes after it.
LEMMA SkippingJump ==
  ASSUME IInv, JumpInv, PrevAdvances, Skipping
  PROVE  JumpInv'
<1>1. /\ images' = images /\ dx' = dx /\ ts' = ts /\ startTs' = startTs
      /\ handed' = handed
  BY DEF Skipping, seq
<1>2. /\ prevIx \in Nat /\ prevIx' \in Nat /\ prevIx <= prevIx'
      /\ prevTs \in Nat \union {None} /\ prevTs' \in Nat \union {None}
      /\ unseen \subseteq Nat
  BY DEF IInv, Typed, PrevAdvances
<1>3. unseen \subseteq unseen' /\ unseen' \subseteq unseen \union {prevIx'}
  BY DEF Skipping
<1>4. JumpsOnlyUnseen'
  BY <1>1, <1>3
     DEF JumpInv, JumpsOnlyUnseen, NoJumpSeen, AllSeen, Recording, Gap
<1>5. \A j \in unseen' : j <= prevIx'
  BY <1>2, <1>3 DEF JumpInv
<1>6. ASSUME IsActive, (AllSeen(images[Len(images)], prevIx + 1))'
      PROVE  prevTs' - ts[Len(ts)] <= MaxFramePeriod
  <2>1. PICK m \in Nat, t \in Nat :
          m = images[Len(images)] /\ t = ts[Len(ts)] /\ m <= prevIx /\ t <= prevTs
    BY <1>6, LastRecorded
  <2>2. prevTs # None /\ prevTs \in Nat
    BY <1>2, <2>1 DEF None
  <2>3. ~(prevIx < prevIx' /\ prevIx' \in unseen')
    BY <1>1, <1>2, <1>6, <2>1 DEF AllSeen
  <2>4. ~(prevTs' - t > MaxFramePeriod)
    BY <1>6, <2>1, <2>2, <2>3 DEF Skipping
  <2> QED BY <1>2, <2>1, <2>4, TimeAssumption DEF None
<1> QED BY <1>1, <1>4, <1>5, <1>6 DEF JumpInv, IsActive

\* Recording a frame at a usable period makes no jump that nothing explains.
LEMMA RecordedJump ==
  ASSUME IInv, JumpInv, NEW p \in Periods, NEW d \in Offsets, Recorded(p, d)
  PROVE  JumpInv'
<1> DEFINE l == Len(dx)
<1>1. /\ prevTs \in Nat /\ prevIx \in Nat /\ p \in Nat /\ d \in Int
      /\ prevTs' = prevTs + p /\ prevIx' = prevIx + 1 /\ unseen' = unseen
      /\ unseen \subseteq Nat
  BY TimeAssumption, SpeedAssumption DEF IInv, Recorded, Typed, None
<1>2. /\ images' = Append(images, prevIx + 1) /\ dx' = Append(dx, d)
      /\ ts' = Append(ts, prevTs + p) /\ handed' = handed
  BY DEF Recorded, Record
<1>3. /\ dx \in Seq(Int) /\ ts \in Seq(Nat) /\ images \in Seq(Nat)
      /\ Len(ts) = l /\ Len(images) = l /\ l \in Nat
  BY DEF IInv, Typed, OpenWellFormed, WellFormed, SameLength, Recording
<1>4. prevIx + 1 \in Nat /\ prevTs + p \in Nat
  BY <1>1
<1>5. /\ Len(ts') = l + 1 /\ ts'[l + 1] = prevTs + p
      /\ \A i \in 1..l : ts'[i] = ts[i]
  BY <1>2, <1>3, <1>4, AppendProperties
<1>6. /\ Len(images') = l + 1 /\ images'[l + 1] = prevIx + 1
      /\ \A i \in 1..l : images'[i] = images[i]
  BY <1>2, <1>3, <1>4, AppendProperties
<1>7. /\ Recording.images = images /\ Recording.ts = ts
      /\ Recording'.images = images' /\ Recording'.ts = ts'
  BY DEF Recording
<1> HIDE DEF l
<1>8. ASSUME NEW i \in 2..l
      PROVE  AllSeen(images'[i - 1], images'[i]) => ~Jump(ts'[i] - ts'[i - 1])
  <2>1. i \in 1..l /\ i - 1 \in 1..l /\ i # 1
    BY <1>3
  <2>2. AllSeen(images[i - 1], images[i]) => ~Jump(Gap(Recording, i))
    BY <1>3, <1>7 DEF JumpInv, JumpsOnlyUnseen, NoJumpSeen
  <2> QED BY <1>5, <1>6, <1>7, <2>1, <2>2 DEF Gap
<1>9. ASSUME l + 1 # 1, AllSeen(images'[l], images'[l + 1])
      PROVE  ~Jump(ts'[l + 1] - ts'[l])
  <2>1. l \in 1..l /\ dx # <<>>
    BY <1>3, <1>9, EmptySeq DEF l
  <2>2. PICK t \in Nat : t = ts[l] /\ prevTs - t <= MaxFramePeriod
    <3>1. AllSeen(images[Len(images)], prevIx + 1)
      BY <1>3, <1>6, <1>9, <2>1
    <3>2. ts[Len(ts)] \in Nat
      BY <2>1, LastRecorded DEF IsActive
    <3> QED BY <1>3, <2>1, <3>1, <3>2 DEF JumpInv, IsActive
  <2>3. PICK g \in Int : g = ts'[l + 1] - ts'[l] /\ g = prevTs + p - t
    <3>1. ts'[l] = t /\ ts'[l + 1] \in Int /\ ts'[l + 1] = prevTs + p
      BY <1>4, <1>5, <2>1, <2>2
    <3> QED BY <1>1, <3>1
  <2>4. g - MaxFramePeriod <= p
    BY <1>1, <2>2, <2>3, TimeAssumption
  <2>5. ~TooNarrow(p)
    BY DEF Recorded
  <2> QED BY <1>1, <2>3, <2>4, <2>5, NoJump
<1>10. NoJumpSeen(Recording)'
  <2> SUFFICES ASSUME NEW i \in 2..l + 1
               PROVE  AllSeen(images'[i - 1], images'[i])
                        => ~Jump(ts'[i] - ts'[i - 1])
    <3>1. \A i \in 2..l + 1 : i # 1
      BY <1>3
    <3> QED BY <1>1, <1>5, <1>7, <3>1 DEF NoJumpSeen, AllSeen, Gap
  <2>1. i \in 2..l \/ (i = l + 1 /\ l + 1 # 1 /\ i - 1 = l)
    BY <1>3
  <2> QED BY <1>8, <1>9, <2>1
<1>11. NoJumpSeen(handed)'
  BY <1>1, <1>2 DEF JumpInv, JumpsOnlyUnseen, NoJumpSeen, AllSeen, Gap
<1>12. \A j \in unseen' : j <= prevIx'
  BY <1>1 DEF JumpInv
<1>13. prevTs' - ts'[Len(ts')] <= MaxFramePeriod
  BY <1>1, <1>5, TimeAssumption
<1> QED BY <1>10, <1>11, <1>12, <1>13 DEF JumpInv, JumpsOnlyUnseen

\* What is stripped takes nothing from the jumps before it.
LEMMA EndingJump ==
  ASSUME IInv, JumpInv, PrevAdvances, Ending
  PROVE  JumpInv'
<1>1. /\ dx' = <<>> /\ ts' = <<>> /\ unseen' = unseen
      /\ (handed' = handed \/ handed' = Stripped)
  BY DEF Ending, TryStitchAndReset, ClearSequence
<1>2. NoJumpSeen(Recording)'
  BY <1>1 DEF Recording, NoJumpSeen
<1>3. NoJumpSeen(Stripped)
  <2> DEFINE k == StrippedLen(dx)
  <2>1. k \in 0..Len(dx) /\ Len(dx) \in Nat
    BY StrippedLenProperties DEF IInv, Typed
  <2>2. /\ images \in Seq(Nat) /\ Len(images) = Len(dx)
        /\ ts \in Seq(Nat) /\ Len(ts) = Len(dx)
    BY DEF IInv, Typed, OpenWellFormed, WellFormed, SameLength, Recording
  <2>3. /\ Stripped.images = SubSeq(images, 1, k) /\ Stripped.ts = SubSeq(ts, 1, k)
        /\ Recording.images = images /\ Recording.ts = ts
    BY DEF Stripped, Recording
  <2> HIDE DEF k
  <2>4. /\ Len(Stripped.ts) = k
        /\ \A i \in 1..k : Stripped.images[i] = images[i] /\ Stripped.ts[i] = ts[i]
    BY <2>1, <2>2, <2>3, SubSeqProperties
  <2>5. ASSUME NEW i \in 2..k
        PROVE  AllSeen(Stripped.images[i - 1], Stripped.images[i])
                 => ~Jump(Gap(Stripped, i))
    <3>1. i \in 2..Len(dx) /\ i \in 1..k /\ i - 1 \in 1..k /\ i # 1
      BY <2>1
    <3>2. Gap(Stripped, i) = Gap(Recording, i)
      BY <2>3, <2>4, <3>1 DEF Gap
    <3>3. AllSeen(images[i - 1], images[i]) => ~Jump(Gap(Recording, i))
      BY <2>2, <2>3, <3>1 DEF JumpInv, JumpsOnlyUnseen, NoJumpSeen
    <3> QED BY <2>4, <3>1, <3>2, <3>3
  <2> QED BY <2>4, <2>5 DEF NoJumpSeen
<1>4. NoJumpSeen(handed)'
  <2>1. NoJumpSeen(handed)
    BY DEF JumpInv, JumpsOnlyUnseen
  <2> QED BY <1>1, <1>3, <2>1 DEF NoJumpSeen, AllSeen, Gap
<1>5. \A j \in unseen' : j <= prevIx'
  BY <1>1 DEF JumpInv, IInv, Typed, PrevAdvances
<1> QED BY <1>1, <1>2, <1>4, <1>5 DEF JumpInv, JumpsOnlyUnseen, IsActive

\* A sequence stays open over a jump in time only if the detector skipped a
\* frame in it without looking at it.
THEOREM JumpsAreUnseen == Spec => []JumpsOnlyUnseen
<1>1. Init => JumpInv
  BY DEF Init, JumpInv, JumpsOnlyUnseen, NoJumpSeen, Recording, NoSequence, IsActive
<1>2. IInv /\ JumpInv /\ [Next]_vars => JumpInv'
  <2> SUFFICES ASSUME IInv, JumpInv, [Next]_vars
               PROVE  JumpInv'
    OBVIOUS
  <2>1. CASE Next
    BY <2>1, StepKinds, SkippingJump, RecordedJump, EndingJump DEF IInv
  <2>2. CASE UNCHANGED vars
    BY <2>2
       DEF vars, prev, seq, JumpInv, JumpsOnlyUnseen, NoJumpSeen, AllSeen, Recording,
           Gap, IsActive
  <2> QED BY <2>1, <2>2
<1>3. JumpInv => JumpsOnlyUnseen
  BY DEF JumpInv
<1> QED BY <1>1, <1>2, <1>3, Invariance, PTL DEF Spec

-----------------------------------------------------------------------------
(* The low pass.                                                           *)

\* A weighted mean, rounded down, lies between the two numbers.
LEMMA MeanBetween ==
  ASSUME NEW x \in Nat, NEW y \in Nat, x <= y,
         NEW n \in Nat, NEW w \in Nat, n + w = LowPassDen
  PROVE  /\ x <= (x * n + y * w) \div LowPassDen
         /\ (x * n + y * w) \div LowPassDen <= y
<1> DEFINE m == x * n + y * w
           D == LowPassDen
<1>1. D \in Nat \ {0}
  BY LowPassAssumption
<1>2. PICK e \in Nat : y = x + e
  <2>1. y - x \in Nat /\ y = x + (y - x)
    OBVIOUS
  <2> QED BY <2>1
<1>3. /\ x * n \in Nat /\ x * w \in Nat /\ e * n \in Nat /\ e * w \in Nat
      /\ y * w = x * w + e * w /\ y * n = x * n + e * n
      /\ x * D = x * n + x * w /\ y * D = y * n + y * w
  BY <1>2
<1>4. x * D \in Nat /\ y * D \in Nat /\ m \in Nat /\ x * D <= m /\ m <= y * D
  <2> HIDE DEF D
  <2>1. x * n + y * w = x * n + x * w + e * w
    BY <1>3
  <2>2. y * w \in Nat /\ y * n \in Nat
    BY <1>3
  <2> QED BY <1>3, <2>1, <2>2
<1>5. ASSUME NEW a \in Nat, NEW b \in Nat, a <= b
      PROVE  a \div D <= b \div D
  BY <1>1, <1>5
<1>6. (x * D) \div D = x /\ (y * D) \div D = y
  BY <1>1
<1> HIDE DEF m, D
<1>7. x <= m \div D /\ m \div D <= y
  BY <1>4, <1>5, <1>6
<1> QED BY <1>7 DEF m, D

LEMMA LowPassBetween ==
  ASSUME lowPass \in Nat, NEW d \in Int
  PROVE  /\ Abs(d) * Scale \in Nat
         /\ \/ Abs(d) * Scale <= LowPassStep(d) /\ LowPassStep(d) <= lowPass
            \/ lowPass <= LowPassStep(d) /\ LowPassStep(d) <= Abs(d) * Scale
<1> DEFINE b == Abs(d) * Scale
           w == LowPassDen - LowPassNum
<1>1. /\ w \in Nat /\ LowPassNum \in Nat /\ LowPassNum + w = LowPassDen
      /\ w + LowPassNum = LowPassDen
  BY LowPassAssumption
<1>2. b \in Nat
  BY AbsType, LowPassAssumption
<1> HIDE DEF b, w
<1>3. LowPassStep(d) = (lowPass * LowPassNum + b * w) \div LowPassDen
  BY DEF LowPassStep, b, w
<1>4. CASE lowPass <= b
  <2>1. lowPass <= LowPassStep(d) /\ LowPassStep(d) <= b
    BY <1>1, <1>2, <1>3, <1>4, MeanBetween
  <2> QED BY <1>2, <2>1 DEF b
<1>5. CASE b <= lowPass
  <2>1. /\ b <= (b * w + lowPass * LowPassNum) \div LowPassDen
        /\ (b * w + lowPass * LowPassNum) \div LowPassDen <= lowPass
    BY <1>1, <1>2, <1>5, MeanBetween
  <2>2. lowPass * LowPassNum \in Int /\ b * w \in Int
    BY <1>1, <1>2
  <2>3. lowPass * LowPassNum + b * w = b * w + lowPass * LowPassNum
    BY <2>2
  <2> QED BY <1>2, <1>3, <2>1, <2>3 DEF b
<1> QED BY <1>2, <1>4, <1>5

\* Recording a frame moves the low pass towards its offset.
LEMMA RecordedLowPass ==
  ASSUME IInv, LowPassWithinOffsets, NEW d \in Int, dx' = Append(dx, d),
         lowPass' = IF IsActive THEN LowPassStep(d) ELSE Abs(d) * Scale
  PROVE  LowPassWithinOffsets'
<1> DEFINE l == Len(dx)
<1>1. dx \in Seq(Int) /\ l \in Nat /\ lowPass \in Nat
  BY DEF IInv, Typed
<1>2. /\ Len(dx') = l + 1 /\ dx'[l + 1] = d
      /\ \A i \in 1..l : i \in 1..l + 1 /\ dx'[i] = dx[i] /\ dx[i] \in Int
      /\ l + 1 \in 1..l + 1
  BY <1>1, AppendProperties, ElementOfSeq
<1>3. /\ Abs(d) * Scale \in Nat /\ LowPassStep(d) \in Nat
      /\ \A i \in 1..l : Abs(dx[i]) * Scale \in Nat
  BY <1>1, <1>2, LowPassStepType, LowPassBetween
<1> HIDE DEF l
<1>4. CASE ~IsActive
  <2>1. lowPass' = Abs(dx'[l + 1]) * Scale
    BY <1>2, <1>4
  <2> QED BY <1>2, <1>3, <1>4, <2>1 DEF LowPassWithinOffsets
<1>5. CASE IsActive
  <2>1. lowPass' = LowPassStep(d)
    BY <1>5
  <2>2. PICK i \in 1..l, j \in 1..l :
          Abs(dx[i]) * Scale <= lowPass /\ Abs(dx[j]) * Scale >= lowPass
    BY <1>5 DEF LowPassWithinOffsets, l
  <2>3. CASE Abs(d) * Scale <= LowPassStep(d) /\ LowPassStep(d) <= lowPass
    <3>1. Abs(dx'[l + 1]) * Scale <= lowPass' /\ Abs(dx'[j]) * Scale >= lowPass'
      BY <1>1, <1>2, <1>3, <2>1, <2>2, <2>3
    <3> QED BY <1>2, <2>2, <3>1 DEF LowPassWithinOffsets
  <2>4. CASE lowPass <= LowPassStep(d) /\ LowPassStep(d) <= Abs(d) * Scale
    <3>1. Abs(dx'[i]) * Scale <= lowPass' /\ Abs(dx'[l + 1]) * Scale >= lowPass'
      BY <1>1, <1>2, <1>3, <2>1, <2>2, <2>4
    <3> QED BY <1>2, <2>2, <3>1 DEF LowPassWithinOffsets
  <2> QED BY <1>1, <2>3, <2>4, LowPassBetween
<1> QED BY <1>4, <1>5

\* The low pass is never below the slowest or above the fastest frame of the
\* sequence, so a train that moves fast enough in each frame is not cut.
THEOREM LowPassStaysWithin == Spec => []LowPassWithinOffsets
<1>1. Init => LowPassWithinOffsets
  BY DEF Init, LowPassWithinOffsets, IsActive
<1>2. IInv /\ LowPassWithinOffsets /\ [Next]_vars => LowPassWithinOffsets'
  <2> SUFFICES ASSUME IInv, LowPassWithinOffsets, [Next]_vars
               PROVE  LowPassWithinOffsets'
    OBVIOUS
  <2>1. CASE \E p \in Periods : \E d \in Found(p) : RecordFrame(p, d)
    <3>1. PICK p \in Periods, d \in Offsets : RecordFrame(p, d)
      BY <2>1 DEF Found
    <3>2. d \in Int
      BY SpeedAssumption
    <3> QED BY <3>1, <3>2, RecordedLowPass DEF RecordFrame, Record
  <2>2. CASE \E p \in Periods : \E d \in Found(p), cos \in Score : NewSequence(p, d, cos)
    <3>1. PICK p \in Periods, d \in Offsets, cos \in Score : NewSequence(p, d, cos)
      BY <2>2 DEF Found
    <3>2. d \in Int
      BY SpeedAssumption
    <3> QED BY <3>1, <3>2, RecordedLowPass DEF NewSequence, Record
  <2>3. CASE /\ Next
             /\ ~\E p \in Periods : \E d \in Found(p) : RecordFrame(p, d)
             /\ ~\E p \in Periods : \E d \in Found(p), cos \in Score : NewSequence(p, d, cos)
    <3>1. (dx' = dx /\ lowPass' = lowPass) \/ dx' = <<>>
      BY <2>3
         DEF Next, FirstFrame, EndOfStream, FastFrame, SlowFrame, DarkFrame, DarkEnd,
             SequenceEnd, StandingFrame, InconclusiveFrame, Skip, seq,
             TryStitchAndReset, ClearSequence
    <3> QED BY <3>1 DEF LowPassWithinOffsets, IsActive
  <2>4. CASE UNCHANGED vars
    BY <2>4 DEF vars, seq, LowPassWithinOffsets, IsActive
  <2> QED BY <2>1, <2>2, <2>3, <2>4
<1> QED BY <1>1, <1>2, Invariance, PTL DEF Spec
-----------------------------------------------------------------------------
(* Standstill.                                                             *)

IsPower(f, b, n) == f = [k \in 0..n |-> IF k = 0 THEN 1 ELSE b * f[k - 1]]

\* Powers are defined, and there is one of each.
LEMMA PowerIs ==
  ASSUME NEW b, NEW n \in Nat
  PROVE  \E f : /\ IsPower(f, b, n)
                /\ Power(b, n) = f[n]
                /\ \A g : IsPower(g, b, n) => g[n] = f[n]
<1> DEFINE B == {m \in 0..n : \E f : IsPower(f, b, m)}
<1>1. 0 \in B
  <2>1. IsPower([k \in 0..0 |-> 1], b, 0)
    BY DEF IsPower
  <2> QED BY <2>1
<1>2. ASSUME NEW m \in 1..n, m - 1 \in B
      PROVE  m \in B
  <2>1. PICK f : IsPower(f, b, m - 1)
    BY <1>2
  <2> DEFINE h == [k \in 0..m |-> IF k = m THEN b * f[m - 1] ELSE f[k]]
  <2>2. ASSUME NEW k \in 0..m
        PROVE  h[k] = IF k = 0 THEN 1 ELSE b * h[k - 1]
    <3>1. CASE k = m
      BY <3>1
    <3>2. CASE k # m
      <4>1. k \in 0..m - 1 /\ h[k] = f[k] /\ (k # 0 => h[k - 1] = f[k - 1])
        BY <3>2
      <4>2. f[k] = IF k = 0 THEN 1 ELSE b * f[k - 1]
        BY <2>1, <4>1 DEF IsPower
      <4> QED BY <4>1, <4>2
    <3> QED BY <3>1, <3>2
  <2>3. IsPower(h, b, m)
    BY <2>2 DEF IsPower
  <2> QED BY <2>3
<1>3. n \in B
  <2>1. \A m \in 0..n : m \in B
    <3> HIDE DEF B
    <3> QED BY <1>1, <1>2, UpTo
  <2> QED BY <2>1
<1> DEFINE p == CHOOSE f : IsPower(f, b, n)
<1>4. IsPower(p, b, n)
  BY <1>3
<1>5. Power(b, n) = p[n]
  BY DEF Power, IsPower
<1>6. ASSUME NEW g, IsPower(g, b, n)
      PROVE  g[n] = p[n]
  <2> DEFINE C == {m \in 0..n : g[m] = p[m]}
  <2> HIDE DEF p
  <2>1. \A m \in 0..n : /\ g[m] = IF m = 0 THEN 1 ELSE b * g[m - 1]
                        /\ p[m] = IF m = 0 THEN 1 ELSE b * p[m - 1]
    BY <1>4, <1>6 DEF IsPower
  <2>2. 0 \in C
    BY <2>1
  <2>3. ASSUME NEW m \in 1..n, m - 1 \in C
        PROVE  m \in C
    BY <2>1, <2>3
  <2>4. \A m \in 0..n : m \in C
    <3> HIDE DEF C
    <3> QED BY <2>2, <2>3, UpTo
  <2> QED BY <2>4
<1> QED BY <1>4, <1>5, <1>6

LEMMA PowerStep ==
  ASSUME NEW b \in Nat, NEW n \in Nat
  PROVE  Power(b, 0) = 1 /\ Power(b, n + 1) = b * Power(b, n) /\ Power(b, n) \in Nat
<1>1. Power(b, 0) = 1
  <2>1. PICK f : IsPower(f, b, 0) /\ Power(b, 0) = f[0]
    BY PowerIs
  <2> QED BY <2>1 DEF IsPower
<1>2. PICK f : IsPower(f, b, n + 1) /\ Power(b, n + 1) = f[n + 1]
  BY PowerIs
<1>3. \A k \in 0..n + 1 : f[k] = IF k = 0 THEN 1 ELSE b * f[k - 1]
  BY <1>2 DEF IsPower
<1> DEFINE g == [k \in 0..n |-> f[k]]
<1>4. IsPower(g, b, n)
  <2>1. ASSUME NEW k \in 0..n
        PROVE  g[k] = IF k = 0 THEN 1 ELSE b * g[k - 1]
    BY <1>3
  <2> QED BY <2>1 DEF IsPower
<1>5. Power(b, n) = f[n]
  <2>1. g[n] = f[n]
    OBVIOUS
  <2> HIDE DEF g
  <2> QED BY <1>4, <2>1, PowerIs
<1>6. f[n] \in Nat
  <2> DEFINE C == {m \in 0..n : f[m] \in Nat}
  <2>1. 0 \in C
    BY <1>3
  <2>2. ASSUME NEW m \in 1..n, m - 1 \in C
        PROVE  m \in C
    BY <1>3, <2>2
  <2>3. \A m \in 0..n : m \in C
    <3> HIDE DEF C
    <3> QED BY <2>1, <2>2, UpTo
  <2> QED BY <2>3
<1>7. Power(b, n + 1) = b * f[n]
  BY <1>2, <1>3
<1> QED BY <1>1, <1>5, <1>6, <1>7

\* One more frame without motion divides the low pass and the bound alike.
LEMMA Fading ==
  ASSUME NEW l \in Nat, NEW n \in Nat, NEW D \in Nat \ {0}, NEW P \in Nat, NEW Q \in Nat,
         NEW c \in Nat, l * P <= c * Q
  PROVE  ((l * n) \div D) * (D * P) <= c * (n * Q)
<1>1. PICK m \in Nat : m = l * n
  OBVIOUS
<1>2. PICK q \in Nat : q = m \div D
  OBVIOUS
<1>3. q * D <= m
  BY <1>2
<1>4. (q * D) * P <= m * P
  <2> DEFINE e == m - q * D
  <2>1. e \in Nat /\ m = q * D + e
    BY <1>3
  <2> HIDE DEF e
  <2>2. m * P = (q * D) * P + e * P /\ e * P \in Nat /\ (q * D) * P \in Nat
    BY <2>1
  <2> QED BY <2>2
<1>5. n * (l * P) <= n * (c * Q)
  <2> DEFINE e == c * Q - l * P
  <2>1. e \in Nat /\ c * Q = l * P + e
    OBVIOUS
  <2> HIDE DEF e
  <2>2. n * (c * Q) = n * (l * P) + n * e /\ n * e \in Nat /\ n * (l * P) \in Nat
    BY <2>1
  <2> QED BY <2>2
<1>6. m * P = n * (l * P) /\ (q * D) * P = q * (D * P) /\ n * (c * Q) = c * (n * Q)
  BY <1>1
<1>7. q * (D * P) <= c * (n * Q)
  <2> DEFINE x == q * (D * P)
             y == m * P
             z == c * (n * Q)
  <2>1. x \in Int /\ y \in Int /\ z \in Int /\ x <= y /\ y <= z
    BY <1>4, <1>5, <1>6
  <2> HIDE DEF x, y, z
  <2> QED BY <2>1 DEF x, y, z
<1> QED BY <1>1, <1>2, <1>7

LEMMA StrippedIs ==
  ASSUME NEW s \in Seq(Int), NEW n \in 0..Len(s), \A k \in n + 1..Len(s) : s[k] = 0,
         n > 0 => s[n] # 0
  PROVE  StrippedLen(s) = n
<1>1. PICK m : m = StrippedLen(s)
  OBVIOUS
<1>2. m \in 0..Len(s) /\ (\A k \in m + 1..Len(s) : s[k] = 0) /\ (m > 0 => s[m] # 0)
  BY <1>1, StrippedLenProperties
<1>3. Len(s) \in Nat
  OBVIOUS
<1>4. ~(m < n)
  <2> SUFFICES ASSUME m < n PROVE FALSE
    OBVIOUS
  <2>1. n \in m + 1..Len(s) /\ n > 0
    BY <1>2, <1>3
  <2> QED BY <1>2, <2>1
<1>5. ~(n < m)
  <2> SUFFICES ASSUME n < m PROVE FALSE
    OBVIOUS
  <2>1. m \in n + 1..Len(s) /\ m > 0
    BY <1>2, <1>3
  <2> QED BY <1>2, <2>1
<1> QED BY <1>1, <1>2, <1>3, <1>4, <1>5

\* The frames at the end that did not move.
Still(s) == Len(s) - StrippedLen(s)

LEMMA StillAppend ==
  ASSUME NEW s \in Seq(Int), NEW d \in Int
  PROVE  /\ Still(s) \in Nat
         /\ Still(Append(s, d)) = IF d = 0 THEN Still(s) + 1 ELSE 0
<1>1. PICK m : m = StrippedLen(s)
  OBVIOUS
<1>2. m \in 0..Len(s) /\ (\A k \in m + 1..Len(s) : s[k] = 0) /\ (m > 0 => s[m] # 0)
  BY <1>1, StrippedLenProperties
<1>3. PICK l, r : l = Len(s) /\ r = Append(s, d)
  OBVIOUS
<1>4. /\ l \in Nat /\ r \in Seq(Int) /\ Len(r) = l + 1 /\ r[l + 1] = d
      /\ \A k \in 1..l : r[k] = s[k]
  BY <1>3
<1>5. CASE d = 0
  <2>1. ASSUME NEW k \in m + 1..l + 1 PROVE r[k] = 0
    <3>1. CASE k = l + 1
      BY <1>4, <1>5, <3>1
    <3>2. CASE k # l + 1
      <4>1. k \in m + 1..l /\ k \in 1..l
        BY <1>2, <1>3, <1>4, <3>2
      <4> QED BY <1>2, <1>3, <1>4, <4>1
    <3> QED BY <3>1, <3>2
  <2>2. m \in 0..Len(r) /\ (m > 0 => r[m] # 0)
    BY <1>2, <1>3, <1>4
  <2>3. StrippedLen(r) = m
    BY <1>4, <2>1, <2>2, StrippedIs
  <2> QED BY <1>1, <1>2, <1>3, <1>4, <1>5, <2>3 DEF Still
<1>6. CASE d # 0
  <2>1. StrippedLen(r) = l + 1
    BY <1>4, <1>6, StrippedIs
  <2> QED BY <1>1, <1>2, <1>3, <1>4, <1>6, <2>1 DEF Still
<1> QED BY <1>5, <1>6

\* The low pass is one pixel or more, and what is left of an offset.
Standing ==
  IsActive =>
    /\ lowPass >= Scale
    /\ \E k \in 1..Len(dx) :
         lowPass * Power(LowPassDen, Still(dx))
           <= (Abs(dx[k]) * Scale) * Power(LowPassNum, Still(dx))

LEMMA StandingSuffices ==
  ASSUME IInv, Standing
  PROVE  StandstillBounded
<1> SUFFICES ASSUME IsActive
             PROVE  \E k \in 1..Len(dx) : Abs(dx[k]) * Power(LowPassNum, Still(dx))
                                            >= Power(LowPassDen, Still(dx))
  BY DEF StandstillBounded, Still
<1>1. PICK k \in 1..Len(dx) :
        lowPass * Power(LowPassDen, Still(dx))
          <= (Abs(dx[k]) * Scale) * Power(LowPassNum, Still(dx))
  BY DEF Standing
<1>2. PICK l, b, p, q : /\ l = lowPass /\ b = Abs(dx[k])
                        /\ p = Power(LowPassDen, Still(dx)) /\ q = Power(LowPassNum, Still(dx))
  OBVIOUS
<1>3. l \in Nat /\ b \in Nat /\ p \in Nat /\ q \in Nat /\ l >= Scale /\ Scale \in Nat \ {0}
  <2>1. dx \in Seq(Int) /\ lowPass \in Nat
    BY DEF IInv, Typed
  <2>2. Still(dx) \in Nat
    BY <2>1, StillAppend
  <2>3. dx[k] \in Int
    BY <2>1, ElementOfSeq
  <2>4. LowPassNum \in Nat /\ LowPassDen \in Nat /\ Scale \in Nat \ {0}
    BY LowPassAssumption
  <2>5. p \in Nat /\ q \in Nat
    BY <1>2, <2>2, <2>4, PowerStep
  <2> QED BY <1>2, <2>1, <2>3, <2>4, <2>5, AbsType DEF Standing
<1>4. l * p <= (b * Scale) * q
  BY <1>1, <1>2
<1>5. b * q >= p
  <2> SUFFICES ASSUME b * q < p PROVE FALSE
    BY <1>3
  <2>1. PICK x \in Nat : x = b * q
    BY <1>3
  <2>2. (b * Scale) * q = Scale * x
    BY <1>3, <2>1
  <2>3. PICK e \in Nat : p = x + 1 + e
    <3>1. p - x - 1 \in Nat /\ p = x + 1 + (p - x - 1)
      BY <1>3, <2>1
    <3> QED BY <3>1
  <2>4. PICK f \in Nat : l = Scale + f
    <3>1. l - Scale \in Nat /\ l = Scale + (l - Scale)
      BY <1>3
    <3> QED BY <3>1
  <2>5. l * p = Scale * x + Scale + Scale * e + f * p
    BY <1>3, <2>3, <2>4
  <2>6. Scale * e \in Nat /\ f * p \in Nat /\ Scale * x \in Nat
    BY <1>3
  <2> QED BY <1>3, <1>4, <2>2, <2>5, <2>6
<1> QED BY <1>2, <1>5

LEMMA RecordedStanding ==
  ASSUME IInv, IInv', LowPassWithinOffsets', Standing, NEW d \in Int, dx' = Append(dx, d),
         lowPass' >= Scale, lowPass' = IF IsActive THEN LowPassStep(d) ELSE Abs(d) * Scale,
         IsActive \/ d # 0
  PROVE  Standing'
<1> DEFINE l == Len(dx)
<1>1. dx \in Seq(Int) /\ l \in Nat /\ lowPass \in Nat /\ lowPass' \in Nat
  BY DEF IInv, Typed
<1>2. /\ Len(dx') = l + 1 /\ dx'[l + 1] = d
      /\ \A i \in 1..l : i \in 1..l + 1 /\ dx'[i] = dx[i] /\ dx[i] \in Int
      /\ l + 1 \in 1..l + 1
  BY <1>1, AppendProperties, ElementOfSeq
<1>3. Still(dx) \in Nat /\ Still(dx)' = IF d = 0 THEN Still(dx) + 1 ELSE 0
  BY <1>1, StillAppend DEF Still
<1>4. LowPassNum \in Nat /\ LowPassDen \in Nat \ {0} /\ Scale \in Nat \ {0}
  BY LowPassAssumption
<1>5. CASE d # 0
  <2>1. Still(dx)' = 0 /\ Power(LowPassDen, 0) = 1 /\ Power(LowPassNum, 0) = 1
    BY <1>3, <1>4, <1>5, PowerStep
  <2>2. PICK k \in 1..l + 1 : Abs(dx'[k]) * Scale >= lowPass'
    BY <1>2 DEF LowPassWithinOffsets, IsActive
  <2>3. dx'[k] \in Int
    BY <1>2, <2>2
  <2>4. Abs(dx'[k]) * Scale \in Nat
    <3>1. PICK b \in Nat : b = Abs(dx'[k])
      BY <2>3, AbsType
    <3>2. b * Scale \in Nat
      BY <1>4
    <3> QED BY <3>1, <3>2
  <2>5. lowPass' * 1 <= (Abs(dx'[k]) * Scale) * 1
    BY <1>1, <2>2, <2>4
  <2> QED BY <1>2, <2>1, <2>5 DEF Standing, Still
<1>6. CASE d = 0
  <2>1. IsActive /\ lowPass' = LowPassStep(d)
    BY <1>6
  <2>2. PICK k \in 1..l : lowPass * Power(LowPassDen, Still(dx))
                            <= (Abs(dx[k]) * Scale) * Power(LowPassNum, Still(dx))
    BY <2>1 DEF Standing
  <2>3. PICK n, p, q, c : /\ n = Still(dx) /\ c = Abs(dx[k]) * Scale
                          /\ p = Power(LowPassDen, n) /\ q = Power(LowPassNum, n)
    OBVIOUS
  <2>4. n \in Nat /\ c \in Nat /\ p \in Nat /\ q \in Nat
    <3>1. dx[k] \in Int
      BY <1>2
    <3>2. PICK b \in Nat : b = Abs(dx[k])
      BY <3>1, AbsType
    <3>3. b * Scale \in Nat
      BY <1>4
    <3>4. p \in Nat /\ q \in Nat
      BY <1>3, <1>4, <2>3, PowerStep
    <3> QED BY <1>3, <2>3, <3>2, <3>3, <3>4
  <2>5. lowPass' = (lowPass * LowPassNum) \div LowPassDen
    <3>1. Abs(d) * Scale * (LowPassDen - LowPassNum) = 0
      BY <1>4, <1>6 DEF Abs
    <3>2. lowPass * LowPassNum + 0 = lowPass * LowPassNum
      BY <1>1, <1>4
    <3> QED BY <2>1, <3>1, <3>2 DEF LowPassStep
  <2>6. lowPass' * (LowPassDen * p) <= c * (LowPassNum * q)
    BY <1>1, <1>4, <2>2, <2>3, <2>4, <2>5, Fading
  <2>7. Still(dx)' = n + 1 /\ Power(LowPassDen, n + 1) = LowPassDen * p
        /\ Power(LowPassNum, n + 1) = LowPassNum * q
    BY <1>3, <1>4, <1>6, <2>3, <2>4, PowerStep
  <2>8. c = Abs(dx'[k]) * Scale /\ k \in 1..Len(dx')
    BY <1>2, <2>3
  <2> QED BY <2>6, <2>7, <2>8 DEF Standing, Still
<1> QED BY <1>5, <1>6

\* A train that has stopped or left does not keep its sequence open, for every
\* low-pass factor: the low pass decays, and is below one pixel in the end.
THEOREM StandstillEnds == Spec => []StandstillBounded
<1>1. Init => Standing
  BY DEF Init, Standing, IsActive
<1>2. /\ IInv /\ IInv' /\ LowPassWithinOffsets' /\ Standing /\ [Next]_vars
      => Standing'
  <2> SUFFICES ASSUME IInv, IInv', LowPassWithinOffsets', Standing, [Next]_vars
               PROVE  Standing'
    OBVIOUS
  <2>0. \A p \in Periods : MinPxPerFrame(p) \in Nat \ {0} /\ MinPxPerFrame(p) * Scale >= Scale
    <3> SUFFICES ASSUME NEW p \in Periods
                 PROVE  MinPxPerFrame(p) \in Nat \ {0} /\ MinPxPerFrame(p) * Scale >= Scale
      OBVIOUS
    <3>1. MinPxPerFrame(p) \in Nat \ {0}
      BY PxPerFrameType, TimeAssumption
    <3>2. PICK m \in Nat : MinPxPerFrame(p) = m + 1
      <4>1. MinPxPerFrame(p) - 1 \in Nat /\ MinPxPerFrame(p) = (MinPxPerFrame(p) - 1) + 1
        BY <3>1
      <4> QED BY <4>1
    <3>3. (m + 1) * Scale = m * Scale + Scale /\ m * Scale \in Nat /\ Scale \in Nat
      BY LowPassAssumption
    <3> QED BY <3>1, <3>2, <3>3
  <2>1. CASE \E p \in Periods : \E d \in Found(p) : RecordFrame(p, d)
    <3>1. PICK p \in Periods, d \in Offsets : RecordFrame(p, d)
      BY <2>1 DEF Found
    <3>2. d \in Int /\ lowPass \in Nat
      BY SpeedAssumption DEF IInv, Typed
    <3>3. lowPass' = LowPassStep(d) /\ IsActive /\ dx' = Append(dx, d)
      BY <3>1 DEF RecordFrame, Record
    <3>4. lowPass' >= Scale
      <4>1. ~(lowPass' < MinPxPerFrame(p) * Scale)
        BY <3>1, <3>3 DEF RecordFrame, TooSlow
      <4>2. lowPass' \in Nat /\ MinPxPerFrame(p) * Scale \in Nat /\ Scale \in Nat
        <5>1. LowPassStep(d) \in Nat /\ Scale \in Nat
          BY <3>2, LowPassStepType, LowPassAssumption
        <5>2. PICK m \in Nat : m = MinPxPerFrame(p)
          BY <2>0
        <5>3. m * Scale \in Nat
          BY <5>1
        <5> QED BY <3>3, <5>1, <5>2, <5>3
      <4> QED BY <2>0, <4>1, <4>2
    <3> QED BY <3>2, <3>3, <3>4, RecordedStanding
  <2>2. CASE \E p \in Periods : \E d \in Found(p), cos \in Score : NewSequence(p, d, cos)
    <3>1. PICK p \in Periods, d \in Offsets, cos \in Score : NewSequence(p, d, cos)
      BY <2>2 DEF Found
    <3>2. d \in Int
      BY SpeedAssumption
    <3>3. lowPass' = Abs(d) * Scale /\ ~IsActive /\ dx' = Append(dx, d)
      BY <3>1 DEF NewSequence, Record
    <3>4. Abs(d) >= MinPxPerFrame(p)
      BY <3>1 DEF NewSequence, StartsSequence
    <3>5. d # 0 /\ Abs(d) \in Nat \ {0}
      BY <2>0, <3>2, <3>4, AbsType
    <3>6. lowPass' >= Scale
      <4>1. PICK m \in Nat : Abs(d) = m + 1
        <5>1. Abs(d) - 1 \in Nat /\ Abs(d) = (Abs(d) - 1) + 1
          BY <3>5
        <5> QED BY <5>1
      <4>2. (m + 1) * Scale = m * Scale + Scale /\ m * Scale \in Nat /\ Scale \in Nat
        BY LowPassAssumption
      <4> QED BY <3>3, <4>1, <4>2
    <3> QED BY <3>2, <3>3, <3>5, <3>6, RecordedStanding
  <2>3. CASE /\ Next
             /\ ~\E p \in Periods : \E d \in Found(p) : RecordFrame(p, d)
             /\ ~\E p \in Periods : \E d \in Found(p), cos \in Score : NewSequence(p, d, cos)
    <3>1. (dx' = dx /\ lowPass' = lowPass) \/ dx' = <<>>
      BY <2>3
         DEF Next, FirstFrame, EndOfStream, FastFrame, SlowFrame, DarkFrame, DarkEnd,
             SequenceEnd, StandingFrame, InconclusiveFrame, Skip, seq,
             TryStitchAndReset, ClearSequence
    <3>2. CASE dx' = dx /\ lowPass' = lowPass
      BY <3>2 DEF Standing, IsActive, Still
    <3>3. CASE dx' = <<>>
      BY <3>3 DEF Standing, IsActive
    <3> QED BY <3>1, <3>2, <3>3
  <2>4. CASE UNCHANGED vars
    BY <2>4 DEF vars, seq, Standing, IsActive, Still
  <2> QED BY <2>1, <2>2, <2>3, <2>4
<1>3. Spec => []Standing
  BY <1>1, <1>2, Invariance, LowPassStaysWithin, PTL DEF Spec
<1> QED BY <1>3, Invariance, StandingSuffices, PTL

-----------------------------------------------------------------------------
(* The inductive invariant.                                                *)

\* A row remembers the first best of the cells it has compared.
RowScanned ==
  \A y \in Rows :
    /\ col[y] = 0 => best[y].cos = -1
    /\ col[y] > 0 =>
         /\ best[y].cos = score[y][best[y].x]
         /\ best[y].x < col[y]
         /\ \A c \in Cols : c < col[y] =>
              \/ best[y].cos > score[y][c]
              \/ best[y].cos = score[y][c] /\ best[y].x <= c

\* What is in the pool was found in the area.
PoolFound == \A a \in pool : a.cos = score[a.y][a.x]

\* Something in the pool is as good as any cell of a finished row.
PoolCovers ==
  \A y \in Rows : col[y] = SearchWidth + 1 =>
    \E a \in pool : \A c \in Cols : Dominates(a, y, c)

SearchInv == SearchTyped /\ RowScanned /\ PoolFound /\ PoolCovers

-----------------------------------------------------------------------------
(* The area and the reduction.                                             *)

LEMMA Sizes ==
  /\ SearchWidth \in Nat \ {0} /\ Height \in Nat \ {0}
  /\ Rows \subseteq Nat /\ Cols \subseteq Nat /\ Scores \subseteq Nat
  /\ 0 \in Rows /\ 0 \in Cols
  /\ \A c \in Nat : c \in Cols <=> c < SearchWidth
  BY SearchAssumption DEF SearchWidth, Rows, Cols

\* The better of two results dominates what either of them dominates.
LEMMA ReduceDominates ==
  ASSUME NEW a \in Candidates, NEW b \in Candidates,
         NEW y \in Rows, NEW c \in Cols, score[y][c] \in Nat,
         Dominates(a, y, c) \/ Dominates(b, y, c)
  PROVE  Dominates(Reduce(a, b), y, c)
<1>1. /\ a.y \in Nat /\ a.x \in Nat /\ a.cos \in Nat
      /\ b.y \in Nat /\ b.x \in Nat /\ b.cos \in Nat
      /\ y \in Nat /\ c \in Nat
  BY Sizes DEF Candidates
<1> DEFINE cell == Candidate(y, c, 0)
<1>2. cell.y = y /\ cell.x = c
  BY DEF Candidate
<1> HIDE DEF cell
<1>3. /\ Dominates(a, y, c) <=> \/ a.cos > score[y][c]
                                \/ a.cos = score[y][c] /\ ~Precedes(cell, a)
      /\ Dominates(b, y, c) <=> \/ b.cos > score[y][c]
                                \/ b.cos = score[y][c] /\ ~Precedes(cell, b)
  BY DEF Dominates, cell
<1>4. CASE Reduce(a, b) = a
  <2>1. (~(b.cos > a.cos) /\ (b.cos = a.cos => ~Precedes(b, a))) \/ a = b
    BY <1>4 DEF Reduce
  <2> QED
    BY <1>1, <1>2, <1>3, <1>4, <2>1 DEF Precedes
<1>5. CASE Reduce(a, b) = b
  <2>1. b.cos > a.cos \/ (b.cos = a.cos /\ Precedes(b, a)) \/ a = b
    BY <1>5 DEF Reduce
  <2> QED
    BY <1>1, <1>2, <1>3, <1>5, <2>1 DEF Precedes
<1> QED
  BY <1>4, <1>5 DEF Reduce

-----------------------------------------------------------------------------
(* The steps.                                                              *)

LEMMA SearchInitInv == SearchInit => SearchInv
<1> SUFFICES ASSUME SearchInit PROVE SearchInv
  OBVIOUS
<1>1. /\ score \in [Rows -> [Cols -> Scores]] /\ col = [y \in Rows |-> 0]
      /\ best = [y \in Rows |-> [x |-> 0, cos |-> -1]] /\ pool = {}
  BY DEF SearchInit
<1>2. SearchTyped
  BY <1>1, Sizes DEF SearchTyped
<1>3. \A y \in Rows : col[y] = 0 /\ SearchWidth + 1 # 0
  BY <1>1, Sizes
<1> QED
  BY <1>1, <1>2, <1>3 DEF SearchInv, RowScanned, PoolFound, PoolCovers

LEMMA CompareKeeps ==
  ASSUME SearchInv, NEW r \in Rows, Compare(r)
  PROVE  SearchInv'
<1> DEFINE k == col[r]
           cos == score[r][k]
           old == best[r]
           new == IF Improves(cos, old) THEN [x |-> k, cos |-> cos] ELSE old
<1>1. /\ score' = score /\ pool' = pool /\ k < SearchWidth
      /\ col' = [col EXCEPT ![r] = @ + 1]
      /\ best' = [best EXCEPT ![r] = new]
  BY DEF Compare
<1>2. /\ score \in [Rows -> [Cols -> Scores]] /\ col \in [Rows -> 0..SearchWidth + 1]
      /\ best \in [Rows -> [x : Cols, cos : Scores \union {-1}]]
      /\ pool \subseteq Candidates
  BY DEF SearchInv, SearchTyped
<1>3. k \in Nat /\ k \in Cols /\ cos \in Scores /\ cos \in Nat /\ k + 1 \in 0..SearchWidth + 1
  <2>1. k \in 0..SearchWidth + 1
    BY <1>2
  <2>2. k \in Nat /\ k + 1 \in 0..SearchWidth + 1
    BY <1>1, <2>1, Sizes
  <2>3. k \in Cols
    BY <1>1, <2>2, Sizes
  <2>4. score[r] \in [Cols -> Scores]
    BY <1>2
  <2>5. cos \in Scores
    BY <2>3, <2>4
  <2> QED
    BY <2>2, <2>3, <2>5, Sizes
<1>4. old \in [x : Cols, cos : Scores \union {-1}] /\ old.cos \in Int /\ old.x \in Nat
  <2>1. old \in [x : Cols, cos : Scores \union {-1}]
    BY <1>2
  <2>2. old.x \in Cols /\ (old.cos \in Scores \/ old.cos = -1)
    BY <2>1
  <2>3. old.x \in Nat
    BY <2>2, Sizes
  <2>4. old.cos \in Int
    <3>1. ASSUME NEW s \in Scores PROVE s \in Int
      BY Sizes
    <3>2. -1 \in Int
      OBVIOUS
    <3> QED
      BY <2>2, <3>1, <3>2
  <2> QED
    BY <2>1, <2>3, <2>4
<1>5. new \in [x : Cols, cos : Scores \union {-1}] /\ new.cos \in Int /\ new.x \in Nat
  BY <1>3, <1>4, Sizes
<1>6. SearchTyped'
  BY <1>1, <1>2, <1>3, <1>5 DEF SearchTyped
<1>7. /\ col'[r] = k + 1 /\ best'[r] = new
      /\ \A y \in Rows : y # r => col'[y] = col[y] /\ best'[y] = best[y]
  BY <1>1, <1>2
<1>8. /\ new.cos = score[r][new.x] /\ new.x < k + 1
      /\ \A c \in Cols : c < k + 1 =>
           \/ new.cos > score[r][c]
           \/ new.cos = score[r][c] /\ new.x <= c
  <2>0. k = 0 => old.cos = -1
    BY DEF SearchInv, RowScanned
  <2>1. k > 0 =>
          /\ old.cos = score[r][old.x] /\ old.x < k
          /\ \A c \in Cols : c < k => \/ old.cos > score[r][c]
                                      \/ old.cos = score[r][c] /\ old.x <= c
    BY DEF SearchInv, RowScanned
  <2>2. \A c \in Cols : c \in Nat /\ score[r][c] \in Nat
    BY <1>2, Sizes
  <2>4. CASE Improves(cos, old)
    <3>1. new.x = k /\ new.cos = cos /\ cos > old.cos
      BY <2>4 DEF Improves
    <3>2. ASSUME NEW c \in Cols, c < k + 1
          PROVE  new.cos > score[r][c] \/ (new.cos = score[r][c] /\ new.x <= c)
      <4>1. CASE c = k
        BY <1>3, <3>1, <4>1
      <4>2. CASE c < k
        <5>1. old.cos >= score[r][c]
          BY <1>3, <1>4, <2>1, <2>2, <3>2, <4>2
        <5> QED
          BY <1>3, <1>4, <2>2, <3>1, <5>1
      <4> QED
        BY <1>3, <2>2, <3>2, <4>1, <4>2
    <3> QED
      BY <1>3, <3>1, <3>2
  <2>5. CASE ~Improves(cos, old)
    <3>1. new = old /\ old.cos >= cos /\ k > 0
      BY <1>3, <1>4, <2>0, <2>5 DEF Improves
    <3>2. ASSUME NEW c \in Cols, c < k + 1
          PROVE  old.cos > score[r][c] \/ (old.cos = score[r][c] /\ old.x <= c)
      <4>1. CASE c = k
        BY <1>3, <1>4, <2>1, <3>1, <4>1
      <4>2. CASE c < k
        BY <2>1, <3>1, <3>2, <4>2
      <4> QED
        BY <1>3, <2>2, <3>2, <4>1, <4>2
    <3> QED
      BY <1>3, <1>4, <2>1, <3>1, <3>2
  <2> QED
    BY <2>4, <2>5
<1> HIDE DEF new, old, cos
<1>9. RowScanned'
  <2> SUFFICES ASSUME NEW y \in Rows
               PROVE  /\ col'[y] = 0 => best'[y].cos = -1
                      /\ col'[y] > 0 =>
                           /\ best'[y].cos = score[y][best'[y].x]
                           /\ best'[y].x < col'[y]
                           /\ \A c \in Cols : c < col'[y] =>
                                \/ best'[y].cos > score[y][c]
                                \/ best'[y].cos = score[y][c] /\ best'[y].x <= c
    BY <1>1 DEF RowScanned
  <2>1. CASE y = r
    <3>1. k + 1 # 0
      BY <1>3
    <3> HIDE DEF k
    <3> QED
      BY <1>7, <1>8, <2>1, <3>1
  <2>2. CASE y # r
    BY <1>7, <2>2 DEF SearchInv, RowScanned
  <2> QED
    BY <2>1, <2>2
<1>10. PoolFound' /\ PoolCovers'
  <2>1. \A y \in Rows : col'[y] = SearchWidth + 1 => col[y] = SearchWidth + 1
    BY <1>1, <1>3, <1>7, Sizes
  <2> QED
    BY <1>1, <2>1 DEF SearchInv, PoolFound, PoolCovers, Dominates
<1> QED
  BY <1>6, <1>9, <1>10 DEF SearchInv

LEMMA FinishKeeps ==
  ASSUME SearchInv, NEW r \in Rows, Finish(r)
  PROVE  SearchInv'
<1> DEFINE a == Candidate(r, best[r].x, best[r].cos)
<1>1. /\ score' = score /\ best' = best /\ col[r] = SearchWidth
      /\ pool' = pool \union {a} /\ col' = [col EXCEPT ![r] = SearchWidth + 1]
  BY DEF Finish
<1>2. /\ score \in [Rows -> [Cols -> Scores]] /\ col \in [Rows -> 0..SearchWidth + 1]
      /\ best \in [Rows -> [x : Cols, cos : Scores \union {-1}]]
      /\ pool \subseteq Candidates
  BY DEF SearchInv, SearchTyped
<1>3. /\ a.y = r /\ a.x = best[r].x /\ a.cos = best[r].cos
      /\ a.x \in Cols
  BY <1>2 DEF Candidate
<1>4. SearchWidth > 0 /\ SearchWidth \in Nat
  BY Sizes
<1>5. /\ a.cos = score[r][a.x]
      /\ \A c \in Cols : \/ a.cos > score[r][c]
                         \/ a.cos = score[r][c] /\ a.x <= c
  BY <1>1, <1>3, <1>4, Sizes DEF SearchInv, RowScanned
<1>6. a \in Candidates
  <2>1. score[r] \in [Cols -> Scores]
    BY <1>2
  <2>2. a.cos \in Scores
    BY <1>3, <1>5, <2>1
  <2> QED
    BY <1>3, <2>2 DEF Candidate, Candidates
<1>7. \A c \in Cols : Dominates(a, r, c)
  <2> SUFFICES ASSUME NEW c \in Cols PROVE Dominates(a, r, c)
    OBVIOUS
  <2>1. /\ Candidate(r, c, 0).y = r /\ Candidate(r, c, 0).x = c
        /\ c \in Nat /\ a.x \in Nat /\ r \in Nat
    BY <1>3, Sizes DEF Candidate
  <2>2. a.x <= c => ~Precedes(Candidate(r, c, 0), a)
    BY <1>3, <2>1 DEF Precedes
  <2> QED
    BY <1>5, <2>2 DEF Dominates
<1> HIDE DEF a
<1>8. /\ col'[r] = SearchWidth + 1
      /\ \A y \in Rows : y # r => col'[y] = col[y]
  BY <1>1, <1>2
<1>9. SearchTyped'
  <2>1. SearchWidth + 1 \in 0..SearchWidth + 1
    BY <1>4
  <2> QED
    BY <1>1, <1>2, <1>6, <2>1 DEF SearchTyped
<1>10. RowScanned'
  <2> SUFFICES ASSUME NEW y \in Rows
               PROVE  /\ col'[y] = 0 => best[y].cos = -1
                      /\ col'[y] > 0 =>
                           /\ best[y].cos = score[y][best[y].x]
                           /\ best[y].x < col'[y]
                           /\ \A c \in Cols : c < col'[y] =>
                                \/ best[y].cos > score[y][c]
                                \/ best[y].cos = score[y][c] /\ best[y].x <= c
    BY <1>1 DEF RowScanned
  <2>1. CASE y = r
    <3>1. best[r].x < SearchWidth /\ best[r].x \in Nat
      BY <1>2, Sizes
    <3>2. best[r].x < SearchWidth + 1 /\ SearchWidth + 1 # 0
      BY <1>4, <3>1
    <3> QED
      BY <1>3, <1>5, <1>8, <2>1, <3>2
  <2>2. CASE y # r
    BY <1>8, <2>2 DEF SearchInv, RowScanned
  <2> QED
    BY <2>1, <2>2
<1>11. PoolFound'
  BY <1>1, <1>3, <1>5 DEF SearchInv, PoolFound
<1>12. PoolCovers'
  <2> SUFFICES ASSUME NEW y \in Rows, col'[y] = SearchWidth + 1
               PROVE  \E e \in pool' : \A c \in Cols : Dominates(e, y, c)'
    BY DEF PoolCovers
  <2>1. CASE y = r
    BY <1>1, <1>7, <2>1 DEF Dominates
  <2>2. CASE y # r
    BY <1>1, <1>8, <2>2 DEF SearchInv, PoolCovers, Dominates
  <2> QED
    BY <2>1, <2>2
<1> QED
  BY <1>9, <1>10, <1>11, <1>12 DEF SearchInv

LEMMA CombineKeeps ==
  ASSUME SearchInv, Combine
  PROVE  SearchInv'
<1>1. PICK a \in pool, b \in pool :
        /\ pool' = (pool \ {a, b}) \union {Reduce(a, b)}
        /\ score' = score /\ col' = col /\ best' = best
  BY DEF Combine
<1>2. Reduce(a, b) \in {a, b}
  BY DEF Reduce
<1>3. pool' \subseteq pool
  BY <1>1, <1>2
<1>4. SearchTyped' /\ RowScanned' /\ PoolFound'
  BY <1>1, <1>3 DEF SearchInv, SearchTyped, RowScanned, PoolFound
<1>5. PoolCovers'
  <2> SUFFICES ASSUME NEW y \in Rows, col[y] = SearchWidth + 1
               PROVE  \E e \in pool' : \A c \in Cols : Dominates(e, y, c)
    BY <1>1 DEF PoolCovers, Dominates
  <2>1. PICK e \in pool : \A c \in Cols : Dominates(e, y, c)
    BY DEF SearchInv, PoolCovers
  <2>2. CASE e \in {a, b}
    <3>1. a \in Candidates /\ b \in Candidates
      BY DEF SearchInv, SearchTyped
    <3>2. \A c \in Cols : score[y][c] \in Nat
      BY Sizes DEF SearchInv, SearchTyped
    <3>3. \A c \in Cols : Dominates(Reduce(a, b), y, c)
      BY <2>1, <2>2, <3>1, <3>2, ReduceDominates
    <3> QED
      BY <1>1, <3>3
  <2>3. CASE e \notin {a, b}
    BY <1>1, <2>1, <2>3
  <2> QED
    BY <2>2, <2>3
<1> QED
  BY <1>4, <1>5 DEF SearchInv

LEMMA SearchNextInv == SearchInv /\ [SearchNext]_searchVars => SearchInv'
<1> SUFFICES ASSUME SearchInv, [SearchNext]_searchVars PROVE SearchInv'
  OBVIOUS
<1>1. CASE UNCHANGED searchVars
  BY <1>1
  DEF searchVars, SearchInv, SearchTyped, RowScanned, PoolFound, PoolCovers, Dominates
<1> QED
  BY <1>1, CompareKeeps, FinishKeeps, CombineKeeps DEF SearchNext

LEMMA SearchInvariance == SearchSpec => []SearchInv
<1> QED
  BY SearchInitInv, SearchNextInv, PTL DEF SearchSpec

-----------------------------------------------------------------------------
(* The results.                                                            *)

\* search_rgba returns what a serial scan would: the best cell and, of equal
\* ones, the first, in whatever order the workers compare, finish and reduce,
\* for areas of any size.
THEOREM ParallelIsSerial == SearchSpec => []SameAsSerialScan
<1>1. ASSUME SearchInv, Finished PROVE SameAsSerialScan
  <2>1. \A y \in Rows : \E e \in pool : \A c \in Cols : Dominates(e, y, c)
    BY <1>1 DEF SearchInv, PoolCovers, Finished
  <2>2. PICK a \in pool : TRUE
    BY <2>1, Sizes
  <2>3. \A e \in pool : e = a
    BY <1>1, <2>2 DEF Finished
  <2>4. \A y \in Rows, c \in Cols : Dominates(a, y, c)
    BY <2>1, <2>3
  <2>5. a.cos = score[a.y][a.x]
    BY <1>1, <2>2 DEF SearchInv, PoolFound
  <2> QED
    BY <2>2, <2>4, <2>5 DEF SameAsSerialScan
<1>2. SearchInv => SameAsSerialScan
  BY <1>1 DEF SameAsSerialScan
<1> QED
  BY <1>2, SearchInvariance, PTL

\* Columns are the offsets in both directions.
LEMMA OffsetsCovered ==
  /\ \A c \in Cols : Offset(c) \in -MaxDx..MaxDx
  /\ {Offset(c) : c \in Cols} = -MaxDx..MaxDx
<1>1. XZero = MaxDx
  <2>1. FrameWidth - MaxDx = (FrameWidth - 3 * MaxDx) + 2 * MaxDx
    BY SearchAssumption
  <2>2. \A n \in Nat, m \in Nat : (n + 2 * m) \div 2 = (n \div 2) + m
    OBVIOUS
  <2>3. FrameWidth - 3 * MaxDx \in Nat /\ MaxDx \in Nat
    BY SearchAssumption
  <2>4. SliceX = SubX + MaxDx
    BY <2>1, <2>2, <2>3 DEF SliceX, SubX
  <2>5. SubX \in Int
    BY <2>3 DEF SubX
  <2> QED
    BY <2>3, <2>4, <2>5 DEF XZero
<1>2. SearchWidth = 2 * MaxDx + 1 /\ MaxDx \in Nat
  BY SearchAssumption DEF SearchWidth
<1>3. \A c \in Cols : Offset(c) \in -MaxDx..MaxDx
  BY <1>1, <1>2 DEF Offset, Cols
<1>4. \A o \in -MaxDx..MaxDx : o + MaxDx \in Cols /\ Offset(o + MaxDx) = o
  BY <1>1, <1>2 DEF Offset, Cols
<1>5. {Offset(c) : c \in Cols} = -MaxDx..MaxDx
  BY <1>3, <1>4
<1> QED BY <1>3, <1>5

\* The two integer divisions of find_offset cancel out: the offsets it can
\* report are exactly -max_dx to max_dx, for every frame width.
THEOREM OffsetsAreSymmetric == SearchSpec => []OffsetInRange
<1>1. SearchInv => OffsetInRange
  BY OffsetsCovered DEF SearchInv, SearchTyped, Candidates, OffsetInRange
<1> QED BY <1>1, SearchInvariance, PTL

\* What the search may report for a frame is what the detector of module
\* AutoStitcher expects, when it searches as far as a train can have moved:
\* no offset is missing, and none is out of range.
THEOREM SearchFindsOffsets ==
  ASSUME NEW p \in Nat, MaxDx = MaxPxPerFrame(p), Offsets = Int
  PROVE  Found(p) = {Offset(c) : c \in Cols}
<1>1. {Offset(c) : c \in Cols} = -MaxDx..MaxDx
  BY OffsetsCovered
<1>2. MaxDx \in Nat
  BY SearchAssumption
<1>3. ASSUME NEW d \in Int PROVE Abs(d) <= MaxDx <=> d \in -MaxDx..MaxDx
  BY <1>2 DEF Abs
<1> QED BY <1>1, <1>2, <1>3 DEF Found
=============================================================================
