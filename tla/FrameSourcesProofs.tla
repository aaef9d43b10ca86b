------------------------- MODULE FrameSourcesProofs -------------------------
(***************************************************************************)
(* Proofs about FrameSources, for every stream, response and recording,    *)
(* and every way in which they arrive.                                     *)
(***************************************************************************)
EXTENDS FrameSources, SequenceTheorems, FiniteSetTheorems, NaturalsInduction,
        WellFoundedInduction, TLAPS

-----------------------------------------------------------------------------
(* Raw frames.                                                             *)

Frame == [content : [1..FrameBytes -> Nat], stamp : Int]

RawTyped ==
  /\ recording \in Recordings
  /\ reader \in {"closed", "unopened", "read", "returned", "none", "error", "panicked"}
  /\ taken \in Nat /\ total \in 0..FrameBytes
  /\ frame_buf \in [1..FrameBytes -> Nat]
  /\ frames \in Seq(Frame) /\ frame_pts \in Seq(Int)

\* The frames before the one in the buffer.
Before == IF reader = "returned" THEN Len(frames) - 1 ELSE Len(frames)

\* The buffer holds the bytes that follow those frames.
Filled ==
  /\ taken = Before * FrameBytes + total
  /\ \A k \in 1..total : frame_buf[k] = Before * FrameBytes + k
  /\ reader = "returned" => total = FrameBytes /\ frames # <<>>

\* The frames of a file have got the first stamps of ffprobe, and at an end in
\* good order all of them.
Stamped ==
  /\ reader \in {"closed", "unopened"} => frames = <<>>
  /\ recording.file =>
       /\ reader \notin {"closed", "unopened"} =>
            /\ frame_pts = recording.stamps
            /\ recording.videos = 1 /\ recording.described
       /\ Len(frames) <= Len(frame_pts)
       /\ \A k \in 1..Len(frames) : frames[k].stamp = frame_pts[k]
  /\ reader = "none" =>
       recording.file /\ total = 0 /\ taken = Available /\ AllStamped

RawInv == RawTyped /\ Filled /\ FramesAligned /\ Stamped

LEMMA RawFacts ==
  ASSUME NEW r \in Recordings
  PROVE  /\ FrameBytes \in Nat /\ FrameBytes > 0
         /\ r.whole \in Nat /\ r.rest \in Nat /\ r.rest < FrameBytes
         /\ r.stamps \in Seq(Int) /\ r.video \in Seq(Int) /\ r.file \in BOOLEAN
         /\ r.whole * FrameBytes + r.rest \in Nat
<1>1. /\ FrameBytes \in Nat /\ FrameBytes > 0
      /\ r.whole \in Nat /\ r.rest \in Nat /\ r.rest < FrameBytes
      /\ r.stamps \in Seq(Int) /\ r.video \in Seq(Int) /\ r.file \in BOOLEAN
  BY RawFramesAssumption
<1>2. r.whole * FrameBytes \in Nat
  BY <1>1
<1> QED BY <1>1, <1>2

\* The steps that deliver no frame and read no byte.
LEMMA OpenKeeps ==
  ASSUME RawInv, OpenRaw \/ OpenRawFails
  PROVE  RawInv'
<1>1. recording' = recording /\ taken' = taken /\ total' = total
      /\ frame_buf' = frame_buf /\ frames' = frames
      /\ reader = "closed" /\ reader' \in {"read", "unopened"}
  BY DEF OpenRaw, OpenRawFails, Stops
<1>2. frame_pts' \in Seq(Int)
  BY RawFacts DEF OpenRaw, OpenRawFails, Stops, RawInv, RawTyped
<1>3. RawTyped' /\ Filled' /\ FramesAligned'
  BY <1>1, <1>2 DEF RawInv, RawTyped, Filled, Before, FramesAligned
<1>4. Stamped'
  <2>1. frames = <<>> /\ Len(frames) = 0
    BY <1>1 DEF RawInv, Stamped
  <2>2. Len(frames') <= Len(frame_pts')
    BY <1>1, <1>2, <2>1
  <2>3. (recording.file /\ reader' # "unopened") =>
          frame_pts' = recording.stamps /\ recording.videos = 1 /\ recording.described
    BY <1>1 DEF OpenRaw, OpenRawFails, Stops
  <2> QED BY <1>1, <2>1, <2>2, <2>3 DEF Stamped
<1> QED BY <1>3, <1>4 DEF RawInv

LEMMA ReadBytesKeeps ==
  ASSUME RawInv, ReadBytes
  PROVE  RawInv'
<1>1. PICK n \in 1..FrameBytes - total :
        /\ frame_buf' = [k \in 1..FrameBytes |->
             IF Place(k, n) THEN taken + k - total ELSE frame_buf[k]]
        /\ taken' = taken + n /\ total' = total + n
  BY DEF ReadBytes
<1>2. /\ reader = "read" /\ total < FrameBytes
      /\ recording' = recording /\ reader' = reader /\ frame_pts' = frame_pts
      /\ frames' = frames
  BY DEF ReadBytes
<1>3. PICK b \in Nat : b = Before /\ b = Len(frames)
  BY <1>2 DEF Before, RawInv, RawTyped
<1>4. Before' = b
  BY <1>2, <1>3 DEF Before
<1>5. /\ FrameBytes \in Nat /\ taken \in Nat /\ total \in Nat
      /\ frame_buf \in [1..FrameBytes -> Nat]
  BY RawFacts DEF RawInv, RawTyped
<1>6. PICK m \in Nat : m = b * FrameBytes
  BY <1>5
<1>7. taken = m + total /\ \A k \in 1..total : frame_buf[k] = m + k
  BY <1>3, <1>6 DEF RawInv, Filled
<1>8. RawTyped'
  <2>1. ASSUME NEW k \in 1..FrameBytes
        PROVE  (IF Place(k, n) THEN taken + k - total ELSE frame_buf[k]) \in Nat
    BY <1>5 DEF Place
  <2>2. frame_buf' \in [1..FrameBytes -> Nat]
    BY <1>1, <2>1
  <2>3. taken' \in Nat /\ total' \in 0..FrameBytes
    BY <1>1, <1>5
  <2> QED BY <1>2, <2>2, <2>3 DEF RawInv, RawTyped
<1>9. Filled'
  <2>1. taken' = m + total'
    BY <1>1, <1>5, <1>7
  <2>2. ASSUME NEW k \in 1..total'
        PROVE  frame_buf'[k] = m + k
    <3>1. k \in 1..FrameBytes
      BY <1>1, <1>5
    <3>2. CASE k \in 1..total
      <4>1. ~Place(k, n)
        BY <1>1, <1>5, <3>2 DEF Place
      <4> QED BY <1>1, <1>7, <3>1, <3>2, <4>1
    <3>3. CASE k \notin 1..total
      <4>1. Place(k, n)
        BY <1>1, <1>5, <3>3 DEF Place
      <4>2. frame_buf'[k] = taken + k - total
        BY <1>1, <3>1, <4>1
      <4> QED BY <1>5, <1>7, <4>2
    <3> QED BY <3>2, <3>3
  <2> QED BY <1>2, <1>4, <1>6, <2>1, <2>2 DEF Filled
<1>10. FramesAligned' /\ Stamped'
  BY <1>2 DEF RawInv, FramesAligned, Stamped
<1> QED BY <1>8, <1>9, <1>10 DEF RawInv

LEMMA StopKeeps ==
  ASSUME RawInv, PipeFails \/ PipeEnds \/ NoStamp
  PROVE  RawInv'
<1>1. /\ recording' = recording /\ taken' = taken /\ total' = total
      /\ frame_buf' = frame_buf /\ frames' = frames /\ frame_pts' = frame_pts
      /\ reader = "read" /\ reader' \in {"error", "none", "panicked"}
  BY DEF PipeFails, PipeEnds, NoStamp, Stops, EndOfPipe, FullFrame
<1>2. RawTyped' /\ Filled' /\ FramesAligned'
  BY <1>1 DEF RawInv, RawTyped, Filled, Before, FramesAligned
<1>3. reader' = "none" => recording.file /\ total = 0 /\ taken = Available /\ AllStamped
  BY DEF PipeFails, PipeEnds, NoStamp, Stops, EndOfPipe
<1>4. Stamped'
  BY <1>1, <1>3 DEF RawInv, Stamped, Available, AllStamped
<1> QED BY <1>2, <1>4 DEF RawInv

LEMMA DeliverKeeps ==
  ASSUME RawInv, DeliverRaw
  PROVE  RawInv'
<1> DEFINE f == [content |-> frame_buf,
                 stamp |-> IF recording.file THEN frame_pts[Len(frames) + 1] ELSE 0]
<1>1. /\ reader = "read" /\ total = FrameBytes /\ (recording.file => HasStamp)
      /\ frames' = Append(frames, f) /\ reader' = "returned"
      /\ recording' = recording /\ taken' = taken /\ frame_buf' = frame_buf
      /\ total' = total /\ frame_pts' = frame_pts
  BY DEF DeliverRaw, FullFrame
<1>2. PICK b \in Nat : b = Len(frames)
  BY DEF RawInv, RawTyped
<1>3. recording.file => b + 1 \in 1..Len(frame_pts) /\ b + 1 <= Len(frame_pts)
  BY <1>1, <1>2 DEF HasStamp, RawInv, RawTyped
<1>4. f \in Frame
  <2>1. f.stamp \in Int
    <3>1. recording.file \in BOOLEAN
      BY RawFacts DEF RawInv, RawTyped
    <3> QED BY <1>2, <1>3, <3>1 DEF RawInv, RawTyped
  <2> QED BY <2>1 DEF Frame, RawInv, RawTyped
<1> HIDE DEF f
<1>5. /\ frames' \in Seq(Frame) /\ Len(frames') = b + 1 /\ frames'[b + 1] = f
      /\ \A k \in 1..b : frames'[k] = frames[k]
  <2>1. frames \in Seq(Frame)
    BY DEF RawInv, RawTyped
  <2> QED BY <1>1, <1>2, <1>4, <2>1, AppendProperties
<1>6. Before = b /\ Before' = b
  BY <1>1, <1>2, <1>5 DEF Before
<1>7. RawTyped'
  BY <1>1, <1>5 DEF RawInv, RawTyped
<1>8. Filled'
  <2>1. frames' # <<>>
    BY <1>5
  <2> QED BY <1>1, <1>6, <2>1 DEF RawInv, Filled
<1>9. FramesAligned'
  <2>1. frame_buf = [k \in 1..FrameBytes |-> b * FrameBytes + k]
    BY <1>1, <1>6 DEF RawInv, RawTyped, Filled
  <2>2. f.content = [k \in 1..FrameBytes |-> ((b + 1) - 1) * FrameBytes + k]
    <3>1. (b + 1) - 1 = b
      OBVIOUS
    <3> QED BY <2>1, <3>1 DEF f
  <2>3. \A k \in 1..b + 1 : k = b + 1 \/ k \in 1..b
    OBVIOUS
  <2>4. \A k \in 1..b :
          frames[k].content = [j \in 1..FrameBytes |-> (k - 1) * FrameBytes + j]
    BY <1>2 DEF RawInv, FramesAligned
  <2> QED BY <1>5, <2>2, <2>3, <2>4 DEF FramesAligned
<1>10. Stamped'
  <2> SUFFICES ASSUME recording.file
               PROVE  \A k \in 1..b + 1 : frames'[k].stamp = frame_pts[k]
    BY <1>1, <1>3, <1>5 DEF RawInv, Stamped
  <2>1. f.stamp = frame_pts[b + 1]
    BY <1>2 DEF f
  <2>2. \A k \in 1..b : frames[k].stamp = frame_pts[k]
    BY <1>2 DEF RawInv, Stamped
  <2>3. \A k \in 1..b + 1 : k = b + 1 \/ k \in 1..b
    OBVIOUS
  <2> QED BY <1>5, <2>1, <2>2, <2>3
<1> QED BY <1>7, <1>8, <1>9, <1>10 DEF RawInv

LEMMA NextRawKeeps ==
  ASSUME RawInv, NextRaw
  PROVE  RawInv'
<1>1. /\ reader = "returned" /\ reader' = "read" /\ total' = 0
      /\ recording' = recording /\ taken' = taken /\ frame_buf' = frame_buf
      /\ frame_pts' = frame_pts /\ frames' = frames
  BY DEF NextRaw
<1>2. PICK b \in Nat : Len(frames) = b + 1
  <2>1. Len(frames) \in Nat /\ Len(frames) # 0
    BY <1>1 DEF RawInv, RawTyped, Filled
  <2>2. Len(frames) - 1 \in Nat /\ Len(frames) = (Len(frames) - 1) + 1
    BY <2>1
  <2> QED BY <2>2
<1>3. Before = b /\ Before' = b + 1
  BY <1>1, <1>2 DEF Before
<1>4. FrameBytes \in Nat
  BY RawFacts DEF RawInv, RawTyped
<1>5. taken = (b + 1) * FrameBytes + 0
  <2>1. taken = b * FrameBytes + FrameBytes
    BY <1>1, <1>3 DEF RawInv, Filled
  <2> QED BY <1>4, <2>1
<1>6. RawTyped' /\ Filled'
  BY <1>1, <1>3, <1>4, <1>5 DEF RawInv, RawTyped, Filled
<1>7. FramesAligned' /\ Stamped'
  BY <1>1 DEF RawInv, FramesAligned, Stamped
<1> QED BY <1>6, <1>7 DEF RawInv

LEMMA RawKeeps ==
  ASSUME RawInv, RawNext
  PROVE  RawInv'
  BY OpenKeeps, ReadBytesKeeps, StopKeeps, DeliverKeeps, NextRawKeeps DEF RawNext

\* A file that is at its end in good order has delivered every frame, with
\* its own stamp.
LEMMA RawEnd ==
  ASSUME RawInv, reader = "none"
  PROVE  recording.file /\ StampsExact
<1>1. /\ recording.file /\ total = 0 /\ taken = Available
      /\ Len(frame_pts) = Len(frames) /\ frame_pts = recording.stamps
      /\ recording.videos = 1 /\ recording.described
      /\ \A k \in 1..Len(frames) : frames[k].stamp = frame_pts[k]
  BY DEF RawInv, Stamped, AllStamped
<1>2. PICK b \in Nat, w \in Nat, r \in Nat, F \in Nat :
        b = Len(frames) /\ w = recording.whole /\ r = recording.rest /\ F = FrameBytes
  BY RawFacts DEF RawInv, RawTyped
<1>3. b * F = w * F + r /\ r < F
  <2>1. Before = b
    BY <1>2 DEF Before
  <2>2. taken = b * F
    BY <1>1, <1>2, <2>1 DEF RawInv, Filled
  <2>3. taken = w * F + r
    BY <1>1, <1>2 DEF Available
  <2> QED BY <1>2, <2>2, <2>3, RawFacts DEF RawInv, RawTyped
<1>4. b = w
  <2>1. CASE b > w
    <3>1. PICK e \in Nat : b = w + 1 + e
      <4>1. b - w - 1 \in Nat /\ b = w + 1 + (b - w - 1)
        BY <2>1
      <4> QED BY <4>1
    <3>2. b * F = w * F + F + e * F /\ e * F \in Nat /\ w * F \in Nat
      BY <3>1
    <3> QED BY <1>3, <3>2
  <2>2. CASE b < w
    <3>1. PICK e \in Nat : w = b + 1 + e
      <4>1. w - b - 1 \in Nat /\ w = b + 1 + (w - b - 1)
        BY <2>2
      <4> QED BY <4>1
    <3>2. w * F = b * F + F + e * F /\ e * F \in Nat /\ b * F \in Nat
      BY <3>1
    <3> QED BY <1>3, <3>2
  <2> QED BY <2>1, <2>2
<1>5. recording.stamps = recording.video
  <2>1. /\ recording.whole <= Len(recording.video)
        /\ Len(recording.video) <= Len(recording.stamps)
        /\ Len(recording.stamps) = Len(recording.video) =>
             recording.stamps = recording.video
    BY <1>1, RawFramesAssumption DEF RawInv, RawTyped
  <2>2. Len(recording.stamps) = b
    BY <1>1, <1>2
  <2>3. Len(recording.video) \in Nat
    BY RawFacts DEF RawInv, RawTyped
  <2> QED BY <1>2, <1>4, <2>1, <2>2, <2>3
<1>6. [k \in 1..Len(frames) |-> frames[k].stamp] = recording.video
  <2>1. PICK v \in Seq(Int) : v = recording.video
    BY RawFacts DEF RawInv, RawTyped
  <2>2. Len(v) = b /\ \A k \in 1..b : frames[k].stamp = v[k]
    BY <1>1, <1>2, <1>5, <2>1
  <2>3. v = [k \in 1..b |-> v[k]]
    BY <2>1, <2>2
  <2> QED BY <1>2, <2>1, <2>2, <2>3
<1> QED BY <1>1, <1>6 DEF StampsExact

-----------------------------------------------------------------------------
(* The bytes of JPEG streams.                                              *)

JpegTyped ==
  /\ stream \in Streams
  /\ pos \in 0..Len(stream.input) /\ need \in Nat
  /\ buf \in Seq(Byte) /\ given \in Seq(Byte) /\ unget \in Seq(Byte)
  /\ phase \in {"soi", "marker", "length", "sos_length", "data", "sos_data",
                "image", "returned", "none", "error"}

\* Only the marker that ends image data is put back, and it is read next.
PutBack == unget # <<>> => phase = "marker" /\ Len(unget) = 2

Accounted == given \o buf \o unget = SubSeq(stream.input, 1, pos)

JpegInv == JpegTyped /\ PutBack /\ Accounted

\* A part of a sequence from its m-th element to its n-th.
LEMMA PartOf ==
  ASSUME NEW S, NEW s \in Seq(S), NEW m \in Nat \ {0}, NEW n \in Int, n <= Len(s)
  PROVE  /\ SubSeq(s, m, n) \in Seq(S)
         /\ Len(SubSeq(s, m, n)) = IF m <= n THEN n - m + 1 ELSE 0
         /\ \A i \in 1..n - m + 1 : SubSeq(s, m, n)[i] = s[m + i - 1]
<1>1. \A i \in m..n : s[i] \in S
  <2> SUFFICES ASSUME NEW i \in m..n PROVE s[i] \in S
    OBVIOUS
  <2>1. i \in 1..Len(s)
    OBVIOUS
  <2> QED BY <2>1, ElementOfSeq
<1>2. m \in Int
  OBVIOUS
<1> QED BY <1>1, <1>2, SubSeqProperties

\* What is read are the bytes put back and then those next in the stream.
LEMMA ReadsOn ==
  ASSUME NEW S, NEW s \in Seq(S), NEW p \in 0..Len(s), NEW u \in Seq(S),
         NEW n \in Nat, n >= Len(u),
         n <= Len(u \o SubSeq(s, p + 1, Len(s)))
  PROVE  /\ p + n - Len(u) \in p..Len(s)
         /\ SubSeq(u, n + 1, Len(u)) = <<>>
         /\ SubSeq(u \o SubSeq(s, p + 1, Len(s)), 1, n)
              = u \o SubSeq(s, p + 1, p + n - Len(u))
<1> DEFINE R == SubSeq(s, p + 1, Len(s))
           q == p + n - Len(u)
           T == SubSeq(s, p + 1, q)
<1>1. Len(u) \in Nat /\ Len(s) \in Nat /\ p + 1 \in Nat \ {0} /\ Len(s) \in Int
  OBVIOUS
<1>2. R \in Seq(S) /\ Len(R) = Len(s) - p
      /\ \A i \in 1..Len(s) - p : R[i] = s[p + i]
  <2>1. R \in Seq(S)
        /\ Len(R) = (IF p + 1 <= Len(s) THEN Len(s) - (p + 1) + 1 ELSE 0)
        /\ \A i \in 1..Len(s) - (p + 1) + 1 : R[i] = s[(p + 1) + i - 1]
    BY <1>1, PartOf
  <2>2. PICK L \in Nat : L = Len(s) /\ p \in 0..L
    BY <1>1
  <2>3. L - (p + 1) + 1 = L - p /\ (p + 1 <= L \/ L - p = 0)
        /\ \A i \in 1..L - p : (p + 1) + i - 1 = p + i
    BY <2>2
  <2> HIDE DEF R
  <2>4. Len(R) = Len(s) - p
    BY <2>1, <2>2, <2>3
  <2>5. ASSUME NEW i \in 1..L - p
        PROVE  R[i] = s[p + i]
    <3>1. i \in 1..L - (p + 1) + 1 /\ (p + 1) + i - 1 = p + i
      BY <2>3
    <3> QED BY <2>1, <2>2, <3>1
  <2> QED BY <2>1, <2>2, <2>4, <2>5
<1> HIDE DEF R
<1>3. u \o R \in Seq(S) /\ Len(u \o R) = Len(u) + Len(R)
      /\ \A i \in 1..Len(u) + Len(R) :
           (u \o R)[i] = IF i <= Len(u) THEN u[i] ELSE R[i - Len(u)]
  <2>1. R \in Seq(S)
    BY <1>2
  <2> QED BY <2>1, ConcatProperties
<1>4. q \in p..Len(s)
  <2>1. n <= Len(u \o R)
    BY DEF R
  <2> QED BY <1>1, <1>2, <1>3, <2>1
<1>5. T \in Seq(S) /\ Len(T) = n - Len(u) /\ \A i \in 1..n - Len(u) : T[i] = s[p + i]
  <2>1. T \in Seq(S)
        /\ Len(T) = (IF p + 1 <= q THEN q - (p + 1) + 1 ELSE 0)
        /\ \A i \in 1..q - (p + 1) + 1 : T[i] = s[(p + 1) + i - 1]
    <3>1. q \in Int /\ q <= Len(s)
      BY <1>1, <1>4
    <3> HIDE DEF q
    <3> QED BY <1>1, <3>1, PartOf
  <2> QED BY <1>1, <2>1
<1> HIDE DEF T
<1>6. SubSeq(u \o R, 1, n) = u \o T
  <2>1. SubSeq(u \o R, 1, n) \in Seq(S) /\ Len(SubSeq(u \o R, 1, n)) = n
        /\ \A i \in 1..n : SubSeq(u \o R, 1, n)[i] = (u \o R)[i]
    <3> DEFINE w == u \o R
    <3>1. w \in Seq(S) /\ n <= Len(w) /\ n \in Int
      BY <1>3 DEF R
    <3> HIDE DEF w
    <3>2. SubSeq(w, 1, n) \in Seq(S)
          /\ Len(SubSeq(w, 1, n)) = (IF 1 <= n THEN n - 1 + 1 ELSE 0)
          /\ \A i \in 1..n - 1 + 1 : SubSeq(w, 1, n)[i] = w[1 + i - 1]
      BY <3>1, PartOf
    <3>3. SubSeq(w, 1, n) \in Seq(S) /\ Len(SubSeq(w, 1, n)) = n
          /\ \A i \in 1..n : SubSeq(w, 1, n)[i] = w[i]
      BY <3>2
    <3> QED BY <3>3 DEF w
  <2>2. u \o T \in Seq(S) /\ Len(u \o T) = n
        /\ \A i \in 1..n : (u \o T)[i] = IF i <= Len(u) THEN u[i] ELSE T[i - Len(u)]
    <3>1. u \o T \in Seq(S) /\ Len(u \o T) = Len(u) + Len(T)
          /\ \A i \in 1..Len(u) + Len(T) :
               (u \o T)[i] = IF i <= Len(u) THEN u[i] ELSE T[i - Len(u)]
      BY <1>5, ConcatProperties
    <3> QED BY <1>1, <1>5, <3>1
  <2>3. ASSUME NEW i \in 1..n
        PROVE  SubSeq(u \o R, 1, n)[i] = (u \o T)[i]
    <3>1. CASE i <= Len(u)
      <4>1. (u \o R)[i] = u[i] /\ (u \o T)[i] = u[i]
        BY <1>1, <1>2, <1>3, <2>2, <3>1
      <4> QED BY <2>1, <4>1
    <3>2. CASE ~(i <= Len(u))
      <4>1. i - Len(u) \in 1..n - Len(u) /\ i - Len(u) \in 1..Len(s) - p
            /\ i \in 1..Len(u) + Len(R)
        BY <1>1, <1>2, <1>4, <3>2
      <4>2. (u \o R)[i] = R[i - Len(u)]
        BY <1>3, <3>2, <4>1
      <4>3. (u \o T)[i] = T[i - Len(u)]
        BY <2>2, <3>2
      <4> QED BY <1>2, <1>5, <2>1, <4>1, <4>2, <4>3
    <3> QED BY <3>1, <3>2
  <2> QED BY <2>1, <2>2, <2>3, SeqEqual
<1>7. SubSeq(u, n + 1, Len(u)) = <<>>
  BY <1>1, SubSeqEmpty
<1> QED BY <1>4, <1>6, <1>7 DEF R, T

LEMMA StreamTyped ==
  ASSUME JpegInv
  PROVE  stream.input \in Seq(Byte)
  BY StreamsAssumption DEF JpegInv, JpegTyped

\* A read of at least the bytes put back.
LEMMA ReadKeeps ==
  ASSUME JpegInv, NEW n \in Nat, n >= Len(unget), n <= Len(Rest),
         buf' = buf \o SubSeq(Rest, 1, n), Consume(n),
         UNCHANGED <<stream, given>>
  PROVE  /\ buf' \in Seq(Byte) /\ unget' = <<>> /\ pos' \in 0..Len(stream.input)
         /\ given' \o buf' \o unget' = SubSeq(stream'.input, 1, pos')
<1> DEFINE s == stream.input
           u == unget
           q == pos + n - Len(u)
           T == SubSeq(s, pos + 1, q)
<1>1. s \in Seq(Byte) /\ pos \in 0..Len(s) /\ u \in Seq(Byte) /\ buf \in Seq(Byte)
      /\ given \in Seq(Byte) /\ Len(u) \in Nat /\ Len(s) \in Nat /\ n >= Len(u)
  BY StreamTyped DEF JpegInv, JpegTyped
<1>2. q \in pos..Len(s) /\ SubSeq(u, n + 1, Len(u)) = <<>>
      /\ SubSeq(u \o SubSeq(s, pos + 1, Len(s)), 1, n) = u \o T
  <2>1. PICK w, v, p : w = s /\ v = u /\ p = pos
    OBVIOUS
  <2>2. /\ w \in Seq(Byte) /\ p \in 0..Len(w) /\ v \in Seq(Byte) /\ n >= Len(v)
        /\ n <= Len(v \o SubSeq(w, p + 1, Len(w)))
    BY <1>1, <2>1 DEF Rest
  <2>3. /\ p + n - Len(v) \in p..Len(w)
        /\ SubSeq(v, n + 1, Len(v)) = <<>>
        /\ SubSeq(v \o SubSeq(w, p + 1, Len(w)), 1, n)
             = v \o SubSeq(w, p + 1, p + n - Len(v))
    BY <2>2, ReadsOn
  <2> HIDE DEF s, u
  <2> QED BY <2>1, <2>3
<1>3. unget' = <<>> /\ pos' = q
  <2>1. unget' = SubSeq(u, n + 1, Len(u))
        /\ pos' = pos + (IF n > Len(u) THEN n - Len(u) ELSE 0)
    BY DEF Consume
  <2> QED BY <1>1, <1>2, <2>1
<1>4. buf' = buf \o (u \o T)
  BY <1>2 DEF Rest
<1>5. T \in Seq(Byte)
  <2>1. pos + 1 \in Nat \ {0} /\ q \in Int /\ q <= Len(s)
    BY <1>1, <1>2
  <2> HIDE DEF q, s
  <2> QED BY <1>1, <2>1, PartOf
<1>6. given' = given /\ stream' = stream
  OBVIOUS
<1> HIDE DEF q, T, u
<1>7. u \o T \in Seq(Byte) /\ buf \o u \in Seq(Byte) /\ given \o buf \in Seq(Byte)
      /\ buf \o (u \o T) \in Seq(Byte)
  <2>1. \A v, w \in Seq(Byte) : v \o w \in Seq(Byte)
    BY ConcatProperties
  <2>2. u \o T \in Seq(Byte) /\ buf \o u \in Seq(Byte) /\ given \o buf \in Seq(Byte)
    BY <1>1, <1>5, <2>1
  <2> QED BY <1>1, <2>1, <2>2, Zenon
<1>8. given \o (buf \o (u \o T)) = ((given \o buf) \o u) \o T
  <2>1. \A a, b, c \in Seq(Byte) : (a \o b) \o c = a \o (b \o c)
    BY ConcatAssociative
  <2>2. (given \o buf) \o (u \o T) = given \o (buf \o (u \o T))
    BY <1>1, <1>7, <2>1, Zenon
  <2>3. ((given \o buf) \o u) \o T = (given \o buf) \o (u \o T)
    <3> DEFINE g == given \o buf
    <3>1. g \in Seq(Byte) /\ u \in Seq(Byte) /\ T \in Seq(Byte)
      BY <1>1, <1>5, <1>7
    <3> HIDE DEF g
    <3>2. (g \o u) \o T = g \o (u \o T)
      BY <2>1, <3>1, Zenon
    <3> QED BY <3>2 DEF g
  <2> QED BY <2>2, <2>3
<1>9. ((given \o buf) \o u) \o T = SubSeq(s, 1, q)
  <2>1. (given \o buf) \o u = SubSeq(s, 1, pos)
    BY DEF JpegInv, Accounted, u
  <2>2. SubSeq(s, 1, pos) \o SubSeq(s, pos + 1, q) = SubSeq(s, 1, q)
    <3>1. 1 \in 1..Len(s) + 1 /\ pos \in 1 - 1..Len(s) /\ q \in pos..Len(s)
      BY <1>1, <1>2
    <3> HIDE DEF s
    <3> QED BY <1>1, <3>1, ConcatAdjacentSubSeq
  <2> QED BY <2>1, <2>2 DEF T
<1>10. (given \o (buf \o (u \o T))) \o <<>> = SubSeq(s, 1, q)
  <2>1. given \o (buf \o (u \o T)) \in Seq(Byte)
    BY <1>1, <1>7, ConcatProperties
  <2> QED BY <1>8, <1>9, <2>1, ConcatEmptySeq
<1>11. q \in 0..Len(s)
  BY <1>1, <1>2
<1> QED BY <1>3, <1>4, <1>6, <1>7, <1>10, <1>11

\* What is ahead, and when it is all of the bytes put back.
LEMMA AheadFacts ==
  ASSUME JpegInv
  PROVE  /\ Rest \in Seq(Byte) /\ Len(Rest) \in Nat /\ Len(unget) \in Nat
         /\ Len(Rest) = Len(unget) + (Len(stream.input) - pos)
         /\ Len(unget) <= Len(Rest)
<1> DEFINE s == stream.input
           R == SubSeq(s, pos + 1, Len(s))
<1>1. s \in Seq(Byte) /\ pos \in 0..Len(s) /\ unget \in Seq(Byte) /\ Len(s) \in Nat
      /\ Len(unget) \in Nat /\ pos + 1 \in Nat \ {0} /\ Len(s) \in Int
  BY StreamTyped DEF JpegInv, JpegTyped
<1>2. R \in Seq(Byte) /\ Len(R) = IF pos + 1 <= Len(s) THEN Len(s) - (pos + 1) + 1 ELSE 0
  <2> HIDE DEF s
  <2> QED BY <1>1, PartOf
<1>3. Len(R) = Len(s) - pos
  BY <1>1, <1>2
<1>4. unget \o R \in Seq(Byte) /\ Len(unget \o R) = Len(unget) + Len(R)
  BY <1>1, <1>2, ConcatProperties
<1>5. Rest = unget \o R
  BY DEF Rest
<1> HIDE DEF s, R
<1>6. Rest \in Seq(Byte) /\ Len(Rest) = Len(unget) + (Len(s) - pos)
  BY <1>3, <1>4, <1>5
<1> QED BY <1>1, <1>6 DEF s

\* Reads of n bytes, or of what is left if that is less.
LEMMA ScanReadKeeps ==
  ASSUME JpegInv, NEW n \in Nat, n >= Len(unget), UNCHANGED <<stream, given>>,
         ReadShort(n) \/ Read(n)
  PROVE  /\ buf' \in Seq(Byte) /\ unget' = <<>> /\ pos' \in 0..Len(stream'.input)
         /\ Accounted'
<1>1. CASE Read(n)
  <2>1. n <= Len(Rest) /\ buf' = buf \o SubSeq(Rest, 1, n) /\ Consume(n)
    BY <1>1, AheadFacts DEF Read
  <2> QED BY <2>1, ReadKeeps DEF Accounted
<1>2. CASE ReadShort(n)
  <2>1. Rest \in Seq(Byte) /\ Len(Rest) \in Nat /\ Len(unget) <= Len(Rest)
    BY AheadFacts
  <2>2. SubSeq(Rest, 1, Len(Rest)) = Rest
    BY <2>1, SubSeqFull
  <2>3. buf' = buf \o SubSeq(Rest, 1, Len(Rest)) /\ Consume(Len(Rest))
    BY <1>2, <2>2 DEF ReadShort
  <2>4. Len(Rest) >= Len(unget) /\ Len(Rest) <= Len(Rest)
    BY <2>1, AheadFacts
  <2> QED BY <2>1, <2>3, <2>4, ReadKeeps DEF Accounted
<1> QED BY <1>1, <1>2

LEMMA JpegKeeps ==
  ASSUME JpegInv, JpegNext
  PROVE  JpegInv'
<1>0. Scan /\ stream' = stream
  BY DEF JpegNext
<1>1. Len(unget) \in Nat /\ Len(unget) <= 2 /\ Len(unget) <= Len(Rest)
      /\ Len(Rest) \in Nat
      /\ (phase # "marker" => unget = <<>> /\ Len(unget) = 0)
  <2>1. Len(unget) \in Nat /\ Len(unget) <= Len(Rest) /\ Len(Rest) \in Nat
    BY AheadFacts
  <2>2. unget # <<>> => phase = "marker" /\ Len(unget) = 2
    BY DEF JpegInv, PutBack
  <2>3. unget = <<>> => Len(unget) = 0
    OBVIOUS
  <2>4. CASE unget = <<>>
    BY <2>1, <2>3, <2>4
  <2>5. CASE unget # <<>>
    <3>1. phase = "marker" /\ Len(unget) = 2
      BY <2>2, <2>5
    <3>2. Len(unget) <= 2
      BY <3>1
    <3> QED BY <2>1, <3>1, <3>2
  <2> QED BY <2>4, <2>5
<1>2. CASE CleanEnd
  BY <1>0, <1>2 DEF CleanEnd, JpegInv, JpegTyped, PutBack, Accounted
<1>3. CASE ReadSoi \/ ReadEoi \/ ReadMarker \/ ReadLength
  <2>1. (ReadShort(2) \/ Read(2)) /\ UNCHANGED <<stream, given>>
    BY <1>0, <1>3 DEF ReadSoi, ReadEoi, ReadMarker, ReadLength, ReadShort
  <2>2. buf' \in Seq(Byte) /\ unget' = <<>> /\ pos' \in 0..Len(stream'.input)
        /\ Accounted'
    BY <1>1, <2>1, ScanReadKeeps
  <2>3. phase' \in {"soi", "marker", "length", "sos_length", "data", "sos_data",
                    "image", "returned", "none", "error"}
    BY <1>3 DEF ReadSoi, ReadEoi, ReadMarker, ReadLength, ReadShort
  <2>4. need' \in Nat
    <3>1. CASE ReadLength /\ Read(2)
      <4>1. Rest \in Seq(Byte) /\ 1 \in 1..Len(Rest) /\ 2 \in 1..Len(Rest)
        BY <3>1, AheadFacts DEF Read
      <4>2. Next1 \in Byte /\ Next2 \in Byte
        BY <4>1, ElementOfSeq DEF Next1, Next2
      <4>3. need' = need
            \/ (Next1 * 256 + Next2 >= 2 /\ need' = Next1 * 256 + Next2 - 2)
        <5>1. CASE ReadShort(2)
          BY <5>1 DEF ReadShort
        <5>2. CASE ~ReadShort(2)
          <6>1. LET seg_len == Next1 * 256 + Next2
                IN  IF ValidLength(seg_len)
                    THEN need' = seg_len - 2 ELSE UNCHANGED need
            BY <3>1, <5>2 DEF ReadLength
          <6>2. PICK x \in Int, y \in Int : x = Next1 /\ y = Next2
            BY <4>2 DEF Byte
          <6>3. need' = need \/ (x * 256 + y >= 2 /\ need' = x * 256 + y - 2)
            BY <6>1, <6>2 DEF ValidLength
          <6> QED BY <6>2, <6>3
        <5> QED BY <5>1, <5>2
      <4>4. need \in Nat
        BY DEF JpegInv, JpegTyped
      <4> HIDE DEF Next1, Next2
      <4> QED BY <4>2, <4>3, <4>4 DEF Byte
    <3>2. CASE ~(ReadLength /\ Read(2))
      BY <1>3, <3>2 DEF ReadSoi, ReadEoi, ReadMarker, ReadLength, ReadShort, JpegInv, JpegTyped
    <3> QED BY <3>1, <3>2
  <2> QED BY <2>1, <2>2, <2>3, <2>4, EmptySeq DEF JpegInv, JpegTyped, PutBack
<1>4. CASE ReadData
  <2>1. (ReadShort(need) \/ Read(need)) /\ UNCHANGED <<stream, given>>
        /\ (need' = need \/ need' = 0) /\ phase' \in {"error", "marker", "image"}
        /\ phase # "marker"
    BY <1>0, <1>4 DEF ReadData, ReadShort
  <2>2. need \in Nat /\ need >= Len(unget)
    BY <1>1, <2>1 DEF JpegInv, JpegTyped
  <2>3. buf' \in Seq(Byte) /\ unget' = <<>> /\ pos' \in 0..Len(stream'.input)
        /\ Accounted'
    BY <2>1, <2>2, ScanReadKeeps
  <2> QED BY <2>1, <2>2, <2>3, EmptySeq DEF JpegInv, JpegTyped, PutBack
<1>5. CASE ScanAgain
  <2>1. /\ given' = given \o buf /\ buf' = <<>> /\ phase' = "soi" /\ phase # "marker"
        /\ UNCHANGED <<stream, pos, unget, need, out>>
    BY <1>0, <1>5 DEF ScanAgain
  <2>2. given \o buf \in Seq(Byte)
    BY ConcatProperties DEF JpegInv, JpegTyped
  <2>3. (given \o buf) \o <<>> = given \o buf
    BY <2>2, ConcatEmptySeq
  <2> QED BY <1>1, <2>1, <2>2, <2>3, EmptySeq
          DEF JpegInv, JpegTyped, PutBack, Accounted
<1>6. CASE ImageByte \/ ImagePair \/ ImageEnd
  <2>1. PICK n \in Nat :
          /\ Read(n) /\ UNCHANGED <<stream, given, need>> /\ phase # "marker"
          /\ (phase' = phase \/ phase' = "marker")
    <3>1. ImageByte \/ ImagePair =>
            (Read(1) \/ Read(2)) /\ UNCHANGED <<stream, given, need, phase>>
            /\ phase # "marker"
      BY <1>0 DEF ImageByte, ImagePair
    <3>2. ImageEnd => Read(Len(Rest)) /\ UNCHANGED <<stream, given, need>>
            /\ phase' = "marker" /\ phase # "marker"
      BY <1>0 DEF ImageEnd
    <3> QED BY <1>1, <1>6, <3>1, <3>2
  <2>2. n >= Len(unget)
    BY <1>1, <2>1
  <2>3. buf' \in Seq(Byte) /\ unget' = <<>> /\ pos' \in 0..Len(stream'.input)
        /\ Accounted'
    BY <2>1, <2>2, ScanReadKeeps
  <2> QED BY <2>1, <2>3, EmptySeq DEF JpegInv, JpegTyped, PutBack
<1>7. CASE ImageMarker
  <2>1. /\ Len(Rest) >= 2 /\ pos' = pos + (2 - Len(unget)) /\ phase # "marker"
        /\ unget' = <<Rest[1], Rest[2]>> /\ phase' = "marker"
        /\ UNCHANGED <<stream, buf, need, out, given>>
    BY <1>0, <1>7 DEF ImageMarker, Unread, Next1, Next2
  <2> DEFINE s == stream.input
  <2>2. s \in Seq(Byte) /\ pos \in 0..Len(s) /\ Len(s) \in Nat /\ given \in Seq(Byte)
        /\ buf \in Seq(Byte)
    BY StreamTyped DEF JpegInv, JpegTyped
  <2>3. unget = <<>> /\ Len(unget) = 0 /\ pos' = pos + 2 /\ pos + 2 <= Len(s)
    BY <1>1, <2>1, <2>2, AheadFacts
  <2>4. Rest = SubSeq(s, pos + 1, Len(s))
    <3>1. SubSeq(s, pos + 1, Len(s)) \in Seq(Byte)
      <4>1. pos + 1 \in Nat \ {0} /\ Len(s) \in Int /\ Len(s) <= Len(s)
        BY <2>2
      <4> HIDE DEF s
      <4> QED BY <2>2, <4>1, PartOf
    <3> QED BY <2>3, <3>1, ConcatEmptySeq DEF Rest
  <2>5. Rest[1] = s[pos + 1] /\ Rest[2] = s[pos + 2]
    <3>1. pos + 1 \in Nat \ {0} /\ Len(s) \in Int /\ Len(s) <= Len(s)
      BY <2>2
    <3>2. \A i \in 1..Len(s) - (pos + 1) + 1 :
            SubSeq(s, pos + 1, Len(s))[i] = s[(pos + 1) + i - 1]
      <4> HIDE DEF s
      <4> QED BY <2>2, <3>1, PartOf
    <3>3. 1 \in 1..Len(s) - (pos + 1) + 1 /\ 2 \in 1..Len(s) - (pos + 1) + 1
          /\ (pos + 1) + 1 - 1 = pos + 1 /\ (pos + 1) + 2 - 1 = pos + 2
      BY <2>2, <2>3
    <3> HIDE DEF s
    <3> QED BY <2>4, <3>2, <3>3
  <2> HIDE DEF s
  <2>6. unget' = SubSeq(s, pos + 1, pos + 2)
    <3>1. /\ SubSeq(s, pos + 1, pos + 2) \in Seq(Byte)
          /\ Len(SubSeq(s, pos + 1, pos + 2)) = 2
          /\ SubSeq(s, pos + 1, pos + 2)[1] = s[pos + 1]
          /\ SubSeq(s, pos + 1, pos + 2)[2] = s[pos + 2]
      <4>1. pos + 1 \in Nat \ {0} /\ pos + 2 \in Int /\ pos + 2 <= Len(s)
        BY <2>2, <2>3
      <4>2. /\ SubSeq(s, pos + 1, pos + 2) \in Seq(Byte)
            /\ Len(SubSeq(s, pos + 1, pos + 2)) =
                 IF pos + 1 <= pos + 2 THEN pos + 2 - (pos + 1) + 1 ELSE 0
            /\ \A i \in 1..pos + 2 - (pos + 1) + 1 :
                 SubSeq(s, pos + 1, pos + 2)[i] = s[(pos + 1) + i - 1]
        BY <2>2, <4>1, PartOf
      <4>3. pos + 1 <= pos + 2 /\ pos + 2 - (pos + 1) + 1 = 2 /\ 1 \in 1..2 /\ 2 \in 1..2
            /\ (pos + 1) + 1 - 1 = pos + 1 /\ (pos + 1) + 2 - 1 = pos + 2
        BY <2>2
      <4> QED BY <4>2, <4>3
    <3>2. s[pos + 1] \in Byte /\ s[pos + 2] \in Byte
      BY <2>2, <2>3, ElementOfSeq
    <3>3. unget' \in Seq(Byte) /\ Len(unget') = 2
          /\ unget'[1] = s[pos + 1] /\ unget'[2] = s[pos + 2]
      BY <2>1, <2>5, <3>2
    <3>4. \A i \in 1..2 : i = 1 \/ i = 2
      OBVIOUS
    <3>5. \A i \in 1..Len(unget') : unget'[i] = SubSeq(s, pos + 1, pos + 2)[i]
      BY <3>1, <3>3, <3>4
    <3>6. Len(unget') = Len(SubSeq(s, pos + 1, pos + 2))
      BY <3>1, <3>3
    <3>7. \A v, w \in Seq(Byte) :
            Len(v) = Len(w) /\ (\A i \in 1..Len(v) : v[i] = w[i]) => v = w
      BY SeqEqual
    <3> QED BY <3>1, <3>3, <3>5, <3>6, <3>7, Zenon
  <2>7. unget' \in Seq(Byte) /\ Len(unget') = 2
    <3>1. s[pos + 1] \in Byte /\ s[pos + 2] \in Byte
      BY <2>2, <2>3, ElementOfSeq
    <3> QED BY <2>1, <2>5, <3>1
  <2>8. Accounted'
    <3>1. given \o buf \in Seq(Byte)
      BY <2>2, ConcatProperties
    <3>2. given \o buf = SubSeq(s, 1, pos)
      <4>1. (given \o buf) \o <<>> = SubSeq(s, 1, pos)
        BY <2>3 DEF JpegInv, Accounted, s
      <4> QED BY <3>1, <4>1, ConcatEmptySeq
    <3>3. SubSeq(s, 1, pos) \o SubSeq(s, pos + 1, pos + 2) = SubSeq(s, 1, pos + 2)
      <4>1. 1 \in 1..Len(s) + 1 /\ pos \in 1 - 1..Len(s) /\ pos + 2 \in pos..Len(s)
        BY <2>2, <2>3
      <4> QED BY <2>2, <4>1, ConcatAdjacentSubSeq
    <3>4. given' \o buf' \o unget' = SubSeq(s, 1, pos')
      BY <2>1, <2>3, <2>6, <3>2, <3>3
    <3> QED BY <2>1, <3>4 DEF Accounted, s
  <2>9. pos' \in 0..Len(stream'.input)
    BY <2>1, <2>2, <2>3 DEF s
  <2> QED BY <2>1, <2>7, <2>8, <2>9 DEF JpegInv, JpegTyped, PutBack
<1> QED BY <1>2, <1>3, <1>4, <1>5, <1>6, <1>7, <1>0 DEF Scan

-----------------------------------------------------------------------------
(* The images of a JPEG stream that an encoder wrote.                      *)

\* How many bytes have been used: those put back are read again.
Reached == pos - Len(unget)
Shown   == Len(out)
Start   == stream.starts[Shown + 1]
Markers == stream.marks[Shown + 1]
EndPlace    == LastOf(stream, Shown + 1)

\* The bytes ahead are those of the stream.
LEMMA Ahead ==
  ASSUME JpegInv
  PROVE  /\ stream.input \in Seq(Byte) /\ Len(stream.input) \in Nat
         /\ Reached \in Nat /\ Reached <= Len(stream.input)
         /\ Rest \in Seq(Byte) /\ Len(Rest) \in Nat
         /\ Len(Rest) = Len(stream.input) - Reached
         /\ \A i \in 1..Len(Rest) : Rest[i] = stream.input[Reached + i]
         /\ Len(given) \in Nat /\ Len(buf) \in Nat /\ Len(given) + Len(buf) = Reached
<1>1. PICK s, p, u, g, b : s = stream.input /\ p = pos /\ u = unget /\ g = given /\ b = buf
  OBVIOUS
<1>2. /\ s \in Seq(Byte) /\ Len(s) \in Nat /\ p \in 0..Len(s) /\ u \in Seq(Byte)
      /\ g \in Seq(Byte) /\ b \in Seq(Byte)
      /\ Len(u) \in Nat /\ Len(g) \in Nat /\ Len(b) \in Nat
  BY <1>1, StreamTyped, LenProperties DEF JpegInv, JpegTyped
<1>3. (g \o b) \o u = SubSeq(s, 1, p)
  BY <1>1 DEF JpegInv, Accounted
<1>4. g \o b \in Seq(Byte) /\ Len(g \o b) = Len(g) + Len(b)
  BY <1>2, ConcatProperties
<1>5. PICK w : w = g \o b
  OBVIOUS
<1>6. /\ Len(w \o u) = Len(w) + Len(u) /\ Len(w) = Len(g) + Len(b) /\ w \in Seq(Byte)
      /\ \A i \in 1..Len(w) + Len(u) :
           (w \o u)[i] = IF i <= Len(w) THEN w[i] ELSE u[i - Len(w)]
  BY <1>2, <1>4, <1>5, ConcatProperties
<1>7. Len(SubSeq(s, 1, p)) = p /\ \A i \in 1..p : SubSeq(s, 1, p)[i] = s[i]
  <2>1. p \in Int /\ p <= Len(s) /\ 1 \in Nat \ {0}
    BY <1>2
  <2>2. /\ Len(SubSeq(s, 1, p)) = IF 1 <= p THEN p - 1 + 1 ELSE 0
        /\ \A i \in 1..p - 1 + 1 : SubSeq(s, 1, p)[i] = s[1 + i - 1]
    BY <1>2, <2>1, PartOf
  <2>3. p - 1 + 1 = p /\ \A i \in 1..p : 1 + i - 1 = i
    BY <1>2
  <2>4. (IF 1 <= p THEN p ELSE 0) = p
    BY <1>2
  <2> QED BY <2>2, <2>3, <2>4
<1>8. Len(w) + Len(u) = p /\ \A i \in 1..p : (w \o u)[i] = s[i]
  BY <1>3, <1>5, <1>6, <1>7
<1>9. \A i \in 1..Len(u) : u[i] = s[Len(w) + i]
  <2> SUFFICES ASSUME NEW i \in 1..Len(u) PROVE u[i] = s[Len(w) + i]
    OBVIOUS
  <2>1. PICK n \in Nat, l \in Nat : n = Len(w) /\ l = Len(u)
    BY <1>2, <1>6
  <2>2. n + i \in 1..n + l /\ ~(n + i <= n) /\ (n + i) - n = i
    BY <2>1
  <2>3. (w \o u)[n + i] = u[i]
    BY <1>6, <2>1, <2>2
  <2> QED BY <1>8, <2>1, <2>2, <2>3
<1>10. PICK r : r = SubSeq(s, p + 1, Len(s))
  OBVIOUS
<1>11. r \in Seq(Byte) /\ Len(r) = Len(s) - p /\ \A i \in 1..Len(s) - p : r[i] = s[p + i]
  <2>1. p + 1 \in Nat \ {0} /\ Len(s) \in Int /\ Len(s) <= Len(s)
    BY <1>2
  <2>2. /\ r \in Seq(Byte)
        /\ Len(r) = IF p + 1 <= Len(s) THEN Len(s) - (p + 1) + 1 ELSE 0
        /\ \A i \in 1..Len(s) - (p + 1) + 1 : r[i] = s[(p + 1) + i - 1]
    BY <1>2, <1>10, <2>1, PartOf
  <2> QED BY <1>2, <2>2
<1>12. Rest = u \o r
  BY <1>1, <1>10 DEF Rest
<1>13. /\ u \o r \in Seq(Byte) /\ Len(u \o r) = Len(u) + Len(r)
       /\ \A i \in 1..Len(u) + Len(r) :
            (u \o r)[i] = IF i <= Len(u) THEN u[i] ELSE r[i - Len(u)]
  BY <1>2, <1>11, ConcatProperties
<1>14. Reached = p - Len(u) /\ p - Len(u) = Len(w)
  BY <1>1, <1>2, <1>6, <1>8 DEF Reached
<1>15. \A i \in 1..Len(u) + Len(r) : (u \o r)[i] = s[Len(w) + i]
  <2> SUFFICES ASSUME NEW i \in 1..Len(u) + Len(r) PROVE (u \o r)[i] = s[Len(w) + i]
    OBVIOUS
  <2>1. PICK n \in Nat, l \in Nat, m \in Nat : n = Len(w) /\ l = Len(u) /\ m = Len(s)
    BY <1>2, <1>6
  <2>2. p = n + l /\ Len(r) = m - p /\ i \in 1..l + (m - p) /\ p \in 0..m
    BY <1>2, <1>8, <1>11, <2>1
  <2>3. CASE i <= l
    <3>1. i \in 1..l
      BY <2>2, <2>3
    <3> QED BY <1>9, <1>13, <2>1, <3>1
  <2>4. CASE ~(i <= l)
    <3>1. i - l \in 1..m - p /\ p + (i - l) = n + i
      BY <2>2, <2>4
    <3>2. (u \o r)[i] = r[i - l]
      BY <1>13, <2>1, <2>4
    <3> QED BY <1>11, <2>1, <3>1, <3>2
  <2> QED BY <2>3, <2>4
<1>16. PICK n \in Nat, l \in Nat, m \in Nat, k \in Nat, j \in Nat :
         n = Len(w) /\ l = Len(u) /\ m = Len(s) /\ k = Len(g) /\ j = Len(b)
  BY <1>2, <1>6
<1>17. n + l = p /\ p \in 0..m /\ n = k + j /\ Len(r) = m - p
  BY <1>2, <1>6, <1>8, <1>11, <1>16
<1>18. n \in Nat /\ n <= m /\ l + (m - p) = m - n /\ l + (m - p) \in Nat
  BY <1>17
<1> QED BY <1>1, <1>2, <1>12, <1>13, <1>14, <1>15, <1>16, <1>17, <1>18

\* A read of n bytes moves on by n, and nothing is put back after it.
LEMMA MovesOn ==
  ASSUME JpegInv, NEW n \in Nat, n >= Len(unget), n <= Len(Rest), Consume(n)
  PROVE  unget' = <<>> /\ Reached' = Reached + n /\ pos' = Reached + n
<1>1. Len(unget) \in Nat /\ pos \in Nat
  BY AheadFacts, StreamTyped, LenProperties DEF JpegInv, JpegTyped
<1>2. PICK l \in Nat, p \in Nat : l = Len(unget) /\ p = pos
  BY <1>1
<1>3. unget' = SubSeq(unget, n + 1, l) /\ pos' = p + (IF n > l THEN n - l ELSE 0)
  BY <1>2 DEF Consume
<1>4. l < n + 1 /\ n + 1 \in Int /\ l \in Int
  BY <1>2
<1>5. unget' = <<>>
  BY <1>3, <1>4, SubSeqEmpty
<1>6. pos' = p + n - l
  BY <1>2, <1>3
<1>7. Len(unget') = 0
  BY <1>5
<1>8. Reached = p - l /\ Reached' = pos' - 0
  BY <1>2, <1>7 DEF Reached
<1> QED BY <1>2, <1>5, <1>6, <1>8

\* The end of the stream was met inside of its last image.
Lost ==
  /\ pos = Len(stream.input) /\ unget = <<>>
  /\ Shown = Len(stream.images) /\ stream.cut

\* Where in an image the scanner is.
Inside ==
  /\ Len(given) = Start /\ Start < Reached
  /\ phase = "marker" => Reached \in Markers
  /\ phase \in {"length", "sos_length"} =>
       \E m \in Markers :
         /\ Reached = m + 2
         /\ stream.input[m + 2] # EOI
         /\ phase = "sos_length" <=> stream.input[m + 2] = SOS
  /\ phase = "data" => Reached + need \in Markers
  /\ phase = "sos_data" =>
       \E n \in Markers : DataBetween(stream.input, Reached + need, n)
  /\ phase = "image" => \E n \in Markers : DataBetween(stream.input, Reached, n)

Parsed ==
  /\ out \in Seq(Seq(Byte)) /\ Shown <= Len(stream.images)
  /\ \A j \in 1..Shown : out[j] = stream.images[j]
  /\ phase \in {"soi", "none"} => buf = <<>>
  /\ phase = "soi" => Reached = Start \/ Lost
  /\ phase = "none" => Shown = Len(stream.images) /\ given = stream.input
  /\ phase = "error" => Lost
  /\ phase = "returned" => Reached = Start
  /\ phase = "marker" => Inside \/ Lost
  /\ phase \in {"length", "sos_length", "data", "sos_data", "image"} => Inside

ImagesInv == stream.jpeg => Parsed

LEMMA ImageFacts ==
  ASSUME JpegInv, Parsed, stream.jpeg
  PROVE  /\ Shown \in Nat /\ Len(stream.images) \in Nat /\ Start \in Nat
         /\ stream.images \in Seq(Seq(Byte))
         /\ Markers \subseteq Nat /\ ImageAt(stream.input, Start, Markers, EndPlace)
         /\ Shown = Len(stream.images) =>
              EndPlace = Len(stream.input) + 1 /\ (stream.cut <=> Start < Len(stream.input))
         /\ Shown < Len(stream.images) =>
              /\ EndPlace = stream.starts[Shown + 2]
              /\ EndPlace \in Nat /\ Start < EndPlace /\ EndPlace <= Len(stream.input)
              /\ stream.images[Shown + 1] = SubSeq(stream.input, Start + 1, EndPlace)
<1>1. PICK r, k : r = stream /\ k = Shown
  OBVIOUS
<1>2. r \in Streams /\ Encoded(r) /\ k = Len(out) /\ k <= Len(r.images)
  BY <1>1, EncodersAssumption DEF JpegInv, JpegTyped, Parsed, Shown
<1>3. /\ r.input \in Seq(Byte) /\ r.images \in Seq(Seq(Byte)) /\ r.starts \in Seq(Nat)
      /\ r.marks \in Seq(SUBSET Nat) /\ r.cut \in BOOLEAN
  BY <1>2, StreamsAssumption
<1>4. Len(r.images) \in Nat /\ Len(r.input) \in Nat /\ k \in Nat
  BY <1>2, <1>3, LenProperties DEF Parsed
<1>5. Len(r.starts) = Len(r.images) + 1 /\ Len(r.marks) = Len(r.starts)
  BY <1>2 DEF Encoded
<1>6. PICK N \in Nat : N = Len(r.images)
  BY <1>4
<1>7. k + 1 \in 1..Len(r.starts) /\ k + 1 \in 1..Len(r.marks) /\ k <= N /\ Len(r.starts) = N + 1
  BY <1>2, <1>4, <1>5, <1>6
<1>8. r.starts[k + 1] \in Nat /\ r.marks[k + 1] \in SUBSET Nat
  BY <1>3, <1>7, ElementOfSeq
<1>9. ImageAt(r.input, r.starts[k + 1], r.marks[k + 1], LastOf(r, k + 1))
  BY <1>2, <1>7 DEF Encoded
<1>10. ASSUME k = N
       PROVE  LastOf(r, k + 1) = Len(r.input) + 1
              /\ (r.cut <=> r.starts[k + 1] < Len(r.input))
  <2>1. ~(k + 1 < Len(r.starts)) /\ Len(r.starts) = k + 1
    BY <1>4, <1>7, <1>10
  <2>2. r.cut <=> r.starts[Len(r.starts)] < Len(r.input)
    BY <1>2 DEF Encoded
  <2> QED BY <2>1, <2>2 DEF LastOf
<1>11. ASSUME k < N
       PROVE  /\ LastOf(r, k + 1) = r.starts[k + 2]
              /\ LastOf(r, k + 1) \in Nat /\ r.starts[k + 1] < LastOf(r, k + 1)
              /\ LastOf(r, k + 1) <= Len(r.input)
              /\ r.images[k + 1] = SubSeq(r.input, r.starts[k + 1] + 1, LastOf(r, k + 1))
  <2>1. k + 1 < Len(r.starts) /\ k + 1 \in 1..N /\ (k + 1) + 1 = k + 2
        /\ k + 2 \in 1..Len(r.starts)
    BY <1>4, <1>7, <1>11
  <2>2. LastOf(r, k + 1) = r.starts[k + 2]
    BY <2>1 DEF LastOf
  <2>3. r.starts[k + 2] \in Nat
    BY <1>3, <2>1, ElementOfSeq
  <2>4. /\ r.starts[k + 1] < r.starts[(k + 1) + 1] /\ r.starts[(k + 1) + 1] <= Len(r.input)
        /\ r.images[k + 1] = SubSeq(r.input, r.starts[k + 1] + 1, r.starts[(k + 1) + 1])
    BY <1>2, <1>6, <2>1 DEF Encoded
  <2> QED BY <2>1, <2>2, <2>3, <2>4
<1>12. Start = r.starts[k + 1] /\ Markers = r.marks[k + 1] /\ EndPlace = LastOf(r, k + 1)
  BY <1>1 DEF Start, Markers, EndPlace
<1> HIDE DEF Start, Markers, EndPlace
<1> QED BY <1>1, <1>2, <1>3, <1>4, <1>6, <1>8, <1>9, <1>10, <1>11, <1>12

\* What a marker says about the bytes behind it.
LEMMA MarkFacts ==
  ASSUME JpegInv, Parsed, stream.jpeg, NEW m, m \in Markers
  PROVE  /\ m \in Nat /\ MarkerAt(stream.input, m, Markers, EndPlace)
         /\ Shown < Len(stream.images) => m + 2 <= Len(stream.input)
         /\ Shown < Len(stream.images) /\ stream.input[m + 2] # EOI =>
              m + 4 <= Len(stream.input)
<1>1. m \in Nat /\ MarkerAt(stream.input, m, Markers, EndPlace)
  BY ImageFacts DEF ImageAt
<1>2. PICK n \in Nat : n = Len(stream.input)
  BY Ahead
<1>3. Shown < Len(stream.images) =>
        m + 2 <= n /\ (stream.input[m + 2] # EOI => m + 4 <= n)
  <2> SUFFICES ASSUME Shown < Len(stream.images)
               PROVE  m + 2 <= n /\ (stream.input[m + 2] # EOI => m + 4 <= n)
    OBVIOUS
  <2>1. PICK e \in Nat : e = EndPlace /\ e <= n
    BY <1>2, ImageFacts
  <2>2. m + 2 <= e /\ (stream.input[m + 2] # EOI => m + 4 <= e)
    BY <1>1, <1>2, <2>1 DEF MarkerAt
  <2> QED BY <1>1, <1>2, <2>1, <2>2
<1> QED BY <1>1, <1>2, <1>3

\* Only an image that is cut ends with the stream.
LEMMA LostAtEnd ==
  ASSUME JpegInv, Parsed, stream.jpeg, Inside \/ Reached = Start,
         Shown = Len(stream.images), Start < Len(stream.input), stream' = stream, out' = out,
         Consume(Len(Rest))
  PROVE  Lost'
<1>1. Len(Rest) \in Nat /\ Len(Rest) >= Len(unget) /\ Len(Rest) <= Len(Rest)
  BY AheadFacts
<1>2. unget' = <<>> /\ pos' = Reached + Len(Rest)
  BY <1>1, MovesOn
<1>3. Reached + Len(Rest) = Len(stream.input)
  BY Ahead
<1>4. stream.cut
  BY ImageFacts
<1> QED BY <1>2, <1>3, <1>4 DEF Lost, Shown

\* A read that falls short: no image that is whole is so long.
LEMMA ShortIsLost ==
  ASSUME JpegInv, Parsed, stream.jpeg, Inside \/ Reached = Start,
         NEW n \in Nat, Shown < Len(stream.images) => Reached + n <= Len(stream.input),
         ReadShort(n), Rest # <<>> \/ Start < Reached, stream' = stream
  PROVE  Parsed'
<1>1. /\ Len(Rest) < n /\ Consume(Len(Rest)) /\ phase' = "error" /\ out' = out
  BY DEF ReadShort
<1>2. PICK L \in Nat, p \in Nat, k \in Nat, a \in Nat :
        L = Len(stream.input) /\ p = Reached /\ k = Len(Rest) /\ a = Start
  BY Ahead, ImageFacts
<1>3. k = L - p /\ p <= L /\ k < n
  BY <1>1, <1>2, Ahead
<1>4. Shown = Len(stream.images)
  <2>1. PICK i \in Nat, N \in Nat : i = Shown /\ N = Len(stream.images)
    BY ImageFacts
  <2>2. i <= N /\ (i < N => p + n <= L)
    BY <1>2, <2>1 DEF Parsed
  <2> QED BY <1>3, <2>1, <2>2
<1>5. a <= p
  BY <1>2 DEF Inside
<1>6. a < L
  <2>1. Rest # <<>> => k # 0
    <3>1. Rest \in Seq(Byte)
      BY Ahead
    <3> QED BY <1>2, <3>1, EmptySeq
  <2>2. k # 0 \/ a < p
    BY <1>2, <2>1
  <2> QED BY <1>3, <1>5, <2>2
<1>7. Lost'
  BY <1>1, <1>2, <1>4, <1>6, LostAtEnd
<1>8. Shown' = Shown /\ stream.images' = stream.images
  BY <1>1 DEF Shown
<1> QED BY <1>1, <1>7, <1>8 DEF Parsed

\* A read that does not, of n bytes: the next ones of the stream.
LEMMA ReadFacts ==
  ASSUME JpegInv, NEW n \in Nat, n >= Len(unget), Read(n)
  PROVE  /\ Reached' = Reached + n /\ pos' = Reached + n /\ unget' = <<>>
         /\ Reached + n <= Len(stream.input)
         /\ \A i \in 1..n : Rest[i] = stream.input[Reached + i]
<1>1. PICK L \in Nat, p \in Nat, k \in Nat :
        L = Len(stream.input) /\ p = Reached /\ k = Len(Rest)
  BY Ahead
<1>2. n <= k /\ Consume(n)
  BY <1>1 DEF Read
<1>3. k = L - p /\ p + n <= L /\ 1..n \subseteq 1..k
  BY <1>1, <1>2, Ahead
<1>4. unget' = <<>> /\ Reached' = Reached + n /\ pos' = Reached + n
  BY <1>1, <1>2, MovesOn
<1>5. \A i \in 1..k : Rest[i] = stream.input[Reached + i]
  BY <1>1, Ahead
<1> QED BY <1>1, <1>3, <1>4, <1>5

\* How many bytes may be put back, and when.
LEMMA UngetFacts ==
  ASSUME JpegInv
  PROVE  /\ Len(unget) \in Nat /\ Len(unget) <= 2
         /\ phase # "marker" => unget = <<>> /\ Len(unget) = 0 /\ pos = Reached
<1>1. Len(unget) \in Nat /\ pos \in Nat
  BY AheadFacts, StreamTyped, LenProperties DEF JpegInv, JpegTyped
<1>2. unget # <<>> => phase = "marker" /\ Len(unget) = 2
  BY DEF JpegInv, PutBack
<1>3. unget = <<>> => Len(unget) = 0
  OBVIOUS
<1>4. PICK l \in Nat, p \in Nat : l = Len(unget) /\ p = pos /\ Reached = p - l
  BY <1>1 DEF Reached
<1>5. l <= 2
  BY <1>2, <1>3, <1>4
<1> QED BY <1>2, <1>3, <1>4, <1>5

LEMMA SoiParsed ==
  ASSUME JpegInv, Parsed, stream.jpeg, stream' = stream, CleanEnd \/ ReadSoi
  PROVE  Parsed'
<1>1. /\ phase = "soi" /\ buf = <<>> /\ unget = <<>> /\ Len(unget) = 0 /\ pos = Reached
      /\ given' = given /\ out' = out /\ Shown' = Shown /\ Start' = Start
      /\ Markers' = Markers
  <2>1. phase = "soi" /\ given' = given /\ out' = out
    BY DEF CleanEnd, ReadSoi, ReadShort
  <2> QED BY <2>1, UngetFacts DEF Parsed, Shown, Start, Markers
<1>2. PICK L \in Nat, p \in Nat, k \in Nat, a \in Nat, i \in Nat, N \in Nat :
        /\ L = Len(stream.input) /\ p = Reached /\ k = Len(Rest) /\ a = Start
        /\ i = Shown /\ N = Len(stream.images)
  BY Ahead, ImageFacts
<1>3. k = L - p /\ p <= L /\ i <= N
  BY <1>2, Ahead DEF Parsed
<1>4. Len(given) = p
  <2>1. Len(buf) = 0
    BY <1>1
  <2> QED BY <1>2, <2>1, Ahead
<1>5. p = a \/ Lost
  BY <1>1, <1>2 DEF Parsed
<1>6. Rest = <<>> <=> k = 0
  <2>1. Rest \in Seq(Byte)
    BY Ahead
  <2> QED BY <1>2, <2>1, EmptySeq
<1>7. Lost => p = L
  BY <1>1, <1>2 DEF Lost
<1>8. CASE CleanEnd
  <2>1. /\ Rest = <<>> /\ phase' = "none" /\ buf' = buf /\ unget' = unget /\ pos' = pos
    BY <1>8 DEF CleanEnd
  <2>2. p = L
    BY <1>3, <1>6, <2>1
  <2>3. i = N
    <3>1. CASE Lost
      BY <1>2, <3>1 DEF Lost
    <3>2. CASE p = a
      <4>1. i < N => a < L
        <5> SUFFICES ASSUME i < N PROVE a < L
          OBVIOUS
        <5>1. PICK e \in Nat : e = EndPlace /\ a < e /\ e <= L
          BY <1>2, ImageFacts
        <5> QED BY <1>2, <5>1
      <4> QED BY <1>2, <1>3, <2>2, <3>2, <4>1
    <3> QED BY <1>5, <3>1, <3>2
  <2>4. given = stream.input
    <3>1. given \in Seq(Byte) /\ stream.input \in Seq(Byte)
      BY StreamTyped DEF JpegInv, JpegTyped
    <3>2. (given \o <<>>) \o <<>> = SubSeq(stream.input, 1, L)
      BY <1>1, <1>2, <2>2 DEF JpegInv, Accounted
    <3>3. given \o <<>> = given
      BY <3>1, ConcatEmptySeq
    <3>4. SubSeq(stream.input, 1, L) = stream.input
      BY <1>2, <3>1, SubSeqFull
    <3> QED BY <3>2, <3>3, <3>4
  <2> QED BY <1>1, <1>2, <2>1, <2>3, <2>4 DEF Parsed
<1>9. CASE ReadSoi
  <2>1. k # 0 /\ p = a /\ a < L
    BY <1>2, <1>3, <1>5, <1>6, <1>7, <1>9 DEF ReadSoi
  <2>2. ImageAt(stream.input, a, Markers, EndPlace) /\ a + 2 \in Markers
    BY <1>2, ImageFacts DEF ImageAt
  <2>3. CASE ReadShort(2)
    <3>1. i < N => a + 2 <= L
      <4>1. i < N => (a + 2) + 2 <= L
        BY <1>2, <2>2, MarkFacts
      <4> QED BY <1>2, <4>1
    <3> QED BY <1>2, <1>6, <2>1, <2>3, <3>1, ShortIsLost
  <2>4. CASE ~ReadShort(2)
    <3>1. Read(2) /\ phase' = IF IsSoi(Next1, Next2) THEN "marker" ELSE "error"
      BY <1>9, <2>4 DEF ReadSoi
    <3>2. /\ Reached' = p + 2 /\ p + 2 <= L
          /\ Next1 = stream.input[p + 1] /\ Next2 = stream.input[p + 2]
      <4>1. /\ Reached' = Reached + 2 /\ Reached + 2 <= Len(stream.input)
            /\ \A j \in 1..2 : Rest[j] = stream.input[Reached + j]
        BY <1>1, <3>1, ReadFacts
      <4> QED BY <1>2, <4>1 DEF Next1, Next2
    <3>3. Next1 = FF /\ Next2 = SOI
      <4>1. p + 1 <= L
        BY <3>2
      <4> QED BY <1>2, <2>1, <2>2, <3>2, <4>1 DEF ImageAt, ByteIs
    <3>4. phase' = "marker"
      BY <3>1, <3>3 DEF IsSoi
    <3>5. Inside'
      <4>1. Len(given') = Start' /\ Start' < Reached' /\ Reached' \in Markers'
        BY <1>1, <1>2, <1>4, <2>1, <2>2, <3>2
      <4> QED BY <3>4, <4>1 DEF Inside
    <3> QED BY <1>1, <3>4, <3>5 DEF Parsed
  <2> QED BY <2>3, <2>4
<1> QED BY <1>8, <1>9

LEMMA EoiParsed ==
  ASSUME JpegInv, JpegInv', Parsed, stream.jpeg, stream' = stream, ReadEoi
  PROVE  Parsed'
<1>1. /\ phase = "marker" /\ Read(2) /\ Next1 = FF /\ Next2 = EOI
      /\ out' = Append(out, buf') /\ phase' = "returned" /\ given' = given
  BY DEF ReadEoi
<1>2. PICK L \in Nat, p \in Nat, a \in Nat, i \in Nat, N \in Nat :
        /\ L = Len(stream.input) /\ p = Reached /\ a = Start
        /\ i = Shown /\ N = Len(stream.images)
  BY Ahead, ImageFacts
<1>3. /\ Reached' = p + 2 /\ pos' = p + 2 /\ unget' = <<>> /\ p + 2 <= L
      /\ stream.input[p + 2] = EOI
  <2>1. /\ Reached' = Reached + 2 /\ Reached + 2 <= Len(stream.input)
        /\ pos' = Reached + 2 /\ unget' = <<>>
        /\ \A j \in 1..2 : Rest[j] = stream.input[Reached + j]
    BY <1>1, UngetFacts, ReadFacts
  <2> QED BY <1>1, <1>2, <2>1 DEF Next2
<1>4. ~Lost
  <2> SUFFICES ASSUME Lost PROVE FALSE
    OBVIOUS
  <2>1. Len(unget) = 0 /\ pos = L
    BY <1>2 DEF Lost
  <2>2. p = L - 0
    BY <1>2, <2>1 DEF Reached
  <2> QED BY <1>2, <1>3, <2>2
<1>5. Inside /\ p \in Markers /\ Len(given) = a
  BY <1>1, <1>2, <1>4 DEF Parsed, Inside
<1>6. p + 2 = EndPlace
  BY <1>2, <1>3, <1>5, MarkFacts DEF MarkerAt
<1>7. i < N
  <2>1. i = N => EndPlace = L + 1
    BY <1>2, ImageFacts
  <2> QED BY <1>2, <1>3, <1>6, <2>1 DEF Parsed
<1>8. /\ stream.starts[i + 2] = p + 2 /\ a < p + 2
      /\ stream.images[i + 1] = SubSeq(stream.input, a + 1, p + 2)
  BY <1>2, <1>6, <1>7, ImageFacts
<1>9. /\ buf' \in Seq(Byte) /\ given \in Seq(Byte) /\ stream.input \in Seq(Byte)
      /\ (given \o buf') \o <<>> = SubSeq(stream.input, 1, p + 2)
  BY <1>1, <1>3, StreamTyped DEF JpegInv, JpegTyped, Accounted
<1>10. buf' = stream.images[i + 1]
  <2>1. PICK s, g, b, w : s = stream.input /\ g = given /\ b = buf' /\ w = SubSeq(s, a + 1, p + 2)
    OBVIOUS
  <2>2. w \in Seq(Byte)
    <3>1. a + 1 \in Nat \ {0} /\ p + 2 \in Int /\ p + 2 <= Len(s)
      BY <1>2, <1>3, <2>1
    <3> QED BY <1>9, <2>1, <3>1, PartOf
  <2>3. g \o b = SubSeq(s, 1, p + 2)
    <3>1. g \o b \in Seq(Byte)
      BY <1>9, <2>1, ConcatProperties
    <3> QED BY <1>9, <2>1, <3>1, ConcatEmptySeq
  <2>4. SubSeq(s, 1, a) \o w = SubSeq(s, 1, p + 2)
    <3>1. 1 \in 1..Len(s) + 1 /\ a \in 1 - 1..Len(s) /\ p + 2 \in a..Len(s)
      BY <1>2, <1>3, <1>8, <2>1
    <3> QED BY <1>9, <2>1, <3>1, ConcatAdjacentSubSeq
  <2>5. g = SubSeq(s, 1, a)
    <3>1. /\ SubSeq(s, 1, a) \in Seq(Byte) /\ Len(SubSeq(s, 1, a)) = a
          /\ \A j \in 1..a : SubSeq(s, 1, a)[j] = s[j]
      <4>1. 1 \in Nat \ {0} /\ a \in Int /\ a <= Len(s)
        BY <1>2, <1>3, <1>8, <2>1
      <4>2. /\ SubSeq(s, 1, a) \in Seq(Byte)
            /\ Len(SubSeq(s, 1, a)) = IF 1 <= a THEN a - 1 + 1 ELSE 0
            /\ \A j \in 1..a - 1 + 1 : SubSeq(s, 1, a)[j] = s[1 + j - 1]
        BY <1>9, <2>1, <4>1, PartOf
      <4>3. a - 1 + 1 = a /\ \A j \in 1..a : 1 + j - 1 = j
        BY <1>2
      <4>4. (IF 1 <= a THEN a ELSE 0) = a
        BY <1>2
      <4> QED BY <4>2, <4>3, <4>4
    <3>2. PICK v : v = SubSeq(s, 1, a)
      OBVIOUS
    <3>3. /\ v \in Seq(Byte) /\ Len(v) = a /\ Len(g) = a /\ g \in Seq(Byte) /\ b \in Seq(Byte)
          /\ g \o b = v \o w
      BY <1>5, <1>9, <2>1, <2>3, <2>4, <3>1, <3>2
    <3>4. \A j \in 1..Len(g) : g[j] = v[j]
      <4> SUFFICES ASSUME NEW j \in 1..Len(g) PROVE g[j] = v[j]
        OBVIOUS
      <4>1. Len(b) \in Nat /\ Len(w) \in Nat
        BY <2>2, <3>3
      <4>2. j \in 1..Len(g) + Len(b) /\ j \in 1..Len(v) + Len(w) /\ j <= Len(g) /\ j <= Len(v)
        BY <1>2, <3>3, <4>1
      <4>3. (g \o b)[j] = g[j] /\ (v \o w)[j] = v[j]
        BY <2>2, <3>3, <4>2, ConcatProperties
      <4> QED BY <3>3, <4>3
    <3> QED BY <3>2, <3>3, <3>4, SeqEqual
  <2>6. g \o b = g \o w /\ g \in Seq(Byte) /\ b \in Seq(Byte)
    BY <1>9, <2>1, <2>3, <2>4, <2>5
  <2>7. b = w
    BY <2>2, <2>6, ConcatSimplifications
  <2> QED BY <1>8, <2>1, <2>7
<1>11. /\ out' \in Seq(Seq(Byte)) /\ Len(out') = i + 1
       /\ \A j \in 1..i : out'[j] = out[j]
       /\ out'[i + 1] = buf'
  BY <1>1, <1>2, <1>9 DEF Parsed, Shown
<1>12. Shown' = i + 1 /\ Start' = p + 2
  <2>1. Shown' = i + 1
    BY <1>11 DEF Shown
  <2>2. (i + 1) + 1 = i + 2
    BY <1>2
  <2> QED BY <1>8, <2>1, <2>2 DEF Start
<1>13. \A j \in 1..i + 1 : out'[j] = stream.images[j]
  <2>1. \A j \in 1..i : out[j] = stream.images[j]
    BY <1>2 DEF Parsed
  <2>2. \A j \in 1..i + 1 : j \in 1..i \/ j = i + 1
    BY <1>2
  <2> QED BY <1>10, <1>11, <2>1, <2>2
<1>14. i + 1 <= Len(stream'.images)
  BY <1>2, <1>7
<1> QED BY <1>1, <1>3, <1>11, <1>12, <1>13, <1>14 DEF Parsed

\* A step within an image.
LEMMA StillInside ==
  ASSUME Parsed, Inside, stream' = stream, given' = given, out' = out,
         phase' \in {"marker", "length", "sos_length", "data", "sos_data", "image"},
         Start < Reached',
         phase' = "marker" => Reached' \in Markers,
         phase' \in {"length", "sos_length"} =>
           \E m \in Markers :
             /\ Reached' = m + 2
             /\ stream.input[m + 2] # EOI
             /\ phase' = "sos_length" <=> stream.input[m + 2] = SOS,
         phase' = "data" => Reached' + need' \in Markers,
         phase' = "sos_data" =>
           \E n \in Markers : DataBetween(stream.input, Reached' + need', n),
         phase' = "image" => \E n \in Markers : DataBetween(stream.input, Reached', n)
  PROVE  Parsed'
<1>1. Start' = Start /\ Shown' = Shown /\ Markers' = Markers
  BY DEF Start, Shown, Markers
<1>2. Len(given') = Start'
  BY <1>1 DEF Inside
<1>3. Inside'
  BY <1>1, <1>2 DEF Inside
<1> QED BY <1>1, <1>3 DEF Parsed

LEMMA MarkerParsed ==
  ASSUME JpegInv, Parsed, stream.jpeg, stream' = stream, ReadMarker
  PROVE  Parsed'
<1>1. /\ phase = "marker"
      /\ \/ ReadShort(2)
         \/ /\ Read(2) /\ ~(Next1 = FF /\ Next2 = EOI)
            /\ phase' = (IF Next1 # FF \/ Next2 \in RST THEN "error"
                         ELSE IF Next2 = SOS THEN "sos_length" ELSE "length")
            /\ given' = given /\ out' = out
  BY DEF ReadMarker
<1>2. PICK L \in Nat, p \in Nat, k \in Nat, a \in Nat, i \in Nat, N \in Nat :
        /\ L = Len(stream.input) /\ p = Reached /\ k = Len(Rest) /\ a = Start
        /\ i = Shown /\ N = Len(stream.images)
  BY Ahead, ImageFacts
<1>3. k = L - p /\ p <= L
  BY <1>2, Ahead
<1>4. CASE Lost
  <2>1. Len(unget) = 0 /\ pos = L /\ unget = <<>>
    BY <1>2, <1>4 DEF Lost
  <2>2. p = L - 0
    BY <1>2, <2>1 DEF Reached
  <2>3. k = 0
    BY <1>3, <2>2
  <2>4. ReadShort(2)
    BY <1>1, <1>2, <2>3 DEF Read
  <2>5. Consume(k) /\ phase' = "error" /\ out' = out
    BY <1>2, <2>4 DEF ReadShort
  <2>6. unget' = <<>> /\ pos' = p + k
    <3>1. k >= Len(unget) /\ k <= Len(Rest)
      BY <1>2, <2>1
    <3> QED BY <1>2, <2>5, <3>1, MovesOn
  <2>7. Lost'
    BY <1>2, <1>4, <2>2, <2>3, <2>5, <2>6 DEF Lost, Shown
  <2> QED BY <2>5, <2>7 DEF Parsed, Shown
<1>5. CASE ~Lost
  <2>1. Inside /\ p \in Markers /\ a < p
    BY <1>1, <1>2, <1>5 DEF Parsed, Inside
  <2>2. CASE ReadShort(2)
    <3>1. i < N => p + 2 <= L
      BY <1>2, <2>1, MarkFacts
    <3> QED BY <1>2, <2>1, <2>2, <3>1, ShortIsLost
  <2>3. CASE ~ReadShort(2)
    <3>1. /\ Reached' = p + 2 /\ p + 2 <= L
          /\ Next1 = stream.input[p + 1] /\ Next2 = stream.input[p + 2]
      <4>1. /\ Reached' = Reached + 2 /\ Reached + 2 <= Len(stream.input)
            /\ \A j \in 1..2 : Rest[j] = stream.input[Reached + j]
        BY <1>1, <2>3, UngetFacts, ReadFacts
      <4> QED BY <1>2, <4>1 DEF Next1, Next2
    <3>2. Next1 = FF /\ IsMarker(Next2) /\ Next2 # EOI
      <4>1. MarkerAt(stream.input, p, Markers, EndPlace)
        BY <2>1, MarkFacts
      <4>2. p + 1 <= L
        BY <3>1
      <4> QED BY <1>1, <1>2, <2>3, <3>1, <4>1, <4>2 DEF MarkerAt, ByteIs
    <3>3. phase' = IF Next2 = SOS THEN "sos_length" ELSE "length"
      BY <1>1, <2>3, <3>2 DEF IsMarker
    <3>4. \E m \in Markers :
             /\ Reached' = m + 2
             /\ stream.input[m + 2] # EOI
             /\ phase' = "sos_length" <=> stream.input[m + 2] = SOS
      BY <2>1, <3>1, <3>2, <3>3
    <3>5. Start < Reached'
      BY <1>2, <2>1, <3>1
    <3>6. given' = given /\ out' = out
      BY <1>1, <2>3
    <3>7. phase' \in {"length", "sos_length"}
      BY <3>3
    <3> QED BY <2>1, <3>4, <3>5, <3>6, <3>7, StillInside
  <2> QED BY <2>2, <2>3
<1> QED BY <1>4, <1>5

LEMMA LengthParsed ==
  ASSUME JpegInv, Parsed, stream.jpeg, stream' = stream, ReadLength
  PROVE  Parsed'
<1>1. /\ phase \in {"length", "sos_length"} /\ phase # "marker"
      /\ \/ ReadShort(2)
         \/ /\ Read(2) /\ given' = given /\ out' = out
            /\ LET seg_len == Next1 * 256 + Next2
               IN  IF ValidLength(seg_len)
                   THEN /\ need' = seg_len - 2
                        /\ phase' = IF phase = "length" THEN "data" ELSE "sos_data"
                   ELSE phase' = "error" /\ UNCHANGED need
  <2>1. ReadLength
    OBVIOUS
  <2>2. phase \in {"length", "sos_length"} => phase # "marker"
    OBVIOUS
  <2> HIDE DEF Next1, Next2
  <2> QED BY <2>1, <2>2, Zenon DEF ReadLength
<1>2. PICK L \in Nat, p \in Nat, a \in Nat, i \in Nat, N \in Nat :
        /\ L = Len(stream.input) /\ p = Reached /\ a = Start
        /\ i = Shown /\ N = Len(stream.images)
  BY Ahead, ImageFacts
<1>3. Inside /\ a < p
  BY <1>1, <1>2 DEF Parsed, Inside
<1>4. PICK m \in Markers :
        /\ p = m + 2
        /\ stream.input[m + 2] # EOI
        /\ phase = "sos_length" <=> stream.input[m + 2] = SOS
  BY <1>1, <1>2, <1>3 DEF Inside
<1>5. m \in Nat /\ MarkerAt(stream.input, m, Markers, EndPlace) /\ (i < N => m + 4 <= L)
  BY <1>2, <1>4, MarkFacts
<1>6. CASE ReadShort(2)
  <2>1. i < N => p + 2 <= L
    BY <1>4, <1>5
  <2> QED BY <1>2, <1>3, <1>6, <2>1, ShortIsLost
<1>7. CASE ~ReadShort(2)
  <2>1. /\ Reached' = p + 2 /\ p + 2 <= L
        /\ Next1 = stream.input[p + 1] /\ Next2 = stream.input[p + 2]
    <3>1. /\ Reached' = Reached + 2 /\ Reached + 2 <= Len(stream.input)
          /\ \A j \in 1..2 : Rest[j] = stream.input[Reached + j]
      BY <1>1, <1>7, UngetFacts, ReadFacts
    <3> QED BY <1>2, <3>1 DEF Next1, Next2
  <2>2. /\ p + 1 = m + 3 /\ p + 2 = m + 4 /\ m + 4 <= L
    BY <1>2, <1>4, <1>5, <2>1
  <2>3. PICK x \in Nat, y \in Nat, z \in Nat : x = Next1 /\ y = Next2 /\ z = x * 256 + y
    <3>1. stream.input \in Seq(Byte) /\ p + 1 \in 1..Len(stream.input) /\ p + 2 \in 1..Len(stream.input)
      BY <1>2, <2>1, Ahead
    <3>2. stream.input[p + 1] \in Byte /\ stream.input[p + 2] \in Byte
      BY <3>1, ElementOfSeq
    <3>3. PICK x \in Byte, y \in Byte : x = Next1 /\ y = Next2
      BY <2>1, <3>2
    <3>4. x \in Nat /\ y \in Nat /\ x * 256 + y \in Nat
      BY DEF Byte
    <3> QED BY <3>3, <3>4
  <2>4. SegmentEnd(stream.input, m) = m + 2 + z
    <3>1. /\ stream.input[m + 3] = x /\ stream.input[m + 4] = y
          /\ m + 2 + x * 256 + y = m + 2 + (x * 256 + y)
      BY <1>5, <2>1, <2>2, <2>3
    <3> QED BY <2>3, <3>1 DEF SegmentEnd
  <2>5. m + 4 <= m + 2 + z
    BY <1>2, <1>4, <1>5, <2>2, <2>4 DEF MarkerAt
  <2>6. need' = z - 2 /\ phase' = IF phase = "length" THEN "data" ELSE "sos_data"
    <3>1. ValidLength(z) /\ Next1 * 256 + Next2 = z
      BY <1>5, <2>3, <2>5 DEF ValidLength
    <3> QED BY <1>1, <1>7, <3>1, Zenon
  <2>7. Reached' + need' = SegmentEnd(stream.input, m)
    <3>1. Reached' = m + 4 /\ (m + 4) + (z - 2) = m + 2 + z
      BY <1>5, <2>1, <2>2
    <3> QED BY <2>4, <2>6, <3>1
  <2>8. IF stream.input[m + 2] = SOS
        THEN \E n \in Markers : DataBetween(stream.input, SegmentEnd(stream.input, m), n)
        ELSE SegmentEnd(stream.input, m) \in Markers
    BY <1>2, <1>4, <1>5, <2>2 DEF MarkerAt
  <2>9. phase' = "data" => Reached' + need' \in Markers
    BY <1>4, <2>6, <2>7, <2>8
  <2>10. phase' = "sos_data" =>
           \E n \in Markers : DataBetween(stream.input, Reached' + need', n)
    BY <1>1, <1>4, <2>6, <2>7, <2>8
  <2>11. Start < Reached' /\ phase' \in {"data", "sos_data"} /\ given' = given /\ out' = out
    BY <1>1, <1>2, <1>3, <1>7, <2>1, <2>6
  <2> QED BY <1>3, <2>9, <2>10, <2>11, StillInside
<1> QED BY <1>6, <1>7

LEMMA DataParsed ==
  ASSUME JpegInv, Parsed, stream.jpeg, stream' = stream, ReadData
  PROVE  Parsed'
<1>1. /\ phase \in {"data", "sos_data"} /\ phase # "marker"
      /\ \/ ReadShort(need)
         \/ /\ Read(need) /\ given' = given /\ out' = out
            /\ phase' = IF phase = "data" THEN "marker" ELSE "image"
  BY DEF ReadData
<1>2. PICK L \in Nat, p \in Nat, a \in Nat, i \in Nat, N \in Nat, q \in Nat :
        /\ L = Len(stream.input) /\ p = Reached /\ a = Start
        /\ i = Shown /\ N = Len(stream.images) /\ q = need
  BY Ahead, ImageFacts DEF JpegInv, JpegTyped
<1>3. Inside /\ a < p
  BY <1>1, <1>2 DEF Parsed, Inside
<1>4. phase = "data" => p + q \in Markers
  BY <1>2, <1>3 DEF Inside
<1>5. phase = "sos_data" => \E n \in Markers : DataBetween(stream.input, p + q, n)
  BY <1>2, <1>3 DEF Inside
<1>6. i < N => p + q <= L
  <2> SUFFICES ASSUME i < N PROVE p + q <= L
    OBVIOUS
  <2>1. PICK n \in Markers : p + q <= n
    BY <1>1, <1>2, <1>4, <1>5 DEF DataBetween
  <2>2. n \in Nat /\ n + 2 <= L
    BY <1>2, <2>1, MarkFacts
  <2> QED BY <1>2, <2>1, <2>2
<1>7. CASE ReadShort(q)
  BY <1>2, <1>3, <1>6, <1>7, ShortIsLost
<1>8. CASE ~ReadShort(q)
  <2>1. Len(unget) = 0
    BY <1>1, UngetFacts
  <2>2. Reached' = p + q
    BY <1>1, <1>2, <1>8, <2>1, ReadFacts
  <2>3. /\ phase' = "marker" => Reached' \in Markers
        /\ phase' = "image" => \E n \in Markers : DataBetween(stream.input, Reached', n)
    BY <1>1, <1>2, <1>4, <1>5, <1>8, <2>2
  <2>4. Start < Reached' /\ phase' \in {"marker", "image"} /\ given' = given /\ out' = out
    BY <1>1, <1>2, <1>3, <1>8, <2>2
  <2> QED BY <1>3, <2>3, <2>4, StillInside
<1> QED BY <1>1, <1>2, <1>7, <1>8

LEMMA AgainParsed ==
  ASSUME JpegInv, Parsed, stream.jpeg, stream' = stream, ScanAgain
  PROVE  Parsed'
<1>1. /\ phase \in {"returned", "error"} /\ phase' = "soi" /\ buf' = <<>>
      /\ UNCHANGED <<pos, unget, out>>
  BY DEF ScanAgain
<1>2. Reached' = Reached /\ Shown' = Shown /\ Start' = Start
  BY <1>1 DEF Reached, Shown, Start
<1>3. Lost => Lost'
  BY <1>1, <1>2 DEF Lost
<1>4. Reached' = Start' \/ Lost'
  BY <1>1, <1>2, <1>3 DEF Parsed
<1> QED BY <1>1, <1>2, <1>4 DEF Parsed

\* Image data end with the place of a marker, and not before.
LEMMA ImageParsed ==
  ASSUME JpegInv, Parsed, stream.jpeg, stream' = stream,
         ImageByte \/ ImagePair \/ ImageMarker \/ ImageEnd
  PROVE  Parsed'
<1>1. phase = "image" /\ phase # "marker" /\ given' = given /\ out' = out
  BY DEF ImageByte, ImagePair, ImageMarker, ImageEnd
<1>2. PICK L \in Nat, p \in Nat, k \in Nat, a \in Nat, i \in Nat, N \in Nat :
        /\ L = Len(stream.input) /\ p = Reached /\ k = Len(Rest) /\ a = Start
        /\ i = Shown /\ N = Len(stream.images)
  BY Ahead, ImageFacts
<1>3. /\ k = L - p /\ p <= L /\ unget = <<>> /\ Len(unget) = 0 /\ pos = p
      /\ \A j \in 1..k : Rest[j] = stream.input[p + j]
  BY <1>1, <1>2, Ahead, UngetFacts
<1>4. Inside /\ a < p
  BY <1>1, <1>2 DEF Parsed, Inside
<1>5. PICK n \in Markers : DataBetween(stream.input, p, n)
  BY <1>1, <1>2, <1>4 DEF Inside
<1>6. n \in Nat /\ p <= n /\ MarkerAt(stream.input, n, Markers, EndPlace)
      /\ (i < N => n + 2 <= L)
  BY <1>2, <1>5, MarkFacts DEF DataBetween
<1>7. \A j \in p + 1..n :
        j <= L /\ stream.input[j] = FF =>
          j < n /\ (j + 1 <= L => ~IsMarker(stream.input[j + 1]))
  BY <1>2, <1>5 DEF DataBetween
<1>8. /\ n + 1 <= L => stream.input[n + 1] = FF
      /\ n + 2 <= L => IsMarker(stream.input[n + 2])
  BY <1>2, <1>6 DEF MarkerAt, ByteIs
<1>9. \A q \in p..n : DataBetween(stream.input, q, n)
  <2> SUFFICES ASSUME NEW q \in p..n PROVE DataBetween(stream.input, q, n)
    OBVIOUS
  <2>1. q <= n /\ \A j \in q + 1..n : j \in p + 1..n
    BY <1>2, <1>6
  <2> QED BY <1>2, <1>7, <2>1 DEF DataBetween
<1>10. \A b \in Byte : InImageData(b) <=> ~IsMarker(b)
  BY DEF InImageData, IsMarker
<1>11. ASSUME NEW q \in p..n, Reached' = q, phase' = "image" PROVE Parsed'
  <2>1. \E m \in Markers : DataBetween(stream.input, Reached', m)
    BY <1>9, <1>11
  <2>2. Start < Reached'
    BY <1>2, <1>4, <1>11
  <2> QED BY <1>1, <1>4, <1>11, <2>1, <2>2, StillInside
<1>12. ASSUME k >= 2
       PROVE  /\ Next1 = stream.input[p + 1] /\ Next2 = stream.input[p + 2]
              /\ p + 2 <= L /\ Next2 \in Byte
  <2>1. 1 \in 1..k /\ 2 \in 1..k /\ p + 2 <= L /\ p + 2 \in 1..Len(stream.input)
    BY <1>2, <1>3, <1>12
  <2>2. stream.input[p + 2] \in Byte
    BY <2>1, Ahead, ElementOfSeq
  <2> QED BY <1>3, <2>1, <2>2 DEF Next1, Next2
<1>13. CASE ImageByte
  <2>1. Rest # <<>> /\ Next1 # FF /\ Read(1) /\ phase' = phase
    BY <1>13 DEF ImageByte
  <2>2. Reached' = p + 1 /\ p + 1 <= L /\ Next1 = stream.input[p + 1]
    <3>1. /\ Reached' = Reached + 1 /\ Reached + 1 <= Len(stream.input)
          /\ \A j \in 1..1 : Rest[j] = stream.input[Reached + j]
      BY <1>3, <2>1, ReadFacts
    <3> QED BY <1>2, <3>1 DEF Next1
  <2>3. p + 1 \in p..n
    <3>1. p # n
      BY <1>8, <2>1, <2>2
    <3> QED BY <1>2, <1>6, <3>1
  <2> QED BY <1>1, <1>11, <2>1, <2>2, <2>3
<1>14. CASE ImagePair
  <2>1. k >= 2 /\ Next1 = FF /\ InImageData(Next2) /\ Read(2) /\ phase' = phase
    BY <1>2, <1>14 DEF ImagePair
  <2>2. Reached' = p + 2
    BY <1>2, <1>3, <2>1, ReadFacts
  <2>3. stream.input[p + 1] = FF /\ ~IsMarker(stream.input[p + 2]) /\ p + 2 <= L
    BY <1>10, <1>12, <2>1
  <2>4. p + 2 \in p..n
    <3>1. p # n
      BY <1>8, <2>3
    <3>2. p + 1 \in p + 1..n /\ p + 1 <= L
      BY <1>2, <1>6, <2>3, <3>1
    <3>3. p + 1 < n
      BY <1>7, <2>3, <3>2
    <3> QED BY <1>2, <1>6, <3>3
  <2> QED BY <1>1, <1>11, <2>1, <2>2, <2>4
<1>15. CASE ImageMarker
  <2>1. /\ k >= 2 /\ Next1 = FF /\ ~InImageData(Next2)
        /\ pos' = pos + (2 - Len(unget)) /\ unget' = <<Next1, Next2>>
        /\ phase' = "marker"
    BY <1>2, <1>15 DEF ImageMarker, Unread
  <2>2. stream.input[p + 1] = FF /\ IsMarker(stream.input[p + 2]) /\ p + 2 <= L
    BY <1>10, <1>12, <2>1
  <2>3. p = n
    <3> SUFFICES ASSUME p # n PROVE FALSE
      OBVIOUS
    <3>1. p + 1 \in p + 1..n /\ p + 1 <= L /\ (p + 1) + 1 = p + 2
      BY <1>2, <1>6, <2>2
    <3> QED BY <1>7, <2>2, <3>1
  <2>4. Reached' = p
    <3>1. Len(unget') = 2 /\ pos' = p + 2
      BY <1>2, <1>3, <2>1
    <3> QED BY <1>2, <3>1 DEF Reached
  <2>5. Start < Reached' /\ Reached' \in Markers
    BY <1>2, <1>4, <2>3, <2>4
  <2> QED BY <1>1, <1>4, <2>1, <2>5, StillInside
<1>16. CASE ImageEnd
  <2>1. Rest \in {<<>>, <<FF>>} /\ Read(k) /\ phase' = "marker"
    BY <1>2, <1>16 DEF ImageEnd
  <2>2. k <= 1
    <3>1. Len(<<>>) = 0 /\ Len(<<FF>>) = 1
      OBVIOUS
    <3> QED BY <1>2, <2>1, <3>1
  <2>3. Shown = Len(stream.images)
    <3>1. ~(i < N)
      BY <1>2, <1>3, <1>6, <2>2
    <3> QED BY <1>2, <3>1 DEF Parsed
  <2>4. a < L /\ Consume(Len(Rest))
    BY <1>2, <1>3, <1>4, <2>1 DEF Read
  <2>5. Lost'
    BY <1>1, <1>2, <1>4, <2>3, <2>4, LostAtEnd
  <2>6. Shown' = Shown
    BY <1>1 DEF Shown
  <2> QED BY <1>1, <2>1, <2>5, <2>6 DEF Parsed
<1> QED BY <1>13, <1>14, <1>15, <1>16

LEMMA ImagesStart ==
  ASSUME NEW S, S \subseteq Streams, JpegInit(S)
  PROVE  ImagesInv
<1>1. /\ phase = "soi" /\ pos = 0 /\ unget = <<>> /\ buf = <<>> /\ out = <<>>
      /\ stream \in Streams
  BY DEF JpegInit
<1>2. Shown = 0 /\ Reached = 0
  <2>1. Len(out) = 0 /\ Len(unget) = 0 /\ pos - 0 = 0
    BY <1>1
  <2> QED BY <2>1 DEF Shown, Reached
<1>3. stream.images \in Seq(Seq(Byte))
  BY <1>1, StreamsAssumption
<1>4. Len(stream.images) \in Nat /\ out \in Seq(Seq(Byte))
  BY <1>1, <1>3, LenProperties, EmptySeq
<1>5. stream.jpeg => Start = 0
  BY <1>1, <1>2, EncodersAssumption DEF Encoded, Start
<1>6. Shown <= Len(stream.images)
  BY <1>2, <1>4
<1> QED BY <1>1, <1>2, <1>4, <1>5, <1>6 DEF ImagesInv, Parsed

LEMMA ImagesKeep ==
  ASSUME JpegInv, JpegInv', ImagesInv, JpegNext \/ UNCHANGED jpegVars
  PROVE  ImagesInv'
<1>1. CASE UNCHANGED jpegVars
  BY <1>1 DEF jpegVars, ImagesInv, Parsed, Inside, Lost, Reached, Shown, Start, Markers
<1>2. CASE JpegNext
  <2>1. Scan /\ stream' = stream
    BY <1>2 DEF JpegNext
  <2> SUFFICES ASSUME stream.jpeg PROVE Parsed'
    BY <2>1 DEF ImagesInv
  <2>2. Parsed
    BY DEF ImagesInv
  <2> QED BY <2>1, <2>2, SoiParsed, EoiParsed, MarkerParsed, LengthParsed, DataParsed,
             AgainParsed, ImageParsed DEF Scan
<1> QED BY <1>1, <1>2

LEMMA ParsedExact ==
  ASSUME JpegInv, ImagesInv
  PROVE  ImagesExact
<1> SUFFICES ASSUME stream.jpeg
             PROVE  /\ IsPrefix(out, stream.images)
                    /\ phase \in {"none", "error"} => out = stream.images
                    /\ phase = "error" => stream.cut
                    /\ phase = "none" => given = stream.input
  BY DEF ImagesExact
<1>1. Parsed
  BY DEF ImagesInv
<1>2. PICK o, w : o = out /\ w = stream.images
  OBVIOUS
<1>3. /\ o \in Seq(Seq(Byte)) /\ w \in Seq(Seq(Byte)) /\ Len(o) \in Nat /\ Len(w) \in Nat
      /\ Len(o) <= Len(w) /\ \A j \in 1..Len(o) : o[j] = w[j]
  BY <1>1, <1>2, ImageFacts DEF Parsed, Shown
<1>4. SubSeq(o, 1, Len(o)) = SubSeq(w, 1, Len(o))
  <2>1. 1 \in Nat \ {0} /\ Len(o) \in Int
    BY <1>3
  <2>2. PICK n \in Nat : n = Len(o)
    BY <1>3
  <2>3. /\ SubSeq(w, 1, n) \in Seq(Seq(Byte))
        /\ Len(SubSeq(w, 1, n)) = IF 1 <= n THEN n - 1 + 1 ELSE 0
        /\ \A j \in 1..n - 1 + 1 : SubSeq(w, 1, n)[j] = w[1 + j - 1]
    BY <1>3, <2>1, <2>2, PartOf
  <2>4. n - 1 + 1 = n /\ (\A j \in 1..n : 1 + j - 1 = j) /\ (IF 1 <= n THEN n ELSE 0) = n
    OBVIOUS
  <2>5. PICK v : v = SubSeq(w, 1, n)
    OBVIOUS
  <2>6. v \in Seq(Seq(Byte)) /\ Len(v) = Len(o) /\ \A j \in 1..Len(o) : o[j] = v[j]
    BY <1>3, <2>2, <2>3, <2>4, <2>5
  <2>7. o = v
    BY <1>3, <2>6, SeqEqual
  <2> QED BY <1>3, <2>2, <2>5, <2>7, SubSeqFull
<1>5. IsPrefix(out, stream.images)
  BY <1>2, <1>3, <1>4 DEF IsPrefix
<1>6. Len(o) = Len(w) => o = w
  BY <1>3, SeqEqual
<1> QED BY <1>1, <1>2, <1>5, <1>6 DEF Parsed, Lost, Shown

-----------------------------------------------------------------------------
(* Multipart responses: lines.                                             *)

HttpTyped ==
  /\ response \in Responses
  /\ line_start \in 0..Len(tokens)
  /\ reading \in {"closed", "unopened", "skip", "headers", "body", "returned", "none",
                  "error"}
  /\ content_length \in Nat \union {NoLength}
  /\ received \in 0..line_start
  /\ images \in Seq(Nat \X Nat)
  /\ reading = "body" => content_length \in Nat

LEMMA ResponseTyped ==
  ASSUME HttpTyped
  PROVE  /\ tokens \in Seq(STRING) /\ Len(tokens) \in Nat
         /\ line_start \in Nat /\ line_start <= Len(tokens)
         /\ response.bodies \in Seq(Nat) /\ response.lengths \in Seq(Nat)
         /\ Len(response.bodies) \in Nat
         /\ response.honest \in BOOLEAN /\ response.cut \in BOOLEAN
<1>1. /\ response.tokens \in Seq(STRING) /\ response.bodies \in Seq(Nat)
      /\ response.lengths \in Seq(Nat)
      /\ response.honest \in BOOLEAN /\ response.cut \in BOOLEAN
  <2>1. /\ response.tokens \in Seq(STRING) /\ response.bodies \in Seq(Nat)
        /\ response.lengths \in Seq(Nat \ {0})
        /\ response.honest \in BOOLEAN /\ response.cut \in BOOLEAN
    BY ResponsesAssumption DEF HttpTyped
  <2>2. response.lengths \in Seq(Nat)
    BY <2>1
  <2> QED BY <2>1, <2>2
<1>2. line_start \in 0..Len(tokens)
  BY DEF HttpTyped
<1>3. tokens \in Seq(STRING) /\ Len(tokens) \in Nat /\ Len(response.bodies) \in Nat
  BY <1>1, LenProperties DEF tokens
<1> QED BY <1>1, <1>2, <1>3

\* A set of numbers above m has a least one.
LEMMA LeastOf ==
  ASSUME NEW M, M \subseteq Nat, M # {}
  PROVE  \E k \in M : \A m \in M : k <= m
<1> DEFINE Below == OpToRel(<, Nat)
<1>1. PICK k \in M : \A m \in M : <<m, k>> \notin Below
  <2> HIDE DEF Below
  <2>1. IsWellFoundedOn(Below, Nat)
    BY NatLessThanWellFounded DEF Below
  <2> QED BY <2>1, WFMin, Zenon
<1>2. \A m \in M : ~(m < k)
  <2> SUFFICES ASSUME NEW m \in M, m < k PROVE FALSE
    OBVIOUS
  <2>1. m \in Nat /\ k \in Nat
    BY <1>1
  <2>2. <<m, k>> \in Below
    BY <2>1, Zenon DEF OpToRel
  <2> QED BY <1>1, <2>2
<1>3. \A m \in M : k <= m
  <2> SUFFICES ASSUME NEW m \in M PROVE k <= m
    OBVIOUS
  <2>1. m \in Nat /\ k \in Nat /\ ~(m < k)
    BY <1>1, <1>2
  <2> QED BY <2>1
<1> QED BY <1>1, <1>3

\* A line ends with the next Newline, or with the stream.
LEMMA LineEnds ==
  ASSUME HttpTyped
  PROVE  /\ LineEnd \in line_start..Len(tokens)
         /\ \A k \in line_start + 1..LineEnd - 1 : tokens[k] # Newline
         /\ NewlinesAhead # {} => line_start + 1 <= LineEnd /\ tokens[LineEnd] = Newline
         /\ NewlinesAhead = {} =>
              LineEnd = Len(tokens)
              /\ \A k \in line_start + 1..Len(tokens) : tokens[k] # Newline
<1>1. line_start \in Nat /\ Len(tokens) \in Nat /\ line_start <= Len(tokens)
  BY ResponseTyped
<1>2. CASE NewlinesAhead = {}
  <2>1. LineEnd = Len(tokens)
    BY <1>2 DEF LineEnd
  <2>2. \A k \in line_start + 1..Len(tokens) : tokens[k] # Newline
    BY <1>2 DEF NewlinesAhead
  <2> QED BY <1>1, <1>2, <2>1, <2>2
<1>3. CASE NewlinesAhead # {}
  <2>1. NewlinesAhead \subseteq Nat
    BY <1>1 DEF NewlinesAhead
  <2>2. \E k \in NewlinesAhead : \A m \in NewlinesAhead : k <= m
    BY <1>3, <2>1, LeastOf
  <2>3. LineEnd = CHOOSE k \in NewlinesAhead : \A m \in NewlinesAhead : k <= m
    BY <1>3 DEF LineEnd
  <2>4. LineEnd \in NewlinesAhead /\ \A m \in NewlinesAhead : LineEnd <= m
    BY <2>2, <2>3
  <2>5. LineEnd \in line_start + 1..Len(tokens) /\ tokens[LineEnd] = Newline
    BY <2>4 DEF NewlinesAhead
  <2>6. ASSUME NEW k \in line_start + 1..LineEnd - 1, tokens[k] = Newline
        PROVE  FALSE
    <3>1. k \in line_start + 1..Len(tokens)
      BY <1>1, <2>5
    <3>2. k \in NewlinesAhead
      BY <2>6, <3>1 DEF NewlinesAhead
    <3> QED BY <1>1, <2>4, <2>5, <3>2
  <2> QED BY <1>1, <1>3, <2>5, <2>6
<1> QED BY <1>2, <1>3

LEMMA OneAndTwo ==
  ASSUME NEW S, NEW s \in Seq(S), NEW b, NEW c
  PROVE  /\ s = <<b>> <=> Len(s) = 1 /\ s[1] = b
         /\ s = <<b, c>> <=> Len(s) = 2 /\ s[1] = b /\ s[2] = c
<1>1. ASSUME Len(s) = 1, s[1] = b PROVE s = <<b>>
  <2>1. b \in S
    BY <1>1, ElementOfSeq
  <2>2. <<b>> \in Seq(S) /\ Len(<<b>>) = 1 /\ <<b>>[1] = b
    BY <2>1
  <2>3. \A i \in 1..1 : i = 1
    OBVIOUS
  <2>4. PICK v : v = <<b>>
    OBVIOUS
  <2>5. v \in Seq(S) /\ Len(s) = Len(v) /\ \A i \in 1..Len(s) : s[i] = v[i]
    BY <1>1, <2>2, <2>3, <2>4
  <2> QED BY <2>4, <2>5, SeqEqual
<1>2. ASSUME Len(s) = 2, s[1] = b, s[2] = c PROVE s = <<b, c>>
  <2>1. b \in S /\ c \in S
    BY <1>2, ElementOfSeq
  <2>2. /\ <<b, c>> \in Seq(S) /\ Len(<<b, c>>) = 2
        /\ <<b, c>>[1] = b /\ <<b, c>>[2] = c
    BY <2>1
  <2>3. \A i \in 1..2 : i = 1 \/ i = 2
    OBVIOUS
  <2>4. PICK v : v = <<b, c>>
    OBVIOUS
  <2>5. v \in Seq(S) /\ Len(s) = Len(v) /\ \A i \in 1..Len(s) : s[i] = v[i]
    BY <1>2, <2>2, <2>3, <2>4
  <2> QED BY <2>4, <2>5, SeqEqual
<1> QED BY <1>1, <1>2

\* What the code sees of a line, in terms of the tokens.
LEMMA LineIs ==
  ASSUME HttpTyped, ~AtEnd
  PROVE  /\ line_start + 1 <= Len(tokens) /\ line_start + 1 <= LineEnd
         /\ Line = <<>> <=> tokens[line_start + 1] = Newline
         /\ Line = <<>> => LineEnd = line_start + 1
         /\ Line # <<>> => Line[1] = tokens[line_start + 1]
         /\ Line = <<Boundary>> <=>
              /\ tokens[line_start + 1] = Boundary
              /\ \/ line_start + 1 = Len(tokens) /\ LineEnd = line_start + 1
                 \/ /\ line_start + 2 <= Len(tokens) /\ tokens[line_start + 2] = Newline
                    /\ LineEnd = line_start + 2
         /\ Line = <<Boundary, Dashes>> <=>
              /\ tokens[line_start + 1] = Boundary
              /\ line_start + 2 <= Len(tokens) /\ tokens[line_start + 2] = Dashes
              /\ \/ line_start + 2 = Len(tokens)
                 \/ line_start + 3 <= Len(tokens) /\ tokens[line_start + 3] = Newline
         /\ Contains(Line, NoText) => \E k \in line_start + 1..LineEnd : tokens[k] = NoText
         /\ EndsHeaders <=>
              \A k \in line_start + 1..LineEnd : tokens[k] = Space \/ tokens[k] = Newline
<1> DEFINE t == tokens
           m == line_start
           e == LineEnd
           q == IF NewlinesAhead = {} THEN e ELSE e - 1
<1>1. t \in Seq(STRING) /\ Len(t) \in Nat /\ m \in Nat /\ m + 1 <= Len(t)
  BY ResponseTyped DEF AtEnd
<1>2. /\ e \in m..Len(t) /\ \A k \in m + 1..e - 1 : t[k] # Newline
      /\ NewlinesAhead # {} => m + 1 <= e /\ t[e] = Newline
      /\ NewlinesAhead = {} => e = Len(t) /\ \A k \in m + 1..Len(t) : t[k] # Newline
  BY LineEnds
<1>3. Line = SubSeq(t, m + 1, q)
  BY DEF Line
<1>4. /\ q \in m..Len(t) /\ (q = e \/ q = e - 1)
      /\ \A k \in m + 1..q : t[k] # Newline
      /\ \/ q = Len(t) /\ e = q
         \/ q + 1 <= Len(t) /\ t[q + 1] = Newline /\ e = q + 1
  BY <1>1, <1>2
<1> HIDE DEF t, m, e, q
<1>5. Line \in Seq(STRING) /\ Len(Line) = q - m
      /\ \A i \in 1..q - m : Line[i] = t[m + i]
  <2>1. m + 1 \in Nat \ {0} /\ q \in Int /\ q <= Len(t)
    BY <1>1, <1>4
  <2>2. /\ SubSeq(t, m + 1, q) \in Seq(STRING)
        /\ Len(SubSeq(t, m + 1, q)) = IF m + 1 <= q THEN q - (m + 1) + 1 ELSE 0
        /\ \A i \in 1..q - (m + 1) + 1 : SubSeq(t, m + 1, q)[i] = t[(m + 1) + i - 1]
    BY <1>1, <2>1, PartOf
  <2>3. q - (m + 1) + 1 = q - m /\ \A i \in 1..q - m : (m + 1) + i - 1 = m + i
    BY <1>1, <1>4
  <2>4. (IF m + 1 <= q THEN q - (m + 1) + 1 ELSE 0) = q - m
    BY <1>1, <1>4
  <2> QED BY <1>3, <2>2, <2>3, <2>4
<1>6. m + 1 <= e
  BY <1>1, <1>4
<1>7. Line = <<>> <=> q = m
  BY <1>1, <1>4, <1>5
<1>8. q = m <=> t[m + 1] = Newline
  BY <1>1, <1>4
<1>9. q = m => e = m + 1
  BY <1>1, <1>4
<1>10. Line # <<>> => Line[1] = t[m + 1]
  BY <1>1, <1>4, <1>5, <1>7
<1>11. Boundary # Newline /\ Dashes # Newline /\ NoText # Newline
  BY DEF Boundary, Dashes, NoText, Newline
<1>12. m \in Nat /\ q \in Nat /\ q >= m /\ e \in Nat
  BY <1>1, <1>4
<1>13. Line = <<Boundary>> <=> q = m + 1 /\ t[m + 1] = Boundary
  <2>1. Line = <<Boundary>> <=> Len(Line) = 1 /\ Line[1] = Boundary
    BY <1>5, OneAndTwo
  <2>2. Len(Line) = 1 <=> q = m + 1
    BY <1>5, <1>12
  <2>3. q = m + 1 => Line[1] = t[m + 1]
    BY <1>5, <1>12
  <2> QED BY <2>1, <2>2, <2>3
<1>14. Line = <<Boundary, Dashes>> <=>
         q = m + 2 /\ t[m + 1] = Boundary /\ t[m + 2] = Dashes
  <2>1. Line = <<Boundary, Dashes>> <=>
          Len(Line) = 2 /\ Line[1] = Boundary /\ Line[2] = Dashes
    BY <1>5, OneAndTwo
  <2>2. Len(Line) = 2 <=> q = m + 2
    BY <1>5, <1>12
  <2>3. q = m + 2 => Line[1] = t[m + 1] /\ Line[2] = t[m + 2]
    BY <1>5, <1>12
  <2> QED BY <2>1, <2>2, <2>3
<1>15. q = m + 1 /\ t[m + 1] = Boundary <=>
         /\ t[m + 1] = Boundary
         /\ \/ m + 1 = Len(t) /\ e = m + 1
            \/ m + 2 <= Len(t) /\ t[m + 2] = Newline /\ e = m + 2
  <2>1. ASSUME q = m + 1, t[m + 1] = Boundary
        PROVE  \/ m + 1 = Len(t) /\ e = m + 1
               \/ m + 2 <= Len(t) /\ t[m + 2] = Newline /\ e = m + 2
    <3>1. \/ q = Len(t) /\ e = q
          \/ q + 1 <= Len(t) /\ t[q + 1] = Newline /\ e = q + 1
      BY <1>4
    <3>2. q + 1 = m + 2
      BY <1>12, <2>1
    <3> QED BY <2>1, <3>1, <3>2
  <2>2. ASSUME t[m + 1] = Boundary,
               \/ m + 1 = Len(t) /\ e = m + 1
               \/ m + 2 <= Len(t) /\ t[m + 2] = Newline /\ e = m + 2
        PROVE  q = m + 1
    <3>1. q # m
      BY <1>8, <1>11, <2>2
    <3>2. q = e \/ q = e - 1
      BY <1>4
    <3>3. CASE m + 1 = Len(t) /\ e = m + 1
      BY <1>12, <3>1, <3>2, <3>3
    <3>4. CASE m + 2 <= Len(t) /\ t[m + 2] = Newline /\ e = m + 2
      <4>1. q # m + 2
        <5>1. \A k \in m + 1..q : t[k] # Newline
          BY <1>4
        <5> QED BY <1>12, <3>4, <5>1
      <4> QED BY <1>12, <3>1, <3>2, <3>4, <4>1
    <3> QED BY <2>2, <3>3, <3>4
  <2> QED BY <2>1, <2>2
<1>16. q = m + 2 /\ t[m + 1] = Boundary /\ t[m + 2] = Dashes <=>
         /\ t[m + 1] = Boundary /\ m + 2 <= Len(t) /\ t[m + 2] = Dashes
         /\ m + 2 = Len(t) \/ (m + 3 <= Len(t) /\ t[m + 3] = Newline)
  <2>1. ASSUME q = m + 2, t[m + 1] = Boundary, t[m + 2] = Dashes
        PROVE  m + 2 <= Len(t) /\ (m + 2 = Len(t) \/ (m + 3 <= Len(t) /\ t[m + 3] = Newline))
    <3>1. \/ q = Len(t) /\ e = q
          \/ q + 1 <= Len(t) /\ t[q + 1] = Newline /\ e = q + 1
      BY <1>4
    <3>2. q + 1 = m + 3 /\ (q = Len(t) => m + 2 <= Len(t)) /\ (m + 3 <= Len(t) => m + 2 <= Len(t))
      BY <1>1, <1>12, <2>1
    <3> QED BY <2>1, <3>1, <3>2
  <2>2. ASSUME t[m + 1] = Boundary, m + 2 <= Len(t), t[m + 2] = Dashes,
               m + 2 = Len(t) \/ (m + 3 <= Len(t) /\ t[m + 3] = Newline)
        PROVE  q = m + 2
    <3>1. q # m
      BY <1>8, <1>11, <2>2
    <3>2. q # m + 1
      <4> SUFFICES ASSUME q = m + 1 PROVE FALSE
        OBVIOUS
      <4>1. q + 1 = m + 2 /\ q # Len(t)
        BY <1>1, <1>12, <2>2
      <4>2. t[m + 2] = Newline
        BY <1>4, <4>1
      <4> QED BY <1>11, <2>2, <4>2
    <3>3. ~(q >= m + 3)
      <4> SUFFICES ASSUME q >= m + 3 PROVE FALSE
        OBVIOUS
      <4>1. m + 3 \in m + 1..q /\ q <= Len(t)
        BY <1>1, <1>4, <1>12
      <4>2. t[m + 3] # Newline /\ m + 2 # Len(t)
        BY <1>1, <1>4, <1>12, <4>1
      <4> QED BY <2>2, <4>2
    <3> QED BY <1>12, <3>1, <3>2, <3>3
  <2> QED BY <2>1, <2>2
<1>17. Contains(Line, NoText) => \E k \in m + 1..e : t[k] = NoText
  <2> SUFFICES ASSUME Contains(Line, NoText) PROVE \E k \in m + 1..e : t[k] = NoText
    OBVIOUS
  <2>1. PICK i \in 1..Len(Line) : Line[i] = NoText
    BY DEF Contains
  <2>2. i \in 1..q - m
    BY <1>5, <2>1
  <2>3. t[m + i] = NoText
    BY <1>5, <2>1, <2>2
  <2>4. m + i \in m + 1..e
    BY <1>1, <1>4, <2>2
  <2> QED BY <2>3, <2>4
<1>18. EndsHeaders <=> \A k \in m + 1..e : t[k] = Space \/ t[k] = Newline
  <2>1. EndsHeaders <=> \A i \in 1..q - m : t[m + i] = Space
    <3>1. DOMAIN Line = 1..q - m
      BY <1>5
    <3> QED BY <1>5, <3>1 DEF EndsHeaders
  <2>2. ASSUME \A i \in 1..q - m : t[m + i] = Space, NEW k \in m + 1..e
        PROVE  t[k] = Space \/ t[k] = Newline
    <3>1. CASE k <= q
      <4>1. k - m \in 1..q - m /\ m + (k - m) = k
        BY <1>12, <3>1
      <4>2. t[m + (k - m)] = Space
        BY <2>2, <4>1
      <4> QED BY <4>1, <4>2
    <3>2. CASE k > q
      <4>1. k = q + 1 /\ k = e
        BY <1>4, <1>12, <3>2
      <4> QED BY <1>4, <1>12, <4>1
    <3> QED BY <1>12, <3>1, <3>2
  <2>3. ASSUME \A k \in m + 1..e : t[k] = Space \/ t[k] = Newline, NEW i \in 1..q - m
        PROVE  t[m + i] = Space
    <3>1. m + i \in m + 1..q /\ m + i \in m + 1..e
      BY <1>4, <1>12
    <3> QED BY <1>4, <2>3, <3>1
  <2> QED BY <2>1, <2>2, <2>3
<1> QED BY <1>1, <1>6, <1>7, <1>8, <1>9, <1>10, <1>13, <1>14, <1>15, <1>16, <1>17, <1>18
        DEF t, m, e

\* Among the headers, the line that ends them is the blank one.
LEMMA BlankLine ==
  ASSUME HttpTyped, ~AtEnd, line_start \in 1..Len(tokens), tokens[line_start] = Newline
  PROVE  /\ tokens[LineEnd] = Newline => (EndsHeaders <=> Blank(tokens, LineEnd))
         /\ tokens[LineEnd] # Newline => LineEnd = Len(tokens)
         /\ EndsHeaders => tokens[line_start + 1] = Space \/ tokens[line_start + 1] = Newline
         /\ ~EndsHeaders => Line[1] = tokens[line_start + 1]
<1>1. PICK m \in Nat, e \in Nat, L \in Nat :
        m = line_start /\ e = LineEnd /\ L = Len(tokens)
  <2>1. /\ line_start \in Nat /\ Len(tokens) \in Nat
        /\ LineEnd \in line_start..Len(tokens)
    BY ResponseTyped, LineEnds
  <2>2. LineEnd \in Nat
    BY <2>1
  <2> QED BY <2>1, <2>2
<1>2. /\ 1 <= m /\ m + 1 <= e /\ e <= L
      /\ \A k \in m + 1..e - 1 : tokens[k] # Newline
      /\ tokens[e] = Newline \/ e = L
  BY <1>1, LineEnds, LineIs
<1>3. EndsHeaders <=> \A k \in m + 1..e : tokens[k] = Space \/ tokens[k] = Newline
  BY <1>1, LineIs
<1>4. ASSUME tokens[e] = Newline, EndsHeaders
      PROVE  Blank(tokens, e)
  <2>1. m \in 1..e - 1
    BY <1>2
  <2>2. \A k \in m + 1..e - 1 : tokens[k] = Space
    BY <1>2, <1>3, <1>4
  <2> QED BY <1>1, <1>2, <1>4, <2>1, <2>2 DEF Blank
<1>5. ASSUME Blank(tokens, e)
      PROVE  EndsHeaders
  <2>1. PICK j \in 1..e - 1 :
          tokens[j] = Newline /\ \A k \in j + 1..e - 1 : tokens[k] = Space
    BY <1>5 DEF Blank
  <2>2. j = m
    <3>1. ~(m + 1 <= j)
      BY <1>2, <2>1
    <3>2. ~(j < m)
      <4> SUFFICES ASSUME j < m PROVE FALSE
        OBVIOUS
      <4>1. m \in j + 1..e - 1
        BY <1>2
      <4>2. tokens[m] = Space
        BY <2>1, <4>1
      <4> QED BY <1>1, <4>2 DEF Space, Newline
    <3> QED BY <3>1, <3>2
  <2>3. tokens[e] = Newline
    BY <1>5 DEF Blank
  <2> QED BY <1>2, <1>3, <2>1, <2>2, <2>3
<1>6. EndsHeaders => tokens[m + 1] = Space \/ tokens[m + 1] = Newline
  BY <1>2, <1>3
<1>7. ~EndsHeaders => Line[1] = tokens[m + 1]
  <2>1. Line = <<>> => EndsHeaders
    BY DEF EndsHeaders
  <2> QED BY <1>1, <2>1, LineIs
<1> QED BY <1>1, <1>2, <1>4, <1>5, <1>6, <1>7

-----------------------------------------------------------------------------
(* Multipart responses: steps.                                             *)

LEMMA LengthIs ==
  /\ NoLength \notin Nat
  /\ \A d \in DOMAIN LengthOf : d # Space /\ LengthOf[d] \in Nat
  BY ResponsesAssumption DEF NoLength

LEMMA HttpTypedKept ==
  ASSUME HttpTyped, HttpNext
  PROVE  HttpTyped'
<1>1. /\ response \in Responses /\ tokens' = response'.tokens
      /\ line_start \in Nat /\ Len(tokens) \in Nat /\ line_start <= Len(tokens)
      /\ received \in Nat /\ received <= line_start
      /\ content_length \in Nat \union {NoLength}
      /\ images \in Seq(Nat \X Nat)
      /\ reading = "body" => content_length \in Nat
  BY ResponseTyped DEF HttpTyped, tokens
<1>2. response' = response => tokens' = tokens
  BY DEF tokens
<1>3. CASE OpenHttp \/ NextCall
  BY <1>1, <1>2, <1>3 DEF OpenHttp, NextCall, HttpTyped
<1>4. CASE LineFails \/ BodyFails \/ DecodeFails
  <2>1. /\ response' = response /\ content_length' = content_length
        /\ received' = received /\ images' = images /\ reading' = "error"
        /\ line_start' = line_start \/ line_start' = LineEnd
    BY <1>4 DEF LineFails, BodyFails, DecodeFails, Fails
  <2>2. LineEnd \in line_start..Len(tokens)
    BY LineEnds
  <2>3. line_start' \in Nat /\ line_start' >= line_start /\ line_start' <= Len(tokens)
    BY <1>1, <2>1, <2>2
  <2> QED BY <1>1, <1>2, <2>1, <2>3 DEF HttpTyped
<1>5. CASE SkipLine
  <2>1. /\ response' = response /\ content_length' = NoLength /\ line_start' = LineEnd
        /\ received' = received /\ images' = images
        /\ reading' \in {"headers", "none", "skip"}
    BY <1>5 DEF SkipLine
  <2>2. LineEnd \in line_start..Len(tokens)
    BY LineEnds
  <2>3. line_start' \in Nat /\ line_start' >= line_start /\ line_start' <= Len(tokens)
    BY <1>1, <2>1, <2>2
  <2> QED BY <1>1, <1>2, <2>1, <2>3 DEF HttpTyped
<1>6. CASE ReadHeader
  <2>1. /\ response' = response /\ line_start' = LineEnd
        /\ received' = 0 /\ images' = images
        /\ reading' \in {"headers", "error", "body"}
        /\ reading' = "body" => content_length' # NoLength
        /\ \/ content_length' = content_length
           \/ Line[1] \in DOMAIN LengthOf /\ content_length' = LengthOf[Line[1]]
    BY <1>6 DEF ReadHeader
  <2>2. LineEnd \in line_start..Len(tokens)
    BY LineEnds
  <2>3. line_start' \in Nat /\ line_start' >= line_start /\ line_start' <= Len(tokens)
    BY <1>1, <2>1, <2>2
  <2>4. content_length' \in Nat \union {NoLength}
    BY <1>1, <2>1, LengthIs
  <2> QED BY <1>1, <1>2, <2>1, <2>3, <2>4 DEF HttpTyped
<1>7. CASE ReadBody
  <2>1. PICK n \in 1..content_length - received :
          /\ line_start + n <= Len(tokens)
          /\ received' = received + n /\ line_start' = line_start + n
    BY <1>7 DEF ReadBody
  <2>2. /\ reading = "body" /\ UNCHANGED <<response, reading, content_length, images>>
    BY <1>7 DEF ReadBody
  <2>3. n \in Nat /\ line_start' \in 0..Len(tokens) /\ received' \in 0..line_start'
    BY <1>1, <2>1, <2>2
  <2> QED BY <1>1, <1>2, <2>2, <2>3 DEF HttpTyped
<1>8. CASE Deliver
  <2>1. /\ images' = Append(images, <<Begin, received>>) /\ reading' = "returned"
        /\ UNCHANGED <<response, line_start, content_length, received>>
    BY <1>8 DEF Deliver
  <2>2. <<Begin, received>> \in Nat \X Nat
    BY <1>1 DEF Begin
  <2>3. images' \in Seq(Nat \X Nat)
    BY <1>1, <2>1, <2>2, AppendProperties
  <2> QED BY <1>1, <1>2, <2>1, <2>3 DEF HttpTyped
<1> QED BY <1>3, <1>4, <1>5, <1>6, <1>7, <1>8 DEF HttpNext

\* What Deliver appends.
LEMMA Delivers ==
  ASSUME HttpTyped, Deliver
  PROVE  /\ Len(images') = Len(images) + 1
         /\ images'[Len(images) + 1] = <<Begin, received>>
         /\ \A j \in 1..Len(images) : images'[j] = images[j]
         /\ Len(images) \in Nat
<1>1. images \in Seq(Nat \X Nat) /\ <<Begin, received>> \in Nat \X Nat
  <2>1. received \in Nat /\ received <= line_start /\ line_start \in Nat
        /\ images \in Seq(Nat \X Nat)
    BY ResponseTyped DEF HttpTyped
  <2> QED BY <2>1 DEF Begin
<1>2. images' = Append(images, <<Begin, received>>)
  BY DEF Deliver
<1> QED BY <1>1, <1>2, AppendProperties, LenProperties

-----------------------------------------------------------------------------
(* Servers with wrong lengths.                                             *)

\* The header is read of a part that begins at place b.
HeaderBehind(b) ==
  /\ b + 1 <= line_start
  /\ tokens[b] = Boundary /\ tokens[b + 1] = Newline /\ tokens[line_start] = Newline
  /\ \A d \in b + 2..line_start : ~Blank(tokens, d)

\* The next image begins behind those delivered, and where a body does.
InPlace ==
  /\ PlaceKept
  /\ \A j \in 1..Len(images) : images[j][1] <= line_start
  /\ reading = "headers" =>
       /\ \A j \in 1..Len(images) : images[j][1] < line_start
       /\ AtEnd \/ \E b \in 1..line_start : HeaderBehind(b)
  /\ reading = "body" =>
       \/ AtEnd /\ received = 0
       \/ /\ \A j \in 1..Len(images) : images[j][1] < Begin
          /\ \E k \in 1..Len(response.bodies) : Begin = response.bodies[k]

LEMMA ImageTyped ==
  ASSUME HttpTyped
  PROVE  /\ Len(images) \in Nat
         /\ \A j \in 1..Len(images) : images[j][1] \in Nat /\ images[j][2] \in Nat
<1>1. images \in Seq(Nat \X Nat)
  BY DEF HttpTyped
<1>2. \A j \in 1..Len(images) : images[j] \in Nat \X Nat
  BY <1>1, ElementOfSeq
<1> QED BY <1>1, <1>2, LenProperties

LEMMA PlaceAfterSkip ==
  ASSUME HttpTyped, InPlace, SkipLine
  PROVE  InPlace'
<1>1. /\ reading = "skip" /\ ~AtEnd
      /\ line_start' = LineEnd /\ UNCHANGED <<response, received, images>>
      /\ reading' \in {"headers", "none", "skip"}
      /\ reading' = "headers" => Line = <<Boundary>>
  BY DEF SkipLine, BadLine
<1>2. tokens' = tokens
  BY <1>1 DEF tokens
<1>3. line_start \in Nat /\ LineEnd \in Nat /\ line_start < LineEnd
  BY <1>1, ResponseTyped, LineIs, LineEnds
<1>4. \A j \in 1..Len(images) : images[j][1] \in Nat /\ images[j][1] <= line_start
  BY ImageTyped DEF InPlace
<1>5. \A j \in 1..Len(images') : images'[j][1] <= line_start' /\ images'[j][1] < line_start'
  BY <1>1, <1>3, <1>4
<1>6. PlaceKept'
  BY <1>1 DEF InPlace, PlaceKept
<1>7. ASSUME reading' = "headers"
      PROVE  AtEnd' \/ \E b \in 1..line_start' : HeaderBehind(b)'
  <2>1. /\ tokens[line_start + 1] = Boundary
        /\ \/ line_start + 1 = Len(tokens) /\ LineEnd = line_start + 1
           \/ /\ line_start + 2 <= Len(tokens) /\ tokens[line_start + 2] = Newline
              /\ LineEnd = line_start + 2
    BY <1>1, <1>7, LineIs
  <2>2. CASE line_start + 1 = Len(tokens) /\ LineEnd = line_start + 1
    BY <1>1, <1>2, <2>2 DEF AtEnd
  <2>3. CASE tokens[line_start + 2] = Newline /\ LineEnd = line_start + 2
    <3>1. PICK b \in Nat : b = line_start + 1
      BY <1>3
    <3>2. /\ b \in 1..LineEnd /\ b + 1 = LineEnd
          /\ tokens[b] = Boundary /\ tokens[b + 1] = Newline
          /\ \A d \in b + 2..LineEnd : FALSE
      BY <1>3, <2>1, <2>3, <3>1
    <3>3. HeaderBehind(b)'
      BY <1>1, <1>2, <1>3, <3>2 DEF HeaderBehind
    <3> QED BY <1>1, <3>2, <3>3
  <2> QED BY <2>1, <2>2, <2>3
<1> QED BY <1>1, <1>5, <1>6, <1>7 DEF InPlace

LEMMA PlaceAfterHeader ==
  ASSUME HttpTyped, InPlace, ReadHeader, BoundariesLead(response)
  PROVE  InPlace'
<1>1. /\ reading = "headers" /\ ~AtEnd
      /\ line_start' = LineEnd /\ received' = 0 /\ UNCHANGED <<response, images>>
      /\ reading' \in {"headers", "error", "body"}
      /\ reading' = "headers" => ~EndsHeaders
      /\ reading' = "body" => EndsHeaders
  BY DEF ReadHeader, BadLine
<1>2. tokens' = tokens
  BY <1>1 DEF tokens
<1>3. line_start \in Nat /\ LineEnd \in Nat /\ line_start < LineEnd
      /\ LineEnd <= Len(tokens) /\ Len(tokens) \in Nat
  BY <1>1, ResponseTyped, LineIs, LineEnds
<1>4. \A j \in 1..Len(images) : images[j][1] \in Nat /\ images[j][1] <= line_start
  BY ImageTyped DEF InPlace
<1>5. \A j \in 1..Len(images') : images'[j][1] <= line_start' /\ images'[j][1] < line_start'
  BY <1>1, <1>3, <1>4
<1>6. PlaceKept'
  BY <1>1 DEF InPlace, PlaceKept
<1>7. PICK b \in 1..line_start : HeaderBehind(b)
  BY <1>1 DEF InPlace
<1>8. b \in Nat /\ b >= 1 /\ b + 1 <= line_start
      /\ tokens[b] = Boundary /\ tokens[b + 1] = Newline /\ tokens[line_start] = Newline
      /\ \A d \in b + 2..line_start : ~Blank(tokens, d)
  BY <1>3, <1>7 DEF HeaderBehind
<1> line_start \in 1..Len(tokens)
  BY <1>3, <1>8
<1>9. ASSUME reading' = "headers"
      PROVE  AtEnd' \/ \E c \in 1..line_start' : HeaderBehind(c)'
  <2>1. ~EndsHeaders
    BY <1>1, <1>9
  <2>2. CASE NewlinesAhead = {}
    BY <1>1, <1>2, <2>2, LineEnds DEF AtEnd
  <2>3. CASE NewlinesAhead # {}
    <3>1. tokens[LineEnd] = Newline /\ \A k \in line_start + 1..LineEnd - 1 : tokens[k] # Newline
      BY <2>3, LineEnds
    <3>2. ASSUME NEW d \in b + 2..LineEnd, Blank(tokens, d)
          PROVE  FALSE
      <4>1. tokens[d] = Newline
        BY <3>2 DEF Blank
      <4>2. CASE d <= line_start
        BY <1>3, <1>8, <3>2, <4>2
      <4>3. CASE d > line_start
        <5>1. d = LineEnd
          BY <1>3, <1>8, <3>1, <4>1, <4>3
        <5> QED BY <1>1, <1>8, <2>1, <3>1, <3>2, <5>1, BlankLine
      <4> QED BY <1>3, <1>8, <4>2, <4>3
    <3>3. b + 1 <= LineEnd /\ b \in 1..LineEnd
      BY <1>3, <1>8
    <3>4. HeaderBehind(b)'
      BY <1>1, <1>2, <1>8, <3>1, <3>2, <3>3 DEF HeaderBehind
    <3> QED BY <1>1, <3>3, <3>4
  <2> QED BY <2>2, <2>3
<1>10. ASSUME reading' = "body"
       PROVE  \/ AtEnd' /\ received' = 0
              \/ /\ \A j \in 1..Len(images') : images'[j][1] < Begin'
                 /\ \E k \in 1..Len(response'.bodies) : Begin' = response'.bodies[k]
  <2>1. Begin' = LineEnd
    BY <1>1, <1>3 DEF Begin
  <2>2. PICK e \in Nat : e = LineEnd
    BY <1>3
  <2>3. CASE tokens[e] # Newline
    BY <1>1, <1>2, <1>8, <2>2, <2>3, BlankLine DEF AtEnd
  <2>4. CASE tokens[e] = Newline
    <3>1. line_start < e /\ b + 2 <= e /\ b \in 1..Len(tokens) /\ e \in 1..Len(tokens)
      BY <1>3, <1>8, <2>2
    <3>2. Blank(tokens, e)
      BY <1>1, <1>8, <1>10, <2>2, <2>4, BlankLine
    <3>3. ASSUME NEW d \in b + 2..e - 1, Blank(tokens, d)
          PROVE  FALSE
      <4>1. d > line_start
        BY <1>3, <1>8, <3>3
      <4>2. d \in line_start + 1..LineEnd - 1
        BY <1>3, <1>8, <2>2, <4>1
      <4>3. tokens[d] # Newline
        BY <4>2, LineEnds
      <4> QED BY <3>3, <4>3 DEF Blank
    <3>4. \E k \in 1..Len(response.bodies) : response.bodies[k] = e
      BY <1>8, <3>1, <3>2, <3>3 DEF BoundariesLead, tokens
    <3> QED BY <1>1, <1>5, <2>1, <2>2, <3>4
  <2> QED BY <2>3, <2>4
<1> QED BY <1>1, <1>5, <1>6, <1>9, <1>10 DEF InPlace

LEMMA PlaceAfterDeliver ==
  ASSUME HttpTyped, InPlace, Deliver
  PROVE  InPlace'
<1>1. /\ reading = "body" /\ reading' = "returned" /\ received # 0
      /\ UNCHANGED <<response, line_start, content_length, received>>
  BY ResponseTyped DEF Deliver, HttpTyped
<1>2. /\ Len(images') = Len(images) + 1 /\ Len(images) \in Nat
      /\ images'[Len(images) + 1] = <<Begin, received>>
      /\ \A j \in 1..Len(images) : images'[j] = images[j]
  BY Delivers
<1>3. PICK n \in Nat : n = Len(images)
  BY <1>2
<1>4. /\ \A j \in 1..n : images[j][1] < Begin /\ images[j][1] <= line_start
      /\ \E k \in 1..Len(response.bodies) : Begin = response.bodies[k]
  BY <1>1, <1>3 DEF InPlace
<1>5. \A j \in 1..n + 1 : j = n + 1 \/ j \in 1..n
  OBVIOUS
<1>6. images'[n + 1][1] = Begin /\ \A j \in 1..n : images'[j] = images[j]
  BY <1>2, <1>3
<1>7. Begin <= line_start
  <2>1. received \in Nat /\ line_start \in Nat
    BY ResponseTyped DEF HttpTyped
  <2> QED BY <2>1 DEF Begin
<1>8. ASSUME NEW j \in 1..n + 1
      PROVE  /\ \E k \in 1..Len(response.bodies) : images'[j][1] = response.bodies[k]
             /\ j > 1 => images'[j - 1][1] < images'[j][1]
             /\ images'[j][1] <= line_start
  <2>1. CASE j = n + 1
    <3>1. j > 1 => j - 1 \in 1..n
      BY <2>1
    <3> QED BY <1>4, <1>6, <1>7, <2>1, <3>1
  <2>2. CASE j \in 1..n
    <3>1. j > 1 => j - 1 \in 1..n
      BY <2>2
    <3>2. /\ \E k \in 1..Len(response.bodies) : images[j][1] = response.bodies[k]
          /\ j > 1 => images[j - 1][1] < images[j][1]
      BY <1>3, <2>2 DEF InPlace, PlaceKept
    <3> QED BY <1>4, <1>6, <2>2, <3>1, <3>2
  <2> QED BY <1>5, <2>1, <2>2
<1>9. Len(images') = n + 1
  BY <1>2, <1>3
<1>10. PlaceKept'
  BY <1>1, <1>8, <1>9 DEF PlaceKept
<1> QED BY <1>1, <1>8, <1>9, <1>10 DEF InPlace

LEMMA PlaceKeeps ==
  ASSUME HttpTyped, InPlace, HttpNext, BoundariesLead(response)
  PROVE  InPlace'
<1>1. line_start \in Nat /\ received \in Nat /\ Len(images) \in Nat
      /\ \A j \in 1..Len(images) : images[j][1] \in Nat
  BY ResponseTyped, ImageTyped DEF HttpTyped
<1>2. CASE OpenHttp \/ NextCall
  <2>1. UNCHANGED <<response, line_start, images>> /\ reading' \notin {"headers", "body"}
    BY <1>2 DEF OpenHttp, NextCall
  <2> QED BY <2>1 DEF InPlace, PlaceKept
<1>3. CASE LineFails \/ BodyFails \/ DecodeFails
  <2>1. /\ UNCHANGED <<response, images>> /\ reading' = "error"
        /\ line_start' = line_start \/ line_start' = LineEnd
    BY <1>3 DEF LineFails, BodyFails, DecodeFails, Fails
  <2>2. line_start' \in Nat /\ line_start <= line_start'
    BY <1>1, <2>1, ResponseTyped, LineEnds
  <2>3. \A j \in 1..Len(images) : images[j][1] <= line_start'
    BY <1>1, <2>2 DEF InPlace
  <2> QED BY <2>1, <2>3 DEF InPlace, PlaceKept
<1>4. CASE ReadBody
  <2>1. PICK n \in 1..content_length - received :
          /\ line_start + n <= Len(tokens)
          /\ received' = received + n /\ line_start' = line_start + n
    BY <1>4 DEF ReadBody
  <2>2. /\ reading = "body" /\ UNCHANGED <<response, reading, content_length, images>>
    BY <1>4 DEF ReadBody
  <2>3. n \in Nat /\ ~AtEnd
    BY <1>1, <2>1, <2>2, ResponseTyped DEF HttpTyped, AtEnd
  <2>4. Begin' = Begin /\ line_start <= line_start' /\ line_start' \in Nat
    BY <1>1, <2>1, <2>3 DEF Begin
  <2>5. \A j \in 1..Len(images) : images[j][1] <= line_start'
    BY <1>1, <2>4 DEF InPlace
  <2>6. /\ \A j \in 1..Len(images) : images[j][1] < Begin
        /\ \E k \in 1..Len(response.bodies) : Begin = response.bodies[k]
    BY <2>2, <2>3 DEF InPlace
  <2> QED BY <2>2, <2>4, <2>5, <2>6 DEF InPlace, PlaceKept
<1> QED BY <1>2, <1>3, <1>4, PlaceAfterSkip, PlaceAfterHeader, PlaceAfterDeliver
        DEF HttpNext

-----------------------------------------------------------------------------
(* Servers with the right lengths.                                         *)

Delivered == Len(images)
Parts == Len(response.bodies)
StartOf(k) == CHOOSE b \in 1..response.bodies[k] : PartStart(response, k, b)
Marker == CHOOSE z \in 1..Len(tokens) : MarkerStart(response, z)

\* The connection broke off within the part that is expected next.
Stuck ==
  /\ AtEnd /\ response.cut
  /\ Delivered < Parts => Len(tokens) < EndOf(response, Delivered + 1)

\* Behind the last part delivered and before the next.
Between ==
  /\ EndOf(response, Delivered) <= line_start
  /\ line_start # EndOf(response, Delivered) => tokens[line_start] = Newline
  /\ Delivered < Parts => line_start < StartOf(Delivered + 1)
  /\ Delivered = Parts /\ ~response.cut => line_start < Marker

\* In the header of the next part: its length was read, or is still ahead.
InHeader ==
  /\ Delivered < Parts
  /\ StartOf(Delivered + 1) + 1 <= line_start
  /\ line_start < response.bodies[Delivered + 1]
  /\ tokens[line_start] = Newline
  /\ content_length # NoLength => content_length = response.lengths[Delivered + 1]
  /\ content_length = NoLength =>
       \A i \in StartOf(Delivered + 1) + 2..line_start :
         ~(tokens[i - 1] = Newline /\ tokens[i] \in DOMAIN LengthOf)

InBody ==
  /\ Delivered < Parts
  /\ Begin = response.bodies[Delivered + 1]
  /\ content_length = response.lengths[Delivered + 1]
  /\ received <= content_length

Honest ==
  /\ Delivered <= Parts /\ EndOf(response, Delivered) <= Len(tokens)
  /\ \A j \in 1..Delivered : images[j] = <<response.bodies[j], response.lengths[j]>>
  /\ reading \in {"closed", "unopened"} => Delivered = 0 /\ line_start = 0
  /\ reading = "skip" => Between \/ Stuck
  /\ reading = "headers" => InHeader \/ Stuck
  /\ reading = "body" => InBody \/ (Stuck /\ received = 0)
  /\ reading = "returned" => line_start = EndOf(response, Delivered)
  /\ reading = "error" => Stuck
  /\ reading = "none" => Delivered = Parts /\ ~response.cut

\* Where the parts of a response are.
LEMMA PartFacts ==
  ASSUME HttpTyped, LaidOut(response), NEW k \in 1..Parts
  PROVE  /\ response.bodies[k] \in Nat /\ response.lengths[k] \in Nat
         /\ EndOf(response, k) = response.bodies[k] + response.lengths[k]
         /\ EndOf(response, k) \in Nat
         /\ StartOf(k) \in Nat /\ StartOf(k) >= 1
         /\ StartOf(k) + 4 <= response.bodies[k]
         /\ TextBefore(tokens, EndOf(response, k - 1), StartOf(k))
         /\ HeaderAt(tokens, StartOf(k), response.bodies[k], response.lengths[k])
<1>1. response.bodies \in Seq(Nat) /\ response.lengths \in Seq(Nat)
      /\ Len(response.lengths) = Len(response.bodies) /\ k \in Nat \ {0}
  BY ResponseTyped DEF LaidOut, Parts
<1>2. response.bodies[k] \in Nat /\ response.lengths[k] \in Nat
  BY <1>1, ElementOfSeq DEF Parts
<1>3. EndOf(response, k) = response.bodies[k] + response.lengths[k]
  BY <1>1 DEF EndOf
<1>4. \E b \in 1..response.bodies[k] : PartStart(response, k, b)
  BY DEF LaidOut, Parts
<1>5. StartOf(k) \in 1..response.bodies[k] /\ PartStart(response, k, StartOf(k))
  BY <1>4, Zenon DEF StartOf
<1>6. /\ TextBefore(tokens, EndOf(response, k - 1), StartOf(k))
      /\ HeaderAt(tokens, StartOf(k), response.bodies[k], response.lengths[k])
  BY <1>5 DEF PartStart, tokens
<1>7. StartOf(k) + 4 <= response.bodies[k]
  BY <1>6 DEF HeaderAt
<1> QED BY <1>2, <1>3, <1>5, <1>6, <1>7

LEMMA EndFacts ==
  ASSUME HttpTyped, LaidOut(response)
  PROVE  /\ Parts \in Nat
         /\ \A k \in 0..Parts : EndOf(response, k) \in Nat
         /\ \A k \in 1..Parts : EndOf(response, k - 1) < StartOf(k)
         /\ \A j, k \in 0..Parts : j <= k => EndOf(response, j) <= EndOf(response, k)
<1>1. Parts \in Nat
  BY ResponseTyped DEF Parts
<1>2. EndOf(response, 0) = 0
  BY DEF EndOf
<1>3. \A k \in 1..Parts : /\ EndOf(response, k) \in Nat /\ response.bodies[k] \in Nat
                          /\ response.bodies[k] <= EndOf(response, k)
                          /\ EndOf(response, k - 1) < StartOf(k)
  <2> SUFFICES ASSUME NEW k \in 1..Parts
               PROVE  /\ EndOf(response, k) \in Nat /\ response.bodies[k] \in Nat
                      /\ response.bodies[k] <= EndOf(response, k)
                      /\ EndOf(response, k - 1) < StartOf(k)
    OBVIOUS
  <2>1. /\ response.bodies[k] \in Nat /\ response.lengths[k] \in Nat
        /\ EndOf(response, k) = response.bodies[k] + response.lengths[k]
        /\ TextBefore(tokens, EndOf(response, k - 1), StartOf(k))
    BY PartFacts
  <2>2. EndOf(response, k - 1) < StartOf(k)
    BY <2>1 DEF TextBefore
  <2> QED BY <2>1, <2>2
<1>4. \A k \in 0..Parts : k = 0 \/ k \in 1..Parts
  BY <1>1
<1>5. \A k \in 0..Parts : EndOf(response, k) \in Nat
  BY <1>2, <1>3, <1>4
<1>6. ASSUME NEW j \in 0..Parts, NEW k \in 0..Parts, j <= k
      PROVE  EndOf(response, j) <= EndOf(response, k)
  <2>1. CASE j = k
    <3>1. EndOf(response, j) \in Nat
      BY <1>5
    <3> QED BY <2>1, <3>1
  <2>2. CASE j = 0
    <3>1. EndOf(response, k) \in Nat
      BY <1>5
    <3> QED BY <1>2, <2>2, <3>1
  <2>3. CASE j # 0 /\ j # k
    <3>1. j \in 1..Parts /\ k \in 1..Parts /\ j < k
      BY <1>1, <1>6, <2>3
    <3>2. EndOf(response, j) <= response.bodies[k]
      BY <3>1 DEF LaidOut, Parts
    <3>3. /\ EndOf(response, j) \in Nat /\ EndOf(response, k) \in Nat
          /\ response.bodies[k] \in Nat /\ response.bodies[k] <= EndOf(response, k)
      BY <1>3, <3>1
    <3> QED BY <3>2, <3>3
  <2> QED BY <2>1, <2>2, <2>3
<1> QED BY <1>1, <1>3, <1>5, <1>6

LEMMA MarkerFacts ==
  ASSUME HttpTyped, LaidOut(response), ~response.cut
  PROVE  /\ Marker \in Nat /\ EndOf(response, Parts) < Marker /\ Marker < Len(tokens)
         /\ TextBefore(tokens, EndOf(response, Parts), Marker)
         /\ tokens[Marker] = Boundary /\ tokens[Marker + 1] = Dashes
         /\ Has(tokens, Marker + 2, Newline)
<1>1. \E z \in 1..Len(tokens) : MarkerStart(response, z)
  BY DEF LaidOut, tokens
<1>2. Marker \in 1..Len(tokens) /\ MarkerStart(response, Marker)
  BY <1>1, Zenon DEF Marker
<1>3. /\ TextBefore(tokens, EndOf(response, Parts), Marker) /\ Marker < Len(tokens)
      /\ tokens[Marker] = Boundary /\ tokens[Marker + 1] = Dashes
      /\ Has(tokens, Marker + 2, Newline)
  BY <1>2 DEF MarkerStart, tokens, Parts
<1>4. EndOf(response, Parts) < Marker
  BY <1>3 DEF TextBefore
<1> QED BY <1>2, <1>3, <1>4

\* A response of which some did not arrive was cut.
LEMMA CutShort ==
  ASSUME HttpTyped, LaidOut(response), NEW k \in 0..Parts,
         Len(tokens) < EndOf(response, k)
  PROVE  response.cut
<1> SUFFICES ASSUME ~response.cut PROVE FALSE
  BY ResponseTyped
<1>1. Marker \in Nat /\ EndOf(response, Parts) < Marker /\ Marker < Len(tokens)
  BY MarkerFacts
<1>2. /\ Parts \in Nat /\ EndOf(response, k) \in Nat /\ EndOf(response, Parts) \in Nat
      /\ EndOf(response, k) <= EndOf(response, Parts)
  <2>1. Parts \in Nat
    BY EndFacts
  <2>2. Parts \in 0..Parts /\ k <= Parts
    BY <2>1
  <2> QED BY <2>1, <2>2, EndFacts
<1>3. Len(tokens) \in Nat
  BY ResponseTyped
<1> QED BY <1>1, <1>2, <1>3

\* A line of the text before place b.
LEMMA GapLine ==
  ASSUME HttpTyped, ~AtEnd, NEW from \in Nat, NEW b \in Nat,
         TextBefore(tokens, from, b), from <= line_start, line_start + 1 < b
  PROVE  /\ tokens[line_start + 1] # Boundary
         /\ LineEnd < b
         /\ tokens[LineEnd] = Newline \/ LineEnd = Len(tokens)
         /\ ~Contains(Line, NoText)
<1>1. /\ line_start \in Nat /\ Len(tokens) \in Nat /\ line_start + 1 <= Len(tokens)
      /\ LineEnd \in line_start + 1..Len(tokens)
      /\ \A k \in line_start + 1..LineEnd - 1 : tokens[k] # Newline
      /\ tokens[LineEnd] = Newline \/ LineEnd = Len(tokens)
  BY ResponseTyped, LineEnds, LineIs
<1>2. /\ \A i \in from + 1..b - 1 : i <= Len(tokens) =>
           tokens[i] # Boundary /\ tokens[i] # NoText
      /\ from + 1 < b => (b - 1 <= Len(tokens) => tokens[b - 1] = Newline)
  BY DEF TextBefore, Has, Lacks
<1>3. LineEnd < b
  <2>1. CASE b - 1 <= Len(tokens)
    <3>1. tokens[b - 1] = Newline /\ b - 1 >= line_start + 1
      BY <1>1, <1>2, <2>1
    <3> QED BY <1>1, <3>1
  <2>2. CASE ~(b - 1 <= Len(tokens))
    BY <1>1, <2>2
  <2> QED BY <2>1, <2>2
<1>4. tokens[line_start + 1] # Boundary
  BY <1>1, <1>2
<1>5. \A k \in line_start + 1..LineEnd : tokens[k] # NoText
  BY <1>1, <1>2, <1>3
<1>6. ~Contains(Line, NoText)
  BY <1>5, LineIs
<1> QED BY <1>1, <1>3, <1>4, <1>6

\* The line with the boundary.
LEMMA BoundaryLine ==
  ASSUME HttpTyped, ~AtEnd, tokens[line_start + 1] = Boundary,
         Has(tokens, line_start + 2, Newline)
  PROVE  /\ Line = <<Boundary>> /\ ~Contains(Line, NoText)
         /\ \/ line_start + 1 = Len(tokens) /\ LineEnd = line_start + 1
            \/ /\ line_start + 2 <= Len(tokens) /\ tokens[line_start + 2] = Newline
               /\ LineEnd = line_start + 2
<1>1. /\ line_start \in Nat /\ Len(tokens) \in Nat /\ line_start + 1 <= Len(tokens)
      /\ LineEnd \in line_start + 1..Len(tokens)
      /\ \A k \in line_start + 1..LineEnd - 1 : tokens[k] # Newline
      /\ tokens[LineEnd] = Newline \/ LineEnd = Len(tokens)
  BY ResponseTyped, LineEnds, LineIs
<1>2. line_start + 2 <= Len(tokens) => tokens[line_start + 2] = Newline
  BY DEF Has
<1>3. Boundary # Newline /\ Boundary # NoText /\ Newline # NoText
  BY DEF Boundary, Newline, NoText
<1>4. \/ line_start + 1 = Len(tokens) /\ LineEnd = line_start + 1
      \/ /\ line_start + 2 <= Len(tokens) /\ tokens[line_start + 2] = Newline
         /\ LineEnd = line_start + 2
  <2>1. CASE line_start + 1 = Len(tokens)
    BY <1>1, <2>1
  <2>2. CASE line_start + 1 # Len(tokens)
    <3>1. line_start + 2 <= Len(tokens) /\ tokens[line_start + 2] = Newline
      BY <1>1, <1>2, <2>2
    <3>2. LineEnd # line_start + 1
      BY <1>1, <1>3, <2>2
    <3>3. ~(line_start + 2 <= LineEnd - 1)
      BY <1>1, <3>1
    <3>4. LineEnd = line_start + 2
      BY <1>1, <3>2, <3>3
    <3> QED BY <3>1, <3>4
  <2> QED BY <2>1, <2>2
<1>5. Line = <<Boundary>>
  BY <1>4, LineIs
<1>6. \A k \in line_start + 1..LineEnd : tokens[k] # NoText
  BY <1>1, <1>3, <1>4
<1>7. ~Contains(Line, NoText)
  BY <1>6, LineIs
<1> QED BY <1>4, <1>5, <1>7

HonestFrame == UNCHANGED <<response, images>>

\* What an action that delivers nothing leaves alone.
LEMMA FrameKeeps ==
  ASSUME HonestFrame
  PROVE  /\ tokens' = tokens /\ Delivered' = Delivered /\ Parts' = Parts
         /\ Marker' = Marker
         /\ \A k : EndOf(response, k)' = EndOf(response, k)
         /\ \A k : StartOf(k)' = StartOf(k)
<1>1. response' = response /\ images' = images
  BY DEF HonestFrame
<1>2. tokens' = tokens /\ Delivered' = Delivered /\ Parts' = Parts
  BY <1>1 DEF tokens, Delivered, Parts
<1>3. Marker' = Marker
  BY <1>1, <1>2 DEF Marker
<1>4. \A k : EndOf(response, k)' = EndOf(response, k)
  BY <1>1
<1>5. \A k : StartOf(k)' = StartOf(k)
  BY <1>1 DEF StartOf
<1> QED BY <1>2, <1>3, <1>4, <1>5

LEMMA HonestFacts ==
  ASSUME HttpTyped, LaidOut(response), Honest
  PROVE  /\ Delivered \in Nat /\ Delivered <= Parts /\ Parts \in Nat
         /\ Delivered \in 0..Parts
         /\ EndOf(response, Delivered) \in Nat
         /\ EndOf(response, Delivered) <= Len(tokens)
         /\ Delivered < Parts =>
              /\ Delivered + 1 \in 1..Parts
              /\ EndOf(response, Delivered) < StartOf(Delivered + 1)
              /\ StartOf(Delivered + 1) \in Nat
              /\ EndOf(response, Delivered + 1) \in Nat
              /\ response.bodies[Delivered + 1] \in Nat
              /\ response.lengths[Delivered + 1] \in Nat
              /\ StartOf(Delivered + 1) + 4 <= response.bodies[Delivered + 1]
              /\ EndOf(response, Delivered + 1) =
                   response.bodies[Delivered + 1] + response.lengths[Delivered + 1]
              /\ TextBefore(tokens, EndOf(response, Delivered), StartOf(Delivered + 1))
              /\ HeaderAt(tokens, StartOf(Delivered + 1), response.bodies[Delivered + 1],
                          response.lengths[Delivered + 1])
<1>1. Delivered \in Nat /\ Delivered <= Parts /\ Parts \in Nat
      /\ EndOf(response, Delivered) <= Len(tokens)
  BY ImageTyped, EndFacts DEF Honest, Delivered
<1>2. Delivered \in 0..Parts
  BY <1>1
<1>3. EndOf(response, Delivered) \in Nat
  BY <1>2, EndFacts
<1>4. ASSUME Delivered < Parts
      PROVE  /\ Delivered + 1 \in 1..Parts
             /\ EndOf(response, Delivered) < StartOf(Delivered + 1)
             /\ StartOf(Delivered + 1) \in Nat
             /\ EndOf(response, Delivered + 1) \in Nat
             /\ response.bodies[Delivered + 1] \in Nat
             /\ response.lengths[Delivered + 1] \in Nat
             /\ StartOf(Delivered + 1) + 4 <= response.bodies[Delivered + 1]
             /\ EndOf(response, Delivered + 1) =
                  response.bodies[Delivered + 1] + response.lengths[Delivered + 1]
             /\ TextBefore(tokens, EndOf(response, Delivered), StartOf(Delivered + 1))
             /\ HeaderAt(tokens, StartOf(Delivered + 1), response.bodies[Delivered + 1],
                         response.lengths[Delivered + 1])
  <2>1. PICK k \in 1..Parts : k = Delivered + 1 /\ k - 1 = Delivered
    BY <1>1, <1>4
  <2>2. EndOf(response, k - 1) < StartOf(k)
    BY EndFacts
  <2>3. /\ response.bodies[k] \in Nat /\ response.lengths[k] \in Nat
        /\ EndOf(response, k) = response.bodies[k] + response.lengths[k]
        /\ EndOf(response, k) \in Nat /\ StartOf(k) \in Nat
        /\ StartOf(k) + 4 <= response.bodies[k]
        /\ TextBefore(tokens, EndOf(response, k - 1), StartOf(k))
        /\ HeaderAt(tokens, StartOf(k), response.bodies[k], response.lengths[k])
    BY PartFacts
  <2> QED BY <2>1, <2>2, <2>3
<1> QED BY <1>1, <1>2, <1>3, <1>4

\* Text that ends with the stream leaves the reader stuck.
LEMMA StuckAfter ==
  ASSUME HttpTyped, LaidOut(response), Honest, HonestFrame, line_start' = Len(tokens),
         \/ Delivered < Parts /\ Len(tokens) < EndOf(response, Delivered + 1)
         \/ Delivered = Parts /\ response.cut
  PROVE  Stuck'
<1>1. /\ Delivered \in Nat /\ Parts \in Nat
      /\ Delivered < Parts => Delivered + 1 \in 0..Parts
  BY HonestFacts
<1>2. response.cut
  BY <1>1, CutShort
<1>3. /\ Delivered' = Delivered /\ Parts' = Parts /\ tokens' = tokens
      /\ \A k : EndOf(response, k)' = EndOf(response, k)
      /\ response' = response
  BY FrameKeeps DEF HonestFrame
<1>4. AtEnd'
  BY <1>3 DEF AtEnd
<1>5. PICK n \in Nat : n = Delivered /\ n = Delivered'
  BY <1>1, <1>3
<1>6. n < Parts => Len(tokens) < EndOf(response, n + 1)
  BY <1>1, <1>5
<1>7. EndOf(response', n + 1) = EndOf(response, n + 1)
  BY <1>3
<1>8. EndOf(response', Delivered' + 1) = EndOf(response, n + 1)
  BY <1>5, <1>7
<1> QED BY <1>2, <1>3, <1>4, <1>5, <1>6, <1>8 DEF Stuck

\* One line of the text between two parts, or behind the last: either more
\* text, or what it leads to.
LEMMA SkipLeads ==
  ASSUME HttpTyped, LaidOut(response), Honest, Between, ~AtEnd
  PROVE  /\ ~Contains(Line, NoText)
         /\ \/ /\ tokens[line_start + 1] # Boundary
               /\ Delivered < Parts => LineEnd < StartOf(Delivered + 1)
               /\ Delivered = Parts /\ ~response.cut => LineEnd < Marker
            \/ /\ Line = <<Boundary>> /\ Delivered < Parts
               /\ LineEnd <= StartOf(Delivered + 1) + 1
               /\ \/ LineEnd = Len(tokens) /\ LineEnd = StartOf(Delivered + 1)
                  \/ /\ LineEnd = StartOf(Delivered + 1) + 1
                     /\ tokens[LineEnd] = Newline
            \/ Line = <<Boundary>> /\ Delivered = Parts /\ response.cut
               /\ LineEnd = Len(tokens)
            \/ Line = <<Boundary, Dashes>> /\ Delivered = Parts /\ ~response.cut
<1>1. /\ line_start \in Nat /\ Len(tokens) \in Nat /\ line_start + 1 <= Len(tokens)
      /\ LineEnd \in line_start + 1..Len(tokens)
  BY ResponseTyped, LineEnds, LineIs
<1>2. Delivered \in Nat /\ Parts \in Nat /\ Delivered <= Parts
      /\ EndOf(response, Delivered) \in Nat /\ EndOf(response, Delivered) <= line_start
  BY HonestFacts DEF Between
<1>3. CASE Delivered < Parts
  <2>1. PICK b \in Nat : b = StartOf(Delivered + 1)
    BY <1>3, HonestFacts
  <2>2. /\ line_start < b /\ TextBefore(tokens, EndOf(response, Delivered), b)
        /\ HeaderAt(tokens, b, response.bodies[Delivered + 1],
                    response.lengths[Delivered + 1])
    BY <1>3, <2>1, HonestFacts DEF Between
  <2>3. CASE line_start + 1 < b
    <3>1. tokens[line_start + 1] # Boundary /\ LineEnd < b /\ ~Contains(Line, NoText)
      BY <1>2, <2>2, <2>3, GapLine
    <3> QED BY <1>2, <1>3, <2>1, <3>1
  <2>4. CASE line_start + 1 = b
    <3>1. tokens[b] = Boundary /\ Has(tokens, line_start + 2, Newline)
      <4>1. Has(tokens, b, Boundary) /\ Has(tokens, b + 1, Newline)
        BY <2>2 DEF HeaderAt
      <4>2. b <= Len(tokens) /\ b + 1 = line_start + 2
        BY <1>1, <2>4
      <4> QED BY <4>1, <4>2 DEF Has
    <3>2. /\ Line = <<Boundary>> /\ ~Contains(Line, NoText)
          /\ \/ line_start + 1 = Len(tokens) /\ LineEnd = line_start + 1
             \/ /\ line_start + 2 <= Len(tokens) /\ tokens[line_start + 2] = Newline
                /\ LineEnd = line_start + 2
      BY <2>4, <3>1, BoundaryLine
    <3>3. /\ LineEnd <= b + 1
          /\ \/ LineEnd = Len(tokens) /\ LineEnd = b
             \/ LineEnd = b + 1 /\ tokens[LineEnd] = Newline
      BY <1>1, <2>4, <3>2
    <3> QED BY <1>3, <2>1, <3>2, <3>3
  <2> QED BY <1>1, <2>2, <2>3, <2>4
<1>4. CASE Delivered = Parts /\ ~response.cut
  <2>1. PICK z \in Nat : z = Marker
    BY <1>4, MarkerFacts
  <2>2. /\ line_start < z /\ TextBefore(tokens, EndOf(response, Delivered), z)
        /\ tokens[z] = Boundary /\ tokens[z + 1] = Dashes /\ Has(tokens, z + 2, Newline)
        /\ z < Len(tokens)
    BY <1>4, <2>1, MarkerFacts DEF Between
  <2>3. CASE line_start + 1 < z
    <3>1. tokens[line_start + 1] # Boundary /\ LineEnd < z /\ ~Contains(Line, NoText)
      BY <1>2, <2>2, <2>3, GapLine
    <3> QED BY <1>2, <1>4, <2>1, <3>1
  <2>4. CASE line_start + 1 = z
    <3>1. line_start + 2 = z + 1 /\ line_start + 3 = z + 2 /\ z + 1 <= Len(tokens)
      BY <1>1, <2>2, <2>4
    <3>2. z + 1 = Len(tokens) \/ (z + 2 <= Len(tokens) /\ tokens[z + 2] = Newline)
      BY <1>1, <2>2, <3>1 DEF Has
    <3>3. Line = <<Boundary, Dashes>>
      BY <2>2, <2>4, <3>1, <3>2, LineIs
    <3>4. ~Contains(Line, NoText)
      <4>1. Boundary # NoText /\ Dashes # NoText
        BY DEF Boundary, Dashes, NoText
      <4>2. Len(<<Boundary, Dashes>>) = 2 /\ \A i \in 1..2 : i = 1 \/ i = 2
        OBVIOUS
      <4> QED BY <3>3, <4>1, <4>2 DEF Contains
    <3> QED BY <1>4, <3>3, <3>4
  <2> QED BY <1>1, <2>2, <2>3, <2>4
<1>5. CASE Delivered = Parts /\ response.cut
  <2>1. \A i \in EndOf(response, Delivered) + 1..Len(tokens) :
          tokens[i] # NoText /\ (tokens[i] = Boundary => i = Len(tokens))
    BY <1>5 DEF LaidOut, tokens, Parts
  <2>2. \A i \in line_start + 1..LineEnd : tokens[i] # NoText
    BY <1>1, <1>2, <2>1
  <2>3. ~Contains(Line, NoText)
    BY <2>2, LineIs
  <2>4. CASE tokens[line_start + 1] = Boundary
    <3>1. line_start + 1 = Len(tokens)
      BY <1>1, <1>2, <2>1, <2>4
    <3>2. LineEnd = line_start + 1 /\ LineEnd = Len(tokens)
      BY <1>1, <3>1
    <3>3. Line = <<Boundary>>
      BY <2>4, <3>1, <3>2, LineIs
    <3> QED BY <1>5, <2>3, <3>2, <3>3
  <2>5. CASE tokens[line_start + 1] # Boundary
    <3>1. ~(Delivered < Parts)
      BY <1>2, <1>5
    <3> QED BY <1>5, <2>3, <2>5, <3>1
  <2> QED BY <2>4, <2>5
<1> QED BY <1>2, <1>3, <1>4, <1>5

LEMMA HonestAfterSkip ==
  ASSUME HttpTyped, LaidOut(response), Honest, SkipLine
  PROVE  Honest'
<1>1. /\ reading = "skip" /\ ~AtEnd /\ line_start' = LineEnd
      /\ UNCHANGED <<response, received, images>> /\ content_length' = NoLength
      /\ \/ Line = <<Boundary>> /\ reading' = "headers"
         \/ Line # <<Boundary>> /\ Line = <<Boundary, Dashes>> /\ reading' = "none"
         \/ Line # <<Boundary>> /\ Line # <<Boundary, Dashes>> /\ reading' = "skip"
  BY DEF SkipLine, BadLine
<1>2. Between
  BY <1>1 DEF Honest, Stuck
<1>3. HonestFrame
  BY <1>1 DEF HonestFrame
<1>4. PICK n \in Nat, N \in Nat, L \in Nat, E \in Nat, e \in Nat :
        /\ n = Delivered /\ N = Parts /\ L = Len(tokens) /\ e = LineEnd
        /\ E = EndOf(response, n)
  <2>1. Delivered \in Nat /\ Parts \in Nat /\ EndOf(response, Delivered) \in Nat
    BY HonestFacts
  <2>2. Len(tokens) \in Nat /\ LineEnd \in Nat
    BY ResponseTyped, LineEnds
  <2> QED BY <2>1, <2>2
<1>5. /\ tokens' = tokens /\ Delivered' = n /\ Parts' = N /\ Marker' = Marker
      /\ response' = response /\ images' = images /\ line_start' = e
      /\ EndOf(response', Delivered') = E
  BY <1>1, <1>3, <1>4, FrameKeeps
<1>6. /\ n <= N /\ E <= L /\ line_start \in Nat /\ line_start < e /\ e <= L
      /\ tokens[e] = Newline \/ e = L
      /\ E <= line_start
  <2>1. EndOf(response, Delivered) <= line_start
    BY <1>2 DEF Between
  <2>2. Delivered <= Parts /\ EndOf(response, Delivered) <= Len(tokens)
    BY HonestFacts
  <2>3. /\ line_start \in Nat /\ line_start < LineEnd /\ LineEnd <= Len(tokens)
        /\ tokens[LineEnd] = Newline \/ LineEnd = Len(tokens)
    BY <1>1, ResponseTyped, LineEnds, LineIs
  <2> QED BY <1>4, <2>1, <2>2, <2>3
<1>7. \/ /\ tokens[line_start + 1] # Boundary
         /\ n < N => e < StartOf(n + 1)
         /\ n = N /\ ~response.cut => e < Marker
      \/ /\ Line = <<Boundary>> /\ n < N
         /\ e <= StartOf(n + 1) + 1
         /\ \/ e = L /\ e = StartOf(n + 1)
            \/ e = StartOf(n + 1) + 1 /\ tokens[e] = Newline
      \/ Line = <<Boundary>> /\ n = N /\ response.cut /\ e = L
      \/ Line = <<Boundary, Dashes>> /\ n = N /\ ~response.cut
  BY <1>1, <1>2, <1>4, SkipLeads
<1>8. ASSUME n < N
      PROVE  \E b \in Nat, d \in Nat, f \in Nat :
               /\ b = StartOf(n + 1) /\ StartOf(Delivered + 1)' = b
               /\ d = response.bodies[n + 1] /\ f = EndOf(response, n + 1)
               /\ b + 4 <= d /\ d <= f
  <2>1. /\ StartOf(n + 1) \in Nat /\ response.bodies[n + 1] \in Nat
        /\ response.lengths[n + 1] \in Nat
        /\ EndOf(response, n + 1) = response.bodies[n + 1] + response.lengths[n + 1]
        /\ StartOf(n + 1) + 4 <= response.bodies[n + 1]
    BY <1>4, <1>8, HonestFacts
  <2>2. StartOf(Delivered + 1)' = StartOf(n + 1)
    BY <1>3, <1>4, <1>5, FrameKeeps DEF StartOf
  <2>3. EndOf(response, n + 1) \in Nat /\ response.bodies[n + 1] <= EndOf(response, n + 1)
    BY <2>1
  <2> QED BY <2>1, <2>2, <2>3
<1>9. ASSUME e = L, n < N \/ response.cut, n < N => L < EndOf(response, n + 1)
      PROVE  Stuck'
  <2>1. line_start' = Len(tokens)
    BY <1>4, <1>5, <1>9
  <2>2. \/ Delivered < Parts /\ Len(tokens) < EndOf(response, Delivered + 1)
        \/ Delivered = Parts /\ response.cut
    BY <1>4, <1>6, <1>9
  <2> QED BY <1>3, <2>1, <2>2, StuckAfter
<1>10. reading' = "skip" => Between' \/ Stuck'
  <2> SUFFICES ASSUME reading' = "skip" PROVE Between' \/ Stuck'
    OBVIOUS
  <2>1. /\ n < N => e < StartOf(n + 1)
        /\ n = N /\ ~response.cut => e < Marker
    BY <1>1, <1>7
  <2>2. CASE tokens[e] = Newline
    <3>1. EndOf(response', Delivered') <= line_start' /\ tokens'[line_start'] = Newline
      <4>1. E <= e
        BY <1>6
      <4> QED BY <1>5, <2>2, <4>1
    <3>2. n < N => line_start' < StartOf(Delivered + 1)'
      BY <1>5, <1>8, <2>1
    <3> QED BY <1>5, <2>1, <3>1, <3>2 DEF Between
  <2>3. CASE tokens[e] # Newline
    <3>1. e = L
      BY <1>6, <2>3
    <3>2. CASE n < N
      <4>1. PICK b \in Nat, d \in Nat, f \in Nat :
              /\ b = StartOf(n + 1) /\ f = EndOf(response, n + 1) /\ b + 4 <= d /\ d <= f
        BY <1>8, <3>2
      <4>2. L < f
        BY <2>1, <3>1, <3>2, <4>1
      <4> QED BY <1>9, <3>1, <3>2, <4>1, <4>2
    <3>3. CASE n = N /\ response.cut
      BY <1>9, <3>1, <3>3
    <3>4. CASE n = N /\ ~response.cut
      <4>1. Marker \in Nat /\ Marker < L
        BY <1>4, <3>4, MarkerFacts
      <4> QED BY <2>1, <3>1, <3>4, <4>1
    <3> QED BY <1>6, <3>2, <3>3, <3>4
  <2> QED BY <2>2, <2>3
<1>11. reading' = "headers" => InHeader' \/ Stuck'
  <2> SUFFICES ASSUME reading' = "headers" PROVE InHeader' \/ Stuck'
    OBVIOUS
  <2>1. Line = <<Boundary>> /\ tokens[line_start + 1] = Boundary
        /\ <<Boundary>> # <<Boundary, Dashes>>
    <3>1. Line = <<Boundary>>
      BY <1>1
    <3>2. Len(<<Boundary>>) = 1 /\ Len(<<Boundary, Dashes>>) = 2
      OBVIOUS
    <3> QED BY <1>1, <3>1, <3>2, LineIs
  <2>2. CASE n < N
    <3>1. PICK b \in Nat, d \in Nat, f \in Nat :
            /\ b = StartOf(n + 1) /\ StartOf(Delivered + 1)' = b
            /\ d = response.bodies[n + 1] /\ f = EndOf(response, n + 1)
            /\ b + 4 <= d /\ d <= f
      BY <1>8, <2>2
    <3>2. \/ e = L /\ e = b
          \/ e = b + 1 /\ tokens[e] = Newline
      BY <1>7, <2>1, <2>2, <3>1
    <3>3. CASE e = L /\ e = b
      <4>1. L < f
        BY <3>1, <3>3
      <4> QED BY <1>9, <2>2, <3>1, <3>3, <4>1
    <3>4. CASE e = b + 1 /\ tokens[e] = Newline
      <4>1. b + 1 <= e /\ e < d /\ \A i \in b + 2..e : FALSE
        BY <3>1, <3>4
      <4>2. response'.bodies[Delivered' + 1] = d
        BY <1>5, <3>1
      <4> QED BY <1>1, <1>5, <2>2, <3>1, <3>4, <4>1, <4>2 DEF InHeader
    <3> QED BY <3>2, <3>3, <3>4
  <2>3. CASE n = N
    <3>1. response.cut /\ e = L
      BY <1>7, <2>1, <2>3
    <3> QED BY <1>9, <2>3, <3>1
  <2> QED BY <1>6, <2>2, <2>3
<1>12. reading' = "none" => Delivered' = Parts' /\ ~response'.cut
  <2> SUFFICES ASSUME reading' = "none" PROVE n = N /\ ~response.cut
    BY <1>5
  <2>1. Line = <<Boundary, Dashes>> /\ tokens[line_start + 1] = Boundary
    BY <1>1, LineIs
  <2> QED BY <1>1, <1>7, <2>1
<1>13. /\ Delivered' <= Parts' /\ EndOf(response', Delivered') <= Len(tokens')
       /\ \A j \in 1..Delivered' :
            images'[j] = <<response'.bodies[j], response'.lengths[j]>>
  <2>1. \A j \in 1..n : images[j] = <<response.bodies[j], response.lengths[j]>>
    BY <1>4 DEF Honest
  <2> QED BY <1>4, <1>5, <1>6, <2>1
<1> QED BY <1>1, <1>10, <1>11, <1>12, <1>13 DEF Honest

\* A line of a header: not its last, which is blank, or the stream ends in it.
LEMMA HeaderLine ==
  ASSUME HttpTyped, LaidOut(response), Honest, InHeader, ~AtEnd,
         NEW e \in Nat, e = response.bodies[Delivered + 1]
  PROVE  /\ ~Contains(Line, NoText)
         /\ EndsHeaders /\ tokens[LineEnd] = Newline =>
              LineEnd = e /\ content_length # NoLength
         /\ tokens[LineEnd] # Newline => LineEnd < e /\ LineEnd = Len(tokens)
         /\ ~EndsHeaders =>
              /\ LineEnd < e
              /\ Line[1] = tokens[line_start + 1]
              /\ Line[1] \in DOMAIN LengthOf =>
                   LengthOf[Line[1]] = response.lengths[Delivered + 1]
<1>1. /\ line_start \in Nat /\ Len(tokens) \in Nat /\ line_start + 1 <= Len(tokens)
      /\ LineEnd \in line_start + 1..Len(tokens)
      /\ \A k \in line_start + 1..LineEnd - 1 : tokens[k] # Newline
      /\ tokens[LineEnd] = Newline \/ LineEnd = Len(tokens)
  BY ResponseTyped, LineEnds, LineIs
<1>2. PICK b \in Nat : b = StartOf(Delivered + 1)
  BY HonestFacts DEF InHeader
<1>3. /\ b + 1 <= line_start /\ line_start < e /\ tokens[line_start] = Newline
      /\ content_length = NoLength =>
           \A i \in b + 2..line_start :
             ~(tokens[i - 1] = Newline /\ tokens[i] \in DOMAIN LengthOf)
  BY <1>2 DEF InHeader
<1>4. HeaderAt(tokens, b, e, response.lengths[Delivered + 1])
  BY <1>2, HonestFacts DEF InHeader
<1>5. /\ \A i \in b + 2..e : i <= Len(tokens) => tokens[i] # NoText
      /\ \A i \in b + 2..e : i <= Len(tokens) => (Blank(tokens, i) <=> i = e)
      /\ \A i \in b + 2..e :
           i <= Len(tokens) /\ tokens[i - 1] = Newline /\ tokens[i] \in DOMAIN LengthOf =>
             LengthOf[tokens[i]] = response.lengths[Delivered + 1]
      /\ e <= Len(tokens) =>
           \E i \in b + 2..e - 1 : tokens[i - 1] = Newline /\ tokens[i] \in DOMAIN LengthOf
  BY <1>4 DEF HeaderAt, Lacks
<1>6. e <= Len(tokens) => tokens[e] = Newline /\ Blank(tokens, e)
  <2>1. e \in b + 2..e
    BY <1>1, <1>3
  <2> QED BY <1>5, <2>1 DEF Blank
<1> line_start \in 1..Len(tokens)
  BY <1>1, <1>3
<1>7. LineEnd <= e
  <2>1. CASE e <= Len(tokens)
    <3>1. ~(e <= LineEnd - 1)
      BY <1>1, <1>3, <1>6, <2>1
    <3> QED BY <1>1, <3>1
  <2>2. CASE ~(e <= Len(tokens))
    BY <1>1, <2>2
  <2> QED BY <2>1, <2>2
<1>8. ~Contains(Line, NoText)
  <2>1. \A k \in line_start + 1..LineEnd : tokens[k] # NoText
    BY <1>1, <1>3, <1>5, <1>7
  <2> QED BY <2>1, LineIs
<1>9. ASSUME EndsHeaders, tokens[LineEnd] = Newline
      PROVE  LineEnd = e /\ content_length # NoLength
  <2>1. Blank(tokens, LineEnd)
    BY <1>3, <1>9, BlankLine
  <2>2. LineEnd = e
    <3>1. LineEnd \in b + 2..e
      BY <1>1, <1>3, <1>7
    <3> QED BY <1>1, <1>5, <2>1, <3>1
  <2>3. content_length # NoLength
    <3> SUFFICES ASSUME content_length = NoLength PROVE FALSE
      OBVIOUS
    <3>1. PICK i \in b + 2..e - 1 : tokens[i - 1] = Newline /\ tokens[i] \in DOMAIN LengthOf
      BY <1>1, <1>5, <2>2
    <3>2. CASE i <= line_start
      BY <1>1, <1>3, <3>1, <3>2
    <3>3. CASE i = line_start + 1
      <4>1. tokens[i] # Newline /\ (tokens[i] = Space \/ tokens[i] = Newline)
        BY <1>1, <1>3, <1>9, <2>2, <3>1, <3>3, BlankLine
      <4> QED BY <3>1, <4>1, LengthIs
    <3>4. CASE i > line_start + 1
      <4>1. i - 1 \in line_start + 1..LineEnd - 1
        BY <1>1, <2>2, <3>1, <3>4
      <4> QED BY <1>1, <3>1, <4>1
    <3> QED BY <1>1, <3>1, <3>2, <3>3, <3>4
  <2> QED BY <2>2, <2>3
<1>10. ASSUME ~EndsHeaders
       PROVE  /\ LineEnd < e
              /\ Line[1] = tokens[line_start + 1]
              /\ Line[1] \in DOMAIN LengthOf =>
                   LengthOf[Line[1]] = response.lengths[Delivered + 1]
  <2>1. Line[1] = tokens[line_start + 1]
    BY <1>3, <1>10, BlankLine
  <2>2. LineEnd # e
    <3> SUFFICES ASSUME LineEnd = e PROVE FALSE
      OBVIOUS
    <3>1. tokens[e] = Newline /\ Blank(tokens, e)
      BY <1>1, <1>6
    <3> QED BY <1>3, <1>10, <3>1, BlankLine
  <2>3. LineEnd < e
    BY <1>1, <1>7, <2>2
  <2>4. Line[1] \in DOMAIN LengthOf => LengthOf[Line[1]] = response.lengths[Delivered + 1]
    <3>1. PICK i \in Nat : i = line_start + 1
      BY <1>1
    <3>2. i \in b + 2..e /\ i <= Len(tokens) /\ i - 1 = line_start
      BY <1>1, <1>3, <3>1
    <3> QED BY <1>3, <1>5, <2>1, <3>1, <3>2
  <2> QED BY <2>1, <2>3, <2>4
<1>11. ASSUME tokens[LineEnd] # Newline
       PROVE  LineEnd < e /\ LineEnd = Len(tokens)
  <2>1. LineEnd # e
    BY <1>1, <1>6, <1>11
  <2> QED BY <1>1, <1>7, <1>11, <2>1
<1> QED BY <1>8, <1>9, <1>10, <1>11

LEMMA HonestAfterHeader ==
  ASSUME HttpTyped, LaidOut(response), Honest, ReadHeader
  PROVE  Honest'
<1>1. /\ reading = "headers" /\ ~AtEnd /\ line_start' = LineEnd /\ received' = 0
      /\ UNCHANGED <<response, images>>
      /\ content_length' = IF ~EndsHeaders /\ Line[1] \in DOMAIN LengthOf
                           THEN LengthOf[Line[1]] ELSE content_length
      /\ reading' = IF ~EndsHeaders THEN "headers"
                    ELSE IF content_length' = NoLength THEN "error" ELSE "body"
  BY DEF ReadHeader, BadLine
<1>2. InHeader
  BY <1>1 DEF Honest, Stuck
<1>3. HonestFrame
  BY <1>1 DEF HonestFrame
<1>4. PICK n \in Nat, N \in Nat, L \in Nat, E \in Nat, b \in Nat, d \in Nat, f \in Nat,
           l \in Nat, m \in Nat, e \in Nat :
        /\ n = Delivered /\ N = Parts /\ L = Len(tokens) /\ E = EndOf(response, n)
        /\ b = StartOf(n + 1) /\ d = response.bodies[n + 1] /\ f = EndOf(response, n + 1)
        /\ l = response.lengths[n + 1]
        /\ m = line_start /\ e = LineEnd
  <2>1. Delivered \in Nat /\ Parts \in Nat /\ EndOf(response, Delivered) \in Nat
    BY HonestFacts
  <2>2. Len(tokens) \in Nat /\ LineEnd \in Nat /\ line_start \in Nat
    BY ResponseTyped, LineEnds
  <2>3. /\ StartOf(Delivered + 1) \in Nat /\ response.bodies[Delivered + 1] \in Nat
        /\ EndOf(response, Delivered + 1) \in Nat
        /\ response.lengths[Delivered + 1] \in Nat
    BY <1>2, HonestFacts DEF InHeader
  <2> QED BY <2>1, <2>2, <2>3
<1>5. /\ n < N /\ E <= L /\ b + 1 <= m /\ m < d /\ b + 4 <= d /\ f = d + l /\ m < e /\ e <= L
      /\ n <= N
  <2>1. /\ Delivered < Parts /\ EndOf(response, Delivered) <= Len(tokens)
        /\ StartOf(Delivered + 1) + 4 <= response.bodies[Delivered + 1]
        /\ EndOf(response, Delivered + 1)
             = response.bodies[Delivered + 1] + response.lengths[Delivered + 1]
        /\ StartOf(Delivered + 1) + 1 <= line_start
        /\ line_start < response.bodies[Delivered + 1]
    BY <1>2, HonestFacts DEF InHeader
  <2>2. line_start < LineEnd /\ LineEnd <= Len(tokens)
    BY <1>1, ResponseTyped, LineEnds, LineIs
  <2> QED BY <1>4, <2>1, <2>2
<1>6. /\ tokens' = tokens /\ Delivered' = n /\ Parts' = N
      /\ response' = response /\ images' = images /\ line_start' = e
      /\ EndOf(response', Delivered') = E /\ StartOf(Delivered + 1)' = b
  <2>1. StartOf(Delivered + 1)' = StartOf(n + 1)
    BY <1>3, <1>4, FrameKeeps DEF StartOf
  <2> QED BY <1>1, <1>3, <1>4, <2>1, FrameKeeps
<1>7. /\ EndsHeaders /\ tokens[e] = Newline => e = d /\ content_length # NoLength
      /\ tokens[e] # Newline => e < d /\ e = L
      /\ ~EndsHeaders =>
           /\ e < d
           /\ Line[1] = tokens[m + 1]
           /\ Line[1] \in DOMAIN LengthOf => LengthOf[Line[1]] = l
  BY <1>1, <1>2, <1>4, HeaderLine
<1>8. l # NoLength
  BY LengthIs
<1>9. content_length # NoLength => content_length = l
  BY <1>2, <1>4 DEF InHeader
<1>10. ASSUME EndsHeaders, tokens[e] = Newline
       PROVE  reading' = "body" /\ InBody'
  <2>1. content_length' = l /\ reading' = "body"
    BY <1>1, <1>7, <1>8, <1>9, <1>10
  <2>2. Begin' = d
    BY <1>1, <1>6, <1>7, <1>10 DEF Begin
  <2>3. response'.bodies[Delivered' + 1] = d /\ response'.lengths[Delivered' + 1] = l
    BY <1>4, <1>6
  <2> QED BY <1>1, <1>5, <1>6, <2>1, <2>2, <2>3 DEF InBody
<1>11. ASSUME tokens[e] # Newline
       PROVE  Stuck'
  <2>1. e = L /\ L < f
    BY <1>5, <1>7, <1>11
  <2>2. line_start' = Len(tokens) /\ Delivered < Parts
        /\ Len(tokens) < EndOf(response, Delivered + 1)
    BY <1>4, <1>5, <1>6, <2>1
  <2> QED BY <1>3, <2>2, StuckAfter
<1>12. ASSUME ~EndsHeaders
       PROVE  reading' = "headers" /\ (InHeader' \/ Stuck')
  <2>1. reading' = "headers" /\ e < d
    BY <1>1, <1>7, <1>12
  <2>2. CASE tokens[e] # Newline
    BY <1>11, <2>1, <2>2
  <2>3. CASE tokens[e] = Newline
    <3>1. content_length' # NoLength => content_length' = l
      BY <1>1, <1>7, <1>9, <1>12
    <3>2. ASSUME content_length' = NoLength, NEW i \in b + 2..e,
                 tokens[i - 1] = Newline, tokens[i] \in DOMAIN LengthOf
          PROVE  FALSE
      <4>1. Line[1] \notin DOMAIN LengthOf /\ content_length = NoLength
        BY <1>1, <1>7, <1>8, <1>12, <3>2
      <4>2. \A k \in b + 2..m : ~(tokens[k - 1] = Newline /\ tokens[k] \in DOMAIN LengthOf)
        BY <1>2, <1>4, <4>1 DEF InHeader
      <4>3. Line[1] = tokens[m + 1]
        BY <1>7, <1>12
      <4>4. \A k \in m + 1..e - 1 : tokens[k] # Newline
        BY <1>4, LineEnds
      <4>5. CASE i <= m
        BY <1>5, <3>2, <4>2, <4>5
      <4>6. CASE i = m + 1
        BY <3>2, <4>1, <4>3, <4>6
      <4>7. CASE i > m + 1
        <5>1. i - 1 \in m + 1..e - 1
          BY <1>5, <3>2, <4>7
        <5> QED BY <3>2, <4>4, <5>1
      <4> QED BY <1>5, <3>2, <4>5, <4>6, <4>7
    <3>3. b + 1 <= e
      BY <1>5
    <3>4. response'.bodies[Delivered' + 1] = d /\ response'.lengths[Delivered' + 1] = l
      BY <1>4, <1>6
    <3>5. InHeader'
      BY <1>5, <1>6, <2>1, <2>3, <3>1, <3>2, <3>3, <3>4 DEF InHeader
    <3> QED BY <2>1, <3>5
  <2> QED BY <2>2, <2>3
<1>13. /\ Delivered' <= Parts' /\ EndOf(response', Delivered') <= Len(tokens')
       /\ \A j \in 1..Delivered' :
            images'[j] = <<response'.bodies[j], response'.lengths[j]>>
  <2>1. \A j \in 1..n : images[j] = <<response.bodies[j], response.lengths[j]>>
    BY <1>4 DEF Honest
  <2> QED BY <1>4, <1>5, <1>6, <2>1
<1>14. CASE EndsHeaders
  <2>1. CASE tokens[e] = Newline
    BY <1>10, <1>13, <1>14, <2>1 DEF Honest
  <2>2. CASE tokens[e] # Newline
    <3>1. reading' \in {"error", "body"} /\ received' = 0
      BY <1>1, <1>14
    <3> QED BY <1>13, <1>11, <2>2, <3>1 DEF Honest
  <2> QED BY <2>1, <2>2
<1>15. CASE ~EndsHeaders
  BY <1>12, <1>13, <1>15 DEF Honest
<1> QED BY <1>14, <1>15

\* Text is never lost to an error: the reader fails only where it is stuck.
LEMMA HonestAfterFailure ==
  ASSUME HttpTyped, LaidOut(response), Honest, LineFails \/ BodyFails \/ DecodeFails
  PROVE  Honest'
<1>1. /\ UNCHANGED <<response, images>> /\ reading' = "error"
  BY DEF LineFails, BodyFails, DecodeFails, Fails
<1>2. HonestFrame
  BY <1>1 DEF HonestFrame
<1>3. PICK n \in Nat, N \in Nat, L \in Nat, E \in Nat :
        /\ n = Delivered /\ N = Parts /\ L = Len(tokens) /\ E = EndOf(response, n)
        /\ n <= N /\ E <= L
  <2>1. Delivered \in Nat /\ Parts \in Nat /\ EndOf(response, Delivered) \in Nat
        /\ Delivered <= Parts /\ EndOf(response, Delivered) <= Len(tokens)
    BY HonestFacts
  <2>2. Len(tokens) \in Nat
    BY ResponseTyped
  <2> QED BY <2>1, <2>2
<1>4. /\ tokens' = tokens /\ Delivered' = n /\ Parts' = N
      /\ response' = response /\ images' = images
      /\ EndOf(response', Delivered') = E
  BY <1>1, <1>2, <1>3, FrameKeeps
<1>5. ASSUME n < N
      PROVE  \E b \in Nat, d \in Nat, l \in Nat :
               /\ b = StartOf(n + 1) /\ d = response.bodies[n + 1]
               /\ l = response.lengths[n + 1] /\ EndOf(response, n + 1) = d + l
               /\ b + 4 <= d
  BY <1>3, <1>5, HonestFacts
<1>6. CASE LineFails
  <2>1. /\ line_start' = LineEnd /\ BadLine
        /\ reading = "skip" \/ reading = "headers"
    BY <1>6 DEF LineFails, Fails
  <2>2. AtEnd
    <3> SUFFICES ASSUME ~AtEnd PROVE FALSE
      OBVIOUS
    <3>1. Contains(Line, NoText)
      BY <2>1 DEF BadLine
    <3>2. CASE reading = "skip"
      <4>1. Between
        BY <3>2 DEF Honest, Stuck
      <4> QED BY <3>1, <4>1, SkipLeads
    <3>3. CASE reading = "headers"
      <4>1. InHeader
        BY <3>3 DEF Honest, Stuck
      <4>2. response.bodies[Delivered + 1] \in Nat
        BY <4>1, HonestFacts DEF InHeader
      <4> QED BY <3>1, <4>1, <4>2, HeaderLine
    <3> QED BY <2>1, <3>2, <3>3
  <2>3. line_start = L /\ line_start' = L
    <3>1. LineEnd \in line_start..Len(tokens)
      BY LineEnds
    <3> QED BY <1>3, <2>1, <2>2, <3>1 DEF AtEnd
  <2>4. CASE Stuck
    <3>1. response.cut /\ (n < N => L < EndOf(response, n + 1))
      BY <1>3, <2>4 DEF Stuck
    <3>2. Stuck'
      BY <1>2, <1>3, <2>3, <3>1, StuckAfter
    <3> QED BY <1>1, <1>3, <1>4, <3>2 DEF Honest
  <2>5. CASE Between
    <3>1. n = N => response.cut
      <4> SUFFICES ASSUME n = N, ~response.cut PROVE FALSE
        BY ResponseTyped
      <4>1. Marker \in Nat /\ Marker < L /\ line_start < Marker
        BY <1>3, <2>5, MarkerFacts DEF Between
      <4> QED BY <2>3, <4>1
    <3>2. n < N => L < EndOf(response, n + 1)
      <4> SUFFICES ASSUME n < N PROVE L < EndOf(response, n + 1)
        OBVIOUS
      <4>1. PICK b \in Nat, d \in Nat, l \in Nat :
              b = StartOf(n + 1) /\ EndOf(response, n + 1) = d + l /\ b + 4 <= d
        BY <1>5
      <4>2. L < b
        BY <1>3, <2>3, <2>5, <4>1 DEF Between
      <4> QED BY <4>1, <4>2
    <3>3. Stuck'
      BY <1>2, <1>3, <2>3, <3>1, <3>2, StuckAfter
    <3> QED BY <1>1, <1>3, <1>4, <3>3 DEF Honest
  <2>6. CASE InHeader
    <3>1. n < N /\ L < response.bodies[n + 1]
      BY <1>3, <2>3, <2>6 DEF InHeader
    <3>2. PICK d \in Nat, l \in Nat : d = response.bodies[n + 1]
                                      /\ EndOf(response, n + 1) = d + l
      BY <1>5, <3>1
    <3>3. L < EndOf(response, n + 1)
      BY <3>1, <3>2
    <3>4. Stuck'
      BY <1>2, <1>3, <2>3, <3>1, <3>3, StuckAfter
    <3> QED BY <1>1, <1>3, <1>4, <3>4 DEF Honest
  <2> QED BY <2>1, <2>4, <2>5, <2>6 DEF Honest
<1>7. CASE (BodyFails \/ DecodeFails) /\ Stuck
  <2>1. line_start' = L
    BY <1>3, <1>7 DEF BodyFails, DecodeFails, Stuck, AtEnd
  <2>2. response.cut /\ (n < N => L < EndOf(response, n + 1))
    BY <1>3, <1>7 DEF Stuck
  <2>3. Stuck'
    BY <1>2, <1>3, <2>1, <2>2, StuckAfter
  <2>4. \A j \in 1..n : images[j] = <<response.bodies[j], response.lengths[j]>>
    BY <1>3 DEF Honest
  <2> QED BY <1>1, <1>3, <1>4, <2>3, <2>4 DEF Honest
<1>8. CASE (BodyFails \/ DecodeFails) /\ ~Stuck
  <2>1. /\ reading = "body" /\ line_start' = line_start
        /\ (~Whole /\ AtEnd) \/ (Whole /\ ~IsImage)
    BY <1>8 DEF BodyFails, DecodeFails, Fails
  <2>2. InBody
    BY <1>8, <2>1 DEF Honest
  <2>3. PICK d \in Nat, l \in Nat : /\ d = response.bodies[n + 1] /\ n < N
                                    /\ l = response.lengths[n + 1]
                                    /\ EndOf(response, n + 1) = d + l
    BY <1>3, <1>5, <2>2 DEF InBody
  <2>4. /\ Begin = d /\ content_length = l /\ received <= l
        /\ received \in Nat /\ line_start \in Nat /\ line_start = d + received
    <3>1. Begin = d /\ content_length = l /\ received <= l
      BY <1>3, <2>2, <2>3 DEF InBody
    <3>2. received \in Nat /\ line_start \in Nat
      BY ResponseTyped DEF HttpTyped
    <3> QED BY <3>1, <3>2, <2>3 DEF Begin
  <2>5. ~Whole /\ AtEnd
    <3> SUFFICES ASSUME Whole PROVE IsImage
      BY <2>1
    <3>1. received = l
      BY <2>4 DEF Whole
    <3>2. n + 1 \in 1..Len(response.bodies)
      BY <1>3, <2>3 DEF Parts
    <3> QED BY <2>3, <2>4, <3>1, <3>2 DEF IsImage
  <2>6. line_start' = L /\ L < EndOf(response, n + 1)
    <3>1. received # l
      BY <2>4, <2>5 DEF Whole
    <3>2. line_start = L
      BY <1>3, <2>5 DEF AtEnd
    <3>3. received < l
      BY <2>3, <2>4, <3>1
    <3>4. L = d + received
      BY <2>4, <3>2
    <3> QED BY <2>1, <2>3, <2>4, <3>2, <3>3, <3>4
  <2>7. Stuck'
    BY <1>2, <1>3, <2>3, <2>6, StuckAfter
  <2>8. \A j \in 1..n : images[j] = <<response.bodies[j], response.lengths[j]>>
    BY <1>3 DEF Honest
  <2> QED BY <1>1, <1>3, <1>4, <2>7, <2>8 DEF Honest
<1> QED BY <1>6, <1>8, <1>7

LEMMA HonestAfterCall ==
  ASSUME HttpTyped, LaidOut(response), Honest, OpenHttp \/ NextCall
  PROVE  Honest'
<1>1. /\ UNCHANGED <<response, images, line_start>> /\ reading' \in {"skip", "unopened"}
      /\ \/ reading = "closed"
         \/ reading' = "skip" /\ reading \in {"returned", "error"}
  BY DEF OpenHttp, NextCall
<1>2. HonestFrame
  BY <1>1 DEF HonestFrame
<1>3. PICK n \in Nat, N \in Nat, E \in Nat :
        /\ n = Delivered /\ N = Parts /\ E = EndOf(response, n)
        /\ n <= N /\ E <= Len(tokens)
  BY HonestFacts
<1>4. /\ tokens' = tokens /\ Delivered' = n /\ Parts' = N
      /\ response' = response /\ images' = images /\ line_start' = line_start
      /\ EndOf(response', Delivered') = E /\ Marker' = Marker
  BY <1>1, <1>2, <1>3, FrameKeeps
<1>5. \A j \in 1..n : images[j] = <<response.bodies[j], response.lengths[j]>>
  BY <1>3 DEF Honest
<1>6. CASE reading = "error"
  <2>1. Stuck
    BY <1>6 DEF Honest
  <2>2. Stuck'
    BY <1>3, <1>4, <2>1 DEF Stuck, AtEnd
  <2> QED BY <1>1, <1>3, <1>4, <1>5, <1>6, <2>2 DEF Honest
<1>7. CASE reading = "closed" \/ reading = "returned"
  <2>1. line_start = E
    <3>1. CASE reading = "closed"
      <4>1. line_start = 0 /\ n = 0
        BY <1>3, <3>1 DEF Honest
      <4> QED BY <1>3, <4>1 DEF EndOf
    <3>2. CASE reading = "returned"
      BY <1>3, <3>2 DEF Honest
    <3> QED BY <1>7, <3>1, <3>2
  <2>2. n < N => line_start' < StartOf(Delivered + 1)'
    <3> SUFFICES ASSUME n < N PROVE line_start' < StartOf(Delivered + 1)'
      OBVIOUS
    <3>1. E < StartOf(n + 1)
      BY <1>3, HonestFacts
    <3>2. StartOf(Delivered + 1)' = StartOf(n + 1)
      BY <1>2, <1>3, <1>4, FrameKeeps DEF StartOf
    <3> QED BY <1>4, <2>1, <3>1, <3>2
  <2>3. n = N /\ ~response.cut => line_start' < Marker'
    BY <1>3, <1>4, <2>1, MarkerFacts
  <2>4. Between'
    BY <1>3, <1>4, <2>1, <2>2, <2>3 DEF Between
  <2>5. reading' = "unopened" => n = 0 /\ line_start = 0
    BY <1>1, <1>3, <1>7 DEF Honest
  <2> QED BY <1>1, <1>3, <1>4, <1>5, <2>4, <2>5 DEF Honest
<1> QED BY <1>1, <1>6, <1>7

LEMMA HonestAfterBody ==
  ASSUME HttpTyped, LaidOut(response), Honest, ReadBody
  PROVE  Honest'
<1>1. PICK k \in 1..content_length - received :
        /\ line_start + k <= Len(tokens)
        /\ received' = received + k /\ line_start' = line_start + k
  BY DEF ReadBody
<1>2. reading = "body" /\ UNCHANGED <<response, reading, content_length, images>>
  BY DEF ReadBody
<1>3. HonestFrame
  BY <1>2 DEF HonestFrame
<1>4. PICK n \in Nat, N \in Nat, E \in Nat :
        /\ n = Delivered /\ N = Parts /\ E = EndOf(response, n)
        /\ n <= N /\ E <= Len(tokens)
  BY HonestFacts
<1>5. /\ tokens' = tokens /\ Delivered' = n /\ Parts' = N
      /\ response' = response /\ images' = images
      /\ EndOf(response', Delivered') = E
  BY <1>2, <1>3, <1>4, FrameKeeps
<1>6. InBody /\ \A j \in 1..n : images[j] = <<response.bodies[j], response.lengths[j]>>
  <2>1. ~Stuck
    <3>1. k >= 1 /\ line_start + k <= Len(tokens)
      BY <1>1
    <3> QED BY <1>1, <1>2, <3>1, ResponseTyped DEF Stuck, AtEnd, HttpTyped
  <2> QED BY <1>2, <1>4, <2>1 DEF Honest
<1>7. content_length \in Nat /\ received \in Nat /\ line_start \in Nat
  BY <1>2, ResponseTyped DEF HttpTyped
<1>8. Begin' = Begin /\ received' <= content_length
  BY <1>1, <1>7 DEF Begin
<1>9. InBody'
  BY <1>2, <1>4, <1>5, <1>6, <1>8 DEF InBody
<1> QED BY <1>2, <1>4, <1>5, <1>6, <1>9 DEF Honest

LEMMA HonestAfterDeliver ==
  ASSUME HttpTyped, LaidOut(response), Honest, Deliver
  PROVE  Honest'
<1>1. /\ reading = "body" /\ received = content_length /\ reading' = "returned"
      /\ received # 0 /\ UNCHANGED <<response, line_start, content_length, received>>
  BY ResponseTyped DEF Deliver, Whole, HttpTyped
<1>2. InBody
  BY <1>1 DEF Honest
<1>3. PICK n \in Nat, N \in Nat, L \in Nat, d \in Nat, l \in Nat :
        /\ n = Delivered /\ N = Parts /\ L = Len(tokens)
        /\ d = response.bodies[n + 1] /\ l = response.lengths[n + 1]
        /\ EndOf(response, n + 1) = d + l /\ n < N
  <2>1. Delivered < Parts
    BY <1>2 DEF InBody
  <2>2. /\ Delivered \in Nat /\ Parts \in Nat /\ Len(tokens) \in Nat
        /\ response.bodies[Delivered + 1] \in Nat /\ response.lengths[Delivered + 1] \in Nat
        /\ EndOf(response, Delivered + 1) =
             response.bodies[Delivered + 1] + response.lengths[Delivered + 1]
    BY <2>1, HonestFacts, ResponseTyped
  <2> QED BY <2>1, <2>2
<1>4. /\ Begin = d /\ received = l
      /\ received \in Nat /\ line_start \in Nat /\ line_start <= L
  BY <1>1, <1>2, <1>3, ResponseTyped DEF InBody, HttpTyped
<1>5. line_start = d + l
  BY <1>3, <1>4 DEF Begin
<1>6. /\ Len(images') = n + 1 /\ images'[n + 1] = <<d, l>>
      /\ \A j \in 1..n : images'[j] = images[j]
  <2>1. n = Len(images)
    BY <1>3 DEF Delivered
  <2>2. Len(images') = Len(images) + 1 /\ images'[Len(images) + 1] = <<Begin, received>>
        /\ \A j \in 1..Len(images) : images'[j] = images[j]
    BY Delivers
  <2> QED BY <1>4, <2>1, <2>2
<1>7. Delivered' = n + 1 /\ Parts' = N /\ tokens' = tokens /\ response' = response
  BY <1>1, <1>3, <1>6 DEF Delivered, Parts, tokens
<1>8. EndOf(response', Delivered') = line_start'
  BY <1>1, <1>3, <1>5, <1>7
<1>9. \A j \in 1..n + 1 : images'[j] = <<response.bodies[j], response.lengths[j]>>
  <2>1. \A j \in 1..n : images[j] = <<response.bodies[j], response.lengths[j]>>
    BY <1>3 DEF Honest
  <2>2. \A j \in 1..n + 1 : j \in 1..n \/ j = n + 1
    OBVIOUS
  <2> QED BY <1>3, <1>6, <2>1, <2>2
<1> QED BY <1>1, <1>3, <1>4, <1>7, <1>8, <1>9 DEF Honest

LEMMA HonestKeeps ==
  ASSUME HttpTyped, LaidOut(response), Honest, HttpNext
  PROVE  Honest'
  BY HonestAfterSkip, HonestAfterHeader, HonestAfterFailure, HonestAfterCall,
     HonestAfterBody, HonestAfterDeliver DEF HttpNext

\* What the source has delivered, and where it stands, is what the property
\* says of both kinds of servers.
LEMMA HonestExact ==
  ASSUME HttpTyped, LaidOut(response), Honest
  PROVE  /\ HonestPartsExact /\ PlaceKept
         /\ reading = "none" => Len(images) = Len(response.bodies)
<1> DEFINE Part(k) == <<response.bodies[k], response.lengths[k]>>
           whole == {k \in 1..Len(response.bodies) : Part(k)[1] + Part(k)[2] <= Len(tokens)}
<1>1. PICK n \in Nat, N \in Nat, L \in Nat :
        /\ n = Delivered /\ N = Parts /\ L = Len(tokens)
        /\ n = Len(images) /\ N = Len(response.bodies) /\ n <= N
        /\ EndOf(response, n) <= L
  BY HonestFacts, ResponseTyped DEF Delivered, Parts
<1>2. \A j \in 1..n : images[j] = Part(j)
  BY <1>1 DEF Honest
<1>3. whole = {k \in 1..N : EndOf(response, k) <= L}
  <2>1. \A k \in 1..N : Part(k)[1] + Part(k)[2] = EndOf(response, k)
    <3> SUFFICES ASSUME NEW k \in 1..N PROVE Part(k)[1] + Part(k)[2] = EndOf(response, k)
      OBVIOUS
    <3>1. EndOf(response, k) = response.bodies[k] + response.lengths[k]
      BY <1>1, PartFacts
    <3> QED BY <3>1
  <2> HIDE DEF Part
  <2> QED BY <1>1, <2>1
<1>4. \A j, k \in 0..N : j <= k => EndOf(response, j) <= EndOf(response, k)
  BY <1>1, EndFacts
<1>5. \A k \in 0..N : EndOf(response, k) \in Nat
  BY <1>1, EndFacts
<1>6. 1..n \subseteq whole
  <2> SUFFICES ASSUME NEW k \in 1..n PROVE k \in 1..N /\ EndOf(response, k) <= L
    BY <1>3
  <2>1. k \in 0..N /\ n \in 0..N /\ k <= n /\ k \in 1..N
    BY <1>1
  <2>2. EndOf(response, k) <= EndOf(response, n)
    BY <1>4, <2>1
  <2>3. EndOf(response, k) \in Nat /\ EndOf(response, n) \in Nat
    BY <1>5, <2>1
  <2> QED BY <1>1, <2>1, <2>2, <2>3
<1> HIDE DEF whole
<1>7. IsFiniteSet(1..N) /\ whole \subseteq 1..N /\ IsFiniteSet(whole)
      /\ Cardinality(1..n) = n /\ Cardinality(whole) \in Nat
  <2>1. IsFiniteSet(1..N) /\ Cardinality(1..n) = n
    <3>1. \A a, b \in Int : IsFiniteSet(a..b)
            /\ Cardinality(a..b) = IF a > b THEN 0 ELSE b - a + 1
      BY FS_Interval
    <3>2. IsFiniteSet(1..N) /\ Cardinality(1..n) = IF 1 > n THEN 0 ELSE n - 1 + 1
      BY <3>1
    <3> QED BY <3>2
  <2>2. whole \subseteq 1..N
    BY <1>3
  <2>3. IsFiniteSet(whole)
    BY <2>1, <2>2, FS_Subset
  <2>4. Cardinality(whole) \in Nat
    BY <2>3, FS_CardinalityType
  <2> QED BY <2>1, <2>2, <2>3, <2>4
<1>8. n <= Cardinality(whole)
  BY <1>6, <1>7, FS_Subset
<1>9. ASSUME Stuck
      PROVE  n = Cardinality(whole) /\ response.cut
  <2>1. n < N => L < EndOf(response, n + 1)
    BY <1>1, <1>9 DEF Stuck
  <2>2. whole \subseteq 1..n
    <3> SUFFICES ASSUME NEW k \in whole, k \notin 1..n PROVE FALSE
      OBVIOUS
    <3>1. k \in 1..N /\ EndOf(response, k) <= L
      BY <1>3
    <3>2. n < N /\ n + 1 \in 0..N /\ k \in 0..N /\ n + 1 <= k
      BY <1>1, <3>1
    <3>3. EndOf(response, n + 1) <= EndOf(response, k)
      BY <1>4, <3>2
    <3>4. EndOf(response, n + 1) \in Nat /\ EndOf(response, k) \in Nat
      BY <1>5, <3>2
    <3> QED BY <2>1, <3>1, <3>2, <3>3, <3>4
  <2>3. whole = 1..n
    BY <1>6, <2>2
  <2> QED BY <1>7, <1>9, <2>3 DEF Stuck
<1>10. ASSUME reading = "none"
       PROVE  n = N /\ n = Cardinality(whole) /\ ~response.cut
  <2>1. n = N /\ ~response.cut
    BY <1>1, <1>10 DEF Honest
  <2>2. whole = 1..n
    BY <1>6, <1>7, <2>1
  <2> QED BY <1>7, <2>1, <2>2
<1>11. reading = "error" => Stuck
  BY DEF Honest
<1>12. HonestPartsExact
  <2>1. reading \in {"none", "error"} => n = Cardinality(whole)
    BY <1>9, <1>10, <1>11
  <2>2. reading \in {"none", "error"} => (reading = "error" <=> response.cut)
    BY <1>9, <1>10, <1>11
  <2> QED BY <1>1, <1>2, <1>8, <2>1, <2>2 DEF HonestPartsExact, whole
<1>13. PlaceKept
  <2> SUFFICES ASSUME NEW j \in 1..n
               PROVE  /\ \E k \in 1..N : images[j][1] = response.bodies[k]
                      /\ j > 1 => images[j - 1][1] < images[j][1]
    BY <1>1 DEF PlaceKept
  <2>1. j \in 1..N /\ images[j][1] = response.bodies[j]
    BY <1>1, <1>2
  <2>2. ASSUME j > 1
        PROVE  images[j - 1][1] < images[j][1]
    <3>1. j - 1 \in 1..N /\ j - 1 \in 1..n /\ j - 1 \in 1..Parts /\ j \in 1..Parts
      BY <1>1, <2>2
    <3>2. images[j - 1][1] = response.bodies[j - 1]
      BY <1>2, <3>1
    <3>3. /\ response.bodies[j - 1] \in Nat /\ response.lengths[j - 1] \in Nat
          /\ EndOf(response, j - 1) = response.bodies[j - 1] + response.lengths[j - 1]
      BY <3>1, PartFacts
    <3>4. EndOf(response, j - 1) < StartOf(j)
      BY <3>1, EndFacts
    <3>5. StartOf(j) \in Nat /\ StartOf(j) + 4 <= response.bodies[j]
          /\ response.bodies[j] \in Nat
      BY <3>1, PartFacts
    <3> QED BY <2>1, <3>2, <3>3, <3>4, <3>5
  <2> QED BY <2>1, <2>2
<1> QED BY <1>1, <1>10, <1>12, <1>13

HttpInv ==
  HttpTyped /\ (IF response.honest THEN Honest ELSE InPlace)

LEMMA ServerFacts ==
  ASSUME HttpInv
  PROVE  IF response.honest THEN LaidOut(response) ELSE BoundariesLead(response)
  BY ServersAssumption DEF HttpInv, HttpTyped

LEMMA HttpKeeps ==
  ASSUME HttpInv, HttpNext
  PROVE  HttpInv'
<1>1. HttpTyped /\ HttpTyped'
  BY HttpTypedKept DEF HttpInv
<1>2. response' = response
  BY DEF HttpNext, OpenHttp, SkipLine, ReadHeader, LineFails, ReadBody, BodyFails, Deliver,
         DecodeFails, NextCall, Fails
<1>3. CASE response.honest
  <2>1. LaidOut(response) /\ Honest
    BY <1>3, ServerFacts DEF HttpInv
  <2> QED BY <1>1, <1>2, <1>3, <2>1, HonestKeeps DEF HttpInv
<1>4. CASE ~response.honest
  <2>1. BoundariesLead(response) /\ InPlace
    BY <1>4, ServerFacts DEF HttpInv
  <2> QED BY <1>1, <1>2, <1>4, <2>1, PlaceKeeps DEF HttpInv
<1> QED BY <1>3, <1>4

LEMMA HttpExact ==
  ASSUME HttpInv
  PROVE  /\ PartsExact
         /\ response.honest /\ reading = "none" => Len(images) = Len(response.bodies)
<1>1. CASE response.honest
  <2>1. HttpTyped /\ LaidOut(response) /\ Honest
    BY <1>1, ServerFacts DEF HttpInv
  <2> QED BY <2>1, HonestExact DEF PartsExact
<1>2. CASE ~response.honest
  BY <1>2 DEF HttpInv, InPlace, PartsExact, HonestPartsExact
<1> QED BY <1>1, <1>2

-----------------------------------------------------------------------------
(* All sources.                                                            *)

SourcesInv ==
  /\ args \in Inputs
  /\ src \in {"closed", Chosen}
  /\ src \in {"closed", "failed"} => reader = "closed"
  /\ Chosen = "yuv" => ~recording.file
  /\ JpegInv /\ ImagesInv /\ HttpInv /\ RawInv

LEMMA ChosenIs ==
  Chosen \in {"http", "mjpeg", "yuv", "file", "failed"}
  BY Zenon DEF Chosen

LEMMA OneOf ==
  ASSUME NEW S, S # {}
  PROVE  One(S) \subseteq S
  BY DEF One

LEMMA JpegStarts ==
  ASSUME NEW S, S \subseteq Streams, JpegInit(S)
  PROVE  JpegInv
<1>1. /\ stream \in Streams /\ pos = 0 /\ unget = <<>> /\ buf = <<>>
      /\ phase = "soi" /\ need = 0 /\ given = <<>>
  BY DEF JpegInit
<1>2. Len(stream.input) \in Nat
  BY <1>1, StreamsAssumption
<1>3. /\ SubSeq(stream.input, 1, 0) = <<>>
      /\ given \o buf \o unget = <<>>
  BY <1>1, SubSeqEmpty
<1> QED BY <1>1, <1>2, <1>3, EmptySeq DEF JpegInv, JpegTyped, PutBack, Accounted

LEMMA HttpStarts ==
  ASSUME NEW S, S \subseteq Responses, HttpInit(S)
  PROVE  HttpInv
<1>1. /\ response \in Responses /\ line_start = 0 /\ reading = "closed"
      /\ content_length = NoLength /\ received = 0 /\ images = <<>>
  BY DEF HttpInit
<1>2. Len(tokens) \in Nat /\ Len(response.bodies) \in Nat /\ response.honest \in BOOLEAN
  BY <1>1, ResponsesAssumption DEF tokens
<1>3. images \in Seq(Nat \X Nat) /\ Len(images) = 0
  BY <1>1
<1>4. HttpTyped
  BY <1>1, <1>2, <1>3 DEF HttpTyped
<1>5. Honest
  <2>1. Delivered = 0 /\ Parts \in Nat /\ EndOf(response, Delivered) = 0
    BY <1>2, <1>3 DEF Delivered, Parts, EndOf
  <2> QED BY <1>1, <1>2, <2>1 DEF Honest
<1>6. InPlace
  BY <1>1, <1>3 DEF InPlace, PlaceKept
<1> QED BY <1>4, <1>5, <1>6 DEF HttpInv

LEMMA RawStarts ==
  ASSUME NEW S, S \subseteq Recordings, RawInit(S)
  PROVE  RawInv
<1>1. /\ recording \in Recordings /\ reader = "closed" /\ taken = 0 /\ total = 0
      /\ frame_buf = [k \in 1..FrameBytes |-> 0] /\ frame_pts = <<>> /\ frames = <<>>
  BY DEF RawInit
<1>2. FrameBytes \in Nat
  BY <1>1, RawFacts
<1>3. frames \in Seq(Frame) /\ Len(frames) = 0 /\ frame_pts \in Seq(Int) /\ Len(frame_pts) = 0
  BY <1>1
<1>4. RawTyped
  BY <1>1, <1>2, <1>3 DEF RawTyped
<1>5. Filled
  <2>1. Before = 0
    BY <1>1, <1>3 DEF Before
  <2>2. 0 * FrameBytes = 0
    BY <1>2
  <2> QED BY <1>1, <1>2, <2>1, <2>2 DEF Filled
<1>6. FramesAligned /\ Stamped
  BY <1>1, <1>3 DEF FramesAligned, Stamped
<1> QED BY <1>4, <1>5, <1>6 DEF RawInv

LEMMA SourcesStart ==
  ASSUME Init
  PROVE  SourcesInv
<1>1. Streams # {} /\ Responses # {} /\ Recordings # {}
  BY InputsAssumption
<1>2. /\ One(Streams) \subseteq Streams /\ One(Responses) \subseteq Responses
      /\ One(Recordings) \subseteq Recordings
  BY <1>1, OneOf
<1>3. JpegInv /\ ImagesInv
  <2> DEFINE S == IF Chosen = "mjpeg" THEN Streams ELSE One(Streams)
  <2>1. S \subseteq Streams
    BY <1>2
  <2>2. JpegInit(S)
    BY DEF Init
  <2> HIDE DEF S
  <2> QED BY <2>1, <2>2, JpegStarts, ImagesStart
<1>4. HttpInv
  <2> DEFINE S == IF Chosen = "http" THEN Responses ELSE One(Responses)
  <2>1. S \subseteq Responses
    BY <1>2
  <2>2. HttpInit(S)
    BY DEF Init
  <2> HIDE DEF S
  <2> QED BY <2>1, <2>2, HttpStarts
<1>5. RawInv /\ (Chosen = "yuv" => ~recording.file)
  <2> DEFINE S == CASE Chosen = "yuv"  -> {r \in Recordings : ~r.file}
                    [] Chosen = "file" -> {r \in Recordings : r.file}
                    [] OTHER           -> One(Recordings)
  <2>1. RawInit(S)
    BY DEF Init
  <2>2. /\ Chosen = "yuv" => S = {r \in Recordings : ~r.file}
        /\ Chosen = "file" => S = {r \in Recordings : r.file}
        /\ Chosen # "yuv" /\ Chosen # "file" => S = One(Recordings)
    <3>1. Chosen = "yuv" => Chosen # "file"
      OBVIOUS
    <3> QED BY <3>1, Zenon
  <2> HIDE DEF S
  <2>3. S \subseteq Recordings
    BY <1>2, <2>2
  <2>4. recording \in S
    BY <2>1 DEF RawInit
  <2> QED BY <2>1, <2>2, <2>3, <2>4, RawStarts
<1>6. args \in Inputs /\ src = "closed" /\ reader = "closed"
  BY DEF Init, RawInit
<1> QED BY <1>3, <1>4, <1>5, <1>6 DEF SourcesInv

LEMMA JpegStays ==
  ASSUME JpegInv, UNCHANGED jpegVars
  PROVE  JpegInv'
  BY DEF JpegInv, JpegTyped, PutBack, Accounted, jpegVars

LEMMA HttpStays ==
  ASSUME HttpInv, UNCHANGED httpVars
  PROVE  HttpInv'
<1>1. UNCHANGED <<response, line_start, reading, content_length, received, images>>
  BY DEF httpVars
<1>2. tokens' = tokens
  BY <1>1 DEF tokens
<1>3. HttpTyped => HttpTyped'
  BY <1>1, <1>2 DEF HttpTyped
<1>4. InPlace => InPlace'
  BY <1>1, <1>2 DEF InPlace, PlaceKept, AtEnd, HeaderBehind, Begin
<1>5. Honest => Honest'
  <2>1. HonestFrame
    BY <1>1 DEF HonestFrame
  <2>2. Between => Between'
    BY <1>1, <1>2 DEF Between, Delivered, Parts, StartOf, Marker
  <2>3. Stuck => Stuck'
    BY <1>1, <1>2 DEF Stuck, Delivered, Parts, AtEnd
  <2>4. InHeader => InHeader'
    BY <1>1, <1>2 DEF InHeader, Delivered, Parts, StartOf
  <2>5. InBody => InBody'
    BY <1>1, <1>2 DEF InBody, Delivered, Parts, Begin
  <2>6. Delivered' = Delivered /\ Parts' = Parts
    BY <1>1 DEF Delivered, Parts
  <2> QED BY <1>1, <1>2, <2>2, <2>3, <2>4, <2>5, <2>6 DEF Honest
<1> QED BY <1>1, <1>3, <1>4, <1>5 DEF HttpInv

LEMMA RawStays ==
  ASSUME RawInv, UNCHANGED rawVars
  PROVE  RawInv'
  BY DEF RawInv, RawTyped, Filled, Before, FramesAligned, Stamped, Available, AllStamped,
         rawVars

LEMMA SourcesKeep ==
  ASSUME SourcesInv, [Next]_vars
  PROVE  SourcesInv'
<1>1. args \in Inputs /\ src \in {"closed", Chosen}
      /\ JpegInv /\ ImagesInv /\ HttpInv /\ RawInv
  BY DEF SourcesInv
<1>2. args' = args
  BY DEF Next, OpenSource, vars
<1>3. Chosen' = Chosen
  BY <1>2 DEF Chosen
<1>4. recording' = recording
  BY DEF Next, OpenSource, vars, rawVars, RawNext, OpenRaw, OpenRawFails, ReadBytes,
         PipeFails, PipeEnds, DeliverRaw, NoStamp, NextRaw, Stops
<1>5. JpegInv' /\ ImagesInv'
  <2>1. JpegNext \/ UNCHANGED jpegVars
    BY DEF Next, OpenSource, vars
  <2>2. JpegInv'
    BY <1>1, <2>1, JpegKeeps, JpegStays
  <2> QED BY <1>1, <2>1, <2>2, ImagesKeep
<1>6. HttpInv'
  <2>1. HttpNext \/ UNCHANGED httpVars
    BY DEF Next, OpenSource, vars
  <2> QED BY <1>1, <2>1, HttpKeeps, HttpStays
<1>7. RawInv'
  <2>1. RawNext \/ UNCHANGED rawVars
    BY DEF Next, OpenSource, vars
  <2> QED BY <1>1, <2>1, RawKeeps, RawStays
<1>8. src' \in {"closed", Chosen}
  BY <1>1 DEF Next, OpenSource, vars
<1>9. src' \in {"closed", "failed"} => reader' = "closed"
  <2> SUFFICES ASSUME src' \in {"closed", "failed"} PROVE reader' = "closed"
    OBVIOUS
  <2>1. src \in {"closed", "failed"} /\ reader' = reader
    BY DEF Next, OpenSource, vars, rawVars
  <2> QED BY <2>1 DEF SourcesInv
<1> QED BY <1>1, <1>2, <1>3, <1>4, <1>5, <1>6, <1>7, <1>8, <1>9 DEF SourcesInv

LEMMA SourcesAlways == Spec => []SourcesInv
<1>1. Init => SourcesInv
  BY SourcesStart
<1>2. SourcesInv /\ [Next]_vars => SourcesInv'
  BY SourcesKeep
<1> QED BY <1>1, <1>2, PTL DEF Spec

\* The bytes of a camera's stream, those returned, dropped, in hand and put
\* back, are the bytes read, in order (JpegScanner::scan and unread2).
THEOREM BytesAreAccounted == Spec => []BytesAccounted
<1>1. SourcesInv => BytesAccounted
  BY DEF SourcesInv, JpegInv, Accounted, PutBack, BytesAccounted
<1> QED BY <1>1, SourcesAlways, PTL

\* The images of an encoder's stream are delivered one by one, and only whole,
\* whatever bytes they contain (JpegScanner::scan and scan_image_data).
THEOREM ImagesAreExact == Spec => []ImagesExact
<1>1. SourcesInv => ImagesExact
  BY ParsedExact DEF SourcesInv
<1> QED BY <1>1, SourcesAlways, PTL

\* Parts of a response are delivered whole, in order and from where they
\* begin, and all of them before an end in good order, if the server's lengths
\* are right (MjpegHttpSrc::next_frame); if not, still from where they begin.
THEOREM PartsAreExact == Spec => []PartsExact
<1>1. SourcesInv => PartsExact
  BY HttpExact DEF SourcesInv
<1> QED BY <1>1, SourcesAlways, PTL

\* A frame of raw pixels consists of its own bytes, however the pipe cuts them
\* (read_exact_or_eof of FileSrc, read_exact of PiCam3Src).
THEOREM FramesAreAligned == Spec => []FramesAligned
<1>1. SourcesInv => FramesAligned
  BY DEF SourcesInv, RawInv
<1> QED BY <1>1, SourcesAlways, PTL

\* A source that ends in good order has delivered everything, a file with the
\* times of its video (next_frame of every source, and the assertion of FileSrc).
THEOREM EndsAreComplete == Spec => []EndIsComplete
<1>1. ASSUME SourcesInv
      PROVE  EndIsComplete
  <2> SUFFICES ASSUME Result = "none"
               PROVE  CASE src = "http" -> response.honest => Len(images) = Len(response.bodies)
                        [] src = "file" -> StampsExact
                        [] OTHER        -> FALSE
    BY DEF EndIsComplete
  <2>1. /\ HttpInv /\ RawInv /\ src \in {"closed", Chosen}
        /\ src \in {"closed", "failed"} => reader = "closed"
        /\ Chosen = "yuv" => ~recording.file
    BY <1>1 DEF SourcesInv
  <2>2. src \in {"closed", "http", "mjpeg", "yuv", "file", "failed"}
    BY <2>1, ChosenIs
  <2>3. CASE src = "http"
    <3>1. reading = "none"
      BY <2>3, Zenon DEF Result
    <3>2. response.honest => Len(images) = Len(response.bodies)
      BY <2>1, <3>1, HttpExact
    <3> QED BY <2>3, <3>2, Zenon
  <2>4. CASE src = "file"
    <3>1. reader = "none"
      <4>1. src # "mjpeg" /\ src # "http"
        BY <2>4
      <4> QED BY <4>1, Zenon DEF Result
    <3>2. StampsExact
      BY <2>1, <3>1, RawEnd
    <3>3. src # "http"
      BY <2>4
    <3> QED BY <2>4, <3>2, <3>3, Zenon
  <2>5. CASE src \in {"closed", "failed", "yuv"}
    <3>1. reader = "none"
      <4>1. src # "mjpeg" /\ src # "http"
        BY <2>5
      <4> QED BY <4>1, Zenon DEF Result
    <3>2. recording.file
      BY <2>1, <3>1, RawEnd
    <3> QED BY <2>1, <2>5, <3>1, <3>2
  <2>6. CASE src = "mjpeg"
    <3>1. Result = IF phase = "none" THEN "error" ELSE phase
      BY <2>6, Zenon DEF Result, ScanNone
    <3> QED BY <3>1
  <2> QED BY <2>2, <2>3, <2>4, <2>5, <2>6
<1> QED BY <1>1, SourcesAlways, PTL
=============================================================================
