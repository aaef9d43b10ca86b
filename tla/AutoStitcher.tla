---------------------------- MODULE AutoStitcher ----------------------------
(***************************************************************************)
(* The stateful train detector of crates/core: AutoStitcher (auto.rs) with *)
(* its Sequence buffer (sequence.rs), the speed limits of Config           *)
(* (config.rs), and what fit_and_stitch (stitch.rs, fit.rs, ransac) makes  *)
(* of a finished sequence.                                                 *)
(*                                                                         *)
(* One action per way through process_frame.  Each of them takes one frame *)
(* and, as frame() does, always makes it the new previous frame.  Pixels   *)
(* are abstracted to what process_frame learns from them: whether the      *)
(* frame is dark, the offset dx found by the patch matcher and the class   *)
(* of its score.  Time is counted in ticks, the low pass in units of       *)
(* 1/Scale pixel.                                                          *)
(***************************************************************************)
EXTENDS Integers, Sequences, FiniteSets

CONSTANTS
  MinFramePeriod,  \* MIN_FRAME_PERIOD_S, in ticks
  MaxFramePeriod,  \* MAX_FRAME_PERIOD_S, in ticks
  TicksPerSecond,  \* length of a second, in ticks
  MinSpeed,        \* min_speed_kph, in pixels per second
  MaxSpeed,        \* max_speed_kph, in pixels per second
  Width,           \* width of every frame, in pixels
  MaxFrameCount,   \* max_frame_count_per_seq
  LowPassNum,      \* DX_LOW_PASS_FACTOR is LowPassNum / LowPassDen
  LowPassDen,
  Scale,           \* resolution of the low pass
  FitMethod,       \* "ols" or "ransac"
  MinFitFrames,    \* the 9 of fit_dx
  MinModelPoints,  \* min_model_points passed to ransac
  Periods,         \* the inter-frame periods the source produces
  Offsets,         \* the offsets the patch matcher may report
  MaxFrames        \* bound on the number of frames received

\* Time never goes back, as on every live source.  A file may list stamps that
\* repeat or go back; the differences of auto.rs then saturate at zero.
ASSUME TimeAssumption ==
  /\ MinFramePeriod \in Nat \ {0}
  /\ MaxFramePeriod \in Nat
  /\ TicksPerSecond \in Nat \ {0}
  /\ Periods \subseteq Nat

ASSUME SpeedAssumption ==
  /\ MinSpeed \in Nat
  /\ MaxSpeed \in Nat
  /\ Width \in Nat
  /\ Offsets \subseteq Int

ASSUME LowPassAssumption ==
  /\ LowPassDen \in Nat \ {0}
  /\ LowPassNum \in 0..LowPassDen
  /\ Scale \in Nat \ {0}

ASSUME LimitAssumption ==
  /\ MaxFrameCount \in Nat
  /\ MinFitFrames \in Nat \ {0}
  /\ MinModelPoints \in Nat
  /\ FitMethod \in {"ols", "ransac"}
  /\ MaxFrames \in Nat

VARIABLES
  prevTs,       \* prev_ts, None before the first frame
  prevIx,       \* prev_frame: the ordinal of that frame, 0 before the first
  startWall,    \* seq.start_wall: the frame whose wall clock was taken
  startTs,      \* seq.start_ts
  images,       \* seq.images, as frame ordinals
  dx,           \* seq.dx
  ts,           \* seq.ts
  lowPass,      \* dx_abs_low_pass
  disposition,  \* the label of the last frame's metric
  result,       \* what the last call returned
  handed,       \* the sequence last passed to fit_dx, trailing zeros stripped
  closed,       \* the caller has made its last call
  unseen        \* history: the frames skipped as fast or slow, never looked at

prev == <<prevTs, prevIx>>
seq  == <<startWall, startTs, images, dx, ts>>
vars == <<prev, seq, lowPass, disposition, result, handed, closed, unseen>>

None == -1

Score == {"no_move", "move", "poor"}   \* cos >= .99, .925 <= cos < .99, below

Dispositions ==
  {"none", "unknown", "fast_frame", "slow_frame", "low_contrast", "recorded",
   "not_moving", "recorded_new_sequence", "inconclusive"}

Rejections ==
  {"fit_too_short", "fit_failed", "too_short", "too_slow", "stitch_failed",
   "video_failed"}

Results == {"none", "train", "panic"} \union Rejections

NoSequence == [startTs |-> None, images |-> <<>>, dx |-> <<>>, ts |-> <<>>]

-----------------------------------------------------------------------------
(* Config: how many pixels a train can move in one frame period.           *)

Abs(n) == IF n < 0 THEN -n ELSE n
AtLeastOne(n) == IF n < 1 THEN 1 ELSE n

MinPxPerFrame(p) == AtLeastOne(((MinSpeed * p) \div TicksPerSecond) - 1)
MaxPxPerFrame(p) == AtLeastOne(((MaxSpeed * p) \div TicksPerSecond) + 1)

-----------------------------------------------------------------------------
(* The guards of process_frame.                                            *)

IsActive == dx # <<>>

TooFast(p)   == p < MinFramePeriod
TooNarrow(p) == Width < 3 * MaxPxPerFrame(p)

\* Time since the last recorded frame, when the frame of period p arrives.
Elapsed(p) == (prevTs + p) - ts[Len(ts)]
DarkTooLong_SincePrevious(p) == p > MaxFramePeriod
DarkTooLong(p) == Elapsed(p) > MaxFramePeriod

SequenceFull_Never == FALSE
SequenceFull == Len(dx) > MaxFrameCount

LowPassStep_Signed(d) ==
  (lowPass * LowPassNum + d * Scale * (LowPassDen - LowPassNum)) \div LowPassDen
LowPassStep(d) ==
  (lowPass * LowPassNum + Abs(d) * Scale * (LowPassDen - LowPassNum))
    \div LowPassDen

TooSlow_Never(p, low) == low < 0
TooSlow(p, low) == low < MinPxPerFrame(p) * Scale

NotMoving(p, d, cos) == cos = "no_move" /\ Abs(d) < MinPxPerFrame(p)

\* The matcher is trusted and sees the motion of a train.
StartsSequence(p, d, cos) ==
  /\ cos \in {"no_move", "move"}
  /\ Abs(d) >= MinPxPerFrame(p)
  /\ Abs(d) <= MaxPxPerFrame(p)

-----------------------------------------------------------------------------
(* fit_and_stitch: strip the trailing zero offsets, fit, validate, stitch  *)
(* and encode the clip.  The numbers of the fit are abstracted: any of the *)
(* outcomes that may follow a fit is possible.                             *)

NonZero(s) == {i \in 1..Len(s) : s[i] # 0}

StrippedLen(s) == CHOOSE n \in 0..Len(s) :
  /\ \A i \in n + 1..Len(s) : s[i] = 0
  /\ n > 0 => s[n] # 0

Stripped ==
  LET n == StrippedLen(dx)
  IN  [startTs |-> startTs, images |-> SubSeq(images, 1, n),
       dx |-> SubSeq(dx, 1, n), ts |-> SubSeq(ts, 1, n)]

FitInputs(s) == Cardinality(NonZero(s.dx))

\* The preconditions the fit panics on: the assertion on min_inliers in
\* ransac(), the median of no velocity in fit_linear_robust().
FitPanics(s) ==
  CASE FitMethod = "ransac" -> FitInputs(s) \div 2 < MinModelPoints
    [] FitMethod = "ols"    -> FitInputs(s) = 0

Outcomes(s) ==
  IF Len(s.dx) < MinFitFrames THEN {"fit_too_short"}
  ELSE IF FitPanics(s) THEN {"panic"}
  ELSE (Rejections \ {"fit_too_short"}) \union {"train"}

-----------------------------------------------------------------------------
(* record and try_stitch_and_reset.                                        *)

Record_ResetsStart(p, d) ==
  /\ startTs'   = prevTs
  /\ startWall' = IF startWall = None THEN prevIx + 1 ELSE startWall
  /\ images'    = Append(images, prevIx + 1)
  /\ dx'        = Append(dx, d)
  /\ ts'        = Append(ts, prevTs + p)

Record(p, d) ==
  /\ startTs'   = IF startTs = None THEN prevTs ELSE startTs
  /\ startWall' = IF startWall = None THEN prevIx + 1 ELSE startWall
  /\ images'    = Append(images, prevIx + 1)
  /\ dx'        = Append(dx, d)
  /\ ts'        = Append(ts, prevTs + p)

LastOf(s) == IF s = <<>> THEN <<>> ELSE <<s[Len(s)]>>
ClearSequence_KeepLast ==
  /\ UNCHANGED <<startWall, startTs>>
  /\ images' = LastOf(images) /\ dx' = LastOf(dx) /\ ts' = LastOf(ts)

ClearSequence ==
  /\ startWall' = None
  /\ startTs'   = None
  /\ images' = <<>> /\ dx' = <<>> /\ ts' = <<>>

TryStitchAndReset ==
  /\ ClearSequence
  /\ lowPass' = 0
  /\ IF IsActive
     THEN /\ handed' = Stripped
          /\ result' \in Outcomes(Stripped)
     ELSE /\ result' = "none"
          /\ UNCHANGED handed

-----------------------------------------------------------------------------
(* The ways through process_frame, in the order of the code.               *)

Init ==
  /\ prevTs = None /\ prevIx = 0
  /\ startWall = None /\ startTs = None
  /\ images = <<>> /\ dx = <<>> /\ ts = <<>>
  /\ lowPass = 0
  /\ disposition = "none"
  /\ result = "none"
  /\ handed = NoSequence
  /\ closed = FALSE
  /\ unseen = {}

Running == ~closed /\ result # "panic"

\* frame(): whatever process_frame returned, this frame is the next previous
\* one.  (After a panic the process is gone and its state with it.)  The code
\* takes any stamp as prev_ts; here it is never earlier than the one before.
Advance(p) ==
  /\ prevIx < MaxFrames
  /\ prevTs' = prevTs + p
  /\ prevIx' = prevIx + 1

Return(r, label) ==
  /\ result' = r
  /\ disposition' = label

Skip(label) == Return("none", label) /\ UNCHANGED <<seq, lowPass, handed>>

FirstFrame ==
  /\ Running
  /\ prevTs = None
  /\ prevIx < MaxFrames
  /\ prevTs' = 0
  /\ prevIx' = prevIx + 1
  /\ Skip("none")
  /\ UNCHANGED <<closed, unseen>>

Later(p) == Running /\ prevTs # None /\ Advance(p) /\ UNCHANGED closed

FastFrame(p) ==
  /\ Later(p)
  /\ TooFast(p)
  /\ Skip("fast_frame")
  /\ unseen' = unseen \union {prevIx'}

SlowFrame(p) ==
  /\ Later(p)
  /\ ~TooFast(p)
  /\ TooNarrow(p)
  /\ Skip("slow_frame")
  /\ unseen' = unseen \union {prevIx'}

Usable(p) == Later(p) /\ ~TooFast(p) /\ ~TooNarrow(p) /\ UNCHANGED unseen

DarkFrame(p) ==
  /\ Usable(p)
  /\ ~(IsActive /\ DarkTooLong(p))
  /\ Skip("low_contrast")

DarkEnd(p) ==
  /\ Usable(p)
  /\ IsActive
  /\ DarkTooLong(p)
  /\ TryStitchAndReset
  /\ disposition' = "low_contrast"

SequenceEnd(p, d) ==
  /\ Usable(p)
  /\ IsActive
  /\ SequenceFull \/ TooSlow(p, LowPassStep(d))
  /\ TryStitchAndReset
  /\ disposition' = "unknown"

RecordFrame(p, d) ==
  /\ Usable(p)
  /\ IsActive
  /\ ~SequenceFull
  /\ ~TooSlow(p, LowPassStep(d))
  /\ Record(p, d)
  /\ lowPass' = LowPassStep(d)
  /\ Return("none", "recorded")
  /\ UNCHANGED handed

StandingFrame(p, d, cos) ==
  /\ Usable(p)
  /\ ~IsActive
  /\ NotMoving(p, d, cos)
  /\ Skip("not_moving")

NewSequence(p, d, cos) ==
  /\ Usable(p)
  /\ ~IsActive
  /\ ~NotMoving(p, d, cos)
  /\ StartsSequence(p, d, cos)
  /\ Record(p, d)
  /\ lowPass' = Abs(d) * Scale
  /\ Return("none", "recorded_new_sequence")
  /\ UNCHANGED handed

InconclusiveFrame(p, d, cos) ==
  /\ Usable(p)
  /\ ~IsActive
  /\ ~NotMoving(p, d, cos)
  /\ ~StartsSequence(p, d, cos)
  /\ Skip("inconclusive")

\* The source has ended: the detector stitches what is buffered.
EndOfStream ==
  /\ Running
  /\ TryStitchAndReset
  /\ closed' = TRUE
  /\ UNCHANGED <<prev, disposition, unseen>>

Found_Unbounded(p) == Offsets
\* What find_offset may report for a frame of period p (module PatchMatch).
Found(p) == {d \in Offsets : Abs(d) <= MaxPxPerFrame(p)}

Next ==
  \/ FirstFrame
  \/ EndOfStream
  \/ \E p \in Periods :
       \/ FastFrame(p)
       \/ SlowFrame(p)
       \/ DarkFrame(p)
       \/ DarkEnd(p)
       \/ \E d \in Found(p) :
            \/ SequenceEnd(p, d)
            \/ RecordFrame(p, d)
            \/ \E cos \in Score :
                 \/ StandingFrame(p, d, cos)
                 \/ NewSequence(p, d, cos)
                 \/ InconclusiveFrame(p, d, cos)

Spec == Init /\ [][Next]_vars

-----------------------------------------------------------------------------
(* Properties.                                                             *)

SequenceType(s) ==
  /\ s.startTs \in Int
  /\ s.images \in Seq(Nat)
  /\ s.dx \in Seq(Int)
  /\ s.ts \in Seq(Nat)

\* The fields of AutoStitcher and Sequence.
Typed ==
  /\ prevTs \in Nat \union {None}
  /\ prevIx \in Nat
  /\ startWall \in Nat \union {None}
  /\ startTs \in Nat \union {None}
  /\ images \in Seq(Nat)
  /\ dx \in Seq(Int)
  /\ ts \in Seq(Nat)
  /\ lowPass \in Nat
  /\ disposition \in Dispositions
  /\ result \in Results
  /\ handed.startTs \in Nat \union {None}
  /\ SequenceType(handed)
  /\ closed \in BOOLEAN
  /\ unseen \subseteq Nat

\* The buffer of full-size images stays within the configured count (and one:
\* the code compares before it records).
BufferBounded == Len(images) <= MaxFrameCount + 1

\* Every variable keeps its type and the buffer its bound.
TypeOK == Typed /\ BufferBounded

Recording == [startTs |-> startTs, images |-> images, dx |-> dx, ts |-> ts]

\* The gap fit_dx computes for the i-th frame of a sequence.
Gap(s, i) == IF i = 1 THEN s.ts[1] - s.startTs ELSE s.ts[i] - s.ts[i - 1]

SameLength(s) == Len(s.images) = Len(s.dx) /\ Len(s.ts) = Len(s.dx)
StartsMoving(s) == s.dx # <<>> => s.dx[1] # 0 /\ s.startTs # None
GapsPositive(s) == \A i \in 1..Len(s.ts) : Gap(s, i) >= MinFramePeriod
FramesInOrder(s) == \A i \in 2..Len(s.images) : s.images[i - 1] < s.images[i]

WellFormed(s) ==
  SameLength(s) /\ StartsMoving(s) /\ GapsPositive(s) /\ FramesInOrder(s)

\* Nothing of an earlier sequence leaks into the open one: its three slices
\* have the same length, it starts with a moving frame and a start time
\* before it, and its frames are in order at least MIN_FRAME_PERIOD_S apart,
\* however many frames were skipped and sequences ended before.
OpenWellFormed ==
  WellFormed(Recording) /\ (dx = <<>> <=> startTs = None)

\* What fit_dx and stitch index, divide by and unwrap is there: a sequence
\* handed to them is well formed, ends with a moving frame and no velocity
\* is divided by a zero gap.
HandedWellFormed ==
  /\ WellFormed(handed)
  /\ handed.dx # <<>> => handed.dx[Len(handed.dx)] # 0

\* Both, at any time.
SequenceWellFormed == OpenWellFormed /\ HandedWellFormed

\* The low pass stays between the slowest and the fastest recorded offset,
\* whatever the direction of the train: a train that never moves slower than
\* min_dx is not cut in two by the low pass.
LowPassWithinOffsets ==
  IsActive =>
    /\ \E i \in 1..Len(dx) : Abs(dx[i]) * Scale <= lowPass
    /\ \E i \in 1..Len(dx) : Abs(dx[i]) * Scale >= lowPass

Power(b, n) ==
  LET power[k \in 0..n] == IF k = 0 THEN 1 ELSE b * power[k - 1] IN power[n]

\* After a train has stopped or left, its sequence does not stay open for
\* longer than the low pass needs to decay below one pixel.
StandstillBounded ==
  IsActive =>
    LET still == Len(dx) - StrippedLen(dx)
    IN  \E k \in 1..Len(dx) :
          Abs(dx[k]) * Power(LowPassNum, still) >= Power(LowPassDen, still)

Jump(gap) == gap > MaxFramePeriod /\ TooNarrow(gap - MaxFramePeriod)
AllSeen(m, n) == \A j \in unseen : ~(m < j /\ j < n)
NoJumpSeen(s) ==
  \A i \in 2..Len(s.ts) :
    AllSeen(s.images[i - 1], s.images[i]) => ~Jump(Gap(s, i))

\* A sequence that goes on after a jump in time (longer than the darkness
\* auto.rs:149 bears and one usable period after it) does so only over frames
\* skipped unseen, as fast or slow: however dark frames come, darkness never
\* keeps one open.  So "bail out when there is too much of a jump in time"
\* (auto.go:265) holds of all that the detector looks at, and only of that.
JumpsOnlyUnseen == NoJumpSeen(Recording) /\ NoJumpSeen(handed)

\* A velocity computed by fit_dx is never above the configured maximum speed
\* (as max_px_per_frame rounds it), even when frames were skipped between two
\* recorded ones.
SpeedNotOverestimated ==
  \A i \in 1..Len(handed.dx) :
    Abs(handed.dx[i]) <= MaxPxPerFrame(Gap(handed, i))

\* Two successive sequences share no frame and no time: the second starts
\* where the first ended or later.
SequencesDisjoint ==
  IsActive /\ handed.dx # <<>> =>
    /\ images[1] > handed.images[Len(handed.images)]
    /\ startTs >= handed.ts[Len(handed.ts)]

\* The assertion of ransac(), p.min_inliers >= p.min_model_points: a sequence
\* the detector recorded itself satisfies it.
RansacAssertion == result # "panic"
=============================================================================
