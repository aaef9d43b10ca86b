---------------------------- MODULE FitAndStitch ----------------------------
(***************************************************************************)
(* What becomes of a sequence (fit_and_stitch, stitch.rs): trailing frames *)
(* without motion are dropped, a line is fitted to the velocities, offsets *)
(* are made from the line, the frames are stitched and the clip encoded.   *)
(* Every step may reject the sequence.                                     *)
(***************************************************************************)
EXTENDS LineFit, Panorama, ClipEncoder

CONSTANTS
  Jobs,           \* sequences: [dx |-> offsets, gaps |-> time since the frame
                  \* before, method |-> "ols" or "ransac"]
  MinFitFrames,   \* the 9 of fit_dx
  VelocityScale,  \* velocities are in 1/VelocityScale pixel per tick
  MinLength,      \* min_length_px
  MinSpeed        \* min_speed_px_ps

ASSUME FitAndStitchAssumption ==
  /\ Jobs \subseteq
       [dx : Seq(Int), gaps : Seq(Nat \ {0}), method : {"ols", "ransac"}]
  /\ \A j \in Jobs : /\ Len(j.dx) = Len(j.gaps)
                     /\ \A k \in 1..Len(j.gaps) : VelocityScale % j.gaps[k] = 0
  /\ MinFitFrames \in Nat /\ MinFitFrames >= 3 /\ VelocityScale \in Nat \ {0}
  /\ MinLength \in Nat \ {0} /\ MinSpeed \in Nat \ {0}

VARIABLES
  seq,    \* the sequence
  step,   \* "strip", "fit", "offsets", "stitch", "clip" or "done"
  result  \* what fit_and_stitch returns: "train" or an error

vars == <<seq, step, result, fitVars, panoramaVars, clipVars>>

Count == Len(seq.dx)
\* The time of frame k, from start_ts.
Time(k) == RunningSum(seq.gaps)[k]

-----------------------------------------------------------------------------
\* After the last of the first n frames nothing moves.
Moving(n) ==
  /\ n > 0 => seq.dx[n] # 0
  /\ \A k \in n + 1..Count : seq.dx[k] = 0

Strip ==
  /\ step = "strip"
  /\ \E n \in 0..Count :
       /\ Moving(n)
       /\ seq' = [seq EXCEPT !.dx = SubSeq(@, 1, n), !.gaps = SubSeq(@, 1, n)]
  /\ step' = "fit"
  /\ UNCHANGED <<result, fitVars, panoramaVars, clipVars>>

GiveUp(error) == result' = error /\ step' = "done"

\* Without a clip.
FitTooShort ==
  /\ step = "fit" /\ fit = "off" /\ Count < MinFitFrames
  /\ GiveUp("unable_to_fit")
  /\ UNCHANGED <<seq, fitVars, panoramaVars, clipVars>>

Sample(k) == [t |-> Time(k), v |-> seq.dx[k] * (VelocityScale \div seq.gaps[k])]

\* t_fit and v_fit after k frames: frames without motion are left out.
Collected ==
  LET fit_of[k \in 0..Count] ==
        IF k = 0 THEN <<>>
        ELSE IF seq.dx[k] = 0 THEN fit_of[k - 1]
        ELSE Append(fit_of[k - 1], Sample(k))
  IN  fit_of

FitStart ==
  /\ step = "fit" /\ fit = "off" /\ Count >= MinFitFrames
  /\ samples' = Collected[Count]
  /\ fit' = IF seq.method = "ols" THEN "seed" ELSE "ransac"
  /\ UNCHANGED <<seq, step, result, line, rounds, panoramaVars, clipVars>>

FitLine ==
  /\ step = "fit" /\ FitNext
  /\ UNCHANGED <<seq, step, result, panoramaVars, clipVars>>

StartClip == clip' = "start" /\ clip_frames' = Count

\* The clip is kept to look at; whether it can be made does not matter.
FitFailed ==
  /\ step = "fit" /\ fit \in {"too_few_inliers", "degenerate", "unsuccessful"}
  /\ result' = "unable_to_fit" /\ step' = "clip"
  /\ StartClip
  /\ UNCHANGED <<seq, fitVars, panoramaVars, sent, writer_open, encoder, consumed>>

FitPanicked ==
  /\ step = "fit" /\ fit = "panicked"
  /\ GiveUp("panicked")
  /\ UNCHANGED <<seq, fitVars, panoramaVars, clipVars>>

FitAccepted ==
  /\ step = "fit" /\ fit \in {"fitted", "chosen"}
  /\ v0' = line.v0 /\ a' = line.a /\ den' = line.den * VelocityScale
  /\ phase' = "fit" /\ step' = "offsets"
  /\ UNCHANGED <<seq, result, fitVars, fitted, image, clipVars>>

Offset ==
  /\ step = "offsets" /\ Len(dx_fit) < Count
  /\ FitFrame(seq.gaps[Len(dx_fit) + 1])
  /\ UNCHANGED <<seq, step, result, fitVars, clipVars>>

\* ds, times 2 * den: how far the train went until it was last seen moving.
Length2 == Magnitude(Position2(samples[Len(samples)].t))

\* speed, times den: at the middle frame, its time taken from the first one.
MidTime  == Time(Count \div 2 + 1) - Time(1)
MidSpeed == v0 + a * MidTime

TooShort == Length2 < 2 * den * MinLength
TooSlow  == Magnitude(MidSpeed) < den * MinSpeed

Judge ==
  /\ step = "offsets" /\ Len(dx_fit) = Count
  /\ \/ TooShort /\ GiveUp("too_short") /\ UNCHANGED phase
     \/ ~TooShort /\ TooSlow /\ GiveUp("too_slow") /\ UNCHANGED phase
     \/ ~TooShort /\ ~TooSlow /\ step' = "stitch" /\ phase' = "stitch" /\ UNCHANGED result
  /\ UNCHANGED <<seq, fitVars, model, fitted, image, clipVars>>

StitchFrames ==
  /\ step = "stitch" /\ StitchNext
  /\ UNCHANGED <<seq, step, result, fitVars, clipVars>>

StitchFailed ==
  /\ step = "stitch" /\ phase \in {"too_short", "inconsistent_sign", "too_large"}
  /\ GiveUp("unable_to_assemble_image")
  /\ UNCHANGED <<seq, fitVars, panoramaVars, clipVars>>

StitchDone ==
  /\ step = "stitch" /\ phase = "done"
  /\ step' = "clip"
  /\ StartClip
  /\ UNCHANGED <<seq, result, fitVars, panoramaVars, sent, writer_open, encoder, consumed>>

EncodeClip ==
  /\ step = "clip" /\ CreateVideo
  /\ UNCHANGED <<seq, step, result, fitVars, panoramaVars>>

\* Without its clip the train is given up.
ClipDone ==
  /\ step = "clip" /\ clip \in {"clip", "error"}
  /\ step' = "done"
  /\ result' = IF result # "none" THEN result
               ELSE IF clip = "clip" THEN "train" ELSE "video_error"
  /\ UNCHANGED <<seq, fitVars, panoramaVars, clipVars>>

FFmpeg ==
  /\ EncoderReads \/ EncoderFinishes
  /\ UNCHANGED <<seq, step, result, fitVars, panoramaVars>>

FFmpegDies == EncoderFails /\ UNCHANGED <<seq, step, result, fitVars, panoramaVars>>

-----------------------------------------------------------------------------
Init ==
  /\ seq \in Jobs /\ step = "strip" /\ result = "none"
  /\ samples = <<>> /\ line = NoLine /\ rounds = 0 /\ fit = "off"
  /\ v0 = 0 /\ a = 0 /\ den = 1 /\ t = 0 /\ prev_x = 0 /\ dx_fit = <<>>
  /\ phase = "off" /\ pos = 0 /\ i = 1 /\ img = <<>>
  /\ clip = "off" /\ clip_frames = 0 /\ sent = 0 /\ writer_open = FALSE
  /\ encoder = "off" /\ consumed = 0

Detector ==
  \/ Strip \/ FitTooShort \/ FitStart \/ FitLine \/ FitFailed \/ FitPanicked
  \/ FitAccepted \/ Offset \/ Judge
  \/ StitchFrames \/ StitchFailed \/ StitchDone
  \/ EncodeClip \/ ClipDone

Next == Detector \/ FFmpeg \/ FFmpegDies

Spec == Init /\ [][Next]_vars /\ WF_vars(Detector) /\ WF_vars(FFmpeg)

-----------------------------------------------------------------------------
(* Properties.                                                             *)

Stitching == step \in {"stitch", "clip", "done"} /\ phase \in {"place", "done"}

\* The length of a train and the width of its image are computed in two
\* places, from positions of the line and from the sum of the rounded
\* offsets: they differ by no more than half a pixel, however many frames
\* there are and however many at the end did not move.
LengthMatchesImage == Magnitude(2 * den * (ImageWidth - FrameWidth) - Length2) <= den

\* A train is recorded with a speed in the direction in which its image was
\* put together.  The time of the middle frame is taken from the first frame,
\* that of the line from the frame before: a gap between these two that is
\* longer than the first half of the train could give it the wrong sign.
SpeedMatchesImage == MidTime >= Time(1) => (MidSpeed > 0 <=> W > 0)

\* What is recorded of a train is what its image shows.
RecordMatchesImage == Stitching => LengthMatchesImage /\ SpeedMatchesImage

\* Whatever the encoder does, as long as it reads its input or gives up, the
\* detector gets back to its frames.
Returns == <>(step = "done")
=============================================================================
