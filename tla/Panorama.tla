------------------------------ MODULE Panorama ------------------------------
(***************************************************************************)
(* From a fitted line to the stitched image: the end of fit_dx (fit.rs)    *)
(* turns speed and acceleration back into one integer offset per frame,    *)
(* and stitch (stitch.rs) draws the frames side by side.                   *)
(*                                                                         *)
(* A frame is FrameWidth columns of the train.  The image is one row of    *)
(* columns, each holding the number of the frame that was drawn last.      *)
(***************************************************************************)
EXTENDS Integers, Sequences

CONSTANTS
  FrameWidth,  \* width of a frame, in pixels
  MaxWidth     \* MAX_MEMORY_BYTES, in columns

ASSUME PanoramaAssumption == FrameWidth \in Nat \ {0} /\ MaxWidth \in Nat

VARIABLES
  v0, a,   \* the fitted speed and acceleration,
  den,     \* ... in 1/den pixel per tick, and per tick squared
  t,       \* t_complete of the last frame
  prev_x,  \* prev_x
  dx_fit,  \* dx_fit
  phase,   \* "off", "fit", "stitch", "place", "done", or the error of stitch
  pos,     \* where the next frame is drawn
  i,       \* the next frame
  img      \* the columns of the image, 0 while black

model  == <<v0, a, den>>
fitted == <<t, prev_x, dx_fit>>
image  == <<pos, i, img>>
panoramaVars == <<model, fitted, phase, image>>

-----------------------------------------------------------------------------
(* fit_dx.                                                                 *)

\* f64::round of n / d, half away from zero.
Round(n, d) ==
  IF n >= 0 THEN (2 * n + d) \div (2 * d) ELSE -((2 * (-n) + d) \div (2 * d))

\* Twice the position of the model at time u, in 1/den pixel.
Position2(u) == 2 * v0 * u + a * u * u

FitStep_Each(g) ==
  /\ prev_x' = prev_x + Round(Position2(t + g) - Position2(t), 2 * den)
  /\ dx_fit' = Append(dx_fit, prev_x' - prev_x)

\* The model is rounded, not its steps.
FitStep(g) ==
  /\ prev_x' = Round(Position2(t + g), 2 * den)
  /\ dx_fit' = Append(dx_fit, prev_x' - prev_x)

\* The offset of the next frame, recorded g later.
FitFrame(g) ==
  /\ phase = "fit"
  /\ FitStep(g)
  /\ t' = t + g
  /\ UNCHANGED <<model, phase, image>>

-----------------------------------------------------------------------------
(* stitch.                                                                 *)

\* The sum of the first k elements of s, for each k.
RunningSum(s) ==
  LET sum[k \in 0..Len(s)] == IF k = 0 THEN 0 ELSE sum[k - 1] + s[k]
  IN  sum

Sum(s) == RunningSum(s)[Len(s)]

Negative == \A k \in 1..Len(dx_fit) : dx_fit[k] <= 0
Positive == \A k \in 1..Len(dx_fit) : dx_fit[k] >= 0

\* The width, negative for trains going right.
W == IF Negative THEN Sum(dx_fit) - FrameWidth ELSE Sum(dx_fit) + FrameWidth
ImageWidth == IF W < 0 THEN -W ELSE W

StartPos_LeftEdge == 0
StartPos == IF W > 0 THEN 0 ELSE -W - FrameWidth

\* What stitch makes of the offsets, before it draws anything.
Verdict ==
  IF Len(dx_fit) < 2 THEN "too_short"
  ELSE IF ~Negative /\ ~Positive THEN "inconsistent_sign"
  ELSE IF ImageWidth > MaxWidth THEN "too_large"
  ELSE "place"

StitchRejects ==
  /\ phase = "stitch" /\ Verdict # "place"
  /\ phase' = Verdict
  /\ UNCHANGED <<model, fitted, image>>

StitchStart ==
  /\ phase = "stitch" /\ Verdict = "place"
  /\ phase' = "place"
  /\ pos' = StartPos
  /\ i' = 1
  /\ img' = [c \in 0..ImageWidth - 1 |-> 0]
  /\ UNCHANGED <<model, fitted>>

InFrame(c, p) == p <= c /\ c < p + FrameWidth

\* composite: columns outside of the image are cut off.
Drawn(p) == [c \in DOMAIN img |-> IF InFrame(c, p) THEN i ELSE img[c]]

PlaceFrame ==
  /\ phase = "place"
  /\ i <= Len(dx_fit)
  /\ img' = Drawn(pos)
  /\ pos' = pos + dx_fit[i]
  /\ i' = i + 1
  /\ UNCHANGED <<model, fitted, phase>>

Stitched ==
  /\ phase = "place"
  /\ i > Len(dx_fit)
  /\ phase' = "done"
  /\ UNCHANGED <<model, fitted, image>>

-----------------------------------------------------------------------------
StitchNext == StitchRejects \/ StitchStart \/ PlaceFrame \/ Stitched

-----------------------------------------------------------------------------
(* Properties.                                                             *)

\* No frame is drawn over the edge of the image, in either direction (what
\* is over the edge would be cut off, and with a mask be shifted).
FramesInside ==
  phase = "place" /\ i <= Len(dx_fit) => 0 <= pos /\ pos + FrameWidth <= ImageWidth

\* Across the finished image the frames follow each other in the order of
\* time, from left to right for a train going left and the other way round
\* for one going right: no part of the train is shown twice.
FramesInTimeOrder ==
  phase = "done" =>
    \A c \in DOMAIN img : c + 1 \in DOMAIN img /\ img[c] # 0 /\ img[c + 1] # 0 =>
      IF W > 0 THEN img[c] <= img[c + 1] ELSE img[c] >= img[c + 1]

\* Both, for trains that speed up, brake and turn back.
FramesPlaced == FramesInside /\ FramesInTimeOrder
=============================================================================
