---------------------------- MODULE FrameStream ----------------------------
(***************************************************************************)
(* What a frame source promises to the detector (the FrameSource trait of  *)
(* crates/vid): a lossy stream in order.  Frames are numbered as they are  *)
(* read; each frame delivered was read earlier, or in the same call if     *)
(* nothing is buffered, is newer than the one delivered before, and after  *)
(* the end nothing is delivered.                                           *)
(***************************************************************************)
EXTENDS Integers

VARIABLES
  read,       \* how many frames have been read from the source
  delivered,  \* the number of the last frame delivered, 0 before the first
  open        \* the detector still reads

svars == <<read, delivered, open>>

Init == read = 0 /\ delivered = 0 /\ open = TRUE

Read ==
  /\ read' = read + 1
  /\ UNCHANGED <<delivered, open>>

Deliver ==
  /\ open
  /\ \E n \in delivered + 1 .. read : delivered' = n
  /\ UNCHANGED <<read, open>>

\* A frame is delivered by the call that reads it.
Pass ==
  /\ open
  /\ read' = read + 1
  /\ delivered' = read + 1
  /\ UNCHANGED open

Close ==
  /\ open
  /\ open' = FALSE
  /\ UNCHANGED <<read, delivered>>

Next == Read \/ Deliver \/ Pass \/ Close

Spec == Init /\ [][Next]_svars
=============================================================================
