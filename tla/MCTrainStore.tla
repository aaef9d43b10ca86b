---------------------------- MODULE MCTrainStore ----------------------------
(***************************************************************************)
(* Instances of TrainStore for TLC.  Two ticks make a millisecond, so that *)
(* two start times can share a file name.                                  *)
(***************************************************************************)
EXTENDS TrainStore

MCStarts == {2, 3, 4, 6}
MCFileStarts == {2, 3}
MCNone == {}
MCLegacy == {1}
=============================================================================
