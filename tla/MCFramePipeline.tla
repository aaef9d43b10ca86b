-------------------------- MODULE MCFramePipeline --------------------------
(***************************************************************************)
(* Instances of FramePipeline for TLC: a USB camera with its capture       *)
(* thread, an http stream with an end marker, a picam3 without one, and a  *)
(* video file with any number of probed frames.                            *)
(***************************************************************************)
EXTENDS FramePipeline
=============================================================================
