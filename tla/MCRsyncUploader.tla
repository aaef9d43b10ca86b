-------------------------- MODULE MCRsyncUploader --------------------------
(***************************************************************************)
(* Instances of RsyncUploader for TLC: two trains.                         *)
(***************************************************************************)
EXTENDS RsyncUploader

CONSTANTS t1, t2
=============================================================================
