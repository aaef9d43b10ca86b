-------------------------- MODULE MCConfigHelper --------------------------
(***************************************************************************)
(* Instances of ConfigHelper for TLC: two connections of either kind, one  *)
(* of which may stop reading.                                              *)
(***************************************************************************)
EXTENDS ConfigHelper
=============================================================================
