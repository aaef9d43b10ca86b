---------------------------- MODULE MCPatchMatch ----------------------------
(***************************************************************************)
(* Instance of PatchMatch for TLC: every table of scores of a small area.  *)
(***************************************************************************)
EXTENDS PatchMatch

MCScores == {0, 1}
=============================================================================
