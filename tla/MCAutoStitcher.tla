--------------------------- MODULE MCAutoStitcher ---------------------------
(***************************************************************************)
(* Instances of AutoStitcher for TLC.  The periods are: too fast, usable,  *)
(* and too slow for the frame width (a fast frame before a usable one      *)
(* makes another gap); the offsets cover both directions, standstill, and  *)
(* the minimum and the maximum of a period.                                *)
(***************************************************************************)
EXTENDS AutoStitcher

MCPeriods == {1, 2, 9}
MCOffsets == {-2, 0, 1, 3, 5}

\* A slow train at one frame rate: most frames show no whole pixel of motion.
MCOnePeriod == {2}
MCRansacOffsets == {0, 3}
=============================================================================
