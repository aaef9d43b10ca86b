--------------------------- MODULE MCFitAndStitch ---------------------------
(***************************************************************************)
(* Sequences for TLC: every way four frames may move, at even and uneven   *)
(* times, five-frame trains that speed up, brake and turn back with frames *)
(* that the matcher got wrong, and some of them for RANSAC.                *)
(***************************************************************************)
EXTENDS FitAndStitch

Of(dxs, times, m) == {[dx |-> d, gaps |-> g, method |-> m] : d \in dxs, g \in times}

Four == [1..4 -> {-2, -1, 0, 2, 3}]
Five == [1..5 -> {0, 1, 4}] \cup [1..5 -> {-3, 0, 2}]
Few  == {<<2, 0, 2, 2, 0>>, <<-2, -2, 3, -2, -3>>, <<1, 2, 3, 3, 0>>,
         <<3, 1, -1, -3, -3>>, <<2, 2, 2, 2, 4>>, <<3, -3, 3, -3, 3>>, <<0, 2, 2, 2, 0>>}

MCJobs ==
  Of(Four, {<<1, 1, 1, 1>>, <<1, 2, 1, 2>>}, "ols")
    \cup Of(Five, {<<1, 1, 1, 1, 1>>}, "ols")
    \cup Of(Few, {<<1, 1, 1, 1, 1>>}, "ransac")
    \cup Of({<<6, -6, 1, 5, -4, 6>>}, {<<1, 1, 1, 1, 1, 1>>}, "ransac")
=============================================================================
