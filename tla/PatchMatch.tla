----------------------------- MODULE PatchMatch -----------------------------
(***************************************************************************)
(* The patch matcher of crates/cv/pmatch and its use by find_offset        *)
(* (auto.rs).  search_rgba scans the rows of the search area in parallel:  *)
(* within a row from left to right, keeping the first best score; the      *)
(* results of the rows are reduced in pairs in whatever order the worker   *)
(* threads finish.  A score is the squared cosine, a member of a small     *)
(* set of numbers.                                                         *)
(***************************************************************************)
EXTENDS Integers, FiniteSets

CONSTANTS
  MaxDx,       \* max_dx of find_offset
  FrameWidth,  \* width of both frames
  Height,      \* search_h
  Scores       \* the values of cos2

ASSUME SearchAssumption ==
  /\ MaxDx \in Nat \ {0}
  /\ FrameWidth \in Nat /\ FrameWidth >= 3 * MaxDx
  /\ Height \in Nat \ {0}
  /\ Scores \subseteq Nat

-----------------------------------------------------------------------------
(* find_offset: the crops and the position that means no motion.           *)

SubX   == (FrameWidth - 3 * MaxDx) \div 2
SliceX == (FrameWidth - MaxDx) \div 2
XZero  == SliceX - SubX

Offset(c) == c - XZero

SearchWidth_OneShort == 3 * MaxDx - MaxDx
\* search_w
SearchWidth == 3 * MaxDx - MaxDx + 1

Rows == 0..Height - 1
Cols == 0..SearchWidth - 1

VARIABLES
  score,   \* score[y][x]: cos2 of the patch at (x, y)
  col,     \* col[y]: how many columns of row y have been compared
  best,    \* best[y]: row_x and row_cos2
  pool     \* results of rows, and of reductions, not yet reduced

searchVars == <<score, col, best, pool>>

Candidate(y, c, cos) == [y |-> y, x |-> c, cos |-> cos]

-----------------------------------------------------------------------------
SearchInit ==
  /\ score \in [Rows -> [Cols -> Scores]]
  /\ col = [y \in Rows |-> 0]
  /\ best = [y \in Rows |-> [x |-> 0, cos |-> -1]]
  /\ pool = {}

Improves(cos, b) == cos > b.cos

\* One turn of the loop over a row.
Compare(y) ==
  /\ col[y] < SearchWidth
  /\ LET cos == score[y][col[y]]
     IN  best' = [best EXCEPT ![y] =
                    IF Improves(cos, @) THEN [x |-> col[y], cos |-> cos] ELSE @]
  /\ col' = [col EXCEPT ![y] = @ + 1]
  /\ UNCHANGED <<score, pool>>

\* The row is finished; its result goes to the reduction.
Finish(y) ==
  /\ col[y] = SearchWidth
  /\ pool' = pool \union {Candidate(y, best[y].x, best[y].cos)}
  /\ col' = [col EXCEPT ![y] = SearchWidth + 1]
  /\ UNCHANGED <<score, best>>

Precedes(a, b) == a.y < b.y \/ (a.y = b.y /\ a.x < b.x)

Reduce_KeepFirst(a, b) == IF b.cos > a.cos THEN b ELSE a
Reduce(a, b) ==
  IF b.cos > a.cos \/ (b.cos = a.cos /\ Precedes(b, a)) THEN b ELSE a

Combine ==
  \E a \in pool, b \in pool :
    /\ a # b
    /\ pool' = (pool \ {a, b}) \union {Reduce(a, b)}
    /\ UNCHANGED <<score, col, best>>

SearchNext == Combine \/ \E y \in Rows : Compare(y) \/ Finish(y)

SearchSpec == SearchInit /\ [][SearchNext]_searchVars

-----------------------------------------------------------------------------
(* Properties.                                                             *)

Candidates == [y : Rows, x : Cols, cos : Scores]

\* Every variable keeps its type.
SearchTyped ==
  /\ score \in [Rows -> [Cols -> Scores]]
  /\ col \in [Rows -> 0..SearchWidth + 1]
  /\ best \in [Rows -> [x : Cols, cos : Scores \union {-1}]]
  /\ pool \subseteq Candidates

Finished == (\A y \in Rows : col[y] = SearchWidth + 1) /\ \A a \in pool, b \in pool : a = b

\* a is at least as good as the cell (c, y): its score is higher, or equal
\* and it does not come later in scan order.
Dominates(a, y, c) ==
  \/ a.cos > score[y][c]
  \/ a.cos = score[y][c] /\ ~Precedes(Candidate(y, c, 0), a)

\* The comment of search_rgba: of equal scores the lowest (y, x) wins, as in
\* a serial scan, in whatever order the worker threads finish.
SameAsSerialScan ==
  Finished => \E a \in pool :
    /\ a.cos = score[a.y][a.x]
    /\ \A y \in Rows, c \in Cols : Dominates(a, y, c)

\* The offset reported stays within max_dx, and every offset up to max_dx in
\* both directions can be found (the guard of process_frame on max_dx_i never
\* refuses one).
OffsetInRange ==
  /\ \A a \in pool : Offset(a.x) \in -MaxDx..MaxDx
  /\ {Offset(c) : c \in Cols} = -MaxDx..MaxDx
=============================================================================
