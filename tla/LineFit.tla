------------------------------- MODULE LineFit -------------------------------
(***************************************************************************)
(* The robust fit of a line to the velocities of a sequence: iterated      *)
(* least squares (fit_linear_robust, fit.rs) or RANSAC (crates/cv/ransac). *)
(*                                                                         *)
(* The code computes in floating point; here lines have exact rational     *)
(* parameters, v0 / den and a / den.  A least-squares solve is exact, that *)
(* of RANSAC as well (an iteration to convergence in the code), and its    *)
(* random sample is any.                                                   *)
(***************************************************************************)
EXTENDS Integers, FiniteSets, Sequences, FiniteSetsExt, Functions

CONSTANTS
  Threshold,   \* threshold: 5 % of the maximum speed
  MaxRounds,   \* rounds of least squares, the 30 of fit_linear_robust
  MaxIter,     \* max_iter of RANSAC
  ModelPoints  \* min_model_points

ASSUME LineFitAssumption ==
  /\ Threshold \in Nat \ {0} /\ MaxRounds \in Nat \ {0}
  /\ MaxIter \in Nat \ {0} /\ ModelPoints \in Nat \ {0, 1}

VARIABLES
  samples,  \* t_fit and v_fit
  line,     \* params, or the best line so far
  rounds,   \* how often the loop was run
  fit       \* what runs next: "off", "seed", "ols", "ransac", or its result

fitVars == <<samples, line, rounds, fit>>

NoLine == [v0 |-> 0, a |-> 0, den |-> 0]

-----------------------------------------------------------------------------
(* Least squares.                                                          *)

All == 1..Len(samples)
MinInliers == Len(samples) \div 2

T == [k \in All |-> samples[k].t]
V == [k \in All |-> samples[k].v]

\* ols_linear; den is 0 where it returns None.
Ols(I) ==
  LET n   == Cardinality(I)
      st  == SumFunctionOnSet(T, I)
      sv  == SumFunctionOnSet(V, I)
      stt == SumFunctionOnSet([k \in All |-> T[k] * T[k]], I)
      stv == SumFunctionOnSet([k \in All |-> T[k] * V[k]], I)
  IN  [v0 |-> stt * sv - st * stv, a |-> n * stv - st * sv,
       den |-> n * stt - st * st]

Magnitude(x) == IF x < 0 THEN -x ELSE x

\* Times l.den.
Residual(l, k) == Magnitude(l.v0 + l.a * T[k] - V[k] * l.den)

Inliers(l) == {k \in All : Residual(l, k) < Threshold * l.den}

Enough_Any(I) == I # {}
Enough(I) == Cardinality(I) >= MinInliers

SameLine(l, m) == l.v0 * m.den = m.v0 * l.den /\ l.a * m.den = m.a * l.den

-----------------------------------------------------------------------------
(* fit_linear_robust.                                                      *)

Median_Unsorted == V[Len(samples) \div 2 + 1]
\* v_sorted[len / 2]
Median ==
  CHOOSE v \in {V[k] : k \in All} :
    /\ Cardinality({k \in All : V[k] < v}) <= Len(samples) \div 2
    /\ Cardinality({k \in All : V[k] <= v}) > Len(samples) \div 2

FitSeed ==
  /\ fit = "seed"
  /\ line' = [v0 |-> Median, a |-> 0, den |-> 1]
  /\ fit' = "ols"
  /\ UNCHANGED <<samples, rounds>>

FitFails(result) == fit' = result /\ UNCHANGED <<samples, line, rounds>>

OlsTooFew ==
  /\ fit = "ols" /\ ~Enough(Inliers(line))
  /\ FitFails("too_few_inliers")

OlsDegenerate ==
  /\ fit = "ols" /\ Enough(Inliers(line)) /\ Ols(Inliers(line)).den = 0
  /\ FitFails("degenerate")

\* Until the line does not move any more, or the rounds are used up.
OlsRefit ==
  /\ fit = "ols" /\ Enough(Inliers(line)) /\ Ols(Inliers(line)).den # 0
  /\ line' = Ols(Inliers(line))
  /\ rounds' = rounds + 1
  /\ fit' = IF SameLine(line', line) \/ rounds' = MaxRounds THEN "fitted" ELSE "ols"
  /\ UNCHANGED samples

-----------------------------------------------------------------------------
(* ransac.                                                                 *)

\* The sum of squares over I, as a fraction.
CostOf(l, I) ==
  [num |-> SumFunctionOnSet([k \in All |-> Residual(l, k) * Residual(l, k)], I),
   den |-> l.den * l.den]
Cheaper(c, d) == c.num * d.den < d.num * c.den

\* A line is kept with the samples that it was fitted to.
RansacPanics ==
  /\ fit = "ransac" /\ rounds = 0 /\ MinInliers < ModelPoints
  /\ FitFails("panicked")

RansacIteration ==
  /\ fit = "ransac" /\ rounds < MaxIter /\ MinInliers >= ModelPoints
  /\ \E sample \in kSubset(ModelPoints, All) :
       LET I == Inliers(Ols(sample))
           l == Ols(I)
           c == CostOf(l, I)
       IN  line' = IF Enough(I) /\ (line = NoLine \/ Cheaper(c, line.cost))
                   THEN [v0 |-> l.v0, a |-> l.a, den |-> l.den, cost |-> c] ELSE line
  /\ rounds' = rounds + 1
  /\ UNCHANGED <<samples, fit>>

RansacEnd ==
  /\ fit = "ransac" /\ rounds = MaxIter
  /\ fit' = IF line = NoLine THEN "unsuccessful" ELSE "chosen"
  /\ UNCHANGED <<samples, line, rounds>>

FitNext ==
  \/ FitSeed \/ OlsTooFew \/ OlsDegenerate \/ OlsRefit
  \/ RansacPanics \/ RansacIteration \/ RansacEnd

-----------------------------------------------------------------------------
(* Properties.                                                             *)

\* Whichever way a fit is accepted, at its fixpoint, when the rounds are used
\* up, or as the best of the random ones: the line is supported by half of
\* the velocities, whose mean squared distance from it is below that of the
\* threshold.
FitSupported ==
  fit \in {"fitted", "chosen"} =>
    \E I \in SUBSET All :
      /\ 2 * Cardinality(I) >= Len(samples) - 1 /\ I # {}
      /\ LET c == CostOf(line, I)
         IN  c.num < Cardinality(I) * Threshold * Threshold * c.den

\* Robust to outliers: when the train moves at one speed in more than half of
\* the frames, what the matcher makes of the others does not change the
\* fitted speed, if it is wrong by the threshold or more.
OutliersIgnored ==
  fit \in {"fitted", "too_few_inliers", "degenerate"} =>
    \A v \in {V[k] : k \in All} :
      LET right == {k \in All : V[k] = v}
      IN  /\ 2 * Cardinality(right) > Len(samples) /\ Cardinality(right) > 1
          /\ \A k \in All \ right : Magnitude(V[k] - v) >= Threshold
          => fit = "fitted" /\ SameLine(line, [v0 |-> v, a |-> 0, den |-> 1])
=============================================================================
