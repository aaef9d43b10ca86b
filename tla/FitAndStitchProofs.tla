------------------------- MODULE FitAndStitchProofs -------------------------
(***************************************************************************)
(* Proofs about FitAndStitch: lemmas on numbers and sums, least squares,   *)
(* the fit, the panorama, the clip, and what relates them.                 *)
(***************************************************************************)
EXTENDS FitAndStitch, FiniteSetTheorems, FunctionTheorems, WellFoundedInduction,
        TLAPS

-----------------------------------------------------------------------------
(* Numbers and finite sets.  A minimal counterexample is picked where one  *)
(* would use induction.                                                    *)

\* A non-empty set of natural numbers has a least element.
LEMMA Least ==
  ASSUME NEW N \in SUBSET Nat, N # {}
  PROVE  \E x \in N : \A y \in N : x <= y
<1>1. PICK x \in N : \A y \in N : ~(<<y, x>> \in OpToRel(<, Nat))
  BY NatLessThanWellFounded, WFMin, Zenon
<1>2. OpToRel(<, Nat) = {r \in Nat \X Nat : r[1] < r[2]}
  BY Zenon DEF OpToRel
<1>3. \A y \in Nat : y < x => <<y, x>> \in {r \in Nat \X Nat : r[1] < r[2]}
  OBVIOUS
<1> HIDE DEF OpToRel
<1>4. \A y \in N : ~(y < x)
  BY <1>1, <1>2, <1>3
<1> QED BY <1>4

\* What holds of 0, and of k whenever it holds of k - 1, holds up to n.
LEMMA UpTo ==
  ASSUME NEW n \in Nat, NEW B, 0 \in B, \A k \in 1..n : k - 1 \in B => k \in B
  PROVE  \A k \in 0..n : k \in B
<1> DEFINE N == {k \in 0..n : k \notin B}
<1> SUFFICES ASSUME N # {} PROVE FALSE
  OBVIOUS
<1>1. N \in SUBSET Nat
  OBVIOUS
<1>2. PICK k \in N : \A y \in N : k <= y
  <2> HIDE DEF N
  <2> QED BY <1>1, Least
<1>3. k \in 1..n /\ k - 1 \in 0..n
  OBVIOUS
<1>4. k - 1 \notin N
  BY <1>2, <1>3
<1> QED BY <1>3, <1>4

\* A sequence whose neighbours are in order is in order.
LEMMA Ascending ==
  ASSUME NEW n \in Nat, NEW f, \A k \in 0..n : f[k] \in Int,
         \A k \in 1..n : f[k - 1] <= f[k]
  PROVE  \A j, k \in 0..n : j <= k => f[j] <= f[k]
<1> SUFFICES ASSUME NEW j \in 0..n PROVE \A k \in 0..n : j <= k => f[j] <= f[k]
  OBVIOUS
<1> DEFINE B == {k \in 0..n : j <= k => f[j] <= f[k]}
<1>1. 0 \in B
  BY f[0] \in Int
<1>2. ASSUME NEW k \in 1..n, k - 1 \in B PROVE k \in B
  <2>1. CASE j <= k - 1
    <3>1. f[j] <= f[k - 1] /\ f[k - 1] <= f[k] /\ f[j] \in Int /\ f[k - 1] \in Int /\ f[k] \in Int
      BY <1>2, <2>1
    <3> QED BY <3>1
  <2>2. CASE j > k - 1
    BY <2>2, f[k] \in Int
  <2> QED BY <2>1, <2>2
<1>3. \A k \in 0..n : k \in B
  <2> HIDE DEF B
  <2> QED BY <1>1, <1>2, UpTo
<1> QED BY <1>3

Chosen(J) == CHOOSE k \in J : TRUE

LEMMA WithoutChosen ==
  ASSUME NEW S, IsFiniteSet(S), NEW J \in SUBSET S, J # {}
  PROVE  /\ Chosen(J) \in J
         /\ J \ {Chosen(J)} \in SUBSET S
         /\ Cardinality(J) \in Nat \ {0}
         /\ Cardinality(J \ {Chosen(J)}) = Cardinality(J) - 1
<1>1. Chosen(J) \in J
  BY DEF Chosen
<1>2. IsFiniteSet(J)
  BY FS_Subset
<1>3. Cardinality(J) \in Nat /\ Cardinality(J) # 0
  BY <1>2, FS_CardinalityType, FS_EmptySet
<1>4. Cardinality(J \ {Chosen(J)}) = Cardinality(J) - 1
  BY <1>1, <1>2, FS_RemoveElement
<1> QED BY <1>1, <1>3, <1>4

\* What holds of the empty set, and of a set whenever it holds of the set
\* without its chosen element, holds of every subset of a finite set.
LEMMA Subsets ==
  ASSUME NEW S, IsFiniteSet(S), NEW B, {} \in B,
         \A J \in SUBSET S : J # {} /\ J \ {Chosen(J)} \in B => J \in B
  PROVE  \A J \in SUBSET S : J \in B
<1> DEFINE N == {m \in Nat : \E J \in SUBSET S : J \notin B /\ Cardinality(J) = m}
<1> SUFFICES ASSUME NEW X \in SUBSET S, X \notin B PROVE FALSE
  OBVIOUS
<1>1. Cardinality(X) \in Nat
  BY FS_Subset, FS_CardinalityType
<1>2. N \in SUBSET Nat /\ N # {}
  BY <1>1
<1>3. PICK m \in N : \A y \in N : m <= y
  <2> HIDE DEF N
  <2> QED BY <1>2, Least
<1>4. PICK J \in SUBSET S : J \notin B /\ Cardinality(J) = m
  BY <1>3
<1>5. J # {}
  BY <1>4
<1> DEFINE R == J \ {Chosen(J)}
<1>6. R \in SUBSET S /\ Cardinality(R) = m - 1 /\ m \in Nat \ {0}
  BY <1>4, <1>5, WithoutChosen
<1>7. m - 1 \notin N
  BY <1>3, <1>6
<1>8. R \in B
  BY <1>6, <1>7
<1> QED BY <1>4, <1>5, <1>8

-----------------------------------------------------------------------------
(* Sums over finite sets.                                                  *)

\* A finite set of integers has a least and a greatest element.
LEMMA Extremes ==
  ASSUME NEW S \in SUBSET Int, IsFiniteSet(S), S # {}
  PROVE  /\ \E x \in S : \A y \in S : x <= y
         /\ \E x \in S : \A y \in S : y <= x
<1> DEFINE Both(J) == /\ \E x \in J : \A y \in J : x <= y
                      /\ \E x \in J : \A y \in J : y <= x
           B == {J \in SUBSET S : J # {} => Both(J)}
<1>1. {} \in B
  OBVIOUS
<1>2. ASSUME NEW J \in SUBSET S, J # {}, J \ {Chosen(J)} \in B
      PROVE  J \in B
  <2> DEFINE m == Chosen(J)
             R == J \ {m}
  <2>1. m \in J /\ m \in Int /\ J = R \cup {m} /\ R \subseteq Int
    <3>1. m \in J
      BY <1>2, WithoutChosen
    <3> HIDE DEF m
    <3> QED BY <3>1
  <2>2. R # {} => Both(R)
    BY <1>2
  <2> HIDE DEF R, m
  <2>3. CASE R = {}
    BY <2>1, <2>3
  <2>4. CASE R # {}
    <3>1. PICK x \in R : \A y \in R : x <= y
      BY <2>2, <2>4
    <3>2. PICK z \in R : \A y \in R : y <= z
      BY <2>2, <2>4
    <3>3. \E w \in J : \A y \in J : w <= y
      <4>1. CASE m <= x
        BY <2>1, <3>1, <4>1
      <4>2. CASE ~(m <= x)
        BY <2>1, <3>1, <4>2
      <4> QED BY <4>1, <4>2
    <3>4. \E w \in J : \A y \in J : y <= w
      <4>1. CASE z <= m
        BY <2>1, <3>2, <4>1
      <4>2. CASE ~(z <= m)
        BY <2>1, <3>2, <4>2
      <4> QED BY <4>1, <4>2
    <3> QED BY <3>3, <3>4
  <2> QED BY <2>3, <2>4
<1>3. \A J \in SUBSET S : J \in B
  <2> HIDE DEF B
  <2> QED BY <1>1, <1>2, Subsets
<1> QED BY <1>3

\* g maps every subset of S to the sum of f over it.
IsSum(g, f, S) ==
  g = [J \in SUBSET S |-> IF J = {} THEN 0 ELSE f[Chosen(J)] + g[J \ {Chosen(J)}]]

SumsOf(f, S) == CHOOSE g : IsSum(g, f, S)

\* There is such a function: one on the subsets of up to m elements can be
\* continued on those of m + 1.
LEMMA SumExists ==
  ASSUME NEW f, NEW S, IsFiniteSet(S)
  PROVE  \E g : IsSum(g, f, S)
<1> DEFINE n == Cardinality(S)
           Small(m) == {J \in SUBSET S : Cardinality(J) <= m}
           Eq(g, m) == g = [J \in Small(m) |->
                             IF J = {} THEN 0 ELSE f[Chosen(J)] + g[J \ {Chosen(J)}]]
           B == {m \in Nat : \E g : Eq(g, m)}
<1>1. n \in Nat
  BY FS_CardinalityType
<1>2. ASSUME NEW J \in SUBSET S
      PROVE  Cardinality(J) \in Nat /\ Cardinality(J) <= n
  BY FS_Subset, FS_CardinalityType
<1>3. 0 \in B
  <2>1. \A J \in Small(0) : J = {}
    <3> SUFFICES ASSUME NEW J \in Small(0), J # {} PROVE FALSE
      OBVIOUS
    <3>1. Cardinality(J) \in Nat \ {0}
      BY WithoutChosen
    <3> QED BY <3>1
  <2>2. Eq([J \in Small(0) |-> 0], 0)
    <3> HIDE DEF Small
    <3> QED BY <2>1
  <2> QED BY <2>2
<1>4. ASSUME NEW m \in 1..n, m - 1 \in B
      PROVE  m \in B
  <2>1. PICK g : Eq(g, m - 1)
    BY <1>4
  <2> DEFINE Rest(J) == J \ {Chosen(J)}
             h == [J \in Small(m) |->
                    IF J \in Small(m - 1) THEN g[J] ELSE f[Chosen(J)] + g[Rest(J)]]
  <2>2. ASSUME NEW J \in Small(m), J # {}
        PROVE  Rest(J) \in Small(m - 1) /\ Rest(J) \in Small(m)
    <3>1. Rest(J) \in SUBSET S /\ Cardinality(Rest(J)) = Cardinality(J) - 1
      BY <2>2, WithoutChosen
    <3> QED BY <3>1, <1>2
  <2>3. ASSUME NEW J \in Small(m)
        PROVE  h[J] = IF J = {} THEN 0 ELSE f[Chosen(J)] + h[Rest(J)]
    <3>1. CASE J \in Small(m - 1)
      <4>1. g[J] = IF J = {} THEN 0 ELSE f[Chosen(J)] + g[Rest(J)]
        BY <2>1, <3>1
      <4>2. J # {} => h[Rest(J)] = g[Rest(J)]
        BY <2>2
      <4> QED BY <3>1, <4>1, <4>2
    <3>2. CASE J \notin Small(m - 1)
      <4>1. J # {}
        <5> SUFFICES ASSUME J = {} PROVE FALSE
          OBVIOUS
        <5>1. Cardinality(J) = 0
          BY FS_EmptySet
        <5> QED BY <5>1, <3>2
      <4>2. h[Rest(J)] = g[Rest(J)]
        BY <2>2, <4>1
      <4> QED BY <3>2, <4>1, <4>2
    <3> QED BY <3>1, <3>2
  <2>4. Eq(h, m)
    BY <2>3
  <2>5. m \in Nat
    OBVIOUS
  <2> HIDE DEF h, Small
  <2> QED BY <2>4, <2>5
<1>5. n \in B
  <2> HIDE DEF B
  <2> QED BY <1>1, <1>3, <1>4, UpTo
<1>6. PICK g : Eq(g, n)
  BY <1>5
<1>7. Small(n) = SUBSET S
  BY <1>2
<1> QED BY <1>6, <1>7 DEF IsSum

\* SumFunctionOnSet, unfolded.
LEMMA SumUnfold ==
  ASSUME NEW f, NEW S, IsFiniteSet(S)
  PROVE  /\ SumFunctionOnSet(f, S) = SumsOf(f, S)[S]
         /\ SumsOf(f, S)[{}] = 0
         /\ \A J \in SUBSET S :
              J # {} => SumsOf(f, S)[J] = f[Chosen(J)] + SumsOf(f, S)[J \ {Chosen(J)}]
<1>1. IsSum(SumsOf(f, S), f, S)
  BY SumExists DEF SumsOf
<1>2. SumFunctionOnSet(f, S) = SumsOf(f, S)[S]
  BY DEF SumsOf, SumFunctionOnSet, FoldFunctionOnSet, MapThenFoldSet, IsSum, Chosen
<1> QED BY <1>1, <1>2 DEF IsSum

LEMMA SumType ==
  ASSUME NEW f, NEW S, IsFiniteSet(S), \A k \in S : f[k] \in Int
  PROVE  \A J \in SUBSET S : SumsOf(f, S)[J] \in Int
<1> DEFINE B == {J \in SUBSET S : SumsOf(f, S)[J] \in Int}
<1>1. {} \in B
  BY SumUnfold
<1>2. ASSUME NEW J \in SUBSET S, J # {}, J \ {Chosen(J)} \in B
      PROVE  J \in B
  <2>1. f[Chosen(J)] \in Int
    BY <1>2, WithoutChosen
  <2>2. SumsOf(f, S)[J] = f[Chosen(J)] + SumsOf(f, S)[J \ {Chosen(J)}]
    BY <1>2, SumUnfold
  <2>3. SumsOf(f, S)[J \ {Chosen(J)}] \in Int
    BY <1>2
  <2> QED BY <2>1, <2>2, <2>3
<1>3. \A J \in SUBSET S : J \in B
  <2> HIDE DEF B
  <2> QED BY <1>1, <1>2, Subsets
<1> QED BY <1>3

LEMMA SumStep ==
  ASSUME NEW f, NEW S, IsFiniteSet(S), \A k \in S : f[k] \in Int,
         NEW J \in SUBSET S, J # {}
  PROVE  /\ SumsOf(f, S)[J] = f[Chosen(J)] + SumsOf(f, S)[J \ {Chosen(J)}]
         /\ SumsOf(f, S)[J \ {Chosen(J)}] \in Int
<1>1. J \ {Chosen(J)} \in SUBSET S
  OBVIOUS
<1>2. SumsOf(f, S)[J \ {Chosen(J)}] \in Int
  BY <1>1, SumType
<1> QED BY <1>2, SumUnfold

-----------------------------------------------------------------------------
(* Least squares.  x are times, y velocities, xx, xy and yy their          *)
(* products.                                                               *)

\* The sum of (p + q * x)^2 is no less than 0, and greater where no term is 0.
LEMMA Spread ==
  ASSUME NEW S, IsFiniteSet(S), NEW x, NEW xx, NEW p \in Int, NEW q \in Int,
         \A k \in S : x[k] \in Int /\ xx[k] = x[k] * x[k]
  PROVE  \A J \in SUBSET S :
           LET Q == p * p * Cardinality(J) + 2 * p * q * SumsOf(x, S)[J]
                      + q * q * SumsOf(xx, S)[J]
           IN  /\ Q >= 0
               /\ J # {} /\ (\A k \in J : p + q * x[k] # 0) => Q > 0
<1> DEFINE Q(J) == p * p * Cardinality(J) + 2 * p * q * SumsOf(x, S)[J]
                     + q * q * SumsOf(xx, S)[J]
           Good(J) == /\ Q(J) >= 0
                      /\ J # {} /\ (\A k \in J : p + q * x[k] # 0) => Q(J) > 0
           B == {J \in SUBSET S : Good(J)}
<1>1. {} \in B
  <2>1. SumsOf(x, S)[{}] = 0 /\ SumsOf(xx, S)[{}] = 0 /\ Cardinality({}) = 0
    BY SumUnfold, FS_EmptySet
  <2>2. Q({}) = 0
    BY <2>1
  <2> QED BY <2>2
<1>2. ASSUME NEW J \in SUBSET S, J # {}, J \ {Chosen(J)} \in B
      PROVE  J \in B
  <2> DEFINE R == J \ {Chosen(J)}
             u == x[Chosen(J)]
  <2>1. Chosen(J) \in J /\ u \in Int /\ xx[Chosen(J)] = u * u
    BY <1>2, WithoutChosen
  <2>2. Cardinality(J) = Cardinality(R) + 1 /\ Cardinality(R) \in Int
    <3>1. Cardinality(J) \in Nat \ {0} /\ Cardinality(R) = Cardinality(J) - 1
      BY <1>2, WithoutChosen
    <3> QED BY <3>1
  <2>3. SumsOf(x, S)[J] = u + SumsOf(x, S)[R] /\ SumsOf(x, S)[R] \in Int
    BY <1>2, SumStep
  <2>4. SumsOf(xx, S)[J] = u * u + SumsOf(xx, S)[R] /\ SumsOf(xx, S)[R] \in Int
    <3>1. \A k \in S : xx[k] \in Int
      OBVIOUS
    <3>2. /\ SumsOf(xx, S)[J] = xx[Chosen(J)] + SumsOf(xx, S)[R]
          /\ SumsOf(xx, S)[R] \in Int
      BY <1>2, <3>1, SumStep
    <3> QED BY <2>1, <3>2
  <2>5. Q(J) = Q(R) + (p + q * u) * (p + q * u) /\ Q(R) \in Int
    <3> DEFINE c == Cardinality(R)
               d == SumsOf(x, S)[R]
               e == SumsOf(xx, S)[R]
    <3>1. c \in Int /\ d \in Int /\ e \in Int /\ u \in Int
      BY <2>1, <2>2, <2>3, <2>4
    <3>2. Q(J) = p * p * (c + 1) + 2 * p * q * (u + d) + q * q * (u * u + e)
      BY <2>2, <2>3, <2>4
    <3>3. Q(R) = p * p * c + 2 * p * q * d + q * q * e
      OBVIOUS
    <3> HIDE DEF c, d, e, u
    <3> QED BY <3>1, <3>2, <3>3
  <2>6. p + q * u \in Int
    BY <2>1
  <2>7. (p + q * u) * (p + q * u) >= 0 /\ (p + q * u # 0 => (p + q * u) * (p + q * u) > 0)
    <3> DEFINE z == p + q * u
    <3>1. z \in Int
      BY <2>6
    <3> HIDE DEF z
    <3>2. z * z >= 0 /\ (z # 0 => z * z > 0)
      BY <3>1
    <3> QED BY <3>2 DEF z
  <2>8. Q(R) >= 0
    BY <1>2
  <2>9. (p + q * u) * (p + q * u) \in Int
    <3> DEFINE z == p + q * u
    <3> HIDE DEF z
    <3>1. z \in Int => z * z \in Int
      OBVIOUS
    <3> QED BY <2>6, <3>1 DEF z
  <2>10. Q(J) >= 0 /\ (p + q * u # 0 => Q(J) > 0)
    <3> DEFINE sq == (p + q * u) * (p + q * u)
               r == Q(R)
    <3>1. Q(J) = r + sq /\ r \in Int /\ sq \in Int /\ r >= 0 /\ sq >= 0
          /\ (p + q * u # 0 => sq > 0)
      BY <2>5, <2>7, <2>8, <2>9
    <3> HIDE DEF sq, r, Q, u
    <3> QED BY <3>1
  <2> HIDE DEF Q
  <2> QED BY <2>1, <2>10
<1>3. \A J \in SUBSET S : J \in B
  <2> HIDE DEF B
  <2> QED BY <1>1, <1>2, Subsets
<1> QED BY <1>3

\* The determinant of the normal equations is no less than 0; it is greater
\* for two or more different times.
LEMMA Determinant ==
  ASSUME NEW S, IsFiniteSet(S), NEW x, NEW xx,
         \A k \in S : x[k] \in Int /\ xx[k] = x[k] * x[k],
         \A j, k \in S : x[j] = x[k] => j = k
  PROVE  \A J \in SUBSET S :
           LET D == Cardinality(J) * SumsOf(xx, S)[J]
                      - SumsOf(x, S)[J] * SumsOf(x, S)[J]
           IN  D >= 0 /\ (Cardinality(J) >= 2 => D > 0)
<1> DEFINE D(J) == Cardinality(J) * SumsOf(xx, S)[J]
                     - SumsOf(x, S)[J] * SumsOf(x, S)[J]
           B == {J \in SUBSET S : D(J) >= 0 /\ (Cardinality(J) >= 2 => D(J) > 0)}
<1>1. {} \in B
  <2>1. SumsOf(x, S)[{}] = 0 /\ SumsOf(xx, S)[{}] = 0 /\ Cardinality({}) = 0
    BY SumUnfold, FS_EmptySet
  <2> QED BY <2>1
<1>2. ASSUME NEW J \in SUBSET S, J # {}, J \ {Chosen(J)} \in B
      PROVE  J \in B
  <2> DEFINE R == J \ {Chosen(J)}
             u == x[Chosen(J)]
             c == Cardinality(R)
             d == SumsOf(x, S)[R]
             e == SumsOf(xx, S)[R]
  <2>1. Chosen(J) \in J /\ u \in Int /\ xx[Chosen(J)] = u * u
    BY <1>2, WithoutChosen
  <2>2. Cardinality(J) = c + 1 /\ c \in Nat
    <3>1. Cardinality(J) \in Nat \ {0} /\ c = Cardinality(J) - 1
      BY <1>2, WithoutChosen
    <3> QED BY <3>1
  <2>3. SumsOf(x, S)[J] = u + d /\ d \in Int
    BY <1>2, SumStep
  <2>4. SumsOf(xx, S)[J] = u * u + e /\ e \in Int
    <3>1. \A k \in S : xx[k] \in Int
      OBVIOUS
    <3>2. /\ SumsOf(xx, S)[J] = xx[Chosen(J)] + SumsOf(xx, S)[R]
          /\ SumsOf(xx, S)[R] \in Int
      BY <1>2, <3>1, SumStep
    <3> QED BY <2>1, <3>2
  <2> DEFINE Q == u * u * c + 2 * u * (-1) * d + (-1) * (-1) * e
  <2>5. Q >= 0 /\ (R # {} => Q > 0)
    <3>1. R \in SUBSET S /\ \A k \in R : u + (-1) * x[k] # 0
      <4> SUFFICES ASSUME NEW k \in R PROVE u + (-1) * x[k] # 0
        BY <1>2
      <4>1. k # Chosen(J) /\ k \in S /\ Chosen(J) \in S
        BY <2>1
      <4>2. u # x[k] /\ x[k] \in Int
        BY <4>1
      <4> QED BY <4>2, <2>1
    <3>2. -1 \in Int /\ u \in Int
      BY <2>1
    <3> HIDE DEF R, u
    <3> QED BY <3>1, <3>2, Spread
  <2>6. D(J) = D(R) + Q
    <3>1. D(J) = (c + 1) * (u * u + e) - (u + d) * (u + d)
      BY <2>2, <2>3, <2>4
    <3>2. D(R) = c * e - d * d
      OBVIOUS
    <3>3. c \in Int /\ d \in Int /\ e \in Int /\ u \in Int
      BY <2>1, <2>2, <2>3, <2>4
    <3> HIDE DEF c, d, e, u, D
    <3> QED BY <3>1, <3>2, <3>3
  <2>7. D(R) >= 0
    BY <1>2
  <2>8. D(R) \in Int /\ Q \in Int
    BY <2>1, <2>2, <2>3, <2>4
  <2>9. Cardinality(J) >= 2 => R # {}
    <3> SUFFICES ASSUME Cardinality(J) >= 2, R = {} PROVE FALSE
      OBVIOUS
    <3>1. c = 0
      BY FS_EmptySet
    <3> HIDE DEF c
    <3> QED BY <2>2, <3>1
  <2> HIDE DEF D, Q
  <2> QED BY <2>5, <2>6, <2>7, <2>8, <2>9
<1>3. \A J \in SUBSET S : J \in B
  <2> HIDE DEF B
  <2> QED BY <1>1, <1>2, Subsets
<1> QED BY <1>3

\* A sum of squared residuals in terms of the sums of the products.
Expanded(p, q, d, n, sx, sy, sxx, sxy, syy) ==
  p * p * n + q * q * sxx + d * d * syy
    + 2 * p * q * sx - 2 * p * d * sy - 2 * q * d * sxy

Products(S, x, y, xx, xy, yy) ==
  \A k \in S : /\ x[k] \in Int /\ y[k] \in Int /\ xx[k] = x[k] * x[k]
               /\ xy[k] = x[k] * y[k] /\ yy[k] = y[k] * y[k]

Squares(S, rr, x, y, p, q, d) ==
  \A k \in S : rr[k] = (p + q * x[k] - y[k] * d) * (p + q * x[k] - y[k] * d)

LEMMA Expansion ==
  ASSUME NEW S, IsFiniteSet(S), NEW x, NEW y, NEW xx, NEW xy, NEW yy, NEW rr,
         NEW p \in Int, NEW q \in Int, NEW d \in Int,
         Products(S, x, y, xx, xy, yy), Squares(S, rr, x, y, p, q, d)
  PROVE  \A J \in SUBSET S :
           SumsOf(rr, S)[J] =
             Expanded(p, q, d, Cardinality(J), SumsOf(x, S)[J], SumsOf(y, S)[J],
                      SumsOf(xx, S)[J], SumsOf(xy, S)[J], SumsOf(yy, S)[J])
<1> DEFINE E(J) == Expanded(p, q, d, Cardinality(J), SumsOf(x, S)[J], SumsOf(y, S)[J],
                            SumsOf(xx, S)[J], SumsOf(xy, S)[J], SumsOf(yy, S)[J])
           B == {J \in SUBSET S : SumsOf(rr, S)[J] = E(J)}
<1>0. \A k \in S : /\ x[k] \in Int /\ y[k] \in Int /\ xx[k] = x[k] * x[k]
                   /\ xy[k] = x[k] * y[k] /\ yy[k] = y[k] * y[k]
                   /\ rr[k] = (p + q * x[k] - y[k] * d) * (p + q * x[k] - y[k] * d)
  BY DEF Products, Squares
<1>1. {} \in B
  <2>1. /\ SumsOf(x, S)[{}] = 0 /\ SumsOf(y, S)[{}] = 0 /\ SumsOf(xx, S)[{}] = 0
        /\ SumsOf(xy, S)[{}] = 0 /\ SumsOf(yy, S)[{}] = 0 /\ SumsOf(rr, S)[{}] = 0
        /\ Cardinality({}) = 0
    BY SumUnfold, FS_EmptySet
  <2>2. E({}) = 0
    BY <2>1 DEF Expanded
  <2> QED BY <2>1, <2>2
<1>2. ASSUME NEW J \in SUBSET S, J # {}, J \ {Chosen(J)} \in B
      PROVE  J \in B
  <2> DEFINE R == J \ {Chosen(J)}
             m == Chosen(J)
             u == x[m]
             w == y[m]
             c == Cardinality(R)
             cx == SumsOf(x, S)[R]
             cy == SumsOf(y, S)[R]
             cxx == SumsOf(xx, S)[R]
             cxy == SumsOf(xy, S)[R]
             cyy == SumsOf(yy, S)[R]
             cr == SumsOf(rr, S)[R]
  <2>1. /\ m \in J /\ u \in Int /\ w \in Int /\ xx[m] = u * u /\ xy[m] = u * w
        /\ yy[m] = w * w /\ rr[m] = (p + q * u - w * d) * (p + q * u - w * d)
    BY <1>0, <1>2, WithoutChosen
  <2>2. Cardinality(J) = c + 1 /\ c \in Int
    <3>1. Cardinality(J) \in Nat \ {0} /\ c = Cardinality(J) - 1
      BY <1>2, WithoutChosen
    <3> QED BY <3>1
  <2>3. SumsOf(x, S)[J] = u + cx /\ cx \in Int
    BY <1>0, <1>2, SumStep
  <2>4. SumsOf(y, S)[J] = w + cy /\ cy \in Int
    BY <1>0, <1>2, SumStep
  <2>5. SumsOf(xx, S)[J] = u * u + cxx /\ cxx \in Int
    <3>1. \A k \in S : xx[k] \in Int
      BY <1>0
    <3>2. SumsOf(xx, S)[J] = xx[m] + cxx /\ cxx \in Int
      BY <1>2, <3>1, SumStep
    <3> QED BY <2>1, <3>2
  <2>6. SumsOf(xy, S)[J] = u * w + cxy /\ cxy \in Int
    <3>1. \A k \in S : xy[k] \in Int
      BY <1>0
    <3>2. SumsOf(xy, S)[J] = xy[m] + cxy /\ cxy \in Int
      BY <1>2, <3>1, SumStep
    <3> QED BY <2>1, <3>2
  <2>7. SumsOf(yy, S)[J] = w * w + cyy /\ cyy \in Int
    <3>1. \A k \in S : yy[k] \in Int
      BY <1>0
    <3>2. SumsOf(yy, S)[J] = yy[m] + cyy /\ cyy \in Int
      BY <1>2, <3>1, SumStep
    <3> QED BY <2>1, <3>2
  <2>8. SumsOf(rr, S)[J] = (p + q * u - w * d) * (p + q * u - w * d) + cr
    <3>1. \A k \in S : rr[k] \in Int
      BY <1>0
    <3>2. SumsOf(rr, S)[J] = rr[m] + SumsOf(rr, S)[R]
      <4>1. IsFiniteSet(S) /\ J \in SUBSET S /\ J # {}
        BY <1>2
      <4> HIDE DEF B, E, u, w, c, cx, cy, cxx, cxy, cyy, cr
      <4>2. \A K \in SUBSET S :
              K # {} => SumsOf(rr, S)[K] = rr[Chosen(K)] + SumsOf(rr, S)[K \ {Chosen(K)}]
        BY SumUnfold
      <4> QED BY <4>1, <4>2
    <3> QED BY <2>1, <3>2
  <2>9. cr = Expanded(p, q, d, c, cx, cy, cxx, cxy, cyy)
    BY <1>2
  <2>10. E(J) = Expanded(p, q, d, c + 1, u + cx, w + cy, u * u + cxx, u * w + cxy, w * w + cyy)
    BY <2>2, <2>3, <2>4, <2>5, <2>6, <2>7
  <2>11. /\ c \in Int /\ cx \in Int /\ cy \in Int /\ cxx \in Int /\ cxy \in Int
         /\ cyy \in Int /\ u \in Int /\ w \in Int
    BY <2>1, <2>2, <2>3, <2>4, <2>5, <2>6, <2>7
  <2>12. E(J) = (p + q * u - w * d) * (p + q * u - w * d)
                  + Expanded(p, q, d, c, cx, cy, cxx, cxy, cyy)
    <3> HIDE DEF c, cx, cy, cxx, cxy, cyy, u, w, E
    <3> QED BY <2>10, <2>11 DEF Expanded
  <2> HIDE DEF c, cx, cy, cxx, cxy, cyy, u, w, E, cr
  <2> QED BY <2>8, <2>9, <2>12
<1>3. \A J \in SUBSET S : J \in B
  <2> HIDE DEF B
  <2> QED BY <1>1, <1>2, Subsets
<1> QED BY <1>3

\* The line of ols_linear solves the normal equations.
Normal(n, sx, sy, sxx, sxy, p, q, d) ==
  n * p + sx * q = d * sy /\ sx * p + sxx * q = d * sxy

LEMMA NormalEquations ==
  ASSUME NEW n \in Int, NEW sx \in Int, NEW sy \in Int, NEW sxx \in Int,
         NEW sxy \in Int, NEW p, NEW q, NEW d,
         p = sxx * sy - sx * sxy, q = n * sxy - sx * sy, d = n * sxx - sx * sx
  PROVE  Normal(n, sx, sy, sxx, sxy, p, q, d)
BY DEF Normal

Gap(P, Q, D, p, q, d, n, sx, sy, sxx, sxy, syy) ==
  d * d * Expanded(P, Q, D, n, sx, sy, sxx, sxy, syy)
    = D * D * Expanded(p, q, d, n, sx, sy, sxx, sxy, syy)
        + ((d * P - D * p) * (d * P - D * p) * n
            + 2 * (d * P - D * p) * (d * Q - D * q) * sx
            + (d * Q - D * q) * (d * Q - D * q) * sxx)

\* No line is closer than that: the difference is the sum of the squared
\* distances between the two.
LEMMA Optimal ==
  ASSUME NEW n \in Int, NEW sx \in Int, NEW sy \in Int, NEW sxx \in Int,
         NEW sxy \in Int, NEW syy \in Int, NEW p \in Int, NEW q \in Int, NEW d \in Int,
         Normal(n, sx, sy, sxx, sxy, p, q, d),
         NEW P \in Int, NEW Q \in Int, NEW D \in Int
  PROVE  Gap(P, Q, D, p, q, d, n, sx, sy, sxx, sxy, syy)
<1> DEFINE here  == p * (n * p + sx * q) + q * (sx * p + sxx * q)
           cross == P * (n * p + sx * q) + Q * (sx * p + sxx * q)
           there == P * P * n + 2 * P * Q * sx + Q * Q * sxx
<1>1. here = p * (d * sy) + q * (d * sxy)
  BY DEF Normal
<1>2. cross = P * (d * sy) + Q * (d * sxy)
  BY DEF Normal
<1>3. (d * P - D * p) * (d * P - D * p) * n + 2 * (d * P - D * p) * (d * Q - D * q) * sx
        + (d * Q - D * q) * (d * Q - D * q) * sxx
      = d * d * there - 2 * d * D * cross + D * D * here
  OBVIOUS
<1>4. Expanded(P, Q, D, n, sx, sy, sxx, sxy, syy)
      = there + D * D * syy - 2 * D * (P * sy + Q * sxy)
  BY DEF Expanded
<1>5. Expanded(p, q, d, n, sx, sy, sxx, sxy, syy)
      = here + d * d * syy - 2 * d * (p * sy + q * sxy)
  BY DEF Expanded
<1>6. d * (p * sy + q * sxy) = here /\ d * (P * sy + Q * sxy) = cross
  BY <1>1, <1>2
<1>7. there \in Int /\ here \in Int /\ cross \in Int
  OBVIOUS
<1> HIDE DEF here, cross, there
<1>8. d * d * (there + D * D * syy - 2 * D * (P * sy + Q * sxy))
      = d * d * there + d * d * D * D * syy - 2 * d * D * (d * (P * sy + Q * sxy))
  BY <1>7
<1>9. D * D * (here + d * d * syy - 2 * d * (p * sy + q * sxy))
      = D * D * here + d * d * D * D * syy - 2 * D * D * (d * (p * sy + q * sxy))
  BY <1>7
<1> DEFINE x1 == d * d * there
           x2 == d * d * D * D * syy
           x3 == d * D * cross
           x4 == D * D * here
<1>10. d * d * Expanded(P, Q, D, n, sx, sy, sxx, sxy, syy) = x1 + x2 - 2 * x3
  BY <1>4, <1>6, <1>7, <1>8
<1>11. D * D * Expanded(p, q, d, n, sx, sy, sxx, sxy, syy) = x4 + x2 - 2 * x4
  BY <1>5, <1>6, <1>7, <1>9
<1>12. d * d * there - 2 * d * D * cross + D * D * here = x1 - 2 * x3 + x4
  BY <1>7
<1>13. x1 \in Int /\ x2 \in Int /\ x3 \in Int /\ x4 \in Int
  BY <1>7
<1> HIDE DEF x1, x2, x3, x4
<1>14. /\ d * d * Expanded(P, Q, D, n, sx, sy, sxx, sxy, syy) = x1 + x2 - 2 * x3
       /\ D * D * Expanded(p, q, d, n, sx, sy, sxx, sxy, syy) = x4 + x2 - 2 * x4
       /\ (d * P - D * p) * (d * P - D * p) * n + 2 * (d * P - D * p) * (d * Q - D * q) * sx
           + (d * Q - D * q) * (d * Q - D * q) * sxx = x1 - 2 * x3 + x4
  BY <1>3, <1>10, <1>11, <1>12
<1>15. x1 + x2 - 2 * x3 = (x4 + x2 - 2 * x4) + (x1 - 2 * x3 + x4)
  BY <1>13
<1> QED BY Zenon, <1>14, <1>15 DEF Gap

\* A sum of squared residuals, each below m.
LEMMA CostBelow ==
  ASSUME NEW S, IsFiniteSet(S), NEW rr, NEW m \in Int,
         \A k \in S : rr[k] \in Int /\ rr[k] < m
  PROVE  \A J \in SUBSET S : SumsOf(rr, S)[J] <= Cardinality(J) * (m - 1)
<1> DEFINE B == {J \in SUBSET S : SumsOf(rr, S)[J] <= Cardinality(J) * (m - 1)}
<1>1. {} \in B
  <2>1. SumsOf(rr, S)[{}] = 0 /\ Cardinality({}) = 0
    BY SumUnfold, FS_EmptySet
  <2> QED BY <2>1
<1>2. ASSUME NEW J \in SUBSET S, J # {}, J \ {Chosen(J)} \in B
      PROVE  J \in B
  <2> DEFINE R == J \ {Chosen(J)}
             c == Cardinality(R)
             r == rr[Chosen(J)]
             s == SumsOf(rr, S)[R]
  <2>1. Chosen(J) \in J /\ r \in Int /\ r <= m - 1
    BY <1>2, WithoutChosen
  <2>2. Cardinality(J) = c + 1 /\ c \in Int
    <3>1. Cardinality(J) \in Nat \ {0} /\ c = Cardinality(J) - 1
      BY <1>2, WithoutChosen
    <3> QED BY <3>1
  <2>3. SumsOf(rr, S)[J] = r + s /\ s \in Int
    BY <1>2, SumStep
  <2>4. s <= c * (m - 1)
    BY <1>2
  <2>5. (c + 1) * (m - 1) = c * (m - 1) + (m - 1) /\ c * (m - 1) \in Int
    BY <2>2
  <2>6. r + s <= (c + 1) * (m - 1)
    <3> DEFINE z == c * (m - 1)
    <3> HIDE DEF c, r, s, z
    <3> QED BY <2>1, <2>3, <2>4, <2>5 DEF z
  <2> HIDE DEF c, r, s
  <2> QED BY <2>2, <2>3, <2>6
<1>3. \A J \in SUBSET S : J \in B
  <2> HIDE DEF B
  <2> QED BY <1>1, <1>2, Subsets
<1> QED BY <1>3

LEMMA Scale ==
  ASSUME NEW x \in Int, NEW y \in Int, NEW c \in Int, c > 0, x < y
  PROVE  c * x < c * y
<1> DEFINE z == y - x
<1>1. z \in Int /\ z > 0 /\ y = x + z
  OBVIOUS
<1> HIDE DEF z
<1>2. c * z > 0
  BY <1>1
<1>3. c * (x + z) = c * x + c * z
  BY <1>1
<1> DEFINE w1 == c * x
           w2 == c * z
<1>4. w1 \in Int /\ w2 \in Int /\ w2 > 0
  BY <1>1, <1>2
<1>5. w1 < w1 + w2
  <2> HIDE DEF w1, w2
  <2> QED BY <1>4
<1> QED BY <1>1, <1>3, <1>5

LEMMA Cancel ==
  ASSUME NEW x \in Int, NEW y \in Int, NEW c \in Int, c > 0, x * c < y * c
  PROVE  x < y
<1> SUFFICES ASSUME x >= y PROVE FALSE
  OBVIOUS
<1>1. (x - y) * c >= 0
  <2> DEFINE z == x - y
  <2>1. z \in Int /\ z >= 0
    OBVIOUS
  <2> HIDE DEF z
  <2>2. z * c >= 0
    BY <2>1
  <2> QED BY <2>2 DEF z
<1>2. (x - y) * c = x * c - y * c
  OBVIOUS
<1> DEFINE w1 == x * c
           w2 == y * c
<1>3. w1 \in Int /\ w2 \in Int /\ w1 < w2 /\ w1 - w2 >= 0
  BY <1>1, <1>2
<1> HIDE DEF w1, w2
<1> QED BY <1>3

-----------------------------------------------------------------------------
(* The fit.                                                                *)

\* What samples are: ordered by time.
SamplesOK ==
  /\ samples \in Seq([t : Int, v : Int])
  /\ \A j, k \in 1..Len(samples) : j < k => samples[j].t < samples[k].t

IsLine(l) == l.v0 \in Int /\ l.a \in Int /\ l.den \in Int /\ l.den > 0

\* The support of a line, as FitSupported has it.
Supported(l) ==
  \E I \in SUBSET All :
    /\ 2 * Cardinality(I) >= Len(samples) - 1 /\ I # {}
    /\ LET c == CostOf(l, I)
       IN  c.num < Cardinality(I) * Threshold * Threshold * c.den

LEMMA SampleTypes ==
  ASSUME SamplesOK
  PROVE  /\ Len(samples) \in Nat
         /\ IsFiniteSet(All)
         /\ \A k \in All : T[k] \in Int /\ V[k] \in Int
         /\ \A j, k \in All : T[j] = T[k] => j = k
<1>1. Len(samples) \in Nat
  BY DEF SamplesOK
<1>2. IsFiniteSet(All)
  BY <1>1, FS_Interval DEF All
<1>3. \A k \in All : samples[k].t \in Int /\ samples[k].v \in Int
  <2> DEFINE R == [t : Int, v : Int]
  <2>1. samples \in Seq(R)
    BY DEF SamplesOK
  <2>2. \A k \in All : samples[k] \in R
    <3> HIDE DEF R
    <3> QED BY <2>1 DEF All
  <2> QED BY <2>2
<1>4. \A j, k \in All : T[j] = T[k] => j = k
  <2> SUFFICES ASSUME NEW j \in All, NEW k \in All, T[j] = T[k], j # k PROVE FALSE
    OBVIOUS
  <2>1. samples[j].t = samples[k].t /\ j \in 1..Len(samples) /\ k \in 1..Len(samples)
    BY DEF T, All
  <2>2. j < k \/ k < j
    BY <2>1
  <2> QED BY <2>1, <2>2, <1>3, <1>1 DEF SamplesOK, All
<1> QED BY <1>1, <1>2, <1>3, <1>4 DEF T, V

\* The least-squares line over I.
LEMMA OlsFacts ==
  ASSUME SamplesOK, NEW I \in SUBSET All
  PROVE  /\ Ols(I) = [v0 |-> Ols(I).v0, a |-> Ols(I).a, den |-> Ols(I).den]
         /\ Ols(I).v0 \in Int /\ Ols(I).a \in Int /\ Ols(I).den \in Int
         /\ Ols(I).den >= 0
         /\ Cardinality(I) >= 2 => Ols(I).den > 0
         /\ I = {} => Ols(I).den = 0
<1> DEFINE xx == [k \in All |-> T[k] * T[k]]
           xy == [k \in All |-> T[k] * V[k]]
           n == Cardinality(I)
<1>1. IsFiniteSet(I) /\ n \in Nat
  BY SampleTypes, FS_Subset, FS_CardinalityType
<1>2. \A k \in I : T[k] \in Int /\ V[k] \in Int /\ xx[k] = T[k] * T[k]
                   /\ xy[k] = T[k] * V[k]
  BY SampleTypes
<1>3. SumsOf(T, I)[I] \in Int /\ SumsOf(V, I)[I] \in Int
  BY <1>1, <1>2, SumType
<1>4. SumsOf(xx, I)[I] \in Int
  <2> HIDE DEF xx
  <2>1. ASSUME NEW k \in I PROVE xx[k] \in Int
    <3>1. xx[k] = T[k] * T[k] /\ T[k] \in Int /\ V[k] \in Int
      BY <1>2
    <3> QED BY <3>1
  <2> QED BY <1>1, <2>1, SumType
<1>5. SumsOf(xy, I)[I] \in Int
  <2> HIDE DEF xy
  <2>1. ASSUME NEW k \in I PROVE xy[k] \in Int
    <3>1. xy[k] = T[k] * V[k] /\ T[k] \in Int /\ V[k] \in Int
      BY <1>2
    <3> QED BY <3>1
  <2> QED BY <1>1, <2>1, SumType
<1>6. Ols(I) =
       [v0 |-> SumsOf(xx, I)[I] * SumsOf(V, I)[I] - SumsOf(T, I)[I] * SumsOf(xy, I)[I],
        a |-> n * SumsOf(xy, I)[I] - SumsOf(T, I)[I] * SumsOf(V, I)[I],
        den |-> n * SumsOf(xx, I)[I] - SumsOf(T, I)[I] * SumsOf(T, I)[I]]
  BY <1>1, SumUnfold DEF Ols
<1>7. \A j, k \in I : T[j] = T[k] => j = k
  BY SampleTypes
<1>8. LET D == n * SumsOf(xx, I)[I] - SumsOf(T, I)[I] * SumsOf(T, I)[I]
      IN  D >= 0 /\ (n >= 2 => D > 0)
  <2>1. \A k \in I : T[k] \in Int /\ xx[k] = T[k] * T[k]
    BY <1>2
  <2>2. I \in SUBSET I
    OBVIOUS
  <2> HIDE DEF xx, n
  <2> QED BY <1>1, <1>7, <2>1, <2>2, Determinant DEF n
<1>9. I = {} => n = 0 /\ SumsOf(T, I)[I] = 0
  BY <1>1, SumUnfold, FS_EmptySet
<1> DEFINE sx == SumsOf(T, I)[I]
           sy == SumsOf(V, I)[I]
           sxx == SumsOf(xx, I)[I]
           sxy == SumsOf(xy, I)[I]
           d == n * sxx - sx * sx
<1>10. sx \in Int /\ sy \in Int /\ sxx \in Int /\ sxy \in Int /\ n \in Int
  BY <1>1, <1>3, <1>4, <1>5
<1>11. Ols(I) = [v0 |-> sxx * sy - sx * sxy, a |-> n * sxy - sx * sy, den |-> d]
  BY <1>6
<1>12. d >= 0 /\ (n >= 2 => d > 0)
  BY <1>8
<1> HIDE DEF xx, xy, n, sx, sy, sxx, sxy
<1>13. /\ Ols(I) = [v0 |-> Ols(I).v0, a |-> Ols(I).a, den |-> Ols(I).den]
       /\ Ols(I).v0 \in Int /\ Ols(I).a \in Int /\ Ols(I).den \in Int
  BY <1>10, <1>11
<1>14. I = {} => d = 0
  <2>1. I = {} => n = 0 /\ sx = 0
    BY <1>9 DEF sx
  <2> QED BY <2>1, <1>10
<1>15. Ols(I).den = d
  BY <1>11
<1> HIDE DEF d
<1> QED BY <1>12, <1>13, <1>14, <1>15 DEF n

\* The squared residuals of a line and what they sum up to.
LEMMA CostFacts ==
  ASSUME SamplesOK, NEW I \in SUBSET All, NEW l,
         l.v0 \in Int, l.a \in Int, l.den \in Int,
         NEW rr, rr = [k \in All |-> Residual(l, k) * Residual(l, k)]
  PROVE  /\ CostOf(l, I) = [num |-> SumsOf(rr, I)[I], den |-> l.den * l.den]
         /\ \A k \in I :
              /\ rr[k] \in Int
              /\ rr[k] = (l.v0 + l.a * T[k] - V[k] * l.den)
                           * (l.v0 + l.a * T[k] - V[k] * l.den)
<1>1. IsFiniteSet(I)
  BY SampleTypes, FS_Subset
<1>2. CostOf(l, I) = [num |-> SumsOf(rr, I)[I], den |-> l.den * l.den]
  BY <1>1, SumUnfold DEF CostOf
<1>3. ASSUME NEW k \in I
      PROVE  /\ rr[k] \in Int
             /\ rr[k] = (l.v0 + l.a * T[k] - V[k] * l.den)
                          * (l.v0 + l.a * T[k] - V[k] * l.den)
  <2> DEFINE z == l.v0 + l.a * T[k] - V[k] * l.den
  <2>1. z \in Int
    BY SampleTypes
  <2>2. rr[k] = Magnitude(z) * Magnitude(z)
    BY DEF Residual
  <2> HIDE DEF z
  <2>3. Magnitude(z) * Magnitude(z) = z * z /\ z * z \in Int
    BY <2>1 DEF Magnitude
  <2> QED BY <2>2, <2>3 DEF z
<1> QED BY <1>2, <1>3

\* A line fitted to what is close to any other line is at least as close.
LEMMA RefitIsSupported ==
  ASSUME SamplesOK, NEW l, IsLine(l), Enough(Inliers(l)), Ols(Inliers(l)).den # 0
  PROVE  IsLine(Ols(Inliers(l))) /\ Supported(Ols(Inliers(l)))
<1> DEFINE I == Inliers(l)
           o == Ols(I)
           X == Threshold * l.den
           n == Cardinality(I)
<1>1. I \in SUBSET All /\ IsFiniteSet(I) /\ n \in Nat
  BY SampleTypes, FS_Subset, FS_CardinalityType DEF Inliers
<1>2. IsLine(o) /\ I # {}
  BY <1>1, OlsFacts DEF IsLine
<1>3. 2 * n >= Len(samples) - 1
  BY <1>1, SampleTypes DEF Enough, MinInliers
<1>4. n > 0
  BY <1>1, <1>2, FS_EmptySet
<1>5. X \in Int /\ X > 0
  BY LineFitAssumption DEF IsLine
<1> DEFINE rl == [k \in All |-> Residual(l, k) * Residual(l, k)]
           ro == [k \in All |-> Residual(o, k) * Residual(o, k)]
           cl == SumsOf(rl, I)[I]
           co == SumsOf(ro, I)[I]
<1>6. /\ CostOf(l, I).num = cl /\ CostOf(o, I).num = co /\ CostOf(o, I).den = o.den * o.den
      /\ \A k \in I : /\ rl[k] \in Int /\ ro[k] \in Int
                      /\ rl[k] = (l.v0 + l.a * T[k] - V[k] * l.den)
                                   * (l.v0 + l.a * T[k] - V[k] * l.den)
                      /\ ro[k] = (o.v0 + o.a * T[k] - V[k] * o.den)
                                   * (o.v0 + o.a * T[k] - V[k] * o.den)
  <2>1. l.v0 \in Int /\ l.a \in Int /\ l.den \in Int
    BY DEF IsLine
  <2>2. o.v0 \in Int /\ o.a \in Int /\ o.den \in Int
    BY <1>2 DEF IsLine
  <2> HIDE DEF I, o
  <2>3. /\ CostOf(l, I) = [num |-> cl, den |-> l.den * l.den]
        /\ \A k \in I : /\ rl[k] \in Int
                        /\ rl[k] = (l.v0 + l.a * T[k] - V[k] * l.den)
                                     * (l.v0 + l.a * T[k] - V[k] * l.den)
    BY <1>1, <2>1, CostFacts
  <2>4. /\ CostOf(o, I) = [num |-> co, den |-> o.den * o.den]
        /\ \A k \in I : /\ ro[k] \in Int
                        /\ ro[k] = (o.v0 + o.a * T[k] - V[k] * o.den)
                                     * (o.v0 + o.a * T[k] - V[k] * o.den)
    BY <1>1, <2>2, CostFacts
  <2> QED BY <2>3, <2>4
<1>7. cl \in Int /\ cl <= n * (X * X - 1)
  <2>1. ASSUME NEW k \in I PROVE rl[k] < X * X
    <3> DEFINE z == Residual(l, k)
    <3>1. z < X
      BY DEF Inliers
    <3>2. z \in Int /\ z >= 0
      <4>1. l.v0 + l.a * T[k] - V[k] * l.den \in Int
        BY <1>1, SampleTypes DEF IsLine
      <4> QED BY <4>1 DEF Residual, Magnitude
    <3>3. rl[k] = z * z
      BY <1>1
    <3> HIDE DEF z, X, rl
    <3>4. z * z < X * X
      <4>1. z * z <= z * X
        BY <1>5, <3>1, <3>2
      <4>2. z * X < X * X
        BY <1>5, <3>1, <3>2
      <4>3. z * z \in Int /\ z * X \in Int /\ X * X \in Int
        BY <1>5, <3>2
      <4> QED BY <4>1, <4>2, <4>3
    <3> QED BY <3>3, <3>4
  <2>2. X * X \in Int
    BY <1>5
  <2>3. I \in SUBSET I
    OBVIOUS
  <2>4. \A k \in I : rl[k] \in Int
    BY <1>6
  <2> HIDE DEF I, rl, X
  <2>5. cl \in Int
    BY <1>1, <2>3, <2>4, SumType
  <2>6. cl <= n * (X * X - 1)
    BY <1>1, <2>1, <2>2, <2>3, <2>4, CostBelow
  <2> QED BY <2>5, <2>6
<1> DEFINE D == l.den
           d == o.den
<1>8. co \in Int /\ D * D * co <= d * d * cl
  <2> DEFINE xx == [k \in All |-> T[k] * T[k]]
             xy == [k \in All |-> T[k] * V[k]]
             yy == [k \in All |-> V[k] * V[k]]
             sx == SumsOf(T, I)[I]
             sy == SumsOf(V, I)[I]
             sxx == SumsOf(xx, I)[I]
             sxy == SumsOf(xy, I)[I]
             syy == SumsOf(yy, I)[I]
  <2>1. \A k \in I : /\ T[k] \in Int /\ V[k] \in Int /\ xx[k] = T[k] * T[k]
                     /\ xy[k] = T[k] * V[k] /\ yy[k] = V[k] * V[k]
    BY <1>1, SampleTypes
  <2>2. l.v0 \in Int /\ l.a \in Int /\ D \in Int
    BY DEF IsLine
  <2>3. o.v0 \in Int /\ o.a \in Int /\ d \in Int
    BY <1>2 DEF IsLine
  <2>4. /\ o.v0 = sxx * sy - sx * sxy
        /\ o.a = n * sxy - sx * sy
        /\ d = n * sxx - sx * sx
    BY <1>1, SumUnfold DEF Ols
  <2>5. I \in SUBSET I
    OBVIOUS
  <2> HIDE DEF I, o, rl, ro, xx, xy, yy, n
  <2>6. /\ sx \in Int /\ sy \in Int /\ sxx \in Int /\ sxy \in Int /\ syy \in Int
    <3>1. \A k \in I : xx[k] \in Int /\ xy[k] \in Int /\ yy[k] \in Int
      BY <2>1
    <3>2. sx \in Int /\ sy \in Int
      BY <1>1, <2>1, <2>5, SumType
    <3>3. sxx \in Int
      BY <1>1, <3>1, <2>5, SumType
    <3>4. sxy \in Int
      BY <1>1, <3>1, <2>5, SumType
    <3>5. syy \in Int
      BY <1>1, <3>1, <2>5, SumType
    <3> QED BY <3>2, <3>3, <3>4, <3>5
  <2>7. cl = Expanded(l.v0, l.a, D, n, sx, sy, sxx, sxy, syy)
    <3> DEFINE p == l.v0
               q == l.a
    <3>1. Products(I, T, V, xx, xy, yy) /\ Squares(I, rl, T, V, p, q, D)
      BY <1>6, <2>1 DEF Products, Squares
    <3>2. p \in Int /\ q \in Int /\ D \in Int
      BY <2>2
    <3> HIDE DEF p, q, D
    <3>3. \A J \in SUBSET I :
            SumsOf(rl, I)[J] =
              Expanded(p, q, D, Cardinality(J), SumsOf(T, I)[J], SumsOf(V, I)[J],
                       SumsOf(xx, I)[J], SumsOf(xy, I)[J], SumsOf(yy, I)[J])
      BY <1>1, <3>1, <3>2, Expansion
    <3> QED BY <2>5, <3>3 DEF n, p, q
  <2>8. co = Expanded(o.v0, o.a, d, n, sx, sy, sxx, sxy, syy)
    <3> DEFINE p == o.v0
               q == o.a
    <3>1. Products(I, T, V, xx, xy, yy) /\ Squares(I, ro, T, V, p, q, d)
      BY <1>6, <2>1 DEF Products, Squares
    <3>2. p \in Int /\ q \in Int /\ d \in Int
      BY <2>3
    <3> HIDE DEF p, q, d
    <3>3. \A J \in SUBSET I :
            SumsOf(ro, I)[J] =
              Expanded(p, q, d, Cardinality(J), SumsOf(T, I)[J], SumsOf(V, I)[J],
                       SumsOf(xx, I)[J], SumsOf(xy, I)[J], SumsOf(yy, I)[J])
      BY <1>1, <3>1, <3>2, Expansion
    <3> QED BY <2>5, <3>3 DEF n, p, q
  <2> DEFINE u == d * l.v0 - D * o.v0
             w == d * l.a - D * o.a
  <2>9. u \in Int /\ w \in Int
    BY <2>2, <2>3
  <2>10. u * u * n + 2 * u * w * sx + w * w * sxx >= 0
    <3> HIDE DEF u, w
    <3>1. \A k \in I : T[k] \in Int /\ xx[k] = T[k] * T[k]
      BY <2>1
    <3> QED BY <1>1, <2>5, <2>9, <3>1, Spread DEF n
  <2> HIDE DEF cl, co, sx, sy, sxx, sxy, syy, D, d
  <2>11. Normal(n, sx, sy, sxx, sxy, o.v0, o.a, d)
    BY <1>1, <2>4, <2>6, NormalEquations
  <2>12. d * d * cl = D * D * co + (u * u * n + 2 * u * w * sx + w * w * sxx)
    <3> DEFINE P == l.v0
               Q == l.a
               p == o.v0
               q == o.a
    <3>1. n \in Int /\ p \in Int /\ q \in Int /\ d \in Int /\ P \in Int /\ Q \in Int
          /\ D \in Int
      BY <1>1, <2>2, <2>3
    <3>2. Normal(n, sx, sy, sxx, sxy, p, q, d)
      BY <2>11
    <3> HIDE DEF P, Q, p, q
    <3>3. Gap(P, Q, D, p, q, d, n, sx, sy, sxx, sxy, syy)
      BY <2>6, <3>1, <3>2, Optimal
    <3> QED BY <2>7, <2>8, <3>3 DEF Gap, P, Q, p, q
  <2>13. co \in Int
    <3>1. n \in Int
      BY <1>1
    <3> QED BY <2>3, <2>6, <2>8, <3>1 DEF Expanded
  <2> DEFINE e == u * u * n + 2 * u * w * sx + w * w * sxx
  <2>14. d * d * cl \in Int /\ D * D * co \in Int /\ e \in Int
    <3> HIDE DEF u, w
    <3> QED BY <1>1, <1>7, <2>2, <2>3, <2>6, <2>9, <2>13
  <2> HIDE DEF e
  <2>15. d * d * cl = D * D * co + e /\ e >= 0
    BY <2>10, <2>12 DEF e
  <2> DEFINE lhs == D * D * co
             rhs == d * d * cl
  <2>16. lhs <= rhs
    <3> HIDE DEF lhs, rhs
    <3> QED BY <2>14, <2>15 DEF lhs, rhs
  <2> QED BY <2>13, <2>16
<1>9. co < n * Threshold * Threshold * (d * d)
  <2>1. d \in Int /\ d > 0 /\ D \in Int /\ D > 0 /\ X = Threshold * D
        /\ Threshold \in Int
    BY <1>2, LineFitAssumption DEF IsLine
  <2> HIDE DEF cl, co, D, d, X, n
  <2>2. d * d \in Int /\ d * d > 0 /\ D * D \in Int /\ D * D > 0
    BY <2>1
  <2> DEFINE dd == d * d
             DD == D * D
             m == n * (X * X - 1)
  <2>3. m \in Int /\ m = n * Threshold * Threshold * DD - n /\ n \in Int
    BY <1>1, <2>1
  <2>4. DD * co <= dd * cl
    BY <1>8
  <2> HIDE DEF dd, DD, m
  <2>5. dd \in Int /\ dd > 0 /\ DD \in Int /\ DD > 0
    BY <2>2 DEF dd, DD
  <2>6. dd * cl <= dd * m
    BY <1>7, <2>3, <2>5 DEF m
  <2>7. dd * m < dd * (n * Threshold * Threshold * DD)
    <3> DEFINE z == n * Threshold * Threshold * DD
    <3>1. z \in Int /\ m < z
      BY <1>4, <2>1, <2>3, <2>5
    <3> HIDE DEF z
    <3>2. dd * m < dd * z
      BY <2>3, <2>5, <3>1, Scale
    <3> QED BY <3>2 DEF z
  <2>8. dd * (n * Threshold * Threshold * DD) = (n * Threshold * Threshold * dd) * DD
    BY <2>1, <2>3, <2>5
  <2> DEFINE y == n * Threshold * Threshold * dd
  <2>9. y \in Int
    BY <2>1, <2>3, <2>5
  <2> HIDE DEF y
  <2>10. co * DD < y * DD
    <3>1. DD * co \in Int /\ dd * cl \in Int /\ dd * m \in Int /\ y * DD \in Int
          /\ co * DD = DD * co
      BY <1>7, <1>8, <2>3, <2>5, <2>9
    <3> DEFINE w1 == DD * co
               w2 == dd * cl
               w3 == dd * m
               w4 == y * DD
    <3>2. w1 <= w2 /\ w2 <= w3 /\ w3 < w4
      BY <2>4, <2>6, <2>7, <2>8 DEF y
    <3> HIDE DEF w1, w2, w3, w4
    <3>3. w1 < w4
      BY <3>1, <3>2 DEF w1, w2, w3, w4
    <3> QED BY <3>1, <3>3 DEF w1, w4
  <2>11. co < y
    BY <1>8, <2>5, <2>9, <2>10, Cancel
  <2> QED BY <2>11 DEF y, dd
<1>10. Supported(o)
  <2> HIDE DEF I, rl, ro, o
  <2> QED BY <1>1, <1>2, <1>3, <1>6, <1>9 DEF Supported
<1> QED BY <1>2, <1>10

-----------------------------------------------------------------------------
(* Sequences: sums of prefixes, and the samples that are collected.        *)

\* RunningSum is what its recursion says.
LEMMA RunningSumDef ==
  ASSUME NEW s, Len(s) \in Nat
  PROVE  /\ RunningSum(s)[0] = 0
         /\ \A k \in 1..Len(s) : RunningSum(s)[k] = RunningSum(s)[k - 1] + s[k]
<1> DEFINE Eq(g, m) == g = [k \in 0..m |-> IF k = 0 THEN 0 ELSE g[k - 1] + s[k]]
           B == {m \in 0..Len(s) : \E g : Eq(g, m)}
<1>1. 0 \in B
  <2>1. Eq([k \in 0..0 |-> 0], 0)
    OBVIOUS
  <2> HIDE DEF Eq
  <2> QED BY <2>1
<1>2. ASSUME NEW m \in 1..Len(s), m - 1 \in B
      PROVE  m \in B
  <2>1. PICK g : Eq(g, m - 1)
    BY <1>2
  <2> DEFINE h == [k \in 0..m |-> IF k = m THEN g[m - 1] + s[m] ELSE g[k]]
  <2>2. ASSUME NEW k \in 0..m PROVE h[k] = IF k = 0 THEN 0 ELSE h[k - 1] + s[k]
    <3>1. CASE k = m
      BY <3>1
    <3>2. CASE k # m
      <4>1. k \in 0..m - 1 /\ h[k] = g[k]
        BY <3>2
      <4>2. g[k] = IF k = 0 THEN 0 ELSE g[k - 1] + s[k]
        BY <2>1, <4>1
      <4>3. k # 0 => h[k - 1] = g[k - 1]
        BY <4>1
      <4> QED BY <4>1, <4>2, <4>3
    <3> QED BY <3>1, <3>2
  <2>3. Eq(h, m)
    BY <2>2
  <2> HIDE DEF Eq, h
  <2> QED BY <2>3
<1>3. Len(s) \in B
  <2>1. \A m \in 0..Len(s) : m \in B
    <3> HIDE DEF B
    <3> QED BY <1>1, <1>2, UpTo
  <2> QED BY <2>1
<1>4. Eq(RunningSum(s), Len(s))
  BY <1>3 DEF RunningSum
<1> DEFINE r == RunningSum(s)
<1> HIDE DEF r
<1>5. r = [k \in 0..Len(s) |-> IF k = 0 THEN 0 ELSE r[k - 1] + s[k]]
  BY <1>4 DEF r
<1>6. r[0] = 0 /\ \A k \in 1..Len(s) : r[k] = r[k - 1] + s[k]
  BY <1>5
<1> QED BY <1>6 DEF r

LEMMA RunningSumType ==
  ASSUME NEW s \in Seq(Int)
  PROVE  \A k \in 0..Len(s) : RunningSum(s)[k] \in Int
<1> DEFINE r == RunningSum(s)
           B == {k \in 0..Len(s) : r[k] \in Int}
<1>1. Len(s) \in Nat /\ \A k \in 1..Len(s) : s[k] \in Int
  OBVIOUS
<1>2. r[0] = 0 /\ \A k \in 1..Len(s) : r[k] = r[k - 1] + s[k]
  BY <1>1, RunningSumDef
<1> HIDE DEF r
<1>3. 0 \in B /\ \A k \in 1..Len(s) : k - 1 \in B => k \in B
  BY <1>1, <1>2
<1>4. \A k \in 0..Len(s) : k \in B
  <2> HIDE DEF B
  <2> QED BY <1>1, <1>3, UpTo
<1> QED BY <1>4 DEF r

\* The sum of the differences of f is the difference of f.
LEMMA Telescope ==
  ASSUME NEW s, Len(s) \in Nat, NEW f, \A k \in 0..Len(s) : f[k] \in Int,
         \A k \in 1..Len(s) : s[k] = f[k] - f[k - 1]
  PROVE  \A k \in 0..Len(s) : RunningSum(s)[k] = f[k] - f[0]
<1> DEFINE r == RunningSum(s)
           B == {k \in 0..Len(s) : r[k] = f[k] - f[0]}
<1>1. r[0] = 0 /\ \A k \in 1..Len(s) : r[k] = r[k - 1] + s[k]
  BY RunningSumDef
<1> HIDE DEF r
<1>2. 0 \in B
  BY <1>1
<1>3. ASSUME NEW k \in 1..Len(s), k - 1 \in B PROVE k \in B
  <2>1. /\ r[k] = r[k - 1] + s[k] /\ s[k] = f[k] - f[k - 1]
        /\ f[k] \in Int /\ f[k - 1] \in Int /\ f[0] \in Int /\ k \in 0..Len(s)
    BY <1>1
  <2>2. r[k - 1] = f[k - 1] - f[0]
    BY <1>3
  <2> QED BY <2>1, <2>2
<1>4. \A k \in 0..Len(s) : k \in B
  <2> HIDE DEF B
  <2> QED BY <1>2, <1>3, UpTo
<1> QED BY <1>4 DEF r

SeqOK ==
  /\ seq \in [dx : Seq(Int), gaps : Seq(Nat \ {0}), method : {"ols", "ransac"}]
  /\ Len(seq.gaps) = Len(seq.dx)

\* Time passes from frame to frame.
LEMMA TimeFacts ==
  ASSUME SeqOK
  PROVE  /\ Count \in Nat /\ Time(0) = 0
         /\ \A k \in 0..Count : Time(k) \in Int
         /\ \A k \in 1..Count : seq.gaps[k] \in Nat \ {0} /\ seq.dx[k] \in Int
                                /\ Time(k) = Time(k - 1) + seq.gaps[k]
         /\ \A j, k \in 0..Count : j < k => Time(j) < Time(k)
<1> DEFINE s == seq.gaps
           n == Count
           f == [k \in 0..n |-> Time(k)]
<1>1. n \in Nat /\ s \in Seq(Int) /\ Len(s) = n
  BY DEF SeqOK, Count
<1>2. \A k \in 1..n : s[k] \in Nat \ {0} /\ seq.dx[k] \in Int
  BY DEF SeqOK, Count
<1> HIDE DEF s, n
<1>3. /\ Time(0) = 0
      /\ \A k \in 0..n : Time(k) \in Int
      /\ \A k \in 1..n : Time(k) = Time(k - 1) + s[k]
  BY <1>1, RunningSumDef, RunningSumType DEF Time, s
<1>4. \A k \in 0..n : f[k] \in Int
  BY <1>3
<1>5. \A k \in 1..n : f[k - 1] <= f[k]
  BY <1>1, <1>2, <1>3
<1>6. \A j, k \in 0..n : j <= k => f[j] <= f[k]
  <2> HIDE DEF f
  <2> QED BY <1>1, <1>4, <1>5, Ascending
<1>7. ASSUME NEW j \in 0..n, NEW k \in 0..n, j < k
      PROVE  Time(j) < Time(k)
  <2>1. k \in 1..n /\ k - 1 \in 0..n /\ j <= k - 1
    BY <1>1, <1>7
  <2>2. Time(j) <= Time(k - 1)
    BY <1>6, <2>1
  <2>3. Time(k) = Time(k - 1) + s[k] /\ s[k] \in Nat \ {0} /\ Time(k - 1) \in Int
        /\ Time(j) \in Int
    BY <1>2, <1>3, <2>1
  <2> QED BY <2>2, <2>3
<1> QED BY <1>1, <1>2, <1>3, <1>7 DEF n, s

Rec == [t : Int, v : Int]

\* Collected is what its recursion says.
LEMMA CollectedDef ==
  ASSUME SeqOK
  PROVE  /\ Collected[0] = <<>>
         /\ \A k \in 1..Count :
              Collected[k] = IF seq.dx[k] = 0 THEN Collected[k - 1]
                             ELSE Append(Collected[k - 1], Sample(k))
<1> DEFINE Eq(g, m) ==
             g = [k \in 0..m |-> IF k = 0 THEN <<>>
                                 ELSE IF seq.dx[k] = 0 THEN g[k - 1]
                                 ELSE Append(g[k - 1], Sample(k))]
           B == {m \in 0..Count : \E g : Eq(g, m)}
<1>0. Count \in Nat
  BY TimeFacts
<1>1. 0 \in B
  <2>1. Eq([k \in 0..0 |-> <<>>], 0)
    OBVIOUS
  <2> HIDE DEF Eq
  <2> QED BY <1>0, <2>1
<1>2. ASSUME NEW m \in 1..Count, m - 1 \in B
      PROVE  m \in B
  <2>1. PICK g : Eq(g, m - 1)
    BY <1>2
  <2> DEFINE h == [k \in 0..m |-> IF k < m THEN g[k]
                                  ELSE IF seq.dx[m] = 0 THEN g[m - 1]
                                  ELSE Append(g[m - 1], Sample(m))]
  <2>2. ASSUME NEW k \in 0..m
        PROVE  h[k] = IF k = 0 THEN <<>>
                      ELSE IF seq.dx[k] = 0 THEN h[k - 1]
                      ELSE Append(h[k - 1], Sample(k))
    <3>0. m \in Nat /\ m > 0
      BY <1>0
    <3>1. CASE k = m
      <4>1. h[k - 1] = g[m - 1]
        BY <3>0, <3>1
      <4> QED BY <3>0, <3>1, <4>1
    <3>2. CASE k # m
      <4>1. k \in 0..m - 1 /\ h[k] = g[k]
        BY <3>0, <3>2
      <4>2. g[k] = IF k = 0 THEN <<>>
                   ELSE IF seq.dx[k] = 0 THEN g[k - 1]
                   ELSE Append(g[k - 1], Sample(k))
        BY <2>1, <4>1
      <4>3. k # 0 => h[k - 1] = g[k - 1]
        BY <3>0, <4>1
      <4> QED BY <4>1, <4>2, <4>3
    <3> QED BY <3>1, <3>2
  <2>3. Eq(h, m)
    BY <2>2
  <2> HIDE DEF Eq, h
  <2> QED BY <1>0, <2>3
<1>3. Count \in B
  <2>1. \A m \in 0..Count : m \in B
    <3> HIDE DEF B
    <3> QED BY <1>0, <1>1, <1>2, UpTo
  <2> QED BY <1>0, <2>1
<1>4. Eq(Collected, Count)
  BY <1>3 DEF Collected
<1> DEFINE r == Collected
<1> HIDE DEF r
<1>5. r = [k \in 0..Count |-> IF k = 0 THEN <<>>
                              ELSE IF seq.dx[k] = 0 THEN r[k - 1]
                              ELSE Append(r[k - 1], Sample(k))]
  BY <1>4 DEF r
<1>6. r[0] = <<>>
  BY <1>0, <1>5
<1>7. ASSUME NEW k \in 1..Count
      PROVE  r[k] = IF seq.dx[k] = 0 THEN r[k - 1] ELSE Append(r[k - 1], Sample(k))
  <2>1. k \in 0..Count /\ k # 0
    BY <1>0
  <2>2. r[k] = IF k = 0 THEN <<>>
               ELSE IF seq.dx[k] = 0 THEN r[k - 1]
               ELSE Append(r[k - 1], Sample(k))
    BY Zenon, <1>5, <2>1
  <2> QED BY Zenon, <2>1, <2>2
<1> QED BY <1>6, <1>7 DEF r

Ordered(s) == \A j, k \in 1..Len(s) : j < k => s[j].t < s[k].t

\* What is collected of the first k frames is ordered by time, and ends with
\* the last of these frames if that moved.
LEMMA CollectedFacts ==
  ASSUME SeqOK, NEW k \in 0..Count
  PROVE  /\ Collected[k] \in Seq(Rec)
         /\ Ordered(Collected[k])
         /\ \A j \in 1..Len(Collected[k]) : Collected[k][j].t <= Time(k)
         /\ k > 0 /\ seq.dx[k] # 0 =>
              /\ Len(Collected[k]) > 0
              /\ Collected[k][Len(Collected[k])].t = Time(k)
<1> DEFINE c == Collected
           Good(m) == /\ c[m] \in Seq(Rec) /\ Ordered(c[m])
                      /\ \A j \in 1..Len(c[m]) : c[m][j].t <= Time(m)
                      /\ m > 0 /\ seq.dx[m] # 0 =>
                           Len(c[m]) > 0 /\ c[m][Len(c[m])].t = Time(m)
           B == {m \in 0..Count : Good(m)}
<1>1. Count \in Nat
  BY TimeFacts
<1>2. 0 \in B
  <2>1. c[0] = <<>> /\ 0 \in 0..Count
    BY <1>1, CollectedDef
  <2>2. <<>> \in Seq(Rec) /\ Len(<<>>) = 0
    OBVIOUS
  <2> HIDE DEF c
  <2>3. Ordered(c[0]) /\ \A j \in 1..Len(c[0]) : c[0][j].t <= Time(0)
    BY <2>1, <2>2 DEF Ordered
  <2>4. c[0] \in Seq(Rec) /\ ~(0 > 0)
    BY <2>1, <2>2
  <2>5. Good(0)
    BY Zenon, <2>3, <2>4
  <2> HIDE DEF Good
  <2> QED BY <2>1, <2>5
<1>3. ASSUME NEW m \in 1..Count, m - 1 \in B
      PROVE  m \in B
  <2> DEFINE p == c[m - 1]
             e == Sample(m)
  <2>1. /\ m \in Nat /\ m > 0 /\ m - 1 \in 0..Count /\ m \in 0..Count
        /\ Time(m - 1) \in Int /\ Time(m) \in Int /\ Time(m - 1) < Time(m)
        /\ seq.gaps[m] \in Nat \ {0} /\ seq.dx[m] \in Int
    BY <1>1, TimeFacts
  <2>2. e \in Rec /\ e.t = Time(m)
    <3>1. VelocityScale \div seq.gaps[m] \in Int
      BY <2>1, FitAndStitchAssumption
    <3> QED BY <2>1, <3>1 DEF Sample, Rec
  <2>3. /\ p \in Seq(Rec) /\ Ordered(p)
        /\ \A j \in 1..Len(p) : p[j].t <= Time(m - 1) /\ p[j].t \in Int
    <3>1. Good(m - 1)
      BY <1>3
    <3>2. \A j \in 1..Len(p) : p[j] \in Rec
      <4> HIDE DEF p
      <4> QED BY <3>1 DEF p
    <3> QED BY <3>1, <3>2 DEF Rec
  <2>4. c[m] = IF seq.dx[m] = 0 THEN p ELSE Append(p, e)
    BY CollectedDef
  <2> HIDE DEF p, e, c
  <2>5. CASE seq.dx[m] = 0
    <3>1. c[m] = p
      BY <2>4, <2>5
    <3>2. Good(m)
      BY <2>1, <2>3, <2>5, <3>1
    <3> QED BY <2>1, <3>2
  <2>6. CASE seq.dx[m] # 0
    <3>1. c[m] = Append(p, e)
      BY <2>4, <2>6
    <3>2. /\ c[m] \in Seq(Rec) /\ Len(c[m]) = Len(p) + 1 /\ c[m][Len(p) + 1] = e
          /\ \A j \in 1..Len(p) : c[m][j] = p[j]
          /\ Len(p) \in Nat
      BY <2>2, <2>3, <3>1
    <3>3. Ordered(c[m])
      <4> SUFFICES ASSUME NEW i1 \in 1..Len(c[m]), NEW i2 \in 1..Len(c[m]), i1 < i2
                   PROVE  c[m][i1].t < c[m][i2].t
        BY DEF Ordered
      <4>1. i1 \in 1..Len(p) /\ c[m][i1] = p[i1]
        BY <3>2
      <4>2. CASE i2 \in 1..Len(p)
        BY <2>3, <3>2, <4>1, <4>2 DEF Ordered
      <4>3. CASE i2 = Len(p) + 1
        BY <2>1, <2>2, <2>3, <3>2, <4>1, <4>3
      <4> QED BY <3>2, <4>2, <4>3
    <3>4. \A j \in 1..Len(c[m]) : c[m][j].t <= Time(m)
      BY <2>1, <2>2, <2>3, <3>2
    <3>5. Good(m)
      BY <2>2, <3>2, <3>3, <3>4
    <3> QED BY <2>1, <3>5
  <2> QED BY <2>5, <2>6
<1>4. \A m \in 0..Count : m \in B
  <2> HIDE DEF B
  <2> QED BY <1>1, <1>2, <1>3, UpTo
<1> QED BY <1>4

-----------------------------------------------------------------------------
(* The order of the steps.                                                 *)

FitResults == {"fitted", "chosen", "too_few_inliers", "degenerate", "unsuccessful", "panicked"}
StitchResults == {"done", "too_short", "inconsistent_sign", "too_large"}

\* The last frame is one that moves.
LastMoves == Count > 0 => seq.dx[Count] # 0

\* Which part is at work in which step.
Order ==
  /\ step \in {"strip", "fit", "offsets", "stitch", "clip", "done"}
  /\ step = "strip" => fit = "off"
  /\ step # "strip" => LastMoves
  /\ step \in {"strip", "fit"} => phase = "off"
  /\ step = "offsets" => phase = "fit"
  /\ step = "stitch" => phase \in {"stitch", "place"} \cup StitchResults
  /\ step \in {"strip", "fit", "offsets", "stitch"} => clip = "off"
  /\ step \in {"offsets", "stitch"} => fit \in {"fitted", "chosen"}
  /\ step = "clip" => clip # "off"

LEMMA StripFacts ==
  ASSUME SeqOK, Strip
  PROVE  SeqOK' /\ LastMoves'
<1>1. PICK n \in 0..Count :
         /\ Moving(n)
         /\ seq' = [seq EXCEPT !.dx = SubSeq(@, 1, n), !.gaps = SubSeq(@, 1, n)]
  BY DEF Strip
<1> DEFINE x == seq.dx
           y == seq.gaps
<1>2. x \in Seq(Int) /\ y \in Seq(Nat \ {0}) /\ Len(x) \in Nat /\ Len(x) = Len(y)
  BY DEF SeqOK
<1>3. n \in Nat /\ n <= Len(x)
  BY <1>1, <1>2 DEF Count
<1> HIDE DEF x, y
<1>4. /\ SubSeq(x, 1, n) \in Seq(Int) /\ Len(SubSeq(x, 1, n)) = n
      /\ n > 0 => SubSeq(x, 1, n)[n] = x[n]
  BY <1>2, <1>3
<1>5. SubSeq(y, 1, n) \in Seq(Nat \ {0}) /\ Len(SubSeq(y, 1, n)) = n
  BY <1>2, <1>3
<1>6. /\ seq'.dx = SubSeq(x, 1, n) /\ seq'.gaps = SubSeq(y, 1, n)
      /\ seq'.method = seq.method
  BY <1>1 DEF x, y, SeqOK
<1>7. SeqOK'
  <2>1. seq' \in [dx : Seq(Int), gaps : Seq(Nat \ {0}), method : {"ols", "ransac"}]
    BY <1>1, <1>4, <1>5 DEF SeqOK, x, y
  <2> QED BY <1>4, <1>5, <1>6, <2>1 DEF SeqOK
<1>8. LastMoves'
  BY <1>1, <1>3, <1>4, <1>6 DEF LastMoves, Moving, Count, x
<1> QED BY <1>7, <1>8

LEMMA InitOrder == Init => SeqOK /\ Order
<1> SUFFICES ASSUME Init PROVE SeqOK /\ Order
  OBVIOUS
<1>1. SeqOK
  BY FitAndStitchAssumption DEF Init, SeqOK
<1> QED BY <1>1 DEF Init, Order

LEMMA NextOrder ==
  ASSUME SeqOK, Order, [Next]_vars
  PROVE  SeqOK' /\ Order'
<1>1. CASE Strip
  BY <1>1, StripFacts DEF Strip, Order, fitVars, panoramaVars, clipVars
<1>2. ASSUME UNCHANGED seq, Order'
      PROVE  SeqOK' /\ Order'
  BY <1>2 DEF SeqOK
<1>3. CASE FitTooShort
  BY <1>2, <1>3 DEF FitTooShort, GiveUp, Order, LastMoves, Count, fitVars,
       panoramaVars, clipVars
<1>4. CASE FitStart
  BY <1>2, <1>4 DEF FitStart, Order, LastMoves, Count, panoramaVars, clipVars
<1>5. CASE FitLine
  <2>1. /\ step = "fit" /\ UNCHANGED <<seq, step, panoramaVars, clipVars>>
        /\ fit' = fit \/ fit' \in FitResults \cup {"ols"}
    BY <1>5, Zenon DEF FitLine, FitNext, FitSeed, OlsTooFew, OlsDegenerate, OlsRefit,
         RansacPanics, RansacIteration, RansacEnd, FitFails, FitResults
  <2> QED BY <1>2, <2>1 DEF Order, LastMoves, Count, panoramaVars, clipVars
<1>6. CASE FitFailed
  BY <1>2, <1>6 DEF FitFailed, StartClip, Order, LastMoves, Count, fitVars, panoramaVars
<1>7. CASE FitPanicked
  BY <1>2, <1>7 DEF FitPanicked, GiveUp, Order, LastMoves, Count, fitVars,
       panoramaVars, clipVars
<1>8. CASE FitAccepted
  BY <1>2, <1>8 DEF FitAccepted, Order, LastMoves, Count, fitVars, clipVars
<1>9. CASE Offset
  BY <1>2, <1>9 DEF Offset, FitFrame, Order, LastMoves, Count, fitVars, clipVars
<1>10. CASE Judge
  <2>1. /\ step = "offsets" /\ UNCHANGED <<seq, fitVars, clipVars>>
        /\ \/ step' = "done" /\ UNCHANGED phase
           \/ step' = "stitch" /\ phase' = "stitch"
    BY <1>10 DEF Judge, GiveUp
  <2> QED BY <1>2, <2>1 DEF Order, LastMoves, Count, fitVars, clipVars
<1>11. CASE StitchFrames
  <2>1. /\ step = "stitch" /\ UNCHANGED <<seq, step, fitVars, clipVars>>
        /\ phase' \in {"place"} \cup StitchResults
    BY <1>11, Zenon DEF StitchFrames, StitchNext, StitchRejects, StitchStart, PlaceFrame,
         Stitched, StitchResults, Verdict
  <2> QED BY <1>2, <2>1 DEF Order, LastMoves, Count, fitVars, clipVars
<1>12. CASE StitchFailed
  BY <1>2, <1>12 DEF StitchFailed, GiveUp, Order, LastMoves, Count, fitVars,
       panoramaVars, clipVars
<1>13. CASE StitchDone
  BY <1>2, <1>13 DEF StitchDone, StartClip, Order, LastMoves, Count, fitVars, panoramaVars
<1>14. CASE EncodeClip
  <2>1. /\ step = "clip" /\ UNCHANGED <<seq, step, fitVars, panoramaVars>>
        /\ clip' # "off"
    BY <1>14 DEF EncodeClip, CreateVideo, ClipStart, ClipStartFails, WriteUnit,
         WriteFails, CloseWriter, WaitEncoder, ReadBack
  <2> QED BY <1>2, <2>1 DEF Order, LastMoves, Count, fitVars, panoramaVars
<1>15. CASE ClipDone
  BY <1>2, <1>15 DEF ClipDone, Order, LastMoves, Count, fitVars, panoramaVars, clipVars
<1>16. CASE FFmpeg \/ FFmpegDies
  <2>1. UNCHANGED <<seq, step, fitVars, panoramaVars, clip>>
    BY <1>16 DEF FFmpeg, FFmpegDies, EncoderReads, EncoderFinishes, EncoderFails
  <2> QED BY <1>2, <2>1 DEF Order, LastMoves, Count, fitVars, panoramaVars
<1>17. CASE UNCHANGED vars
  BY <1>2, <1>17 DEF vars, Order, LastMoves, Count, fitVars, panoramaVars, clipVars
<1> QED BY <1>1, <1>3, <1>4, <1>5, <1>6, <1>7, <1>8, <1>9, <1>10, <1>11, <1>12, <1>13,
           <1>14, <1>15, <1>16, <1>17 DEF Next, Detector

-----------------------------------------------------------------------------
(* The clip.                                                               *)

\* Before it starts nothing is sent; the encoder runs while there is someone
\* who writes or waits; it can only end well once everything was written.
ClipInv ==
  /\ clip_frames \in Nat /\ sent \in Nat /\ consumed \in Nat /\ consumed <= sent
  /\ clip \in {"off", "start"} => encoder = "off" /\ sent = 0 /\ ~writer_open
  /\ encoder = "running" => clip \in {"write", "wait"}
  /\ clip = "write" => writer_open /\ encoder \in {"running", "failed"}
  /\ clip \in {"write", "wait", "read", "clip"} => clip_frames > 0
  /\ clip = "wait" => sent = Units
  /\ encoder = "finished" => consumed = sent
  /\ clip \in {"read", "clip"} => encoder = "finished" /\ sent = Units

LEMMA NextClip ==
  ASSUME SeqOK, Order, ClipInv, [Next]_vars
  PROVE  ClipInv'
<1>1. ASSUME UNCHANGED clipVars PROVE ClipInv'
  BY <1>1 DEF ClipInv, clipVars, Units
<1>2. ASSUME StartClip, clip = "off",
             UNCHANGED <<sent, writer_open, encoder, consumed>>
      PROVE  ClipInv'
  <2>1. clip_frames' \in Nat /\ clip' = "start"
    BY <1>2, TimeFacts DEF StartClip
  <2> QED BY <1>2, <2>1 DEF ClipInv
<1>3. CASE Strip \/ FitTooShort \/ FitStart \/ FitLine \/ FitPanicked \/ FitAccepted
           \/ Offset \/ Judge \/ StitchFrames \/ StitchFailed \/ ClipDone
  BY <1>1, <1>3 DEF Strip, FitTooShort, FitStart, FitLine, FitPanicked, FitAccepted,
     Offset, Judge, StitchFrames, StitchFailed, ClipDone
<1>4. CASE FitFailed \/ StitchDone
  BY <1>2, <1>4 DEF FitFailed, StitchDone, Order
<1>5. CASE EncodeClip
  <2>1. CASE ClipStart \/ ClipStartFails \/ ReadBack
    BY <2>1 DEF ClipInv, ClipStart, ClipStartFails, ReadBack, Units
  <2>2. CASE WriteUnit
    BY <2>2 DEF ClipInv, WriteUnit, Units
  <2>3. CASE WriteFails
    BY <2>3 DEF ClipInv, WriteFails, Units
  <2>4. CASE CloseWriter
    BY <2>4 DEF ClipInv, CloseWriter, Units
  <2>5. CASE WaitEncoder
    <3>1. CASE ExitIsGood
      BY <2>5, <3>1 DEF ClipInv, WaitEncoder, ExitIsGood, Units
    <3>2. CASE ~ExitIsGood
      BY <2>5, <3>2 DEF ClipInv, WaitEncoder, ExitIsGood, Units
    <3> QED BY <3>1, <3>2
  <2> QED BY <1>5, <2>1, <2>2, <2>3, <2>4, <2>5 DEF EncodeClip, CreateVideo
<1>6. CASE FFmpeg \/ FFmpegDies
  <2>1. CASE EncoderReads
    BY <2>1 DEF ClipInv, EncoderReads, InPipe, Units
  <2>2. CASE EncoderFinishes
    BY <2>2 DEF ClipInv, EncoderFinishes, InPipe, Units
  <2>3. CASE EncoderFails
    BY <2>3 DEF ClipInv, EncoderFails, Units
  <2> QED BY <1>6, <2>1, <2>2, <2>3 DEF FFmpeg, FFmpegDies
<1>7. CASE UNCHANGED vars
  BY <1>1, <1>7 DEF vars
<1> QED BY <1>3, <1>4, <1>5, <1>6, <1>7 DEF Next, Detector

-----------------------------------------------------------------------------
(* The fit is supported, whichever way it ends.                            *)

FitInv ==
  /\ fit \in {"off", "seed", "ols", "ransac"} \cup FitResults
  /\ fit = "off" => line = NoLine
  /\ fit # "off" =>
       step # "strip" /\ Count >= MinFitFrames /\ samples = Collected[Count]
  /\ fit = "ols" => IsLine(line)
  /\ fit = "ransac" => line = NoLine \/ (IsLine(line) /\ Supported(line))
  /\ fit \in {"fitted", "chosen"} => IsLine(line) /\ Supported(line)

\* Which samples there are: some, since the last frame moves.
LEMMA SamplesAre ==
  ASSUME SeqOK, Order, FitInv, fit # "off"
  PROVE  /\ SamplesOK
         /\ Count >= 3
         /\ Len(samples) > 0 /\ samples[Len(samples)].t = Time(Count)
<1>1. samples = Collected[Count] /\ Count \in 0..Count /\ Count >= 3 /\ seq.dx[Count] # 0
  BY TimeFacts, FitAndStitchAssumption DEF FitInv, Order, LastMoves
<1>2. samples \in Seq(Rec) /\ Ordered(samples)
  BY <1>1, CollectedFacts
<1>3. Len(samples) > 0 /\ samples[Len(samples)].t = Time(Count)
  BY <1>1, CollectedFacts
<1> QED BY <1>1, <1>2, <1>3 DEF SamplesOK, Ordered, Rec

\* The number of velocities up to some speed goes past the half at a velocity.
LEMMA MedianIs ==
  ASSUME SamplesOK, Len(samples) > 0
  PROVE  /\ Median \in {V[k] : k \in All}
         /\ Cardinality({k \in All : V[k] < Median}) <= Len(samples) \div 2
         /\ Cardinality({k \in All : V[k] <= Median}) > Len(samples) \div 2
<1> DEFINE Values == {V[k] : k \in All}
           half == Len(samples) \div 2
           UpTo_(v) == {k \in All : V[k] <= v}
           Below(v) == {k \in All : V[k] < v}
           Past == {v \in Values : Cardinality(UpTo_(v)) > half}
<1>0. half \in Nat /\ half < Len(samples) /\ Len(samples) \in Nat
  BY SampleTypes
<1> HIDE DEF half
<1>1. IsFiniteSet(All) /\ Cardinality(All) = Len(samples) /\ 1 \in All
  <2> DEFINE n == Len(samples)
  <2>1. n \in Int /\ 1 \in Int /\ n > 0
    BY <1>0
  <2> HIDE DEF n
  <2>2. IsFiniteSet(1..n) /\ Cardinality(1..n) = IF 1 > n THEN 0 ELSE n - 1 + 1
    BY <2>1, FS_Interval
  <2>3. Cardinality(1..n) = n /\ 1 \in 1..n
    BY <2>1, <2>2
  <2> QED BY <2>2, <2>3 DEF All, n
<1>2. Values \in SUBSET Int /\ Values # {} /\ IsFiniteSet(Values)
  <2>1. \A k \in All : V[k] \in Int
    BY SampleTypes
  <2>2. V \in [All -> Values] /\ \A v \in Values : \E k \in All : V[k] = v
    BY DEF V
  <2>3. V \in Surjection(All, Values)
    BY <2>2, Fun_IsSurj
  <2>4. IsFiniteSet(Values)
    BY <1>1, <2>3, FS_Surjection
  <2> QED BY <1>1, <2>1, <2>4
<1>3. Past # {}
  <2>1. PICK v \in Values : \A u \in Values : u <= v
    <3> HIDE DEF Values
    <3> QED BY <1>2, Extremes
  <2>2. UpTo_(v) = All
    BY <2>1
  <2>3. Cardinality(UpTo_(v)) > half
    <3> HIDE DEF UpTo_
    <3> QED BY <1>0, <1>1, <2>2
  <2> QED BY <2>3
<1>4. Past \in SUBSET Int /\ IsFiniteSet(Past)
  BY <1>2, FS_Subset
<1>5. PICK v \in Past : \A u \in Past : v <= u
  <2> HIDE DEF Past
  <2> QED BY <1>3, <1>4, Extremes
<1>6. Cardinality(Below(v)) <= half
  <2>1. CASE Below(v) = {}
    <3> HIDE DEF Below
    <3> QED BY <1>0, <2>1, FS_EmptySet
  <2>2. CASE Below(v) # {}
    <3> DEFINE Lower == {u \in Values : u < v}
    <3>1. Lower \in SUBSET Int /\ IsFiniteSet(Lower) /\ Lower # {}
      <4>1. Lower \in SUBSET Values /\ Lower # {}
        BY <2>2
      <4> QED BY <1>2, <4>1, FS_Subset
    <3>2. PICK u \in Lower : \A w \in Lower : w <= u
      <4> HIDE DEF Lower
      <4> QED BY <3>1, Extremes
    <3>3. \A k \in All : V[k] \in Values /\ V[k] \in Int
      BY <1>2
    <3>4. v \in Int /\ u \in Int /\ u < v /\ u \in Values
      BY <1>4, <1>5, <3>1, <3>2
    <3>5. Below(v) = UpTo_(u)
      <4>1. \A k \in All : V[k] < v <=> V[k] <= u
        BY <3>2, <3>3, <3>4
      <4> QED BY <4>1
    <3>6. u \notin Past
      <4> HIDE DEF Past
      <4> QED BY <1>5, <3>4
    <3>7. Cardinality(UpTo_(u)) \in Nat
      BY <1>1, FS_Subset, FS_CardinalityType
    <3>8. Cardinality(UpTo_(u)) <= half
      <4> HIDE DEF UpTo_, Values
      <4> QED BY <1>0, <3>4, <3>6, <3>7
    <3> HIDE DEF Below, UpTo_
    <3> QED BY <3>5, <3>8
  <2> QED BY <2>1, <2>2
<1>7. \E m \in Values : Cardinality(Below(m)) <= half /\ Cardinality(UpTo_(m)) > half
  BY <1>5, <1>6
<1> QED BY <1>7 DEF Median, half

\* Nothing but the line itself matters to its support.
LEMMA SameSupport ==
  ASSUME NEW l, NEW m, m.v0 = l.v0, m.a = l.a, m.den = l.den
  PROVE  (IsLine(l) <=> IsLine(m)) /\ (Supported(l) <=> Supported(m))
<1>1. IsLine(l) <=> IsLine(m)
  BY DEF IsLine
<1>2. \A k : Residual(l, k) = Residual(m, k)
  BY DEF Residual
<1>3. ASSUME NEW I PROVE CostOf(l, I) = CostOf(m, I)
  BY <1>2, Zenon DEF CostOf
<1> QED BY <1>1, <1>3, Zenon DEF Supported

\* The best line of RANSAC was refitted to half of the samples.
LEMMA RansacKeeps ==
  ASSUME SamplesOK, RansacIteration, line = NoLine \/ (IsLine(line) /\ Supported(line))
  PROVE  line' = NoLine \/ (IsLine(line') /\ Supported(line'))
<1>1. PICK sample \in kSubset(ModelPoints, All) :
        LET I == Inliers(Ols(sample))
            l == Ols(I)
            c == CostOf(l, I)
        IN  line' = IF Enough(I) /\ (line = NoLine \/ Cheaper(c, line.cost))
                    THEN [v0 |-> l.v0, a |-> l.a, den |-> l.den, cost |-> c] ELSE line
  BY DEF RansacIteration
<1> DEFINE o == Ols(sample)
           I == Inliers(o)
           l == Ols(I)
           m == [v0 |-> l.v0, a |-> l.a, den |-> l.den, cost |-> CostOf(l, I)]
<1>2. line' = line \/ (Enough(I) /\ line' = m)
  BY <1>1, Zenon
<1>3. ASSUME Enough(I) PROVE IsLine(m) /\ Supported(m)
  <2>1. sample \in SUBSET All /\ Cardinality(sample) = ModelPoints /\ ModelPoints >= 2
    BY LineFitAssumption DEF kSubset
  <2>2. IsLine(o)
    BY <2>1, OlsFacts DEF IsLine
  <2>3. I \in SUBSET All /\ Cardinality(I) >= 2
    BY <1>3, <2>1, SampleTypes, FS_Subset, FS_CardinalityType, LineFitAssumption
       DEF Inliers, Enough, RansacIteration, MinInliers
  <2>4. l.den # 0
    BY <2>3, OlsFacts
  <2>5. IsLine(l) /\ Supported(l)
    <3> HIDE DEF o
    <3> QED BY <1>3, <2>2, <2>4, RefitIsSupported
  <2>6. m.v0 = l.v0 /\ m.a = l.a /\ m.den = l.den
    OBVIOUS
  <2> HIDE DEF l, m
  <2> QED BY <2>5, <2>6, SameSupport
<1> HIDE DEF m, I
<1> QED BY <1>2, <1>3

LEMMA FitLineKeeps ==
  ASSUME SeqOK, Order, FitInv, FitLine
  PROVE  FitInv'
<1>1. UNCHANGED <<seq, step, samples>> /\ fit # "off"
  BY DEF FitLine, FitNext, FitSeed, OlsTooFew, OlsDegenerate, OlsRefit, RansacPanics,
     RansacIteration, RansacEnd, FitFails
<1>2. /\ SamplesOK /\ Len(samples) > 0
      /\ step' # "strip" /\ Count' >= MinFitFrames /\ samples' = Collected[Count]'
  BY <1>1, SamplesAre DEF Collected, Count, Sample, Time, FitInv
<1>3. \A l : Supported(l)' <=> Supported(l)
  <2>1. All' = All /\ T' = T /\ V' = V
    BY <1>1 DEF All, T, V
  <2>2. \A l, k : Residual(l, k)' = Residual(l, k)
    BY <2>1 DEF Residual
  <2>3. ASSUME NEW l, NEW I PROVE CostOf(l, I)' = CostOf(l, I)
    BY <2>1, <2>2 DEF CostOf
  <2> QED BY <1>1, <2>1, <2>3 DEF Supported
<1> HIDE DEF Supported
<1>4. ASSUME NEW l, IsLine(l) /\ Supported(l), line' = l PROVE Supported(line)'
  BY <1>3, <1>4 DEF Supported, CostOf, Residual
<1>5. CASE FitSeed
  <2>1. Median \in Int
    BY <1>2, MedianIs, SampleTypes
  <2> QED BY <1>2, <1>5, <2>1 DEF FitSeed, FitInv, IsLine, FitResults
<1>6. CASE OlsTooFew \/ OlsDegenerate \/ RansacPanics
  BY <1>2, <1>6 DEF OlsTooFew, OlsDegenerate, RansacPanics, FitFails, FitInv, FitResults
<1>7. CASE OlsRefit
  <2>1. IsLine(line') /\ Supported(line')
    BY <1>2, <1>7, RefitIsSupported DEF OlsRefit, FitInv
  <2>2. fit' \in {"fitted", "ols"}
    BY <1>7 DEF OlsRefit
  <2>3. Supported(line)'
    BY <1>4, <2>1
  <2> QED BY <1>2, <2>1, <2>2, <2>3 DEF FitInv, FitResults
<1>8. CASE RansacIteration
  <2>1. line' = NoLine \/ (IsLine(line') /\ Supported(line'))
    BY <1>2, <1>8, RansacKeeps DEF FitInv, RansacIteration
  <2>2. fit' = "ransac"
    BY <1>8 DEF RansacIteration
  <2>3. line' = NoLine \/ (IsLine(line') /\ Supported(line)')
    BY <1>4, <2>1
  <2> QED BY <1>2, <2>2, <2>3 DEF FitInv, FitResults
<1>9. CASE RansacEnd
  <2>1. line' = line /\ (line # NoLine => IsLine(line) /\ Supported(line))
    BY <1>9 DEF RansacEnd, FitInv
  <2>2. line # NoLine => IsLine(line)' /\ Supported(line)'
    BY <1>4, <2>1 DEF IsLine
  <2> QED BY <1>2, <1>9, <2>1, <2>2 DEF RansacEnd, FitInv, FitResults
<1> QED BY <1>5, <1>6, <1>7, <1>8, <1>9 DEF FitLine, FitNext

LEMMA NextFit ==
  ASSUME SeqOK, Order, FitInv, [Next]_vars
  PROVE  FitInv'
<1>1. ASSUME UNCHANGED <<seq, fitVars>>, step' # "strip" \/ UNCHANGED step
      PROVE  FitInv'
  <2>1. /\ Collected' = Collected /\ Count' = Count /\ All' = All /\ T' = T /\ V' = V
    BY <1>1 DEF Collected, Count, Sample, Time, All, T, V, fitVars
  <2>2. Supported(line)' <=> Supported(line)
    BY <1>1, <2>1 DEF Supported, CostOf, Residual, fitVars
  <2> QED BY <1>1, <2>1, <2>2 DEF FitInv, IsLine, fitVars
<1>2. CASE Strip
  BY <1>2 DEF Strip, Order, FitInv, fitVars, FitResults
<1>3. CASE FitStart
  <2>1. /\ samples' = Collected[Count] /\ line' = NoLine /\ UNCHANGED seq
        /\ fit' \in {"seed", "ransac"} /\ Count >= MinFitFrames /\ step' # "strip"
    BY <1>3 DEF FitStart, FitInv
  <2>2. Collected' = Collected /\ Count' = Count
    BY <2>1 DEF Collected, Count, Sample, Time
  <2> QED BY <2>1, <2>2 DEF FitInv, FitResults
<1>4. CASE FitLine
  BY <1>4, FitLineKeeps
<1>5. CASE Next /\ ~Strip /\ ~FitStart /\ ~FitLine
  <2>1. UNCHANGED <<seq, fitVars>> /\ (step' # "strip" \/ UNCHANGED step)
    BY <1>5 DEF Next, Detector, FitTooShort, FitFailed, FitPanicked, FitAccepted, Offset,
       Judge, StitchFrames, StitchFailed, StitchDone, EncodeClip, ClipDone, FFmpeg,
       FFmpegDies, GiveUp
  <2> QED BY <1>1, <2>1
<1>6. CASE UNCHANGED vars
  BY <1>1, <1>6 DEF vars
<1> QED BY <1>2, <1>3, <1>4, <1>5, <1>6

-----------------------------------------------------------------------------
(* Outliers do not matter.                                                 *)

At(v) == {k \in All : V[k] = v}

\* What OutliersIgnored asks of the velocities.
Majority(v) ==
  /\ 2 * Cardinality(At(v)) > Len(samples) /\ Cardinality(At(v)) > 1
  /\ \A k \in All \ At(v) : Magnitude(V[k] - v) >= Threshold

Flat(v) == [v0 |-> v, a |-> 0, den |-> 1]

\* From the seed on the line is that of the majority.
SpeedInv ==
  /\ fit \in {"ols", "fitted"} =>
       \A v \in {V[k] : k \in All} : Majority(v) => SameLine(line, Flat(v))
  /\ fit \in {"too_few_inliers", "degenerate"} =>
       \A v \in {V[k] : k \in All} : ~Majority(v)

LEMMA AtFacts ==
  ASSUME SamplesOK, NEW v, Majority(v)
  PROVE  /\ IsFiniteSet(At(v)) /\ At(v) \in SUBSET All /\ Cardinality(At(v)) \in Nat
         /\ Cardinality(All) = Len(samples) /\ Len(samples) \in Nat
         /\ Enough(At(v)) /\ Cardinality(At(v)) >= 2
<1>1. At(v) \in SUBSET All
  BY DEF At
<1>2. IsFiniteSet(At(v)) /\ Cardinality(At(v)) \in Nat /\ Len(samples) \in Nat
  BY <1>1, SampleTypes, FS_Subset, FS_CardinalityType
<1>3. Cardinality(All) = Len(samples)
  <2> DEFINE n == Len(samples)
  <2>1. n \in Nat /\ 1 \in Int
    BY <1>2
  <2> HIDE DEF n
  <2>2. Cardinality(1..n) = IF 1 > n THEN 0 ELSE n - 1 + 1
    BY <2>1, FS_Interval
  <2> QED BY <2>1, <2>2 DEF All, n
<1> DEFINE c == Cardinality(At(v))
<1>4. c \in Nat /\ 2 * c > Len(samples) /\ c > 1
  BY <1>2 DEF Majority
<1>5. c >= Len(samples) \div 2
  <2> HIDE DEF c
  <2> QED BY <1>2, <1>4
<1>6. c >= 2
  <2> HIDE DEF c
  <2> QED BY <1>4
<1> QED BY <1>1, <1>2, <1>3, <1>5, <1>6 DEF Enough, MinInliers

AtSpeed(S, x, y, xy, v) ==
  \A k \in S : x[k] \in Int /\ y[k] = v /\ xy[k] = x[k] * y[k]

\* The sums over a set on which the velocity is v.
LEMMA ConstantSums ==
  ASSUME NEW S, IsFiniteSet(S), NEW x, NEW y, NEW xy, NEW v \in Int,
         AtSpeed(S, x, y, xy, v)
  PROVE  \A J \in SUBSET S : /\ SumsOf(y, S)[J] = v * Cardinality(J)
                             /\ SumsOf(xy, S)[J] = v * SumsOf(x, S)[J]
<1> DEFINE B == {J \in SUBSET S : /\ SumsOf(y, S)[J] = v * Cardinality(J)
                                  /\ SumsOf(xy, S)[J] = v * SumsOf(x, S)[J]}
<1>0. \A k \in S : x[k] \in Int /\ y[k] = v /\ xy[k] = x[k] * y[k]
  BY DEF AtSpeed
<1>1. {} \in B
  <2>1. /\ SumsOf(x, S)[{}] = 0 /\ SumsOf(y, S)[{}] = 0 /\ SumsOf(xy, S)[{}] = 0
        /\ Cardinality({}) = 0
    BY SumUnfold, FS_EmptySet
  <2> QED BY <2>1
<1>2. ASSUME NEW J \in SUBSET S, J # {}, J \ {Chosen(J)} \in B
      PROVE  J \in B
  <2> DEFINE m == Chosen(J)
             R == J \ {Chosen(J)}
             u == x[m]
             c == Cardinality(R)
             sx == SumsOf(x, S)[R]
             sy == SumsOf(y, S)[R]
             sxy == SumsOf(xy, S)[R]
  <2>1. m \in J /\ u \in Int /\ y[m] = v /\ xy[m] = u * v
    BY <1>0, <1>2, WithoutChosen
  <2>2. Cardinality(J) = c + 1 /\ c \in Int
    <3>1. Cardinality(J) \in Nat \ {0} /\ c = Cardinality(J) - 1
      BY <1>2, WithoutChosen
    <3> QED BY <3>1
  <2>3. SumsOf(x, S)[J] = u + sx /\ sx \in Int
    <3>1. \A k \in S : x[k] \in Int
      BY <1>0
    <3> QED BY <1>2, <3>1, SumStep
  <2>4. SumsOf(y, S)[J] = v + sy
    <3>1. \A K \in SUBSET S :
            K # {} => SumsOf(y, S)[K] = y[Chosen(K)] + SumsOf(y, S)[K \ {Chosen(K)}]
      BY SumUnfold
    <3>2. SumsOf(y, S)[J] = y[m] + sy
      BY <1>2, <3>1
    <3> QED BY <2>1, <3>2
  <2>5. SumsOf(xy, S)[J] = u * v + sxy
    <3>1. \A K \in SUBSET S :
            K # {} => SumsOf(xy, S)[K] = xy[Chosen(K)] + SumsOf(xy, S)[K \ {Chosen(K)}]
      BY SumUnfold
    <3>2. SumsOf(xy, S)[J] = xy[m] + sxy
      BY <1>2, <3>1
    <3> QED BY <2>1, <3>2
  <2>6. sy = v * c /\ sxy = v * sx
    BY <1>2
  <2> HIDE DEF u, c, sx, sy, sxy
  <2>7. v + sy = v * (c + 1)
    BY <2>2, <2>6
  <2>8. u * v + sxy = v * (u + sx)
    <3>1. v * (u + sx) = u * v + v * sx
      BY <2>1, <2>3
    <3> QED BY <2>6, <3>1
  <2> QED BY <2>2, <2>3, <2>4, <2>5, <2>7, <2>8
<1>3. \A J \in SUBSET S : J \in B
  <2> HIDE DEF B
  <2> QED BY <1>1, <1>2, Subsets
<1> QED BY <1>3

\* A line fitted to samples with the same velocity.
LEMMA FlatFit ==
  ASSUME SamplesOK, NEW v \in Int, NEW I \in SUBSET All, \A k \in I : V[k] = v
  PROVE  SameLine(Ols(I), Flat(v))
<1> DEFINE xx == [k \in All |-> T[k] * T[k]]
           xy == [k \in All |-> T[k] * V[k]]
           n == Cardinality(I)
           sx == SumsOf(T, I)[I]
           sy == SumsOf(V, I)[I]
           sxx == SumsOf(xx, I)[I]
           sxy == SumsOf(xy, I)[I]
<1>1. IsFiniteSet(I) /\ n \in Int
  BY SampleTypes, FS_Subset, FS_CardinalityType
<1>2. Ols(I) = [v0 |-> sxx * sy - sx * sxy, a |-> n * sxy - sx * sy,
                den |-> n * sxx - sx * sx]
  BY <1>1, SumUnfold DEF Ols
<1>3. \A k \in I : T[k] \in Int /\ V[k] = v /\ xx[k] = T[k] * T[k] /\ xy[k] = T[k] * V[k]
  BY SampleTypes
<1>4. I \in SUBSET I
  OBVIOUS
<1>5. sy = v * n /\ sxy = v * sx
  <2> HIDE DEF xy
  <2>1. AtSpeed(I, T, V, xy, v)
    BY <1>3 DEF AtSpeed
  <2>2. \A J \in SUBSET I : /\ SumsOf(V, I)[J] = v * Cardinality(J)
                            /\ SumsOf(xy, I)[J] = v * SumsOf(T, I)[J]
    BY <1>1, <2>1, ConstantSums
  <2> QED BY <1>4, <2>2
<1>6. sx \in Int
  BY <1>1, <1>3, <1>4, SumType
<1>7. sxx \in Int
  <2>1. ASSUME NEW k \in I PROVE xx[k] \in Int
    <3> HIDE DEF xx
    <3>1. T[k] \in Int /\ xx[k] = T[k] * T[k]
      BY <1>3
    <3> QED BY <3>1
  <2> HIDE DEF xx
  <2> QED BY <1>1, <1>4, <2>1, SumType
<1> HIDE DEF n, sx, sy, sxx, sxy
<1>8. sxx * sy - sx * sxy = v * (n * sxx - sx * sx)
  BY <1>1, <1>5, <1>6, <1>7
<1>9. n * sxy - sx * sy = 0
  BY <1>1, <1>5, <1>6
<1>10. sxx * sy - sx * sxy \in Int /\ n * sxx - sx * sx \in Int
  BY <1>1, <1>5, <1>6, <1>7
<1> DEFINE o0 == sxx * sy - sx * sxy
           oa == n * sxy - sx * sy
           od == n * sxx - sx * sx
<1>11. Ols(I) = [v0 |-> o0, a |-> oa, den |-> od] /\ o0 = v * od /\ oa = 0
       /\ o0 \in Int /\ od \in Int
  BY <1>2, <1>8, <1>9, <1>10
<1> HIDE DEF o0, oa, od
<1> QED BY <1>11 DEF SameLine, Flat

\* The samples of the majority are the inliers of its line.
LEMMA FlatInliers ==
  ASSUME SamplesOK, NEW v \in Int, Majority(v), NEW l, IsLine(l), SameLine(l, Flat(v))
  PROVE  Inliers(l) = At(v)
<1>1. l.v0 = v * l.den /\ l.a = 0 /\ l.den \in Int /\ l.den > 0
  BY DEF SameLine, Flat, IsLine
<1>2. Threshold \in Int /\ Threshold > 0
  BY LineFitAssumption
<1>3. ASSUME NEW k \in All
      PROVE  Residual(l, k) < Threshold * l.den <=> k \in At(v)
  <2> DEFINE d == l.den
             e == V[k] - v
             m == Magnitude(e)
  <2>1. T[k] \in Int /\ V[k] \in Int
    BY SampleTypes
  <2>2. e \in Int /\ m \in Nat /\ (m = 0 <=> e = 0)
    BY <2>1 DEF Magnitude
  <2>3. l.v0 + l.a * T[k] - V[k] * l.den = (-e) * d
    <3> DEFINE w == V[k]
    <3>1. l.v0 = v * d /\ l.a * T[k] = 0 /\ d \in Int /\ w \in Int
      BY <1>1, <2>1
    <3> HIDE DEF d, w
    <3>2. v * d + 0 - w * d = (-(w - v)) * d
      BY <3>1
    <3> QED BY <3>1, <3>2 DEF d, w
  <2>4. Residual(l, k) = Magnitude((-e) * d)
    BY <2>3 DEF Residual
  <2> HIDE DEF d, e
  <2>5. d \in Int /\ d > 0
    BY <1>1 DEF d
  <2>6. Magnitude((-e) * d) = m * d
    <3>1. CASE e >= 0
      <4>1. e * d >= 0 /\ (-e) * d = -(e * d) /\ e * d \in Int
        BY <2>2, <2>5, <3>1
      <4>2. m = e
        BY <2>2, <3>1 DEF Magnitude
      <4> DEFINE z == e * d
      <4>3. z \in Int /\ z >= 0 /\ (-e) * d = -z
        BY <4>1
      <4> HIDE DEF z
      <4>4. Magnitude(-z) = z
        BY <4>3 DEF Magnitude
      <4> QED BY <4>2, <4>3, <4>4 DEF z
    <3>2. CASE e < 0
      <4> DEFINE f == -e
                 z == f * d
      <4>1. f \in Int /\ f > 0 /\ m = f
        BY <2>2, <3>2 DEF Magnitude
      <4> HIDE DEF f
      <4>2. z \in Int /\ z >= 0
        BY <2>5, <4>1
      <4> HIDE DEF z
      <4>3. Magnitude(z) = z
        BY <4>2 DEF Magnitude
      <4> QED BY <4>1, <4>3 DEF f, z
    <3> QED BY <2>2, <3>1, <3>2
  <2>7. CASE k \in At(v)
    <3>1. m = 0
      BY <2>1, <2>2, <2>7 DEF At, e
    <3>2. m * d = 0 /\ Threshold * d > 0
      BY <1>2, <2>5, <3>1
    <3> QED BY <2>4, <2>6, <2>7, <3>2 DEF d
  <2>8. CASE k \notin At(v)
    <3>1. m >= Threshold
      BY <2>8 DEF Majority, e
    <3> HIDE DEF m
    <3>2. ASSUME m * d < Threshold * d PROVE FALSE
      <4>1. m < Threshold
        BY <1>2, <2>2, <2>5, <3>2, Cancel
      <4> QED BY <1>2, <2>2, <3>1, <4>1
    <3> QED BY <2>4, <2>6, <2>8, <3>2 DEF d
  <2> QED BY <2>7, <2>8
<1> QED BY <1>3 DEF Inliers, At

\* The median of the velocities is that of the majority.
LEMMA MajorityMedian ==
  ASSUME SamplesOK, NEW v \in Int, Majority(v), Len(samples) > 0
  PROVE  Median = v
<1> DEFINE n == Len(samples)
           c == Cardinality(At(v))
           m == Median
           L == {k \in All : V[k] < m}
           U == {k \in All : V[k] <= m}
<1>1. /\ IsFiniteSet(At(v)) /\ At(v) \in SUBSET All /\ c \in Nat
      /\ Cardinality(All) = n /\ n \in Nat /\ 2 * c > n
  BY AtFacts DEF Majority
<1>2. m \in Int /\ Cardinality(L) <= n \div 2 /\ Cardinality(U) > n \div 2
  BY MedianIs, SampleTypes
<1>3. IsFiniteSet(All) /\ IsFiniteSet(L) /\ IsFiniteSet(U)
      /\ Cardinality(L) \in Nat /\ Cardinality(U) \in Nat
  BY SampleTypes, FS_Subset, FS_CardinalityType
<1>4. ASSUME m > v PROVE FALSE
  <2>1. At(v) \in SUBSET L
    BY <1>4 DEF At
  <2>2. c <= Cardinality(L)
    BY <1>3, <2>1, FS_Subset
  <2> HIDE DEF n, c, L, m
  <2> QED BY <1>1, <1>2, <1>3, <2>2
<1>5. ASSUME m < v PROVE FALSE
  <2>1. U \cap At(v) = {}
    BY <1>2, <1>5 DEF At
  <2>2. IsFiniteSet(U \cup At(v)) /\ Cardinality(U \cup At(v)) = Cardinality(U) + c - Cardinality(U \cap At(v))
    BY <1>1, <1>3, FS_Union
  <2>3. Cardinality(U \cup At(v)) <= n
    <3>1. U \cup At(v) \in SUBSET All
      BY <1>1
    <3> HIDE DEF U
    <3> QED BY <1>1, <1>3, <3>1, FS_Subset
  <2>4. Cardinality(U \cap At(v)) = 0
    BY <2>1, FS_EmptySet
  <2> DEFINE cu == Cardinality(U)
             x == Cardinality(U \cup At(v))
  <2>5. x = cu + c - 0 /\ x <= n /\ cu > n \div 2 /\ cu \in Nat
    BY <1>2, <1>3, <2>2, <2>3, <2>4
  <2> HIDE DEF n, c, cu, x
  <2> QED BY <1>1, <2>5
<1> QED BY <1>2, <1>4, <1>5

LEMMA FitKeepsSpeed ==
  ASSUME SeqOK, Order, FitInv, SpeedInv, FitLine
  PROVE  SpeedInv'
<1>1. UNCHANGED <<seq, step, samples>> /\ fit # "off"
  BY DEF FitLine, FitNext, FitSeed, OlsTooFew, OlsDegenerate, OlsRefit, RansacPanics,
     RansacIteration, RansacEnd, FitFails
<1>2. SamplesOK /\ Len(samples) > 0
  BY <1>1, SamplesAre
<1>3. All' = All /\ V' = V /\ \A k \in All : V[k] \in Int
  BY <1>1, <1>2, SampleTypes DEF All, V
<1>4. \A v : Majority(v)' <=> Majority(v)
  BY <1>1, <1>3 DEF Majority, At
<1> DEFINE Values == {V[k] : k \in All}
<1>5. Values' = Values /\ Values \in SUBSET Int
  BY <1>3
\* The line is made of inliers of the line before.
<1>6. ASSUME fit = "ols", NEW v \in Values, Majority(v)
      PROVE  Inliers(line) = At(v) /\ Enough(At(v)) /\ Ols(At(v)).den > 0
             /\ SameLine(Ols(At(v)), Flat(v))
  <2>1. v \in Int /\ IsLine(line) /\ SameLine(line, Flat(v))
    BY <1>5, <1>6 DEF FitInv, SpeedInv
  <2>2. Inliers(line) = At(v)
    BY <1>2, <1>6, <2>1, FlatInliers
  <2>3. Enough(At(v)) /\ At(v) \in SUBSET All /\ Cardinality(At(v)) >= 2
    BY <1>2, <1>6, AtFacts
  <2>4. Ols(At(v)).den > 0
    BY <1>2, <2>3, OlsFacts
  <2>5. SameLine(Ols(At(v)), Flat(v))
    <3>1. \A k \in At(v) : V[k] = v
      BY DEF At
    <3> QED BY <1>2, <2>1, <2>3, <3>1, FlatFit
  <2> QED BY <2>2, <2>3, <2>4, <2>5
<1>7. CASE FitSeed
  <2>1. fit' = "ols" /\ line' = [v0 |-> Median, a |-> 0, den |-> 1]
    BY <1>7 DEF FitSeed
  <2>2. ASSUME NEW v \in Values, Majority(v) PROVE SameLine(line', Flat(v))
    <3>1. Median = v /\ v \in Int
      BY <1>2, <1>5, <2>2, MajorityMedian
    <3> QED BY <2>1, <3>1 DEF SameLine, Flat
  <2> HIDE DEF Values
  <2> QED BY <1>4, <1>5, <2>1, <2>2 DEF SpeedInv, Values, SameLine, Flat
<1>8. CASE OlsTooFew \/ OlsDegenerate
  <2>1. fit = "ols" /\ (~Enough(Inliers(line)) \/ Ols(Inliers(line)).den = 0)
        /\ fit' \in {"too_few_inliers", "degenerate"}
    BY <1>8 DEF OlsTooFew, OlsDegenerate, FitFails
  <2>2. ASSUME NEW v \in Values, Majority(v) PROVE FALSE
    <3>1. /\ Inliers(line) = At(v) /\ Enough(At(v)) /\ Ols(At(v)).den > 0
          /\ Ols(At(v)).den \in Int
      <4>1. SamplesOK /\ At(v) \in SUBSET All
        BY <1>2 DEF At
      <4> QED BY <1>6, <2>1, <2>2, <4>1, OlsFacts
    <3> QED BY <2>1, <3>1
  <2> HIDE DEF Values
  <2> QED BY <1>4, <1>5, <2>1, <2>2 DEF SpeedInv, Values
<1>9. CASE OlsRefit
  <2>1. fit = "ols" /\ line' = Ols(Inliers(line)) /\ fit' \in {"ols", "fitted"}
    BY <1>9 DEF OlsRefit
  <2>2. ASSUME NEW v \in Values, Majority(v) PROVE SameLine(line', Flat(v))
    BY <1>6, <2>1, <2>2
  <2> HIDE DEF Values
  <2> QED BY <1>4, <1>5, <2>1, <2>2 DEF SpeedInv, Values, SameLine, Flat
<1>10. CASE RansacPanics \/ RansacIteration \/ RansacEnd
  <2>1. fit' \in {"panicked", "ransac", "unsuccessful", "chosen"}
    BY <1>10 DEF RansacPanics, RansacIteration, RansacEnd, FitFails
  <2> QED BY <2>1 DEF SpeedInv
<1> QED BY <1>7, <1>8, <1>9, <1>10 DEF FitLine, FitNext

LEMMA NextSpeed ==
  ASSUME SeqOK, Order, FitInv, SpeedInv, [Next]_vars
  PROVE  SpeedInv'
<1>1. ASSUME UNCHANGED fitVars PROVE SpeedInv'
  <2>1. All' = All /\ V' = V
    BY <1>1 DEF All, V, fitVars
  <2> QED BY <1>1, <2>1 DEF SpeedInv, Majority, At, SameLine, fitVars
<1>2. CASE FitStart
  BY <1>2 DEF FitStart, SpeedInv
<1>3. CASE FitLine
  BY <1>3, FitKeepsSpeed
<1>4. CASE Next /\ ~FitStart /\ ~FitLine
  <2>1. UNCHANGED fitVars
    BY <1>4 DEF Next, Detector, Strip, FitTooShort, FitFailed, FitPanicked, FitAccepted,
       Offset, Judge, StitchFrames, StitchFailed, StitchDone, EncodeClip, ClipDone,
       FFmpeg, FFmpegDies
  <2> QED BY <1>1, <2>1
<1>5. CASE UNCHANGED vars
  BY <1>1, <1>5 DEF vars
<1> QED BY <1>2, <1>3, <1>4, <1>5

-----------------------------------------------------------------------------
(* Rounding.                                                               *)

LEMMA Quotient ==
  ASSUME NEW x \in Int, NEW y \in Int, y > 0
  PROVE  /\ x \div y \in Int
         /\ (x \div y) * y <= x /\ x < (x \div y) * y + y
OBVIOUS

\* Round is within a half, and rounds a half away from zero.
LEMMA RoundFacts ==
  ASSUME NEW n \in Int, NEW d \in Int, d > 0
  PROVE  /\ Round(n, d) \in Int
         /\ n >= 0 => Round(n, d) >= 0 /\ 2 * (Round(n, d) * d) <= 2 * n + d
                      /\ 2 * n < 2 * (Round(n, d) * d) + d
         /\ n <= 0 => Round(n, d) <= 0 /\ 2 * (Round(n, d) * d) < 2 * n + d
                      /\ 2 * n <= 2 * (Round(n, d) * d) + d
<1>1. ASSUME NEW m \in Int, m >= 0
      PROVE  LET q == (2 * m + d) \div (2 * d)
             IN  q \in Int /\ q >= 0 /\ 2 * (q * d) <= 2 * m + d /\ 2 * m < 2 * (q * d) + d
  <2> DEFINE x == 2 * m + d
             y == 2 * d
             q == x \div y
  <2>1. x \in Int /\ y \in Int /\ y > 0 /\ x > 0
    BY <1>1
  <2>2. q \in Int /\ q * y <= x /\ x < q * y + y
    <3> HIDE DEF x, y
    <3> QED BY <2>1, Quotient
  <2>3. q >= 0
    <3> HIDE DEF x, y, q
    <3> SUFFICES ASSUME q <= -1 PROVE FALSE
      BY <2>2
    <3>1. q * y <= -y
      <4>1. (q + 1) * y <= 0
        <5> DEFINE z == -(q + 1)
        <5>1. z \in Int /\ z >= 0
          BY <2>2
        <5> HIDE DEF z
        <5>2. z * y >= 0
          BY <2>1, <5>1
        <5>3. (q + 1) * y = -(z * y)
          BY <2>1, <2>2 DEF z
        <5> DEFINE w == z * y
        <5>4. w \in Int
          BY <2>1, <5>1
        <5> HIDE DEF w
        <5> QED BY <5>2, <5>3, <5>4 DEF w
      <4>2. (q + 1) * y = q * y + y
        BY <2>1, <2>2
      <4> DEFINE w == q * y
      <4>3. w \in Int
        BY <2>1, <2>2
      <4> HIDE DEF w
      <4> QED BY <2>1, <4>1, <4>2, <4>3 DEF w
    <3> DEFINE w == q * y
    <3>2. w \in Int
      BY <2>1, <2>2
    <3> HIDE DEF w
    <3> QED BY <2>1, <2>2, <3>1, <3>2 DEF w
  <2>4. q * y = 2 * (q * d)
    <3> HIDE DEF q
    <3> QED BY <2>2
  <2> DEFINE w == q * d
  <2>5. w \in Int
    BY <2>2
  <2> HIDE DEF w
  <2>6. 2 * w <= 2 * m + d /\ 2 * m + d < 2 * w + 2 * d
    BY <2>2, <2>4 DEF w
  <2>7. 2 * m < 2 * w + d
    BY <1>1, <2>5, <2>6
  <2> QED BY <2>2, <2>3, <2>6, <2>7 DEF w
<1>2. CASE n > 0
  <2>1. Round(n, d) = (2 * n + d) \div (2 * d)
    BY <1>2 DEF Round
  <2> QED BY <1>1, <1>2, <2>1
<1>3. CASE n < 0
  <2> DEFINE m == -n
             q == (2 * m + d) \div (2 * d)
  <2>1. m \in Int /\ m >= 0
    BY <1>3
  <2>2. q \in Int /\ q >= 0 /\ 2 * (q * d) <= 2 * m + d /\ 2 * m < 2 * (q * d) + d
    BY <1>1, <2>1
  <2>3. Round(n, d) = -q
    BY <1>3 DEF Round
  <2> DEFINE w == q * d
  <2> HIDE DEF q
  <2>4. w \in Int /\ (-q) * d = -w
    BY <2>2
  <2> HIDE DEF w
  <2>5. 2 * w <= 2 * (-n) + d /\ 2 * (-n) < 2 * w + d
    BY <2>2 DEF w
  <2>6. 2 * n <= 2 * (-w) + d /\ 2 * (-w) < 2 * n + d
    BY <2>4, <2>5
  <2> QED BY <1>3, <2>2, <2>3, <2>4, <2>6
<1>4. CASE n = 0
  <2>1. Round(n, d) = d \div (2 * d)
    BY <1>4 DEF Round
  <2>2. d \div (2 * d) = 0
    OBVIOUS
  <2> QED BY <1>4, <2>1, <2>2
<1> QED BY <1>2, <1>3, <1>4

\* Numbers that are d apart are rounded to different ones.
LEMMA RoundApart ==
  ASSUME NEW x \in Int, NEW y \in Int, NEW d \in Int, d > 0, y + d <= x
  PROVE  Round(y, d) + 1 <= Round(x, d)
<1> DEFINE p == Round(x, d)
           q == Round(y, d)
           u == p * d
           w == q * d
<1>1. /\ p \in Int
      /\ x >= 0 => 2 * x < 2 * u + d
      /\ x <= 0 => 2 * x <= 2 * u + d
  BY RoundFacts
<1>2. /\ q \in Int
      /\ y >= 0 => 2 * w <= 2 * y + d
      /\ y <= 0 => 2 * w < 2 * y + d
  BY RoundFacts
<1> HIDE DEF p, q
<1>3. u \in Int /\ w \in Int
  BY <1>1, <1>2
<1> HIDE DEF u, w
<1>4. w < u
  BY <1>1, <1>2, <1>3
<1>5. q < p
  BY <1>1, <1>2, <1>4, Cancel DEF u, w
<1> QED BY <1>1, <1>2, <1>5 DEF p, q

-----------------------------------------------------------------------------
(* The offsets: differences of the rounded positions of the line.          *)

\* The rounded position of the train k frames after the first.
X(k) == Round(Position2(Time(k)), 2 * den)

OffsetsInv ==
  /\ v0 \in Int /\ a \in Int /\ den \in Int /\ den > 0
  /\ dx_fit \in Seq(Int) /\ Len(dx_fit) <= Count
  /\ step \in {"strip", "fit"} => dx_fit = <<>>
  /\ t = Time(Len(dx_fit)) /\ prev_x = X(Len(dx_fit))
  /\ \A k \in 1..Len(dx_fit) : dx_fit[k] = X(k) - X(k - 1)
  /\ phase \in {"stitch", "place"} \cup StitchResults =>
       fit # "off" /\ Len(dx_fit) = Count /\ ~TooShort /\ ~TooSlow

LEMMA PositionType ==
  ASSUME NEW u \in Int, v0 \in Int, a \in Int, den \in Int, den > 0
  PROVE  Position2(u) \in Int /\ Round(Position2(u), 2 * den) \in Int
<1>1. Position2(u) \in Int
  BY DEF Position2
<1>2. 2 * den \in Int /\ 2 * den > 0
  OBVIOUS
<1> QED BY <1>1, <1>2, RoundFacts

LEMMA RoundZero ==
  ASSUME NEW d \in Int, d > 0
  PROVE  Round(0, 2 * d) = 0
<1>1. 2 * d \in Int /\ 2 * d > 0
  OBVIOUS
<1>2. Round(0, 2 * d) <= 0 /\ Round(0, 2 * d) >= 0 /\ Round(0, 2 * d) \in Int
  BY <1>1, RoundFacts
<1> QED BY <1>2

LEMMA OffsetKeeps ==
  ASSUME SeqOK, Order, FitInv, OffsetsInv, Offset
  PROVE  OffsetsInv'
<1>0. PICK n \in Nat : n = Len(dx_fit)
  BY DEF OffsetsInv
<1>1. PICK g : g = seq.gaps[n + 1]
  OBVIOUS
<1>2. /\ step = "offsets" /\ n < Count /\ phase = "fit" /\ FitStep(g) /\ t' = t + g
      /\ UNCHANGED <<seq, step, fitVars, model, phase, image>>
  BY <1>0, <1>1 DEF Offset, FitFrame
<1>3. /\ Count \in Nat /\ n + 1 \in 1..Count /\ n \in 0..Count
      /\ t + g = Time(n + 1) /\ Time(n + 1) \in Int
  <2>1. Count \in Nat
    BY TimeFacts
  <2>2. n + 1 \in 1..Count /\ n \in 0..Count /\ (n + 1) - 1 = n /\ n + 1 \in 0..Count
    BY <1>2, <2>1
  <2>3. Time(n + 1) = Time(n) + g /\ Time(n + 1) \in Int
    BY <1>1, <2>2, TimeFacts
  <2> QED BY <1>0, <2>1, <2>2, <2>3 DEF OffsetsInv
<1>4. prev_x' = X(n + 1) /\ X(n + 1) \in Int
  BY <1>2, <1>3, PositionType DEF FitStep, X, OffsetsInv
<1>5. X(n) \in Int
  BY <1>3, TimeFacts, PositionType DEF X, OffsetsInv
<1>6. /\ \A k : X(k)' = X(k)
      /\ \A k : Time(k)' = Time(k)
      /\ Count' = Count
  BY <1>2 DEF X, Time, Count, Position2, Round, model
<1>7. PICK e \in Int : e = X(n + 1) - X(n)
  BY <1>4, <1>5
<1>8. dx_fit' = Append(dx_fit, e)
  BY <1>0, <1>2, <1>4, <1>7 DEF FitStep, OffsetsInv
<1>9. /\ dx_fit' \in Seq(Int) /\ Len(dx_fit') = n + 1 /\ dx_fit'[n + 1] = e
      /\ \A k \in 1..n : dx_fit'[k] = dx_fit[k]
  BY <1>0, <1>8 DEF OffsetsInv
<1>10. \A k \in 1..n + 1 : dx_fit'[k] = X(k) - X(k - 1)
  <2> SUFFICES ASSUME NEW k \in 1..n + 1 PROVE dx_fit'[k] = X(k) - X(k - 1)
    OBVIOUS
  <2>1. CASE k \in 1..n
    BY <1>0, <1>9, <2>1 DEF OffsetsInv
  <2>2. CASE k = n + 1
    <3>1. (n + 1) - 1 = n
      OBVIOUS
    <3> QED BY <1>7, <1>9, <2>2, <3>1
  <2> QED BY <2>1, <2>2
<1>11. t' = Time(n + 1)' /\ prev_x' = X(n + 1)'
  BY <1>2, <1>3, <1>4, <1>6
<1>12. \A k \in 1..Len(dx_fit') : dx_fit'[k] = X(k)' - X(k - 1)'
  BY <1>6, <1>9, <1>10
<1>13. t' = Time(Len(dx_fit))' /\ prev_x' = X(Len(dx_fit))'
  BY <1>9, <1>11 DEF Time, X, Position2
<1>14. Len(dx_fit') <= Count'
  BY <1>2, <1>3, <1>6, <1>9
<1> QED BY <1>2, <1>9, <1>12, <1>13, <1>14 DEF OffsetsInv, model, StitchResults

LEMMA NextOffsets ==
  ASSUME SeqOK, Order, FitInv, OffsetsInv, [Next]_vars
  PROVE  OffsetsInv'
<1> DEFINE Judged == phase \in {"stitch", "place"} \cup StitchResults
<1>1. ASSUME UNCHANGED <<seq, samples, model, fitted>>,
             step' \notin {"strip", "fit"} \/ step' = step,
             Judged' => /\ fit' # "off"
                        /\ Judged \/ (Len(dx_fit) = Count /\ ~TooShort /\ ~TooSlow)
      PROVE  OffsetsInv'
  <2>1. /\ Count' = Count /\ (\A k : Time(k)' = Time(k)) /\ (\A k : X(k)' = X(k))
        /\ TooShort' = TooShort /\ TooSlow' = TooSlow
    BY <1>1 DEF Count, Time, X, Position2, Round, TooShort, TooSlow, Length2, MidSpeed,
       MidTime, Magnitude, model
  <2>2. t' = Time(Len(dx_fit))' /\ prev_x' = X(Len(dx_fit))'
    BY <1>1 DEF OffsetsInv, fitted, model, Time, X, Position2, Round
  <2> HIDE DEF Judged
  <2>3. Judged' => fit' # "off" /\ Len(dx_fit)' = Count' /\ ~TooShort' /\ ~TooSlow'
    BY <1>1, <2>1 DEF OffsetsInv, fitted, Judged
  <2> QED BY <1>1, <2>1, <2>2, <2>3 DEF OffsetsInv, fitted, model, Judged
<1>2. CASE Strip
  <2>1. /\ dx_fit = <<>> /\ phase' = "off" /\ SeqOK'
        /\ UNCHANGED <<v0, a, den, t, prev_x, dx_fit>>
    BY <1>2, StripFacts DEF Strip, OffsetsInv, Order, panoramaVars, model, fitted
  <2>2. Len(dx_fit) = 0 /\ Len(seq'.dx) \in Nat /\ Len(seq'.gaps) \in Nat
        /\ Len(seq.gaps) \in Nat
    BY <2>1 DEF SeqOK
  <2>3. Time(0)' = 0 /\ Time(0) = 0
    BY <2>2, RunningSumDef DEF Time
  <2>4. Position2(Time(0)) = 0 /\ Position2(Time(0))' = 0
    BY <2>1, <2>3 DEF Position2, OffsetsInv
  <2>5. X(0) = 0 /\ X(0)' = 0
    <3>1. Round(0, 2 * den) = 0
      BY RoundZero DEF OffsetsInv
    <3> QED BY <2>1, <2>4, <3>1 DEF X, Round
  <2>6. t' = 0 /\ prev_x' = 0
    BY <2>1, <2>2, <2>3, <2>5 DEF OffsetsInv
  <2> QED BY <2>1, <2>2, <2>3, <2>5, <2>6 DEF OffsetsInv, Count, StitchResults
<1>3. CASE FitAccepted
  <2>1. /\ dx_fit = <<>> /\ phase' = "fit" /\ step' = "offsets"
        /\ v0' = line.v0 /\ a' = line.a /\ den' = line.den * VelocityScale /\ IsLine(line)
        /\ UNCHANGED <<seq, t, prev_x, dx_fit>>
    BY <1>3 DEF FitAccepted, OffsetsInv, FitInv, fitted
  <2>2. v0' \in Int /\ a' \in Int /\ den' \in Int /\ den' > 0
    BY <2>1, FitAndStitchAssumption DEF IsLine
  <2>3. Len(dx_fit) = 0 /\ Count \in Nat
    BY <2>1, TimeFacts
  <2>4. Time(0) = 0 /\ Time(0)' = 0
    BY <2>1, TimeFacts DEF Time
  <2>5. Position2(Time(0)) = 0 /\ Position2(Time(0))' = 0
    BY <2>2, <2>4 DEF Position2, OffsetsInv
  <2>6. X(0) = 0 /\ X(0)' = 0
    <3>1. Round(0, 2 * den) = 0
      BY RoundZero DEF OffsetsInv
    <3>2. Round(0, 2 * den') = 0
      BY <2>2, RoundZero
    <3> QED BY <2>5, <3>1, <3>2 DEF X, Round
  <2>7. t' = 0 /\ prev_x' = 0
    BY <2>1, <2>3, <2>4, <2>6 DEF OffsetsInv
  <2> QED BY <2>1, <2>2, <2>3, <2>4, <2>6, <2>7 DEF OffsetsInv, Count, StitchResults
<1>4. CASE Offset
  BY <1>4, OffsetKeeps
<1>5. CASE FitStart
  BY <1>5 DEF FitStart, Order, OffsetsInv, panoramaVars, model, fitted, Count, Time, X,
     Position2, Round, StitchResults
<1>6. CASE FitLine
  <2>1. samples' = samples
    BY <1>6 DEF FitLine, FitNext, FitSeed, OlsTooFew, OlsDegenerate, OlsRefit,
       RansacPanics, RansacIteration, RansacEnd, FitFails
  <2> QED BY <1>1, <1>6, <2>1 DEF FitLine, Order, panoramaVars, StitchResults
<1>7. CASE FitTooShort \/ FitFailed \/ FitPanicked
  <2>1. ~Judged'
    BY <1>7 DEF FitTooShort, FitFailed, FitPanicked, Order, panoramaVars, StitchResults
  <2> HIDE DEF Judged
  <2> QED BY <1>1, <1>7, <2>1 DEF FitTooShort, FitFailed, FitPanicked, GiveUp,
             panoramaVars, fitVars
<1>8. CASE Judge
  <2>1. UNCHANGED <<seq, samples, model, fitted, fit>> /\ step' \notin {"strip", "fit"}
        /\ fit # "off" /\ phase = "fit"
    BY <1>8 DEF Judge, GiveUp, fitVars, Order
  <2>2. Judged' => Len(dx_fit) = Count /\ ~TooShort /\ ~TooSlow
    BY <1>8, <2>1 DEF Judge, GiveUp, StitchResults
  <2> HIDE DEF Judged
  <2> QED BY <1>1, <2>1, <2>2
<1>9. CASE StitchFrames
  <2>1. /\ step = "stitch" /\ UNCHANGED <<seq, step, fitVars, model, fitted>>
    BY <1>9 DEF StitchFrames, StitchNext, StitchRejects, StitchStart, PlaceFrame, Stitched
  <2>2. Judged /\ fit # "off"
    BY <2>1 DEF Order
  <2> HIDE DEF Judged
  <2> QED BY <1>1, <2>1, <2>2 DEF fitVars
<1>10. CASE StitchFailed \/ StitchDone \/ EncodeClip \/ ClipDone \/ FFmpeg \/ FFmpegDies
  <2>1. /\ UNCHANGED <<seq, fitVars, panoramaVars>>
        /\ step' \notin {"strip", "fit"} \/ step' = step
    BY <1>10 DEF StitchFailed, StitchDone, EncodeClip, ClipDone, FFmpeg, FFmpegDies, GiveUp
  <2>2. Judged' = Judged /\ (Judged => fit # "off")
    BY <2>1 DEF panoramaVars, OffsetsInv
  <2> HIDE DEF Judged
  <2> QED BY <1>1, <2>1, <2>2 DEF fitVars, panoramaVars
<1>11. CASE UNCHANGED vars
  <2>1. UNCHANGED <<seq, step, fitVars, panoramaVars>>
    BY <1>11 DEF vars
  <2>2. Judged' = Judged /\ (Judged => fit # "off")
    BY <2>1 DEF panoramaVars, OffsetsInv
  <2> HIDE DEF Judged
  <2> QED BY <1>1, <2>1, <2>2 DEF fitVars, panoramaVars
<1> QED BY <1>2, <1>3, <1>4, <1>5, <1>6, <1>7, <1>8, <1>9, <1>10, <1>11 DEF Next, Detector

-----------------------------------------------------------------------------
(* The panorama.                                                           *)

\* Where frame k is drawn.
FrameAt(k) == StartPos + RunningSum(dx_fit)[k - 1]

\* Column c shows the last of the frames drawn so far that cover it.
Shows(c) ==
  /\ img[c] # 0 => InFrame(c, FrameAt(img[c]))
  /\ \A k \in 1..i - 1 : img[c] < k => ~InFrame(c, FrameAt(k))

PlaceInv ==
  phase \in {"place", "done"} =>
    /\ Verdict = "place"
    /\ i \in 1..Len(dx_fit) + 1 /\ pos = FrameAt(i)
    /\ img \in [0..ImageWidth - 1 -> 0..i - 1]
    /\ \A c \in 0..ImageWidth - 1 : Shows(c)
    /\ phase = "done" => i = Len(dx_fit) + 1

\* Frames are moved in one direction only: where they are, and how wide the
\* image gets.
LEMMA Layout ==
  ASSUME dx_fit \in Seq(Int), Verdict = "place",
         NEW n, n = Len(dx_fit), NEW r, r = RunningSum(dx_fit)
  PROVE  /\ n \in Nat /\ r[0] = 0
         /\ \A k \in 0..n : r[k] \in Int
         /\ \A k \in 1..n : dx_fit[k] \in Int /\ r[k] = r[k - 1] + dx_fit[k]
         /\ \/ /\ W > 0 /\ ~Negative /\ StartPos = 0 /\ ImageWidth = r[n] + FrameWidth
               /\ \A j, k \in 0..n : j <= k => r[j] <= r[k]
            \/ /\ W < 0 /\ Negative /\ StartPos = -r[n] /\ ImageWidth = FrameWidth - r[n]
               /\ \A j, k \in 0..n : j <= k => r[k] <= r[j]
<1>1. n \in Nat /\ \A k \in 1..n : dx_fit[k] \in Int
  OBVIOUS
<1>2. r[0] = 0 /\ \A k \in 1..n : r[k] = r[k - 1] + dx_fit[k]
  BY <1>1, RunningSumDef
<1>3. \A k \in 0..n : r[k] \in Int
  BY RunningSumType
<1>4. FrameWidth \in Int /\ FrameWidth > 0 /\ Sum(dx_fit) = r[n]
  BY PanoramaAssumption DEF Sum
<1>5. CASE Negative
  <2> DEFINE f == [k \in 0..n |-> -r[k]]
  <2>1. \A k \in 0..n : f[k] \in Int
    BY <1>3
  <2>2. \A k \in 1..n : f[k - 1] <= f[k]
    <3> SUFFICES ASSUME NEW k \in 1..n PROVE f[k - 1] <= f[k]
      OBVIOUS
    <3>1. k \in 0..n /\ k - 1 \in 0..n
      BY <1>1
    <3>2. dx_fit[k] <= 0 /\ dx_fit[k] \in Int /\ r[k] = r[k - 1] + dx_fit[k]
      BY <1>1, <1>2, <1>5 DEF Negative
    <3> QED BY <1>3, <3>1, <3>2
  <2>3. \A j, k \in 0..n : j <= k => f[j] <= f[k]
    <3> HIDE DEF f
    <3> QED BY <1>1, <2>1, <2>2, Ascending
  <2>4. \A j, k \in 0..n : j <= k => r[k] <= r[j]
    BY <1>3, <2>3
  <2>5. r[n] <= 0 /\ r[n] \in Int
    BY <1>1, <1>2, <1>3, <2>4
  <2>6. W = r[n] - FrameWidth /\ W < 0
    BY <1>4, <1>5, <2>5 DEF W
  <2>7. StartPos = -r[n] /\ ImageWidth = FrameWidth - r[n]
    BY <1>4, <2>5, <2>6 DEF StartPos, ImageWidth
  <2> QED BY <1>1, <1>2, <1>3, <1>5, <2>4, <2>6, <2>7
<1>6. CASE ~Negative
  <2>0. Positive
    BY <1>6 DEF Verdict
  <2> DEFINE f == [k \in 0..n |-> r[k]]
  <2>1. \A k \in 0..n : f[k] \in Int
    BY <1>3
  <2>2. \A k \in 1..n : f[k - 1] <= f[k]
    <3> SUFFICES ASSUME NEW k \in 1..n PROVE f[k - 1] <= f[k]
      OBVIOUS
    <3>1. k \in 0..n /\ k - 1 \in 0..n
      BY <1>1
    <3>2. dx_fit[k] >= 0 /\ dx_fit[k] \in Int /\ r[k] = r[k - 1] + dx_fit[k]
      BY <1>1, <1>2, <2>0 DEF Positive
    <3> QED BY <1>3, <3>1, <3>2
  <2>3. \A j, k \in 0..n : j <= k => f[j] <= f[k]
    <3> HIDE DEF f
    <3> QED BY <1>1, <2>1, <2>2, Ascending
  <2>4. \A j, k \in 0..n : j <= k => r[j] <= r[k]
    BY <1>3, <2>3
  <2>5. r[n] >= 0 /\ r[n] \in Int
    BY <1>1, <1>2, <1>3, <2>4
  <2>6. W = r[n] + FrameWidth /\ W > 0
    BY <1>4, <1>6, <2>5 DEF W
  <2>7. StartPos = 0 /\ ImageWidth = r[n] + FrameWidth
    BY <1>4, <2>5, <2>6 DEF StartPos, ImageWidth
  <2> QED BY <1>1, <1>2, <1>3, <1>6, <2>4, <2>6, <2>7
<1> QED BY <1>5, <1>6

LEMMA StitchKeeps ==
  ASSUME OffsetsInv, PlaceInv, StitchFrames
  PROVE  PlaceInv'
<1>0. /\ dx_fit \in Seq(Int) /\ dx_fit' = dx_fit
      /\ StartPos' = StartPos /\ ImageWidth' = ImageWidth /\ Verdict' = Verdict
      /\ \A k : FrameAt(k)' = FrameAt(k)
  <2>1. dx_fit \in Seq(Int) /\ dx_fit' = dx_fit
    BY DEF OffsetsInv, StitchFrames, StitchNext, StitchRejects, StitchStart, PlaceFrame,
       Stitched, fitted
  <2>2. Negative' = Negative /\ Positive' = Positive
    BY <2>1 DEF Negative, Positive
  <2>3. W' = W
    BY <2>1, <2>2 DEF W
  <2>4. ImageWidth' = ImageWidth /\ StartPos' = StartPos
    BY <2>3 DEF ImageWidth, StartPos
  <2> QED BY <2>1, <2>2, <2>4 DEF Verdict, FrameAt
<1>1. PICK n, r : n = Len(dx_fit) /\ r = RunningSum(dx_fit)
  OBVIOUS
<1>2. CASE StitchRejects
  BY <1>2 DEF StitchRejects, PlaceInv, Verdict
<1>3. CASE StitchStart
  <2>1. /\ Verdict = "place" /\ phase' = "place" /\ i' = 1 /\ pos' = StartPos
        /\ img' = [c \in 0..ImageWidth - 1 |-> 0]
    BY <1>3 DEF StitchStart
  <2>2. n \in Nat /\ r[0] = 0 /\ StartPos \in Int
    <3>1. n \in Nat /\ r[0] = 0 /\ r[n] \in Int /\ (StartPos = 0 \/ StartPos = -r[n])
      BY <1>0, <1>1, <2>1, Layout
    <3> QED BY <3>1
  <2>3. FrameAt(1) = StartPos
    BY <1>1, <2>2 DEF FrameAt
  <2>4. \A c \in 0..ImageWidth - 1 : Shows(c)'
    BY <2>1 DEF Shows
  <2>5. img' \in [0..ImageWidth' - 1 -> 0..i' - 1]
    BY <1>0, <2>1
  <2>6. i' \in 1..Len(dx_fit') + 1 /\ pos' = FrameAt(i)'
    <3>1. pos' = FrameAt(1)'
      BY <1>0, <2>1, <2>3
    <3>2. pos' = FrameAt(i)'
      BY <2>1, <3>1 DEF FrameAt
    <3> QED BY <1>0, <1>1, <2>1, <2>2, <3>2
  <2> QED BY <1>0, <2>1, <2>4, <2>5, <2>6 DEF PlaceInv
<1>4. CASE PlaceFrame
  <2>1. PICK m \in 1..n : m = i
    BY <1>1, <1>4 DEF PlaceFrame, PlaceInv, OffsetsInv
  <2>2. /\ phase = "place" /\ phase' = "place" /\ i' = m + 1 /\ pos' = pos + dx_fit[m]
        /\ img' = [c \in DOMAIN img |-> IF InFrame(c, pos) THEN m ELSE img[c]]
        /\ Verdict = "place" /\ pos = FrameAt(m)
        /\ img \in [0..ImageWidth - 1 -> 0..m - 1]
        /\ \A c \in 0..ImageWidth - 1 : Shows(c)
    BY <1>4, <2>1 DEF PlaceFrame, Drawn, PlaceInv
  <2>3. n \in Nat /\ r[m] = r[m - 1] + dx_fit[m] /\ r[m - 1] \in Int /\ dx_fit[m] \in Int
        /\ StartPos \in Int /\ m \in Int
    <3>1. /\ n \in Nat /\ (\A k \in 0..n : r[k] \in Int)
          /\ (\A k \in 1..n : dx_fit[k] \in Int /\ r[k] = r[k - 1] + dx_fit[k])
          /\ StartPos = 0 \/ StartPos = -r[n]
      BY <1>0, <1>1, <2>2, Layout
    <3>2. m - 1 \in 0..n /\ n \in 0..n
      BY <3>1
    <3> QED BY <3>1, <3>2
  <2>4. pos' = FrameAt(m + 1)
    <3>1. FrameAt(m + 1) = StartPos + r[m] /\ FrameAt(m) = StartPos + r[m - 1]
      BY <1>1, <2>3 DEF FrameAt
    <3> QED BY <2>2, <2>3, <3>1
  <2>5. img' \in [0..ImageWidth - 1 -> 0..m]
    BY <2>2, <2>3
  <2>6. ASSUME NEW c \in 0..ImageWidth - 1 PROVE Shows(c)'
    <3>1. img'[c] = IF InFrame(c, FrameAt(m)) THEN m ELSE img[c]
      BY <2>2
    <3>2. Shows(c) /\ img[c] \in 0..m - 1
      BY <2>2
    <3>3. PICK x : x = img'[c]
      OBVIOUS
    <3>4. x # 0 => InFrame(c, FrameAt(x))
      BY <2>1, <3>1, <3>2, <3>3 DEF Shows
    <3>5. ASSUME NEW k \in 1..m, x < k PROVE ~InFrame(c, FrameAt(k))
      <4>1. CASE InFrame(c, FrameAt(m))
        BY <2>3, <3>1, <3>3, <3>5, <4>1
      <4>2. CASE ~InFrame(c, FrameAt(m))
        <5>1. x = img[c]
          BY <3>1, <3>3, <4>2
        <5>2. CASE k = m
          BY <4>2, <5>2
        <5>3. CASE k # m
          <6>1. k \in 1..i - 1 /\ img[c] < k
            BY <2>1, <2>3, <3>5, <5>1, <5>3
          <6> QED BY <3>2, <6>1 DEF Shows
        <5> QED BY <5>2, <5>3
      <4> QED BY <4>1, <4>2
    <3>6. i' - 1 = m
      BY <2>2, <2>3
    <3>7. img'[c] # 0 => InFrame(c, FrameAt(x)')
      BY <1>0, <3>3, <3>4
    <3>8. FrameAt(img[c])' = FrameAt(x)'
      BY <3>3 DEF FrameAt
    <3>9. \A k \in 1..i' - 1 : img'[c] < k => ~InFrame(c, FrameAt(k)')
      BY <1>0, <3>3, <3>5, <3>6
    <3> QED BY <3>7, <3>8, <3>9 DEF Shows, InFrame
  <2>7. i' \in 1..Len(dx_fit') + 1 /\ pos' = FrameAt(i)'
    <3>1. pos' = FrameAt(m + 1)'
      BY <1>0, <2>4
    <3>2. pos' = FrameAt(i)'
      BY <2>2, <3>1 DEF FrameAt
    <3> QED BY <1>0, <1>1, <2>1, <2>2, <2>3, <3>2
  <2>8. img' \in [0..ImageWidth' - 1 -> 0..i' - 1]
    <3>1. i' - 1 = m
      BY <2>2, <2>3
    <3> QED BY <1>0, <2>5, <3>1
  <2> QED BY <1>0, <2>2, <2>6, <2>7, <2>8 DEF PlaceInv
<1>5. CASE Stitched
  <2>1. /\ phase = "place" /\ phase' = "done" /\ UNCHANGED <<pos, i, img>> /\ i > Len(dx_fit)
        /\ i \in 1..Len(dx_fit) + 1 /\ pos = FrameAt(i)
        /\ img \in [0..ImageWidth - 1 -> 0..i - 1]
        /\ \A c \in 0..ImageWidth - 1 : Shows(c)
        /\ Verdict = "place"
    BY <1>5 DEF Stitched, PlaceInv, image
  <2>2. \A c : Shows(c)' <=> Shows(c)
    BY <1>0, <2>1 DEF Shows, FrameAt, InFrame
  <2>3. pos' = FrameAt(i)' /\ i' = Len(dx_fit') + 1
    <3>1. pos' = FrameAt(i)'
      BY <1>0, <2>1 DEF FrameAt
    <3> QED BY <1>0, <2>1, <3>1
  <2> QED BY <1>0, <2>1, <2>2, <2>3 DEF PlaceInv
<1> QED BY <1>2, <1>3, <1>4, <1>5 DEF StitchFrames, StitchNext

LEMMA NextPlace ==
  ASSUME Order, OffsetsInv, PlaceInv, [Next]_vars
  PROVE  PlaceInv'
<1>1. ASSUME UNCHANGED <<dx_fit, phase, image>> PROVE PlaceInv'
  <2>1. Negative' = Negative /\ Positive' = Positive /\ W' = W
    BY <1>1 DEF Negative, Positive, W
  <2>2. ImageWidth' = ImageWidth /\ StartPos' = StartPos /\ Verdict' = Verdict
    BY <1>1, <2>1 DEF ImageWidth, StartPos, Verdict
  <2>3. \A k : FrameAt(k)' = FrameAt(k)
    BY <1>1, <2>2 DEF FrameAt
  <2>4. pos' = FrameAt(i)' <=> pos = FrameAt(i)
    BY <1>1, <2>2 DEF FrameAt, image
  <2>5. \A c : Shows(c)' <=> Shows(c)
    BY <1>1, <2>2 DEF Shows, FrameAt, InFrame, image
  <2> QED BY <1>1, <2>2, <2>4, <2>5 DEF PlaceInv, image
<1>2. CASE FitAccepted \/ Offset \/ Judge
  <2>1. phase' \in {"off", "fit", "stitch"}
    BY <1>2 DEF FitAccepted, Offset, FitFrame, Judge, GiveUp, Order
  <2> QED BY <2>1 DEF PlaceInv
<1>3. CASE StitchFrames
  BY <1>3, StitchKeeps
<1>4. CASE Next /\ ~FitAccepted /\ ~Offset /\ ~Judge /\ ~StitchFrames
  <2>1. UNCHANGED <<dx_fit, phase, image>>
    BY <1>4 DEF Next, Detector, Strip, FitTooShort, FitStart, FitLine, FitFailed,
       FitPanicked, StitchFailed, StitchDone, EncodeClip, ClipDone, FFmpeg, FFmpegDies,
       GiveUp, panoramaVars, fitted
  <2> QED BY <1>1, <2>1
<1>5. CASE UNCHANGED vars
  BY <1>1, <1>5 DEF vars, panoramaVars, fitted
<1> QED BY <1>2, <1>3, <1>4, <1>5

LEMMA PlacedInside ==
  ASSUME dx_fit \in Seq(Int), PlaceInv
  PROVE  FramesInside
<1> SUFFICES ASSUME phase = "place", i <= Len(dx_fit)
             PROVE  0 <= pos /\ pos + FrameWidth <= ImageWidth
  BY DEF FramesInside
<1>1. PICK n, r : n = Len(dx_fit) /\ r = RunningSum(dx_fit)
  OBVIOUS
<1>2. i \in 1..n + 1 /\ i <= n /\ pos = StartPos + r[i - 1] /\ Verdict = "place"
  BY <1>1 DEF PlaceInv, FrameAt
<1>3. /\ n \in Nat /\ r[0] = 0 /\ \A k \in 0..n : r[k] \in Int
      /\ \/ /\ StartPos = 0 /\ ImageWidth = r[n] + FrameWidth
            /\ \A j, k \in 0..n : j <= k => r[j] <= r[k]
         \/ /\ StartPos = -r[n] /\ ImageWidth = FrameWidth - r[n]
            /\ \A j, k \in 0..n : j <= k => r[k] <= r[j]
  BY <1>1, <1>2, Layout
<1>4. 0 \in 0..n /\ i - 1 \in 0..n /\ n \in 0..n /\ 0 <= i - 1 /\ i - 1 <= n
  BY <1>2, <1>3
<1>5. FrameWidth \in Int
  BY PanoramaAssumption
<1>6. CASE /\ StartPos = 0 /\ ImageWidth = r[n] + FrameWidth
           /\ \A j, k \in 0..n : j <= k => r[j] <= r[k]
  <2>1. r[0] <= r[i - 1] /\ r[i - 1] <= r[n] /\ r[i - 1] \in Int /\ r[n] \in Int
    BY <1>3, <1>4, <1>6
  <2> QED BY <1>2, <1>3, <1>5, <1>6, <2>1
<1>7. CASE /\ StartPos = -r[n] /\ ImageWidth = FrameWidth - r[n]
           /\ \A j, k \in 0..n : j <= k => r[k] <= r[j]
  <2>1. PICK u, w : u = r[i - 1] /\ w = r[n]
    OBVIOUS
  <2>2. u <= 0 /\ w <= u /\ u \in Int /\ w \in Int
    BY <1>3, <1>4, <1>7, <2>1
  <2>3. pos = -w + u /\ ImageWidth = FrameWidth - w
    BY <1>2, <1>7, <2>1
  <2> QED BY <1>5, <2>2, <2>3
<1> QED BY <1>3, <1>6, <1>7

LEMMA PlacedInOrder ==
  ASSUME dx_fit \in Seq(Int), PlaceInv
  PROVE  FramesInTimeOrder
<1> SUFFICES ASSUME phase = "done", NEW c \in DOMAIN img, c + 1 \in DOMAIN img,
                    img[c] # 0, img[c + 1] # 0
             PROVE  IF W > 0 THEN img[c] <= img[c + 1] ELSE img[c] >= img[c + 1]
  BY DEF FramesInTimeOrder
<1>1. PICK n, r : n = Len(dx_fit) /\ r = RunningSum(dx_fit)
  OBVIOUS
<1>2. /\ n \in Nat /\ \A k \in 0..n : r[k] \in Int
      /\ \/ /\ W > 0 /\ StartPos = 0
            /\ \A j, k \in 0..n : j <= k => r[j] <= r[k]
         \/ /\ W < 0 /\ StartPos = -r[n] /\ ImageWidth = FrameWidth - r[n]
            /\ \A j, k \in 0..n : j <= k => r[k] <= r[j]
  BY <1>1, Layout DEF PlaceInv
<1>3. StartPos \in Int /\ FrameWidth \in Int
  <2>1. n \in 0..n
    BY <1>2
  <2> QED BY <1>2, <2>1, PanoramaAssumption
<1>4. PICK p, q : p = img[c] /\ q = img[c + 1]
  OBVIOUS
<1>5. /\ i = n + 1 /\ img \in [0..ImageWidth - 1 -> 0..n]
      /\ \A x \in 0..ImageWidth - 1 : Shows(x)
  <2>1. i = n + 1
    BY <1>1 DEF PlaceInv
  <2>2. i - 1 = n
    BY <1>2, <2>1
  <2>3. /\ img \in [0..ImageWidth - 1 -> 0..i - 1]
        /\ \A x \in 0..ImageWidth - 1 : Shows(x)
    BY DEF PlaceInv
  <2> QED BY <2>1, <2>2, <2>3
<1>6. /\ p \in 1..n /\ q \in 1..n /\ c \in Int /\ c \in 0..ImageWidth - 1
      /\ c + 1 \in 0..ImageWidth - 1
  <2>1. c \in 0..ImageWidth - 1 /\ c + 1 \in 0..ImageWidth - 1 /\ p \in 0..n /\ q \in 0..n
    BY <1>4, <1>5
  <2> QED BY <1>4, <2>1
<1>7. /\ InFrame(c, FrameAt(p)) /\ (p < q => ~InFrame(c, FrameAt(q)))
      /\ InFrame(c + 1, FrameAt(q)) /\ (q < p => ~InFrame(c + 1, FrameAt(p)))
  <2>1. Shows(c) /\ Shows(c + 1) /\ i - 1 = n
    BY <1>2, <1>5, <1>6
  <2> QED BY <1>4, <1>6, <2>1 DEF Shows
<1>8. PICK x, y : x = FrameAt(p) /\ y = FrameAt(q)
  OBVIOUS
<1>9. /\ x \in Int /\ y \in Int
      /\ W > 0 => (p <= q => x <= y) /\ (q <= p => y <= x)
      /\ ~(W > 0) => (p <= q => y <= x) /\ (q <= p => x <= y)
  <2>1. p - 1 \in 0..n /\ q - 1 \in 0..n
        /\ (p <= q => p - 1 <= q - 1) /\ (q <= p => q - 1 <= p - 1)
    BY <1>2, <1>6
  <2>2. PICK u, w : u = r[p - 1] /\ w = r[q - 1]
    OBVIOUS
  <2>3. /\ u \in Int /\ w \in Int
        /\ W > 0 => (p <= q => u <= w) /\ (q <= p => w <= u)
        /\ ~(W > 0) => (p <= q => w <= u) /\ (q <= p => u <= w)
    <3>1. CASE W > 0
      <4>1. \A j, k \in 0..n : j <= k => r[j] <= r[k]
        <5>1. ~(W < 0)
          <6>1. W \in Int
            BY <1>1, <1>2, RunningSumType, PanoramaAssumption DEF W, Sum
          <6> QED BY <3>1, <6>1
        <5> QED BY <1>2, <5>1
      <4> QED BY <1>2, <2>1, <2>2, <3>1, <4>1
    <3>2. CASE ~(W > 0)
      BY <1>2, <2>1, <2>2, <3>2
    <3> QED BY <3>1, <3>2
  <2>4. x = StartPos + u /\ y = StartPos + w
    BY <1>1, <1>8, <2>2 DEF FrameAt
  <2> QED BY <1>3, <2>3, <2>4
<1>10. /\ x <= c /\ c < x + FrameWidth /\ y <= c + 1 /\ c + 1 < y + FrameWidth
       /\ p < q => ~(y <= c /\ c < y + FrameWidth)
       /\ q < p => ~(x <= c + 1 /\ c + 1 < x + FrameWidth)
  BY <1>7, <1>8 DEF InFrame
<1>11. CASE W > 0
  <2>1. p <= q
    BY <1>3, <1>6, <1>9, <1>10, <1>11
  <2> QED BY <1>4, <1>11, <2>1
<1>12. CASE ~(W > 0)
  <2>1. p >= q
    BY <1>3, <1>6, <1>9, <1>10, <1>12
  <2> QED BY <1>4, <1>12, <2>1
<1> QED BY <1>11, <1>12

-----------------------------------------------------------------------------
(* What is recorded of a train.                                            *)

\* Of a line that is at speed -d or less at some time m, no earlier than the
\* first frame, at g: what it does before g, and after m.
LEMMA SlowingLine ==
  ASSUME NEW v \in Int, NEW b \in Int, NEW d \in Int, NEW g \in Int, NEW m \in Int,
         d > 0, g >= 1, m >= g, v + b * m <= -d, b >= 0
  PROVE  2 * v * g + b * g * g + 2 * d <= 0
<1> DEFINE s == v + b * g
<1>1. b * g <= b * m
  <2> DEFINE z == m - g
  <2>1. z \in Int /\ z >= 0
    OBVIOUS
  <2> HIDE DEF z
  <2>2. b * z >= 0
    BY <2>1
  <2>3. b * z = b * m - b * g
    BY DEF z
  <2> DEFINE x == b * m
             y == b * g
  <2>4. x \in Int /\ y \in Int /\ x - y >= 0
    BY <2>2, <2>3
  <2> HIDE DEF x, y
  <2> QED BY <2>4 DEF x, y
<1>2. b * g >= 0 /\ b * g \in Int /\ b * m \in Int
  BY g >= 0
<1> DEFINE x == b * m
           y == b * g
<1>3. v + y <= -d /\ v <= -d
  <2> HIDE DEF x, y
  <2> QED BY <1>1, <1>2 DEF x, y
<1>4. 2 * v * g + b * g * g = (v + (v + y)) * g
  OBVIOUS
<1> DEFINE w == -(v + (v + y)) - 2 * d
<1>5. w \in Int /\ w >= 0
  <2> HIDE DEF y
  <2> QED BY <1>2, <1>3 DEF y
<1>6. (v + (v + y)) * g = -(w * g) - 2 * (d * g)
  <2> HIDE DEF y
  <2> QED BY <1>2 DEF y
<1> HIDE DEF w, y
<1>7. w * g >= 0 /\ w * g \in Int
  BY <1>5
<1>8. d * g >= d
  <2> DEFINE h == g - 1
  <2>1. h \in Int /\ h >= 0 /\ g = h + 1
    OBVIOUS
  <2> HIDE DEF h
  <2>2. d * h >= 0 /\ d * h \in Int
    BY <2>1
  <2>3. d * (h + 1) = d * h + d
    BY <2>1
  <2> DEFINE z == d * h
  <2> HIDE DEF z
  <2> QED BY <2>1, <2>2, <2>3 DEF z
<1> DEFINE p == w * g
           q == d * g
           r == 2 * v * g + b * g * g
<1>9. p \in Int /\ p >= 0 /\ q \in Int /\ q >= d /\ r = -p - 2 * q
  BY <1>4, <1>6, <1>7, <1>8
<1> HIDE DEF p, q, r
<1> QED BY <1>9 DEF r

LEMMA BrakingLine ==
  ASSUME NEW v \in Int, NEW b \in Int, NEW d \in Int, NEW m \in Int, NEW x \in Int,
         NEW y \in Int, d > 0, x >= m, y >= x + 1, v + b * m <= -d, b <= 0
  PROVE  (2 * v * y + b * y * y) + 2 * d <= 2 * v * x + b * x * x
<1> DEFINE c == -b
           h == y - x
           e == (x - m) + (y - m)
           s == -(v + b * m) - d
<1>1. c \in Int /\ c >= 0 /\ h \in Int /\ h >= 1 /\ e \in Int /\ e >= 0 /\ y = x + h
      /\ b = -c
  OBVIOUS
<1>2. s \in Int /\ s >= 0
  <2> DEFINE z == b * m
  <2>1. z \in Int
    OBVIOUS
  <2> HIDE DEF z
  <2> QED BY <2>1 DEF z
<1>3. (2 * v * x + b * x * x) - (2 * v * y + b * y * y) = h * (2 * s + 2 * d + c * e)
  OBVIOUS
<1> HIDE DEF c, h, e, s
<1>4. c * e >= 0 /\ c * e \in Int
  BY <1>1
<1> DEFINE z == 2 * s + c * e
<1>5. z \in Int /\ z >= 0
  <2> DEFINE w == c * e
  <2> HIDE DEF w
  <2> QED BY <1>2, <1>4 DEF w
<1>6. h * (2 * s + 2 * d + c * e) = h * z + 2 * (h * d)
  BY <1>1, <1>2, <1>4
<1> HIDE DEF z
<1>7. h * z >= 0 /\ h * z \in Int
  BY <1>1, <1>5
<1>8. h * d >= d /\ h * d \in Int
  <2> DEFINE k == h - 1
  <2>1. k \in Int /\ k >= 0 /\ h = k + 1
    BY <1>1
  <2> HIDE DEF k
  <2>2. k * d >= 0 /\ k * d \in Int
    BY <2>1
  <2>3. (k + 1) * d = k * d + d
    BY <2>1
  <2> DEFINE u == k * d
  <2> HIDE DEF u
  <2> QED BY <2>1, <2>2, <2>3 DEF u
<1> DEFINE p == 2 * v * x + b * x * x
           q == 2 * v * y + b * y * y
           u == h * z
           w == h * d
<1>9. p \in Int /\ q \in Int /\ u \in Int /\ w \in Int /\ u >= 0 /\ w >= d
      /\ p - q = u + 2 * w
  BY <1>3, <1>6, <1>7, <1>8
<1> HIDE DEF p, q, u, w
<1> QED BY <1>9 DEF p, q

\* A train that was at speed at the middle frame has at least one offset in
\* that direction: its first one if it got slower since, or the one after the
\* middle if it did not.
LEMMA SomeOffset ==
  ASSUME SeqOK, OffsetsInv, Len(dx_fit) = Count, Count >= 3, ~TooSlow,
         MidTime >= Time(1)
  PROVE  /\ MidSpeed \in Int
         /\ \/ MidSpeed > 0 /\ (\E k \in 1..Count : dx_fit[k] > 0)
            \/ MidSpeed < 0 /\ (\E k \in 1..Count : dx_fit[k] < 0)
<1>1. PICK c : c = Count \div 2 + 1
  OBVIOUS
<1>2. c \in 1..Count /\ c + 1 \in 1..Count /\ (c + 1) - 1 = c /\ 1 \in 1..Count /\ 1 - 1 = 0
  <2>1. Count \in Nat
    BY TimeFacts
  <2>2. c \in Int /\ 1 <= c /\ c + 1 <= Count
    BY <1>1, <2>1
  <2> QED BY <2>1, <2>2
<1>3. PICK g, x, y, m : g = Time(1) /\ x = Time(c) /\ y = Time(c + 1) /\ m = MidTime
  OBVIOUS
<1>4. /\ g \in Int /\ x \in Int /\ y \in Int /\ m \in Int /\ m >= g /\ m = x - g
      /\ g >= 1 /\ x >= m /\ y >= x + 1 /\ Time(0) = 0
  <2>1. /\ g = Time(0) + seq.gaps[1] /\ y = x + seq.gaps[c + 1] /\ Time(0) = 0
        /\ seq.gaps[1] \in Nat \ {0} /\ seq.gaps[c + 1] \in Nat \ {0}
    BY <1>2, <1>3, TimeFacts
  <2>2. g \in Int /\ x \in Int /\ y \in Int
    <3>1. 1 \in 0..Count /\ c \in 0..Count /\ c + 1 \in 0..Count
      BY <1>2, TimeFacts
    <3> QED BY <1>3, <3>1, TimeFacts
  <2>3. m = x - g
    BY <1>1, <1>3 DEF MidTime
  <2> QED BY <1>3, <2>1, <2>2, <2>3
<1>5. v0 \in Int /\ a \in Int /\ den \in Int /\ den > 0
  BY DEF OffsetsInv
<1>6. PICK s \in Int : s = MidSpeed /\ s = v0 + a * m
  BY <1>3, <1>4, <1>5 DEF MidSpeed
<1>7. s >= den \/ s <= -den
  <2>1. MinSpeed \in Int /\ MinSpeed >= 1
    BY FitAndStitchAssumption
  <2>2. den * MinSpeed >= den
    <3> DEFINE k == MinSpeed - 1
    <3>1. k \in Int /\ k >= 0 /\ MinSpeed = k + 1
      BY <2>1
    <3> HIDE DEF k
    <3>2. den * k >= 0 /\ den * k \in Int
      BY <1>5, <3>1
    <3>3. den * (k + 1) = den * k + den
      BY <1>5, <3>1
    <3> QED BY <1>5, <3>1, <3>2, <3>3
  <2>3. Magnitude(s) >= den * MinSpeed
    <3>1. den * MinSpeed \in Int /\ Magnitude(s) \in Int
      BY <1>5, <1>6, <2>1 DEF Magnitude
    <3> QED BY <1>6, <3>1 DEF TooSlow
  <2> DEFINE w == den * MinSpeed
  <2>4. w \in Int
    BY <1>5, <2>1
  <2> HIDE DEF w
  <2> QED BY <1>5, <1>6, <2>2, <2>3, <2>4 DEF Magnitude, w
<1>8. PICK d \in Int : d = 2 * den /\ d > 0
  BY <1>5
<1>9. PICK p0, p1, px, py :
        /\ p0 = Position2(Time(0)) /\ p1 = Position2(g)
        /\ px = Position2(x) /\ py = Position2(y)
  OBVIOUS
<1>10. /\ p0 = 0 /\ p1 = 2 * v0 * g + a * g * g
       /\ px = 2 * v0 * x + a * x * x /\ py = 2 * v0 * y + a * y * y
       /\ p1 \in Int /\ px \in Int /\ py \in Int
  BY <1>4, <1>5, <1>9 DEF Position2
<1>11. /\ Round(p0, d) \in Int /\ Round(p1, d) \in Int /\ Round(px, d) \in Int
       /\ Round(py, d) \in Int
  BY <1>8, <1>10, RoundFacts
<1>12. /\ dx_fit[1] = Round(p1, d) - Round(p0, d)
       /\ dx_fit[c + 1] = Round(py, d) - Round(px, d)
  <2>1. dx_fit[1] = X(1) - X(0) /\ dx_fit[c + 1] = X(c + 1) - X(c)
    BY <1>2 DEF OffsetsInv
  <2> QED BY <1>3, <1>8, <1>9, <2>1 DEF X
<1>13. CASE s <= -den
  <2>1. CASE a >= 0
    <3>1. 2 * v0 * g + a * g * g + 2 * den <= 0
      BY <1>4, <1>5, <1>6, <1>13, <2>1, SlowingLine
    <3>2. p1 + d <= p0
      BY <1>8, <1>10, <3>1
    <3>3. Round(p1, d) + 1 <= Round(p0, d)
      BY <1>8, <1>10, <3>2, RoundApart
    <3>4. dx_fit[1] < 0
      BY <1>11, <1>12, <3>3
    <3> QED BY <1>2, <1>5, <1>6, <1>13, <3>4
  <2>2. CASE a <= 0
    <3>1. (2 * v0 * y + a * y * y) + 2 * den <= 2 * v0 * x + a * x * x
      BY <1>4, <1>5, <1>6, <1>13, <2>2, BrakingLine
    <3>2. py + d <= px
      BY <1>8, <1>10, <3>1
    <3>3. Round(py, d) + 1 <= Round(px, d)
      BY <1>8, <1>10, <3>2, RoundApart
    <3>4. dx_fit[c + 1] < 0
      BY <1>11, <1>12, <3>3
    <3> QED BY <1>2, <1>5, <1>6, <1>13, <3>4
  <2> QED BY <1>5, <2>1, <2>2
<1>14. CASE s >= den
  <2>0. PICK v, b : v = -v0 /\ b = -a
    OBVIOUS
  <2>1. /\ v \in Int /\ b \in Int
        /\ 2 * v * g + b * g * g = -p1 /\ 2 * v * x + b * x * x = -px
        /\ 2 * v * y + b * y * y = -py
    BY <1>4, <1>5, <1>10, <2>0
  <2>2. v + b * m <= -den
    <3>1. v + b * m = -s
      BY <1>4, <1>5, <1>6, <2>0
    <3> QED BY <1>5, <1>14, <3>1
  <2>3. CASE b >= 0
    <3>1. 2 * v * g + b * g * g + 2 * den <= 0
      BY <1>4, <1>5, <2>1, <2>2, <2>3, SlowingLine
    <3>2. p0 + d <= p1
      BY <1>8, <1>10, <2>1, <3>1
    <3>3. Round(p0, d) + 1 <= Round(p1, d)
      BY <1>8, <1>10, <3>2, RoundApart
    <3>4. dx_fit[1] > 0
      BY <1>11, <1>12, <3>3
    <3> QED BY <1>2, <1>5, <1>6, <1>14, <3>4
  <2>4. CASE b <= 0
    <3>1. (2 * v * y + b * y * y) + 2 * den <= 2 * v * x + b * x * x
      BY <1>4, <1>5, <2>1, <2>2, <2>4, BrakingLine
    <3>2. px + d <= py
      BY <1>8, <1>10, <2>1, <3>1
    <3>3. Round(px, d) + 1 <= Round(py, d)
      BY <1>8, <1>10, <3>2, RoundApart
    <3>4. dx_fit[c + 1] > 0
      BY <1>11, <1>12, <3>3
    <3> QED BY <1>2, <1>5, <1>6, <1>14, <3>4
  <2> QED BY <2>1, <2>3, <2>4
<1> QED BY <1>6, <1>7, <1>13, <1>14

LEMMA Recorded ==
  ASSUME SeqOK, Order, FitInv, OffsetsInv, PlaceInv
  PROVE  RecordMatchesImage
<1> SUFFICES ASSUME phase \in {"place", "done"}
             PROVE  LengthMatchesImage /\ SpeedMatchesImage
  BY DEF RecordMatchesImage, Stitching
<1>1. /\ fit # "off" /\ Len(dx_fit) = Count /\ ~TooShort /\ ~TooSlow
      /\ dx_fit \in Seq(Int) /\ v0 \in Int /\ a \in Int /\ den \in Int /\ den > 0
      /\ \A k \in 1..Len(dx_fit) : dx_fit[k] = X(k) - X(k - 1)
  BY DEF OffsetsInv, StitchResults
<1>2. Count >= 3 /\ samples[Len(samples)].t = Time(Count) /\ Count \in Nat
  BY <1>1, SamplesAre, TimeFacts
<1>3. Verdict = "place"
  BY DEF PlaceInv
<1>4. PICK n, r : n = Len(dx_fit) /\ r = RunningSum(dx_fit)
  OBVIOUS
<1>5. /\ n \in Nat /\ r[0] = 0
      /\ \A k \in 0..n : r[k] \in Int
      /\ \/ /\ W > 0 /\ ~Negative /\ ImageWidth = r[n] + FrameWidth
            /\ \A j, k \in 0..n : j <= k => r[j] <= r[k]
         \/ /\ W < 0 /\ Negative /\ ImageWidth = FrameWidth - r[n]
            /\ \A j, k \in 0..n : j <= k => r[k] <= r[j]
  BY <1>1, <1>3, <1>4, Layout
<1>6. SpeedMatchesImage
  <2> SUFFICES ASSUME MidTime >= Time(1) PROVE MidSpeed > 0 <=> W > 0
    BY DEF SpeedMatchesImage
  <2>1. /\ MidSpeed \in Int
        /\ \/ MidSpeed > 0 /\ (\E k \in 1..Count : dx_fit[k] > 0)
           \/ MidSpeed < 0 /\ (\E k \in 1..Count : dx_fit[k] < 0)
    BY <1>1, <1>2, SomeOffset
  <2>2. \A k \in 1..Count : dx_fit[k] \in Int
    BY <1>1
  <2>3. W \in Int
    <3>1. n \in 0..n
      BY <1>5
    <3> QED BY <1>4, <1>5, <3>1, PanoramaAssumption DEF W, Sum
  <2>4. CASE MidSpeed > 0
    <3>1. PICK k \in 1..Count : dx_fit[k] > 0
      BY <2>1, <2>4
    <3>2. ~Negative
      BY <1>1, <2>2, <3>1 DEF Negative
    <3> QED BY <1>5, <2>4, <3>2
  <2>5. CASE MidSpeed < 0
    <3>1. PICK k \in 1..Count : dx_fit[k] < 0
      BY <2>1, <2>5
    <3>2. ~Positive
      BY <1>1, <2>2, <3>1 DEF Positive
    <3>3. Negative
      BY <1>3, <3>2 DEF Verdict
    <3> QED BY <1>5, <2>1, <2>3, <2>5, <3>3
  <2> QED BY <2>1, <2>4, <2>5
<1>7. LengthMatchesImage
  <2>1. PICK p, R : p = Position2(Time(Count)) /\ R = r[n]
    OBVIOUS
  <2>2. p \in Int /\ Length2 = Magnitude(p)
    <3>1. Count \in 0..Count
      BY <1>2
    <3> QED BY <1>1, <1>2, <2>1, <3>1, TimeFacts, PositionType DEF Length2
  <2>3. R = Round(p, 2 * den)
    <3>1. PICK f : f = [k \in 0..n |-> X(k)]
      OBVIOUS
    <3>2. ASSUME NEW k \in 0..n PROVE f[k] \in Int
      <4>1. Time(k) \in Int
        BY <1>1, <1>4, <3>2, TimeFacts
      <4> QED BY <1>1, <3>1, <4>1, PositionType DEF X
    <3>3. \A k \in 1..n : dx_fit[k] = f[k] - f[k - 1]
      <4> SUFFICES ASSUME NEW k \in 1..n PROVE dx_fit[k] = f[k] - f[k - 1]
        OBVIOUS
      <4>1. k \in 0..n /\ k - 1 \in 0..n
        BY <1>5
      <4> QED BY <1>1, <1>4, <3>1, <4>1
    <3>4. \A k \in 0..n : r[k] = f[k] - f[0]
      BY <1>4, <1>5, <3>2, <3>3, Telescope
    <3>5. n \in 0..n /\ 0 \in 0..n
      BY <1>5
    <3>6. X(0) = 0
      <4>1. Position2(Time(0)) = 0
        BY <1>1, TimeFacts DEF Position2
      <4> QED BY <1>1, <4>1, RoundZero DEF X
    <3> QED BY <1>1, <1>4, <2>1, <3>1, <3>2, <3>4, <3>5, <3>6 DEF X
  <2>4. PICK d \in Int : d = 2 * den /\ d > 0
    BY <1>1
  <2>5. /\ R \in Int
        /\ p >= 0 => R >= 0 /\ 2 * (R * d) <= 2 * p + d /\ 2 * p < 2 * (R * d) + d
        /\ p <= 0 => R <= 0 /\ 2 * (R * d) < 2 * p + d /\ 2 * p <= 2 * (R * d) + d
    BY <2>2, <2>3, <2>4, RoundFacts
  <2>6. ImageWidth - FrameWidth = Magnitude(R)
    <3>1. n \in 0..n /\ 0 \in 0..n /\ 0 <= n
      BY <1>5
    <3>2. \/ R >= 0 /\ ImageWidth = R + FrameWidth
          \/ R <= 0 /\ ImageWidth = FrameWidth - R
      BY <1>5, <2>1, <3>1
    <3> QED BY <2>5, <3>2, PanoramaAssumption DEF Magnitude
  <2>7. PICK u \in Int : u = R * d
    BY <2>4, <2>5
  <2>8. 2 * den * Magnitude(R) = IF R < 0 THEN -u ELSE u
    BY <1>1, <2>4, <2>5, <2>7 DEF Magnitude
  <2>9. (R = 0 => u = 0)
    BY <2>4, <2>7
  <2>10. 2 * den * Magnitude(R) - Magnitude(p) \in -den..den
    BY <1>1, <2>2, <2>4, <2>5, <2>7, <2>8, <2>9 DEF Magnitude
  <2>11. PICK e \in Int : e = 2 * den * Magnitude(R) - Magnitude(p)
    BY <2>10
  <2>12. Magnitude(e) <= den
    BY <1>1, <2>10, <2>11 DEF Magnitude
  <2> QED BY <2>2, <2>6, <2>11, <2>12 DEF LengthMatchesImage
<1> QED BY <1>6, <1>7

-----------------------------------------------------------------------------
(* The theorems.                                                           *)

\* What the proofs below are about: all parts at once, as they rely on each
\* other.
IInv == SeqOK /\ Order /\ ClipInv /\ FitInv /\ SpeedInv /\ OffsetsInv /\ PlaceInv

LEMMA Initially == Init => IInv
<1> SUFFICES ASSUME Init PROVE IInv
  OBVIOUS
<1>1. SeqOK /\ Order
  BY InitOrder
<1>2. ClipInv
  BY DEF Init, ClipInv
<1>3. FitInv /\ SpeedInv
  BY DEF Init, FitInv, SpeedInv
<1>4. OffsetsInv
  <2>1. /\ v0 = 0 /\ a = 0 /\ den = 1 /\ t = 0 /\ prev_x = 0 /\ dx_fit = <<>>
        /\ step = "strip" /\ phase = "off"
    BY DEF Init
  <2>2. Count \in Nat /\ Time(0) = 0 /\ Len(<<>>) = 0
    BY <1>1, TimeFacts
  <2>3. Position2(0) = 0
    BY <2>1 DEF Position2
  <2>4. X(0) = 0
    BY <2>1, <2>2, <2>3, RoundZero DEF X
  <2> QED BY <2>1, <2>2, <2>4 DEF OffsetsInv, StitchResults
<1>5. PlaceInv
  BY DEF Init, PlaceInv
<1> QED BY <1>1, <1>2, <1>3, <1>4, <1>5 DEF IInv

\* Every reachable state satisfies the invariant.
LEMMA Invariant == Spec => []IInv
<1>1. IInv /\ [Next]_vars => IInv'
  BY NextOrder, NextClip, NextFit, NextSpeed, NextOffsets, NextPlace DEF IInv
<1> QED BY Initially, <1>1, PTL DEF Spec

\* ClipWhole holds for every pipe and every clip: the detector closes its end
\* only behind the last frame, and ffmpeg ends well only at the end of its
\* input.
THEOREM ClipIsWhole == Spec => []ClipWhole
<1>1. IInv => ClipWhole
  BY DEF IInv, ClipInv, ClipWhole, Units
<1> QED BY <1>1, Invariant, PTL

\* FitSupported holds for every sequence, threshold and number of rounds: a
\* least-squares line is no farther from the samples it was fitted to than the
\* line that chose them.
THEOREM FitIsSupported == Spec => []FitSupported
<1>1. IInv => FitSupported
  BY Zenon DEF IInv, FitInv, FitSupported, Supported
<1> QED BY <1>1, Invariant, PTL

\* OutliersIgnored holds for every sequence and threshold: the seed is the
\* median, its inliers are the majority, and so in every round.
THEOREM OutliersAreIgnored == Spec => []OutliersIgnored
<1>1. IInv => OutliersIgnored
  BY DEF IInv, SpeedInv, OutliersIgnored, Majority, At, Flat
<1> QED BY <1>1, Invariant, PTL

\* FramesPlaced holds for every sequence and width: frames stay inside of the
\* image and follow each other in time across it.
THEOREM FramesArePlaced == Spec => []FramesPlaced
<1>1. IInv => FramesPlaced
  BY PlacedInside, PlacedInOrder DEF IInv, OffsetsInv, FramesPlaced
<1> QED BY <1>1, Invariant, PTL

\* RecordMatchesImage holds for every sequence: its length and its direction
\* are those of the image.
THEOREM RecordIsOfImage == Spec => []RecordMatchesImage
<1>1. IInv => RecordMatchesImage
  BY Recorded DEF IInv
<1> QED BY <1>1, Invariant, PTL
=============================================================================
