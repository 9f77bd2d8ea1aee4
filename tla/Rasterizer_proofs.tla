------------------------- MODULE Rasterizer_proofs -------------------------
(***************************************************************************)
(* Proofs about module Rasterizer, for every sequence of views, number of  *)
(* threadgroups and size of queue, and for any host calls between frames.  *)
(*                                                                         *)
(* The argument follows a fragment through a frame.  As long as its item   *)
(* is still to be claimed, to be shaded or queued, nobody has drawn it or  *)
(* dropped it; after that, the pixel holds it or something nearer, or it is*)
(* among the lost (DrawInv, OnceInv).  Culling leaves out what is behind   *)
(* the depths it read (LeftOutInv), and the mask it leaves is good for     *)
(* another frame of the view, as whatever it leaves out is behind a        *)
(* fragment of what it keeps (MaskInv).                                    *)
(***************************************************************************)
EXTENDS Rasterizer, FiniteSetTheorems, TLAPS

-----------------------------------------------------------------------------
(* Naturals, without the library's induction theorem: a set of naturals that is*)
(* not all of them lacks a least one.                                      *)

\* A set of naturals has a least member: the strict subsets of finite sets are
\* well founded.
LEMMA Least ==
  ASSUME NEW S, S \subseteq Nat, S # {}
  PROVE  \E m \in S : \A k \in S : m <= k
<1> DEFINE R == StrictSubsetOrdering(Nat)
           F == FiniteSubsetsOf(Nat)
           T == {0..k : k \in S}
<1>1. IsWellFoundedOn(R, F)
  BY FS_StrictSubsetOrderingWellFounded
<1>2. T \subseteq F /\ T # {}
  <2>1. \A k \in S : IsFiniteSet(0..k) /\ 0..k \subseteq Nat
    BY FS_Interval
  <2> QED BY <2>1 DEF FiniteSubsetsOf
<1>3. \E x \in T : \A y \in T : ~ (<<y, x>> \in R)
  <2> HIDE DEF R, F, T
  <2> QED BY <1>1, <1>2, WFMin
<1>4. PICK m \in S : \A k \in S : <<0..k, 0..m>> \notin R
  BY <1>3
<1>5. ASSUME NEW k \in S, k < m PROVE FALSE
  <2>1. 0..k \subseteq 0..m /\ 0..k # 0..m /\ 0..k \subseteq Nat /\ 0..m \subseteq Nat
    <3>1. m \in 0..m /\ m \notin 0..k
      BY <1>5
    <3> QED BY <1>5, <3>1
  <2> QED BY <2>1, <1>4 DEF StrictSubsetOrdering
<1> QED BY <1>5

\* Induction, as a statement about sets.
LEMMA Induction ==
  ASSUME NEW S, 0 \in S, \A n \in Nat : n \in S => n + 1 \in S
  PROVE  Nat \subseteq S
<1> SUFFICES ASSUME Nat \ S # {} PROVE FALSE
  OBVIOUS
<1>1. PICK m \in Nat \ S : \A k \in Nat \ S : m <= k
  BY Least
<1>2. m # 0 /\ m - 1 \in Nat
  BY <1>1
<1>3. m - 1 \in S
  BY <1>1, <1>2
<1> QED BY <1>1, <1>2, <1>3

\* The recursion of Pow2 is that of its definition.
LEMMA PowersOfTwo ==
  /\ Pow2 \in [Nat -> Nat \ {0}] /\ Pow2[0] = 1
  /\ \A n \in Nat : Pow2[n + 1] = 2 * Pow2[n]
<1> DEFINE Begins(g, n) == /\ g \in [0..n -> Nat \ {0}]
                           /\ \A k \in 0..n : g[k] = IF k = 0 THEN 1 ELSE 2 * g[k - 1]
           S == {n \in Nat : \E g : Begins(g, n)}
           G(n) == CHOOSE g : Begins(g, n)
           f == [n \in Nat |-> G(n)[n]]
<1>1. 0 \in S
  <2>1. Begins([k \in 0..0 |-> 1], 0)
    OBVIOUS
  <2> QED BY <2>1
<1>2. ASSUME NEW n \in Nat, n \in S PROVE n + 1 \in S
  <2>1. PICK g : Begins(g, n)
    BY <1>2
  <2> DEFINE h == [k \in 0..(n + 1) |-> IF k = n + 1 THEN 2 * g[n] ELSE g[k]]
  <2>2. Begins(h, n + 1)
    BY <2>1
  <2> HIDE DEF h, Begins
  <2> QED BY <2>2
<1>3. ASSUME NEW n \in Nat PROVE Begins(G(n), n)
  <2>1. n \in S
    <3> HIDE DEF S
    <3> QED BY <1>1, <1>2, Induction
  <2> QED BY <2>1
<1>4. ASSUME NEW n \in Nat, NEW g, NEW h, Begins(g, n), Begins(h, n + 1) PROVE g[n] = h[n]
  <2> DEFINE A == {k \in Nat : k <= n => g[k] = h[k]}
  <2>1. 0 \in A
    BY <1>4
  <2>2. ASSUME NEW k \in Nat, k \in A PROVE k + 1 \in A
    <3> SUFFICES ASSUME k + 1 <= n PROVE g[k + 1] = h[k + 1]
      OBVIOUS
    <3>1. g[k + 1] = 2 * g[k] /\ h[k + 1] = 2 * h[k]
      BY <1>4
    <3> QED BY <2>2, <3>1
  <2>3. n \in A
    <3> HIDE DEF A
    <3> QED BY <2>1, <2>2, Induction
  <2> QED BY <2>3
<1>5. f = [n \in Nat |-> IF n = 0 THEN 1 ELSE 2 * f[n - 1]]
  <2>1. ASSUME NEW n \in Nat PROVE f[n] = IF n = 0 THEN 1 ELSE 2 * f[n - 1]
    <3>1. G(n)[n] = IF n = 0 THEN 1 ELSE 2 * G(n)[n - 1]
      <4> HIDE DEF G
      <4> QED BY <1>3
    <3>2. CASE n # 0
      <4>1. G(n - 1)[n - 1] = G(n)[n - 1]
        <5>1. n - 1 \in Nat /\ (n - 1) + 1 = n
          BY <3>2
        <5>2. Begins(G(n - 1), n - 1) /\ Begins(G(n), n)
          BY <1>3, <5>1
        <5> HIDE DEF Begins, G
        <5> QED BY <1>4, <5>1, <5>2
      <4> HIDE DEF G
      <4> QED BY <3>1, <3>2, <4>1
    <3> HIDE DEF G
    <3> QED BY <3>1, <3>2
  <2> HIDE DEF G
  <2> QED BY <2>1
<1>6. Pow2 = [n \in Nat |-> IF n = 0 THEN 1 ELSE 2 * Pow2[n - 1]]
  <2> HIDE DEF f
  <2> QED BY <1>5 DEF Pow2
<1>7. Pow2[0] = 1 /\ \A n \in Nat : Pow2[n + 1] = 2 * Pow2[n]
  BY <1>6
<1>8. \A n \in Nat : Pow2[n] \in Nat \ {0}
  <2> DEFINE P == {n \in Nat : Pow2[n] \in Nat \ {0}}
  <2>1. 0 \in P /\ \A n \in Nat : n \in P => n + 1 \in P
    BY <1>7
  <2>2. Nat \subseteq P
    <3> HIDE DEF P
    <3> QED BY <2>1, Induction
  <2> QED BY <2>2
<1> QED BY <1>6, <1>7, <1>8

\* A bounded set of naturals has a maximum, and Max is it.
LEMMA Greatest ==
  ASSUME NEW S, S \subseteq Nat, S # {}, NEW n \in Nat, \A k \in S : k <= n
  PROVE  Max(S) \in S /\ \A k \in S : k <= Max(S)
<1> DEFINE T == {n - k : k \in S}
<1>0. \A k \in S : k \in Nat /\ n - k \in Nat
  OBVIOUS
<1>1. T \subseteq Nat /\ T # {}
  BY <1>0
<1>2. PICK m \in T : \A k \in T : m <= k
  <2> HIDE DEF T
  <2> QED BY <1>1, Least
<1>3. PICK x \in S : m = n - x
  OBVIOUS
<1>4. \A y \in S : n - x <= n - y
  BY <1>2, <1>3
<1>5. \A y \in S : x >= y
  BY <1>0, <1>4
<1> QED BY <1>0, <1>5 DEF Max

\* Min is the least member.
LEMMA LeastIsMin ==
  ASSUME NEW S, S \subseteq Nat, S # {}
  PROVE  Min(S) \in S /\ \A k \in S : Min(S) <= k
<1>1. \E x \in S : \A y \in S : x <= y
  BY Least
<1> QED BY <1>1 DEF Min

\* Quotient and remainder are what they are written as.
LEMMA QuotientUnique ==
  ASSUME NEW b \in Nat \ {0}, NEW q \in Nat, NEW r \in 0..(b - 1)
  PROVE  (b * q + r) \div b = q /\ (b * q + r) % b = r
<1>1. r \in Nat /\ r < b /\ b \in Nat
  OBVIOUS
<1>2. (q * b + r) \div b = q /\ (q * b + r) % b = r
  BY <1>1
<1>3. q * b = b * q
  OBVIOUS
<1> QED BY <1>2, <1>3

\* What \div and % give.
LEMMA Quotient ==
  ASSUME NEW a \in Nat, NEW b \in Nat \ {0}
  PROVE  /\ a \div b \in Nat /\ a % b \in 0..(b - 1)
         /\ a = b * (a \div b) + (a % b)
OBVIOUS

\* \div keeps the order.
LEMMA QuotientGrows ==
  ASSUME NEW a \in Nat, NEW c \in Nat, a <= c, NEW b \in Nat \ {0}
  PROVE  a \div b <= c \div b
<1>1. b * (a \div b) <= a /\ c < b * (c \div b) + b /\ a \div b \in Nat /\ c \div b \in Nat
  BY Quotient
<1>2. ASSUME c \div b < a \div b PROVE FALSE
  <2> DEFINE x == a \div b
             y == c \div b
  <2>1. x \in Nat /\ y \in Nat /\ y + 1 <= x /\ b * x <= a /\ c < b * y + b
    BY <1>1, <1>2
  <2> HIDE DEF x, y
  <2>2. b * (y + 1) <= b * x
    BY <2>1
  <2>3. b * (y + 1) = b * y + b
    BY <2>1
  <2>4. b * x \in Nat /\ b * y \in Nat
    BY <2>1
  <2> QED BY <2>1, <2>2, <2>3, <2>4
<1> QED BY <1>1, <1>2

\* Powers of two grow past every number.
LEMMA PowersGrow == \A n \in Nat : n < Pow2[n]
<1> DEFINE S == {n \in Nat : n < Pow2[n]}
<1>1. 0 \in S
  BY PowersOfTwo
<1>2. ASSUME NEW n \in Nat, n \in S PROVE n + 1 \in S
  BY <1>2, PowersOfTwo
<1>3. Nat \subseteq S
  <2> HIDE DEF S
  <2> QED BY <1>1, <1>2, Induction
<1> QED BY <1>3

\* The number of levels is that of the bits of the width.
LEMMA MipsCounted == NumMips \in 1..W
<1> DEFINE S == {n \in Nat : W < Pow2[n]}
<1>1. W \in Nat \ {0} /\ W \in S
  BY ScreenAssumption, PowersGrow
<1>2. PICK n \in S : \A k \in S : n <= k
  <2>1. S \subseteq Nat /\ S # {}
    BY <1>1
  <2> HIDE DEF S
  <2> QED BY <2>1, Least
<1>3. n \in Nat \ {0} /\ n <= W
  BY <1>1, <1>2, PowersOfTwo
<1>4. n - 1 \in Nat /\ Pow2[n - 1] \in Nat /\ Pow2[n - 1] <= W
  BY <1>1, <1>2, <1>3, PowersOfTwo
<1>5. n \in 1..W /\ W < Pow2[n] /\ Pow2[n - 1] <= W
  BY <1>2, <1>3, <1>4
<1> QED BY <1>5 DEF NumMips

\* The level a box is tested at is one of the pyramid.
LEMMA LevelExists == ASSUME NEW r \in Int PROVE MipFor(r) \in 0..(NumMips - 1)
<1>1. ASSUME r > 1 PROVE CeilLog2(r) \in Nat \ {0}
  <2> DEFINE S == {n \in Nat : r <= Pow2[n]}
  <2>1. r \in Nat /\ r \in S
    BY <1>1, PowersGrow, PowersOfTwo
  <2>2. PICK k \in S : \A n \in S : k <= n
    <3>1. S \subseteq Nat /\ S # {}
      BY <2>1
    <3> HIDE DEF S
    <3> QED BY <3>1, Least
  <2>3. k \in 0..r /\ r <= Pow2[k]
    BY <2>1, <2>2
  <2>4. k # 0 => k - 1 \in Nat /\ Pow2[k - 1] \in Nat /\ Pow2[k - 1] < r
    BY <2>1, <2>2, PowersOfTwo
  <2>5. \E n \in 0..r : r <= Pow2[n] /\ (n = 0 \/ Pow2[n - 1] < r)
    BY <2>3, <2>4
  <2>6. CeilLog2(r) \in 0..r /\ r <= Pow2[CeilLog2(r)]
    BY <2>5 DEF CeilLog2
  <2> QED BY <1>1, <2>1, <2>6, PowersOfTwo
<1>2. (IF r <= 1 THEN 0 ELSE CeilLog2(r) - 1) \in Nat
  BY <1>1
<1> HIDE DEF CeilLog2
<1> QED BY <1>2, MipsCounted, ScreenAssumption DEF MipFor, Smaller

Coarser(f, m) ==
  [x \in 0..(MipSize(m) - 1) |->
     LET last == MipSize(m - 1) - 1
     IN  Larger(f[Smaller(2 * x, last)], f[Smaller(2 * x + 1, last)])]

\* The recursion of Pyramid is that of its definition.
LEMMA PyramidBuilt ==
  ASSUME NEW d
  PROVE  /\ Pyramid(d)[0] = d
         /\ \A m \in 1..(NumMips - 1) : Pyramid(d)[m] = Coarser(Pyramid(d)[m - 1], m)
<1> DEFINE Built(g, n) == g = [m \in 0..n |-> IF m = 0 THEN d ELSE Coarser(g[m - 1], m)]
           S == {n \in Nat : \E g : Built(g, n)}
<1>1. 0 \in S
  <2> DEFINE g == [m \in 0..0 |-> d]
  <2>1. Built(g, 0)
    <3> HIDE DEF Coarser
    <3> QED OBVIOUS
  <2> HIDE DEF g, Built
  <2> QED BY <2>1
<1>2. ASSUME NEW n \in Nat, n \in S PROVE n + 1 \in S
  <2>1. PICK g : Built(g, n)
    BY <1>2
  <2> DEFINE h == [m \in 0..(n + 1) |-> IF m = n + 1 THEN Coarser(g[n], n + 1) ELSE g[m]]
  <2>2. Built(h, n + 1)
    <3>1. ASSUME NEW m \in 0..(n + 1)
          PROVE  h[m] = IF m = 0 THEN d ELSE Coarser(h[m - 1], m)
      <4>1. m = n + 1 \/ m = 0 \/ m \in 1..n
        OBVIOUS
      <4>2. CASE m = n + 1
        <5>1. h[m - 1] = g[n] /\ h[m] = Coarser(g[n], m) /\ m # 0
          BY <4>2
        <5> HIDE DEF h, Coarser
        <5> QED BY <5>1
      <4>3. CASE m = 0
        <5>1. h[m] = g[0] /\ g[0] = d
          BY <2>1, <4>3
        <5> HIDE DEF h, Coarser
        <5> QED BY <5>1, <4>3
      <4>4. CASE m \in 1..n
        <5>1. h[m] = g[m] /\ h[m - 1] = g[m - 1] /\ m # 0
          BY <4>4
        <5>2. g[m] = Coarser(g[m - 1], m)
          <6> HIDE DEF Coarser, h
          <6> QED BY <2>1, <4>4
        <5> HIDE DEF h, Coarser
        <5> QED BY <5>1, <5>2
      <4> HIDE DEF h, Coarser
      <4> QED BY <4>1, <4>2, <4>3, <4>4
    <3>2. h = [m \in 0..(n + 1) |-> h[m]]
      OBVIOUS
    <3> HIDE DEF h, Coarser
    <3> QED BY <3>1, <3>2
  <2> HIDE DEF h, Built
  <2> QED BY <2>2
<1>3. NumMips - 1 \in Nat
  BY MipsCounted, ScreenAssumption
<1>4. NumMips - 1 \in S
  <2> HIDE DEF S
  <2> QED BY <1>1, <1>2, <1>3, Induction
<1>5. PICK f : Built(f, NumMips - 1)
  BY <1>4
<1>6. Pyramid(d) = CHOOSE g : Built(g, NumMips - 1)
  BY Zenon DEF Pyramid, Coarser
<1>7. Built(Pyramid(d), NumMips - 1)
  <2> HIDE DEF Built
  <2> QED BY <1>5, <1>6
<1> HIDE DEF Coarser
<1> QED BY <1>3, <1>7

-----------------------------------------------------------------------------
(* The pyramid.                                                            *)

\* No level is empty.
LEMMA MipSizes == \A m \in Nat : MipSize(m) \in Nat \ {0}
<1>1. ASSUME NEW m \in Nat PROVE W \div Pow2[m] \in Nat
  BY PowersOfTwo, ScreenAssumption
<1> QED BY <1>1 DEF MipSize, Larger

\* A level holds depths.
LEMMA PyramidType ==
  ASSUME NEW d \in [Pixel -> 0..Far], NEW m \in 0..(NumMips - 1)
  PROVE  Pyramid(d)[m] \in [0..(MipSize(m) - 1) -> 0..Far]
<1> DEFINE S == {n \in Nat : n <= NumMips - 1 =>
                               Pyramid(d)[n] \in [0..(MipSize(n) - 1) -> 0..Far]}
<1>1. 0 \in S
  <2>1. MipSize(0) = W
    BY PowersOfTwo, ScreenAssumption DEF MipSize, Larger
  <2> QED BY <2>1, PyramidBuilt DEF Pixel
<1>2. ASSUME NEW n \in Nat, n \in S PROVE n + 1 \in S
  <2> SUFFICES ASSUME n + 1 <= NumMips - 1
               PROVE  Pyramid(d)[n + 1] \in [0..(MipSize(n + 1) - 1) -> 0..Far]
    OBVIOUS
  <2>1. NumMips \in Nat
    BY MipsCounted
  <2>2. Pyramid(d)[n] \in [0..(MipSize(n) - 1) -> 0..Far]
    BY <1>2, <2>1
  <2>3. Pyramid(d)[n + 1] = Coarser(Pyramid(d)[n], n + 1)
    <3>1. n + 1 \in 1..(NumMips - 1) /\ (n + 1) - 1 = n
      BY <2>1
    <3> QED BY <3>1, PyramidBuilt
  <2>4. MipSize(n) \in Nat \ {0} /\ MipSize(n + 1) \in Nat \ {0}
    BY MipSizes
  <2> DEFINE f == Pyramid(d)[n]
             last == MipSize(n) - 1
  <2> HIDE DEF f
  <2>5. ASSUME NEW x \in 0..(MipSize(n + 1) - 1)
        PROVE  Larger(f[Smaller(2 * x, last)], f[Smaller(2 * x + 1, last)]) \in 0..Far
    <3>1. Smaller(2 * x, last) \in 0..last /\ Smaller(2 * x + 1, last) \in 0..last
      BY <2>4 DEF Smaller
    <3>2. f[Smaller(2 * x, last)] \in 0..Far /\ f[Smaller(2 * x + 1, last)] \in 0..Far
      BY <2>2, <3>1 DEF f
    <3> QED BY <3>2 DEF Larger
  <2>6. Coarser(f, n + 1) \in [0..(MipSize(n + 1) - 1) -> 0..Far]
    <3>1. (n + 1) - 1 = n
      OBVIOUS
    <3> QED BY <2>5, <3>1 DEF Coarser
  <2> QED BY <2>3, <2>6 DEF f
<1>3. m \in Nat /\ m <= NumMips - 1 /\ m \in S
  <2>1. m \in Nat /\ m <= NumMips - 1
    BY MipsCounted
  <2>2. Nat \subseteq S
    <3> HIDE DEF S
    <3> QED BY <1>1, <1>2, Induction
  <2> QED BY <2>1, <2>2
<1> QED BY <1>3

\* A level that the width divides into whole texels.
LEMMA WholeTexels ==
  ASSUME NEW m \in Nat, W % Pow2[m] = 0
  PROVE  /\ W = Pow2[m] * MipSize(m)
         /\ \A p \in Pixel : p \div Pow2[m] \in 0..(MipSize(m) - 1)
<1> DEFINE b == Pow2[m]
           k == W \div Pow2[m]
<1>1. b \in Nat \ {0} /\ W \in Nat \ {0} /\ k \in Nat
  BY PowersOfTwo, ScreenAssumption, Quotient
<1>2. W = b * k + (W % b)
  BY <1>1, Quotient
<1>3. W = b * k
  BY <1>1, <1>2
<1>4. k # 0
  BY <1>1, <1>3
<1>5. MipSize(m) = k
  BY <1>1, <1>4 DEF MipSize, Larger
<1>6. ASSUME NEW p \in Pixel PROVE p \div b \in 0..(k - 1)
  <2>1. p \in Nat /\ p < b * k
    BY <1>1, <1>3 DEF Pixel
  <2>2. p \div b \in Nat /\ b * (p \div b) <= p
    <3> HIDE DEF b, k
    <3> QED BY <1>1, <2>1
  <2>3. ASSUME k <= p \div b PROVE FALSE
    <3> DEFINE q == p \div b
    <3>1. q \in Nat /\ k <= q /\ b * q <= p
      BY <2>2, <2>3
    <3> HIDE DEF q, b, k
    <3>2. b * k <= b * q
      BY <1>1, <3>1
    <3>3. b * k \in Nat /\ b * q \in Nat
      BY <1>1, <3>1
    <3> QED BY <2>1, <3>1, <3>2, <3>3
  <2> HIDE DEF b, k
  <2> QED BY <1>1, <2>2, <2>3
<1> QED BY <1>3, <1>5, <1>6

\* A texel of such a level is no nearer than any pixel under it.
LEMMA PyramidCovers ==
  ASSUME NEW d \in [Pixel -> 0..Far], NEW m \in 0..(NumMips - 1), W % Pow2[m] = 0,
         NEW p \in Pixel
  PROVE  d[p] <= Pyramid(d)[m][p \div Pow2[m]]
<1> DEFINE S == {n \in Nat : n <= NumMips - 1 /\ W % Pow2[n] = 0 =>
                               d[p] <= Pyramid(d)[n][p \div Pow2[n]]}
<1>0. p \in Nat /\ W \in Nat \ {0} /\ Far \in Nat /\ NumMips \in Nat
  BY ScreenAssumption, MipsCounted DEF Pixel
<1>1. 0 \in S
  <2>1. p \div Pow2[0] = p
    BY <1>0, PowersOfTwo
  <2> QED BY <1>0, <2>1, PyramidBuilt
<1>2. ASSUME NEW n \in Nat, n \in S PROVE n + 1 \in S
  <2> SUFFICES ASSUME n + 1 <= NumMips - 1, W % Pow2[n + 1] = 0
               PROVE  d[p] <= Pyramid(d)[n + 1][p \div Pow2[n + 1]]
    OBVIOUS
  <2> DEFINE b == Pow2[n]
             k == W \div Pow2[n + 1]
             x == p \div Pow2[n + 1]
             y == p \div Pow2[n]
             f == Pyramid(d)[n]
             last == MipSize(n) - 1
  <2>1. b \in Nat \ {0} /\ Pow2[n + 1] = 2 * b /\ 2 * b \in Nat \ {0}
    BY PowersOfTwo
  <2>2. W = 2 * b * MipSize(n + 1) /\ MipSize(n + 1) \in Nat \ {0} /\ x \in 0..(MipSize(n + 1) - 1)
    BY <2>1, WholeTexels, MipSizes
  <2>3. W % b = 0
    <3> DEFINE j == 2 * MipSize(n + 1)
    <3>1. j \in Nat
      BY <2>2
    <3>2. W = b * j + 0
      <4> DEFINE l == MipSize(n + 1)
      <4>1. l \in Nat /\ W = 2 * b * l
        BY <2>2
      <4> HIDE DEF b, l
      <4>2. W = b * (2 * l)
        BY <2>1, <4>1
      <4>3. b * (2 * l) \in Nat
        BY <2>1, <4>1
      <4> QED BY <4>2, <4>3 DEF l
    <3>3. 0 \in 0..(b - 1)
      BY <2>1
    <3>4. b \in Nat \ {0}
      BY <2>1
    <3> HIDE DEF j, b
    <3>5. (b * j + 0) % b = 0
      BY <3>1, <3>3, <3>4, QuotientUnique
    <3>6. W % b = 0
      BY <3>2, <3>5, Zenon
    <3> QED BY <3>6
  <2>4. W = b * MipSize(n) /\ MipSize(n) \in Nat \ {0} /\ y \in 0..(MipSize(n) - 1)
    BY <2>3, WholeTexels, MipSizes
  <2>5. d[p] <= f[y]
    BY <1>0, <1>2, <2>3
  <2>6. y = 2 * x \/ y = 2 * x + 1
    <3>1. b * y <= p /\ p < b * y + b /\ y \in Nat
      <4>1. b \in Nat \ {0} /\ y = p \div b
        BY <2>1
      <4> HIDE DEF b, y
      <4> QED BY <1>0, <4>1
    <3>2. 2 * b * x <= p /\ p < 2 * b * x + 2 * b /\ x \in Nat
      <4> DEFINE c == 2 * b
      <4>1. c \in Nat \ {0} /\ x = p \div c
        BY <2>1
      <4> HIDE DEF c
      <4>2. c * x <= p /\ p < c * x + c /\ x \in Nat
        BY <1>0, <4>1
      <4> QED BY <4>2 DEF c
    <3> HIDE DEF b, x, y
    <3>3. ASSUME y < 2 * x PROVE FALSE
      <4>1. y + 1 <= 2 * x
        BY <3>1, <3>2, <3>3
      <4>2. b * (y + 1) <= b * (2 * x)
        BY <2>1, <3>1, <3>2, <4>1
      <4>3. b * (y + 1) = b * y + b /\ b * (2 * x) = 2 * b * x
        BY <2>1, <3>1, <3>2
      <4>4. b * y \in Nat /\ 2 * b * x \in Nat
        BY <2>1, <3>1, <3>2
      <4> QED BY <1>0, <2>1, <3>1, <3>2, <4>2, <4>3, <4>4
    <3>4. ASSUME y > 2 * x + 1 PROVE FALSE
      <4>1. 2 * x + 2 <= y
        BY <3>1, <3>2, <3>4
      <4>2. b * (2 * x + 2) <= b * y
        BY <2>1, <3>1, <3>2, <4>1
      <4>3. b * (2 * x + 2) = 2 * b * x + 2 * b
        BY <2>1, <3>1, <3>2
      <4>4. b * y \in Nat /\ 2 * b * x \in Nat
        BY <2>1, <3>1, <3>2
      <4> QED BY <1>0, <2>1, <3>1, <3>2, <4>2, <4>3, <4>4
    <3> QED BY <3>1, <3>2, <3>3, <3>4
  <2>7. Pyramid(d)[n + 1] = Coarser(f, n + 1)
    <3>1. n + 1 \in 1..(NumMips - 1) /\ (n + 1) - 1 = n
      BY <1>0
    <3> QED BY <3>1, PyramidBuilt
  <2>8. Pyramid(d)[n + 1][x] = Larger(f[Smaller(2 * x, last)], f[Smaller(2 * x + 1, last)])
    <3>1. (n + 1) - 1 = n
      OBVIOUS
    <3> HIDE DEF f, x
    <3> QED BY <2>2, <2>7, <3>1 DEF Coarser
  <2>9. f[Smaller(2 * x, last)] \in 0..Far /\ f[Smaller(2 * x + 1, last)] \in 0..Far
    <3>1. f \in [0..last -> 0..Far]
      <4>1. n \in 0..(NumMips - 1)
        BY <1>0
      <4> QED BY <4>1, PyramidType
    <3>2. Smaller(2 * x, last) \in 0..last /\ Smaller(2 * x + 1, last) \in 0..last
      <4> HIDE DEF x
      <4> QED BY <2>2, <2>4 DEF Smaller
    <3> HIDE DEF f, last, x
    <3> QED BY <3>1, <3>2
  <2>10. f[y] <= Larger(f[Smaller(2 * x, last)], f[Smaller(2 * x + 1, last)])
    <3>1. y = Smaller(2 * x, last) \/ y = Smaller(2 * x + 1, last)
      <4> HIDE DEF x, y
      <4> QED BY <2>2, <2>4, <2>6 DEF Smaller
    <3> HIDE DEF f, last, x, y
    <3> QED BY <1>0, <2>9, <3>1 DEF Larger
  <2>11. d[p] \in 0..Far
    OBVIOUS
  <2> HIDE DEF f, last, x, y
  <2>12. f[y] \in 0..Far
    <3>1. f \in [0..(MipSize(n) - 1) -> 0..Far]
      <4>1. n \in 0..(NumMips - 1)
        BY <1>0
      <4> QED BY <4>1, PyramidType DEF f
    <3> QED BY <2>4, <3>1
  <2>13. d[p] <= Pyramid(d)[n + 1][x]
    <3> DEFINE z == Larger(f[Smaller(2 * x, last)], f[Smaller(2 * x + 1, last)])
    <3>1. z \in 0..Far
      BY <2>9 DEF Larger
    <3> HIDE DEF z
    <3>2. f[y] <= z /\ Pyramid(d)[n + 1][x] = z
      BY <2>8, <2>10 DEF z
    <3> QED BY <1>0, <2>5, <2>11, <2>12, <3>1, <3>2
  <2> QED BY <2>13 DEF x
<1>3. m \in Nat /\ m <= NumMips - 1
  BY <1>0
<1>4. m \in S
  <2> HIDE DEF S
  <2> QED BY <1>1, <1>2, <1>3, Induction
<1> QED BY <1>3, <1>4

-----------------------------------------------------------------------------
(* Occluders.                                                              *)

\* The occluder of an extent is no nearer than any pixel it may touch.
LEMMA OccluderCovers ==
  ASSUME NEW d \in [Pixel -> 0..Far], NEW lo \in Nat, NEW hi \in Nat,
         W % Pow2[MipFor(hi - lo)] = 0,
         NEW p \in Pixel, lo <= p, p <= hi
  PROVE  d[p] <= Occluder(d, lo, hi) /\ Occluder(d, lo, hi) \in Nat
<1> DEFINE m == MipFor(hi - lo)
           b == Pow2[m]
           k == MipSize(m)
           x == p \div b
           row == Texel(lo, m)..Texel(hi, m)
           S == {Pyramid(d)[m][y] : y \in row}
<1>1. m \in 0..(NumMips - 1) /\ m \in Nat
  BY LevelExists, MipsCounted
<1>2. /\ b \in Nat \ {0} /\ k \in Nat \ {0} /\ W = b * k /\ W \in Nat \ {0}
      /\ x \in 0..(k - 1) /\ p \in Nat /\ Far \in Nat
  <2>1. b \in Nat \ {0} /\ k \in Nat \ {0}
    BY <1>1, PowersOfTwo, MipSizes
  <2>2. W = b * k /\ x \in 0..(k - 1)
    BY <1>1, WholeTexels
  <2> HIDE DEF b, k, x
  <2> QED BY <2>1, <2>2, ScreenAssumption DEF Pixel
<1>3. (p * k) \div W = x
  <2>1. b * x <= p /\ p < b * x + b /\ x \in Nat
    <3> HIDE DEF b
    <3> QED BY <1>2
  <2> HIDE DEF b, k, x
  <2> DEFINE r == p * k - b * x * k
  <2>2. (b * x) * k <= p * k /\ p * k < (b * x + b) * k
    BY <1>2, <2>1
  <2>3. (b * x + b) * k = b * x * k + b * k
    BY <1>2, <2>1
  <2>4. W * x = b * x * k /\ b * x * k \in Nat /\ p * k \in Nat
    BY <1>2, <2>1
  <2>5. r \in 0..(W - 1) /\ p * k = W * x + r
    BY <1>2, <2>2, <2>3, <2>4
  <2> HIDE DEF r
  <2>6. (W * x + r) \div W = x
    BY <1>2, <2>1, <2>5, QuotientUnique
  <2> QED BY <2>5, <2>6
<1>4. ASSUME NEW c \in Nat PROVE (c * k) \div W \in Nat /\ Texel(c, m) \in 0..(k - 1)
  <2>1. c * k \in Nat
    BY <1>2
  <2>2. (c * k) \div W \in Nat
    <3> DEFINE e == c * k
    <3> HIDE DEF e
    <3>1. e \in Nat
      BY <2>1 DEF e
    <3>2. e \div W \in Nat
      BY <1>2, <3>1
    <3> QED BY <3>2 DEF e
  <2> HIDE DEF k, m
  <2> QED BY <1>2, <2>2 DEF Texel, Smaller, k
<1>5. (lo * k) \div W <= x /\ x <= (hi * k) \div W
  <2> HIDE DEF b, k, x
  <2>1. lo * k \in Nat /\ p * k \in Nat /\ hi * k \in Nat /\ lo * k <= p * k /\ p * k <= hi * k
    BY <1>2
  <2> QED BY <1>2, <1>3, <2>1, QuotientGrows
<1>6. x \in row
  <2>1. (lo * k) \div W \in Nat /\ (hi * k) \div W \in Nat /\ Texel(lo, m) \in Nat /\ Texel(hi, m) \in Nat
    BY <1>4
  <2>2. Texel(lo, m) <= x
    <3> HIDE DEF k, m, x
    <3> QED BY <1>2, <1>5, <2>1 DEF Texel, Smaller, k
  <2>3. x <= Texel(hi, m)
    <3> HIDE DEF k, m, x
    <3> QED BY <1>2, <1>5, <2>1 DEF Texel, Smaller, k
  <2> HIDE DEF k, m, x
  <2> QED BY <1>2, <2>1, <2>2, <2>3
<1>7. \A y \in row : Pyramid(d)[m][y] \in 0..Far
  <2>1. Pyramid(d)[m] \in [0..(k - 1) -> 0..Far]
    BY <1>1, PyramidType
  <2>2. Texel(lo, m) \in 0..(k - 1) /\ Texel(hi, m) \in 0..(k - 1)
    BY <1>4
  <2>3. \A y \in row : y \in 0..(k - 1)
    <3> DEFINE s == Texel(lo, m)
               t == Texel(hi, m)
    <3> HIDE DEF k, s, t
    <3>1. \A y \in s..t : y \in 0..(k - 1)
      BY <1>2, <2>2 DEF s, t
    <3> QED BY <3>1 DEF s, t
  <2> HIDE DEF k, m, row
  <2> QED BY <2>1, <2>3
<1>8. S \subseteq Nat /\ S # {} /\ \A y \in S : y <= Far
  <2> HIDE DEF row, m, x
  <2> QED BY <1>2, <1>6, <1>7
<1>9. Pyramid(d)[m][x] \in S
  <2> HIDE DEF row, m, x
  <2> QED BY <1>6
<1>10. Pyramid(d)[m][x] <= Max(S) /\ Max(S) \in Nat /\ Pyramid(d)[m][x] \in Nat
  <2> HIDE DEF S, x, m
  <2> QED BY <1>2, <1>8, <1>9, Greatest
<1>11. Occluder(d, lo, hi) = Max(S)
  BY DEF Occluder
<1>12. d[p] <= Pyramid(d)[m][x]
  BY <1>1, PyramidCovers
<1>13. d[p] \in Nat
  BY <1>2
<1> HIDE DEF S, x, m
<1> QED BY <1>10, <1>11, <1>12, <1>13

\* The level that a box is tested at, if it is, has whole texels.
EvenLevel(box) ==
  box.straddles \/ box.hi < 0 \/ box.lo > W
    \/ W % Pow2[MipFor(Smaller(box.hi, W) - Larger(box.lo, 0))] = 0

\* All of a box that is not visible is behind the pixels it may touch.
LEMMA HiddenBox ==
  ASSUME NEW d \in [Pixel -> 0..Far],
         NEW box \in [straddles : BOOLEAN, lo : Int, hi : Int, near : Int],
         EvenLevel(box), ~BoxVisible(box, d),
         NEW p \in Pixel, box.lo <= p, p <= box.hi
  PROVE  ~box.straddles /\ d[p] < box.near
<1> DEFINE lo == Larger(box.lo, 0)
           hi == Smaller(box.hi, W)
<1>1. p \in Nat /\ p < W /\ W \in Nat /\ Far \in Nat
  BY ScreenAssumption DEF Pixel
<1>2. lo \in Nat /\ hi \in Nat /\ lo <= p /\ p <= hi
  BY <1>1 DEF Larger, Smaller
<1>3. ~box.straddles /\ box.hi >= 0 /\ box.lo <= W
  BY <1>1 DEF BoxVisible
<1>4. W % Pow2[MipFor(hi - lo)] = 0
  BY <1>1, <1>3 DEF EvenLevel
<1>5. ~(box.near <= Occluder(d, lo, hi))
  BY <1>3 DEF BoxVisible
<1>6. d[p] <= Occluder(d, lo, hi) /\ Occluder(d, lo, hi) \in Nat
  <2> HIDE DEF lo, hi
  <2> QED BY <1>2, <1>4, OccluderCovers
<1>7. d[p] \in Int
  BY <1>1
<1> HIDE DEF lo, hi
<1> QED BY <1>3, <1>5, <1>6, <1>7

(* Views, whichever is bound.                                              *)

View == 1..Len(Views)
CallsOf(v) == Views[v].dc
CountOf(v) == CallsOf(v)[Len(CallsOf(v))].first + CallsOf(v)[Len(CallsOf(v))].insts
SlotsOf(v) == 0..(CountOf(v) - 1)
SlotOf(v, x) == CallsOf(v)[x[1]].first + x[2]
NumberOf(v, x) == CallsOf(v)[x[1]].cum + x[2] * CallsOf(v)[x[1]].tris + x[3]
FragmentsOf(v, x) == Views[v].tri[SlotOf(v, x)][x[3]].z

\* The types of the constants.
LEMMA SizeFacts ==
  /\ Batch \in Nat \ {0} /\ Tile \in Nat \ {0} /\ Word \in Nat \ {0} /\ Payload \in Nat \ {0}
  /\ Cap2 \in Nat /\ Cap3 \in Nat /\ Words \in Nat /\ Far \in Nat \ {0} /\ W \in Nat \ {0}
BY SizesAssumption, ScreenAssumption

\* The draw calls of a view.
LEMMA CallFacts ==
  ASSUME NEW v \in View
  PROVE  /\ CallsOf(v) \in Seq([tris : Nat, insts : Nat, first : Nat, cum : Nat])
         /\ Len(CallsOf(v)) \in Nat \ {0}
         /\ \A d \in 1..Len(CallsOf(v)) :
              /\ CallsOf(v)[d] \in [tris : Nat, insts : Nat, first : Nat, cum : Nat]
              /\ CallsOf(v)[d].first + CallsOf(v)[d].insts <= CountOf(v)
              /\ CallsOf(v)[d].cum + CallsOf(v)[d].insts * CallsOf(v)[d].tris <=
                   IF d = Len(CallsOf(v)) THEN Payload ELSE CallsOf(v)[d + 1].cum
         /\ CallsOf(v)[1].cum = 0
         /\ CountOf(v) \in Nat /\ CountOf(v) <= Word * Words
<1>1. IsView(Views[v])
  BY ViewsAssumption DEF View
<1>2. /\ CallsOf(v) \in Seq([tris : Nat, insts : Nat, first : Nat, cum : Nat])
      /\ CallsOf(v) # <<>> /\ CallsOf(v)[1].cum = 0 /\ CountOf(v) <= Word * Words
  BY <1>1 DEF IsView, CallsOf, CountOf
<1>3. Len(CallsOf(v)) \in Nat \ {0}
  <2> DEFINE s == CallsOf(v)
             T == [tris : Nat, insts : Nat, first : Nat, cum : Nat]
  <2>1. s \in Seq(T) /\ s # <<>>
    BY <1>2
  <2> HIDE DEF s, T
  <2>2. Len(s) \in Nat \ {0}
    BY <2>1
  <2> QED BY <2>2 DEF s
<1>4. ASSUME NEW d \in 1..Len(CallsOf(v))
      PROVE  /\ CallsOf(v)[d] \in [tris : Nat, insts : Nat, first : Nat, cum : Nat]
             /\ CallsOf(v)[d].first + CallsOf(v)[d].insts <= CountOf(v)
             /\ CallsOf(v)[d].cum + CallsOf(v)[d].insts * CallsOf(v)[d].tris <=
                  IF d = Len(CallsOf(v)) THEN Payload ELSE CallsOf(v)[d + 1].cum
  <2>1. CallsOf(v)[d] \in [tris : Nat, insts : Nat, first : Nat, cum : Nat]
    <3> DEFINE s == CallsOf(v)
               T == [tris : Nat, insts : Nat, first : Nat, cum : Nat]
    <3>1. s \in Seq(T) /\ d \in 1..Len(s)
      BY <1>2
    <3> HIDE DEF s, T
    <3>2. s[d] \in T
      BY <3>1
    <3> QED BY <3>2 DEF s, T
  <2> QED BY <1>1, <2>1 DEF IsView, CallsOf, CountOf
<1>5. CountOf(v) \in Nat
  <2>1. Len(CallsOf(v)) \in 1..Len(CallsOf(v))
    BY <1>3
  <2> QED BY <1>4, <2>1 DEF CountOf
<1> QED BY <1>2, <1>3, <1>4, <1>5

\* The items of a view: a triangle of an instance of a draw call.
LEMMA ItemFacts ==
  ASSUME NEW v \in View, NEW x
  PROVE  x \in ItemsOf[v] <=>
           \E d \in 1..Len(CallsOf(v)) :
             \E i \in 0..(CallsOf(v)[d].insts - 1), t \in 0..(CallsOf(v)[d].tris - 1) :
               x = <<d, i, t>>
<1>1. ItemsOf[v] =
        UNION {{<<d, i, t>> : i \in 0..(CallsOf(v)[d].insts - 1), t \in 0..(CallsOf(v)[d].tris - 1)} :
               d \in 1..Len(CallsOf(v))}
  BY DEF ItemsOf, View, CallsOf
<1> QED BY <1>1

\* The parts of an item are in range.
LEMMA PartsOfItem ==
  ASSUME NEW v \in View, NEW x \in ItemsOf[v]
  PROVE  /\ x = <<x[1], x[2], x[3]>> /\ x[1] \in 1..Len(CallsOf(v))
         /\ x[2] \in 0..(CallsOf(v)[x[1]].insts - 1) /\ x[3] \in 0..(CallsOf(v)[x[1]].tris - 1)
BY ItemFacts

\* An item's slot is one of the view.
LEMMA SlotFacts ==
  ASSUME NEW v \in View, NEW x \in ItemsOf[v]
  PROVE  SlotOf(v, x) \in SlotsOf(v)
<1>1. /\ x[1] \in 1..Len(CallsOf(v)) /\ x[2] \in 0..(CallsOf(v)[x[1]].insts - 1)
  BY PartsOfItem
<1> DEFINE call == CallsOf(v)[x[1]]
<1>2. call \in [tris : Nat, insts : Nat, first : Nat, cum : Nat] /\ call.first + call.insts <= CountOf(v)
  BY <1>1, CallFacts
<1>3. call.first \in Nat /\ call.insts \in Nat /\ x[2] \in 0..(call.insts - 1) /\ CountOf(v) \in Nat
  BY <1>1, <1>2, CallFacts
<1>4. SlotOf(v, x) = call.first + x[2]
  BY DEF SlotOf
<1> HIDE DEF call
<1> QED BY <1>2, <1>3, <1>4 DEF SlotsOf

\* Every slot has a box.
LEMMA BoxFacts ==
  ASSUME NEW v \in View
  PROVE  Views[v].box \in [SlotsOf(v) -> [straddles : BOOLEAN, lo : Int, hi : Int, near : Int]]
<1> DEFINE u == Views[v]
           B == [straddles : BOOLEAN, lo : Int, hi : Int, near : Int]
<1>1. IsView(u)
  BY ViewsAssumption DEF View
<1>2. u.box \in [0..(u.dc[Len(u.dc)].first + u.dc[Len(u.dc)].insts - 1) -> B]
  <2> HIDE DEF u, B
  <2> QED BY <1>1 DEF IsView, B
<1>3. CountOf(v) - 1 = u.dc[Len(u.dc)].first + u.dc[Len(u.dc)].insts - 1
  <2>1. Len(u.dc) \in 1..Len(u.dc) /\ u.dc = CallsOf(v)
    BY CallFacts DEF CallsOf
  <2>2. u.dc[Len(u.dc)].first \in Nat /\ u.dc[Len(u.dc)].insts \in Nat
    <3> HIDE DEF u
    <3> QED BY <2>1, CallFacts
  <2> HIDE DEF u
  <2> QED BY <2>1, <2>2 DEF CountOf
<1>4. u.box \in [0..(CountOf(v) - 1) -> B]
  <2> DEFINE n == CountOf(v) - 1
             k == u.dc[Len(u.dc)].first + u.dc[Len(u.dc)].insts - 1
  <2>1. n = k /\ u.box \in [0..k -> B]
    BY <1>2, <1>3
  <2> HIDE DEF n, k, u, B
  <2>2. u.box \in [0..n -> B]
    BY <2>1
  <2> QED BY <2>2 DEF n
<1> HIDE DEF u, B
<1> QED BY <1>4 DEF u, B, SlotsOf

\* An offset below a length stays in the range that starts at its base.
LEMMA OffsetInRange ==
  ASSUME NEW f \in Nat, NEW n \in Nat, NEW i \in 0..(n - 1)
  PROVE  f + i \in f..(f + n - 1)
OBVIOUS

\* The fragments of an item are on the screen, nearer than an empty pixel and in
\* the box of its slot.
LEMMA FragmentFacts ==
  ASSUME NEW v \in View, NEW x \in ItemsOf[v]
  PROVE  /\ DOMAIN FragmentsOf(v, x) \subseteq Pixel
         /\ \A p \in DOMAIN FragmentsOf(v, x) :
              /\ FragmentsOf(v, x)[p] \in 0..(Far - 1)
              /\ LET b == Views[v].box[SlotOf(v, x)]
                 IN  b.straddles \/ (b.lo <= p /\ p <= b.hi /\ b.near <= FragmentsOf(v, x)[p])
         /\ Views[v].box[SlotOf(v, x)] \in [straddles : BOOLEAN, lo : Int, hi : Int, near : Int]
<1>1. /\ x[1] \in 1..Len(CallsOf(v)) /\ x[2] \in 0..(CallsOf(v)[x[1]].insts - 1)
      /\ x[3] \in 0..(CallsOf(v)[x[1]].tris - 1)
  BY PartsOfItem
<1> DEFINE d == x[1]
           t == x[3]
           s == SlotOf(v, x)
           call == CallsOf(v)[d]
<1>2. call \in [tris : Nat, insts : Nat, first : Nat, cum : Nat]
  BY <1>1, CallFacts
<1>3. s \in call.first..(call.first + call.insts - 1)
  <2>1. call.first \in Nat /\ call.insts \in Nat /\ x[2] \in 0..(call.insts - 1)
    <3>1. x[2] \in 0..(call.insts - 1)
      BY <1>1
    <3> HIDE DEF call
    <3> QED BY <1>2, <3>1
  <2>2. s = call.first + x[2]
    BY DEF SlotOf
  <2> HIDE DEF s, call
  <2> QED BY <2>1, <2>2, OffsetInRange
<1>4. IsView(Views[v])
  BY ViewsAssumption DEF View
<1>5. /\ DOMAIN Views[v].tri[s][t].z \subseteq Pixel
      /\ \A p \in DOMAIN Views[v].tri[s][t].z : Views[v].tri[s][t].z[p] \in 0..(Far - 1)
      /\ \A p \in DOMAIN Views[v].tri[s][t].z :
           \/ Views[v].box[s].straddles
           \/ /\ Views[v].box[s].lo <= p /\ p <= Views[v].box[s].hi
              /\ Views[v].box[s].near <= Views[v].tri[s][t].z[p]
  <2> HIDE DEF s, t
  <2> QED BY <1>1, <1>3, <1>4 DEF IsView, CallsOf, t
<1>6. Views[v].box[s] \in [straddles : BOOLEAN, lo : Int, hi : Int, near : Int]
  <2>1. s \in SlotsOf(v)
    BY SlotFacts
  <2>2. Views[v].box \in [SlotsOf(v) -> [straddles : BOOLEAN, lo : Int, hi : Int, near : Int]]
    BY BoxFacts
  <2> HIDE DEF s
  <2> QED BY <2>1, <2>2
<1> QED BY <1>5, <1>6 DEF FragmentsOf

\* Triangles are numbered one draw call after the other.
LEMMA CallsInOrder ==
  ASSUME NEW v \in View, NEW d \in 1..Len(CallsOf(v)), NEW e \in 1..Len(CallsOf(v)), d < e
  PROVE  CallsOf(v)[d].cum + CallsOf(v)[d].insts * CallsOf(v)[d].tris <= CallsOf(v)[e].cum
<1> DEFINE c(k) == CallsOf(v)[k].cum
           n(k) == CallsOf(v)[k].insts * CallsOf(v)[k].tris
           S == {k \in Nat : d + 1 + k <= Len(CallsOf(v)) => c(d) + n(d) <= c(d + 1 + k)}
<1>1. /\ Len(CallsOf(v)) \in Nat /\ \A k \in 1..Len(CallsOf(v)) : c(k) \in Nat /\ n(k) \in Nat
      /\ \A k \in 1..Len(CallsOf(v)) : k # Len(CallsOf(v)) => c(k) + n(k) <= c(k + 1)
  <2>1. ASSUME NEW k \in 1..Len(CallsOf(v))
        PROVE  c(k) \in Nat /\ n(k) \in Nat /\ (k # Len(CallsOf(v)) => c(k) + n(k) <= c(k + 1))
    <3>1. CallsOf(v)[k].cum \in Nat /\ CallsOf(v)[k].insts \in Nat /\ CallsOf(v)[k].tris \in Nat
      BY CallFacts
    <3>2. CallsOf(v)[k].cum + CallsOf(v)[k].insts * CallsOf(v)[k].tris <=
            IF k = Len(CallsOf(v)) THEN Payload ELSE CallsOf(v)[k + 1].cum
      BY CallFacts
    <3> QED BY <3>1, <3>2
  <2>2. Len(CallsOf(v)) \in Nat
    BY CallFacts
  <2> HIDE DEF c, n
  <2> QED BY <2>1, <2>2
<1> HIDE DEF c, n
<1>2. 0 \in S
  BY <1>1
<1>3. ASSUME NEW k \in Nat, k \in S PROVE k + 1 \in S
  <2>1. d + 1 + (k + 1) = (d + 1 + k) + 1
    OBVIOUS
  <2>2. CASE d + 1 + (k + 1) <= Len(CallsOf(v))
    <3>1. d + 1 + k \in 1..Len(CallsOf(v)) /\ d + 1 + k # Len(CallsOf(v))
           /\ d + 1 + (k + 1) \in 1..Len(CallsOf(v))
      BY <1>1, <2>2
    <3>2. c(d) + n(d) <= c(d + 1 + k) /\ c(d + 1 + k) + n(d + 1 + k) <= c(d + 1 + (k + 1))
      BY <1>1, <1>3, <2>1, <3>1
    <3>3. c(d) + n(d) <= c(d + 1 + (k + 1))
      BY <1>1, <3>1, <3>2
    <3> QED BY <3>3
  <2> QED BY <2>2
<1>4. e - d - 1 \in Nat /\ d + 1 + (e - d - 1) = e /\ e <= Len(CallsOf(v))
  BY <1>1
<1>5. e - d - 1 \in S
  <2> HIDE DEF S
  <2> QED BY <1>2, <1>3, <1>4, Induction
<1> QED BY <1>4, <1>5 DEF c, n

\* A triangle's number fits the payload and falls to its own draw call.
LEMMA NumberFacts ==
  ASSUME NEW v \in View, NEW x \in ItemsOf[v]
  PROVE  /\ NumberOf(v, x) \in 0..(Payload - 1)
         /\ CallsOf(v)[x[1]].cum <= NumberOf(v, x)
         /\ \A e \in 1..Len(CallsOf(v)) : x[1] < e => NumberOf(v, x) < CallsOf(v)[e].cum
<1>1. /\ x[1] \in 1..Len(CallsOf(v)) /\ x[2] \in 0..(CallsOf(v)[x[1]].insts - 1)
      /\ x[3] \in 0..(CallsOf(v)[x[1]].tris - 1)
  BY PartsOfItem
<1> DEFINE d == x[1]
           c == CallsOf(v)[d].cum
           a == CallsOf(v)[d].insts
           b == CallsOf(v)[d].tris
<1>2. a \in Nat /\ b \in Nat /\ c \in Nat /\ Len(CallsOf(v)) \in Nat
  BY <1>1, CallFacts
<1>3. NumberOf(v, x) = c + x[2] * b + x[3]
  BY DEF NumberOf
<1>4. c <= NumberOf(v, x) /\ NumberOf(v, x) < c + a * b /\ NumberOf(v, x) \in Nat
  <2> DEFINE i == x[2]
             t == x[3]
  <2>0. i \in 0..(a - 1) /\ t \in 0..(b - 1)
    BY <1>1
  <2>1. i \in Nat /\ t \in Nat /\ i + 1 <= a /\ t < b
    <3> HIDE DEF a, b, i, t
    <3> QED BY <1>2, <2>0
  <2> HIDE DEF a, b, c, i, t, d
  <2>2. (i + 1) * b <= a * b
    BY <1>2, <2>1
  <2>3. (i + 1) * b = i * b + b /\ i * b \in Nat /\ a * b \in Nat
    BY <1>2, <2>1
  <2>4. NumberOf(v, x) = c + i * b + t
    BY <1>3 DEF i, t
  <2> QED BY <1>2, <2>1, <2>2, <2>3, <2>4
<1>5. \A e \in 1..Len(CallsOf(v)) : d < e => c + a * b <= CallsOf(v)[e].cum
  BY <1>1, CallsInOrder
<1>6. c + a * b <= Payload
  <2>1. Len(CallsOf(v)) \in 1..Len(CallsOf(v))
    BY CallFacts
  <2>2. CASE d = Len(CallsOf(v))
    BY <1>1, <2>2, CallFacts
  <2>3. CASE d # Len(CallsOf(v))
    <3> DEFINE e == Len(CallsOf(v))
    <3>1. d < e /\ e \in 1..Len(CallsOf(v))
      BY <1>1, <1>2, <2>1, <2>3
    <3>2. c + a * b <= CallsOf(v)[e].cum
      BY <1>5, <3>1
    <3>3. CallsOf(v)[e].cum + CallsOf(v)[e].insts * CallsOf(v)[e].tris <= Payload
           /\ CallsOf(v)[e].cum \in Nat /\ CallsOf(v)[e].insts \in Nat /\ CallsOf(v)[e].tris \in Nat
      BY <3>1, CallFacts
    <3> DEFINE f == CallsOf(v)[e].cum
               n == CallsOf(v)[e].insts * CallsOf(v)[e].tris
    <3>4. n \in Nat
      BY <3>3
    <3>5. a * b \in Nat
      <4> HIDE DEF a, b
      <4> QED BY <1>2
    <3>6. f \in Nat /\ f + n <= Payload /\ c + a * b <= f
      BY <3>2, <3>3
    <3> HIDE DEF a, b, c, n, f
    <3> QED BY <1>2, <3>4, <3>5, <3>6, SizeFacts
  <2> QED BY <2>2, <2>3
<1>7. a * b \in Nat /\ Payload \in Nat
  BY <1>2, SizeFacts
<1>8. \A e \in 1..Len(CallsOf(v)) : CallsOf(v)[e].cum \in Nat
  BY CallFacts
<1> HIDE DEF a, b, c
<1>9. \A e \in 1..Len(CallsOf(v)) : d < e => NumberOf(v, x) < CallsOf(v)[e].cum
  BY <1>2, <1>4, <1>5, <1>7, <1>8
<1> QED BY <1>2, <1>4, <1>6, <1>7, <1>9 DEF c

-----------------------------------------------------------------------------
(* Storing a fragment and finding it again.                                *)

\* The search ends at the last draw call that starts at or before g.
LEMMA SearchFinds ==
  ASSUME view \in View, NEW g \in Nat
  PROVE  /\ FindDrawCall(g) \in 1..Len(CallsOf(view))
         /\ CallsOf(view)[FindDrawCall(g)].cum <= g
         /\ \A e \in 1..Len(CallsOf(view)) : FindDrawCall(g) < e => g < CallsOf(view)[e].cum
<1> DEFINE N == Len(CallsOf(view))
           c(d) == CallsOf(view)[d].cum
           D == (1..N) \X (1..(N + 1))
           Mid(r) == (r[1] + r[2]) \div 2
           Step(s, r) == IF r[1] + 1 >= r[2] THEN r[1]
                         ELSE IF c(Mid(r)) <= g THEN s[<<Mid(r), r[2]>>] ELSE s[<<r[1], Mid(r)>>]
           Searches(s) == s = [r \in D |-> Step(s, r)]
           S == {n \in Nat : \E s : \A r \in D : r[2] - r[1] <= n => s[r] = Step(s, r)}
<1>1. /\ N \in Nat \ {0} /\ c(1) = 0 /\ \A d \in 1..N : c(d) \in Nat
      /\ \A d \in 1..N, e \in 1..N : d < e => c(d) <= c(e)
  <2>1. N \in Nat \ {0} /\ c(1) = 0
    BY CallFacts
  <2>2. ASSUME NEW d \in 1..N PROVE c(d) \in Nat /\ CallsOf(view)[d].insts * CallsOf(view)[d].tris \in Nat
    <3>1. CallsOf(view)[d].cum \in Nat /\ CallsOf(view)[d].insts \in Nat /\ CallsOf(view)[d].tris \in Nat
      BY CallFacts
    <3> QED BY <3>1
  <2>3. ASSUME NEW d \in 1..N, NEW e \in 1..N, d < e PROVE c(d) <= c(e)
    <3>1. c(d) + CallsOf(view)[d].insts * CallsOf(view)[d].tris <= c(e)
      BY <2>3, CallsInOrder
    <3> DEFINE n == CallsOf(view)[d].insts * CallsOf(view)[d].tris
    <3>2. n \in Nat /\ c(d) \in Nat /\ c(e) \in Nat /\ c(d) + n <= c(e)
      BY <2>2, <3>1
    <3> HIDE DEF n, c
    <3> QED BY <3>2
  <2> HIDE DEF N, c
  <2> QED BY <2>1, <2>2, <2>3
<1>2. ASSUME NEW r \in D
      PROVE  /\ r = <<r[1], r[2]>> /\ r[1] \in 1..N /\ r[2] \in 1..(N + 1)
             /\ ~(r[1] + 1 >= r[2]) => /\ Mid(r) \in 1..N /\ <<Mid(r), r[2]>> \in D /\ <<r[1], Mid(r)>> \in D
                                       /\ r[1] < Mid(r) /\ Mid(r) < r[2]
  <2> HIDE DEF N
  <2> QED BY <1>1
<1>3. 0 \in S
  <2> DEFINE s == [r \in D |-> r[1]]
  <2>1. ASSUME NEW r \in D, r[2] - r[1] <= 0 PROVE s[r] = Step(s, r)
    <3>1. r[1] + 1 >= r[2]
      <4> HIDE DEF N
      <4> QED BY <1>1, <1>2, <2>1
    <3> QED BY <3>1
  <2> HIDE DEF s, Step, D
  <2> QED BY <2>1
<1>4. ASSUME NEW n \in Nat, n \in S PROVE n + 1 \in S
  <2>1. PICK s : \A r \in D : r[2] - r[1] <= n => s[r] = Step(s, r)
    BY <1>4
  <2> DEFINE h == [r \in D |-> Step(s, r)]
  <2>2. ASSUME NEW r \in D, r[2] - r[1] <= n + 1 PROVE h[r] = Step(h, r)
    <3>1. CASE r[1] + 1 >= r[2]
      BY <3>1
    <3>2. CASE ~(r[1] + 1 >= r[2])
      <4> DEFINE a == <<Mid(r), r[2]>>
                 b == <<r[1], Mid(r)>>
      <4>1. a \in D /\ b \in D /\ a[2] - a[1] <= n /\ b[2] - b[1] <= n
        <5> DEFINE q == Mid(r)
        <5>1. q \in 1..N /\ <<q, r[2]>> \in D /\ <<r[1], q>> \in D /\ r[1] < q /\ q < r[2]
              /\ r[1] \in 1..N /\ r[2] \in 1..(N + 1)
          BY <1>2, <3>2
        <5> HIDE DEF q, N, D
        <5>2. r[2] - q <= n /\ q - r[1] <= n
          BY <1>1, <2>2, <5>1
        <5>3. <<q, r[2]>>[2] - <<q, r[2]>>[1] <= n /\ <<r[1], q>>[2] - <<r[1], q>>[1] <= n
          BY <5>2
        <5> QED BY <5>1, <5>3 DEF q
      <4>2. s[a] = Step(s, a) /\ s[b] = Step(s, b)
        <5> HIDE DEF a, b, Step, D
        <5> QED BY <2>1, <4>1
      <4>3. h[a] = s[a] /\ h[b] = s[b]
        <5> HIDE DEF a, b, Step, D
        <5> QED BY <4>1, <4>2
      <4>4. h[r] = Step(s, r)
        <5> HIDE DEF Step, D
        <5> QED OBVIOUS
      <4>5. Step(s, r) = Step(h, r)
        <5>1. Step(s, r) = (IF c(Mid(r)) <= g THEN s[a] ELSE s[b])
          BY <3>2
        <5>2. Step(h, r) = (IF c(Mid(r)) <= g THEN h[a] ELSE h[b])
          <6> HIDE DEF h
          <6> QED BY <3>2
        <5> HIDE DEF Step, h, a, b, Mid, c
        <5> QED BY <4>3, <5>1, <5>2
      <4> HIDE DEF Step, h
      <4> QED BY <4>4, <4>5
    <3> QED BY <3>1, <3>2
  <2> HIDE DEF h, Step, D
  <2> QED BY <2>2
<1>5. \E s : Searches(s)
  <2>1. N \in S
    <3>1. N \in Nat
      BY <1>1
    <3> HIDE DEF S, N
    <3> QED BY <1>3, <1>4, <3>1, Induction
  <2>2. PICK s : \A r \in D : r[2] - r[1] <= N => s[r] = Step(s, r)
    BY <2>1
  <2> DEFINE h == [r \in D |-> s[r]]
  <2>3. ASSUME NEW r \in D PROVE h[r] = Step(h, r)
    <3>1. r[2] - r[1] <= N
      <4> HIDE DEF N
      <4> QED BY <1>1, <1>2
    <3>2. h[r] = Step(s, r)
      <4> HIDE DEF Step, D
      <4> QED BY <2>2, <3>1
    <3>3. Step(s, r) = Step(h, r)
      <4>1. CASE r[1] + 1 >= r[2]
        BY <4>1
      <4>2. CASE ~(r[1] + 1 >= r[2])
        <5> DEFINE a == <<Mid(r), r[2]>>
                   b == <<r[1], Mid(r)>>
        <5>1. a \in D /\ b \in D
          BY <1>2, <4>2
        <5>2. h[a] = s[a] /\ h[b] = s[b]
          <6> HIDE DEF a, b, D
          <6> QED BY <5>1
        <5>3. Step(s, r) = (IF c(Mid(r)) <= g THEN s[a] ELSE s[b])
          BY <4>2
        <5>4. Step(h, r) = (IF c(Mid(r)) <= g THEN h[a] ELSE h[b])
          <6> HIDE DEF h
          <6> QED BY <4>2
        <5> HIDE DEF Step, h, a, b, Mid, c
        <5> QED BY <5>2, <5>3, <5>4
      <4> QED BY <4>1, <4>2
    <3> HIDE DEF h, Step
    <3> QED BY <3>2, <3>3
  <2>4. h = [r \in D |-> h[r]]
    <3> HIDE DEF D
    <3> QED OBVIOUS
  <2>5. Searches(h)
    <3> HIDE DEF h, Step, D
    <3> QED BY <2>3, <2>4
  <2> HIDE DEF h, Searches
  <2> QED BY <2>5
<1> DEFINE search == CHOOSE s : Searches(s)
<1>6. Searches(search)
  <2> HIDE DEF Searches
  <2> QED BY <1>5
<1>7. FindDrawCall(g) = search[<<1, N + 1>>]
  BY Zenon DEF FindDrawCall, NumDC, DC, CallsOf
<1> HIDE DEF search
<1> DEFINE Found(f) == f \in 1..N /\ c(f) <= g /\ (f = N \/ g < c(f + 1))
           Between(r) == r[1] < r[2] /\ c(r[1]) <= g /\ (r[2] = N + 1 \/ g < c(r[2]))
           T == {n \in Nat : \A r \in D : r[2] - r[1] <= n /\ Between(r) => Found(search[r])}
<1>8. ASSUME NEW r \in D PROVE search[r] = Step(search, r)
  <2> HIDE DEF Step, D
  <2> QED BY <1>6
<1>9. 0 \in T
  <2>1. ASSUME NEW r \in D, r[2] - r[1] <= 0, r[1] < r[2] PROVE FALSE
    <3> HIDE DEF N
    <3> QED BY <1>1, <1>2, <2>1
  <2> HIDE DEF D, Found, c, N
  <2> QED BY <2>1
<1>10. ASSUME NEW n \in Nat, n \in T PROVE n + 1 \in T
  <2>1. ASSUME NEW r \in D, r[2] - r[1] <= n + 1, Between(r) PROVE Found(search[r])
    <3>1. r[1] \in 1..N /\ r[2] \in 1..(N + 1)
      BY <1>2
    <3>2. CASE r[1] + 1 >= r[2]
      <4>1. search[r] = r[1]
        <5>1. search[r] = Step(search, r)
          BY <1>8
        <5> QED BY <3>2, <5>1
      <4>2. r[2] = r[1] + 1
        <5> HIDE DEF N, c
        <5> QED BY <1>1, <2>1, <3>1, <3>2
      <4> HIDE DEF N, c
      <4> QED BY <1>1, <2>1, <3>1, <4>1, <4>2
    <3>3. CASE ~(r[1] + 1 >= r[2])
      <4> DEFINE q == Mid(r)
                 a == <<q, r[2]>>
                 b == <<r[1], q>>
      <4>1. q \in 1..N /\ a \in D /\ b \in D /\ r[1] < q /\ q < r[2]
        BY <1>2, <3>3
      <4>2. search[r] = IF c(q) <= g THEN search[a] ELSE search[b]
        <5>1. search[r] = Step(search, r)
          BY <1>8
        <5> QED BY <3>3, <5>1
      <4>3. /\ a[1] = q /\ a[2] = r[2] /\ b[1] = r[1] /\ b[2] = q
            /\ r[2] - q <= n /\ q - r[1] <= n
        <5>1. a[1] = q /\ a[2] = r[2] /\ b[1] = r[1] /\ b[2] = q
          <6> HIDE DEF q
          <6> QED OBVIOUS
        <5>2. r[2] - q <= n /\ q - r[1] <= n
          <6> HIDE DEF q, N, D, a, b, c
          <6> QED BY <1>1, <2>1, <3>1, <4>1
        <5> QED BY <5>1, <5>2
      <4>4. CASE c(q) <= g
        <5>1. Between(a)
          <6> HIDE DEF q, a, c, N
          <6> QED BY <2>1, <4>1, <4>3, <4>4
        <5>2. Found(search[a])
          <6> HIDE DEF Found, Between, a, D
          <6> QED BY <1>10, <4>1, <4>3, <5>1
        <5> HIDE DEF Found, q, a, b, c
        <5> QED BY <4>2, <4>4, <5>2
      <4>5. CASE ~(c(q) <= g)
        <5>1. Between(b)
          <6>1. g < c(q)
            <7> HIDE DEF q, c
            <7> QED BY <1>1, <4>1, <4>5
          <6> HIDE DEF q, b, c, N
          <6> QED BY <2>1, <4>1, <4>3, <6>1
        <5>2. Found(search[b])
          <6> HIDE DEF Found, Between, b, D
          <6> QED BY <1>10, <4>1, <4>3, <5>1
        <5> HIDE DEF Found, q, a, b, c
        <5> QED BY <4>2, <4>5, <5>2
      <4> QED BY <4>4, <4>5
    <3> QED BY <3>2, <3>3
  <2> HIDE DEF Found, Between, D
  <2> QED BY <2>1
<1>11. Found(FindDrawCall(g))
  <2> DEFINE r == <<1, N + 1>>
  <2>1. r \in D /\ r[1] = 1 /\ r[2] = N + 1 /\ N \in Nat /\ r[2] - r[1] <= N /\ Between(r)
    <3> HIDE DEF N, c
    <3> QED BY <1>1
  <2>2. N \in T
    <3> HIDE DEF T, N
    <3> QED BY <1>9, <1>10, <2>1, Induction
  <2>3. Found(search[r])
    <3> HIDE DEF r, D, Between, Found
    <3> QED BY <2>1, <2>2
  <2> QED BY <1>7, <2>3
<1> DEFINE f == FindDrawCall(g)
<1>12. ASSUME NEW e \in 1..N, f < e PROVE g < c(e)
  <2> HIDE DEF N, c, f
  <2>1. f \in 1..N /\ f # N /\ f + 1 \in 1..N /\ g < c(f + 1)
    BY <1>1, <1>11, <1>12 DEF f
  <2>2. f + 1 = e \/ f + 1 < e
    BY <1>1, <1>12, <2>1
  <2>3. f + 1 < e => c(f + 1) <= c(e)
    BY <1>1, <2>1
  <2> QED BY <1>1, <2>1, <2>2, <2>3
<1> QED BY <1>11, <1>12

\* What is stored of a fragment gives back its item and its depth, and is less
\* than what an empty pixel holds.
LEMMA Decoded ==
  ASSUME view \in View, NEW x \in Items, NEW p \in Covers(x)
  PROVE  /\ Tri(x).z[p] \in 0..(Far - 1) /\ p \in Pixel
         /\ Encode(x, p) \in Nat /\ Encode(x, p) < Empty
         /\ Depth(Encode(x, p)) = Tri(x).z[p]
         /\ Decode(Encode(x, p)) = x
<1>1. /\ Tri(x).z = FragmentsOf(view, x) /\ GlobalTri(x) = NumberOf(view, x)
      /\ DC = CallsOf(view) /\ NumDC = Len(CallsOf(view))
  BY DEF Tri, FragmentsOf, GlobalTri, NumberOf, SlotOf, Slot, DC, CallsOf, NumDC
<1>2. Tri(x).z[p] \in 0..(Far - 1) /\ p \in Pixel
  BY <1>1, FragmentFacts DEF Covers, Items
<1> DEFINE z == Tri(x).z[p]
           g == GlobalTri(x)
<1>3. g \in 0..(Payload - 1) /\ g \in Nat
  <2>1. g \in 0..(Payload - 1)
    BY <1>1, NumberFacts DEF Items
  <2> HIDE DEF g
  <2> QED BY <2>1, SizeFacts
<1>4. Encode(x, p) = Payload * z + g /\ Payload * z \in Nat /\ Payload * z + Payload <= Payload * Far
  <2>1. z \in Nat /\ z + 1 <= Far /\ Payload \in Nat /\ Far \in Nat
    BY <1>2, SizeFacts
  <2>2. Encode(x, p) = z * Payload + g
    BY DEF Encode
  <2> HIDE DEF z, g
  <2>3. Payload * (z + 1) <= Payload * Far
    BY <2>1
  <2> QED BY <2>1, <2>2, <2>3
<1>5. Encode(x, p) \in Nat /\ Encode(x, p) < Empty
  <2>1. Empty = Payload * Far + Payload - 1 /\ Payload * Far \in Nat
    BY SizeFacts DEF Empty
  <2> HIDE DEF g, z
  <2> QED BY <1>3, <1>4, <2>1, SizeFacts
<1>6. Encode(x, p) \div Payload = z /\ Encode(x, p) % Payload = g
  <2>1. z \in Nat /\ Payload \in Nat \ {0}
    BY <1>2, SizeFacts
  <2> HIDE DEF z, g
  <2> QED BY <1>3, <1>4, <2>1, QuotientUnique
<1>7. FindDrawCall(g) = x[1]
  <2> DEFINE f == FindDrawCall(g)
             N == Len(CallsOf(view))
  <2>1. /\ f \in 1..N /\ CallsOf(view)[f].cum <= g
        /\ \A e \in 1..N : f < e => g < CallsOf(view)[e].cum
    BY <1>3, SearchFinds
  <2>2. /\ x[1] \in 1..N /\ CallsOf(view)[x[1]].cum <= g
        /\ \A e \in 1..N : x[1] < e => g < CallsOf(view)[e].cum
    BY <1>1, NumberFacts, PartsOfItem DEF Items
  <2>3. CallsOf(view)[f].cum \in Nat /\ CallsOf(view)[x[1]].cum \in Nat /\ N \in Nat
    BY <2>1, <2>2, CallFacts
  <2> HIDE DEF f, N
  <2>4. ~(f < x[1]) /\ ~(x[1] < f)
    BY <1>3, <2>1, <2>2, <2>3
  <2>5. f = x[1]
    BY <2>1, <2>2, <2>3, <2>4
  <2> QED BY <2>5 DEF f
<1>8. Decode(Encode(x, p)) = x
  <2> DEFINE d == x[1]
             c == DC[d].cum
             b == DC[d].tris
  <2>1. x = <<d, x[2], x[3]>> /\ d \in 1..NumDC /\ x[2] \in Nat /\ x[3] \in 0..(b - 1)
    <3>1. DC[d].insts \in Nat
      BY <1>1, PartsOfItem, CallFacts DEF Items
    <3> QED BY <1>1, <3>1, PartsOfItem DEF Items
  <2>2. c \in Nat /\ b \in Nat /\ b # 0
    <3>1. c \in Nat /\ b \in Nat
      BY <1>1, <2>1, CallFacts
    <3> HIDE DEF b
    <3> QED BY <2>1, <3>1
  <2>3. g - c = b * x[2] + x[3]
    <3>1. g = c + x[2] * b + x[3]
      BY DEF GlobalTri
    <3> HIDE DEF g, c, b
    <3> QED BY <2>1, <2>2, <3>1
  <2>4. (g - c) \div b = x[2] /\ (g - c) % b = x[3]
    <3> HIDE DEF g, c, b
    <3> QED BY <2>1, <2>2, <2>3, QuotientUnique
  <2>5. Decode(Encode(x, p)) = <<d, (g - c) \div b, (g - c) % b>>
    <3> HIDE DEF g
    <3> QED BY <1>6, <1>7 DEF Decode
  <2> QED BY <2>1, <2>4, <2>5
<1> HIDE DEF z, g
<1> QED BY <1>2, <1>5, <1>6, <1>8 DEF Depth, z

\* An empty pixel is as far as can be, and depths compare as what is stored.
LEMMA DepthsOrdered ==
  /\ Empty \in Nat /\ Depth(Empty) = Far
  /\ \A a \in Nat, b \in Nat : /\ Depth(a) \in Nat
                               /\ a <= b => Depth(a) <= Depth(b)
<1>1. Empty = Payload * Far + (Payload - 1) /\ Payload * Far \in Nat
  BY SizeFacts DEF Empty
<1>2. Empty \in Nat /\ Depth(Empty) = Far
  <2>1. Empty \div Payload = Far
    BY <1>1, SizeFacts, QuotientUnique
  <2> QED BY <1>1, <2>1, SizeFacts DEF Depth
<1>3. ASSUME NEW a \in Nat, NEW b \in Nat
      PROVE  Depth(a) \in Nat /\ (a <= b => Depth(a) <= Depth(b))
  BY SizeFacts, Quotient, QuotientGrows DEF Depth
<1> QED BY <1>2, <1>3

-----------------------------------------------------------------------------
(* The numbers of the batches.                                             *)

BatchesOf(v, m) == (CallsOf(v)[m].tris + Batch - 1) \div Batch

\* Every triangle of a call is in one of the call's batches.
LEMMA BatchFacts ==
  ASSUME NEW v \in View, NEW m \in 1..Len(CallsOf(v))
  PROVE  /\ BatchesOf(v, m) \in Nat
         /\ \A t \in 0..(CallsOf(v)[m].tris - 1) :
              t \div Batch \in Nat /\ t \div Batch < BatchesOf(v, m)
<1> DEFINE n == CallsOf(v)[m].tris
<1>1. n \in Nat /\ Batch \in Nat \ {0}
  BY CallFacts, SizeFacts
<1> HIDE DEF n
<1>2. (n + Batch - 1) \div Batch \in Nat
  <2>1. n + Batch - 1 \in Nat
    BY <1>1
  <2> QED BY <1>1, <2>1, Quotient
<1>3. ASSUME NEW t \in 0..(n - 1)
      PROVE  t \div Batch \in Nat /\ t \div Batch < (n + Batch - 1) \div Batch
  <2> DEFINE q == t \div Batch
             r == t % Batch
  <2>1. t \in Nat /\ q \in Nat /\ r \in 0..(Batch - 1) /\ t = Batch * q + r
    <3>1. t \in Nat
      BY <1>1
    <3> QED BY <1>1, <3>1, Quotient
  <2> DEFINE a == Batch * (q + 1) + 0
  <2>2. a = Batch * q + Batch /\ Batch * q \in Nat
    <3> HIDE DEF q
    <3> QED BY <1>1, <2>1
  <2>3. a \in Nat /\ a <= n + Batch - 1 /\ n + Batch - 1 \in Nat
    <3> DEFINE w == Batch * q
    <3>1. w \in Nat /\ a = w + Batch /\ t = w + r
      BY <2>1, <2>2
    <3> HIDE DEF a, w, r, q
    <3> QED BY <1>1, <2>1, <3>1
  <2>4. a \div Batch = q + 1
    <3> HIDE DEF q
    <3> QED BY <1>1, <2>1, QuotientUnique
  <2>5. a \div Batch <= (n + Batch - 1) \div Batch
    <3> HIDE DEF a
    <3> QED BY <1>1, <2>3, QuotientGrows
  <2> HIDE DEF q, a
  <2> QED BY <1>2, <2>1, <2>4, <2>5 DEF q
<1> QED BY <1>2, <1>3 DEF BatchesOf, n

\* The recursion of BatchesBefore is that of its definition.
LEMMA BatchesAdd ==
  ASSUME NEW v \in View
  PROVE  /\ BatchesBefore[v][1] = 0
         /\ \A m \in 1..Len(CallsOf(v)) :
              BatchesBefore[v][m + 1] = BatchesBefore[v][m] + BatchesOf(v, m)
         /\ \A m \in 1..(Len(CallsOf(v)) + 1) : BatchesBefore[v][m] \in Nat
<1> DEFINE N == Len(CallsOf(v))
           Built(g, n) == g = [m \in 1..n |-> IF m = 1 THEN 0 ELSE g[m - 1] + BatchesOf(v, m - 1)]
           S == {n \in Nat : \E g : Built(g, n)}
<1>1. 0 \in S
  <2> DEFINE g == [m \in 1..0 |-> 0]
  <2>1. Built(g, 0)
    OBVIOUS
  <2> HIDE DEF g, Built
  <2> QED BY <2>1
<1>2. ASSUME NEW n \in Nat, n \in S PROVE n + 1 \in S
  <2>1. PICK g : Built(g, n)
    BY <1>2
  <2> DEFINE h == [m \in 1..(n + 1) |-> IF m = 1 THEN 0 ELSE g[m - 1] + BatchesOf(v, m - 1)]
  <2>2. ASSUME NEW m \in 1..n PROVE h[m] = g[m]
    BY <2>1
  <2>3. ASSUME NEW m \in 1..(n + 1)
        PROVE  h[m] = IF m = 1 THEN 0 ELSE h[m - 1] + BatchesOf(v, m - 1)
    <3>1. CASE m = 1
      BY <3>1
    <3>2. CASE m # 1
      <4>1. m - 1 \in 1..n /\ h[m - 1] = g[m - 1]
        <5>1. m - 1 \in 1..n
          BY <3>2
        <5> HIDE DEF h
        <5> QED BY <2>2, <5>1
      <4>2. h[m] = g[m - 1] + BatchesOf(v, m - 1)
        BY <3>2
      <4> HIDE DEF h
      <4> QED BY <3>2, <4>1, <4>2
    <3> QED BY <3>1, <3>2
  <2>4. h = [m \in 1..(n + 1) |-> h[m]]
    OBVIOUS
  <2>5. Built(h, n + 1)
    <3> HIDE DEF h
    <3> QED BY <2>3, <2>4
  <2> HIDE DEF h, Built
  <2> QED BY <2>5
<1>3. N \in Nat
  BY CallFacts
<1>4. N + 1 \in S
  <2> HIDE DEF S, N
  <2> QED BY <1>1, <1>2, <1>3, Induction
<1>5. PICK f : Built(f, N + 1)
  BY <1>4
<1> DEFINE B == CHOOSE g : Built(g, N + 1)
<1>6. BatchesBefore[v] = B
  <2> DEFINE F(u) == LET before[m \in 1..(Len(Views[u].dc) + 1)] ==
                           IF m = 1 THEN 0
                           ELSE before[m - 1] + (Views[u].dc[m - 1].tris + Batch - 1) \div Batch
                     IN  before
  <2>1. BatchesBefore = [u \in 1..Len(Views) |-> F(u)]
    BY Zenon DEF BatchesBefore
  <2>2. F(v) = B
    BY Zenon DEF BatchesOf, CallsOf
  <2> HIDE DEF F, B
  <2> QED BY <2>1, <2>2 DEF View
<1>7. Built(B, N + 1)
  <2> HIDE DEF Built
  <2> QED BY <1>5
<1> HIDE DEF B
<1>8. B[1] = 0 /\ \A m \in 1..N : B[m + 1] = B[m] + BatchesOf(v, m)
  <2>1. B[1] = 0
    <3> HIDE DEF N
    <3> QED BY <1>3, <1>7
  <2>2. ASSUME NEW m \in 1..N PROVE B[m + 1] = B[m] + BatchesOf(v, m)
    <3> HIDE DEF N
    <3>1. m + 1 \in 1..(N + 1) /\ m + 1 # 1 /\ (m + 1) - 1 = m
      BY <1>3
    <3> QED BY <1>7, <3>1
  <2> QED BY <2>1, <2>2
<1>9. \A m \in 1..(N + 1) : B[m] \in Nat
  <2> DEFINE T == {n \in Nat : n <= N => B[n + 1] \in Nat}
  <2>1. 0 \in T
    BY <1>8
  <2>2. ASSUME NEW n \in Nat, n \in T PROVE n + 1 \in T
    <3> SUFFICES ASSUME n + 1 <= N PROVE B[(n + 1) + 1] \in Nat
      OBVIOUS
    <3>1. n + 1 \in 1..N /\ B[n + 1] \in Nat
      <4> HIDE DEF N
      <4> QED BY <1>3, <2>2
    <3>2. BatchesOf(v, n + 1) \in Nat
      BY <3>1, BatchFacts
    <3> QED BY <1>8, <3>1, <3>2
  <2>3. ASSUME NEW m \in 1..(N + 1) PROVE B[m] \in Nat
    <3>1. m - 1 \in Nat /\ (m - 1) + 1 = m /\ m - 1 <= N
      <4> HIDE DEF N
      <4> QED BY <1>3
    <3>2. m - 1 \in T
      <4> HIDE DEF T
      <4> QED BY <2>1, <2>2, <3>1, Induction
    <3> QED BY <3>1, <3>2
  <2> QED BY <2>3
<1> HIDE DEF Built, N
<1> QED BY <1>6, <1>8, <1>9 DEF N

\* Batches are numbered one call after the other.
LEMMA BatchesInOrder ==
  ASSUME NEW v \in View, NEW m \in 1..Len(CallsOf(v)),
         NEW k \in 1..(Len(CallsOf(v)) + 1), m < k
  PROVE  BatchesBefore[v][m] + BatchesOf(v, m) <= BatchesBefore[v][k]
<1> DEFINE N == Len(CallsOf(v))
           B(n) == BatchesBefore[v][n]
           S == {n \in Nat : m + 1 + n <= N + 1 => B(m + 1) <= B(m + 1 + n)}
<1>1. /\ N \in Nat /\ m \in 1..N /\ k \in 1..(N + 1)
      /\ B(m + 1) = B(m) + BatchesOf(v, m)
      /\ \A n \in 1..(N + 1) : B(n) \in Nat
  BY BatchesAdd, CallFacts
<1>2. \A n \in 1..N : B(n) <= B(n + 1)
  <2> SUFFICES ASSUME NEW n \in 1..N PROVE B(n) <= B(n + 1)
    OBVIOUS
  <2>1. B(n + 1) = B(n) + BatchesOf(v, n)
    BY BatchesAdd
  <2>2. BatchesOf(v, n) \in Nat
    BY BatchFacts
  <2>3. n \in 1..(N + 1)
    <3> HIDE DEF N
    <3> QED BY <1>1
  <2> HIDE DEF B, N
  <2> QED BY <1>1, <2>1, <2>2, <2>3
<1>3. 0 \in S
  <2>1. B(m + 1) = B(m + 1 + 0) /\ m + 1 \in 1..(N + 1)
    <3> HIDE DEF N
    <3> QED BY <1>1
  <2> HIDE DEF B, N
  <2> QED BY <1>1, <2>1
<1>4. ASSUME NEW n \in Nat, n \in S PROVE n + 1 \in S
  <2> SUFFICES ASSUME m + 1 + (n + 1) <= N + 1 PROVE B(m + 1) <= B(m + 1 + (n + 1))
    OBVIOUS
  <2>1. /\ m + 1 + n \in 1..N /\ m + 1 + n \in 1..(N + 1) /\ m + 1 \in 1..(N + 1)
        /\ m + 1 + (n + 1) \in 1..(N + 1) /\ (m + 1 + n) + 1 = m + 1 + (n + 1)
        /\ m + 1 + n <= N + 1
    <3> HIDE DEF N, B, S
    <3> QED BY <1>1
  <2>2. B(m + 1) <= B(m + 1 + n)
    BY <1>4, <2>1
  <2>3. B(m + 1 + n) <= B(m + 1 + (n + 1))
    <3> HIDE DEF B, N
    <3> QED BY <1>2, <2>1
  <2>4. B(m + 1) \in Nat /\ B(m + 1 + n) \in Nat /\ B(m + 1 + (n + 1)) \in Nat
    <3> HIDE DEF B, N
    <3> QED BY <1>1, <2>1
  <2> HIDE DEF B, N
  <2> QED BY <2>2, <2>3, <2>4
<1>5. k - (m + 1) \in Nat /\ m + 1 + (k - (m + 1)) = k /\ k <= N + 1
  <2> HIDE DEF N
  <2> QED BY <1>1
<1>6. k - (m + 1) \in S
  <2> HIDE DEF S
  <2> QED BY <1>3, <1>4, <1>5, Induction
<1>7. B(m + 1) <= B(k)
  BY <1>5, <1>6
<1> HIDE DEF B
<1> QED BY <1>1, <1>7 DEF B

-----------------------------------------------------------------------------
(* The walk of a threadgroup.                                              *)

\* Two places in the numbering with one number are the same.
LEMMA OnePlace ==
  ASSUME NEW v \in View, NEW m \in 1..Len(CallsOf(v)), NEW k \in 1..Len(CallsOf(v)),
         NEW i \in Nat, NEW j \in Nat, i < BatchesOf(v, m), j < BatchesOf(v, k),
         BatchesBefore[v][m] + i = BatchesBefore[v][k] + j
  PROVE  m = k /\ i = j
<1> DEFINE N == Len(CallsOf(v))
           B(n) == BatchesBefore[v][n]
           a == BatchesOf(v, m)
           b == BatchesOf(v, k)
<1>1. /\ N \in Nat /\ m \in 1..N /\ k \in 1..N /\ m \in 1..(N + 1) /\ k \in 1..(N + 1)
      /\ i < a /\ j < b /\ B(m) + i = B(k) + j
  <2>1. N \in Nat /\ m \in 1..N /\ k \in 1..N
    BY CallFacts
  <2>2. m \in 1..(N + 1) /\ k \in 1..(N + 1)
    <3> HIDE DEF N
    <3> QED BY <2>1
  <2> QED BY <2>1, <2>2
<1>2. B(m) \in Nat /\ B(k) \in Nat /\ a \in Nat /\ b \in Nat
  BY <1>1, BatchesAdd, BatchFacts
<1>3. m < k => B(m) + a <= B(k)
  BY <1>1, BatchesInOrder
<1>4. k < m => B(k) + b <= B(m)
  BY <1>1, BatchesInOrder
<1> HIDE DEF N, B, a, b
<1>5. m = k
  BY <1>1, <1>2, <1>3, <1>4
<1> QED BY <1>1, <1>2, <1>5

\* A batch is before the end of the numbering.
LEMMA BeforeTheEnd ==
  ASSUME NEW v \in View, NEW m \in 1..Len(CallsOf(v)), NEW i \in Nat, i < BatchesOf(v, m)
  PROVE  BatchesBefore[v][m] + i < BatchesBefore[v][Len(CallsOf(v)) + 1]
<1> DEFINE N == Len(CallsOf(v))
           b == BatchesBefore[v][m]
           e == BatchesBefore[v][N + 1]
           a == BatchesOf(v, m)
<1>1. N \in Nat /\ m \in 1..N /\ N + 1 \in 1..(N + 1) /\ m \in 1..(N + 1) /\ m < N + 1
  <2>1. N \in Nat /\ m \in 1..N
    BY CallFacts
  <2> HIDE DEF N
  <2> QED BY <2>1
<1>2. b \in Nat /\ e \in Nat /\ a \in Nat /\ b + a <= e
  BY <1>1, BatchesAdd, BatchFacts, BatchesInOrder
<1> HIDE DEF b, e, a
<1> QED BY <1>2 DEF a, b, e

\* Where a walk ends: at the call and local batch of the number it was to count
\* to, or past the last call.
Landed(w, m, l) ==
  /\ w[1] \in m..(NumDC + 1) /\ w[2] \in Nat
  /\ w[1] # NumDC + 1 => w[2] < Batches(w[1]) /\ Before(w[1]) + w[2] = Before(m) + l
  /\ w[1] = NumDC + 1 => Before(NumDC + 1) <= Before(m) + l

\* The walk over the draw calls ends at the batch it was to count to.
LEMMA WalkLands ==
  ASSUME view \in View, NEW m \in 1..NumDC, NEW l \in Nat
  PROVE  Landed(Walk(m, l), m, l)
<1> DEFINE N == NumDC
           bs(k) == Batches(k)
           B(k) == Before(k)
           D == (1..N) \X Nat
           Step(a, s) == IF s[2] < bs(s[1]) THEN s
                         ELSE IF s[1] = N THEN <<s[1] + 1, s[2]>>
                         ELSE a[<<s[1] + 1, s[2] - bs(s[1])>>]
           Walks(a) == a = [s \in D |-> Step(a, s)]
           S == {n \in Nat : \E a : \A s \in D : N - s[1] <= n => a[s] = Step(a, s)}
<1>1. /\ N \in Nat /\ m \in 1..N
      /\ \A k \in 1..N : bs(k) \in Nat /\ B(k) \in Nat /\ B(k + 1) = B(k) + bs(k)
      /\ B(N + 1) \in Nat
  <2>1. N = Len(CallsOf(view)) /\ N \in Nat /\ m \in 1..N
    BY CallFacts DEF NumDC, DC, CallsOf
  <2>2. ASSUME NEW k \in 1..N
        PROVE  bs(k) \in Nat /\ B(k) \in Nat /\ B(k + 1) = B(k) + bs(k)
    <3>1. bs(k) = BatchesOf(view, k)
      BY DEF Batches, BatchesOf, DC, CallsOf
    <3>2. k \in 1..(N + 1)
      <4> HIDE DEF N
      <4> QED BY <2>1
    <3> QED BY <2>1, <3>1, <3>2, BatchesAdd, BatchFacts DEF Before
  <2>3. B(N + 1) \in Nat
    <3>1. N + 1 \in 1..(N + 1)
      <4> HIDE DEF N
      <4> QED BY <2>1
    <3> QED BY <2>1, <3>1, BatchesAdd DEF Before
  <2> QED BY <2>1, <2>2, <2>3
<1>2. ASSUME NEW s \in D
      PROVE  /\ s = <<s[1], s[2]>> /\ s[1] \in 1..N /\ s[2] \in Nat
             /\ ~(s[2] < bs(s[1])) /\ s[1] # N => /\ <<s[1] + 1, s[2] - bs(s[1])>> \in D
                                                  /\ N - (s[1] + 1) = (N - s[1]) - 1
                                                  /\ N - s[1] \in Nat \ {0}
  <2> HIDE DEF N, bs
  <2> QED BY <1>1
<1>3. 0 \in S
  <2> DEFINE a == [s \in D |-> IF s[2] < bs(s[1]) THEN s ELSE <<s[1] + 1, s[2]>>]
  <2>1. ASSUME NEW s \in D, N - s[1] <= 0 PROVE a[s] = Step(a, s)
    <3>1. s[1] = N
      <4> HIDE DEF N, bs
      <4> QED BY <1>1, <1>2, <2>1
    <3> HIDE DEF N, bs
    <3> QED BY <3>1
  <2> HIDE DEF a, Step, D
  <2> QED BY <2>1
<1>4. ASSUME NEW n \in Nat, n \in S PROVE n + 1 \in S
  <2>1. PICK a : \A s \in D : N - s[1] <= n => a[s] = Step(a, s)
    BY <1>4
  <2> DEFINE h == [s \in D |-> Step(a, s)]
  <2>2. ASSUME NEW s \in D, N - s[1] <= n + 1 PROVE h[s] = Step(h, s)
    <3>1. CASE s[2] < bs(s[1]) \/ s[1] = N
      <4> HIDE DEF N, bs
      <4> QED BY <3>1
    <3>2. CASE ~(s[2] < bs(s[1])) /\ s[1] # N
      <4> DEFINE b == <<s[1] + 1, s[2] - bs(s[1])>>
      <4>1. b \in D /\ N - b[1] <= n
        <5>1. b \in D /\ b[1] = s[1] + 1
          <6> HIDE DEF D, bs, N
          <6> QED BY <1>2, <3>2
        <5>2. N - (s[1] + 1) <= n
          <6> DEFINE k == s[1]
          <6>1. k \in 1..N /\ N \in Nat /\ N - k <= n + 1
            BY <1>1, <1>2, <2>2
          <6> HIDE DEF N, k
          <6>2. N - (k + 1) <= n
            BY <6>1
          <6> QED BY <6>2 DEF k
        <5> HIDE DEF b, N, D
        <5> QED BY <5>1, <5>2
      <4>2. a[b] = Step(a, b)
        <5> HIDE DEF b, Step, D
        <5> QED BY <2>1, <4>1
      <4>3. h[b] = a[b]
        <5> HIDE DEF b, Step, D
        <5> QED BY <4>1, <4>2
      <4>4. h[s] = Step(a, s)
        <5> HIDE DEF Step, D
        <5> QED OBVIOUS
      <4>5. Step(a, s) = a[b]
        <5> HIDE DEF N, bs
        <5> QED BY <3>2
      <4>6. Step(h, s) = h[b]
        <5> HIDE DEF h, N, bs
        <5> QED BY <3>2
      <4> HIDE DEF Step, h, b
      <4> QED BY <4>3, <4>4, <4>5, <4>6
    <3> HIDE DEF h, Step
    <3> QED BY <3>1, <3>2
  <2> HIDE DEF h, Step, D
  <2> QED BY <2>2
<1>5. \E a : Walks(a)
  <2>1. N \in S
    <3>1. N \in Nat
      BY <1>1
    <3> HIDE DEF S, N
    <3> QED BY <1>3, <1>4, <3>1, Induction
  <2>2. PICK a : \A s \in D : N - s[1] <= N => a[s] = Step(a, s)
    BY <2>1
  <2> DEFINE h == [s \in D |-> a[s]]
  <2>3. ASSUME NEW s \in D PROVE h[s] = Step(h, s)
    <3>1. N - s[1] <= N
      <4> HIDE DEF N
      <4> QED BY <1>1, <1>2
    <3>2. h[s] = Step(a, s)
      <4> HIDE DEF Step, D
      <4> QED BY <2>2, <3>1
    <3>3. Step(a, s) = Step(h, s)
      <4>1. CASE s[2] < bs(s[1]) \/ s[1] = N
        <5> HIDE DEF N, bs
        <5> QED BY <4>1
      <4>2. CASE ~(s[2] < bs(s[1])) /\ s[1] # N
        <5> DEFINE b == <<s[1] + 1, s[2] - bs(s[1])>>
        <5>1. b \in D
          BY <1>2, <4>2
        <5>2. h[b] = a[b]
          <6> HIDE DEF b, D
          <6> QED BY <5>1
        <5>3. Step(a, s) = a[b]
          <6> HIDE DEF N, bs
          <6> QED BY <4>2
        <5>4. Step(h, s) = h[b]
          <6> HIDE DEF h, N, bs
          <6> QED BY <4>2
        <5> HIDE DEF Step, h, b
        <5> QED BY <5>2, <5>3, <5>4
      <4> HIDE DEF Step, h
      <4> QED BY <4>1, <4>2
    <3> HIDE DEF h, Step
    <3> QED BY <3>2, <3>3
  <2>4. h = [s \in D |-> h[s]]
    <3> HIDE DEF D
    <3> QED OBVIOUS
  <2>5. Walks(h)
    <3> HIDE DEF h, Step, D
    <3> QED BY <2>3, <2>4
  <2> HIDE DEF h, Walks
  <2> QED BY <2>5
<1> DEFINE at == CHOOSE a : Walks(a)
<1>6. Walks(at)
  <2> HIDE DEF Walks
  <2> QED BY <1>5
<1>7. Walk(m, l) = at[<<m, l>>]
  BY Zenon DEF Walk
<1> HIDE DEF at
<1> DEFINE Ends(w, k, j) ==
             /\ w[1] \in k..(N + 1) /\ w[2] \in Nat
             /\ w[1] # N + 1 => w[2] < bs(w[1]) /\ B(w[1]) + w[2] = B(k) + j
             /\ w[1] = N + 1 => B(N + 1) <= B(k) + j
           T == {n \in Nat : \A s \in D : N - s[1] <= n => Ends(at[s], s[1], s[2])}
<1>8. ASSUME NEW s \in D PROVE at[s] = Step(at, s)
  <2> HIDE DEF Step, D
  <2> QED BY <1>6
<1>9. ASSUME NEW s \in D, s[2] < bs(s[1]) \/ s[1] = N PROVE Ends(at[s], s[1], s[2])
  <2> DEFINE k == s[1]
             j == s[2]
             w == at[s]
  <2>1. k \in 1..N /\ j \in Nat /\ bs(k) \in Nat /\ B(k) \in Nat /\ B(k + 1) = B(k) + bs(k)
    BY <1>1, <1>2
  <2>2. j < bs(k) => w = s
    <3> HIDE DEF N, bs
    <3> QED BY <1>8
  <2>3. ~(j < bs(k)) => w = <<k + 1, j>> /\ k = N
    <3> HIDE DEF N, bs
    <3> QED BY <1>8, <1>9
  <2>4. CASE j < bs(k)
    <3>1. w[1] = k /\ w[2] = j /\ k # N + 1 /\ k \in k..(N + 1)
      <4>1. w[1] = k /\ w[2] = j
        <5> HIDE DEF w
        <5> QED BY <2>2, <2>4
      <4> HIDE DEF w, N, k
      <4> QED BY <1>1, <2>1, <4>1
    <3> HIDE DEF w, N, k, j, bs, B
    <3>2. Ends(w, k, j)
      BY <2>1, <2>4, <3>1
    <3> QED BY <3>2 DEF w, k, j
  <2>5. CASE ~(j < bs(k))
    <3>1. w[1] = N + 1 /\ w[2] = j /\ k = N /\ N + 1 \in k..(N + 1) /\ N \in Nat
      <4>1. w[1] = k + 1 /\ w[2] = j /\ k = N
        <5> HIDE DEF w, N
        <5> QED BY <2>3, <2>5
      <4> HIDE DEF w, N, k
      <4> QED BY <1>1, <2>1, <4>1
    <3> HIDE DEF w, N, k, j, bs, B
    <3>2. B(N + 1) <= B(k) + j
      BY <2>1, <2>5, <3>1
    <3>3. Ends(w, k, j)
      BY <2>1, <3>1, <3>2
    <3> QED BY <3>3 DEF w, k, j
  <2> HIDE DEF Ends, w, k, j, bs
  <2> QED BY <2>4, <2>5 DEF w, k, j
<1>10. ASSUME NEW s \in D, ~(s[2] < bs(s[1])) /\ s[1] # N,
              Ends(at[<<s[1] + 1, s[2] - bs(s[1])>>], s[1] + 1, s[2] - bs(s[1]))
       PROVE  Ends(at[s], s[1], s[2])
  <2> DEFINE k == s[1]
             j == s[2]
             w == at[s]
             c == k + 1
             i == j - bs(k)
  <2>1. k \in 1..N /\ N \in Nat /\ j \in Nat /\ bs(k) \in Nat /\ B(k) \in Nat /\ B(k + 1) = B(k) + bs(k)
    BY <1>1, <1>2
  <2>2. w = at[<<c, i>>]
    <3> HIDE DEF N, bs
    <3> QED BY <1>8, <1>10
  <2>3. Ends(w, c, i)
    <3> HIDE DEF Ends, w, c, i
    <3> QED BY <1>10, <2>2 DEF c, i
  <2>4. B(c) + i = B(k) + j
    <3> HIDE DEF bs, B, k, j
    <3> QED BY <2>1
  <2>5. w[1] \in k..(N + 1)
    <3> HIDE DEF bs, B, k, j, w, N, i
    <3> QED BY <2>1, <2>3
  <2>6. Ends(w, k, j)
    <3> HIDE DEF bs, B, k, j, w, N, c, i
    <3> QED BY <2>3, <2>4, <2>5
  <2> HIDE DEF Ends
  <2> QED BY <2>6
<1>11. 0 \in T
  <2>1. ASSUME NEW s \in D, N - s[1] <= 0 PROVE Ends(at[s], s[1], s[2])
    <3>1. s[1] = N
      <4> HIDE DEF N, bs
      <4> QED BY <1>1, <1>2, <2>1
    <3> HIDE DEF Ends, D
    <3> QED BY <1>9, <3>1
  <2> HIDE DEF Ends, D
  <2> QED BY <2>1
<1>12. ASSUME NEW n \in Nat, n \in T PROVE n + 1 \in T
  <2>1. ASSUME NEW s \in D, N - s[1] <= n + 1 PROVE Ends(at[s], s[1], s[2])
    <3>1. CASE s[2] < bs(s[1]) \/ s[1] = N
      <4> HIDE DEF Ends, D, bs, N
      <4> QED BY <1>9, <3>1
    <3>2. CASE ~(s[2] < bs(s[1])) /\ s[1] # N
      <4> DEFINE b == <<s[1] + 1, s[2] - bs(s[1])>>
      <4>1. b \in D /\ N - b[1] <= n /\ b[1] = s[1] + 1 /\ b[2] = s[2] - bs(s[1])
        <5>1. b \in D /\ b[1] = s[1] + 1 /\ b[2] = s[2] - bs(s[1])
          <6> HIDE DEF D, bs, N
          <6> QED BY <1>2, <3>2
        <5>2. N - (s[1] + 1) <= n
          <6> DEFINE k == s[1]
          <6>1. k \in 1..N /\ N \in Nat /\ N - k <= n + 1
            BY <1>1, <1>2, <2>1
          <6> HIDE DEF N, k
          <6>2. N - (k + 1) <= n
            BY <6>1
          <6> QED BY <6>2 DEF k
        <5> HIDE DEF b, N, D
        <5> QED BY <5>1, <5>2
      <4>2. Ends(at[b], b[1], b[2])
        <5> HIDE DEF b, Ends, D
        <5> QED BY <1>12, <4>1
      <4>3. Ends(at[b], s[1] + 1, s[2] - bs(s[1]))
        <5> HIDE DEF b, Ends, D, bs
        <5> QED BY <4>1, <4>2
      <4> HIDE DEF Ends, D, bs, N
      <4> QED BY <1>10, <3>2, <4>3
    <3> HIDE DEF Ends, D, bs, N
    <3> QED BY <3>1, <3>2
  <2> HIDE DEF Ends, D
  <2> QED BY <2>1
<1>13. N \in T
  <2>1. N \in Nat
    BY <1>1
  <2> HIDE DEF T, N
  <2> QED BY <1>11, <1>12, <2>1, Induction
<1>14. Ends(at[<<m, l>>], m, l)
  <2> DEFINE s == <<m, l>>
  <2>1. s \in D /\ s[1] = m /\ s[2] = l /\ N - s[1] <= N
    <3> HIDE DEF N
    <3> QED BY <1>1
  <2>2. Ends(at[s], s[1], s[2])
    <3> HIDE DEF s, D, Ends
    <3> QED BY <1>13, <2>1
  <2> HIDE DEF Ends
  <2> QED BY <2>1, <2>2
<1> QED BY <1>7, <1>14 DEF Landed

\* Whatever m leaves out is hidden by something m keeps.
GoodMask(v, m) ==
  \A x \in ItemsOf[v] : \A p \in DOMAIN FragmentsOf(v, x) :
    \/ SlotOf(v, x) \in m
    \/ \E y \in ItemsOf[v] : /\ SlotOf(v, y) \in m /\ p \in DOMAIN FragmentsOf(v, y)
                             /\ FragmentsOf(v, y)[p] < FragmentsOf(v, x)[p]

-----------------------------------------------------------------------------
(* The invariant.                                                          *)

Group == [mesh : Nat, block : Nat, local : Nat, todo : SUBSET Items]

\* What TypeOK leaves out.
Shape ==
  /\ TypeOK
  /\ tgs \in [TG -> Group] /\ IsFiniteSet(q3)
  /\ stage = "stage1" => IsFiniteSet(q2) /\ Cardinality(q2) <= n2
  /\ Cardinality(q3) <= n3
  /\ stage = "stage2" => q2 \subseteq Items \X (Nat \cup {None})
  /\ q3 \subseteq Items \X Nat
  /\ shown \in (1..Len(Views)) \cup {None} /\ still \in BOOLEAN
  /\ \A p \in Pixel : fb[p] = Empty
                        \/ \E x \in Items : p \in Covers(x) /\ fb[p] = Encode(x, p)

Begun == stage \in {"dispatch", "stage1", "stage2", "cull", "resolve"}

\* Between the steps of a frame.
FrameInv ==
  /\ stage = "host" => phase = 1 /\ mask2 = {} /\ packed = {}
  /\ stage = "host" \/ (stage \in {"compact", "dispatch"} /\ phase = 1) =>
       lost = {} /\ \A p \in Pixel : fb[p] = Empty
  /\ stage \in {"host", "compact", "dispatch"} =>
       batchCounter = 0 /\ tgs = [g \in TG |-> NotStarted] /\ n2 = 0 /\ q2 = {}
  /\ stage \in {"host", "compact", "dispatch", "stage1"} => n3 = 0 /\ q3 = {}
  /\ stage # "stage1" => \A g \in TG : tgs[g].todo = {}
  /\ stage = "compact" => UseCompacted
  /\ stage = "cull" => hiZ
  /\ phase = 2 => UseTwoPhase
  /\ stage = "resolve" /\ UseTwoPhase => phase = 2
  /\ stage # "host" /\ (UseTwoPhase \/ stage \notin {"compact", "dispatch"}) => NumInstances <= cap
  /\ shown # None => \A s \in SlotsOf(shown) : s < cap
  /\ stage = "submitted" \/ (stage = "cull" /\ ~UseTwoPhase) => shown = view
  /\ ~hiZ => mask = AllBits

BatchNo(x) == Before(x[1]) + x[3] \div Batch

\* The batches claimed.
ClaimInv ==
  /\ \A g \in TG : /\ ~HasReturned(g) => Before(tgs[g].mesh) + tgs[g].local = tgs[g].block
                   /\ HasReturned(g) => /\ stage # "host" /\ tgs[g].todo = {}
                                        /\ Before(NumDC + 1) <= batchCounter
                   /\ tgs[g].todo # {} => tgs[g].block < batchCounter
                   /\ \A x \in tgs[g].todo : x[3] \div Batch = tgs[g].local /\ IsDrawn(Slot(x))
  /\ \A g, h \in TG : g # h /\ tgs[g].todo # {} /\ tgs[h].todo # {} => tgs[g].block # tgs[h].block

\* The lists of the compaction are those of the mask.
PackedInv ==
  Begun /\ UseCompacted /\ (UseTwoPhase \/ (shown = view /\ stage # "cull")) =>
    \A s \in Slots : s \in packed <=> s \in MaskInUse

Shown(x, p) == fb[p] <= Encode(x, p) \/ <<x, p>> \in lost
Unclaimed(x) == stage \in {"dispatch", "stage1"} /\ batchCounter <= BatchNo(x) /\ IsDrawn(Slot(x))
InTodo(x) == \E g \in TG : x \in tgs[g].todo
Queued(x, p) == \/ stage = "stage1" /\ x \in q2
                \/ stage = "stage2" /\ \E k \in {None, p \div Tile} : <<x, k>> \in q2 \cup q3
Pending(x, p) == Unclaimed(x) \/ InTodo(x) \/ Queued(x, p)

\* Nothing to be drawn is forgotten.
DrawInv ==
  stage \in {"stage1", "stage2", "cull", "resolve"} =>
    \A x \in Items : IsDrawn(Slot(x)) => \A p \in Covers(x) : Shown(x, p) \/ Pending(x, p)

\* Nothing is drawn or dropped while it is pending, nor both drawn and dropped;
\* and an item is in one place.
Untouched(x, p) == fb[p] # Encode(x, p) /\ <<x, p>> \notin lost
OnceInv ==
  \A x \in Items :
    /\ \A p \in Covers(x) :
         /\ Pending(x, p) => Untouched(x, p)
         /\ <<x, p>> \in lost => fb[p] # Encode(x, p)
         /\ Begun /\ phase = 1 /\ ~IsDrawn(Slot(x)) => Untouched(x, p)
         /\ phase = 2 /\ stage \in {"compact", "dispatch"} /\ Slot(x) \in mask2 => Untouched(x, p)
    /\ stage = "stage1" /\ x \in q2 =>
         /\ \A g \in TG : x \notin tgs[g].todo
         /\ BatchNo(x) < batchCounter /\ IsDrawn(Slot(x))
    /\ stage = "stage2" =>
         /\ \A u \in q2 \cup q3 : u[1] = x => IsDrawn(Slot(x))
         /\ \A u \in q2 : u[1] = x /\ u[2] = None => \A w \in q2 \cup q3 : w[1] = x => w = u
         /\ \A u \in q2 : u[1] = x => u \notin q3

\* What the second phase does not draw is there or behind what is there.
LeftOutInv ==
  EvenLevels /\ phase = 2 => \A x \in Items : Slot(x) \notin mask2 => \A p \in Covers(x) : Shown(x, p)

\* Where the mask stands between two frames of a view.
MaskInv ==
  EvenLevels =>
    /\ stage = "resolve" /\ UseTwoPhase => GoodMask(view, mask)
    /\ ~(stage = "resolve" /\ UseTwoPhase) /\ ~(stage = "cull" /\ ~UseTwoPhase) =>
         (shown # None => GoodMask(shown, mask))

\* What the image shows once it is resolved.
ImageInv ==
  stage = "submitted" \/ (stage = "cull" /\ ~UseTwoPhase) =>
    \A p \in Pixel :
      (hiZ => EvenLevels) /\ (hiZ /\ ~twoPhase => still /\ \A e \in lost : e[2] # p) => NearestAt(p)

FrameOK == Shape /\ FrameInv /\ ClaimInv
DrawsOK == PackedInv /\ DrawInv /\ OnceInv /\ LeftOutInv
RasterInv == FrameOK /\ DrawsOK /\ MaskInv /\ ImageInv

-----------------------------------------------------------------------------
(* What the steps of the proof need of a state.                            *)

\* What is said of every view, said of the bound one.
LEMMA BoundView ==
  /\ CallsOf(view) = DC /\ NumDC = Len(CallsOf(view)) /\ NumInstances = CountOf(view)
  /\ Slots = SlotsOf(view) /\ Items = ItemsOf[view]
  /\ \A x : Slot(x) = SlotOf(view, x) /\ Tri(x).z = FragmentsOf(view, x)
            /\ Covers(x) = DOMAIN FragmentsOf(view, x)
  /\ \A m : Batches(m) = BatchesOf(view, m) /\ Before(m) = BatchesBefore[view][m]
BY DEF CallsOf, DC, NumDC, NumInstances, CountOf, Slots, SlotsOf, Items, Slot, SlotOf, Tri,
       FragmentsOf, Covers, Batches, BatchesOf, Before

\* What stays the same while a view is bound.
LEMMA SameView ==
  ASSUME view' = view
  PROVE  /\ Items' = Items /\ NumDC' = NumDC /\ NumInstances' = NumInstances /\ Slots' = Slots
         /\ \A x : /\ Slot(x)' = Slot(x) /\ Tri(x)' = Tri(x) /\ Covers(x)' = Covers(x)
                   /\ BatchNo(x)' = BatchNo(x) /\ Box(x)' = Box(x)
         /\ \A x, p : Encode(x, p)' = Encode(x, p)
         /\ \A m : Before(m)' = Before(m) /\ Batches(m)' = Batches(m)
<1>1. Items' = Items /\ NumDC' = NumDC /\ NumInstances' = NumInstances /\ Slots' = Slots
  BY DEF Items, NumDC, DC, NumInstances, Slots
<1>2. ASSUME NEW x PROVE Slot(x)' = Slot(x) /\ Tri(x)' = Tri(x) /\ Covers(x)' = Covers(x)
  BY DEF Slot, DC, Tri, Covers
<1>3. ASSUME NEW m PROVE Before(m)' = Before(m) /\ Batches(m)' = Batches(m)
  BY DEF Before, Batches, DC
<1>4. ASSUME NEW x PROVE BatchNo(x)' = BatchNo(x) /\ Box(x)' = Box(x)
  BY <1>3 DEF BatchNo, Box
<1>5. ASSUME NEW x, NEW p PROVE Encode(x, p)' = Encode(x, p)
  <2>1. GlobalTri(x)' = GlobalTri(x) /\ Tri(x)' = Tri(x)
    BY <1>2 DEF GlobalTri, DC
  <2> QED BY <2>1 DEF Encode
<1> QED BY <1>1, <1>2, <1>3, <1>4, <1>5

\* No two items store the same in a pixel.
LEMMA CodesApart ==
  ASSUME view \in View, NEW x \in Items, NEW y \in Items, NEW p \in Covers(x), p \in Covers(y),
         Encode(x, p) = Encode(y, p)
  PROVE  x = y
BY Decoded

\* Drawing takes minima.
LEMMA Drawn ==
  ASSUME view \in View, fb \in [Pixel -> 0..Empty],
         NEW units, \A u \in units : u[1] \in Items /\ u[2] \subseteq Covers(u[1]),
         Draw(units)
  PROVE  /\ fb' \in [Pixel -> 0..Empty]
         /\ \A p \in Pixel : /\ fb'[p] <= fb[p]
                             /\ fb'[p] = fb[p] \/ \E u \in units : p \in u[2] /\ fb'[p] = Encode(u[1], p)
         /\ \A u \in units : \A p \in u[2] : fb'[p] <= Encode(u[1], p)
<1> DEFINE T(p) == {fb[p]} \cup {Encode(u[1], p) : u \in {v \in units : p \in v[2]}}
<1>1. fb' = [p \in Pixel |-> Min(T(p))]
  BY DEF Draw
<1>2. ASSUME NEW u \in units, NEW p \in u[2]
      PROVE  p \in Pixel /\ Encode(u[1], p) \in Nat
  BY Decoded
<1>3. ASSUME NEW p \in Pixel
      PROVE  Min(T(p)) \in T(p) /\ \A k \in T(p) : Min(T(p)) <= k
  <2>1. fb[p] \in Nat
    BY DepthsOrdered
  <2>2. T(p) \subseteq Nat /\ T(p) # {}
    BY <1>2, <2>1
  <2> HIDE DEF T
  <2> QED BY <2>2, LeastIsMin
<1>4. ASSUME NEW p \in Pixel
      PROVE  /\ fb'[p] \in 0..Empty /\ fb'[p] <= fb[p]
             /\ fb'[p] = fb[p] \/ \E u \in units : p \in u[2] /\ fb'[p] = Encode(u[1], p)
  <2>1. fb'[p] = Min(T(p))
    <3> HIDE DEF T
    <3> QED BY <1>1
  <2>2. fb'[p] \in T(p) /\ fb'[p] <= fb[p]
    <3>1. fb[p] \in T(p)
      OBVIOUS
    <3> HIDE DEF T
    <3> QED BY <1>3, <2>1, <3>1
  <2>3. fb'[p] = fb[p] \/ \E u \in units : p \in u[2] /\ fb'[p] = Encode(u[1], p)
    BY <2>2
  <2>4. fb'[p] \in Nat
    BY <1>2, <2>3, DepthsOrdered
  <2>5. fb[p] \in 0..Empty /\ Empty \in Nat
    BY DepthsOrdered
  <2> QED BY <2>2, <2>3, <2>4, <2>5
<1>5. ASSUME NEW u \in units, NEW p \in u[2] PROVE fb'[p] <= Encode(u[1], p)
  <2>1. p \in Pixel /\ Encode(u[1], p) \in T(p)
    BY <1>2
  <2>2. fb'[p] = Min(T(p))
    <3> HIDE DEF T
    <3> QED BY <1>1, <2>1
  <2> HIDE DEF T
  <2> QED BY <1>3, <2>1, <2>2
<1>6. fb' \in [Pixel -> 0..Empty]
  <2>1. fb' = [p \in Pixel |-> fb'[p]]
    <3> HIDE DEF T
    <3> QED BY <1>1
  <2> QED BY <1>4, <2>1
<1> QED BY <1>4, <1>5, <1>6

\* The slots of a view have bits in the masks, and so do all below a bound.
LEMMA SlotsHaveBits ==
  /\ \A v \in View : \A x \in ItemsOf[v] : SlotOf(v, x) \in SlotsOf(v)
  /\ \A v \in View : SlotsOf(v) \subseteq AllBits
  /\ \A n \in Nat : \A s \in Nat : s < n => s \in BitsFor(n)
<1>1. \A v \in View : SlotsOf(v) \subseteq AllBits
  BY CallFacts, SizeFacts DEF SlotsOf, AllBits
<1>2. ASSUME NEW n \in Nat, NEW s \in Nat, s < n PROVE s \in BitsFor(n)
  <2> DEFINE a == n + Word - 1
             q == a \div Word
             w == Word * q
  <2>1. a \in Nat /\ Word \in Nat \ {0}
    BY SizeFacts
  <2>2. q \in Nat /\ a % Word \in 0..(Word - 1) /\ a = w + (a % Word)
    BY <2>1, Quotient
  <2>3. w \in Nat
    <3> HIDE DEF q
    <3> QED BY <2>1, <2>2
  <2>4. n <= w
    <3> DEFINE r == a % Word
    <3>1. r \in 0..(Word - 1) /\ n + Word - 1 = w + r
      BY <2>2
    <3> HIDE DEF r, w
    <3> QED BY <2>1, <2>3, <3>1
  <2>5. BitsFor(n) = 0..(w - 1)
    BY DEF BitsFor
  <2> HIDE DEF w
  <2> QED BY <1>2, <2>3, <2>4, <2>5
<1> QED BY <1>1, <1>2, SlotFacts

\* A mask of all bits leaves nothing out.
LEMMA AllBitsGood == \A v \in View : GoodMask(v, AllBits)
BY SlotsHaveBits DEF GoodMask

\* A fragment of a slot that is not visible is behind what was drawn.
LEMMA Hidden ==
  ASSUME EvenLevels, Shape, NEW x \in Items, Slot(x) \notin NowVisible, NEW p \in Covers(x)
  PROVE  p \in Pixel /\ Depths[p] = Depth(fb[p]) /\ Depths[p] < Tri(x).z[p] /\ fb[p] < Encode(x, p)
<1>1. view \in View /\ fb \in [Pixel -> 0..Empty]
  BY DEF Shape, TypeOK, View
<1>2. /\ Tri(x).z[p] \in 0..(Far - 1) /\ p \in Pixel /\ Encode(x, p) \in Nat
      /\ Depth(Encode(x, p)) = Tri(x).z[p]
  BY <1>1, Decoded
<1>3. \A q \in Pixel : Depths[q] = Depth(fb[q]) /\ Depths[q] \in 0..Far /\ fb[q] \in Nat
  <2> SUFFICES ASSUME NEW q \in Pixel
               PROVE  Depths[q] = Depth(fb[q]) /\ Depths[q] \in 0..Far /\ fb[q] \in Nat
    OBVIOUS
  <2>1. Depths[q] = Depth(fb[q])
    BY DEF Depths
  <2>2. fb[q] \in Nat /\ fb[q] <= Empty
    BY <1>1, DepthsOrdered
  <2> QED BY <2>1, <2>2, DepthsOrdered, SizeFacts
<1>4. Depths \in [Pixel -> 0..Far]
  BY <1>3 DEF Depths
<1> DEFINE b == Views[view].box[Slot(x)]
<1>5. ~BoxVisible(b, Depths)
  <2>1. Slot(x) \in Slots
    BY <1>1, BoundView, SlotsHaveBits
  <2> QED BY <2>1 DEF NowVisible, Box
<1>6. /\ b \in [straddles : BOOLEAN, lo : Int, hi : Int, near : Int]
      /\ b.straddles \/ (b.lo <= p /\ p <= b.hi /\ b.near <= Tri(x).z[p])
  BY <1>1, BoundView, FragmentFacts
<1>7. EvenLevel(b)
  <2>1. Slot(x) \in DOMAIN Views[view].box
    <3>1. Views[view].box \in [SlotsOf(view) -> [straddles : BOOLEAN, lo : Int, hi : Int, near : Int]]
      BY <1>1, BoxFacts
    <3>2. Slot(x) \in SlotsOf(view)
      BY <1>1, BoundView, SlotsHaveBits
    <3> QED BY <3>1, <3>2
  <2> QED BY <1>1, <2>1 DEF EvenLevels, EvenLevel, View
<1> HIDE DEF b
<1>8. ~b.straddles /\ Depths[p] < b.near
  <2>1. b.straddles \/ (b.lo <= p /\ p <= b.hi)
    BY <1>6
  <2>2. ~b.straddles
    BY <1>5 DEF BoxVisible
  <2> QED BY <1>2, <1>4, <1>5, <1>6, <1>7, <2>1, <2>2, HiddenBox
<1>9. Depths[p] < Tri(x).z[p]
  <2>1. b.near \in Int
    BY <1>6
  <2> QED BY <1>2, <1>3, <1>6, <1>8, <2>1
<1>10. fb[p] < Encode(x, p)
  <2>1. ~(Encode(x, p) <= fb[p])
    BY <1>2, <1>3, <1>9, DepthsOrdered
  <2> QED BY <1>2, <1>3, <2>1
<1> QED BY <1>2, <1>3, <1>9, <1>10

-----------------------------------------------------------------------------
(* The host's calls.                                                       *)

\* Between frames there is nothing to be drawn.
LEMMA AtHost == FrameInv /\ stage = "host" => DrawsOK /\ ImageInv
<1> SUFFICES ASSUME FrameInv, stage = "host" PROVE DrawsOK /\ ImageInv
  OBVIOUS
<1>1. /\ phase = 1 /\ lost = {} /\ q2 = {} /\ q3 = {}
      /\ \A g \in TG : tgs[g].todo = {}
  BY DEF FrameInv
<1>2. PackedInv /\ DrawInv /\ LeftOutInv /\ ImageInv
  BY <1>1 DEF PackedInv, DrawInv, LeftOutInv, ImageInv, Begun
<1>3. \A x, p : ~Pending(x, p)
  BY <1>1 DEF Pending, Unclaimed, InTodo, Queued
<1>4. OnceInv
  BY <1>1, <1>3 DEF OnceInv, Begun
<1> QED BY <1>2, <1>4 DEF DrawsOK

\* The same of the next state.
LEMMA AtHostNext == (FrameInv /\ stage = "host" => DrawsOK /\ ImageInv)'
BY AtHost, PTL

\* Nor is anything claimed.
LEMMA NoClaims ==
  view \in View /\ tgs = [g \in TG |-> NotStarted] => ClaimInv
<1> SUFFICES ASSUME view \in View, tgs = [g \in TG |-> NotStarted] PROVE ClaimInv
  OBVIOUS
<1>1. 1 <= NumDC /\ NumDC \in Nat
  BY CallFacts DEF NumDC, DC, CallsOf
<1>2. Before(1) = 0
  BY BatchesAdd DEF Before
<1>3. \A g \in TG : tgs[g].mesh = 1 /\ tgs[g].local = 0 /\ tgs[g].block = 0 /\ tgs[g].todo = {}
  BY DEF NotStarted
<1>4. \A g \in TG : ~HasReturned(g)
  BY <1>1, <1>3 DEF HasReturned
<1> QED BY <1>2, <1>3, <1>4 DEF ClaimInv

\* The same of the next state.
LEMMA NoClaimsNext == (view \in View /\ tgs = [g \in TG |-> NotStarted] => ClaimInv)'
BY NoClaims, PTL

\* Another view: the masks and the shown view stay.
LEMMA BindKeeps ==
  ASSUME RasterInv, NEW v \in 1..Len(Views), BindFrameView(v)
  PROVE  RasterInv'
<1>1. /\ stage = "host" /\ stage' = "host" /\ view' = v
      /\ UNCHANGED <<hiZ, twoPhase, compact, maskVars, packed, phase, drawVars, shownVars>>
      /\ Shape /\ FrameInv /\ MaskInv
  BY DEF BindFrameView, RasterInv, FrameOK
<1>2. /\ phase = 1 /\ lost = {} /\ q2 = {} /\ q3 = {} /\ n2 = 0 /\ n3 = 0 /\ batchCounter = 0
      /\ mask2 = {} /\ packed = {}
      /\ tgs = [g \in TG |-> NotStarted] /\ \A p \in Pixel : fb[p] = Empty
  BY <1>1 DEF FrameInv
<1>3. view' \in View
  BY <1>1 DEF View
<1>4. 1 <= NumDC' /\ NumDC' \in Nat
  BY <1>3, CallFacts DEF NumDC, DC, CallsOf
<1>5. Shape'
  <2>1. TypeOK'
    BY <1>1, <1>2, <1>3, <1>4 DEF TypeOK, Shape, View, NotStarted, maskVars, drawVars, HasReturned
  <2>2. (tgs \in [TG -> Group])'
    BY <1>1, <1>2 DEF Group, NotStarted, drawVars
  <2> QED BY <1>1, <1>2, <2>1, <2>2 DEF Shape, drawVars, shownVars
<1>6. FrameInv'
  BY <1>1, <1>2 DEF FrameInv, UseTwoPhase, maskVars, drawVars, shownVars
<1>7. ClaimInv'
  BY <1>1, <1>2, <1>3, NoClaimsNext DEF drawVars
<1>8. MaskInv'
  BY <1>1 DEF MaskInv, maskVars, shownVars
<1> QED BY <1>1, <1>5, <1>6, <1>7, <1>8, AtHostNext DEF RasterInv, FrameOK

\* A toggle: only the mask may change, to all bits.
LEMMA ToggleKeeps ==
  ASSUME RasterInv, NEW on \in BOOLEAN,
         SetHiZOcclusion(on) \/ SetHiZTwoPhase(on) \/ SetCompactInstances(on)
  PROVE  RasterInv'
<1>1. /\ stage = "host" /\ stage' = "host"
      /\ UNCHANGED <<view, cap, mask2, packed, phase, drawVars, shownVars>>
      /\ hiZ' \in BOOLEAN /\ twoPhase' \in BOOLEAN /\ compact' \in BOOLEAN
      /\ mask' = mask \/ mask' = AllBits
      /\ ~hiZ' => mask' = AllBits
      /\ Shape /\ FrameInv /\ MaskInv /\ ClaimInv
  BY DEF SetHiZOcclusion, SetHiZTwoPhase, SetCompactInstances, maskVars, RasterInv, FrameOK,
         Shape, TypeOK, FrameInv
<1>2. /\ phase = 1 /\ tgs = [g \in TG |-> NotStarted]
  BY <1>1 DEF FrameInv
<1>3. Shape'
  BY <1>1, SameView DEF Shape, TypeOK, Group, drawVars, shownVars
<1>4. FrameInv'
  BY <1>1, <1>2 DEF FrameInv, UseTwoPhase, drawVars, shownVars
<1>5. ClaimInv'
  BY <1>1, <1>2, NoClaimsNext DEF drawVars, Shape, TypeOK, View
<1>6. MaskInv'
  <2>1. EvenLevels => (shown # None => GoodMask(shown, mask))
    BY <1>1 DEF MaskInv
  <2>2. shown # None => GoodMask(shown, AllBits)
    BY <1>1, AllBitsGood DEF Shape, View
  <2> QED BY <1>1, <2>1, <2>2 DEF MaskInv, shownVars
<1> QED BY <1>1, <1>3, <1>4, <1>5, <1>6, AtHostNext DEF RasterInv, FrameOK

\* What ensureVisibilityMask_ leaves.
LEMMA Ensured ==
  ASSUME Shape, EnsureMask
  PROVE  /\ cap' \in Nat /\ cap' \in 0..(Word * Words) /\ cap <= cap' /\ NumInstances <= cap'
         /\ mask' \subseteq AllBits /\ mask2' \subseteq AllBits
         /\ mask = AllBits => mask' = AllBits
         /\ NumInstances <= cap => cap' = cap /\ mask' = mask /\ mask2' = mask2
         /\ \A v \in View : GoodMask(v, mask) => GoodMask(v, mask')
<1>1. NumInstances \in Nat /\ NumInstances <= Word * Words /\ cap \in Nat /\ cap <= Word * Words
      /\ Word * Words \in Nat
  <2>1. NumInstances \in Nat /\ NumInstances <= Word * Words
    BY BoundView, CallFacts DEF Shape, TypeOK, View
  <2>2. Word * Words \in Nat
    BY SizeFacts
  <2>3. cap \in 0..(Word * Words)
    BY DEF Shape, TypeOK
  <2> DEFINE n == Word * Words
  <2> HIDE DEF n
  <2> QED BY <2>1, <2>2, <2>3 DEF n
<1> DEFINE n == Word * Words
<1>2. CASE NumInstances > cap
  <2>1. cap' = NumInstances /\ mask' = AllBits /\ mask2' = {}
    BY <1>2 DEF EnsureMask
  <2> HIDE DEF n
  <2> QED BY <1>1, <1>2, <2>1, AllBitsGood DEF n
<1>3. CASE ~(NumInstances > cap)
  <2>1. UNCHANGED maskVars
    BY <1>3 DEF EnsureMask
  <2> HIDE DEF n
  <2> QED BY <1>1, <1>3, <2>1 DEF n, maskVars, Shape, TypeOK
<1> QED BY <1>2, <1>3

\* The start of a frame, which may grow the masks.
LEMMA BeginKeeps == ASSUME RasterInv, BeginFrame PROVE RasterInv'
<1>1. /\ stage = "host"
      /\ IF UseTwoPhase THEN EnsureMask ELSE UNCHANGED maskVars
      /\ stage' = IF UseCompacted THEN "compact" ELSE "dispatch"
      /\ UNCHANGED <<hostVars, packed, phase, drawVars, shownVars>>
      /\ Shape /\ FrameInv /\ ClaimInv /\ MaskInv
  BY DEF BeginFrame, RasterInv, FrameOK
<1>2. /\ phase = 1 /\ lost = {} /\ q2 = {} /\ q3 = {} /\ n2 = 0 /\ n3 = 0 /\ batchCounter = 0
      /\ tgs = [g \in TG |-> NotStarted] /\ \A p \in Pixel : fb[p] = Empty
      /\ mask2 = {} /\ \A g \in TG : tgs[g].todo = {}
  BY <1>1 DEF FrameInv
<1>3. /\ view' = view /\ UseCompacted' = UseCompacted /\ UseTwoPhase' = UseTwoPhase /\ phase' = 1
      /\ lost' = {} /\ q2' = {} /\ q3' = {} /\ n2' = 0 /\ n3' = 0 /\ batchCounter' = 0
      /\ tgs' = tgs /\ \A p \in Pixel : fb'[p] = Empty
      /\ UNCHANGED <<hiZ, twoPhase, compact, packed, fb, shown, still, image>>
  BY <1>1, <1>2 DEF hostVars, drawVars, shownVars, UseCompacted, UseTwoPhase, NumInstances, NumDC, DC
<1>4. /\ cap' \in 0..(Word * Words) /\ mask' \subseteq AllBits /\ mask2' \subseteq AllBits
      /\ cap \in Nat /\ cap' \in Nat /\ cap <= cap' /\ (mask = AllBits => mask' = AllBits)
      /\ UseTwoPhase => NumInstances <= cap'
      /\ \A v \in View : GoodMask(v, mask) => GoodMask(v, mask')
  <2>1. cap \in Nat /\ cap \in 0..(Word * Words) /\ mask \subseteq AllBits /\ mask2 \subseteq AllBits
    BY <1>1, SizeFacts DEF Shape, TypeOK
  <2>2. CASE UseTwoPhase
    BY <1>1, <2>1, <2>2, Ensured
  <2>3. CASE ~UseTwoPhase
    BY <1>1, <2>1, <2>3 DEF maskVars
  <2> QED BY <2>2, <2>3
<1>5. view \in View /\ shown \in View \cup {None}
  BY <1>1 DEF Shape, TypeOK, View
<1>6. Shape'
  BY <1>1, <1>2, <1>3, <1>4, SameView DEF Shape, TypeOK, Group
<1>7. FrameInv'
  <2>1. shown' # None => \A s \in SlotsOf(shown') : s < cap'
    <3>1. shown # None => \A s \in SlotsOf(shown) : s < cap /\ s \in Int
      BY <1>1 DEF FrameInv, SlotsOf
    <3> QED BY <1>3, <1>4, <3>1
  <2>2. ~hiZ' => mask' = AllBits
    BY <1>1, <1>3, <1>4 DEF FrameInv
  <2>3. /\ stage' = "compact" => UseCompacted'
        /\ UseTwoPhase' => NumInstances' <= cap'
        /\ stage' \in {"compact", "dispatch"}
    BY <1>1, <1>3, <1>4, SameView
  <2>4. tgs' = [g \in TG |-> NotStarted] /\ \A g \in TG : tgs'[g].todo = {}
    BY <1>2, <1>3
  <2> QED BY <1>3, <2>1, <2>2, <2>3, <2>4 DEF FrameInv
<1>8. ClaimInv'
  BY <1>2, <1>3, <1>5, NoClaimsNext
<1>9. PackedInv'
  BY <1>1, <1>3 DEF PackedInv, Begun
<1>10. DrawInv' /\ LeftOutInv' /\ ImageInv'
  BY <1>1, <1>3 DEF DrawInv, LeftOutInv, ImageInv
<1>11. OnceInv'
  <2>1. \A x \in Items' : \A p : p \in Covers(x)' => Untouched(x, p)'
    BY <1>3, <1>5, SameView, Decoded DEF Untouched
  <2>2. stage' \in {"compact", "dispatch"}
    BY <1>1
  <2> QED BY <1>3, <2>1, <2>2 DEF OnceInv
<1>12. MaskInv'
  BY <1>1, <1>3, <1>4, <1>5 DEF MaskInv
<1> QED BY <1>6, <1>7, <1>8, <1>9, <1>10, <1>11, <1>12 DEF RasterInv, FrameOK, DrawsOK

\* The end of a frame.
LEMMA CompletedKeeps == ASSUME RasterInv, Completed PROVE RasterInv'
<1>1. /\ stage = "submitted" /\ stage' = "host" /\ phase' = 1
      /\ batchCounter' = 0 /\ n2' = 0 /\ q2' = {} /\ n3' = 0 /\ q3' = {}
      /\ tgs' = [g \in TG |-> NotStarted]
      /\ fb' = [p \in Pixel |-> Empty] /\ lost' = {} /\ mask2' = {} /\ packed' = {}
      /\ UNCHANGED <<view, hiZ, twoPhase, compact, cap, mask, image, shown, still>>
      /\ Shape /\ FrameInv /\ MaskInv
  BY DEF Completed, Reset, RasterInv, FrameOK, hostVars, shownVars
<1>2. view \in View /\ 1 <= NumDC /\ NumDC \in Nat
  BY <1>1, CallFacts DEF Shape, TypeOK, View, NumDC, DC, CallsOf
<1>3. Shape'
  <2>1. \A g \in TG : tgs'[g].mesh = 1 /\ tgs'[g].local = 0 /\ tgs'[g].block = 0 /\ tgs'[g].todo = {}
    BY <1>1 DEF NotStarted
  <2>2. (tgs \in [TG -> Group])'
    BY <1>1 DEF Group, NotStarted
  <2>3. fb' \in [Pixel -> 0..Empty]
    BY <1>1, DepthsOrdered
  <2>4. Cardinality({}) = 0 /\ IsFiniteSet({})
    BY FS_EmptySet
  <2>5. TypeOK'
    BY <1>1, <1>2, <2>1, <2>3, <2>4, SameView, SizeFacts DEF Shape, TypeOK
  <2>6. \A p \in Pixel : fb'[p] = Empty
    BY <1>1
  <2> QED BY <1>1, <2>2, <2>4, <2>5, <2>6, SameView DEF Shape
<1>4. FrameInv'
  BY <1>1, <1>3 DEF FrameInv, UseTwoPhase, NotStarted
<1>5. ClaimInv'
  BY <1>1, <1>2, NoClaimsNext
<1>6. MaskInv'
  BY <1>1 DEF MaskInv
<1> QED BY <1>1, <1>3, <1>4, <1>5, <1>6, AtHostNext DEF RasterInv, FrameOK

\* Of the slots below the old bound of the masks, the compaction lists those
\* of the mask.
LEMMA CompactKeeps == ASSUME RasterInv, CompactInstances PROVE RasterInv'
<1>1. /\ stage = "compact" /\ stage' = "dispatch"
      /\ \E junk \in SUBSET (Slots \ BitsFor(cap)) :
           packed' = (MaskInUse \cap Slots \cap BitsFor(cap)) \cup junk
      /\ UNCHANGED <<view, hiZ, twoPhase, compact, cap, mask, mask2, phase, batchCounter, tgs,
                     n2, q2, n3, q3, fb, lost, image, shown, still>>
      /\ Shape /\ FrameInv /\ ClaimInv /\ MaskInv /\ OnceInv /\ LeftOutInv
  BY DEF CompactInstances, RasterInv, FrameOK, DrawsOK, hostVars, maskVars, drawVars, shownVars
<1>2. /\ UseCompacted /\ batchCounter = 0 /\ tgs = [g \in TG |-> NotStarted]
      /\ q2 = {} /\ q3 = {} /\ n3 = 0 /\ \A g \in TG : tgs[g].todo = {}
  BY <1>1 DEF FrameInv
<1>3. UseCompacted' = UseCompacted /\ UseTwoPhase' = UseTwoPhase /\ MaskInUse' = MaskInUse
  BY <1>1 DEF UseCompacted, UseTwoPhase, MaskInUse, NumInstances, NumDC, DC
<1>4. view \in View /\ Slots \subseteq AllBits /\ Slots \subseteq Nat /\ cap \in Nat
  BY <1>1, BoundView, SlotsHaveBits, SizeFacts DEF Shape, TypeOK, View, SlotsOf
<1>5. Shape'
  <2>1. packed' \subseteq AllBits
    BY <1>1, <1>4
  <2> QED BY <1>1, <2>1, SameView DEF Shape, TypeOK, Group
<1>6. FrameInv'
  <2>1. Slots' = Slots /\ NumInstances' = NumInstances
    BY <1>1, SameView
  <2> QED BY <1>1, <1>2, <1>3, <2>1 DEF FrameInv
<1>7. ClaimInv'
  BY <1>1, <1>2, <1>4, NoClaimsNext
<1>8. PackedInv'
  <2> SUFFICES ASSUME UseTwoPhase \/ shown = view, NEW s \in Slots
               PROVE  s \in packed' <=> s \in MaskInUse
    BY <1>1, <1>3, SameView DEF PackedInv
  <2>1. s < cap
    <3>1. CASE UseTwoPhase
      <4>1. NumInstances <= cap /\ NumInstances \in Nat
        BY <1>1, <1>4, <3>1, BoundView, CallFacts DEF FrameInv
      <4> QED BY <1>4, <4>1 DEF Slots
    <3>2. CASE shown = view
      <4>1. shown # None
        BY <1>4, <3>2, NoneAssumption DEF View
      <4> QED BY <1>1, <3>2, <4>1, BoundView DEF FrameInv
    <3> QED BY <3>1, <3>2
  <2>2. s \in BitsFor(cap)
    BY <1>4, <2>1, SlotsHaveBits
  <2> QED BY <1>1, <2>2
<1>9. DrawInv' /\ ImageInv'
  BY <1>1 DEF DrawInv, ImageInv
<1>10. LeftOutInv'
  BY <1>1, SameView DEF LeftOutInv, Shown
<1>11. OnceInv'
  <2> SUFFICES ASSUME NEW x \in Items, NEW p \in Covers(x)
               PROVE  /\ Pending(x, p)' => Untouched(x, p)
                      /\ <<x, p>> \in lost => fb[p] # Encode(x, p)
                      /\ phase = 1 => Untouched(x, p)
                      /\ phase = 2 /\ Slot(x) \in mask2 => Untouched(x, p)
    BY <1>1, SameView DEF OnceInv, Untouched
  <2>1. phase = 1 => Untouched(x, p)
    BY <1>1, <1>4, Decoded DEF FrameInv, Untouched
  <2>2. Pending(x, p)' => Unclaimed(x)'
    BY <1>1, <1>2 DEF Pending, InTodo, Queued
  <2>3. Unclaimed(x)' => IsDrawn(Slot(x))'
    BY DEF Unclaimed
  <2>4. phase = 2 /\ IsDrawn(Slot(x))' => Slot(x) \in mask2
    <3> SUFFICES ASSUME phase = 2, IsDrawn(Slot(x))' PROVE Slot(x) \in mask2
      OBVIOUS
    <3>1. UseTwoPhase /\ hiZ
      BY <1>1 DEF FrameInv, UseTwoPhase
    <3>2. Slot(x)' = Slot(x) /\ Slot(x) \in Slots
      BY <1>1, <1>4, SameView, BoundView, SlotsHaveBits
    <3>3. Slot(x) \in packed'
      BY <1>1, <1>2, <1>3, <3>1, <3>2 DEF IsDrawn
    <3>4. Slot(x) \in MaskInUse
      BY <1>1, <1>2, <1>3, <1>8, <3>1, <3>2, <3>3, SameView DEF PackedInv, Begun
    <3> QED BY <3>4 DEF MaskInUse
  <2>5. phase \in {1, 2}
    BY <1>1 DEF Shape, TypeOK
  <2> QED BY <1>1, <2>1, <2>2, <2>3, <2>4, <2>5 DEF OnceInv
<1>12. MaskInv'
  BY <1>1, <1>3 DEF MaskInv
<1> QED BY <1>5, <1>6, <1>7, <1>8, <1>9, <1>10, <1>11, <1>12 DEF RasterInv, FrameOK, DrawsOK

\* An item has the number of its batch.
LEMMA ItemBatch ==
  ASSUME view \in View, NEW x \in Items
  PROVE  BatchNo(x) \in Nat
<1> DEFINE n == Len(CallsOf(view))
<1>1. x[1] \in 1..n /\ x[3] \in 0..(CallsOf(view)[x[1]].tris - 1) /\ n \in Nat
  BY PartsOfItem, CallFacts DEF Items
<1>2. x[3] \div Batch \in Nat
  BY <1>1, BatchFacts
<1>3. x[1] \in 1..(n + 1)
  <2> HIDE DEF n
  <2> QED BY <1>1
<1>4. Before(x[1]) \in Nat
  BY <1>3, BatchesAdd DEF Before
<1> QED BY <1>2, <1>4 DEF BatchNo

\* The dispatch: from here everything to be drawn is unclaimed.
LEMMA DispatchKeeps == ASSUME RasterInv, DispatchStage1 PROVE RasterInv'
<1>1. /\ stage = "dispatch" /\ stage' = "stage1" /\ EnsureMask
      /\ UNCHANGED <<view, hiZ, twoPhase, compact, packed, phase, batchCounter, tgs,
                     n2, q2, n3, q3, fb, lost, image, shown, still>>
      /\ Shape /\ FrameInv /\ ClaimInv /\ MaskInv /\ OnceInv /\ LeftOutInv /\ PackedInv
  BY DEF DispatchStage1, RasterInv, FrameOK, DrawsOK, hostVars, drawVars, shownVars
<1>2. /\ batchCounter = 0 /\ tgs = [g \in TG |-> NotStarted]
      /\ n2 = 0 /\ q2 = {} /\ q3 = {} /\ n3 = 0 /\ \A g \in TG : tgs[g].todo = {}
  BY <1>1 DEF FrameInv
<1>3. UseCompacted' = UseCompacted /\ UseTwoPhase' = UseTwoPhase
  BY <1>1 DEF UseCompacted, UseTwoPhase, NumInstances, NumDC, DC
<1>4. /\ cap' \in Nat /\ cap' \in 0..(Word * Words) /\ cap <= cap' /\ NumInstances <= cap'
      /\ mask' \subseteq AllBits /\ mask2' \subseteq AllBits
      /\ mask = AllBits => mask' = AllBits
      /\ NumInstances <= cap => cap' = cap /\ mask' = mask /\ mask2' = mask2
      /\ \A v \in View : GoodMask(v, mask) => GoodMask(v, mask')
  BY <1>1, Ensured
<1>5. view \in View /\ shown \in View \cup {None} /\ cap \in Nat /\ phase \in {1, 2}
  BY <1>1, SizeFacts DEF Shape, TypeOK, View
<1>6. UseTwoPhase \/ shown = view => NumInstances <= cap
  <2>1. ASSUME shown = view PROVE NumInstances <= cap
    <3>1. \A s \in Slots : s < cap
      BY <1>1, <1>5, <2>1, BoundView, NoneAssumption DEF FrameInv, View
    <3>2. NumInstances \in Nat
      BY <1>5, BoundView, CallFacts
    <3>3. NumInstances = 0 \/ NumInstances - 1 \in Slots
      BY <3>2 DEF Slots
    <3> QED BY <1>5, <3>1, <3>2, <3>3
  <2> QED BY <1>1, <2>1 DEF FrameInv
<1>7. phase = 2 => UseTwoPhase
  BY <1>1 DEF FrameInv
<1>8. Shape'
  <2>1. TypeOK'
    BY <1>1, <1>2, <1>4, FS_EmptySet, SizeFacts, SameView DEF Shape, TypeOK
  <2> QED BY <1>1, <1>2, <2>1, FS_EmptySet, SameView DEF Shape, Group
<1>9. FrameInv'
  <2>1. shown' # None => \A s \in SlotsOf(shown') : s < cap'
    <3>1. shown # None => \A s \in SlotsOf(shown) : s < cap /\ s \in Int
      BY <1>1 DEF FrameInv, SlotsOf
    <3> QED BY <1>1, <1>4, <1>5, <3>1
  <2>2. ~hiZ' => mask' = AllBits
    BY <1>1, <1>4 DEF FrameInv
  <2> QED BY <1>1, <1>2, <1>3, <1>4, <1>7, <2>1, <2>2, SameView DEF FrameInv
<1>10. ClaimInv'
  BY <1>1, <1>2, <1>5, NoClaimsNext
<1>11. PackedInv'
  <2> SUFFICES ASSUME UseCompacted, UseTwoPhase \/ shown = view, NEW s \in Slots
               PROVE  s \in packed <=> s \in MaskInUse'
    BY <1>1, <1>3, SameView DEF PackedInv
  <2>1. MaskInUse' = MaskInUse
    BY <1>1, <1>4, <1>6 DEF MaskInUse
  <2> QED BY <1>1, <2>1 DEF PackedInv, Begun
<1>12. DrawInv'
  <2> SUFFICES ASSUME NEW x \in Items, IsDrawn(Slot(x))' PROVE Unclaimed(x)'
    BY <1>1, SameView DEF DrawInv, Pending
  <2>1. BatchNo(x) \in Nat
    BY <1>5, ItemBatch
  <2> QED BY <1>1, <1>2, <2>1, SameView DEF Unclaimed
<1>13. LeftOutInv'
  BY <1>1, <1>4, <1>6, <1>7, SameView DEF LeftOutInv, Shown
<1>14. OnceInv'
  <2> SUFFICES ASSUME NEW x \in Items, NEW p \in Covers(x)
               PROVE  /\ Pending(x, p)' => Untouched(x, p)
                      /\ <<x, p>> \in lost => fb[p] # Encode(x, p)
                      /\ phase = 1 => Untouched(x, p)
    BY <1>1, <1>2, SameView DEF OnceInv, Untouched
  <2>1. phase = 1 => Untouched(x, p)
    BY <1>1, <1>5, Decoded DEF FrameInv, Untouched
  <2>2. Pending(x, p)' => Unclaimed(x)'
    BY <1>1, <1>2 DEF Pending, InTodo, Queued
  <2>3. phase = 2 => MaskInUse' = MaskInUse
    BY <1>1, <1>4, <1>6, <1>7 DEF MaskInUse
  <2>4. phase = 2 /\ IsDrawn(Slot(x))' => IsDrawn(Slot(x))
    BY <1>1, <1>3, <2>3, SameView DEF IsDrawn
  <2>5. phase = 2 /\ Unclaimed(x)' => Unclaimed(x)
    BY <1>1, <2>4, SameView DEF Unclaimed
  <2>6. phase = 2 /\ Pending(x, p)' => Pending(x, p)
    BY <2>2, <2>5 DEF Pending
  <2> QED BY <1>1, <1>5, <2>1, <2>6 DEF OnceInv
<1>15. MaskInv' /\ ImageInv'
  BY <1>1, <1>4, <1>5 DEF MaskInv, ImageInv
<1> QED BY <1>8, <1>9, <1>10, <1>11, <1>12, <1>13, <1>14, <1>15 DEF RasterInv, FrameOK, DrawsOK

-----------------------------------------------------------------------------
(* Claims.                                                                 *)

\* What a claim gives: the batch of the number claimed.
LEMMA Claimed ==
  ASSUME Shape, ClaimInv, NEW g \in TG, ~HasReturned(g),
         NEW at, at = Walk(tgs[g].mesh, tgs[g].local + (batchCounter - tgs[g].block))
  PROVE  /\ at[1] \in 1..(NumDC + 1) /\ at[2] \in Nat
         /\ at[1] <= NumDC => Before(at[1]) + at[2] = batchCounter
         /\ ~(at[1] <= NumDC) => Before(NumDC + 1) <= batchCounter
         /\ \A x \in BatchItems(at[1], at[2]) :
              /\ x \in Items /\ x[1] = at[1] /\ x[3] \div Batch = at[2] /\ IsDrawn(Slot(x))
              /\ at[1] <= NumDC /\ BatchNo(x) = batchCounter
         /\ \A x \in Items : BatchNo(x) = batchCounter /\ IsDrawn(Slot(x)) =>
              x \in BatchItems(at[1], at[2])
<1> DEFINE m == tgs[g].mesh
           l == tgs[g].local + (batchCounter - tgs[g].block)
<1>1. view \in View /\ NumDC \in Nat /\ NumDC = Len(CallsOf(view))
  BY BoundView, CallFacts DEF Shape, TypeOK, View
<1>2. m \in 1..NumDC /\ l \in Nat /\ Before(m) + l = batchCounter
  <2>1. /\ tgs[g].mesh \in 1..(NumDC + 1) /\ ~(tgs[g].mesh > NumDC) /\ tgs[g].local \in Nat
        /\ tgs[g].block \in 0..batchCounter /\ batchCounter \in Nat
        /\ Before(tgs[g].mesh) + tgs[g].local = tgs[g].block
    BY DEF Shape, TypeOK, ClaimInv, HasReturned
  <2>2. tgs[g].mesh \in 1..NumDC
    BY <1>1, <2>1
  <2>3. Before(m) \in Nat
    BY <1>1, <2>1, BatchesAdd DEF Before
  <2> QED BY <2>1, <2>2, <2>3
<1>3. Landed(at, m, l)
  BY <1>1, <1>2, WalkLands
<1> HIDE DEF m, l
<1>4. /\ at[1] \in 1..(NumDC + 1) /\ at[2] \in Nat
      /\ at[1] <= NumDC => at[2] < Batches(at[1]) /\ Before(at[1]) + at[2] = batchCounter
      /\ ~(at[1] <= NumDC) => Before(NumDC + 1) <= batchCounter
  BY <1>1, <1>2, <1>3 DEF Landed
<1>5. ASSUME NEW x \in BatchItems(at[1], at[2])
      PROVE  /\ x \in Items /\ x[1] = at[1] /\ x[3] \div Batch = at[2] /\ IsDrawn(Slot(x))
             /\ at[1] <= NumDC /\ BatchNo(x) = batchCounter
  <2>1. at[1] <= NumDC
    BY <1>1, <1>4 DEF BatchItems
  <2> QED BY <1>4, <2>1 DEF BatchItems, BatchNo
<1>6. ASSUME NEW x \in Items, BatchNo(x) = batchCounter, IsDrawn(Slot(x))
      PROVE  x \in BatchItems(at[1], at[2])
  <2> DEFINE i == x[3] \div Batch
             N == Len(CallsOf(view))
  <2>1. x[1] \in 1..N /\ x[3] \in 0..(CallsOf(view)[x[1]].tris - 1)
    BY <1>1, PartsOfItem DEF Items
  <2>2. i \in Nat /\ i < BatchesOf(view, x[1])
    BY <1>1, <2>1, BatchFacts
  <2>3. BatchesBefore[view][x[1]] + i = batchCounter
    BY <1>6 DEF BatchNo, Before
  <2>4. at[1] <= NumDC
    <3> SUFFICES ASSUME ~(at[1] <= NumDC) PROVE FALSE
      OBVIOUS
    <3>1. BatchesBefore[view][N + 1] <= batchCounter
      BY <1>1, <1>4 DEF Before
    <3>2. batchCounter < BatchesBefore[view][N + 1]
      BY <1>1, <2>1, <2>2, <2>3, BeforeTheEnd
    <3>3. batchCounter \in Nat /\ BatchesBefore[view][N + 1] \in Nat
      <4>1. N + 1 \in 1..(N + 1)
        <5> HIDE DEF N
        <5> QED BY <1>1 DEF N
      <4> QED BY <1>1, <4>1, BatchesAdd DEF Shape, TypeOK
    <3> HIDE DEF N
    <3> QED BY <3>1, <3>2, <3>3
  <2>5. at[1] \in 1..N /\ at[2] < BatchesOf(view, at[1]) /\ BatchesBefore[view][at[1]] + at[2] = batchCounter
    <3>1. at[2] < BatchesOf(view, at[1]) /\ BatchesBefore[view][at[1]] + at[2] = batchCounter
      BY <1>4, <2>4, BoundView
    <3> QED BY <1>1, <1>4, <2>4, <3>1
  <2>6. x[1] = at[1] /\ i = at[2]
    <3> HIDE DEF i, N
    <3> QED BY <1>1, <1>4, <2>1, <2>2, <2>3, <2>5, OnePlace DEF N
  <2> QED BY <1>1, <1>4, <1>6, <2>4, <2>6 DEF BatchItems
<1> QED BY <1>4, <1>5, <1>6

\* A claim: a batch goes from the unclaimed to a group.
LEMMA ClaimKeeps == ASSUME RasterInv, NEW g \in TG, Claim(g) PROVE RasterInv'
<1> DEFINE at == Walk(tgs[g].mesh, tgs[g].local + (batchCounter - tgs[g].block))
<1>1. /\ stage = "stage1" /\ tgs[g].todo = {} /\ ~HasReturned(g)
      /\ tgs' = [tgs EXCEPT ![g] = [mesh |-> at[1], block |-> batchCounter, local |-> at[2],
                                    todo |-> BatchItems(at[1], at[2])]]
      /\ batchCounter' = batchCounter + 1
      /\ UNCHANGED <<view, hiZ, twoPhase, compact, cap, mask, mask2, packed, stage, phase,
                     n2, q2, n3, q3, fb, lost, image, shown, still>>
      /\ Shape /\ FrameInv /\ ClaimInv /\ MaskInv /\ OnceInv /\ LeftOutInv /\ PackedInv /\ DrawInv
  BY DEF Claim, RasterInv, FrameOK, DrawsOK, hostVars, maskVars, shownVars
<1>2. PICK w : w = at
  OBVIOUS
<1>3. /\ w[1] \in 1..(NumDC + 1) /\ w[2] \in Nat
      /\ w[1] <= NumDC => Before(w[1]) + w[2] = batchCounter
      /\ ~(w[1] <= NumDC) => Before(NumDC + 1) <= batchCounter
      /\ \A x \in BatchItems(w[1], w[2]) :
           /\ x \in Items /\ x[1] = w[1] /\ x[3] \div Batch = w[2] /\ IsDrawn(Slot(x))
           /\ w[1] <= NumDC /\ BatchNo(x) = batchCounter
      /\ \A x \in Items : BatchNo(x) = batchCounter /\ IsDrawn(Slot(x)) => x \in BatchItems(w[1], w[2])
  BY <1>1, <1>2, Claimed
<1>4. PICK b : b = BatchItems(w[1], w[2])
  OBVIOUS
<1>5. tgs' = [tgs EXCEPT ![g] = [mesh |-> w[1], block |-> batchCounter, local |-> w[2], todo |-> b]]
  BY <1>1, <1>2, <1>4
<1> HIDE DEF at
<1>6. /\ view \in View /\ NumDC \in Nat /\ batchCounter \in Nat /\ tgs \in [TG -> Group]
      /\ batchCounter' \in Nat /\ b \subseteq Items
  <2>1. view \in View /\ batchCounter \in Nat /\ tgs \in [TG -> Group]
    BY <1>1 DEF Shape, TypeOK, View
  <2>2. NumDC \in Nat
    BY <2>1, BoundView, CallFacts
  <2> QED BY <1>1, <1>3, <1>4, <2>1, <2>2
<1>7. /\ tgs'[g].mesh = w[1] /\ tgs'[g].block = batchCounter /\ tgs'[g].local = w[2] /\ tgs'[g].todo = b
      /\ \A h \in TG : h # g => tgs'[h] = tgs[h]
  BY <1>5, <1>6 DEF Group
<1>8. UseCompacted' = UseCompacted /\ UseTwoPhase' = UseTwoPhase /\ MaskInUse' = MaskInUse
  BY <1>1 DEF UseCompacted, UseTwoPhase, MaskInUse, NumInstances, NumDC, DC
<1>9. \A x : IsDrawn(Slot(x))' = IsDrawn(Slot(x))
  BY <1>1, <1>8, SameView DEF IsDrawn
<1>10. Shape'
  <2>1. (tgs \in [TG -> Group])'
    <3>1. [mesh |-> w[1], block |-> batchCounter, local |-> w[2], todo |-> b] \in Group
      BY <1>3, <1>6 DEF Group
    <3>2. Group' = Group
      BY <1>1, SameView DEF Group
    <3> QED BY <1>5, <1>6, <3>1, <3>2
  <2>2. \A h \in TG : /\ tgs'[h].mesh \in 1..(NumDC + 1) /\ tgs'[h].local \in Nat
                      /\ tgs'[h].block \in 0..batchCounter'
                      /\ \A x \in tgs'[h].todo : x \in Items /\ x[1] = tgs'[h].mesh
    <3> SUFFICES ASSUME NEW h \in TG
                 PROVE  /\ tgs'[h].mesh \in 1..(NumDC + 1) /\ tgs'[h].local \in Nat
                        /\ tgs'[h].block \in 0..batchCounter'
                        /\ \A x \in tgs'[h].todo : x \in Items /\ x[1] = tgs'[h].mesh
      OBVIOUS
    <3>1. CASE h = g
      BY <1>1, <1>3, <1>4, <1>6, <1>7, <3>1
    <3>2. CASE h # g
      BY <1>1, <1>6, <1>7, <3>2 DEF Shape, TypeOK
    <3> QED BY <3>1, <3>2
  <2>3. TypeOK'
    BY <1>1, <1>6, <2>2, SameView DEF Shape, TypeOK
  <2> QED BY <1>1, <2>1, <2>3, SameView DEF Shape
<1>11. FrameInv'
  BY <1>1, <1>8, SameView DEF FrameInv
<1>12. ClaimInv'
  <2>1. ASSUME NEW h \in TG
        PROVE  /\ ~HasReturned(h)' => Before(tgs'[h].mesh) + tgs'[h].local = tgs'[h].block
               /\ HasReturned(h)' => tgs'[h].todo = {} /\ Before(NumDC + 1) <= batchCounter'
               /\ tgs'[h].todo # {} => tgs'[h].block < batchCounter'
               /\ \A x \in tgs'[h].todo : x[3] \div Batch = tgs'[h].local /\ IsDrawn(Slot(x))
    <3>1. HasReturned(h)' <=> tgs'[h].mesh > NumDC
      BY <1>1, SameView DEF HasReturned
    <3>2. Before(NumDC + 1) \in Nat
      <4>1. NumDC + 1 \in 1..(Len(CallsOf(view)) + 1)
        BY <1>6, BoundView
      <4> QED BY <1>6, <4>1, BatchesAdd DEF Before
    <3>3. CASE h = g
      BY <1>1, <1>3, <1>4, <1>6, <1>7, <3>1, <3>2, <3>3
    <3>4. CASE h # g
      <4>1. tgs'[h] = tgs[h] /\ tgs[h].block \in Nat
        BY <1>6, <1>7, <3>4 DEF Group
      <4> QED BY <1>1, <1>6, <3>1, <3>2, <4>1 DEF ClaimInv, HasReturned
    <3> QED BY <3>3, <3>4
  <2>2. ASSUME NEW h \in TG, NEW k \in TG, h # k, tgs'[h].todo # {}, tgs'[k].todo # {}
        PROVE  tgs'[h].block # tgs'[k].block
    <3>1. \A i \in TG : i # g /\ tgs[i].todo # {} => tgs[i].block < batchCounter /\ tgs[i].block \in Nat
      BY <1>1, <1>6 DEF ClaimInv, Group
    <3> QED BY <1>1, <1>6, <1>7, <2>2, <3>1 DEF ClaimInv
  <2>3. (\A h \in TG : /\ ~HasReturned(h) => Before(tgs[h].mesh) + tgs[h].local = tgs[h].block
                       /\ HasReturned(h) => /\ stage # "host" /\ tgs[h].todo = {}
                                            /\ Before(NumDC + 1) <= batchCounter
                       /\ tgs[h].todo # {} => tgs[h].block < batchCounter
                       /\ \A x \in tgs[h].todo : x[3] \div Batch = tgs[h].local /\ IsDrawn(Slot(x)))'
    <3> SUFFICES ASSUME NEW h \in TG
                 PROVE  (/\ ~HasReturned(h) => Before(tgs[h].mesh) + tgs[h].local = tgs[h].block
                         /\ HasReturned(h) => /\ stage # "host" /\ tgs[h].todo = {}
                                              /\ Before(NumDC + 1) <= batchCounter
                         /\ tgs[h].todo # {} => tgs[h].block < batchCounter
                         /\ \A x \in tgs[h].todo : x[3] \div Batch = tgs[h].local /\ IsDrawn(Slot(x)))'
      OBVIOUS
    <3>1. view' = view /\ NumDC' = NumDC /\ stage' # "host"
      BY <1>1, SameView
    <3> QED BY <1>9, <2>1, <3>1 DEF Before
  <2> QED BY <2>2, <2>3 DEF ClaimInv
<1>13. PackedInv'
  BY <1>1, <1>8, SameView DEF PackedInv, Begun
<1>14. \A x : /\ InTodo(x)' => InTodo(x) \/ x \in b
              /\ InTodo(x) => InTodo(x)'
              /\ x \in b => InTodo(x)'
  BY <1>1, <1>7 DEF InTodo
<1>15. \A x, p : Queued(x, p)' <=> Queued(x, p)
  BY <1>1 DEF Queued
<1>16. \A x \in Items : BatchNo(x) \in Int
  BY <1>6, ItemBatch
<1>17. \A x \in Items : /\ Unclaimed(x)' => Unclaimed(x)
                        /\ Unclaimed(x) => Unclaimed(x)' \/ x \in b
                        /\ x \in b => Unclaimed(x)
  <2> SUFFICES ASSUME NEW x \in Items
               PROVE  /\ Unclaimed(x)' => Unclaimed(x)
                      /\ Unclaimed(x) => Unclaimed(x)' \/ x \in b
                      /\ x \in b => Unclaimed(x)
    OBVIOUS
  <2>1. Unclaimed(x)' <=> batchCounter + 1 <= BatchNo(x) /\ IsDrawn(Slot(x))
    BY <1>1, <1>9, SameView DEF Unclaimed
  <2>2. Unclaimed(x) <=> batchCounter <= BatchNo(x) /\ IsDrawn(Slot(x))
    BY <1>1 DEF Unclaimed
  <2>3. BatchNo(x) \in Int
    BY <1>16
  <2> QED BY <1>3, <1>4, <1>6, <2>1, <2>2, <2>3
<1>18. DrawInv'
  BY <1>1, <1>9, <1>14, <1>15, <1>17, SameView DEF DrawInv, Shown, Pending
<1>19. LeftOutInv' /\ MaskInv' /\ ImageInv'
  BY <1>1, <1>8, SameView DEF LeftOutInv, Shown, MaskInv, ImageInv
<1>20. OnceInv'
  <2> SUFFICES ASSUME NEW x \in Items
               PROVE  /\ \A p \in Covers(x) :
                           /\ Pending(x, p)' => Untouched(x, p)
                           /\ <<x, p>> \in lost => fb[p] # Encode(x, p)
                           /\ phase = 1 /\ ~IsDrawn(Slot(x)) => Untouched(x, p)
                      /\ x \in q2 => /\ \A h \in TG : x \notin tgs'[h].todo
                                     /\ BatchNo(x) < batchCounter' /\ IsDrawn(Slot(x))
    BY <1>1, <1>9, SameView DEF OnceInv, Untouched
  <2>1. \A p \in Covers(x) : Pending(x, p)' => Pending(x, p)
    BY <1>14, <1>15, <1>17 DEF Pending
  <2>2. x \in q2 => /\ \A h \in TG : x \notin tgs'[h].todo
                    /\ BatchNo(x) < batchCounter' /\ IsDrawn(Slot(x))
    <3> SUFFICES ASSUME x \in q2 PROVE /\ \A h \in TG : x \notin tgs'[h].todo
                                       /\ BatchNo(x) < batchCounter' /\ IsDrawn(Slot(x))
      OBVIOUS
    <3>1. /\ \A h \in TG : x \notin tgs[h].todo
          /\ BatchNo(x) < batchCounter /\ IsDrawn(Slot(x))
      BY <1>1 DEF OnceInv
    <3>2. x \notin b
      BY <1>3, <1>4, <1>6, <1>16, <3>1
    <3> QED BY <1>1, <1>6, <1>7, <1>16, <3>1, <3>2
  <2> QED BY <1>1, <2>1, <2>2 DEF OnceInv, Begun
<1> QED BY <1>10, <1>11, <1>12, <1>13, <1>18, <1>19, <1>20 DEF RasterInv, FrameOK, DrawsOK

-----------------------------------------------------------------------------
(* Drawing.                                                                *)

\* What drawing some units does to the visibility buffer.
Paints(units) ==
  /\ fb' \in [Pixel -> 0..Empty]
  /\ \A p \in Pixel : fb'[p] = Empty \/ \E y \in Items : p \in Covers(y) /\ fb'[p] = Encode(y, p)
  /\ \A y \in Items : \A p \in Covers(y) :
       /\ fb'[p] = Encode(y, p) => fb[p] = Encode(y, p) \/ \E u \in units : u[1] = y /\ p \in u[2]
       /\ fb[p] <= Encode(y, p) => fb'[p] <= Encode(y, p)
  /\ \A u \in units : \A p \in u[2] : fb'[p] <= Encode(u[1], p)

\* Nothing drawn, nothing changed.
LEMMA NothingPainted == ASSUME Shape, fb' = fb PROVE Paints({})
BY DEF Shape, TypeOK, Paints

\* Draw does that.
LEMMA Painted ==
  ASSUME Shape, NEW units, \A u \in units : u[1] \in Items /\ u[2] \subseteq Covers(u[1]), Draw(units)
  PROVE  Paints(units)
<1>1. view \in View /\ fb \in [Pixel -> 0..Empty]
  BY DEF Shape, TypeOK, View
<1>2. /\ fb' \in [Pixel -> 0..Empty]
      /\ \A p \in Pixel : /\ fb'[p] <= fb[p]
                          /\ fb'[p] = fb[p] \/ \E u \in units : p \in u[2] /\ fb'[p] = Encode(u[1], p)
      /\ \A u \in units : \A p \in u[2] : fb'[p] <= Encode(u[1], p)
  BY <1>1, Drawn
<1>3. \A p \in Pixel : fb'[p] = Empty \/ \E y \in Items : p \in Covers(y) /\ fb'[p] = Encode(y, p)
  <2> SUFFICES ASSUME NEW p \in Pixel
               PROVE  fb'[p] = Empty \/ \E y \in Items : p \in Covers(y) /\ fb'[p] = Encode(y, p)
    OBVIOUS
  <2>1. CASE fb'[p] = fb[p]
    BY <2>1 DEF Shape
  <2>2. CASE \E u \in units : p \in u[2] /\ fb'[p] = Encode(u[1], p)
    BY <2>2
  <2> QED BY <1>2, <2>1, <2>2
<1>4. ASSUME NEW y \in Items, NEW p \in Covers(y)
      PROVE  /\ fb'[p] = Encode(y, p) => fb[p] = Encode(y, p) \/ \E u \in units : u[1] = y /\ p \in u[2]
             /\ fb[p] <= Encode(y, p) => fb'[p] <= Encode(y, p)
  <2>1. p \in Pixel /\ Encode(y, p) \in Nat
    BY <1>1, Decoded
  <2>2. fb[p] \in Nat /\ fb'[p] \in Nat /\ fb'[p] <= fb[p]
    <3>1. fb[p] \in 0..Empty /\ fb'[p] \in 0..Empty
      BY <1>1, <1>2, <2>1
    <3> QED BY <1>2, <2>1, <3>1, DepthsOrdered
  <2>3. ASSUME NEW u \in units, p \in u[2], Encode(u[1], p) = Encode(y, p) PROVE u[1] = y
    <3>1. u[1] \in Items /\ p \in Covers(u[1])
      BY <2>3
    <3> QED BY <1>1, <2>3, <3>1, CodesApart
  <2> QED BY <1>2, <2>1, <2>2, <2>3
<1> QED BY <1>2, <1>3, <1>4 DEF Paints

\* Shading an item: it is drawn, queued or lost.
LEMMA ShadeKeeps ==
  ASSUME RasterInv, NEW g \in TG, NEW x \in tgs[g].todo, Shade(g, x)
  PROVE  RasterInv'
<1>1. /\ stage = "stage1"
      /\ tgs' = [tgs EXCEPT ![g].todo = @ \ {x}]
      /\ UNCHANGED <<view, hiZ, twoPhase, compact, cap, mask, mask2, packed, stage, phase,
                     batchCounter, n3, q3, image, shown, still>>
      /\ Shape /\ FrameInv /\ ClaimInv /\ MaskInv /\ OnceInv /\ LeftOutInv /\ PackedInv /\ DrawInv
  BY DEF Shade, RasterInv, FrameOK, DrawsOK, hostVars, maskVars, shownVars
<1>2. \/ Draw({<<x, Covers(x)>>}) /\ UNCHANGED <<n2, q2, lost>>
      \/ n2' = n2 + 1 /\ n2 < Cap2 /\ q2' = q2 \cup {x} /\ UNCHANGED <<fb, lost>>
      \/ n2' = n2 + 1 /\ UNCHANGED <<fb, q2>> /\ lost' = lost \cup {<<x, p>> : p \in Covers(x)}
  BY DEF Shade, HasRoom, Lose
<1>3. /\ view \in View /\ NumDC \in Nat /\ batchCounter \in Nat /\ tgs \in [TG -> Group]
      /\ x \in Items /\ x[1] = tgs[g].mesh /\ n2 \in Nat
  <2>1. view \in View /\ batchCounter \in Nat /\ tgs \in [TG -> Group] /\ n2 \in Nat
        /\ x \in Items /\ x[1] = tgs[g].mesh
    BY <1>1 DEF Shape, TypeOK, View
  <2> QED BY <2>1, BoundView, CallFacts
<1>4. /\ tgs'[g] = [tgs[g] EXCEPT !.todo = tgs[g].todo \ {x}]
      /\ \A h \in TG : h # g => tgs'[h] = tgs[h]
      /\ \A h \in TG : /\ tgs'[h] \in Group
                       /\ tgs'[h].mesh = tgs[h].mesh /\ tgs'[h].local = tgs[h].local
                       /\ tgs'[h].block = tgs[h].block /\ tgs'[h].todo \subseteq tgs[h].todo
      /\ tgs' \in [TG -> Group] /\ tgs'[g].todo = tgs[g].todo \ {x}
  BY <1>1, <1>3 DEF Group
<1>5. /\ BatchNo(x) = tgs[g].block /\ IsDrawn(Slot(x)) /\ BatchNo(x) < batchCounter
      /\ \A h \in TG : h # g => x \notin tgs[h].todo
      /\ x \notin q2 /\ \A p \in Covers(x) : Untouched(x, p)
  <2>1. ASSUME NEW h \in TG, x \in tgs[h].todo
        PROVE  BatchNo(x) = tgs[h].block /\ IsDrawn(Slot(x)) /\ tgs[h].block < batchCounter
    <3>1. tgs[h].todo # {} /\ x[1] = tgs[h].mesh /\ x[3] \div Batch = tgs[h].local
      BY <1>1, <2>1 DEF Shape, TypeOK, ClaimInv
    <3>2. ~HasReturned(h)
      BY <1>1, <3>1 DEF ClaimInv
    <3> QED BY <1>1, <2>1, <3>1, <3>2 DEF ClaimInv, BatchNo
  <2>2. \A h \in TG : h # g => x \notin tgs[h].todo
    BY <1>1, <2>1 DEF ClaimInv
  <2>3. x \notin q2
    BY <1>1, <1>3 DEF OnceInv
  <2>4. \A p \in Covers(x) : Untouched(x, p)
    BY <1>1, <1>3 DEF OnceInv, Pending, InTodo
  <2> QED BY <2>1, <2>2, <2>3, <2>4
<1>6. /\ \A y \in Items : \A p \in Covers(y) :
           /\ fb[p] <= Encode(y, p) => fb'[p] <= Encode(y, p)
           /\ <<y, p>> \in lost => <<y, p>> \in lost'
           /\ y # x /\ fb[p] # Encode(y, p) => fb'[p] # Encode(y, p)
           /\ y # x /\ <<y, p>> \notin lost => <<y, p>> \notin lost'
           /\ <<y, p>> \in lost' => fb'[p] # Encode(y, p)
      /\ \A p \in Covers(x) : \/ fb'[p] <= Encode(x, p)
                              \/ <<x, p>> \in lost'
                              \/ x \in q2' /\ fb'[p] # Encode(x, p) /\ <<x, p>> \notin lost'
      /\ q2' = q2 \/ q2' = q2 \cup {x}
      /\ x \in q2' => \A p \in Covers(x) : fb'[p] # Encode(x, p) /\ <<x, p>> \notin lost'
      /\ fb' \in [Pixel -> 0..Empty]
      /\ \A p \in Pixel : fb'[p] = Empty \/ \E y \in Items : p \in Covers(y) /\ fb'[p] = Encode(y, p)
      /\ \A e \in lost' : e \in lost \/ (e[1] = x /\ e[2] \in Covers(x))
      /\ n2' \in Nat /\ q2' \subseteq Items /\ IsFiniteSet(q2') /\ Cardinality(q2') <= n2'
      /\ Cardinality(q2') <= Cap2
  <2>1. \A y \in Items : \A p \in Covers(y) : <<y, p>> \in lost => fb[p] # Encode(y, p)
    BY <1>1 DEF OnceInv
  <2>2. q2 \subseteq Items /\ IsFiniteSet(q2) /\ Cardinality(q2) <= n2 /\ Cardinality(q2) <= Cap2
        /\ Cardinality(q2) \in Nat
    BY <1>1, FS_CardinalityType DEF Shape, TypeOK
  <2>3. CASE Draw({<<x, Covers(x)>>}) /\ UNCHANGED <<n2, q2, lost>>
    <3>1. Paints({<<x, Covers(x)>>})
      <4>1. \A u \in {<<x, Covers(x)>>} : u[1] \in Items /\ u[2] \subseteq Covers(u[1])
        BY <1>3
      <4> QED BY <1>1, <2>3, <4>1, Painted
    <3>2. \A y \in Items : \A p \in Covers(y) :
            /\ fb[p] <= Encode(y, p) => fb'[p] <= Encode(y, p)
            /\ y # x /\ fb[p] # Encode(y, p) => fb'[p] # Encode(y, p)
      BY <3>1 DEF Paints
    <3>3. \A p \in Covers(x) : fb'[p] <= Encode(x, p)
      BY <3>1 DEF Paints
    <3>4. \A p \in Covers(x) : <<x, p>> \notin lost
      BY <1>5 DEF Untouched
    <3>5. /\ fb' \in [Pixel -> 0..Empty]
          /\ \A p \in Pixel : fb'[p] = Empty \/ \E y \in Items : p \in Covers(y) /\ fb'[p] = Encode(y, p)
      BY <3>1 DEF Paints
    <3> QED BY <1>3, <1>5, <2>1, <2>2, <2>3, <3>2, <3>3, <3>4, <3>5
  <2>4. CASE n2' = n2 + 1 /\ n2 < Cap2 /\ q2' = q2 \cup {x} /\ UNCHANGED <<fb, lost>>
    <3>1. /\ fb' \in [Pixel -> 0..Empty]
          /\ \A p \in Pixel : fb'[p] = Empty \/ \E y \in Items : p \in Covers(y) /\ fb'[p] = Encode(y, p)
      BY <1>1, <2>4, NothingPainted DEF Paints
    <3>2. IsFiniteSet(q2') /\ Cardinality(q2') <= n2' /\ Cardinality(q2') <= Cap2
      <4>1. IsFiniteSet(q2') /\ Cardinality(q2') = Cardinality(q2) + 1
        BY <1>5, <2>2, <2>4, FS_AddElement
      <4> QED BY <1>3, <2>2, <2>4, <4>1, SizeFacts
    <3> QED BY <1>3, <1>5, <2>1, <2>2, <2>4, <3>1, <3>2 DEF Untouched
  <2>5. CASE n2' = n2 + 1 /\ UNCHANGED <<fb, q2>> /\ lost' = lost \cup {<<x, p>> : p \in Covers(x)}
    <3>1. /\ fb' \in [Pixel -> 0..Empty]
          /\ \A p \in Pixel : fb'[p] = Empty \/ \E y \in Items : p \in Covers(y) /\ fb'[p] = Encode(y, p)
      BY <1>1, <2>5, NothingPainted DEF Paints
    <3>2. n2' \in Nat /\ Cardinality(q2') <= n2'
      BY <1>3, <2>2, <2>5
    <3> QED BY <1>3, <1>5, <2>1, <2>2, <2>5, <3>1, <3>2 DEF Untouched
  <2> QED BY <1>2, <2>3, <2>4, <2>5
<1>7. UseCompacted' = UseCompacted /\ UseTwoPhase' = UseTwoPhase /\ MaskInUse' = MaskInUse
  BY <1>1 DEF UseCompacted, UseTwoPhase, MaskInUse, NumInstances, NumDC, DC
<1>8. /\ \A y : IsDrawn(Slot(y))' = IsDrawn(Slot(y)) /\ Unclaimed(y)' = Unclaimed(y)
  BY <1>1, <1>7, SameView DEF IsDrawn, Unclaimed
<1>9. \A y : InTodo(y)' <=> InTodo(y) /\ y # x
  BY <1>1, <1>4, <1>5 DEF InTodo
<1>10. \A y, p : Queued(y, p)' <=> Queued(y, p) \/ (y = x /\ x \in q2')
  BY <1>1, <1>6 DEF Queued
<1>11. ~Unclaimed(x) /\ \A p : ~Queued(x, p)
  BY <1>1, <1>3, <1>5, ItemBatch DEF Unclaimed, Queued
<1>12. Shape'
  <2>1. Group' = Group
    BY <1>1, SameView DEF Group
  <2>2. \A h \in TG : /\ tgs'[h].mesh \in 1..(NumDC + 1) /\ tgs'[h].local \in Nat
                      /\ tgs'[h].block \in 0..batchCounter
                      /\ \A y \in tgs'[h].todo : y \in Items /\ y[1] = tgs'[h].mesh
    BY <1>1, <1>4 DEF Shape, TypeOK
  <2>3. \A e \in lost' : e[1] \in Items /\ e[2] \in Covers(e[1])
    BY <1>1, <1>3, <1>6 DEF Shape, TypeOK
  <2>4. TypeOK'
    BY <1>1, <1>6, <2>2, <2>3, SameView DEF Shape, TypeOK
  <2> QED BY <1>1, <1>4, <1>6, <2>1, <2>4, SameView DEF Shape
<1>13. FrameInv'
  BY <1>1, <1>7, SameView DEF FrameInv
<1>14. ClaimInv'
  <2>1. \A h \in TG : HasReturned(h)' <=> HasReturned(h)
    BY <1>1, <1>4, SameView DEF HasReturned
  <2>2. (\A h \in TG : /\ ~HasReturned(h) => Before(tgs[h].mesh) + tgs[h].local = tgs[h].block
                       /\ HasReturned(h) => /\ stage # "host" /\ tgs[h].todo = {}
                                            /\ Before(NumDC + 1) <= batchCounter
                       /\ tgs[h].todo # {} => tgs[h].block < batchCounter
                       /\ \A y \in tgs[h].todo : y[3] \div Batch = tgs[h].local /\ IsDrawn(Slot(y)))'
    <3> SUFFICES ASSUME NEW h \in TG
                 PROVE  (/\ ~HasReturned(h) => Before(tgs[h].mesh) + tgs[h].local = tgs[h].block
                         /\ HasReturned(h) => /\ stage # "host" /\ tgs[h].todo = {}
                                              /\ Before(NumDC + 1) <= batchCounter
                         /\ tgs[h].todo # {} => tgs[h].block < batchCounter
                         /\ \A y \in tgs[h].todo : y[3] \div Batch = tgs[h].local /\ IsDrawn(Slot(y)))'
      OBVIOUS
    <3>1. view' = view /\ NumDC' = NumDC /\ stage' # "host" /\ batchCounter' = batchCounter
      BY <1>1, SameView
    <3> QED BY <1>1, <1>4, <1>8, <2>1, <3>1 DEF ClaimInv, Before
  <2>3. \A h, k \in TG : h # k /\ tgs'[h].todo # {} /\ tgs'[k].todo # {} =>
          tgs'[h].block # tgs'[k].block
    BY <1>1, <1>4 DEF ClaimInv
  <2> QED BY <2>2, <2>3 DEF ClaimInv
<1>15. PackedInv'
  BY <1>1, <1>7, SameView DEF PackedInv, Begun
<1>16. \A y \in Items : \A p \in Covers(y) : Shown(y, p) => Shown(y, p)'
  BY <1>1, <1>6, SameView DEF Shown
<1>17. DrawInv'
  <2> SUFFICES ASSUME NEW y \in Items, IsDrawn(Slot(y)), NEW p \in Covers(y)
               PROVE  Shown(y, p)' \/ Pending(y, p)'
    BY <1>1, <1>8, SameView DEF DrawInv
  <2>1. Shown(y, p) \/ Pending(y, p)
    BY <1>1 DEF DrawInv
  <2>2. CASE Shown(y, p)
    BY <1>16, <2>2
  <2>3. CASE Pending(y, p) /\ y # x
    BY <1>8, <1>9, <1>10, <2>3 DEF Pending
  <2>4. CASE y = x
    <3>1. Shown(x, p)' \/ x \in q2'
      BY <1>1, <1>6, <2>4, SameView DEF Shown
    <3> QED BY <1>10, <2>4, <3>1 DEF Pending
  <2> QED BY <2>1, <2>2, <2>3, <2>4
<1>18. LeftOutInv'
  BY <1>1, <1>16, SameView DEF LeftOutInv
<1>19. OnceInv'
  <2> SUFFICES ASSUME NEW y \in Items
               PROVE  /\ \A p \in Covers(y) :
                           /\ Pending(y, p)' => Untouched(y, p)'
                           /\ <<y, p>> \in lost' => fb'[p] # Encode(y, p)
                           /\ phase = 1 /\ ~IsDrawn(Slot(y)) => Untouched(y, p)'
                      /\ y \in q2' => /\ \A h \in TG : y \notin tgs'[h].todo
                                      /\ BatchNo(y) < batchCounter /\ IsDrawn(Slot(y))
    BY <1>1, <1>8, SameView DEF OnceInv, Untouched
  <2>1. \A p \in Covers(y) : y # x /\ Untouched(y, p) => Untouched(y, p)'
    BY <1>1, <1>6, SameView DEF Untouched
  <2>2. \A p \in Covers(y) : y = x /\ x \in q2' => Untouched(y, p)'
    BY <1>1, <1>6, SameView DEF Untouched
  <2>3. \A p \in Covers(y) : Pending(y, p)' => (y # x /\ Pending(y, p)) \/ (y = x /\ x \in q2')
    BY <1>8, <1>9, <1>10, <1>11 DEF Pending
  <2>4. \A p \in Covers(y) : Pending(y, p)' => Untouched(y, p)'
    BY <1>1, <2>1, <2>2, <2>3 DEF OnceInv
  <2>5. \A p \in Covers(y) : phase = 1 /\ ~IsDrawn(Slot(y)) => Untouched(y, p)'
    BY <1>1, <1>5, <2>1 DEF OnceInv, Begun
  <2>6. y \in q2' => /\ \A h \in TG : y \notin tgs'[h].todo
                     /\ BatchNo(y) < batchCounter /\ IsDrawn(Slot(y))
    <3>1. CASE y = x
      BY <1>4, <1>5, <3>1
    <3>2. CASE y # x
      BY <1>1, <1>4, <1>6, <3>2 DEF OnceInv
    <3> QED BY <3>1, <3>2
  <2> QED BY <1>6, <2>4, <2>5, <2>6
<1>20. MaskInv' /\ ImageInv'
  BY <1>1, <1>7 DEF MaskInv, ImageInv
<1> QED BY <1>12, <1>13, <1>14, <1>15, <1>17, <1>18, <1>19, <1>20 DEF RasterInv, FrameOK, DrawsOK

\* All is claimed and shaded; what was queued becomes the work of Stage 2.
LEMMA PrepareKeeps == ASSUME RasterInv, PrepareStage2 PROVE RasterInv'
<1>1. /\ stage = "stage1" /\ stage' = "stage2"
      /\ \A g \in TG : HasReturned(g) /\ tgs[g].todo = {}
      /\ q2' = UNION {IF Tri(x).route = "medium" THEN {<<x, None>>}
                      ELSE {<<x, k>> : k \in Tiles(x)} : x \in q2}
      /\ UNCHANGED <<view, hiZ, twoPhase, compact, cap, mask, mask2, packed, phase,
                     batchCounter, tgs, n2, n3, q3, fb, lost, image, shown, still>>
      /\ Shape /\ FrameInv /\ ClaimInv /\ MaskInv /\ OnceInv /\ LeftOutInv /\ PackedInv /\ DrawInv
  BY DEF PrepareStage2, RasterInv, FrameOK, DrawsOK, hostVars, maskVars, shownVars
<1>2. view \in View /\ batchCounter \in Nat /\ q2 \subseteq Items /\ q3 = {}
  BY <1>1 DEF Shape, TypeOK, View, FrameInv
<1>3. /\ \A x \in q2 : \/ <<x, None>> \in q2'
                       \/ \A p \in Covers(x) : <<x, p \div Tile>> \in q2'
      /\ \A u \in q2' : \E x \in q2 : \/ u = <<x, None>> /\ Tri(x).route = "medium"
                                      \/ Tri(x).route # "medium" /\ \E k \in Tiles(x) : u = <<x, k>>
  BY <1>1 DEF Tiles
<1>4. ASSUME NEW x \in Items, NEW k \in Tiles(x) PROVE k \in Nat
  <2>1. PICK p \in Covers(x) : k = p \div Tile
    BY DEF Tiles
  <2>2. p \in Nat
    BY <1>2, Decoded, SizeFacts DEF Pixel
  <2> QED BY <2>1, <2>2, SizeFacts, Quotient
<1>5. \A u \in q2' : /\ u = <<u[1], u[2]>> /\ u[1] \in q2 /\ u[2] \in Nat \cup {None}
                     /\ u[2] = None => \A w \in q2' : w[1] = u[1] => w = u
  <2>1. \A x \in Items : None \notin Tiles(x)
    BY <1>4, NoneAssumption
  <2> SUFFICES ASSUME NEW u \in q2'
               PROVE  /\ u = <<u[1], u[2]>> /\ u[1] \in q2 /\ u[2] \in Nat \cup {None}
                      /\ u[2] = None => \A w \in q2' : w[1] = u[1] => w = u
    OBVIOUS
  <2>2. PICK x \in q2 : \/ u = <<x, None>> /\ Tri(x).route = "medium"
                        \/ Tri(x).route # "medium" /\ \E k \in Tiles(x) : u = <<x, k>>
    BY <1>3
  <2>3. /\ u[1] = x /\ u = <<u[1], u[2]>> /\ u[2] \in Nat \cup {None}
        /\ u[2] = None => Tri(x).route = "medium"
    BY <1>2, <1>4, <2>1, <2>2
  <2>4. ASSUME u[2] = None, NEW w \in q2', w[1] = u[1] PROVE w = u
    <3>1. PICK y \in q2 : \/ w = <<y, None>> /\ Tri(y).route = "medium"
                          \/ Tri(y).route # "medium" /\ \E k \in Tiles(y) : w = <<y, k>>
      BY <1>3
    <3>2. y = x
      BY <2>3, <2>4, <3>1
    <3> QED BY <2>2, <2>3, <2>4, <3>1, <3>2
  <2> QED BY <2>3, <2>4
<1>6. UseCompacted' = UseCompacted /\ UseTwoPhase' = UseTwoPhase /\ MaskInUse' = MaskInUse
  BY <1>1 DEF UseCompacted, UseTwoPhase, MaskInUse, NumInstances, NumDC, DC
<1>7. \A y : IsDrawn(Slot(y))' = IsDrawn(Slot(y))
  BY <1>1, <1>6, SameView DEF IsDrawn
<1>8. \A y \in Items : ~Unclaimed(y)
  <2> SUFFICES ASSUME NEW y \in Items, Unclaimed(y) PROVE FALSE
    OBVIOUS
  <2> DEFINE n == Len(CallsOf(view))
             i == y[3] \div Batch
  <2>1. PICK g \in TG : TRUE
    BY GroupsAssumption
  <2>2. Before(NumDC + 1) <= batchCounter
    BY <1>1, <2>1 DEF ClaimInv
  <2>3. y[1] \in 1..n /\ i \in Nat /\ i < BatchesOf(view, y[1])
    <3>1. y[1] \in 1..n /\ y[3] \in 0..(CallsOf(view)[y[1]].tris - 1)
      BY <1>2, PartsOfItem DEF Items
    <3> QED BY <1>2, <3>1, BatchFacts
  <2>4. BatchNo(y) < Before(NumDC + 1)
    BY <1>2, <2>3, BeforeTheEnd, BoundView DEF BatchNo
  <2>5. BatchNo(y) \in Nat /\ Before(NumDC + 1) \in Nat
    <3>1. n + 1 \in 1..(n + 1) /\ NumDC = n
      <4>1. n \in Nat /\ NumDC = n
        BY <1>2, CallFacts, BoundView
      <4> HIDE DEF n
      <4> QED BY <4>1
    <3> QED BY <1>2, <3>1, ItemBatch, BatchesAdd DEF Before
  <2>6. batchCounter <= BatchNo(y)
    BY DEF Unclaimed
  <2> HIDE DEF n, i
  <2> QED BY <1>2, <2>2, <2>4, <2>5, <2>6
<1>9. \A y : ~InTodo(y) /\ ~InTodo(y)' /\ ~Unclaimed(y)'
  BY <1>1 DEF InTodo, Unclaimed
<1>10. \A y \in Items : \A p \in Covers(y) : Queued(y, p)' <=> Queued(y, p)
  <2> SUFFICES ASSUME NEW y \in Items, NEW p \in Covers(y)
               PROVE  (\E k \in {None, p \div Tile} : <<y, k>> \in q2' \cup q3) <=> y \in q2
    BY <1>1 DEF Queued
  <2>1. ASSUME NEW k, <<y, k>> \in q2' PROVE y \in q2
    <3>1. PICK u \in q2' : u = <<y, k>>
      BY <2>1
    <3>2. u[1] \in q2 /\ u[1] = y
      BY <1>5, <3>1
    <3> QED BY <3>2
  <2>2. y \in q2 => <<y, None>> \in q2' \/ <<y, p \div Tile>> \in q2'
    BY <1>3
  <2> QED BY <1>2, <2>1, <2>2
<1>11. \A y \in Items : \A p \in Covers(y) : Pending(y, p)' <=> Pending(y, p)
  BY <1>8, <1>9, <1>10 DEF Pending
<1>12. Shape'
  <2>1. q2' \subseteq Items \X (Nat \cup {None})
    <3> SUFFICES ASSUME NEW u \in q2' PROVE u \in Items \X (Nat \cup {None})
      OBVIOUS
    <3>1. u = <<u[1], u[2]>> /\ u[1] \in Items /\ u[2] \in Nat \cup {None}
      BY <1>2, <1>5
    <3> QED BY <3>1
  <2>2. Group' = Group
    BY <1>1, SameView DEF Group
  <2>3. TypeOK'
    BY <1>1, SameView DEF Shape, TypeOK
  <2> QED BY <1>1, <2>1, <2>2, <2>3, SameView DEF Shape
<1>13. FrameInv'
  BY <1>1, <1>6, SameView DEF FrameInv
<1>14. ClaimInv'
  <2>1. \A h \in TG : HasReturned(h)'
    BY <1>1, SameView DEF HasReturned
  <2>2. Before(NumDC + 1)' = Before(NumDC + 1)
    BY <1>1 DEF Before, NumDC, DC
  <2> QED BY <1>1, <2>1, <2>2 DEF ClaimInv
<1>15. PackedInv'
  BY <1>1, <1>6, SameView DEF PackedInv, Begun
<1>16. DrawInv'
  BY <1>1, <1>7, <1>11, SameView DEF DrawInv, Shown
<1>17. LeftOutInv'
  BY <1>1, SameView DEF LeftOutInv, Shown
<1>18. OnceInv'
  <2> SUFFICES ASSUME NEW y \in Items
               PROVE  /\ \A p \in Covers(y) :
                           /\ Pending(y, p)' => Untouched(y, p)
                           /\ <<y, p>> \in lost => fb[p] # Encode(y, p)
                           /\ phase = 1 /\ ~IsDrawn(Slot(y)) => Untouched(y, p)
                      /\ \A u \in q2' \cup q3 : u[1] = y => IsDrawn(Slot(y))
                      /\ \A u \in q2' : u[1] = y /\ u[2] = None =>
                           \A w \in q2' \cup q3 : w[1] = y => w = u
                      /\ \A u \in q2' : u[1] = y => u \notin q3
    BY <1>1, <1>7, SameView DEF OnceInv, Untouched
  <2>1. \A p \in Covers(y) :
          /\ Pending(y, p)' => Untouched(y, p)
          /\ <<y, p>> \in lost => fb[p] # Encode(y, p)
          /\ phase = 1 /\ ~IsDrawn(Slot(y)) => Untouched(y, p)
    BY <1>1, <1>11 DEF OnceInv, Begun
  <2>2. \A u \in q2' \cup q3 : u[1] = y => IsDrawn(Slot(y))
    <3>1. y \in q2 => IsDrawn(Slot(y))
      BY <1>1 DEF OnceInv
    <3> QED BY <1>2, <1>5, <3>1
  <2> QED BY <1>2, <1>5, <2>1, <2>2
<1>19. MaskInv' /\ ImageInv'
  BY <1>1, <1>6 DEF MaskInv, ImageInv
<1> QED BY <1>12, <1>13, <1>14, <1>15, <1>16, <1>17, <1>18, <1>19 DEF RasterInv, FrameOK, DrawsOK

\* Stage 3 draws all that is left in its queue.
LEMMA Stage3Keeps == ASSUME RasterInv, Stage3 PROVE RasterInv'
<1> DEFINE units == {<<u[1], InTile(u[1], u[2])>> : u \in q3}
<1>1. /\ stage = "stage2" /\ q2 = {} /\ Draw(units)
      /\ stage' = IF UseTwoPhase THEN "cull" ELSE "resolve"
      /\ UNCHANGED <<view, hiZ, twoPhase, compact, cap, mask, mask2, packed, phase,
                     batchCounter, tgs, n2, q2, n3, q3, lost, image, shown, still>>
      /\ Shape /\ FrameInv /\ ClaimInv /\ MaskInv /\ OnceInv /\ LeftOutInv /\ PackedInv /\ DrawInv
  BY DEF Stage3, RasterInv, FrameOK, DrawsOK, hostVars, maskVars, shownVars
<1>2. q3 \subseteq Items \X Nat
  BY <1>1 DEF Shape
<1>3. Paints(units)
  <2>1. \A u \in units : u[1] \in Items /\ u[2] \subseteq Covers(u[1])
    BY <1>2 DEF InTile
  <2> HIDE DEF units
  <2> QED BY <1>1, <2>1, Painted
<1>4. /\ \A x \in Items : \A p \in Covers(x) : (\E u \in units : u[1] = x /\ p \in u[2]) =>
           <<x, p \div Tile>> \in q3
      /\ \A x \in Items : \A p \in Covers(x) : <<x, p \div Tile>> \in q3 => fb'[p] <= Encode(x, p)
  <2>1. ASSUME NEW x \in Items, NEW p \in Covers(x), NEW u \in units, u[1] = x, p \in u[2]
        PROVE  <<x, p \div Tile>> \in q3
    <3>1. PICK w \in q3 : u = <<w[1], InTile(w[1], w[2])>>
      BY DEF units
    <3>2. w = <<w[1], w[2]>> /\ w[1] = x /\ p \div Tile = w[2]
      BY <1>2, <2>1, <3>1 DEF InTile
    <3> QED BY <3>2
  <2>2. ASSUME NEW x \in Items, NEW p \in Covers(x), <<x, p \div Tile>> \in q3
        PROVE  fb'[p] <= Encode(x, p)
    <3> DEFINE w == <<x, p \div Tile>>
               u == <<w[1], InTile(w[1], w[2])>>
    <3>1. u \in units /\ u[1] = x /\ p \in u[2]
      BY <2>2 DEF InTile
    <3> HIDE DEF units, u, w
    <3> QED BY <1>3, <3>1 DEF Paints
  <2> HIDE DEF units
  <2> QED BY <2>1, <2>2
<1> HIDE DEF units
<1>5. UseCompacted' = UseCompacted /\ UseTwoPhase' = UseTwoPhase /\ MaskInUse' = MaskInUse
  BY <1>1 DEF UseCompacted, UseTwoPhase, MaskInUse, NumInstances, NumDC, DC
<1>6. \A y : IsDrawn(Slot(y))' = IsDrawn(Slot(y))
  BY <1>1, <1>5, SameView DEF IsDrawn
<1>7. /\ \A y : ~InTodo(y) /\ ~Unclaimed(y)
      /\ \A y, p : ~Pending(y, p)'
      /\ \A y \in Items : \A p : Queued(y, p) <=> <<y, p \div Tile>> \in q3
  <2>1. \A y : ~InTodo(y) /\ ~Unclaimed(y) /\ ~InTodo(y)' /\ ~Unclaimed(y)'
    BY <1>1 DEF FrameInv, InTodo, Unclaimed
  <2>2. \A y, p : ~Queued(y, p)'
    BY <1>1 DEF Queued
  <2>3. \A y \in Items : \A p : Queued(y, p) <=> <<y, p \div Tile>> \in q3
    BY <1>1, <1>2, NoneAssumption DEF Queued
  <2> QED BY <2>1, <2>2, <2>3 DEF Pending
<1>8. Shape'
  <2>1. Group' = Group
    BY <1>1, SameView DEF Group
  <2>2. TypeOK'
    BY <1>1, <1>3, SameView DEF Shape, TypeOK, Paints
  <2> QED BY <1>1, <1>3, <2>1, <2>2, SameView DEF Shape, Paints
<1>9. FrameInv'
  BY <1>1, <1>5, SameView DEF FrameInv, UseTwoPhase
<1>10. ClaimInv'
  <2>1. \A h \in TG : HasReturned(h)' <=> HasReturned(h)
    BY <1>1, SameView DEF HasReturned
  <2>2. (\A h \in TG : /\ ~HasReturned(h) => Before(tgs[h].mesh) + tgs[h].local = tgs[h].block
                       /\ HasReturned(h) => /\ stage # "host" /\ tgs[h].todo = {}
                                            /\ Before(NumDC + 1) <= batchCounter
                       /\ tgs[h].todo # {} => tgs[h].block < batchCounter
                       /\ \A y \in tgs[h].todo : y[3] \div Batch = tgs[h].local /\ IsDrawn(Slot(y)))'
    BY <1>1, <2>1, SameView DEF ClaimInv, FrameInv, Before
  <2> QED BY <1>1, <2>2 DEF ClaimInv
<1>11. PackedInv'
  BY <1>1, <1>5, SameView DEF PackedInv, Begun
<1>12. \A y \in Items : \A p \in Covers(y) : Shown(y, p) => Shown(y, p)'
  BY <1>1, <1>3, SameView DEF Shown, Paints
<1>13. DrawInv'
  <2> SUFFICES ASSUME NEW y \in Items, IsDrawn(Slot(y)), NEW p \in Covers(y)
               PROVE  Shown(y, p)'
    BY <1>1, <1>6, SameView DEF DrawInv
  <2>1. Shown(y, p) \/ <<y, p \div Tile>> \in q3
    BY <1>1, <1>7 DEF DrawInv, Pending
  <2>2. <<y, p \div Tile>> \in q3 => Shown(y, p)'
    BY <1>1, <1>4, SameView DEF Shown
  <2> QED BY <1>12, <2>1, <2>2
<1>14. LeftOutInv'
  BY <1>1, <1>12, SameView DEF LeftOutInv
<1>15. OnceInv'
  <2> SUFFICES ASSUME NEW y \in Items, NEW p \in Covers(y)
               PROVE  /\ <<y, p>> \in lost => fb'[p] # Encode(y, p)
                      /\ phase = 1 /\ ~IsDrawn(Slot(y)) => fb'[p] # Encode(y, p) /\ <<y, p>> \notin lost
    BY <1>1, <1>6, <1>7, SameView DEF OnceInv, Untouched
  <2>1. fb'[p] = Encode(y, p) => fb[p] = Encode(y, p) \/ <<y, p \div Tile>> \in q3
    BY <1>3, <1>4 DEF Paints
  <2>2. <<y, p \div Tile>> \in q3 => Untouched(y, p) /\ IsDrawn(Slot(y))
    <3> SUFFICES ASSUME <<y, p \div Tile>> \in q3 PROVE Untouched(y, p) /\ IsDrawn(Slot(y))
      OBVIOUS
    <3>1. Pending(y, p)
      BY <1>7 DEF Pending
    <3>2. \A u \in q3 : u[1] = y => IsDrawn(Slot(y))
      BY <1>1 DEF OnceInv
    <3>3. <<y, p \div Tile>>[1] = y
      OBVIOUS
    <3>4. IsDrawn(Slot(y))
      BY <3>2, <3>3
    <3> QED BY <1>1, <3>1, <3>4 DEF OnceInv
  <2>3. /\ <<y, p>> \in lost => fb[p] # Encode(y, p)
        /\ phase = 1 /\ ~IsDrawn(Slot(y)) => Untouched(y, p)
    BY <1>1 DEF OnceInv, Begun
  <2> QED BY <2>1, <2>2, <2>3 DEF Untouched
<1>16. MaskInv' /\ ImageInv'
  BY <1>1, <1>5 DEF MaskInv, ImageInv
<1> QED BY <1>8, <1>9, <1>10, <1>11, <1>13, <1>14, <1>15, <1>16 DEF RasterInv, FrameOK, DrawsOK

\* Work of Stage 2: it is drawn, goes to Stage 3 or is lost.
LEMMA QueuedKeeps == ASSUME RasterInv, NEW u \in q2, ShadeQueued(u) PROVE RasterInv'
<1>1. /\ stage = "stage2" /\ q2' = q2 \ {u}
      /\ UNCHANGED <<view, hiZ, twoPhase, compact, cap, mask, mask2, packed, stage, phase,
                     batchCounter, tgs, n2, image, shown, still>>
      /\ Shape /\ FrameInv /\ ClaimInv /\ MaskInv /\ OnceInv /\ LeftOutInv /\ PackedInv /\ DrawInv
  BY DEF ShadeQueued, RasterInv, FrameOK, DrawsOK, hostVars, maskVars, shownVars
<1>2. PICK x, k : u = <<x, k>> /\ x = u[1] /\ k = u[2] /\ x \in Items /\ k \in Nat \cup {None}
  BY <1>1 DEF Shape
<1>3. \/ /\ k = None
         /\ Draw({<<x, Covers(x)>>}) /\ UNCHANGED <<n3, q3, lost>>
      \/ /\ k # None /\ n3' = n3 + 1 /\ n3 < Cap3 /\ q3' = q3 \cup {u} /\ UNCHANGED <<fb, lost>>
      \/ /\ k # None /\ n3' = n3 + 1 /\ UNCHANGED <<fb, q3>>
         /\ lost' = lost \cup {<<x, p>> : p \in InTile(x, k)}
  BY <1>2 DEF ShadeQueued, HasRoom, Lose
<1>4. /\ view \in View /\ n3 \in Nat /\ q2 \subseteq Items \X (Nat \cup {None})
      /\ q3 \subseteq Items \X Nat /\ IsFiniteSet(q3) /\ Cardinality(q3) <= n3
      /\ Cardinality(q3) <= Cap3 /\ Cardinality(q3) \in Nat
  BY <1>1, FS_CardinalityType DEF Shape, TypeOK, View
<1>5. /\ IsDrawn(Slot(x)) /\ u \notin q3
      /\ k = None => \A w \in q2 \cup q3 : w[1] = x => w = u
      /\ k # None => \A w \in q2 \cup q3 : w[1] = x => w[2] # None
  <2>1. IsDrawn(Slot(x)) /\ u \notin q3 /\ (k = None => \A w \in q2 \cup q3 : w[1] = x => w = u)
    BY <1>1, <1>2 DEF OnceInv
  <2>2. ASSUME k # None, NEW w \in q2 \cup q3, w[1] = x, w[2] = None PROVE FALSE
    <3>1. w \in q2
      BY <1>4, <2>2, NoneAssumption
    <3>2. u = w
      BY <1>1, <1>2, <2>2, <3>1 DEF OnceInv
    <3> QED BY <1>2, <2>2, <3>2
  <2> QED BY <2>1, <2>2
\* What u stands for: all of its item, or a tile of it.
<1> DEFINE Meant(p) == k = None \/ k = p \div Tile
<1>6. \A p \in Covers(x) : Meant(p) => Untouched(x, p)
  <2> SUFFICES ASSUME NEW p \in Covers(x), Meant(p) PROVE Untouched(x, p)
    OBVIOUS
  <2>1. Queued(x, p)
    BY <1>1, <1>2 DEF Queued
  <2> QED BY <1>1, <1>2, <2>1 DEF OnceInv, Pending
<1>7. /\ \A y \in Items : \A p \in Covers(y) :
           /\ fb[p] <= Encode(y, p) => fb'[p] <= Encode(y, p)
           /\ <<y, p>> \in lost => <<y, p>> \in lost'
           /\ ~(y = x /\ Meant(p)) /\ fb[p] # Encode(y, p) => fb'[p] # Encode(y, p)
           /\ ~(y = x /\ Meant(p)) /\ <<y, p>> \notin lost => <<y, p>> \notin lost'
           /\ <<y, p>> \in lost' => fb'[p] # Encode(y, p)
      /\ \A p \in Covers(x) : Meant(p) => \/ fb'[p] <= Encode(x, p)
                                          \/ <<x, p>> \in lost'
                                          \/ u \in q3' /\ k # None
      /\ q3' = q3 \/ q3' = q3 \cup {u}
      /\ u \in q3' => k # None /\ \A p \in Covers(x) : fb'[p] = fb[p] /\ lost' = lost
      /\ fb' \in [Pixel -> 0..Empty]
      /\ \A p \in Pixel : fb'[p] = Empty \/ \E y \in Items : p \in Covers(y) /\ fb'[p] = Encode(y, p)
      /\ \A e \in lost' : e \in lost \/ (e[1] = x /\ e[2] \in Covers(x))
      /\ n3' \in Nat /\ q3' \subseteq Items \X Nat /\ IsFiniteSet(q3') /\ Cardinality(q3') <= n3'
      /\ Cardinality(q3') <= Cap3
  <2>1. \A y \in Items : \A p \in Covers(y) : <<y, p>> \in lost => fb[p] # Encode(y, p)
    BY <1>1 DEF OnceInv
  <2>2. CASE k = None /\ Draw({<<x, Covers(x)>>}) /\ UNCHANGED <<n3, q3, lost>>
    <3>1. Paints({<<x, Covers(x)>>})
      <4>1. \A w \in {<<x, Covers(x)>>} : w[1] \in Items /\ w[2] \subseteq Covers(w[1])
        BY <1>2
      <4> QED BY <1>1, <2>2, <4>1, Painted
    <3>2. \A y \in Items : \A p \in Covers(y) :
            /\ fb[p] <= Encode(y, p) => fb'[p] <= Encode(y, p)
            /\ y # x /\ fb[p] # Encode(y, p) => fb'[p] # Encode(y, p)
      BY <3>1 DEF Paints
    <3>3. \A p \in Covers(x) : fb'[p] <= Encode(x, p)
      BY <3>1 DEF Paints
    <3>4. \A p \in Covers(x) : <<x, p>> \notin lost
      BY <1>6, <2>2 DEF Untouched
    <3>5. /\ fb' \in [Pixel -> 0..Empty]
          /\ \A p \in Pixel : fb'[p] = Empty \/ \E y \in Items : p \in Covers(y) /\ fb'[p] = Encode(y, p)
      BY <3>1 DEF Paints
    <3> QED BY <1>2, <1>4, <1>5, <2>1, <2>2, <3>2, <3>3, <3>4, <3>5
  <2>3. CASE k # None /\ n3' = n3 + 1 /\ n3 < Cap3 /\ q3' = q3 \cup {u} /\ UNCHANGED <<fb, lost>>
    <3>1. /\ fb' \in [Pixel -> 0..Empty]
          /\ \A p \in Pixel : fb'[p] = Empty \/ \E y \in Items : p \in Covers(y) /\ fb'[p] = Encode(y, p)
      BY <1>1, <2>3, NothingPainted DEF Paints
    <3>2. IsFiniteSet(q3') /\ Cardinality(q3') <= n3' /\ Cardinality(q3') <= Cap3
      <4>1. IsFiniteSet(q3') /\ Cardinality(q3') = Cardinality(q3) + 1
        BY <1>4, <1>5, <2>3, FS_AddElement
      <4> QED BY <1>4, <2>3, <4>1, SizeFacts
    <3>3. q3' \subseteq Items \X Nat /\ n3' \in Nat
      BY <1>2, <1>4, <2>3
    <3> QED BY <1>2, <2>1, <2>3, <3>1, <3>2, <3>3
  <2>4. CASE k # None /\ n3' = n3 + 1 /\ UNCHANGED <<fb, q3>>
             /\ lost' = lost \cup {<<x, p>> : p \in InTile(x, k)}
    <3>1. /\ fb' \in [Pixel -> 0..Empty]
          /\ \A p \in Pixel : fb'[p] = Empty \/ \E y \in Items : p \in Covers(y) /\ fb'[p] = Encode(y, p)
      BY <1>1, <2>4, NothingPainted DEF Paints
    <3>2. n3' \in Nat /\ Cardinality(q3') <= n3'
      BY <1>4, <2>4
    <3>3. \A p \in Covers(x) : Meant(p) <=> p \in InTile(x, k)
      BY <2>4 DEF InTile
    <3>4. InTile(x, k) \subseteq Covers(x)
      BY DEF InTile
    <3>5. \A y, p : <<y, p>> \in lost' <=> <<y, p>> \in lost \/ (y = x /\ p \in InTile(x, k))
      BY <2>4
    <3>6. \A e \in lost' : e \in lost \/ (e[1] = x /\ e[2] \in Covers(x))
      BY <2>4, <3>4
    <3>7. \A y \in Items : \A p \in Covers(y) : <<y, p>> \in lost' => fb'[p] # Encode(y, p)
      BY <1>6, <2>1, <2>4, <3>3, <3>4, <3>5 DEF Untouched
    <3> HIDE DEF Meant
    <3> QED BY <1>2, <1>4, <1>5, <2>4, <3>1, <3>2, <3>3, <3>4, <3>5, <3>6, <3>7
  <2> QED BY <1>3, <2>2, <2>3, <2>4
<1>8. UseCompacted' = UseCompacted /\ UseTwoPhase' = UseTwoPhase /\ MaskInUse' = MaskInUse
  BY <1>1 DEF UseCompacted, UseTwoPhase, MaskInUse, NumInstances, NumDC, DC
<1>9. \A y : IsDrawn(Slot(y))' = IsDrawn(Slot(y))
  BY <1>1, <1>8, SameView DEF IsDrawn
<1>10. \A y : ~InTodo(y) /\ ~Unclaimed(y) /\ ~InTodo(y)' /\ ~Unclaimed(y)'
  BY <1>1 DEF FrameInv, InTodo, Unclaimed
\* What is in the queues from now on was before, and is not what u stands for
\* unless u has moved on.
<1>11. \A y \in Items : \A p \in Covers(y) :
         /\ Queued(y, p)' => Queued(y, p)
         /\ Queued(y, p)' /\ y = x /\ Meant(p) => u \in q3'
         /\ Queued(y, p) => Queued(y, p)' \/ (y = x /\ Meant(p))
         /\ u \in q3' /\ k # None /\ y = x /\ Meant(p) => Queued(y, p)'
  <2> SUFFICES ASSUME NEW y \in Items, NEW p \in Covers(y)
               PROVE  /\ Queued(y, p)' => Queued(y, p)
                      /\ Queued(y, p)' /\ y = x /\ Meant(p) => u \in q3'
                      /\ Queued(y, p) => Queued(y, p)' \/ (y = x /\ Meant(p))
                      /\ u \in q3' /\ k # None /\ y = x /\ Meant(p) => Queued(y, p)'
    OBVIOUS
  <2>1. Queued(y, p)' <=> \E j \in {None, p \div Tile} : <<y, j>> \in (q2 \ {u}) \cup q3'
    BY <1>1 DEF Queued
  <2>2. Queued(y, p) <=> \E j \in {None, p \div Tile} : <<y, j>> \in q2 \cup q3
    BY <1>1 DEF Queued
  <2>3. Queued(y, p)' => Queued(y, p)
    BY <1>7, <2>1, <2>2
  <2>4. Queued(y, p) => Queued(y, p)' \/ (y = x /\ Meant(p))
    BY <1>2, <1>7, <2>1, <2>2
  <2>5. u \in q3' /\ k # None /\ y = x /\ Meant(p) => Queued(y, p)'
    BY <1>2, <2>1
  <2>6. ASSUME Queued(y, p)', y = x, Meant(p) PROVE u \in q3'
    <3>1. PICK j \in {None, p \div Tile} : <<y, j>> \in (q2 \ {u}) \cup q3'
      BY <2>1, <2>6
    <3>2. CASE <<y, j>> \in q2 \ {u}
      <4>1. <<y, j>>[1] = x /\ <<y, j>>[2] = j
        BY <2>6
      <4>2. j # None /\ k # None
        BY <1>5, <3>2, <4>1
      <4>3. <<y, j>> = u
        BY <1>2, <2>6, <4>2
      <4> QED BY <3>2, <4>3
    <3>3. CASE <<y, j>> \in q3'
      <4>1. CASE <<y, j>> = u
        BY <3>3, <4>1
      <4>2. CASE <<y, j>> # u
        <5>1. <<y, j>> \in q3 /\ <<y, j>>[1] = x /\ <<y, j>>[2] = j
          BY <1>7, <2>6, <3>3, <4>2
        <5>2. j # None /\ k # None
          BY <1>4, <1>5, <4>2, <5>1, NoneAssumption
        <5>3. <<y, j>> = u
          BY <1>2, <2>6, <5>2
        <5> QED BY <4>2, <5>3
      <4> QED BY <4>1, <4>2
    <3> QED BY <3>1, <3>2, <3>3
  <2> QED BY <2>3, <2>4, <2>5, <2>6
<1> HIDE DEF Meant
<1>12. Shape'
  <2>1. Group' = Group
    BY <1>1, SameView DEF Group
  <2>2. \A e \in lost' : e[1] \in Items /\ e[2] \in Covers(e[1])
    BY <1>1, <1>2, <1>7 DEF Shape, TypeOK
  <2>3. TypeOK'
    BY <1>1, <1>7, <2>2, SameView DEF Shape, TypeOK
  <2>4. q2' \subseteq Items \X (Nat \cup {None})
    BY <1>1, <1>4
  <2> QED BY <1>1, <1>7, <2>1, <2>3, <2>4, SameView DEF Shape
<1>13. FrameInv'
  BY <1>1, <1>8, SameView DEF FrameInv
<1>14. ClaimInv'
  <2>1. \A h \in TG : HasReturned(h)' <=> HasReturned(h)
    BY <1>1, SameView DEF HasReturned
  <2>2. (\A h \in TG : /\ ~HasReturned(h) => Before(tgs[h].mesh) + tgs[h].local = tgs[h].block
                       /\ HasReturned(h) => /\ stage # "host" /\ tgs[h].todo = {}
                                            /\ Before(NumDC + 1) <= batchCounter
                       /\ tgs[h].todo # {} => tgs[h].block < batchCounter
                       /\ \A y \in tgs[h].todo : y[3] \div Batch = tgs[h].local /\ IsDrawn(Slot(y)))'
    BY <1>1, <2>1, SameView DEF ClaimInv, FrameInv, Before
  <2> QED BY <1>1, <2>2 DEF ClaimInv
<1>15. PackedInv'
  BY <1>1, <1>8, SameView DEF PackedInv, Begun
<1>16. \A y \in Items : \A p \in Covers(y) : Shown(y, p) => Shown(y, p)'
  BY <1>1, <1>7, SameView DEF Shown
<1>17. DrawInv'
  <2> SUFFICES ASSUME NEW y \in Items, IsDrawn(Slot(y)), NEW p \in Covers(y)
               PROVE  Shown(y, p)' \/ Pending(y, p)'
    BY <1>1, <1>9, SameView DEF DrawInv
  <2>1. Shown(y, p) \/ Queued(y, p)
    BY <1>1, <1>10 DEF DrawInv, Pending
  <2>2. y = x /\ Meant(p) => Shown(y, p)' \/ (u \in q3' /\ k # None)
    BY <1>1, <1>7, SameView DEF Shown
  <2> QED BY <1>11, <1>16, <2>1, <2>2 DEF Pending
<1>18. LeftOutInv'
  BY <1>1, <1>16, SameView DEF LeftOutInv
<1>19. OnceInv'
  <2> SUFFICES ASSUME NEW y \in Items
               PROVE  /\ \A p \in Covers(y) :
                           /\ Pending(y, p)' => Untouched(y, p)'
                           /\ <<y, p>> \in lost' => fb'[p] # Encode(y, p)
                           /\ phase = 1 /\ ~IsDrawn(Slot(y)) => Untouched(y, p)'
                      /\ \A w \in q2' \cup q3' : w[1] = y => IsDrawn(Slot(y))
                      /\ \A w \in q2' : w[1] = y /\ w[2] = None =>
                           \A z \in q2' \cup q3' : z[1] = y => z = w
                      /\ \A w \in q2' : w[1] = y => w \notin q3'
    BY <1>1, <1>9, SameView DEF OnceInv, Untouched
  <2>1. \A p \in Covers(y) : ~(y = x /\ Meant(p)) /\ Untouched(y, p) => Untouched(y, p)'
    BY <1>1, <1>7, SameView DEF Untouched
  <2>2. \A p \in Covers(y) : y = x /\ u \in q3' /\ Untouched(y, p) => Untouched(y, p)'
    BY <1>1, <1>7, SameView DEF Untouched
  <2>3. \A p \in Covers(y) : Pending(y, p)' => Untouched(y, p)'
    <3>1. \A p \in Covers(y) : Pending(y, p)' => Queued(y, p)'
      BY <1>10 DEF Pending
    <3>2. \A p \in Covers(y) : Queued(y, p) => Untouched(y, p)
      BY <1>1 DEF OnceInv, Pending
    <3> QED BY <1>11, <2>1, <2>2, <3>1, <3>2
  <2>4. \A p \in Covers(y) : phase = 1 /\ ~IsDrawn(Slot(y)) => Untouched(y, p)'
    BY <1>1, <1>5, <2>1 DEF OnceInv, Begun
  <2>5. q2' \cup q3' \subseteq q2 \cup q3 /\ q2' \subseteq q2 /\ u \notin q2'
    BY <1>1, <1>7
  <2>6. /\ \A w \in q2' \cup q3' : w[1] = y => IsDrawn(Slot(y))
        /\ \A w \in q2' : w[1] = y /\ w[2] = None => \A z \in q2' \cup q3' : z[1] = y => z = w
        /\ \A w \in q2' : w[1] = y => w \notin q3'
    BY <1>1, <1>7, <2>5 DEF OnceInv
  <2> QED BY <1>7, <2>3, <2>4, <2>6
<1>20. MaskInv' /\ ImageInv'
  BY <1>1, <1>8 DEF MaskInv, ImageInv
<1> QED BY <1>12, <1>13, <1>14, <1>15, <1>17, <1>18, <1>19, <1>20 DEF RasterInv, FrameOK, DrawsOK

-----------------------------------------------------------------------------
(* Culling and the end of a frame.                                         *)

\* At the end of a draw nothing is pending, so that what is drawn is there.
LEMMA AllDrawn ==
  ASSUME FrameInv, DrawInv, stage \in {"cull", "resolve"}
  PROVE  /\ \A x, p : ~Pending(x, p)
         /\ \A x \in Items : IsDrawn(Slot(x)) => \A p \in Covers(x) : Shown(x, p)
<1>1. \A x, p : ~Pending(x, p)
  BY DEF FrameInv, Pending, Unclaimed, InTodo, Queued
<1> QED BY <1>1 DEF DrawInv

\* The first cull of two: what becomes visible is left to the second phase.
LEMMA DiffKeeps == ASSUME RasterInv, CullDiff PROVE RasterInv'
<1>1. /\ stage = "cull" /\ UseTwoPhase /\ phase = 1 /\ phase' = 2
      /\ mask2' = (mask2 \ BitsFor(NumInstances)) \cup (NowVisible \ mask)
      /\ batchCounter' = 0 /\ n2' = 0 /\ q2' = {} /\ n3' = 0 /\ q3' = {}
      /\ tgs' = [g \in TG |-> NotStarted]
      /\ stage' = IF UseCompacted THEN "compact" ELSE "dispatch"
      /\ UNCHANGED <<view, hiZ, twoPhase, compact, cap, mask, packed, fb, lost, image, shown, still>>
      /\ Shape /\ FrameInv /\ ClaimInv /\ MaskInv /\ OnceInv /\ LeftOutInv /\ PackedInv /\ DrawInv
  BY DEF CullDiff, Reset, RasterInv, FrameOK, DrawsOK, hostVars, shownVars
<1>2. /\ view \in View /\ 1 <= NumDC /\ NumDC \in Nat /\ hiZ
      /\ \A x \in Items : Slot(x) \in Slots
      /\ Slots \subseteq BitsFor(NumInstances) /\ Slots \subseteq AllBits
  <2>1. view \in View
    BY <1>1 DEF Shape, TypeOK, View
  <2>2. 1 <= NumDC /\ NumDC \in Nat
    BY <2>1, CallFacts DEF NumDC, DC, CallsOf
  <2>3. \A x \in Items : Slot(x) \in Slots
    BY <2>1, BoundView, SlotsHaveBits
  <2>4. Slots \subseteq AllBits
    BY <2>1, BoundView, SlotsHaveBits
  <2>5. NumInstances \in Nat
    BY <2>1, BoundView, CallFacts
  <2>6. Slots \subseteq BitsFor(NumInstances)
    <3>1. \A s \in Slots : s \in Nat /\ s < NumInstances
      BY <2>5 DEF Slots
    <3> QED BY <2>5, <3>1, SlotsHaveBits
  <2> QED BY <1>1, <2>1, <2>2, <2>3, <2>4, <2>6 DEF UseTwoPhase
<1>3. UseCompacted' = UseCompacted /\ UseTwoPhase' = UseTwoPhase
  BY <1>1 DEF UseCompacted, UseTwoPhase, NumInstances, NumDC, DC
<1>4. /\ \A x, p : ~Pending(x, p)
      /\ \A x \in Items : IsDrawn(Slot(x)) => \A p \in Covers(x) : Shown(x, p)
  BY <1>1, AllDrawn
<1>5. \A x \in Items : IsDrawn(Slot(x)) <=> Slot(x) \in mask
  <2>1. MaskInUse = mask
    BY <1>1 DEF MaskInUse
  <2>2. UseCompacted => \A s \in Slots : s \in packed <=> s \in mask
    BY <1>1, <2>1 DEF PackedInv, Begun
  <2> QED BY <1>2, <2>1, <2>2 DEF IsDrawn
<1>6. \A x \in Items : Slot(x) \in mask2' <=> Slot(x) \in NowVisible /\ Slot(x) \notin mask
  BY <1>1, <1>2
<1>7. Shape'
  <2>1. \A g \in TG : tgs'[g].mesh = 1 /\ tgs'[g].local = 0 /\ tgs'[g].block = 0 /\ tgs'[g].todo = {}
    BY <1>1 DEF NotStarted
  <2>2. (tgs \in [TG -> Group])'
    BY <1>1 DEF Group, NotStarted
  <2>3. Cardinality({}) = 0 /\ IsFiniteSet({})
    BY FS_EmptySet
  <2>4. mask2' \subseteq AllBits
    <3>1. mask2 \subseteq AllBits
      BY <1>1 DEF Shape, TypeOK
    <3> QED BY <1>1, <1>2, <3>1 DEF NowVisible
  <2>5. TypeOK'
    BY <1>1, <1>2, <2>1, <2>3, <2>4, SameView, SizeFacts DEF Shape, TypeOK
  <2> QED BY <1>1, <2>2, <2>3, <2>5, SameView DEF Shape
<1>8. FrameInv'
  <2>1. \A g \in TG : tgs'[g].todo = {}
    BY <1>1 DEF NotStarted
  <2> QED BY <1>1, <1>3, <2>1, SameView DEF FrameInv
<1>9. ClaimInv'
  BY <1>1, <1>2, NoClaimsNext
<1>10. PackedInv' /\ DrawInv' /\ ImageInv'
  BY <1>1, <1>3 DEF PackedInv, DrawInv, ImageInv, Begun
<1>11. LeftOutInv'
  <2> SUFFICES ASSUME EvenLevels, NEW x \in Items, Slot(x) \notin mask2', NEW p \in Covers(x)
               PROVE  Shown(x, p)
    BY <1>1, SameView DEF LeftOutInv, Shown
  <2>1. CASE Slot(x) \in mask
    BY <1>4, <1>5, <2>1
  <2>2. CASE Slot(x) \notin NowVisible
    <3>1. p \in Pixel /\ fb[p] < Encode(x, p)
      BY <1>1, <2>2, Hidden
    <3>2. Encode(x, p) \in Nat /\ fb[p] \in Nat
      BY <1>1, <1>2, <3>1, Decoded, DepthsOrdered DEF Shape, TypeOK
    <3> QED BY <3>1, <3>2 DEF Shown
  <2> QED BY <1>6, <2>1, <2>2
<1>12. OnceInv'
  <2> SUFFICES ASSUME NEW x \in Items, NEW p \in Covers(x)
               PROVE  /\ Pending(x, p)' => Untouched(x, p)
                      /\ <<x, p>> \in lost => fb[p] # Encode(x, p)
                      /\ Slot(x) \in mask2' => Untouched(x, p)
    BY <1>1, SameView DEF OnceInv, Untouched
  <2>1. Slot(x) \in mask2' => Untouched(x, p)
    BY <1>1, <1>5, <1>6 DEF OnceInv, Begun
  <2>2. Pending(x, p)' => Slot(x) \in mask2'
    <3> SUFFICES ASSUME Pending(x, p)' PROVE Slot(x) \in mask2'
      OBVIOUS
    <3>1. Unclaimed(x)'
      BY <1>1 DEF Pending, InTodo, Queued, NotStarted
    <3>2. stage' = "dispatch" /\ IsDrawn(Slot(x))'
      BY <1>1, <3>1 DEF Unclaimed
    <3>3. ~UseCompacted' /\ hiZ' /\ MaskInUse' = mask2'
      BY <1>1, <1>2, <1>3, <3>2 DEF MaskInUse
    <3>4. Slot(x)' \in mask2'
      BY <3>2, <3>3 DEF IsDrawn
    <3> QED BY <1>1, <3>4, SameView
  <2> QED BY <1>1, <2>1, <2>2 DEF OnceInv
<1>13. MaskInv'
  BY <1>1, <1>3 DEF MaskInv
<1> QED BY <1>7, <1>8, <1>9, <1>10, <1>11, <1>12, <1>13 DEF RasterInv, FrameOK, DrawsOK

\* The mask of what is visible leaves out what something it keeps hides.
LEMMA VisibleGood ==
  ASSUME EvenLevels, Shape, NEW m, NowVisible \subseteq m
  PROVE  GoodMask(view, m)
<1>1. view \in View
  BY DEF Shape, TypeOK, View
<1> SUFFICES ASSUME NEW x \in Items, NEW p \in Covers(x), Slot(x) \notin m
             PROVE  \E y \in Items : Slot(y) \in m /\ p \in Covers(y) /\ Tri(y).z[p] < Tri(x).z[p]
  BY BoundView DEF GoodMask
<1>2. p \in Pixel /\ Depths[p] = Depth(fb[p]) /\ Depths[p] < Tri(x).z[p]
  BY Hidden
<1>3. Tri(x).z[p] \in 0..(Far - 1)
  BY <1>1, Decoded
<1>4. fb[p] # Empty
  BY <1>2, <1>3, DepthsOrdered, SizeFacts
<1>5. PICK y \in Items : p \in Covers(y) /\ fb[p] = Encode(y, p)
  BY <1>2, <1>4 DEF Shape
<1>6. Depths[p] = Tri(y).z[p] /\ Tri(y).z[p] \in Nat
  BY <1>1, <1>2, <1>5, Decoded, SizeFacts
<1>7. Slot(y) \in m
  <2> SUFFICES ASSUME Slot(y) \notin NowVisible PROVE FALSE
    OBVIOUS
  <2>1. Depths[p] < Tri(y).z[p]
    BY <1>5, Hidden
  <2> QED BY <1>6, <2>1
<1> QED BY <1>2, <1>5, <1>6, <1>7

\* The last cull of a frame.
LEMMA AbsoluteKeeps == ASSUME RasterInv, CullAbsolute PROVE RasterInv'
<1>1. /\ stage = "cull" /\ (UseTwoPhase => phase = 2)
      /\ mask' = (mask \ BitsFor(NumInstances)) \cup NowVisible
      /\ stage' = IF UseTwoPhase THEN "resolve" ELSE "submitted"
      /\ UNCHANGED <<view, hiZ, twoPhase, compact, cap, mask2, packed, phase, batchCounter, tgs,
                     n2, q2, n3, q3, fb, lost, image, shown, still>>
      /\ Shape /\ FrameInv /\ ClaimInv /\ MaskInv /\ OnceInv /\ LeftOutInv /\ PackedInv
      /\ DrawInv /\ ImageInv
  BY DEF CullAbsolute, RasterInv, FrameOK, DrawsOK, hostVars, drawVars, shownVars
<1>2. UseCompacted' = UseCompacted /\ UseTwoPhase' = UseTwoPhase
  BY <1>1 DEF UseCompacted, UseTwoPhase, NumInstances, NumDC, DC
<1>3. view \in View /\ Slots \subseteq AllBits /\ hiZ
  BY <1>1, BoundView, SlotsHaveBits DEF Shape, TypeOK, View, FrameInv
<1>4. \A x, p : ~Pending(x, p) /\ ~Pending(x, p)'
  BY <1>1 DEF FrameInv, Pending, Unclaimed, InTodo, Queued
<1>5. UseTwoPhase => MaskInUse' = MaskInUse
  BY <1>1, <1>2 DEF MaskInUse
<1>6. UseTwoPhase => \A y : IsDrawn(Slot(y))' = IsDrawn(Slot(y))
  BY <1>1, <1>2, <1>5, SameView DEF IsDrawn
<1>7. Shape'
  <2>1. mask' \subseteq AllBits
    <3>1. mask \subseteq AllBits
      BY <1>1 DEF Shape, TypeOK
    <3> QED BY <1>1, <1>3, <3>1 DEF NowVisible
  <2>2. Group' = Group
    BY <1>1, SameView DEF Group
  <2>3. TypeOK'
    BY <1>1, <2>1, SameView DEF Shape, TypeOK
  <2> QED BY <1>1, <2>2, <2>3, SameView DEF Shape
<1>8. FrameInv'
  BY <1>1, <1>2, <1>3, SameView DEF FrameInv
<1>9. ClaimInv'
  <2>1. \A h \in TG : HasReturned(h)' <=> HasReturned(h)
    BY <1>1, SameView DEF HasReturned
  <2>2. (\A h \in TG : /\ ~HasReturned(h) => Before(tgs[h].mesh) + tgs[h].local = tgs[h].block
                       /\ HasReturned(h) => /\ stage # "host" /\ tgs[h].todo = {}
                                            /\ Before(NumDC + 1) <= batchCounter
                       /\ tgs[h].todo # {} => tgs[h].block < batchCounter
                       /\ \A y \in tgs[h].todo : y[3] \div Batch = tgs[h].local /\ IsDrawn(Slot(y)))'
    BY <1>1, <2>1, SameView DEF ClaimInv, FrameInv, Before
  <2> QED BY <1>1, <2>2 DEF ClaimInv
<1>10. PackedInv'
  BY <1>1, <1>2, <1>5, SameView DEF PackedInv, Begun
<1>11. DrawInv'
  <2>1. UseTwoPhase => DrawInv'
    BY <1>1, <1>4, <1>6, SameView DEF DrawInv, Shown
  <2> QED BY <1>1, <2>1 DEF DrawInv
<1>12. LeftOutInv'
  BY <1>1, SameView DEF LeftOutInv, Shown
<1>13. OnceInv'
  <2> SUFFICES ASSUME NEW x \in Items, NEW p \in Covers(x)
               PROVE  <<x, p>> \in lost => fb[p] # Encode(x, p)
    <3>1. stage' # "stage1" /\ stage' # "stage2" /\ stage' \notin {"compact", "dispatch"}
      BY <1>1
    <3>2. phase' = 1 => ~Begun'
      BY <1>1 DEF Begun
    <3> QED BY <1>1, <1>4, <3>1, <3>2, SameView DEF OnceInv, Untouched
  <2> QED BY <1>1 DEF OnceInv
<1>14. MaskInv'
  <2>1. EvenLevels => GoodMask(view, mask')
    BY <1>1, VisibleGood
  <2>2. ~UseTwoPhase => shown = view
    BY <1>1 DEF FrameInv
  <2> QED BY <1>1, <1>2, <2>1, <2>2 DEF MaskInv
<1>15. ImageInv'
  <2> SUFFICES ASSUME ~UseTwoPhase
               PROVE  \A p \in Pixel :
                        /\ hiZ => EvenLevels
                        /\ hiZ /\ ~twoPhase => still /\ \A e \in lost : e[2] # p
                        => NearestAt(p)'
    BY <1>1 DEF ImageInv
  <2>1. \A p \in Pixel : NearestAt(p)' = NearestAt(p)
    BY <1>1, SameView DEF NearestAt
  <2> QED BY <1>1, <2>1 DEF ImageInv
<1> QED BY <1>7, <1>8, <1>9, <1>10, <1>11, <1>12, <1>13, <1>14, <1>15 DEF RasterInv, FrameOK, DrawsOK

\* What is resolved is the nearest of what was not dropped, where all of that
\* has been drawn.
LEMMA Resolved ==
  ASSUME Shape, OnceInv, NEW p \in Pixel, view' = view, lost' = lost,
         image'[p] = (IF Depth(fb[p]) = Far THEN None ELSE Decode(fb[p])),
         \A x \in Items : p \in Covers(x) /\ <<x, p>> \notin lost => fb[p] <= Encode(x, p)
  PROVE  NearestAt(p)'
<1> DEFINE there == {x \in Items : p \in Covers(x) /\ <<x, p>> \notin lost}
<1>1. view \in View /\ fb[p] \in Nat
  BY DepthsOrdered DEF Shape, TypeOK, View
<1>2. CASE fb[p] = Empty
  <2>1. there = {}
    <3> SUFFICES ASSUME NEW x \in there PROVE FALSE
      OBVIOUS
    <3>1. Encode(x, p) \in Nat /\ Encode(x, p) < Empty /\ fb[p] <= Encode(x, p) /\ Empty \in Nat
      BY <1>1, Decoded, DepthsOrdered
    <3> QED BY <1>2, <3>1
  <2>2. image'[p] = None
    BY <1>2, DepthsOrdered
  <2> QED BY <2>1, <2>2, SameView DEF NearestAt
<1>3. CASE fb[p] # Empty
  <2>1. PICK y \in Items : p \in Covers(y) /\ fb[p] = Encode(y, p)
    BY <1>3 DEF Shape
  <2>2. y \in there
    BY <2>1 DEF OnceInv
  <2>3. /\ Tri(y).z[p] \in 0..(Far - 1) /\ Depth(fb[p]) = Tri(y).z[p] /\ Decode(fb[p]) = y
    BY <1>1, <2>1, Decoded
  <2>4. image'[p] = y
    BY <2>3, SizeFacts
  <2>5. ASSUME NEW x \in there PROVE Tri(y).z[p] <= Tri(x).z[p]
    <3>1. fb[p] <= Encode(x, p) /\ Encode(x, p) \in Nat /\ Depth(Encode(x, p)) = Tri(x).z[p]
      BY <1>1, Decoded
    <3>2. Depth(fb[p]) <= Depth(Encode(x, p))
      BY <1>1, <3>1, DepthsOrdered
    <3> QED BY <2>3, <3>1, <3>2
  <2>6. {x \in Items' : p \in Covers(x)' /\ <<x, p>> \notin lost'} = there
    BY SameView
  <2>7. \A x \in there : Tri(y).z[p]' <= Tri(x).z[p]'
    BY <2>5, SameView
  <2>8. there # {}
    BY <2>2
  <2> HIDE DEF there
  <2> QED BY <2>2, <2>4, <2>6, <2>7, <2>8 DEF NearestAt, Tri, Slot, DC
<1> QED BY <1>2, <1>3

\* The image is resolved.
LEMMA ResolveKeeps == ASSUME RasterInv, Resolve PROVE RasterInv'
<1>1. /\ stage = "resolve"
      /\ image' = [p \in Pixel |-> IF Depth(fb[p]) = Far THEN None ELSE Decode(fb[p])]
      /\ shown' = view /\ still' = (shown = view)
      /\ stage' = IF hiZ /\ ~twoPhase THEN "cull" ELSE "submitted"
      /\ UNCHANGED <<view, hiZ, twoPhase, compact, cap, mask, mask2, packed, phase, batchCounter, tgs,
                     n2, q2, n3, q3, fb, lost>>
      /\ Shape /\ FrameInv /\ ClaimInv /\ MaskInv /\ OnceInv /\ LeftOutInv /\ PackedInv /\ DrawInv
  BY DEF Resolve, RasterInv, FrameOK, DrawsOK, hostVars, maskVars, drawVars
<1>2. UseCompacted' = UseCompacted /\ UseTwoPhase' = UseTwoPhase /\ MaskInUse' = MaskInUse
  BY <1>1 DEF UseCompacted, UseTwoPhase, MaskInUse, NumInstances, NumDC, DC
<1>3. /\ view \in View /\ shown \in View \cup {None} /\ None \notin View
      /\ \A x \in Items : Slot(x) \in Slots
      /\ UseTwoPhase <=> hiZ /\ twoPhase
  <2>1. view \in View /\ shown \in View \cup {None}
    BY <1>1 DEF Shape, TypeOK, View
  <2>2. \A x \in Items : Slot(x) \in Slots
    BY <2>1, BoundView, SlotsHaveBits
  <2> QED BY <2>1, <2>2, NoneAssumption DEF View, UseTwoPhase
<1>4. /\ \A x, p : ~Pending(x, p) /\ ~Pending(x, p)'
      /\ \A x \in Items : IsDrawn(Slot(x)) => \A p \in Covers(x) : Shown(x, p)
  <2>1. \A x, p : ~Pending(x, p)'
    BY <1>1 DEF FrameInv, Pending, Unclaimed, InTodo, Queued
  <2> QED BY <1>1, <2>1, AllDrawn
<1>5. \A y : IsDrawn(Slot(y))' = IsDrawn(Slot(y))
  BY <1>1, <1>2, SameView DEF IsDrawn
<1>6. Shape'
  <2>1. Group' = Group
    BY <1>1, SameView DEF Group
  <2>2. TypeOK'
    BY <1>1, SameView DEF Shape, TypeOK
  <2>3. shown' \in (1..Len(Views)) \cup {None} /\ still' \in BOOLEAN
    BY <1>1, <1>3 DEF View
  <2> QED BY <1>1, <2>1, <2>2, <2>3, SameView DEF Shape
<1>7. FrameInv'
  <2>1. \A s \in SlotsOf(shown') : s < cap'
    <3>1. NumInstances <= cap /\ cap \in Nat
      BY <1>1, SizeFacts DEF FrameInv, Shape, TypeOK
    <3>2. NumInstances \in Nat /\ SlotsOf(view) = Slots
      BY <1>3, BoundView, CallFacts
    <3>3. \A s \in Slots : s < cap
      BY <3>1, <3>2 DEF Slots
    <3> QED BY <1>1, <3>2, <3>3
  <2> QED BY <1>1, <1>2, <1>3, <2>1, SameView DEF FrameInv
<1>8. ClaimInv'
  <2>1. \A h \in TG : HasReturned(h)' <=> HasReturned(h)
    BY <1>1, SameView DEF HasReturned
  <2>2. (\A h \in TG : /\ ~HasReturned(h) => Before(tgs[h].mesh) + tgs[h].local = tgs[h].block
                       /\ HasReturned(h) => /\ stage # "host" /\ tgs[h].todo = {}
                                            /\ Before(NumDC + 1) <= batchCounter
                       /\ tgs[h].todo # {} => tgs[h].block < batchCounter
                       /\ \A y \in tgs[h].todo : y[3] \div Batch = tgs[h].local /\ IsDrawn(Slot(y)))'
    BY <1>1, <2>1, SameView DEF ClaimInv, FrameInv, Before
  <2> QED BY <1>1, <2>2 DEF ClaimInv
<1>9. PackedInv'
  BY <1>1, <1>2, <1>3 DEF PackedInv, Begun
<1>10. DrawInv'
  BY <1>1, <1>4, <1>5, SameView DEF DrawInv, Shown
<1>11. LeftOutInv'
  BY <1>1, SameView DEF LeftOutInv, Shown
<1>12. OnceInv'
  <2> SUFFICES ASSUME NEW x \in Items, NEW p \in Covers(x)
               PROVE  /\ <<x, p>> \in lost => fb[p] # Encode(x, p)
                      /\ phase = 1 /\ ~IsDrawn(Slot(x)) => Untouched(x, p)
    <3>1. stage' # "stage1" /\ stage' # "stage2" /\ stage' \notin {"compact", "dispatch"}
      BY <1>1
    <3> QED BY <1>1, <1>4, <1>5, <3>1, SameView DEF OnceInv, Untouched
  <2> QED BY <1>1 DEF OnceInv, Begun
<1>13. MaskInv'
  <2>1. ~hiZ => GoodMask(view, mask)
    BY <1>1, <1>3, AllBitsGood DEF FrameInv
  <2>2. EvenLevels /\ UseTwoPhase => GoodMask(view, mask)
    BY <1>1 DEF MaskInv
  <2>3. stage' = "submitted" => ~hiZ \/ UseTwoPhase
    BY <1>1, <1>3
  <2>4. stage' # "submitted" => stage' = "cull" /\ ~UseTwoPhase
    BY <1>1, <1>3
  <2> QED BY <1>1, <1>2, <2>1, <2>2, <2>3, <2>4 DEF MaskInv
<1>14. ImageInv'
  <2> SUFFICES ASSUME NEW p \in Pixel, hiZ => EvenLevels,
                      hiZ /\ ~twoPhase => shown = view /\ \A e \in lost : e[2] # p
               PROVE  NearestAt(p)'
    BY <1>1 DEF ImageInv
  <2>1. ASSUME NEW x \in Items, p \in Covers(x), <<x, p>> \notin lost PROVE fb[p] <= Encode(x, p)
    <3>1. CASE ~hiZ
      BY <1>4, <2>1, <3>1 DEF IsDrawn, Shown
    <3>2. CASE UseTwoPhase
      <4>1. phase = 2 /\ hiZ /\ MaskInUse = mask2
        BY <1>1, <1>3, <3>2 DEF FrameInv, MaskInUse
      <4>2. Slot(x) \in mask2 => IsDrawn(Slot(x))
        BY <1>1, <1>3, <3>2, <4>1 DEF IsDrawn, PackedInv, Begun
      <4>3. Slot(x) \notin mask2 => Shown(x, p)
        BY <1>1, <2>1, <4>1 DEF LeftOutInv
      <4> QED BY <1>4, <2>1, <4>2, <4>3 DEF Shown
    <3>3. CASE hiZ /\ ~twoPhase
      <4>1. /\ phase = 1 /\ ~UseTwoPhase /\ shown = view /\ MaskInUse = mask
            /\ \A e \in lost : e[2] # p
        BY <1>1, <1>3, <2>1, <3>3 DEF FrameInv, MaskInUse, Shape, TypeOK
      <4>2. \A y \in Items : Slot(y) \in mask => IsDrawn(Slot(y))
        BY <1>1, <1>3, <3>3, <4>1 DEF IsDrawn, PackedInv, Begun
      <4>3. \A y : <<y, p>> \notin lost
        <5>1. \A y : <<y, p>>[2] = p
          OBVIOUS
        <5> QED BY <4>1, <5>1
      <4>4. \A y \in Items : Slot(y) \in mask /\ p \in Covers(y) => fb[p] <= Encode(y, p)
        BY <1>4, <4>2, <4>3 DEF Shown
      <4>5. CASE Slot(x) \in mask
        BY <2>1, <4>4, <4>5
      <4>6. CASE Slot(x) \notin mask
        <5>1. GoodMask(view, mask)
          <6>1. EvenLevels
            BY <3>3
          <6>2. stage = "resolve" /\ shown = view /\ shown # None /\ ~UseTwoPhase /\ MaskInv
            BY <1>1, <1>3, <4>1
          <6> QED BY <6>1, <6>2 DEF MaskInv
        <5>2. PICK y \in Items : Slot(y) \in mask /\ p \in Covers(y) /\ Tri(y).z[p] < Tri(x).z[p]
          BY <2>1, <4>6, <5>1, BoundView DEF GoodMask
        <5>3. /\ Encode(x, p) \in Nat /\ Encode(y, p) \in Nat /\ fb[p] \in Nat
              /\ Depth(Encode(x, p)) = Tri(x).z[p] /\ Depth(Encode(y, p)) = Tri(y).z[p]
              /\ Tri(x).z[p] \in Int /\ Tri(y).z[p] \in Int
          <6>1. fb[p] \in Nat
            BY <1>1, DepthsOrdered DEF Shape, TypeOK
          <6>2. \A y1 \in Items : p \in Covers(y1) =>
                  /\ Encode(y1, p) \in Nat /\ Depth(Encode(y1, p)) = Tri(y1).z[p]
                  /\ Tri(y1).z[p] \in 0..(Far - 1)
            BY <1>3, Decoded
          <6> QED BY <2>1, <5>2, <6>1, <6>2
        <5>4. ~(Encode(x, p) <= Encode(y, p))
          BY <5>2, <5>3, DepthsOrdered
        <5>5. fb[p] <= Encode(y, p)
          BY <4>4, <5>2
        <5> QED BY <5>3, <5>4, <5>5
      <4> QED BY <4>5, <4>6
    <3> QED BY <1>3, <3>1, <3>2, <3>3
  <2>2. image'[p] = (IF Depth(fb[p]) = Far THEN None ELSE Decode(fb[p]))
    BY <1>1
  <2> QED BY <1>1, <2>1, <2>2, Resolved
<1> QED BY <1>6, <1>7, <1>8, <1>9, <1>10, <1>11, <1>12, <1>13, <1>14 DEF RasterInv, FrameOK, DrawsOK

\* Nothing happens.
LEMMA StutterKeeps == ASSUME RasterInv, UNCHANGED vars PROVE RasterInv'
<1>1. UNCHANGED <<view, hiZ, twoPhase, compact, cap, mask, mask2, packed, stage, phase, batchCounter,
                  tgs, n2, q2, n3, q3, fb, lost, image, shown, still>>
  BY DEF vars, hostVars, maskVars, drawVars, shownVars
<1>2. UseCompacted' = UseCompacted /\ UseTwoPhase' = UseTwoPhase /\ MaskInUse' = MaskInUse
  BY <1>1 DEF UseCompacted, UseTwoPhase, MaskInUse, NumInstances, NumDC, DC
<1>3. \A y : IsDrawn(Slot(y))' = IsDrawn(Slot(y))
  BY <1>1, <1>2, SameView DEF IsDrawn
<1>4. Shape' /\ FrameInv'
  BY <1>1, <1>2, SameView DEF RasterInv, FrameOK, Shape, TypeOK, Group, FrameInv
<1>5. ClaimInv'
  <2>1. \A h \in TG : HasReturned(h)' <=> HasReturned(h)
    BY <1>1, SameView DEF HasReturned
  <2> QED BY <1>1, <1>3, <2>1, SameView DEF RasterInv, FrameOK, ClaimInv, Before
<1>6. \A x, p : Pending(x, p)' = Pending(x, p) /\ Shown(x, p)' = Shown(x, p)
                /\ Untouched(x, p)' = Untouched(x, p)
  <2>1. \A x : Unclaimed(x)' = Unclaimed(x)
    BY <1>1, <1>3, SameView DEF Unclaimed
  <2>2. \A x : InTodo(x)' = InTodo(x)
    BY <1>1 DEF InTodo
  <2>3. \A x, p : Queued(x, p)' = Queued(x, p)
    BY <1>1 DEF Queued
  <2> QED BY <1>1, <2>1, <2>2, <2>3, SameView DEF Pending, Shown, Untouched
<1>7. PackedInv' /\ DrawInv' /\ LeftOutInv'
  BY <1>1, <1>2, <1>3, <1>6, SameView DEF RasterInv, DrawsOK, PackedInv, DrawInv, LeftOutInv, Begun
<1>8. OnceInv'
  BY <1>1, <1>3, <1>6, SameView DEF RasterInv, DrawsOK, OnceInv, Begun
<1>9. MaskInv'
  BY <1>1, <1>2 DEF RasterInv, MaskInv
<1>10. ImageInv'
  <2>1. \A p \in Pixel : NearestAt(p)' = NearestAt(p)
    BY <1>1, SameView DEF NearestAt
  <2> QED BY <1>1, <1>2, <2>1 DEF RasterInv, ImageInv
<1> QED BY <1>4, <1>5, <1>7, <1>8, <1>9, <1>10 DEF RasterInv, FrameOK, DrawsOK

\* The start.
LEMMA InitHolds == Init => RasterInv
<1> SUFFICES ASSUME Init PROVE RasterInv
  OBVIOUS
<1>1. /\ view \in View /\ hiZ = FALSE /\ twoPhase = FALSE /\ compact = FALSE
      /\ cap = 0 /\ mask = AllBits /\ mask2 = {} /\ packed = {}
      /\ stage = "host" /\ phase = 1 /\ batchCounter = 0 /\ tgs = [g \in TG |-> NotStarted]
      /\ n2 = 0 /\ q2 = {} /\ n3 = 0 /\ q3 = {}
      /\ fb = [p \in Pixel |-> Empty] /\ shown = None /\ still = FALSE /\ lost = {}
  BY DEF Init, View
<1>2. 1 <= NumDC /\ NumDC \in Nat
  BY <1>1, CallFacts DEF NumDC, DC, CallsOf
<1>3. Shape
  <2>1. \A g \in TG : tgs[g].mesh = 1 /\ tgs[g].local = 0 /\ tgs[g].block = 0 /\ tgs[g].todo = {}
    BY <1>1 DEF NotStarted
  <2>2. tgs \in [TG -> Group]
    BY <1>1 DEF Group, NotStarted
  <2>3. fb \in [Pixel -> 0..Empty]
    BY <1>1, DepthsOrdered
  <2>4. Cardinality({}) = 0 /\ IsFiniteSet({})
    BY FS_EmptySet
  <2>5. 0 \in 0..(Word * Words)
    BY SizeFacts
  <2>6. /\ hiZ \in BOOLEAN /\ twoPhase \in BOOLEAN /\ compact \in BOOLEAN /\ still \in BOOLEAN
        /\ shown = None /\ stage = "host"
    BY <1>1
  <2>7. /\ cap \in 0..(Word * Words) /\ mask \subseteq AllBits /\ mask2 \subseteq AllBits
        /\ packed \subseteq AllBits /\ phase \in {1, 2} /\ batchCounter \in Nat
        /\ n2 \in Nat /\ n3 \in Nat /\ Cardinality(q3) <= Cap3 /\ view \in 1..Len(Views)
    BY <1>1, <2>4, <2>5, SizeFacts DEF View
  <2>8. \A g \in TG : /\ tgs[g].mesh \in 1..(NumDC + 1) /\ tgs[g].local \in Nat
                      /\ tgs[g].block \in 0..batchCounter
                      /\ \A x \in tgs[g].todo : x \in Items /\ x[1] = tgs[g].mesh
    BY <1>1, <1>2, <2>1
  <2>9. TypeOK
    BY <1>1, <2>3, <2>6, <2>7, <2>8 DEF TypeOK
  <2>10. Cardinality(q3) <= n3 /\ IsFiniteSet(q3) /\ q3 \subseteq Items \X Nat
    BY <1>1, <2>4
  <2>11. \A p \in Pixel : fb[p] = Empty
    BY <1>1
  <2> QED BY <2>2, <2>6, <2>9, <2>10, <2>11 DEF Shape
<1>4. FrameInv
  BY <1>1 DEF FrameInv, UseTwoPhase, NotStarted
<1>5. ClaimInv
  BY <1>1, NoClaims
<1>6. MaskInv
  BY <1>1 DEF MaskInv
<1> QED BY <1>1, <1>3, <1>4, <1>5, <1>6, AtHost DEF RasterInv, FrameOK

-----------------------------------------------------------------------------
(* The theorems.                                                           *)

\* The invariant holds in every reachable state.
LEMMA RasterHolds == Spec => []RasterInv
<1>1. RasterInv /\ [Next]_vars => RasterInv'
  <2> SUFFICES ASSUME RasterInv, [Next]_vars PROVE RasterInv'
    OBVIOUS
  <2>1. CASE \E v \in 1..Len(Views) : BindFrameView(v)
    BY <2>1, BindKeeps
  <2>2. CASE \E on \in BOOLEAN : SetHiZOcclusion(on) \/ SetHiZTwoPhase(on) \/ SetCompactInstances(on)
    BY <2>2, ToggleKeeps
  <2>3. CASE BeginFrame
    BY <2>3, BeginKeeps
  <2>4. CASE CompactInstances
    BY <2>4, CompactKeeps
  <2>5. CASE DispatchStage1
    BY <2>5, DispatchKeeps
  <2>6. CASE \E g \in TG : Claim(g)
    BY <2>6, ClaimKeeps
  <2>7. CASE \E g \in TG : \E x \in tgs[g].todo : Shade(g, x)
    BY <2>7, ShadeKeeps
  <2>8. CASE PrepareStage2
    BY <2>8, PrepareKeeps
  <2>9. CASE \E u \in q2 : ShadeQueued(u)
    BY <2>9, QueuedKeeps
  <2>10. CASE Stage3
    BY <2>10, Stage3Keeps
  <2>11. CASE CullDiff
    BY <2>11, DiffKeeps
  <2>12. CASE CullAbsolute
    BY <2>12, AbsoluteKeeps
  <2>13. CASE Resolve
    BY <2>13, ResolveKeeps
  <2>14. CASE Completed
    BY <2>14, CompletedKeeps
  <2>15. CASE UNCHANGED vars
    BY <2>15, StutterKeeps
  <2> QED
    BY <2>1, <2>2, <2>3, <2>4, <2>5, <2>6, <2>7, <2>8, <2>9, <2>10, <2>11, <2>12, <2>13, <2>14,
       <2>15 DEF Next, Host, GPU
<1> QED BY <1>1, InitHolds, PTL DEF Spec

\* The state of a frame stays within its bounds whatever the views, the number
\* of threadgroups and the queues: what is claimed belongs to the draw call the
\* group stands at, and the queues never hold more than they have room for
\* (MetalRast.metal:405-412, 549-573).
THEOREM TypeCorrect == Spec => []TypeOK
<1>1. RasterInv => TypeOK
  BY DEF RasterInv, FrameOK, Shape
<1> QED BY <1>1, RasterHolds, PTL

\* Each group finds the batch its number counts to, though the counter tells it
\* only how far the others have gone meanwhile, and no two groups shade the same
\* batch (MetalRast.metal:549-573).
THEOREM EachBatchOnce == Spec => []ClaimsApart
<1>1. ASSUME RasterInv PROVE ClaimsApart
  <2>1. ClaimInv
    BY <1>1 DEF RasterInv, FrameOK
  <2>2. ASSUME NEW g \in TG, NEW h \in TG, g # h, tgs[g].todo # {}, tgs[h].todo # {},
               tgs[g].mesh = tgs[h].mesh, tgs[g].local = tgs[h].local
        PROVE  FALSE
    <3>1. ~HasReturned(g) /\ ~HasReturned(h)
      BY <2>1, <2>2 DEF ClaimInv
    <3>2. tgs[g].block = Before(tgs[g].mesh) + tgs[g].local
      BY <2>1, <3>1 DEF ClaimInv
    <3>3. tgs[h].block = Before(tgs[h].mesh) + tgs[h].local
      BY <2>1, <3>1 DEF ClaimInv
    <3>4. tgs[g].block # tgs[h].block
      BY <2>1, <2>2 DEF ClaimInv
    <3> QED BY <2>2, <3>2, <3>3, <3>4
  <2>3. \A g \in TG : ~HasReturned(g) => Before(tgs[g].mesh) + tgs[g].local = tgs[g].block
    BY <2>1 DEF ClaimInv
  <2> QED BY <2>2, <2>3 DEF ClaimsApart
<1> QED BY <1>1, RasterHolds, PTL

\* Where the widths of the levels that are read divide evenly, a culled instance
\* is behind the visibility buffer wherever it would draw, whatever the boxes,
\* the mip levels chosen and the four texels read
\* (MetalRast.metal:1293, 1481-1512).
THEOREM CullsTheHidden == ASSUME EvenLevels PROVE Spec => []NeverWronglyCulled
<1>1. ASSUME RasterInv PROVE NeverWronglyCulled
  <2> SUFFICES ASSUME NEW x \in Items, Slot(x) \notin NowVisible, NEW p \in Covers(x)
               PROVE  Tri(x).z[p] > Depths[p]
    BY DEF NeverWronglyCulled
  <2> QED BY <1>1, Hidden DEF RasterInv, FrameOK
<1> QED BY <1>1, RasterHolds, PTL

\* Without Hi-Z an image shows the nearest fragment of every pixel, but for those
\* a full queue has dropped, whatever mask earlier frames, other views and toggles
\* have left (MetalRastRenderer.cpp:1212-1226).
THEOREM PlainFramesExact ==
  Spec => [](stage = "submitted" /\ ~hiZ => \A p \in Pixel : NearestAt(p))
<1>1. RasterInv => (stage = "submitted" /\ ~hiZ => \A p \in Pixel : NearestAt(p))
  BY DEF RasterInv, ImageInv
<1> QED BY <1>1, RasterHolds, PTL

\* With two phases every image is right as well, as what the first phase leaves
\* out is either drawn by the second or behind what the first has drawn
\* (MetalRastRenderer.h:111, MetalRastRenderer.cpp:1238-1277).
THEOREM NoPop == ASSUME EvenLevels PROVE Spec => []TwoPhaseExact
<1>1. RasterInv => TwoPhaseExact
  BY DEF RasterInv, ImageInv, TwoPhaseExact
<1> QED BY <1>1, RasterHolds, PTL

\* In single-phase mode the second image of a view in a row is right where no
\* fragment was dropped, as the mask of the first leaves out only what is behind
\* a fragment of what it keeps (MetalRastRenderer.cpp:1212-1226).
THEOREM SecondImageExact == ASSUME EvenLevels PROVE Spec => []StillExact
<1>1. RasterInv => StillExact
  BY DEF RasterInv, ImageInv, StillExact
<1> QED BY <1>1, RasterHolds, PTL
=============================================================================
