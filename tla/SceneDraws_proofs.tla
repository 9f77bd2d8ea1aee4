------------------------- MODULE SceneDraws_proofs -------------------------
(***************************************************************************)
(* What the kernels draw is what the file says, for every file, options,   *)
(* number of threads and order of their steps.                             *)
(*                                                                         *)
(* First the pure part: running sums, the search for a triangle's draw     *)
(* call, values in bits, copies of a scene.  Then the load, stage by       *)
(* stage, with an invariant that says of each what it hands on to the next *)
(* (StagesInv): the draw calls made, the vertices and bits stored, the     *)
(* chunks sent.  Last, the numbers of the triangles and the pieces of the  *)
(* file, one for one.                                                      *)
(***************************************************************************)
EXTENDS SceneLoad_proofs

-----------------------------------------------------------------------------
(* Running sums.                                                           *)

Runs(s, f, n) == s = [k \in 0..n |-> IF k = 0 THEN 0 ELSE s[k - 1] + f[k]]

LEMMA RunsAlong ==
  ASSUME NEW f, NEW n \in Nat, NEW s, Runs(s, f, n)
  PROVE  DOMAIN s = 0..n /\ s[0] = 0 /\ \A k \in 0..(n - 1) : s[k + 1] = s[k] + f[k + 1]
<1>1. s = [k \in 0..n |-> IF k = 0 THEN 0 ELSE s[k - 1] + f[k]]
  BY DEF Runs
<1>2. DOMAIN s = 0..n /\ \A k \in 0..n : s[k] = IF k = 0 THEN 0 ELSE s[k - 1] + f[k]
  BY <1>1
<1> QED BY <1>2

LEMMA RunsExist == \A f : \A n \in Nat : \E s : Runs(s, f, n)
<1> SUFFICES ASSUME NEW f PROVE \A n \in Nat : \E s : Runs(s, f, n)
  OBVIOUS
<1> DEFINE S == {n \in Nat : \E s : Runs(s, f, n)}
<1>1. 0 \in S
  <2>1. Runs([k \in 0..0 |-> 0], f, 0)
    BY DEF Runs
  <2> QED BY <2>1
<1>2. ASSUME NEW n \in Nat, n \in S PROVE n + 1 \in S
  <2>1. PICK s : Runs(s, f, n)
    BY <1>2
  <2>2. s[0] = 0 /\ \A k \in 0..(n - 1) : s[k + 1] = s[k] + f[k + 1]
    BY <2>1, RunsAlong
  <2> DEFINE h == [k \in 0..(n + 1) |-> IF k = n + 1 THEN s[n] + f[n + 1] ELSE s[k]]
  <2>3. ASSUME NEW k \in 0..(n + 1) PROVE h[k] = IF k = 0 THEN 0 ELSE h[k - 1] + f[k]
    <3>1. CASE k = 0
      BY <2>2, <3>1
    <3>2. CASE k = n + 1
      BY <3>2
    <3>3. CASE k # 0 /\ k # n + 1
      <4>1. k - 1 \in 0..(n - 1) /\ (k - 1) + 1 = k
        BY <3>3
      <4>2. h[k] = s[k] /\ h[k - 1] = s[k - 1]
        BY <3>3
      <4> HIDE DEF h
      <4> QED BY <2>2, <3>3, <4>1, <4>2
    <3> QED BY <3>1, <3>2, <3>3
  <2>4. h = [k \in 0..(n + 1) |-> h[k]]
    OBVIOUS
  <2> HIDE DEF h
  <2>5. Runs(h, f, n + 1)
    BY <2>3, <2>4 DEF Runs
  <2> QED BY <2>5
<1>3. Nat \subseteq S
  <2> HIDE DEF S
  <2> QED BY <1>1, <1>2, Induction
<1> QED BY <1>3

\* Two of them agree as long as what they add does.
LEMMA RunsAgree ==
  \A n \in Nat, m \in Nat : n <= m =>
    \A f, g : (\A k \in 1..n : f[k] = g[k]) =>
      \A s, h : Runs(s, f, n) /\ Runs(h, g, m) => s[n] = h[n]
<1> SUFFICES ASSUME NEW n \in Nat, NEW m \in Nat, n <= m,
                    NEW f, NEW g, \A k \in 1..n : f[k] = g[k],
                    NEW s, NEW h, Runs(s, f, n), Runs(h, g, m)
             PROVE  s[n] = h[n]
  OBVIOUS
<1> DEFINE A == {k \in Nat : k <= n => s[k] = h[k]}
<1>1. /\ s[0] = 0 /\ \A k \in 0..(n - 1) : s[k + 1] = s[k] + f[k + 1]
      /\ h[0] = 0 /\ \A k \in 0..(m - 1) : h[k + 1] = h[k] + g[k + 1]
  BY RunsAlong
<1>2. 0 \in A
  BY <1>1
<1>3. ASSUME NEW k \in Nat, k \in A PROVE k + 1 \in A
  <2> SUFFICES ASSUME k + 1 <= n PROVE s[k + 1] = h[k + 1]
    OBVIOUS
  <2>1. k \in 0..(n - 1) /\ k \in 0..(m - 1) /\ k + 1 \in 1..n /\ s[k] = h[k]
    BY <1>3
  <2> QED BY <1>1, <2>1
<1>4. n \in A
  <2> HIDE DEF A
  <2> QED BY <1>2, <1>3, Induction
<1> QED BY <1>4

LEMMA SumRuns ==
  ASSUME NEW f, NEW n \in Nat
  PROVE  \E s : Runs(s, f, n) /\ Sum(f, n) = s[n]
<1> DEFINE s == CHOOSE s : Runs(s, f, n)
<1>1. Runs(s, f, n)
  BY RunsExist
<1>2. Sum(f, n) = s[n]
  BY Zenon DEF Sum, Runs
<1> QED BY <1>1, <1>2

\* What is added matters, and nothing else.
LEMMA SumSame ==
  ASSUME NEW f, NEW g, NEW n \in Nat, \A k \in 1..n : f[k] = g[k]
  PROVE  Sum(f, n) = Sum(g, n)
<1>1. PICK s : Runs(s, f, n) /\ Sum(f, n) = s[n]
  BY SumRuns
<1>2. PICK h : Runs(h, g, n) /\ Sum(g, n) = h[n]
  BY SumRuns
<1> QED BY <1>1, <1>2, RunsAgree

LEMMA SumStep ==
  ASSUME NEW f
  PROVE  Sum(f, 0) = 0 /\ \A n \in Nat : Sum(f, n + 1) = Sum(f, n) + f[n + 1]
<1>1. Sum(f, 0) = 0
  <2>1. PICK s : Runs(s, f, 0) /\ Sum(f, 0) = s[0]
    BY SumRuns
  <2> QED BY <2>1, RunsAlong
<1>2. ASSUME NEW n \in Nat PROVE Sum(f, n + 1) = Sum(f, n) + f[n + 1]
  <2>1. PICK s : Runs(s, f, n) /\ Sum(f, n) = s[n]
    BY SumRuns
  <2>2. n + 1 \in Nat
    OBVIOUS
  <2>3. PICK h : Runs(h, f, n + 1) /\ Sum(f, n + 1) = h[n + 1]
    BY <2>2, SumRuns
  <2>4. s[n] = h[n]
    <3>1. n \in Nat /\ n + 1 \in Nat /\ Runs(s, f, n) /\ Runs(h, f, n + 1) /\ n <= n + 1
          /\ \A k \in 1..n : f[k] = f[k]
      BY <2>1, <2>2, <2>3
    <3> QED BY <3>1, RunsAgree
  <2>5. h[n + 1] = h[n] + f[n + 1]
    BY <2>2, <2>3, RunsAlong
  <2> QED BY <2>1, <2>3, <2>4, <2>5
<1> QED BY <1>1, <1>2

LEMMA SumIsNat ==
  ASSUME NEW f, NEW n \in Nat, \A k \in 1..n : f[k] \in Nat
  PROVE  \A k \in 0..n : Sum(f, k) \in Nat
<1> DEFINE A == {k \in Nat : k <= n => Sum(f, k) \in Nat}
<1>1. 0 \in A
  BY SumStep
<1>2. ASSUME NEW k \in Nat, k \in A PROVE k + 1 \in A
  <2> SUFFICES ASSUME k + 1 <= n PROVE Sum(f, k + 1) \in Nat
    OBVIOUS
  <2>1. Sum(f, k) \in Nat /\ f[k + 1] \in Nat
    BY <1>2
  <2> QED BY <2>1, SumStep
<1>3. Nat \subseteq A
  <2> HIDE DEF A
  <2> QED BY <1>1, <1>2, Induction
<1> QED BY <1>3

-----------------------------------------------------------------------------
(* The numbers of the triangles.                                           *)

\* Draw calls that divide the numbers among them: each begins where those before
\* it end.
Share(dcs) == [d \in DOMAIN dcs |-> dcs[d].triangles * dcs[d].instances]
Numbered(dcs) ==
  /\ Len(dcs) \in Nat /\ dcs = [d \in 1..Len(dcs) |-> dcs[d]]
  /\ \A d \in 1..Len(dcs) :
       /\ dcs[d].triangles \in Nat /\ dcs[d].instances \in Nat
       /\ dcs[d].start = Sum(Share(dcs), d - 1)

\* The one that has number t.
Holds(dcs, t, d) ==
  /\ d \in 1..Len(dcs) /\ dcs[d].start <= t
  /\ t < dcs[d].start + dcs[d].triangles * dcs[d].instances

LEMMA NumberedFacts ==
  ASSUME NEW dcs, Numbered(dcs)
  PROVE  /\ InstancedTriangles(dcs) \in Nat
         /\ \A d \in 1..Len(dcs) :
              /\ dcs[d].start \in Nat /\ dcs[d].triangles * dcs[d].instances \in Nat
              /\ dcs[d].start + dcs[d].triangles * dcs[d].instances <= InstancedTriangles(dcs)
              /\ \A e \in 1..Len(dcs) : d < e =>
                   dcs[d].start + dcs[d].triangles * dcs[d].instances <= dcs[e].start
         /\ Len(dcs) # 0 => dcs[1].start = 0
         /\ \A d \in 1..Len(dcs) :
              dcs[d].start + dcs[d].triangles * dcs[d].instances =
                IF d = Len(dcs) THEN InstancedTriangles(dcs) ELSE dcs[d + 1].start
<1> DEFINE N == Len(dcs)
           f == Share(dcs)
           c(d) == dcs[d].start
           w(d) == dcs[d].triangles * dcs[d].instances
           A == {k \in Nat : k <= N => \A d \in 1..N : d <= k => c(d) + w(d) <= Sum(f, k)}
<1>1. N \in Nat /\ DOMAIN dcs = 1..N
  BY DEF Numbered
<1>2. \A d \in 1..N : w(d) \in Nat
  <2>1. \A d \in 1..N : dcs[d].triangles \in Nat /\ dcs[d].instances \in Nat
    BY DEF Numbered
  <2>2. \A x \in Nat, y \in Nat : x * y \in Nat
    OBVIOUS
  <2> HIDE DEF N
  <2> QED BY <2>1, <2>2
<1>3. \A d \in 1..N : f[d] = w(d) /\ c(d) = Sum(f, d - 1)
  BY <1>1 DEF Share, Numbered
<1>4. InstancedTriangles(dcs) = Sum(f, N)
  BY DEF InstancedTriangles, Share
<1> HIDE DEF N, f, c, w
<1>5. \A k \in 0..N : Sum(f, k) \in Nat
  <2>1. \A k \in 1..N : f[k] \in Nat
    BY <1>2, <1>3
  <2> QED BY <1>1, <2>1, SumIsNat
<1>6. \A d \in 1..N : c(d) \in Nat /\ c(d) + w(d) = Sum(f, d)
  <2> SUFFICES ASSUME NEW d \in 1..N PROVE c(d) \in Nat /\ c(d) + w(d) = Sum(f, d)
    OBVIOUS
  <2>1. d - 1 \in Nat /\ d - 1 \in 0..N /\ (d - 1) + 1 = d
    BY <1>1
  <2>2. Sum(f, (d - 1) + 1) = Sum(f, d - 1) + f[(d - 1) + 1]
    BY <2>1, SumStep
  <2> QED BY <1>3, <1>5, <2>1, <2>2
<1>7. 0 \in A
  OBVIOUS
<1>8. ASSUME NEW k \in Nat, k \in A PROVE k + 1 \in A
  <2> SUFFICES ASSUME k + 1 <= N, NEW d \in 1..N, d <= k + 1 PROVE c(d) + w(d) <= Sum(f, k + 1)
    OBVIOUS
  <2>1. CASE d = k + 1
    BY <1>5, <1>6, <2>1
  <2>2. CASE d <= k
    <3>1. k <= N /\ N \in Nat
      BY <1>1
    <3>2. c(d) + w(d) <= Sum(f, k)
      BY <1>8, <2>2, <3>1
    <3>3. Sum(f, k + 1) = Sum(f, k) + f[k + 1]
      BY <1>1, <3>1, SumStep
    <3>4. f[k + 1] \in Nat /\ Sum(f, k) \in Nat /\ c(d) \in Nat /\ w(d) \in Nat
      <4>1. k + 1 \in 1..N /\ k \in 0..N
        BY <1>1
      <4> QED BY <1>2, <1>3, <1>5, <1>6, <4>1
    <3> QED BY <3>2, <3>3, <3>4
  <2>3. d \in Nat
    BY <1>1
  <2> QED BY <2>1, <2>2, <2>3
<1>9. Nat \subseteq A
  <2> HIDE DEF A
  <2> QED BY <1>7, <1>8, Induction
<1>10. \A d \in 1..N : c(d) + w(d) <= Sum(f, N)
  BY <1>1, <1>9
<1>11. \A d \in 1..N, e \in 1..N : d < e => c(d) + w(d) <= c(e)
  <2> SUFFICES ASSUME NEW d \in 1..N, NEW e \in 1..N, d < e PROVE c(d) + w(d) <= c(e)
    OBVIOUS
  <2>1. e - 1 \in Nat /\ e - 1 <= N /\ d <= e - 1
    BY <1>1
  <2>2. c(d) + w(d) <= Sum(f, e - 1)
    BY <1>9, <2>1
  <2> QED BY <1>3, <2>2
<1>12. N # 0 => c(1) = 0
  <2>1. N # 0 => 1 \in 1..N /\ 1 - 1 = 0
    BY <1>1
  <2> QED BY <1>3, <2>1, SumStep
<1>13. \A d \in 1..N : c(d) + w(d) = IF d = N THEN Sum(f, N) ELSE c(d + 1)
  <2> SUFFICES ASSUME NEW d \in 1..N, d # N PROVE c(d) + w(d) = c(d + 1)
    BY <1>6
  <2>1. d + 1 \in 1..N /\ (d + 1) - 1 = d
    BY <1>1
  <2> QED BY <1>3, <1>6, <2>1
<1>14. Sum(f, N) \in Nat
  BY <1>1, <1>5
<1> QED BY <1>2, <1>4, <1>6, <1>10, <1>11, <1>12, <1>13, <1>14 DEF N, c, w

\* A number has one holder, the last draw call that begins at it or before.
LEMMA LastHolds ==
  ASSUME NEW dcs, Numbered(dcs), NEW t \in 0..(InstancedTriangles(dcs) - 1),
         NEW d \in 1..Len(dcs), dcs[d].start <= t, d = Len(dcs) \/ t < dcs[d + 1].start
  PROVE  Holds(dcs, t, d)
<1>1. dcs[d].start + dcs[d].triangles * dcs[d].instances =
        IF d = Len(dcs) THEN InstancedTriangles(dcs) ELSE dcs[d + 1].start
  BY NumberedFacts
<1>2. InstancedTriangles(dcs) \in Nat
  BY NumberedFacts
<1> QED BY <1>1, <1>2 DEF Holds

LEMMA OneHolds ==
  ASSUME NEW dcs, Numbered(dcs), NEW t \in Nat, NEW d, NEW e, Holds(dcs, t, d), Holds(dcs, t, e)
  PROVE  d = e
<1> DEFINE w(x) == dcs[x].triangles * dcs[x].instances
<1>1. /\ d \in 1..Len(dcs) /\ dcs[d].start <= t /\ t < dcs[d].start + w(d)
      /\ e \in 1..Len(dcs) /\ dcs[e].start <= t /\ t < dcs[e].start + w(e)
  BY DEF Holds
<1>2. /\ dcs[d].start \in Nat /\ w(d) \in Nat /\ dcs[e].start \in Nat /\ w(e) \in Nat
      /\ d < e => dcs[d].start + w(d) <= dcs[e].start
      /\ e < d => dcs[e].start + w(e) <= dcs[d].start
      /\ Len(dcs) \in Nat
  BY <1>1, NumberedFacts DEF Numbered
<1> HIDE DEF w
<1> QED BY <1>1, <1>2

\* The bisection ends at the last draw call that starts at t or before, if the
\* first one it looks at does and the one after the last does not.
LEMMA BisectFinds ==
  ASSUME NEW dcs, Numbered(dcs), NEW t \in Nat, NEW first \in 0..Len(dcs), NEW last \in 0..Len(dcs),
         first < last, dcs[first + 1].start <= t, last = Len(dcs) \/ t < dcs[last + 1].start
  PROVE  LET d == Bisect(dcs, t, first, last) IN
         /\ d \in 0..(Len(dcs) - 1) /\ dcs[d + 1].start <= t
         /\ d = Len(dcs) - 1 \/ t < dcs[d + 2].start
<1> DEFINE N == Len(dcs)
           c(d) == dcs[d + 1].start
           D == (0..N) \X (0..N)
           Mid(r) == (r[1] + r[2]) \div 2
           Step(s, r) == IF r[1] + 1 >= r[2] THEN r[1]
                         ELSE IF c(Mid(r)) <= t THEN s[<<Mid(r), r[2]>>] ELSE s[<<r[1], Mid(r)>>]
           Searches(s) == s = [r \in D |-> Step(s, r)]
           S == {n \in Nat : \E s : \A r \in D : r[2] - r[1] <= n => s[r] = Step(s, r)}
<1>1. N \in Nat /\ \A d \in 0..(N - 1) : c(d) \in Nat
  <2>1. N \in Nat /\ \A d \in 1..N : dcs[d].start \in Nat
    BY NumberedFacts DEF Numbered
  <2> HIDE DEF N
  <2> QED BY <2>1
<1>2. ASSUME NEW r \in D
      PROVE  /\ r = <<r[1], r[2]>> /\ r[1] \in 0..N /\ r[2] \in 0..N
             /\ ~(r[1] + 1 >= r[2]) => /\ Mid(r) \in 0..N /\ <<Mid(r), r[2]>> \in D /\ <<r[1], Mid(r)>> \in D
                                       /\ r[1] < Mid(r) /\ Mid(r) < r[2]
  <2> HIDE DEF N
  <2> QED BY <1>1
<1>3. 0 \in S
  <2> DEFINE s == [r \in D |-> r[1]]
  <2>1. ASSUME NEW r \in D, r[2] - r[1] <= 0 PROVE s[r] = Step(s, r)
    <3>1. r[1] + 1 >= r[2]
      <4> HIDE DEF N
      <4> QED BY <1>1, <1>2, <2>1
    <3> QED BY <3>1
  <2> HIDE DEF s, Step, D
  <2> QED BY <2>1
<1>4. ASSUME NEW n \in Nat, n \in S PROVE n + 1 \in S
  <2>1. PICK s : \A r \in D : r[2] - r[1] <= n => s[r] = Step(s, r)
    BY <1>4
  <2> DEFINE h == [r \in D |-> Step(s, r)]
  <2>2. ASSUME NEW r \in D, r[2] - r[1] <= n + 1 PROVE h[r] = Step(h, r)
    <3>1. CASE r[1] + 1 >= r[2]
      BY <3>1
    <3>2. CASE ~(r[1] + 1 >= r[2])
      <4> DEFINE a == <<Mid(r), r[2]>>
                 b == <<r[1], Mid(r)>>
      <4>1. a \in D /\ b \in D /\ a[2] - a[1] <= n /\ b[2] - b[1] <= n
        <5> DEFINE q == Mid(r)
        <5>1. q \in 0..N /\ <<q, r[2]>> \in D /\ <<r[1], q>> \in D /\ r[1] < q /\ q < r[2]
              /\ r[1] \in 0..N /\ r[2] \in 0..N
          BY <1>2, <3>2
        <5> HIDE DEF q, N, D
        <5>2. r[2] - q <= n /\ q - r[1] <= n
          BY <1>1, <2>2, <5>1
        <5>3. <<q, r[2]>>[2] - <<q, r[2]>>[1] <= n /\ <<r[1], q>>[2] - <<r[1], q>>[1] <= n
          BY <5>2
        <5> QED BY <5>1, <5>3 DEF q
      <4>2. s[a] = Step(s, a) /\ s[b] = Step(s, b)
        <5> HIDE DEF a, b, Step, D
        <5> QED BY <2>1, <4>1
      <4>3. h[a] = s[a] /\ h[b] = s[b]
        <5> HIDE DEF a, b, Step, D
        <5> QED BY <4>1, <4>2
      <4>4. h[r] = Step(s, r)
        <5> HIDE DEF Step, D
        <5> QED OBVIOUS
      <4>5. Step(s, r) = Step(h, r)
        <5>1. Step(s, r) = (IF c(Mid(r)) <= t THEN s[a] ELSE s[b])
          BY <3>2
        <5>2. Step(h, r) = (IF c(Mid(r)) <= t THEN h[a] ELSE h[b])
          <6> HIDE DEF h
          <6> QED BY <3>2
        <5> HIDE DEF Step, h, a, b, Mid, c
        <5> QED BY <4>3, <5>1, <5>2
      <4> HIDE DEF Step, h
      <4> QED BY <4>4, <4>5
    <3> QED BY <3>1, <3>2
  <2> HIDE DEF h, Step, D
  <2> QED BY <2>2
<1>5. \E s : Searches(s)
  <2>1. N \in S
    <3>1. N \in Nat
      BY <1>1
    <3> HIDE DEF S, N
    <3> QED BY <1>3, <1>4, <3>1, Induction
  <2>2. PICK s : \A r \in D : r[2] - r[1] <= N => s[r] = Step(s, r)
    BY <2>1
  <2> DEFINE h == [r \in D |-> s[r]]
  <2>3. ASSUME NEW r \in D PROVE h[r] = Step(h, r)
    <3>1. r[2] - r[1] <= N
      <4> HIDE DEF N
      <4> QED BY <1>1, <1>2
    <3>2. h[r] = Step(s, r)
      <4> HIDE DEF Step, D
      <4> QED BY <2>2, <3>1
    <3>3. Step(s, r) = Step(h, r)
      <4>1. CASE r[1] + 1 >= r[2]
        BY <4>1
      <4>2. CASE ~(r[1] + 1 >= r[2])
        <5> DEFINE a == <<Mid(r), r[2]>>
                   b == <<r[1], Mid(r)>>
        <5>1. a \in D /\ b \in D
          BY <1>2, <4>2
        <5>2. h[a] = s[a] /\ h[b] = s[b]
          <6> HIDE DEF a, b, D
          <6> QED BY <5>1
        <5>3. Step(s, r) = (IF c(Mid(r)) <= t THEN s[a] ELSE s[b])
          BY <4>2
        <5>4. Step(h, r) = (IF c(Mid(r)) <= t THEN h[a] ELSE h[b])
          <6> HIDE DEF h
          <6> QED BY <4>2
        <5> HIDE DEF Step, h, a, b, Mid, c
        <5> QED BY <5>2, <5>3, <5>4
      <4> QED BY <4>1, <4>2
    <3> HIDE DEF h, Step
    <3> QED BY <3>2, <3>3
  <2>4. h = [r \in D |-> h[r]]
    <3> HIDE DEF D
    <3> QED OBVIOUS
  <2>5. Searches(h)
    <3> HIDE DEF h, Step, D
    <3> QED BY <2>3, <2>4
  <2> HIDE DEF h, Searches
  <2> QED BY <2>5
<1> DEFINE search == CHOOSE s : Searches(s)
<1>6. Searches(search)
  <2> HIDE DEF Searches
  <2> QED BY <1>5
<1>7. Bisect(dcs, t, first, last) = search[<<first, last>>]
  BY Zenon DEF Bisect
<1> HIDE DEF search
<1> DEFINE Found(f) == f \in 0..(N - 1) /\ c(f) <= t /\ (f = N - 1 \/ t < c(f + 1))
           Between(r) == r[1] < r[2] /\ c(r[1]) <= t /\ (r[2] = N \/ t < c(r[2]))
           T == {n \in Nat : \A r \in D : r[2] - r[1] <= n /\ Between(r) => Found(search[r])}
<1>8. ASSUME NEW r \in D PROVE search[r] = Step(search, r)
  <2> HIDE DEF Step, D
  <2> QED BY <1>6
<1>9. 0 \in T
  <2>1. ASSUME NEW r \in D, r[2] - r[1] <= 0, r[1] < r[2] PROVE FALSE
    <3> HIDE DEF N
    <3> QED BY <1>1, <1>2, <2>1
  <2> HIDE DEF D, Found, c, N
  <2> QED BY <2>1
<1>10. ASSUME NEW n \in Nat, n \in T PROVE n + 1 \in T
  <2>1. ASSUME NEW r \in D, r[2] - r[1] <= n + 1, Between(r) PROVE Found(search[r])
    <3>1. r[1] \in 0..N /\ r[2] \in 0..N
      BY <1>2
    <3>2. CASE r[1] + 1 >= r[2]
      <4>1. search[r] = r[1]
        <5>1. search[r] = Step(search, r)
          BY <1>8
        <5> QED BY <3>2, <5>1
      <4>2. r[2] = r[1] + 1
        <5> HIDE DEF N, c
        <5> QED BY <1>1, <2>1, <3>1, <3>2
      <4> HIDE DEF N, c
      <4> QED BY <1>1, <2>1, <3>1, <4>1, <4>2
    <3>3. CASE ~(r[1] + 1 >= r[2])
      <4> DEFINE q == Mid(r)
                 a == <<q, r[2]>>
                 b == <<r[1], q>>
      <4>1. q \in 0..N /\ a \in D /\ b \in D /\ r[1] < q /\ q < r[2]
        BY <1>2, <3>3
      <4>2. search[r] = IF c(q) <= t THEN search[a] ELSE search[b]
        <5>1. search[r] = Step(search, r)
          BY <1>8
        <5> QED BY <3>3, <5>1
      <4>3. /\ a[1] = q /\ a[2] = r[2] /\ b[1] = r[1] /\ b[2] = q
            /\ r[2] - q <= n /\ q - r[1] <= n
        <5>1. a[1] = q /\ a[2] = r[2] /\ b[1] = r[1] /\ b[2] = q
          <6> HIDE DEF q
          <6> QED OBVIOUS
        <5>2. r[2] - q <= n /\ q - r[1] <= n
          <6>1. N \in Nat /\ r[2] - r[1] <= n + 1
            BY <1>1, <2>1
          <6>2. q \in 0..N /\ r[1] < q /\ q < r[2]
            BY <4>1
          <6> HIDE DEF q, N, D, a, b, c, Between
          <6> QED BY <3>1, <6>1, <6>2
        <5> QED BY <5>1, <5>2
      <4>4. CASE c(q) <= t
        <5>1. Between(a)
          <6> HIDE DEF q, a, c, N
          <6> QED BY <2>1, <4>1, <4>3, <4>4
        <5>2. Found(search[a])
          <6> HIDE DEF Found, Between, a, D
          <6> QED BY <1>10, <4>1, <4>3, <5>1
        <5> HIDE DEF Found, q, a, b, c
        <5> QED BY <4>2, <4>4, <5>2
      <4>5. CASE ~(c(q) <= t)
        <5>1. Between(b)
          <6>1. t < c(q)
            <7> HIDE DEF q, c
            <7> QED BY <1>1, <4>1, <4>5
          <6> HIDE DEF q, b, c, N
          <6> QED BY <2>1, <4>1, <4>3, <6>1
        <5>2. Found(search[b])
          <6> HIDE DEF Found, Between, b, D
          <6> QED BY <1>10, <4>1, <4>3, <5>1
        <5> HIDE DEF Found, q, a, b, c
        <5> QED BY <4>2, <4>5, <5>2
      <4> QED BY <4>4, <4>5
    <3> QED BY <3>2, <3>3
  <2> HIDE DEF Found, Between, D
  <2> QED BY <2>1
<1>11. Found(Bisect(dcs, t, first, last))
  <2> DEFINE r == <<first, last>>
  <2>1. r \in D /\ r[1] = first /\ r[2] = last /\ N \in Nat /\ last - first <= N /\ Between(r)
    <3>1. first \in 0..N /\ last \in 0..N /\ first < last /\ c(first) <= t /\ (last = N \/ t < c(last))
      OBVIOUS
    <3> HIDE DEF N, c
    <3> QED BY <1>1, <3>1
  <2>2. N \in T
    <3> HIDE DEF T, N
    <3> QED BY <1>9, <1>10, <2>1, Induction
  <2>3. Found(search[r])
    <3> HIDE DEF r, D, Between, Found
    <3> QED BY <2>1, <2>2
  <2> QED BY <1>7, <2>3
<1> DEFINE d == Bisect(dcs, t, first, last)
<1>12. d + 2 = (d + 1) + 1
  <2>1. d \in 0..(N - 1)
    BY <1>11
  <2> HIDE DEF d, N
  <2> QED BY <1>1, <2>1
<1> HIDE DEF d
<1> QED BY <1>11, <1>12 DEF d

LEMMA FoundHolds ==
  ASSUME NEW dcs, Numbered(dcs), NEW t \in 0..(InstancedTriangles(dcs) - 1),
         NEW d \in 0..(Len(dcs) - 1), dcs[d + 1].start <= t,
         d = Len(dcs) - 1 \/ t < dcs[d + 2].start
  PROVE  Holds(dcs, t, d + 1)
<1> DEFINE N == Len(dcs)
<1>1. N \in Nat
  BY DEF Numbered
<1>2. d \in 0..(N - 1) /\ (d = N - 1 \/ t < dcs[d + 2].start)
  OBVIOUS
<1> HIDE DEF N
<1>3. d + 1 \in 1..N /\ (d + 1) + 1 = d + 2 /\ (d = N - 1 => d + 1 = N)
  BY <1>1, <1>2
<1>4. d + 1 = N \/ t < dcs[(d + 1) + 1].start
  BY <1>2, <1>3
<1> QED BY <1>3, <1>4, LastHolds DEF N

\* Numbers there are belong to draw calls.
LEMMA SomeDraws ==
  ASSUME NEW dcs, Numbered(dcs), NEW t \in 0..(InstancedTriangles(dcs) - 1)
  PROVE  Len(dcs) \in Nat \ {0} /\ t \in Nat /\ dcs[1].start = 0
<1>1. Len(dcs) \in Nat /\ InstancedTriangles(dcs) \in Nat /\ (Len(dcs) # 0 => dcs[1].start = 0)
  BY NumberedFacts DEF Numbered
<1>2. Len(dcs) # 0
  <2> SUFFICES ASSUME Len(dcs) = 0 PROVE FALSE
    OBVIOUS
  <2>1. InstancedTriangles(dcs) = 0
    BY SumStep DEF InstancedTriangles
  <2> QED BY <2>1
<1> QED BY <1>1, <1>2

\* The search over all draw calls (MetalRast.metal:find_draw_call).
LEMMA FindFinds ==
  ASSUME NEW dcs, Numbered(dcs), NEW t \in 0..(InstancedTriangles(dcs) - 1)
  PROVE  FindDrawCall(dcs, t) \in Nat /\ Holds(dcs, t, FindDrawCall(dcs, t) + 1)
<1> DEFINE N == Len(dcs)
           d == Bisect(dcs, t, 0, N)
<1>1. N \in Nat \ {0} /\ t \in Nat /\ dcs[1].start = 0
  BY SomeDraws
<1>2. 0 \in 0..N /\ N \in 0..N /\ 0 < N /\ dcs[0 + 1].start <= t
  <2> HIDE DEF N
  <2> QED BY <1>1
<1>3. d \in 0..(N - 1) /\ dcs[d + 1].start <= t /\ (d = N - 1 \/ t < dcs[d + 2].start)
  BY <1>1, <1>2, BisectFinds
<1> HIDE DEF d
<1>4. d \in Nat /\ Holds(dcs, t, d + 1)
  BY <1>3, FoundHolds
<1> QED BY <1>4 DEF d, FindDrawCall

\* A power of two exceeds its exponent.
LEMMA PowerExceeds == \A n \in Nat : n < Pow2[n]
<1> DEFINE S == {n \in Nat : n < Pow2[n]}
<1>1. Pow2[0] = 1 /\ \A n \in Nat : Pow2[n] \in Nat /\ Pow2[n + 1] = 2 * Pow2[n]
  BY PowersOfTwo
<1>2. 0 \in S /\ \A n \in Nat : n \in S => n + 1 \in S
  BY <1>1
<1>3. Nat \subseteq S
  <2> HIDE DEF S
  <2> QED BY <1>2, Induction
<1> QED BY <1>3

\* What \div and % give.
LEMMA Quotient ==
  ASSUME NEW a \in Nat, NEW b \in Nat \ {0}
  PROVE  /\ a \div b \in Nat /\ a % b \in 0..(b - 1)
         /\ a = (a \div b) * b + (a % b)
OBVIOUS

LEMMA QuotientIs ==
  ASSUME NEW b \in Nat \ {0}, NEW q \in Nat, NEW r \in 0..(b - 1)
  PROVE  (q * b + r) \div b = q /\ (q * b + r) % b = r
<1>1. r \in Nat /\ r < b /\ b \in Nat
  OBVIOUS
<1> QED BY <1>1

\* The buckets of the prefix table cover all numbers.
LEMMA ShiftFits ==
  ASSUME NEW dcs, InstancedTriangles(dcs) \in Nat
  PROVE  /\ PfxShift(dcs) \in Nat
         /\ InstancedTriangles(dcs) \div Pow2[PfxShift(dcs)] < PfxBuckets
<1> DEFINE total == InstancedTriangles(dcs)
           S == {s \in 0..total : total \div Pow2[s] < PfxBuckets}
<1> HIDE DEF total
<1>1. total \in Nat /\ PfxBuckets \in Nat \ {0}
  BY LayoutAssumption DEF total
<1>2. \A s \in Nat : Pow2[s] \in Nat \ {0} /\ total \div Pow2[s] \in Nat
  BY <1>1, PowersOfTwo
<1>3. total \in S
  <2>1. total < Pow2[total]
    BY <1>1, PowerExceeds
  <2>2. \A p \in Nat \ {0} : total < p => total \div p = 0
    <3>1. \A p \in Nat \ {0} : total < p => (0 * p + total) \div p = 0
      BY <1>1
    <3> QED BY <1>1, <3>1
  <2>3. total \div Pow2[total] = 0
    BY <1>1, <1>2, <2>1, <2>2
  <2> QED BY <1>1, <2>3
<1>4. PICK s \in S : \A r \in S : s <= r
  <2>1. S \in SUBSET Nat /\ S # {}
    BY <1>1, <1>3
  <2> HIDE DEF S
  <2> QED BY <2>1, Least
<1>5. s \in 0..total /\ total \div Pow2[s] < PfxBuckets
      /\ \A r \in 0..(s - 1) : total \div Pow2[r] >= PfxBuckets
  <2>1. ASSUME NEW r \in 0..(s - 1) PROVE total \div Pow2[r] >= PfxBuckets
    <3>1. r \in 0..total /\ r \notin S /\ r \in Nat
      BY <1>1, <1>4
    <3> QED BY <1>1, <1>2, <3>1
  <2> QED BY <1>4, <2>1
<1> DEFINE Q(x) == /\ total \div Pow2[x] < PfxBuckets
                   /\ \A r \in 0..(x - 1) : total \div Pow2[r] >= PfxBuckets
           m == CHOOSE x \in 0..total : Q(x)
<1>6. m \in 0..total /\ Q(m)
  <2>1. \E x \in 0..total : Q(x)
    BY <1>5
  <2> HIDE DEF Q
  <2> QED BY <2>1
<1>7. PfxShift(dcs) = m
  BY DEF PfxShift, total
<1> HIDE DEF m
<1>8. m \in Nat
  BY <1>1, <1>6
<1> QED BY <1>6, <1>7, <1>8 DEF total

\* A bucket has the last draw call that starts at x or before.
LEMMA Counted1 ==
  ASSUME NEW dcs, Numbered(dcs), Len(dcs) # 0, NEW x \in Nat,
         NEW m, m = Cardinality({i \in DOMAIN dcs : dcs[i].start <= x})
  PROVE  /\ m \in 1..Len(dcs) /\ dcs[m].start <= x
         /\ m = Len(dcs) \/ x < dcs[m + 1].start
<1> DEFINE N == Len(dcs)
           S == {i \in DOMAIN dcs : dcs[i].start <= x}
<1>1. N \in Nat \ {0} /\ DOMAIN dcs = 1..N /\ dcs[1].start = 0
  BY NumberedFacts DEF Numbered
<1>2. \A d \in 1..N : dcs[d].start \in Nat /\ dcs[d].triangles * dcs[d].instances \in Nat
                      /\ \A e \in 1..N : d < e =>
                           dcs[d].start + dcs[d].triangles * dcs[d].instances <= dcs[e].start
  BY NumberedFacts
<1> HIDE DEF N
<1>3. \A d \in 1..N, e \in 1..N : d < e => dcs[d].start <= dcs[e].start
  <2> SUFFICES ASSUME NEW d \in 1..N, NEW e \in 1..N, d < e PROVE dcs[d].start <= dcs[e].start
    OBVIOUS
  <2> DEFINE w == dcs[d].triangles * dcs[d].instances
  <2>1. dcs[d].start \in Nat /\ w \in Nat /\ dcs[d].start + w <= dcs[e].start /\ dcs[e].start \in Nat
    BY <1>2
  <2> HIDE DEF w
  <2> QED BY <2>1
<1>4. 1 \in S
  BY <1>1
<1>5. PICK g \in S : \A i \in S : g >= i
  <2>1. S \in SUBSET (0..N) /\ S # {} /\ N \in Int
    BY <1>1, <1>4
  <2> HIDE DEF S
  <2> QED BY <2>1, Greatest
<1>6. g \in 1..N /\ dcs[g].start <= x
  BY <1>1, <1>5
<1>7. S = 1..g
  <2>1. ASSUME NEW i \in 1..g PROVE i \in S
    <3>1. i \in 1..N /\ (i = g \/ i < g)
      BY <1>1, <1>6
    <3>2. dcs[i].start <= x
      BY <1>2, <1>3, <1>6, <3>1
    <3> QED BY <1>1, <3>1, <3>2
  <2>2. ASSUME NEW i \in S PROVE i \in 1..g
    BY <1>1, <1>5
  <2> HIDE DEF S
  <2> QED BY <2>1, <2>2
<1>8. Cardinality(S) = g
  <2>1. 1 \in Int /\ g \in Int /\ ~(1 > g) /\ g - 1 + 1 = g
    BY <1>1, <1>6
  <2>2. Cardinality(1..g) = IF 1 > g THEN 0 ELSE g - 1 + 1
    BY <2>1, FS_Interval
  <2> QED BY <1>7, <2>1, <2>2
<1>9. g = N \/ x < dcs[g + 1].start
  <2> SUFFICES ASSUME g # N PROVE x < dcs[g + 1].start
    OBVIOUS
  <2>1. g + 1 \in 1..N /\ g + 1 \notin 1..g
    BY <1>1, <1>6
  <2>2. ~(dcs[g + 1].start <= x)
    BY <1>1, <1>7, <2>1
  <2> QED BY <1>2, <2>1, <2>2
<1>10. m = g
  BY <1>8
<1> QED BY <1>6, <1>9, <1>10 DEF N

\* The search from the prefix table (MetalRast.metal:find_draw_call_pfx).
LEMMA PfxFinds ==
  ASSUME NEW dcs, Numbered(dcs), NEW t \in 0..(InstancedTriangles(dcs) - 1)
  PROVE  FindDrawCallPfx(dcs, t) \in Nat /\ Holds(dcs, t, FindDrawCallPfx(dcs, t) + 1)
<1> DEFINE N == Len(dcs)
           total == InstancedTriangles(dcs)
           P == Pow2[PfxShift(dcs)]
           b == t \div P
           u == PfxBucket(dcs, b)
           v == PfxBucket(dcs, b + 1)
<1>1. N \in Nat \ {0} /\ t \in Nat /\ total \in Nat /\ t < total
  BY SomeDraws, NumberedFacts
<1>2. P \in Nat \ {0} /\ total \div P < PfxBuckets
  BY <1>1, ShiftFits, PowersOfTwo
<1> HIDE DEF P, total
<1>3. b \in Nat /\ b * P <= t /\ t < (b + 1) * P /\ b * P \in Nat /\ (b + 1) * P \in Nat
  <2>1. b \in Nat /\ t % P \in 0..(P - 1) /\ t = b * P + (t % P)
    BY <1>1, <1>2, Quotient
  <2> DEFINE r == t % P
  <2> HIDE DEF b, r
  <2>2. r \in 0..(P - 1) /\ t = b * P + r
    BY <2>1 DEF r
  <2>3. b * P \in Nat /\ (b + 1) * P = b * P + P
    BY <1>2, <2>1
  <2> QED BY <1>1, <1>2, <2>1, <2>2, <2>3
<1>4. b < PfxBuckets
  <2> DEFINE q == total \div P
  <2>1. q \in Nat /\ total % P \in 0..(P - 1) /\ total = q * P + (total % P)
    BY <1>1, <1>2, Quotient
  <2> DEFINE r == total % P
  <2>2. r \in 0..(P - 1) /\ total = q * P + r /\ q \in Nat
    BY <2>1
  <2> HIDE DEF b, q, r
  <2>3. b * P < (q + 1) * P
    <3>1. (q + 1) * P = q * P + P /\ q * P \in Nat
      BY <1>2, <2>2
    <3> QED BY <1>1, <1>2, <1>3, <2>2, <3>1
  <2>4. b < q + 1
    BY <1>2, <1>3, <2>2, <2>3
  <2>5. q < PfxBuckets /\ PfxBuckets \in Nat
    BY <1>2, LayoutAssumption DEF q
  <2> QED BY <1>3, <2>2, <2>4, <2>5
<1> HIDE DEF b
<1>5. u \in 1..N /\ dcs[u].start <= b * P /\ (u = N \/ b * P < dcs[u + 1].start)
  <2>1. u = Cardinality({i \in DOMAIN dcs : dcs[i].start <= b * P})
    BY DEF PfxBucket, P
  <2> HIDE DEF u
  <2> QED BY <1>1, <1>3, <2>1, Counted1
<1>6. v \in 1..N /\ dcs[v].start <= (b + 1) * P /\ (v = N \/ (b + 1) * P < dcs[v + 1].start)
  <2>1. v = Cardinality({i \in DOMAIN dcs : dcs[i].start <= (b + 1) * P})
    BY DEF PfxBucket, P
  <2> HIDE DEF v
  <2> QED BY <1>1, <1>3, <2>1, Counted1
<1>7. \A d \in 1..N : dcs[d].start \in Nat
  BY NumberedFacts
<1>8. FindDrawCallPfx(dcs, t) = IF v <= (u - 1) + 1 THEN u - 1 ELSE Bisect(dcs, t, u - 1, v)
  <2>1. (IF t \div P < PfxBuckets THEN t \div P ELSE PfxBuckets - 1) = b
    BY <1>4 DEF b
  <2>2. FindDrawCallPfx(dcs, t) =
          LET lo == IF u > 0 THEN u - 1 ELSE 0 IN IF v <= lo + 1 THEN lo ELSE Bisect(dcs, t, lo, v)
    BY <2>1 DEF FindDrawCallPfx, P, b
  <2>3. u > 0
    BY <1>1, <1>5
  <2> HIDE DEF u, v
  <2> QED BY <2>2, <2>3
<1> DEFINE lo == u - 1
<1> HIDE DEF u, v, N
<1>9. lo \in 0..(N - 1) /\ lo + 1 = u /\ lo + 2 = u + 1
  BY <1>1, <1>5
<1>10. dcs[lo + 1].start <= t
  BY <1>1, <1>3, <1>5, <1>7, <1>9
<1>11. v = N \/ t < dcs[v + 1].start
  <2> SUFFICES ASSUME v # N PROVE t < dcs[v + 1].start
    OBVIOUS
  <2>1. v + 1 \in 1..N
    BY <1>1, <1>6
  <2> QED BY <1>1, <1>3, <1>6, <1>7, <2>1
<1>12. CASE v <= (u - 1) + 1
  <2>1. FindDrawCallPfx(dcs, t) = lo
    BY <1>8, <1>12
  <2>2. lo = N - 1 \/ t < dcs[lo + 2].start
    <3>1. CASE v = u
      BY <1>1, <1>9, <1>11, <3>1
    <3>2. CASE v # u
      <4>1. v < u /\ v # N /\ v + 1 \in 1..N /\ (v + 1 = u \/ v + 1 < u)
        BY <1>1, <1>5, <1>6, <1>12, <3>2
      <4>2. (b + 1) * P < dcs[v + 1].start
        BY <1>6, <4>1
      <4>3. v + 1 < u => dcs[v + 1].start <= dcs[u].start
        <5> SUFFICES ASSUME v + 1 < u PROVE dcs[v + 1].start <= dcs[u].start
          OBVIOUS
        <5> DEFINE w == dcs[v + 1].triangles * dcs[v + 1].instances
        <5>1. w \in Nat /\ dcs[v + 1].start + w <= dcs[u].start
          BY <1>5, <4>1, NumberedFacts DEF N
        <5> HIDE DEF w
        <5> QED BY <1>5, <1>7, <4>1, <5>1
      <4>4. dcs[u].start \in Nat /\ dcs[v + 1].start \in Nat /\ b * P <= t
        BY <1>3, <1>5, <1>7, <4>1
      <4> QED BY <1>1, <1>3, <1>5, <4>1, <4>2, <4>3, <4>4
    <3> QED BY <3>1, <3>2
  <2>3. lo \in Nat /\ Holds(dcs, t, lo + 1)
    BY <1>9, <1>10, <2>2, FoundHolds DEF N
  <2> QED BY <2>1, <2>3
<1>13. CASE ~(v <= (u - 1) + 1)
  <2> DEFINE d == Bisect(dcs, t, lo, v)
  <2>1. FindDrawCallPfx(dcs, t) = d
    BY <1>8, <1>13
  <2>2. lo \in 0..N /\ v \in 0..N /\ lo < v
    BY <1>1, <1>5, <1>6, <1>9, <1>13
  <2> HIDE DEF lo
  <2>3. d \in 0..(N - 1) /\ dcs[d + 1].start <= t /\ (d = N - 1 \/ t < dcs[d + 2].start)
    BY <1>1, <1>10, <1>11, <2>2, BisectFinds DEF N
  <2> HIDE DEF d
  <2>4. d \in Nat /\ Holds(dcs, t, d + 1)
    BY <2>3, FoundHolds DEF N
  <2> QED BY <2>1, <2>4
<1> QED BY <1>12, <1>13

\* Both searches of the kernels find the one draw call that has a triangle's
\* number (find_draw_call and find_draw_call_pfx of MetalRast.metal).
THEOREM SearchesAgree ==
  ASSUME NEW dcs, Numbered(dcs), NEW t \in 0..(InstancedTriangles(dcs) - 1)
  PROVE  FindDrawCallPfx(dcs, t) = FindDrawCall(dcs, t)
<1>1. Holds(dcs, t, FindDrawCallPfx(dcs, t) + 1) /\ Holds(dcs, t, FindDrawCall(dcs, t) + 1)
  BY PfxFinds, FindFinds
<1>2. t \in Nat /\ Len(dcs) \in Nat
  BY SomeDraws
<1> DEFINE a == FindDrawCallPfx(dcs, t)
           b == FindDrawCall(dcs, t)
<1>5. a \in Nat /\ b \in Nat
  BY PfxFinds, FindFinds
<1> HIDE DEF a, b
<1>3. a + 1 = b + 1
  BY <1>1, <1>2, OneHolds DEF a, b
<1>4. a = b
  BY <1>5, <1>3
<1> QED BY <1>4 DEF a, b

-----------------------------------------------------------------------------
(* What is written in bits is read again.                                  *)

\* One bit more of a value.
LEMMA OneBitMore ==
  ASSUME NEW v \in Nat, NEW P \in Nat \ {0}
  PROVE  v % (2 * P) = (v % P) + (IF (v \div P) % 2 = 1 THEN P ELSE 0)
<1> DEFINE q == v \div P
           r == v % P
           h == q \div 2
           b == q % 2
<1>1. q \in Nat /\ r \in 0..(P - 1) /\ v = q * P + r
  BY Quotient
<1> HIDE DEF q, r
<1>2. h \in Nat /\ b \in 0..1 /\ q = h * 2 + b
  BY <1>1
<1> HIDE DEF h, b
<1>3. q * P = h * (2 * P) + b * P
  <2>1. q * P = (h * 2 + b) * P
    BY <1>2
  <2>2. (h * 2 + b) * P = h * (2 * P) + b * P
    BY <1>2
  <2> QED BY <2>1, <2>2
<1>4. b * P = (IF b = 1 THEN P ELSE 0)
  BY <1>2
<1> DEFINE s == (IF b = 1 THEN P ELSE 0) + r
<1>5. s \in 0..(2 * P - 1) /\ 2 * P \in Nat \ {0}
  BY <1>1
<1>6. v = h * (2 * P) + s
  <2> DEFINE x == h * (2 * P)
             y == b * P
             z == q * P
  <2>1. x \in Nat
    BY <1>2
  <2>2. v = z + r /\ z = x + y /\ y = (IF b = 1 THEN P ELSE 0)
    BY <1>1, <1>3, <1>4
  <2>3. y \in Nat /\ r \in Nat
    BY <1>1, <2>2
  <2>4. s = y + r
    BY <2>2
  <2> HIDE DEF x, y, z, s
  <2>5. v = x + s
    BY <2>1, <2>2, <2>3, <2>4
  <2> QED BY <2>5 DEF x
<1> HIDE DEF s
<1>7. v % (2 * P) = s
  BY <1>2, <1>5, <1>6, QuotientIs
<1>8. s = r + (IF b = 1 THEN P ELSE 0)
  BY <1>1 DEF s
<1> QED BY <1>7, <1>8 DEF b, q, r

HasBits(stream, pos, count, v) ==
  \A b \in 0..(count - 1) : pos + b \in stream <=> (v \div Pow2[b]) % 2 = 1
LEMMA BitsGiveValue ==
  ASSUME NEW stream, NEW pos \in Nat, NEW count \in Nat, NEW v \in Nat,
         HasBits(stream, pos, count, v)
  PROVE  ReadBits(stream, pos, count) = v % Pow2[count]
<1> DEFINE f == [b \in 1..count |-> IF pos + b - 1 \in stream THEN Pow2[b - 1] ELSE 0]
           A == {k \in Nat : k <= count => Sum(f, k) = v % Pow2[k]}
<1>1. /\ \A n \in Nat : Pow2[n] \in Nat \ {0} /\ Pow2[n + 1] = 2 * Pow2[n]
      /\ Pow2[0] = 1
  BY PowersOfTwo
<1>2. 0 \in A
  <2>1. v % 1 = 0
    OBVIOUS
  <2> QED BY <1>1, <2>1, SumStep
<1>3. ASSUME NEW k \in Nat, k \in A PROVE k + 1 \in A
  <2> SUFFICES ASSUME k + 1 <= count PROVE Sum(f, k + 1) = v % Pow2[k + 1]
    OBVIOUS
  <2>1. f[k + 1] = IF pos + k \in stream THEN Pow2[k] ELSE 0
    <3>1. k + 1 \in 1..count /\ pos + (k + 1) - 1 = pos + k /\ (k + 1) - 1 = k
      OBVIOUS
    <3> QED BY <3>1
  <2>2. pos + k \in stream <=> (v \div Pow2[k]) % 2 = 1
    BY DEF HasBits
  <2>3. Sum(f, k + 1) = Sum(f, k) + f[k + 1]
    BY SumStep
  <2> HIDE DEF f
  <2>4. Sum(f, k) = v % Pow2[k]
    BY <1>3
  <2>5. v % (2 * Pow2[k]) = (v % Pow2[k]) + (IF (v \div Pow2[k]) % 2 = 1 THEN Pow2[k] ELSE 0)
    BY <1>1, OneBitMore
  <2>6. v % Pow2[k + 1] = v % (2 * Pow2[k])
    BY <1>1
  <2> QED BY <2>1, <2>2, <2>3, <2>4, <2>5, <2>6
<1>4. Nat \subseteq A
  <2> HIDE DEF A
  <2> QED BY <1>2, <1>3, Induction
<1>5. Sum(f, count) = v % Pow2[count]
  BY <1>4
<1> QED BY <1>5 DEF ReadBits

\* Fields of n bits that follow one another do not share a bit.
LEMMA FieldsApart ==
  ASSUME NEW n \in Nat \ {0}, NEW k \in Nat, NEW l \in Nat, NEW b \in 0..(n - 1), NEW c \in 0..(n - 1),
         k * n + b = l * n + c
  PROVE  k = l /\ b = c
<1>1. (k * n + b) \div n = k /\ (k * n + b) % n = b
  BY QuotientIs
<1>2. (l * n + c) \div n = l /\ (l * n + c) % n = c
  BY QuotientIs
<1> QED BY <1>1, <1>2

Less(index, k, min, bits) == (index[k + 1] - min) % Pow2[bits]

LEMMA PackedBit ==
  \A index : \A min \in Nat, L \in Nat, pos \in Nat, bits \in Nat \ {0} : DOMAIN index = 1..L =>
    \A k \in 0..(L - 1), b \in 0..(bits - 1) : index[k + 1] \in Nat =>
      ((pos + k * bits) + b \in PackedBits(index, pos, bits, min)
        <=> b \in BitsOf(Less(index, k, min, bits), bits))
<1> SUFFICES ASSUME NEW index, NEW min \in Nat, NEW L \in Nat, NEW pos \in Nat, NEW bits \in Nat \ {0},
                    DOMAIN index = 1..L, NEW k \in 0..(L - 1), NEW b \in 0..(bits - 1),
                    index[k + 1] \in Nat
             PROVE  (pos + k * bits) + b \in PackedBits(index, pos, bits, min)
                      <=> b \in BitsOf(Less(index, k, min, bits), bits)
  OBVIOUS
<1> DEFINE B(j) == BitsOf((index[j] - min) % Pow2[bits], bits)
<1>1. PackedBits(index, pos, bits, min) = UNION {{pos + (j - 1) * bits + c : c \in B(j)} : j \in 1..L}
  BY DEF PackedBits
<1>2. \A j \in 1..L : B(j) \subseteq 0..(bits - 1)
  BY DEF BitsOf
<1>3. B(k + 1) = BitsOf(Less(index, k, min, bits), bits)
  BY DEF Less
<1> HIDE DEF B
<1>4. ASSUME b \in B(k + 1) PROVE (pos + k * bits) + b \in PackedBits(index, pos, bits, min)
  <2>1. k + 1 \in 1..L /\ (k + 1) - 1 = k
    OBVIOUS
  <2>2. pos + ((k + 1) - 1) * bits + b \in {pos + ((k + 1) - 1) * bits + c : c \in B(k + 1)}
    BY <1>4
  <2> QED BY <1>1, <2>1, <2>2
<1>5. ASSUME (pos + k * bits) + b \in PackedBits(index, pos, bits, min) PROVE b \in B(k + 1)
  <2>1. PICK j \in 1..L : (pos + k * bits) + b \in {pos + (j - 1) * bits + c : c \in B(j)}
    BY <1>1, <1>5
  <2>2. PICK c \in B(j) : (pos + k * bits) + b = pos + (j - 1) * bits + c
    BY <2>1
  <2>3. k \in Nat /\ j - 1 \in Nat /\ c \in 0..(bits - 1)
    BY <1>2, <2>2
  <2>4. k * bits \in Nat /\ (j - 1) * bits \in Nat
    BY <2>3
  <2>5. k * bits + b = (j - 1) * bits + c
    BY <2>2, <2>3, <2>4
  <2>6. k = j - 1 /\ b = c
    BY <2>3, <2>5, FieldsApart
  <2> QED BY <2>2, <2>6
<1> QED BY <1>3, <1>4, <1>5

LEMMA RawBit ==
  ASSUME NEW index, NEW L \in Nat, DOMAIN index = 1..L, NEW pos \in Nat,
         NEW k \in 0..(L - 1), NEW b \in 0..(WordBits - 1)
  PROVE  (pos + k) * WordBits + b \in RawBits(index, pos)
           <=> (index[k + 1] \div Pow2[b]) % 2 = 1
<1> DEFINE B(j) == BitsOf(index[j], WordBits)
<1>0. WordBits \in Nat \ {0}
  BY LayoutAssumption
<1>1. RawBits(index, pos) = UNION {{(pos + j - 1) * WordBits + c : c \in B(j)} : j \in 1..L}
  BY DEF RawBits
<1>2. \A j \in 1..L : B(j) \subseteq 0..(WordBits - 1)
  BY DEF BitsOf
<1>3. b \in B(k + 1) <=> (index[k + 1] \div Pow2[b]) % 2 = 1
  BY DEF BitsOf
<1> HIDE DEF B
<1>4. ASSUME b \in B(k + 1) PROVE (pos + k) * WordBits + b \in RawBits(index, pos)
  <2>1. k + 1 \in 1..L /\ pos + (k + 1) - 1 = pos + k
    OBVIOUS
  <2>2. (pos + (k + 1) - 1) * WordBits + b \in {(pos + (k + 1) - 1) * WordBits + c : c \in B(k + 1)}
    BY <1>4
  <2> QED BY <1>1, <2>1, <2>2
<1>5. ASSUME (pos + k) * WordBits + b \in RawBits(index, pos) PROVE b \in B(k + 1)
  <2>1. PICK j \in 1..L : (pos + k) * WordBits + b \in {(pos + j - 1) * WordBits + c : c \in B(j)}
    BY <1>1, <1>5
  <2>2. PICK c \in B(j) : (pos + k) * WordBits + b = (pos + j - 1) * WordBits + c
    BY <2>1
  <2>3. pos + k \in Nat /\ pos + j - 1 \in Nat /\ c \in 0..(WordBits - 1)
    BY <1>2, <2>2
  <2>4. pos + k = pos + j - 1 /\ b = c
    BY <1>0, <2>2, <2>3, FieldsApart
  <2>5. j = k + 1
    BY <2>3, <2>4
  <2> QED BY <2>2, <2>4, <2>5
<1> QED BY <1>3, <1>4, <1>5

\* The bits of an index, and what they hold of it.
IndexStart(packed, offset, bits, k) == IF packed THEN offset + k * bits ELSE (offset + k) * WordBits
IndexWidth(packed, bits) == IF packed THEN bits ELSE WordBits
BitsWritten(packed, index, offset, bits, min) ==
  IF ~packed THEN RawBits(index, offset) ELSE PackedBits(index, offset, bits, min)

Storable(x, packed, min, bits) ==
  IF packed THEN min <= x /\ x - min < Pow2[bits] ELSE x < Pow2[WordBits]
\* A stream that begins with a word of the output has the bits of index k.
HoldsField(stream, packed, index, offset, bits, min, from, k) ==
  \A b \in 0..(IndexWidth(packed, bits) - 1) :
    (IndexStart(packed, offset, bits, k) + b) - from * WordBits \in stream
      <=> IndexStart(packed, offset, bits, k) + b \in BitsWritten(packed, index, offset, bits, min)

\* A draw call reads index k of a part that was written at offset, from a stream that
\* begins with the word from.
ReadsAt(dc, packed, index, offset, bits, min, from, k) ==
  /\ packed \in BOOLEAN /\ offset \in Nat /\ bits \in Nat /\ min \in Nat /\ from \in Nat
  /\ bits = 0 <=> ~packed
  /\ from * Unit(packed) <= offset
  /\ dc.bits = bits /\ dc.indexOffset = offset - from * Unit(packed)
  /\ packed => dc.indexMin = min
  /\ \E L \in Nat : DOMAIN index = 1..L /\ k \in 0..(L - 1)
  /\ index[k + 1] \in Nat /\ Storable(index[k + 1], packed, min, bits)

\* load_index gives the index back, wherever its words have been moved.
LEMMA IndexComesBack ==
  ASSUME NEW packed, NEW index, NEW offset, NEW bits, NEW min, NEW from, NEW dc, NEW k, NEW stream,
         ReadsAt(dc, packed, index, offset, bits, min, from, k),
         HoldsField(stream, packed, index, offset, bits, min, from, k)
  PROVE  LoadIndex(stream, dc, k) = index[k + 1]
<1> DEFINE W == WordBits
           x == index[k + 1]
<1>a. PICK L \in Nat : DOMAIN index = 1..L /\ k \in 0..(L - 1)
  BY DEF ReadsAt
<1>b. /\ packed \in BOOLEAN /\ offset \in Nat /\ bits \in Nat /\ min \in Nat /\ from \in Nat
      /\ bits = 0 <=> ~packed
      /\ from * Unit(packed) <= offset
      /\ dc.bits = bits /\ dc.indexOffset = offset - from * Unit(packed)
      /\ packed => dc.indexMin = min
      /\ index[k + 1] \in Nat /\ Storable(index[k + 1], packed, min, bits)
  BY DEF ReadsAt
<1>0. W \in Nat \ {0} /\ k \in Nat /\ x \in Nat
  BY <1>a, <1>b, LayoutAssumption
<1>1. \A n \in Nat : Pow2[n] \in Nat \ {0}
  BY PowersOfTwo
<1>2. \A v \in Nat, p \in Nat \ {0} : v < p => v % p = v
  OBVIOUS
<1>3. CASE packed
  <2>1. Unit(packed) = W /\ bits \in Nat \ {0} /\ dc.indexMin = min
    BY <1>3, <1>b DEF Unit
  <2> DEFINE bit == offset - from * W + k * bits
             v == (x - min) % Pow2[bits]
  <2>2. from * W \in Nat /\ k * bits \in Nat /\ from * W <= offset
    BY <1>0, <1>b, <2>1
  <2>3. bit \in Nat
    BY <1>b, <2>2
  <2>4. x - min \in Nat /\ x - min < Pow2[bits]
    BY <1>0, <1>3, <1>b DEF Storable
  <2>5. v = x - min /\ v \in Nat
    BY <1>1, <1>2, <2>1, <2>4
  <2>6. ASSUME NEW b \in 0..(bits - 1)
        PROVE  bit + b \in stream <=> (v \div Pow2[b]) % 2 = 1
    <3>1. (offset + k * bits) + b \in PackedBits(index, offset, bits, min)
            <=> b \in BitsOf(Less(index, k, min, bits), bits)
      <4>1. /\ L \in Nat /\ DOMAIN index = 1..L /\ offset \in Nat /\ bits \in Nat \ {0}
            /\ k \in 0..(L - 1) /\ b \in 0..(bits - 1)
        BY <1>a, <1>b, <2>1
      <4> QED BY <1>b, <4>1, PackedBit
    <3>2. ((offset + k * bits) + b) - from * W \in stream
            <=> (offset + k * bits) + b \in PackedBits(index, offset, bits, min)
      BY <1>3 DEF IndexWidth, IndexStart, BitsWritten, HoldsField
    <3>3. ((offset + k * bits) + b) - from * W = bit + b
      <4> HIDE DEF W
      <4> QED BY <1>b, <2>2
    <3>4. b \in BitsOf(Less(index, k, min, bits), bits) <=> (v \div Pow2[b]) % 2 = 1
      BY DEF BitsOf, Less
    <3> HIDE DEF bit, W, v
    <3> QED BY <3>1, <3>2, <3>3, <3>4
  <2> HIDE DEF bit, v
  <2>7. ReadBits(stream, bit, bits) = v % Pow2[bits]
    <3>1. bit \in Nat /\ v \in Nat /\ bits \in Nat
      BY <1>b, <2>3, <2>5
    <3>2. HasBits(stream, bit, bits, v)
      BY <2>6 DEF HasBits
    <3> QED BY <3>1, <3>2, BitsGiveValue
  <2>8. v % Pow2[bits] = v
    BY <1>1, <1>2, <2>1, <2>4, <2>5
  <2>9. LoadIndex(stream, dc, k) = ReadBits(stream, bit, bits) + min
    BY <1>b, <2>1 DEF LoadIndex, bit
  <2> HIDE DEF x
  <2>10. v + min = x
    BY <1>0, <1>b, <2>5
  <2> QED BY <2>7, <2>8, <2>9, <2>10 DEF x
<1>4. CASE ~packed
  <2>1. Unit(packed) = 1 /\ bits = 0
    BY <1>4, <1>b DEF Unit
  <2>2. dc.indexOffset = offset - from /\ from <= offset
    BY <1>b, <2>1
  <2> DEFINE bit == (offset - from + k) * W
  <2>3. bit \in Nat /\ bit = (offset + k) * W - from * W
    <3>1. offset - from + k \in Nat
      BY <1>0, <1>b, <2>2
    <3>2. (offset - from + k) * W = (offset + k) * W - from * W
      BY <1>0, <1>b
    <3> QED BY <1>0, <3>1, <3>2
  <2>4. ASSUME NEW b \in 0..(W - 1)
        PROVE  bit + b \in stream <=> (x \div Pow2[b]) % 2 = 1
    <3>1. (offset + k) * WordBits + b \in RawBits(index, offset)
            <=> (index[k + 1] \div Pow2[b]) % 2 = 1
      BY <1>a, <1>b, RawBit
    <3>2. ((offset + k) * W + b) - from * W \in stream
            <=> (offset + k) * W + b \in RawBits(index, offset)
      BY <1>4 DEF IndexWidth, IndexStart, BitsWritten, HoldsField
    <3>3. ((offset + k) * W + b) - from * W = bit + b
      <4>1. (offset + k) * W \in Nat /\ from * W \in Nat
        BY <1>0, <1>b
      <4> QED BY <1>0, <2>3, <4>1
    <3> HIDE DEF bit
    <3> QED BY <3>1, <3>2, <3>3
  <2> HIDE DEF bit, x, W
  <2>5. ReadBits(stream, bit, W) = x % Pow2[W]
    <3>1. HasBits(stream, bit, W, x)
      BY <2>4 DEF HasBits
    <3> QED BY <1>0, <2>3, <3>1, BitsGiveValue
  <2>6. x % Pow2[W] = x
    BY <1>0, <1>1, <1>2, <1>4, <1>b DEF x, W, Storable
  <2>7. LoadIndex(stream, dc, k) = ReadBits(stream, bit, W)
    BY <1>b, <2>1, <2>2 DEF LoadIndex, bit, W
  <2> QED BY <2>5, <2>6, <2>7 DEF x
<1> QED BY <1>3, <1>4, <1>b

-----------------------------------------------------------------------------
(* What a part of a load asks for.                                         *)

Visits(i) == IF Generated THEN [k \in 1..Part(i).instances |-> k] ELSE Transforms(Part(i).mesh)
RangeIn(i) == IF Generated THEN <<0, Part(i).verts - 1>> ELSE IndexRange(Part(i))
Wanted(i) ==
  [verts |-> Part(i).verts, index |-> Part(i).index, triangles |-> Triangles(Part(i)),
   owner |-> IF Generated THEN i ELSE Part(i).mesh, visits |-> Visits(i),
   bits |-> IF opt.packed THEN BitsFor(RangeIn(i)[2] - RangeIn(i)[1] + 1) ELSE 0,
   min |-> RangeIn(i)[1], uv |-> Textured(i)]
AllWanted == [i \in 1..Parts |-> Wanted(i)]

IsPart(p, packed) ==
  /\ p.verts \in Nat /\ p.triangles \in Nat /\ p.bits \in Nat /\ p.min \in Nat
  /\ ~packed => p.bits = 0
  /\ Len(p.index) \in Nat /\ DOMAIN p.index = 1..Len(p.index)
  /\ 3 * p.triangles <= Len(p.index)
  /\ \A k \in 1..Len(p.index) : p.index[k] \in Nat
  /\ Len(p.visits) \in Nat /\ DOMAIN p.visits = 1..Len(p.visits)
  /\ \A a, b \in 1..Len(p.visits) : p.visits[a] = p.visits[b] => a = b
Encodable(p, packed) ==
  \A k \in 1..Len(p.index) :
    /\ p.index[k] < p.verts
    /\ IF packed THEN p.min <= p.index[k] /\ p.index[k] - p.min < Pow2[p.bits]
                 ELSE p.index[k] < Pow2[WordBits]

LEMMA VisitsOfPlan ==
  ASSUME Shape, ~Generated, NEW i \in 1..Parts
  PROVE  LET v == Transforms(Part(i).mesh) IN
         /\ Len(v) \in Nat /\ DOMAIN v = 1..Len(v)
         /\ \A a, b \in 1..Len(v) : v[a] = v[b] => a = b
<1>1. kept[i] \in DOMAIN Plans /\ Part(i) = Plans[kept[i]]
  BY PartsType, LenProperties DEF Part, Shape
<1> DEFINE v == Transforms(Part(i).mesh)
<1>2. v \in Seq(DOMAIN Visited) /\ \A a, b \in DOMAIN v : v[a] = v[b] => a = b
  BY <1>1, PlansFacts
<1> HIDE DEF v
<1>3. Len(v) \in Nat /\ DOMAIN v = 1..Len(v)
  BY <1>2, LenProperties
<1> QED BY <1>2, <1>3 DEF v

LEMMA WantedFacts ==
  ASSUME Shape, NEW i \in 1..Parts
  PROVE  IsPart(Wanted(i), opt.packed) /\ (Valid(i) => Encodable(Wanted(i), opt.packed))
<1> DEFINE p == Part(i)
           w == Wanted(i)
           n == Len(p.index)
           lo == RangeIn(i)[1]
           hi == RangeIn(i)[2]
<1>0. WordBits \in Nat /\ Pow2[WordBits] \in Nat /\ opt.packed \in BOOLEAN
  BY LayoutAssumption, PowersOfTwo, PartsType, OptionsAssumption
<1>1. n \in Nat /\ Triangles(p) \in Nat /\ 3 * Triangles(p) <= n
  BY PartFacts
<1>2. /\ p.verts \in Nat /\ DOMAIN p.index = 1..n /\ \A k \in 1..n : p.index[k] \in Nat
      /\ Generated => p.verts <= Pow2[WordBits]
      /\ ~Generated => \A k \in 1..n : p.index[k] < Pow2[WordBits]
  <2>1. CASE Generated
    <3> DEFINE G == [verts : 0..(Pow2[WordBits]), index : Seq(Nat), instances : Nat]
    <3>1. opt.generated \in Seq(G)
      BY OptionsAssumption DEF Shape
    <3>2. p = opt.generated[i] /\ i \in 1..Len(opt.generated)
      BY <2>1 DEF Part, Parts
    <3>3. p \in G
      <4> HIDE DEF G, p
      <4> QED BY <3>1, <3>2, LenProperties
    <3>4. p.index \in Seq(Nat) /\ p.verts \in 0..(Pow2[WordBits])
      <4> HIDE DEF p
      <4> QED BY <3>3
    <3>5. p.index \in [1..n -> Nat]
      BY <3>4, LenProperties
    <3> HIDE DEF p, n
    <3>6. DOMAIN p.index = 1..n /\ \A k \in 1..n : p.index[k] \in Nat
      BY <3>5
    <3>7. p.verts \in Nat /\ p.verts <= Pow2[WordBits]
      BY <1>0, <3>4
    <3> QED BY <2>1, <3>6, <3>7
  <2>2. CASE ~Generated
    <3>1. IsPlan(p)
      BY <2>2, PartFacts
    <3>2. p.index \in Seq(0..Max32) /\ p.verts \in Nat
      BY <3>1 DEF IsPlan
    <3>3. p.index \in [1..n -> 0..Max32]
      BY <3>2, LenProperties
    <3> HIDE DEF p, n
    <3>4. DOMAIN p.index = 1..n
      BY <3>3
    <3>5. \A k \in 1..n : p.index[k] \in Nat /\ p.index[k] < Pow2[WordBits]
      <4>1. \A k \in 1..n : p.index[k] \in 0..Max32
        BY <3>3
      <4>2. \A x \in 0..Max32 : x \in Nat /\ x < Pow2[WordBits]
        BY <1>0 DEF Max32
      <4> QED BY <4>1, <4>2
    <3> QED BY <2>2, <3>2, <3>4, <3>5
  <2> QED BY <2>1, <2>2
\* The range of the indices fits the bits.
<1>3. lo \in Nat /\ hi \in Int /\ BitsFor(hi - lo + 1) \in Nat /\ Pow2[BitsFor(hi - lo + 1)] >= hi - lo + 1
  <2>1. CASE Generated
    <3>1. lo = 0 /\ hi = p.verts - 1
      BY <2>1 DEF RangeIn
    <3> HIDE DEF lo, hi, p
    <3>2. hi - lo + 1 \in Int /\ hi - lo + 1 <= Pow2[WordBits] /\ lo \in Nat /\ hi \in Int
      BY <1>0, <1>2, <2>1, <3>1
    <3>3. BitsFor(hi - lo + 1) \in 0..WordBits /\ Pow2[BitsFor(hi - lo + 1)] >= hi - lo + 1
      BY <3>2, BitsAreBits
    <3> QED BY <1>0, <3>2, <3>3
  <2>2. CASE ~Generated
    <3>1. lo = IndexRange(p)[1] /\ hi = IndexRange(p)[2]
      BY <2>2 DEF RangeIn
    <3>2. IsPlan(p)
      BY <2>2, PartFacts
    <3> HIDE DEF lo, hi, p
    <3> QED BY <3>1, <3>2, RangeOfPlan
  <2> QED BY <2>1, <2>2
<1>4. Len(Visits(i)) \in Nat /\ DOMAIN Visits(i) = 1..Len(Visits(i))
      /\ \A a, b \in 1..Len(Visits(i)) : Visits(i)[a] = Visits(i)[b] => a = b
  <2>1. CASE Generated
    <3>1. Part(i).instances \in Nat
      <4> DEFINE G == [verts : 0..(Pow2[WordBits]), index : Seq(Nat), instances : Nat]
      <4>1. opt.generated \in Seq(G)
        BY OptionsAssumption DEF Shape
      <4>2. p = opt.generated[i] /\ i \in 1..Len(opt.generated)
        BY <2>1 DEF Part, Parts
      <4>3. p \in G
        <5> HIDE DEF G, p
        <5> QED BY <4>1, <4>2, LenProperties
      <4> QED BY <4>3
    <3>2. Visits(i) = [k \in 1..Part(i).instances |-> k]
      BY <2>1 DEF Visits
    <3> QED BY <3>1, <3>2
  <2>2. CASE ~Generated
    BY <2>2, VisitsOfPlan DEF Visits
  <2> QED BY <2>1, <2>2
<1>5. /\ w.verts = p.verts /\ w.index = p.index /\ w.triangles = Triangles(p)
      /\ w.bits = (IF opt.packed THEN BitsFor(hi - lo + 1) ELSE 0) /\ w.min = lo
      /\ w.visits = Visits(i)
  BY DEF Wanted
<1>6. Valid(i) => \A k \in 1..n : p.index[k] < p.verts /\ (opt.packed => p.index[k] \in lo..hi)
  <2> SUFFICES ASSUME Valid(i), NEW k \in 1..n
               PROVE  p.index[k] < p.verts /\ (opt.packed => p.index[k] \in lo..hi)
    OBVIOUS
  <2>1. p.index[k] < p.verts /\ (opt.packed /\ ~Generated => p.index[k] \in lo..hi)
    BY <1>2 DEF Valid, RangeIn
  <2>2. Generated => lo = 0 /\ hi = p.verts - 1
    BY DEF RangeIn
  <2> HIDE DEF lo, hi, p, n
  <2>3. p.index[k] \in Nat /\ p.verts \in Nat
    BY <1>2
  <2> QED BY <2>1, <2>2, <2>3
<1> HIDE DEF w, p, n, lo, hi
<1>7. IsPart(w, opt.packed)
  BY <1>0, <1>1, <1>2, <1>3, <1>4, <1>5 DEF IsPart, n
<1>8. ASSUME Valid(i) PROVE Encodable(w, opt.packed)
  <2> SUFFICES ASSUME NEW k \in 1..n
               PROVE  /\ p.index[k] < p.verts
                      /\ IF opt.packed THEN lo <= p.index[k] /\ p.index[k] - lo < Pow2[BitsFor(hi - lo + 1)]
                                       ELSE p.index[k] < Pow2[WordBits]
    BY <1>5 DEF Encodable, n
  <2> DEFINE x == p.index[k]
             P == Pow2[BitsFor(hi - lo + 1)]
  <2>1. x < p.verts /\ (opt.packed => x \in lo..hi)
    BY <1>6, <1>8
  <2>2. x \in Nat /\ p.verts \in Nat /\ (Generated => p.verts <= Pow2[WordBits])
        /\ (~Generated => x < Pow2[WordBits])
    BY <1>2
  <2>3. P \in Nat /\ P >= hi - lo + 1
    BY <1>3, PowersOfTwo
  <2> HIDE DEF x, P
  <2>4. opt.packed => lo <= x /\ x - lo < P
    BY <1>3, <2>1, <2>2, <2>3
  <2>5. x < Pow2[WordBits]
    BY <1>0, <2>1, <2>2
  <2> QED BY <2>1, <2>4, <2>5 DEF x, P
<1> QED BY <1>7, <1>8 DEF w

-----------------------------------------------------------------------------
(* Draw calls and matrices, one after the other.                           *)

IsList(s) == Len(s) \in Nat /\ s = [k \in 1..Len(s) |-> s[k]]

IsConcat(a, s, t) ==
  /\ IsList(a) /\ Len(a) = Len(s) + Len(t)
  /\ \A k \in 1..Len(s) : a[k] = s[k]
  /\ \A k \in 1..Len(t) : a[Len(s) + k] = t[k]

LEMMA ConcatIs ==
  ASSUME NEW s, IsList(s), NEW t, IsList(t)
  PROVE  IsConcat(s \o t, s, t)
<1> DEFINE S == {s[k] : k \in 1..Len(s)} \cup {t[k] : k \in 1..Len(t)}
           n == Len(s)
           m == Len(t)
           a == s \o t
<1>1. n \in Nat /\ m \in Nat /\ s = [k \in 1..n |-> s[k]] /\ t = [k \in 1..m |-> t[k]]
  BY DEF IsList
<1>2. (\A k \in 1..n : s[k] \in S) /\ (\A k \in 1..m : t[k] \in S)
  OBVIOUS
<1> HIDE DEF S, n, m
<1>3. s \in [1..n -> S] /\ t \in [1..m -> S]
  BY <1>1, <1>2
<1>4. s \in Seq(S) /\ t \in Seq(S)
  BY <1>1, <1>3, SeqDef
<1>5. /\ a \in Seq(S) /\ Len(a) = n + m
      /\ \A k \in 1..n : a[k] = s[k]
      /\ \A k \in 1..m : a[n + k] = t[k]
  <2>1. a \in Seq(S) /\ Len(a) = Len(s) + Len(t)
    BY <1>4
  <2>2. \A k \in 1..Len(s) : a[k] = s[k]
    BY <1>4
  <2>3. \A k \in 1..Len(t) : a[Len(s) + k] = t[k]
    BY <1>4
  <2> HIDE DEF a
  <2> QED BY <2>1, <2>2, <2>3 DEF n, m
<1> HIDE DEF a
<1>6. a \in [1..Len(a) -> S] /\ Len(a) \in Nat
  BY <1>5, LenProperties
<1>7. IsList(a)
  BY <1>6 DEF IsList
<1> QED BY <1>5, <1>7 DEF IsConcat, a, n, m

CallFields == {"vertexOffset", "indexOffset", "bits", "indexMin", "triangles", "start",
               "instances", "firstInstance", "chunk"}
\* The draw call of a part, in a copy of the scene.
IsCall(dc, p, matrices, copy, packed) ==
  /\ DOMAIN dc = CallFields
  /\ dc.vertexOffset \in Nat /\ dc.indexOffset \in Nat
  /\ dc.triangles = p.triangles /\ dc.bits = p.bits /\ (packed => dc.indexMin = p.min)
  /\ dc.instances = Len(p.visits)
  /\ dc.firstInstance \in Nat /\ dc.firstInstance + Len(p.visits) <= Len(matrices)
  /\ \A k \in 1..Len(p.visits) :
       matrices[dc.firstInstance + k] = [copy |-> copy, of |-> <<p.owner, p.visits[k]>>]

\* The draw calls of the first parts: their numbers follow one another, and so do
\* their vertices.
Drafted(dcs, matrices, end, parts, packed) ==
  /\ Numbered(dcs) /\ IsList(matrices) /\ end \in Nat
  /\ \A d \in 1..Len(dcs) :
       /\ IsPart(parts[d], packed) /\ IsCall(dcs[d], parts[d], matrices, 0, packed)
       /\ dcs[d].vertexOffset + parts[d].verts <= end
       /\ \A e \in 1..Len(dcs) : d < e => dcs[d].vertexOffset + parts[d].verts <= dcs[e].vertexOffset

\* Matrices are only added.
LEMMA CallKept ==
  ASSUME NEW dc, NEW p, NEW matrices, NEW copy, NEW packed, IsCall(dc, p, matrices, copy, packed),
         NEW m, IsList(matrices), IsList(m), Len(matrices) <= Len(m),
         \A k \in 1..Len(matrices) : m[k] = matrices[k], Len(p.visits) \in Nat
  PROVE  IsCall(dc, p, m, copy, packed)
<1> DEFINE f == dc.firstInstance
           n == Len(p.visits)
           M == Len(matrices)
<1>1. f \in Nat /\ n \in Nat /\ M \in Nat /\ Len(m) \in Nat /\ f + n <= M
  BY DEF IsCall, IsList
<1> HIDE DEF f, n, M
<1>2. f + n <= Len(m)
  BY <1>1 DEF M
<1>3. \A k \in 1..n : f + k \in 1..M
  BY <1>1
<1>4. \A k \in 1..n : m[f + k] = matrices[f + k]
  BY <1>3 DEF M
<1> QED BY <1>2, <1>4 DEF IsCall, f, n

LEMMA NumberedAppend ==
  ASSUME NEW dcs, Numbered(dcs), NEW dc, dc.triangles \in Nat, dc.instances \in Nat,
         dc.start = InstancedTriangles(dcs), NEW a, a = Append(dcs, dc)
  PROVE  Numbered(a)
<1> DEFINE n == Len(dcs)
<1>1. n \in Nat /\ dcs = [d \in 1..n |-> dcs[d]] /\ DOMAIN dcs = 1..n
  BY DEF Numbered
<1>2. /\ Len(a) = n + 1 /\ a = [d \in 1..(n + 1) |-> a[d]]
      /\ a[n + 1] = dc /\ \A d \in 1..n : a[d] = dcs[d]
  <2> HIDE DEF n
  <2> QED BY <1>1, AppendIs
<1>3. \A d \in 1..n : dcs[d].triangles \in Nat /\ dcs[d].instances \in Nat
                      /\ dcs[d].start = Sum(Share(dcs), d - 1)
  BY DEF Numbered
<1>4. \A k \in 1..n : Share(a)[k] = Share(dcs)[k]
  <2>1. DOMAIN a = 1..(n + 1)
    BY <1>2
  <2>2. \A k \in 1..n : k \in 1..(n + 1)
    BY <1>1
  <2> QED BY <1>1, <1>2, <2>1, <2>2 DEF Share
<1>5. InstancedTriangles(dcs) = Sum(Share(dcs), n)
  BY DEF InstancedTriangles, Share
<1> HIDE DEF n
<1>6. \A d \in 1..(n + 1) : Sum(Share(a), d - 1) = Sum(Share(dcs), d - 1)
  <2> SUFFICES ASSUME NEW d \in 1..(n + 1) PROVE Sum(Share(a), d - 1) = Sum(Share(dcs), d - 1)
    OBVIOUS
  <2>1. d - 1 \in Nat /\ \A k \in 1..(d - 1) : k \in 1..n
    BY <1>1
  <2>2. \A k \in 1..(d - 1) : Share(a)[k] = Share(dcs)[k]
    BY <1>4, <2>1
  <2> QED BY <2>1, <2>2, SumSame
<1>7. \A d \in 1..(n + 1) : /\ a[d].triangles \in Nat /\ a[d].instances \in Nat
                            /\ a[d].start = Sum(Share(a), d - 1)
  <2> SUFFICES ASSUME NEW d \in 1..(n + 1)
               PROVE  /\ a[d].triangles \in Nat /\ a[d].instances \in Nat
                      /\ a[d].start = Sum(Share(a), d - 1)
    OBVIOUS
  <2>1. CASE d = n + 1
    <3>1. d - 1 = n
      BY <1>1, <2>1
    <3> QED BY <1>2, <1>5, <1>6, <2>1, <3>1
  <2>2. CASE d \in 1..n
    BY <1>2, <1>3, <1>6, <2>2
  <2> QED BY <1>1, <2>1, <2>2
<1>8. Len(a) \in Nat /\ a = [d \in 1..Len(a) |-> a[d]]
  BY <1>1, <1>2
<1>9. \A d \in 1..Len(a) : /\ a[d].triangles \in Nat /\ a[d].instances \in Nat
                          /\ a[d].start = Sum(Share(a), d - 1)
  BY <1>2, <1>7
<1> QED BY <1>8, <1>9 DEF Numbered

LEMMA DraftedAppend ==
  ASSUME NEW dcs, NEW matrices, NEW end, NEW parts, NEW packed,
         Drafted(dcs, matrices, end, parts, packed),
         NEW m, IsList(m), Len(matrices) <= Len(m), \A k \in 1..Len(matrices) : m[k] = matrices[k],
         NEW p, p = parts[Len(dcs) + 1], IsPart(p, packed),
         NEW dc, IsCall(dc, p, m, 0, packed), dc.vertexOffset = end,
         dc.start = InstancedTriangles(dcs),
         NEW a, a = Append(dcs, dc)
  PROVE  Drafted(a, m, end + p.verts, parts, packed) /\ Len(a) = Len(dcs) + 1
<1> DEFINE n == Len(dcs)
           v(d) == parts[d].verts
           o(d) == a[d].vertexOffset
<1>1. Numbered(dcs) /\ IsList(matrices) /\ end \in Nat /\ n \in Nat
  BY DEF Drafted, Numbered
<1>2. p.triangles \in Nat /\ Len(p.visits) \in Nat /\ p.verts \in Nat
  BY DEF IsPart
<1>3. dc.triangles \in Nat /\ dc.instances \in Nat
  BY <1>2 DEF IsCall
<1>4. Numbered(a) /\ Len(a) = n + 1 /\ a[n + 1] = dc /\ \A d \in 1..n : a[d] = dcs[d]
  <2>1. Numbered(a)
    BY <1>1, <1>3, NumberedAppend, Zenon
  <2>2. dcs = [d \in 1..n |-> dcs[d]]
    BY <1>1 DEF Numbered
  <2> HIDE DEF n
  <2> QED BY <1>1, <2>1, <2>2, AppendIs
<1>5. \A d \in 1..n :
        /\ IsPart(parts[d], packed) /\ IsCall(dcs[d], parts[d], matrices, 0, packed)
        /\ dcs[d].vertexOffset + parts[d].verts <= end
        /\ \A e \in 1..n : d < e => dcs[d].vertexOffset + parts[d].verts <= dcs[e].vertexOffset
  BY DEF Drafted
<1> HIDE DEF n
<1>6. \A d \in 1..n : o(d) \in Nat /\ v(d) \in Nat /\ o(d) + v(d) <= end
  BY <1>4, <1>5 DEF IsCall, IsPart
<1>7. o(n + 1) = end /\ v(n + 1) = p.verts
  BY <1>4 DEF n
<1>8. \A d \in 1..n, e \in 1..n : d < e => o(d) + v(d) <= o(e)
  BY <1>4, <1>5
<1>9. \A d \in 1..n : IsPart(parts[d], packed) /\ IsCall(a[d], parts[d], m, 0, packed)
  <2> SUFFICES ASSUME NEW d \in 1..n
               PROVE  IsPart(parts[d], packed) /\ IsCall(a[d], parts[d], m, 0, packed)
    OBVIOUS
  <2>1. IsPart(parts[d], packed) /\ IsCall(dcs[d], parts[d], matrices, 0, packed) /\ a[d] = dcs[d]
    BY <1>4, <1>5
  <2>2. Len(parts[d].visits) \in Nat
    BY <2>1 DEF IsPart
  <2>3. IsCall(dcs[d], parts[d], m, 0, packed)
    BY <1>1, <2>1, <2>2, CallKept
  <2> QED BY <2>1, <2>3
<1>10. IsPart(parts[n + 1], packed) /\ IsCall(a[n + 1], parts[n + 1], m, 0, packed)
  BY <1>4 DEF n
<1> HIDE DEF o, v
<1>11. \A d \in 1..(n + 1) : o(d) + v(d) <= end + p.verts
  <2>1. \A d \in 1..(n + 1) : d \in 1..n \/ d = n + 1
    BY <1>1
  <2>2. o(n + 1) + v(n + 1) <= end + p.verts
    BY <1>1, <1>2, <1>7
  <2>3. \A d \in 1..n : o(d) + v(d) <= end + p.verts
    BY <1>1, <1>2, <1>6
  <2> QED BY <2>1, <2>2, <2>3
<1>12. \A d \in 1..(n + 1), e \in 1..(n + 1) : d < e => o(d) + v(d) <= o(e)
  <2>1. \A d \in 1..(n + 1), e \in 1..(n + 1) : d < e => d \in 1..n /\ (e \in 1..n \/ e = n + 1)
    BY <1>1
  <2> QED BY <1>6, <1>7, <1>8, <2>1
<1>13. \A d \in 1..(n + 1) : IsPart(parts[d], packed) /\ IsCall(a[d], parts[d], m, 0, packed)
  <2>1. \A d \in 1..(n + 1) : d \in 1..n \/ d = n + 1
    BY <1>1
  <2> QED BY <1>9, <1>10, <2>1
<1>14. end + p.verts \in Nat
  BY <1>1, <1>2
<1>15. Drafted(a, m, end + p.verts, parts, packed)
  BY <1>4, <1>11, <1>12, <1>13, <1>14 DEF Drafted, o, v
<1> QED BY <1>4, <1>15 DEF n

-----------------------------------------------------------------------------
(* Copies of a scene.                                                      *)

LEMMA SumLast ==
  ASSUME NEW f, NEW n \in Nat \ {0}
  PROVE  Sum(f, n) = Sum(f, n - 1) + f[n]
<1> DEFINE m == n - 1
<1>1. m \in Nat /\ m + 1 = n
  OBVIOUS
<1> HIDE DEF m
<1>2. Sum(f, m + 1) = Sum(f, m) + f[m + 1]
  BY <1>1, SumStep
<1> QED BY <1>1, <1>2 DEF m

LEMMA SumGrows ==
  ASSUME NEW f, NEW n \in Nat, \A k \in 1..n : f[k] \in Nat
  PROVE  \A k \in 0..n : Sum(f, k) \in Nat /\ Sum(f, k) <= Sum(f, n)
<1> DEFINE A == {m \in Nat : m <= n => \A k \in 0..n : k <= m => Sum(f, k) <= Sum(f, m)}
<1>1. \A k \in 0..n : Sum(f, k) \in Nat
  BY SumIsNat
<1>2. 0 \in A
  <2>1. \A k \in 0..n : k <= 0 => k = 0
    OBVIOUS
  <2>2. Sum(f, 0) \in Nat
    BY <1>1
  <2> QED BY <2>1, <2>2
<1>3. ASSUME NEW m \in Nat, m \in A PROVE m + 1 \in A
  <2> SUFFICES ASSUME m + 1 <= n, NEW k \in 0..n, k <= m + 1 PROVE Sum(f, k) <= Sum(f, m + 1)
    OBVIOUS
  <2>1. Sum(f, m + 1) = Sum(f, m) + f[m + 1]
    BY SumStep
  <2>2. Sum(f, m) \in Nat /\ Sum(f, m + 1) \in Nat /\ f[m + 1] \in Nat /\ Sum(f, k) \in Nat
    <3>1. m \in 0..n /\ m + 1 \in 0..n /\ m + 1 \in 1..n
      OBVIOUS
    <3> QED BY <1>1, <3>1
  <2>3. CASE k = m + 1
    BY <2>2, <2>3
  <2>4. CASE k <= m
    <3>1. Sum(f, k) <= Sum(f, m)
      BY <1>3, <2>4
    <3> QED BY <2>1, <2>2, <3>1
  <2> QED BY <2>3, <2>4
<1>4. n \in A
  <2> HIDE DEF A
  <2> QED BY <1>2, <1>3, Induction
<1>5. \A k \in 0..n : Sum(f, k) <= Sum(f, n)
  BY <1>4
<1> QED BY <1>1, <1>5

\* Where an element of one of them is found.
IsFlat(a, b, l, n) ==
  /\ IsList(a) /\ Len(a) = Sum(l, n)
  /\ \A k \in 1..n : \A x \in 1..l[k] : a[Sum(l, k - 1) + x] = b[k][x]

LEMMA FlattenAt ==
  ASSUME NEW b, NEW n \in Nat \ {0}, Len(b) = n, NEW l,
         \A k \in 1..n : IsList(b[k]) /\ Len(b[k]) = l[k]
  PROVE  IsFlat(FlattenSeq(b), b, l, n)
<1> DEFINE a == FlattenSeq(b)
           cell(k, x) == Sum(l, k - 1) + x
           Good1(s, j) == /\ IsList(s[j]) /\ Len(s[j]) = Sum(l, j)
                          /\ \A k \in 1..j : \A x \in 1..l[k] : s[j][cell(k, x)] = b[k][x]
<1>1. \A k \in 1..n : l[k] \in Nat
  BY DEF IsList
<1>2. \A k \in 0..n : Sum(l, k) \in Nat
  BY <1>1, SumIsNat
<1>3. PICK s : a = s[n] /\ Joined(s, b, n)
  BY FlattenSteps
<1> HIDE DEF a
<1>4. s[1] = b[1] /\ \A i \in 1..(n - 1) : s[i + 1] = s[i] \o b[i + 1]
  BY <1>3 DEF Joined
<1> DEFINE A == {j \in Nat : j \in 1..n => Good1(s, j)}
<1>5. 0 \in A
  OBVIOUS
<1>6. ASSUME NEW j \in Nat, j \in A PROVE j + 1 \in A
  <2> SUFFICES ASSUME j + 1 \in 1..n PROVE Good1(s, j + 1)
    OBVIOUS
  <2>1. CASE j = 0
    <3>1. j + 1 = 1 /\ 1 \in 1..n
      BY <2>1
    <3>2. IsList(b[1]) /\ Len(b[1]) = l[1] /\ l[1] \in Nat
      BY <1>1, <3>1
    <3>3. Sum(l, 0) = 0 /\ Sum(l, 1) = l[1]
      <4>1. Sum(l, 0) = 0 /\ Sum(l, 0 + 1) = Sum(l, 0) + l[0 + 1]
        BY SumStep
      <4> QED BY <3>2, <4>1
    <3>4. ASSUME NEW k \in 1..1, NEW x \in 1..l[k] PROVE s[1][cell(k, x)] = b[k][x]
      <4>1. k = 1 /\ k - 1 = 0 /\ 0 + x = x
        BY <3>2, <3>4
      <4>2. cell(k, x) = x
        BY <3>3, <4>1
      <4> QED BY <1>4, <4>1, <4>2
    <3> HIDE DEF cell
    <3> QED BY <1>4, <3>1, <3>2, <3>3, <3>4
  <2>2. CASE j # 0
    <3>1. j \in 1..(n - 1) /\ j \in 1..n /\ j \in 0..n
      BY <2>2
    <3>2. /\ IsList(s[j]) /\ Len(s[j]) = Sum(l, j)
          /\ \A k \in 1..j : \A x \in 1..l[k] : s[j][cell(k, x)] = b[k][x]
      BY <1>6, <3>1
    <3>3. IsList(b[j + 1]) /\ Len(b[j + 1]) = l[j + 1] /\ l[j + 1] \in Nat
      BY <1>1
    <3>4. s[j + 1] = s[j] \o b[j + 1]
      BY <1>4, <3>1
    <3>5. /\ IsList(s[j + 1]) /\ Len(s[j + 1]) = Sum(l, j) + l[j + 1]
          /\ \A k \in 1..Sum(l, j) : s[j + 1][k] = s[j][k]
          /\ \A k \in 1..l[j + 1] : s[j + 1][Sum(l, j) + k] = b[j + 1][k]
      <4>1. IsConcat(s[j + 1], s[j], b[j + 1])
        BY <3>2, <3>3, <3>4, ConcatIs
      <4> QED BY <3>2, <3>3, <4>1 DEF IsConcat
    <3>6. Sum(l, j + 1) = Sum(l, j) + l[j + 1] /\ Sum(l, j) \in Nat
      BY <1>2, <3>1, SumStep
    <3>7. ASSUME NEW k \in 1..(j + 1), NEW x \in 1..l[k] PROVE s[j + 1][cell(k, x)] = b[k][x]
      <4>1. CASE k = j + 1
        <5>1. k - 1 = j
          BY <4>1
        <5> QED BY <3>5, <4>1, <5>1
      <4>2. CASE k \in 1..j
        <5>1. k \in 1..n /\ k - 1 \in 0..n /\ (k - 1) + 1 = k /\ k \in 0..n
          BY <4>2
        <5>2. Sum(l, k) = Sum(l, k - 1) + l[k]
          <6>1. k \in Nat \ {0}
            BY <5>1
          <6> QED BY <6>1, SumLast
        <5>3. Sum(l, k) <= Sum(l, j)
          <6>1. \A i \in 1..j : l[i] \in Nat
            BY <1>1, <3>1
          <6>2. k \in 0..j
            BY <4>2
          <6> QED BY <6>1, <6>2, SumGrows
        <5>4. Sum(l, k - 1) \in Nat /\ Sum(l, k) \in Nat /\ l[k] \in Nat
          BY <1>1, <1>2, <5>1
        <5>5. cell(k, x) \in 1..Sum(l, j)
          BY <3>6, <5>2, <5>3, <5>4
        <5> HIDE DEF cell
        <5> QED BY <3>2, <3>5, <4>2, <5>5
      <4> QED BY <4>1, <4>2
    <3> HIDE DEF cell
    <3> QED BY <3>5, <3>6, <3>7
  <2> QED BY <2>1, <2>2
<1>7. Good1(s, n)
  <2>1. Nat \subseteq A
    <3> HIDE DEF A
    <3> QED BY <1>5, <1>6, Induction
  <2> HIDE DEF Good1
  <2> QED BY <2>1
<1>8. IsFlat(a, b, l, n)
  BY <1>3, <1>7 DEF IsFlat
<1> QED BY <1>8 DEF a

\* The draw calls of a scene and its copies.
Scened(dcs, matrices, copies, n, parts, packed) ==
  /\ n \in Nat /\ copies \in Nat \ {0} /\ Len(dcs) = copies * n /\ Numbered(dcs)
  /\ \A d \in 1..(copies * n) :
       /\ IsPart(parts[Base(d, n)], packed)
       /\ IsCall(dcs[d], parts[Base(d, n)], matrices, (d - 1) \div n, packed)

LEMMA CopyOf ==
  ASSUME NEW n \in Nat \ {0}, NEW copies \in Nat, NEW d \in 1..(copies * n)
  PROVE  /\ Base(d, n) \in 1..n /\ (d - 1) \div n \in 0..(copies - 1)
         /\ d = ((d - 1) \div n) * n + Base(d, n)
<1> DEFINE x == d - 1
           q == x \div n
           r == x % n
<1>0. copies * n \in Nat
  OBVIOUS
<1>1. x \in Nat /\ x < copies * n /\ d = x + 1 /\ d \in Nat \ {0}
  BY <1>0
<1> HIDE DEF x
<1>2. q \in Nat /\ r \in 0..(n - 1) /\ x = q * n + r
  BY <1>1, Quotient
<1>3. x \div n \in 0..(copies - 1)
  <2>1. \A c \in Int, m \in Nat \ {0} : x < c * m => x \div m \in 0..(c - 1)
    BY <1>1, DivBelow
  <2>2. copies \in Int
    OBVIOUS
  <2> HIDE DEF q, r
  <2> QED BY <1>1, <2>1, <2>2
<1>4. Base(d, n) = r + 1
  BY DEF Base, x
<1>7. q \in 0..(copies - 1)
  BY <1>3
<1> HIDE DEF q, r
<1>5. q * n \in Nat
  BY <1>2
<1>6. Base(d, n) \in 1..n /\ d = q * n + Base(d, n)
  BY <1>1, <1>2, <1>4, <1>5
<1> QED BY <1>7, <1>6 DEF q, x

\* One copy: the scene as it is.
LEMMA OneCopy ==
  ASSUME NEW dcs, NEW matrices, NEW end, NEW parts, NEW packed,
         Drafted(dcs, matrices, end, parts, packed), NEW n, Len(dcs) = n
  PROVE  Scened(dcs, matrices, 1, n, parts, packed)
<1>1. n \in Nat /\ Numbered(dcs) /\ 1 * n = n
  BY DEF Drafted, Numbered
<1>2. ASSUME NEW d \in 1..n PROVE Base(d, n) = d /\ (d - 1) \div n = 0
  <2>1. n \in Nat \ {0} /\ d \in Nat \ {0} /\ d <= n
    BY <1>1
  <2>2. Base(d, n) = d
    BY <2>1, BaseFacts
  <2>3. (d - 1) \div n = 0
    BY <2>1
  <2> QED BY <2>2, <2>3
<1>3. \A d \in 1..n : IsPart(parts[d], packed) /\ IsCall(dcs[d], parts[d], matrices, 0, packed)
  BY DEF Drafted
<1>4. \A d \in 1..n : /\ IsPart(parts[Base(d, n)], packed)
                      /\ IsCall(dcs[d], parts[Base(d, n)], matrices, (d - 1) \div n, packed)
  BY <1>2, <1>3
<1> QED BY <1>1, <1>4 DEF Scened

\* The copies of a draw call begin where it begins.
KeepsOffsets(a, dcs, m, n) ==
  \A d \in 1..m : /\ a[d].vertexOffset = dcs[Base(d, n)].vertexOffset
                  /\ a[d].indexOffset = dcs[Base(d, n)].indexOffset

LEMMA ReplicatedScene ==
  ASSUME NEW s, NEW end, NEW parts, NEW packed, Drafted(s.dcs, s.matrices, end, parts, packed),
         NEW copies \in Nat \ {0}, NEW n \in Nat \ {0}, Len(s.dcs) = n,
         NEW w, w = Replicate(s, copies)
  PROVE  /\ Scened(w.dcs, w.matrices, copies, n, parts, packed)
         /\ KeepsOffsets(w.dcs, s.dcs, copies * n, n)
<1>0. Numbered(s.dcs) /\ IsList(s.matrices) /\ copies * n \in Nat
      /\ \A d \in 1..n : IsPart(parts[d], packed) /\ IsCall(s.dcs[d], parts[d], s.matrices, 0, packed)
  BY DEF Drafted
<1>1. CASE copies <= 1
  <2>1. copies = 1 /\ w = s /\ 1 * n = n
    BY <1>1 DEF Replicate
  <2>2. Scened(s.dcs, s.matrices, 1, n, parts, packed)
    BY OneCopy
  <2>3. \A d \in 1..n : Base(d, n) = d
    BY BaseFacts
  <2> QED BY <2>1, <2>2, <2>3 DEF KeepsOffsets
<1>2. CASE ~(copies <= 1)
  <2> DEFINE N == copies * n
             of(k) == s.dcs[((k - 1) % n) + 1]
             before(k) == [j \in 1..(k - 1) |-> of(j)]
             l == [j \in 1..N |-> of(j).instances]
             block(k) == [x \in 1..of(k).instances |->
                           [s.matrices[of(k).firstInstance + x] EXCEPT !.copy = (k - 1) \div n]]
             dcs == [k \in 1..N |->
                      [of(k) EXCEPT !.start = InstancedTriangles(before(k)),
                        !.firstInstance = Sum([j \in 1..(k - 1) |-> of(j).instances], k - 1)]]
             blocks == [k \in 1..N |-> block(k)]
  <2>1. w.dcs = dcs /\ w.matrices = FlattenSeq(blocks)
    BY <1>2 DEF Replicate
  <2>2. N \in Nat \ {0}
    BY <1>0
  <2>3. \A k \in 1..N : of(k) = s.dcs[Base(k, n)] /\ Base(k, n) \in 1..n
    BY CopyOf DEF Base
  <2> DEFINE p(k) == parts[Base(k, n)]
  <2>4. \A k \in 1..N : IsPart(p(k), packed) /\ IsCall(of(k), p(k), s.matrices, 0, packed)
    BY <1>0, <2>3
  <2> HIDE DEF N, of, p
  <2>5. \A k \in 1..N : of(k).instances = Len(p(k).visits) /\ of(k).instances \in Nat
                        /\ of(k).triangles \in Nat /\ l[k] = of(k).instances
    BY <2>4 DEF IsCall, IsPart
\* A draw call of the result.
  <2>6. \A k \in 1..N :
          /\ DOMAIN dcs[k] = CallFields
          /\ dcs[k].vertexOffset = of(k).vertexOffset /\ dcs[k].indexOffset = of(k).indexOffset
          /\ dcs[k].triangles = of(k).triangles /\ dcs[k].bits = of(k).bits
          /\ dcs[k].indexMin = of(k).indexMin /\ dcs[k].instances = of(k).instances
          /\ dcs[k].start = InstancedTriangles(before(k))
          /\ dcs[k].firstInstance = Sum([j \in 1..(k - 1) |-> of(j).instances], k - 1)
    <3> SUFFICES ASSUME NEW k \in 1..N
                 PROVE  /\ DOMAIN dcs[k] = CallFields
                        /\ dcs[k].vertexOffset = of(k).vertexOffset /\ dcs[k].indexOffset = of(k).indexOffset
                        /\ dcs[k].triangles = of(k).triangles /\ dcs[k].bits = of(k).bits
                        /\ dcs[k].indexMin = of(k).indexMin /\ dcs[k].instances = of(k).instances
                        /\ dcs[k].start = InstancedTriangles(before(k))
                        /\ dcs[k].firstInstance = Sum([j \in 1..(k - 1) |-> of(j).instances], k - 1)
      OBVIOUS
    <3> DEFINE a == InstancedTriangles(before(k))
               b == Sum([j \in 1..(k - 1) |-> of(j).instances], k - 1)
    <3>1. DOMAIN of(k) = CallFields
      BY <2>4 DEF IsCall
    <3>2. dcs[k] = [of(k) EXCEPT !.start = a, !.firstInstance = b]
      OBVIOUS
    <3> HIDE DEF a, b, dcs
    <3>3. /\ DOMAIN dcs[k] = CallFields
          /\ dcs[k].vertexOffset = of(k).vertexOffset /\ dcs[k].indexOffset = of(k).indexOffset
          /\ dcs[k].triangles = of(k).triangles /\ dcs[k].bits = of(k).bits
          /\ dcs[k].indexMin = of(k).indexMin /\ dcs[k].instances = of(k).instances
          /\ dcs[k].start = a /\ dcs[k].firstInstance = b
      BY <3>1, <3>2 DEF CallFields
    <3> QED BY <3>3 DEF a, b
  <2>7. Len(dcs) = N /\ dcs = [k \in 1..N |-> dcs[k]] /\ DOMAIN dcs = 1..N
    BY <2>2
  <2>8. \A k \in 1..N : InstancedTriangles(before(k)) = Sum(Share(dcs), k - 1)
    <3> SUFFICES ASSUME NEW k \in 1..N PROVE InstancedTriangles(before(k)) = Sum(Share(dcs), k - 1)
      OBVIOUS
    <3> DEFINE b == before(k)
               m == k - 1
    <3>1. m \in Nat /\ \A j \in 1..m : j \in 1..N
      BY <2>2
    <3>2. Len(b) = m /\ DOMAIN b = 1..m /\ \A j \in 1..m : b[j] = of(j)
      BY <3>1
    <3> DEFINE f == [i \in DOMAIN b |-> b[i].triangles * b[i].instances]
    <3>3. InstancedTriangles(b) = Sum(f, m)
      BY <3>2 DEF InstancedTriangles
    <3> HIDE DEF b, m, dcs
    <3>4. \A j \in 1..m : f[j] = Share(dcs)[j]
      <4>1. \A j \in 1..m : f[j] = b[j].triangles * b[j].instances
        BY <3>2
      <4>2. \A j \in 1..N : Share(dcs)[j] = dcs[j].triangles * dcs[j].instances
        BY <2>7 DEF Share
      <4> HIDE DEF f
      <4> SUFFICES ASSUME NEW j \in 1..m PROVE f[j] = Share(dcs)[j]
        OBVIOUS
      <4>3. dcs[j].triangles = of(j).triangles /\ dcs[j].instances = of(j).instances
        BY <2>6, <3>1
      <4>4. f[j] = of(j).triangles * of(j).instances
        BY <3>2, <4>1
      <4> QED BY <3>1, <4>2, <4>3, <4>4
    <3> HIDE DEF f
    <3>5. Sum(f, m) = Sum(Share(dcs), m)
      BY <3>1, <3>4, SumSame
    <3> QED BY <3>3, <3>5 DEF b, m
  <2>9. \A k \in 1..N : dcs[k].firstInstance = Sum(l, k - 1)
    <3> SUFFICES ASSUME NEW k \in 1..N PROVE dcs[k].firstInstance = Sum(l, k - 1)
      OBVIOUS
    <3> DEFINE f == [j \in 1..(k - 1) |-> of(j).instances]
    <3>1. k - 1 \in Nat /\ \A j \in 1..(k - 1) : j \in 1..N
      BY <2>2
    <3>2. \A j \in 1..(k - 1) : f[j] = l[j]
      BY <3>1
    <3>3. dcs[k].firstInstance = Sum(f, k - 1)
      BY <2>6
    <3> HIDE DEF f, l, dcs
    <3> QED BY <3>1, <3>2, <3>3, SumSame
  <2> HIDE DEF before
  <2>10. Numbered(dcs)
    <3>1. \A k \in 1..N : dcs[k].triangles \in Nat /\ dcs[k].instances \in Nat
                          /\ dcs[k].start = Sum(Share(dcs), k - 1)
      <4> HIDE DEF dcs
      <4> QED BY <2>5, <2>6, <2>8
    <3> HIDE DEF dcs
    <3> QED BY <2>2, <2>7, <3>1 DEF Numbered
\* Its matrices.
  <2>11. Len(blocks) = N /\ \A k \in 1..N : blocks[k] = block(k)
    BY <2>2
  <2>12. \A k \in 1..N : IsList(block(k)) /\ Len(block(k)) = l[k]
                         /\ \A x \in 1..l[k] : block(k)[x] =
                              [copy |-> (k - 1) \div n, of |-> <<p(k).owner, p(k).visits[x]>>]
    <3> SUFFICES ASSUME NEW k \in 1..N
                 PROVE  IsList(block(k)) /\ Len(block(k)) = l[k]
                        /\ \A x \in 1..l[k] : block(k)[x] =
                             [copy |-> (k - 1) \div n, of |-> <<p(k).owner, p(k).visits[x]>>]
      OBVIOUS
    <3> DEFINE m == of(k).instances
               f == of(k).firstInstance
               c == (k - 1) \div n
    <3>1. m \in Nat /\ l[k] = m /\ m = Len(p(k).visits)
      BY <2>5
    <3>2. block(k) = [x \in 1..m |-> [s.matrices[f + x] EXCEPT !.copy = c]]
      OBVIOUS
    <3>3. \A x \in 1..m : s.matrices[f + x] = [copy |-> 0, of |-> <<p(k).owner, p(k).visits[x]>>]
      BY <2>4, <3>1 DEF IsCall
    <3> HIDE DEF m, f, c, block, l
    <3>4. Len(block(k)) = m /\ IsList(block(k))
      BY <3>1, <3>2 DEF IsList
    <3>5. \A x \in 1..m : block(k)[x] = [copy |-> c, of |-> <<p(k).owner, p(k).visits[x]>>]
      <4> SUFFICES ASSUME NEW x \in 1..m
                   PROVE  block(k)[x] = [copy |-> c, of |-> <<p(k).owner, p(k).visits[x]>>]
        OBVIOUS
      <4> DEFINE y == <<p(k).owner, p(k).visits[x]>>
      <4>1. block(k)[x] = [s.matrices[f + x] EXCEPT !.copy = c] /\ s.matrices[f + x] = [copy |-> 0, of |-> y]
        BY <3>2, <3>3
      <4> HIDE DEF y
      <4>2. [[copy |-> 0, of |-> y] EXCEPT !.copy = c] = [copy |-> c, of |-> y]
        OBVIOUS
      <4> QED BY <4>1, <4>2 DEF y
    <3> QED BY <3>1, <3>4, <3>5 DEF c
  <2> HIDE DEF block, blocks, dcs, l
  <2> DEFINE M == FlattenSeq(blocks)
  <2>13. /\ IsList(M) /\ Len(M) = Sum(l, N)
         /\ \A k \in 1..N : \A x \in 1..l[k] : M[Sum(l, k - 1) + x] = blocks[k][x]
    <3>1. \A k \in 1..N : IsList(blocks[k]) /\ Len(blocks[k]) = l[k]
      BY <2>11, <2>12
    <3>2. IsFlat(FlattenSeq(blocks), blocks, l, N)
      BY <2>2, <2>11, <3>1, FlattenAt
    <3> QED BY <3>2 DEF IsFlat
  <2> HIDE DEF M
  <2>14. \A k \in 1..N : IsCall(dcs[k], p(k), M, (k - 1) \div n, packed)
    <3> SUFFICES ASSUME NEW k \in 1..N PROVE IsCall(dcs[k], p(k), M, (k - 1) \div n, packed)
      OBVIOUS
    <3>1. IsCall(of(k), p(k), s.matrices, 0, packed)
      BY <2>4
    <3>2. Sum(l, k - 1) \in Nat /\ Sum(l, k) <= Len(M) /\ Sum(l, k) = Sum(l, k - 1) + l[k]
      <4>1. \A j \in 1..N : l[j] \in Nat
        BY <2>5
      <4>2. k - 1 \in 0..N /\ k \in 0..N /\ k \in Nat \ {0}
        BY <2>2
      <4> QED BY <2>2, <2>13, <4>1, <4>2, SumGrows, SumLast
    <3>3. l[k] = Len(p(k).visits)
      BY <2>5
    <3>4. \A x \in 1..Len(p(k).visits) : M[dcs[k].firstInstance + x] =
            [copy |-> (k - 1) \div n, of |-> <<p(k).owner, p(k).visits[x]>>]
      BY <2>9, <2>11, <2>12, <2>13, <3>3
    <3>5. dcs[k].firstInstance \in Nat /\ dcs[k].firstInstance + Len(p(k).visits) <= Len(M)
      BY <2>9, <3>2, <3>3
    <3> QED BY <2>5, <2>6, <3>1, <3>4, <3>5 DEF IsCall
  <2>15. Scened(dcs, M, copies, n, parts, packed)
    <3>1. \A k \in 1..N : IsPart(p(k), packed) /\ IsCall(dcs[k], p(k), M, (k - 1) \div n, packed)
      BY <2>4, <2>14
    <3> QED BY <2>7, <2>10, <3>1 DEF Scened, p, N
  <2> QED BY <2>1, <2>3, <2>6, <2>15 DEF M, N, KeepsOffsets
<1> QED BY <1>1, <1>2

-----------------------------------------------------------------------------
(* The draw calls and matrices of a load, pass by pass.                    *)

SceneInv ==
  /\ pass \in {"cap", "scan", "adopt"} =>
       scene.dcs = <<>> /\ scene.matrices = <<>> /\ nextVertex = 0
  /\ pass \in {"reserve", "fill", "build", "register", "loaded"} =>
       Drafted(scene.dcs, scene.matrices, nextVertex, AllWanted, opt.packed)
  /\ pass \in {"split", "uploaded", "registered"} =>
       Scened(scene.dcs, scene.matrices, opt.copies, Parts, AllWanted, opt.packed)

LEMMA WantedKept ==
  ASSUME UNCHANGED <<opt, kept>>
  PROVE  AllWanted' = AllWanted /\ Parts' = Parts /\ \A i : Wanted(i)' = Wanted(i)
<1>1. Parts' = Parts /\ Generated' = Generated /\ \A i : Part(i)' = Part(i)
  BY PartsKept
<1>2. \A i : Wanted(i)' = Wanted(i)
  <2> SUFFICES ASSUME NEW i PROVE Wanted(i)' = Wanted(i)
    OBVIOUS
  <2>1. Visits(i)' = Visits(i) /\ RangeIn(i)' = RangeIn(i)
    BY <1>1 DEF Visits, RangeIn
  <2>2. Textured(i)' = Textured(i)
    BY <1>1 DEF Textured, Has
  <2> QED BY <1>1, <2>1, <2>2 DEF Wanted
<1> QED BY <1>1, <1>2 DEF AllWanted

LEMMA DraftedNothing ==
  ASSUME NEW parts, NEW packed
  PROVE  Drafted(<<>>, <<>>, 0, parts, packed)
<1>1. Len(<<>>) = 0 /\ <<>> = [k \in 1..0 |-> <<>>[k]]
  OBVIOUS
<1>2. \A k \in 1..0 : FALSE
  OBVIOUS
<1>3. Numbered(<<>>) /\ IsList(<<>>)
  BY <1>1, <1>2 DEF Numbered, IsList
<1> QED BY <1>1, <1>2, <1>3 DEF Drafted

\* The draw call the next part gets.
IsNew(dc, i, first) ==
  /\ DOMAIN dc = CallFields
  /\ dc.vertexOffset = nextVertex /\ dc.indexOffset = nextIndex
  /\ dc.triangles = Triangles(Part(i)) /\ dc.bits = Wanted(i).bits
  /\ opt.packed => dc.indexMin = Wanted(i).min
  /\ dc.start = InstancedTriangles(scene.dcs)
  /\ dc.instances = Len(Wanted(i).visits) /\ dc.firstInstance = first

LEMMA DraftNext ==
  ASSUME Shape, Drafted(scene.dcs, scene.matrices, nextVertex, AllWanted, opt.packed),
         nextIndex \in Nat, NEW i \in 1..Parts, i = Len(scene.dcs) + 1,
         NEW m, IsList(m), Len(scene.matrices) <= Len(m),
         \A k \in 1..Len(scene.matrices) : m[k] = scene.matrices[k],
         NEW first \in Nat, first + Len(Wanted(i).visits) <= Len(m),
         \A k \in 1..Len(Wanted(i).visits) :
           m[first + k] = [copy |-> 0, of |-> <<Wanted(i).owner, Wanted(i).visits[k]>>],
         NEW dc, IsNew(dc, i, first), NEW a, a = Append(scene.dcs, dc),
         NEW e, e = nextVertex + Part(i).verts
  PROVE  Drafted(a, m, e, AllWanted, opt.packed)
<1> DEFINE p == Wanted(i)
           A == AllWanted
<1>1. p.verts = Part(i).verts /\ p.triangles = Triangles(Part(i)) /\ A[i] = p
  BY DEF Wanted, AllWanted
<1>2. IsPart(p, opt.packed)
  BY WantedFacts
<1>3. nextVertex \in Nat
  BY DEF Drafted
<1> HIDE DEF p, A
<1>4. IsCall(dc, p, m, 0, opt.packed)
  BY <1>1, <1>3 DEF IsNew, IsCall, p
<1>5. dc.vertexOffset = nextVertex /\ dc.start = InstancedTriangles(scene.dcs)
  BY DEF IsNew
<1>6. Drafted(a, m, nextVertex + p.verts, A, opt.packed)
  <2>1. p = A[Len(scene.dcs) + 1]
    BY <1>1
  <2>2. Drafted(scene.dcs, scene.matrices, nextVertex, A, opt.packed)
    BY DEF A
  <2> QED BY <1>2, <1>4, <1>5, <2>1, <2>2, DraftedAppend
<1> QED BY <1>1, <1>6 DEF A

\* With instances of its own, at the end.
LEMMA DraftOwn ==
  ASSUME Shape, Drafted(scene.dcs, scene.matrices, nextVertex, AllWanted, opt.packed),
         nextIndex \in Nat, NEW i \in 1..Parts, i = Len(scene.dcs) + 1,
         NEW s, s = [k \in 1..Len(Wanted(i).visits) |->
                      [copy |-> 0, of |-> <<Wanted(i).owner, Wanted(i).visits[k]>>]],
         NEW m, m = scene.matrices \o s,
         NEW dc, IsNew(dc, i, Len(scene.matrices)), NEW a, a = Append(scene.dcs, dc),
         NEW e, e = nextVertex + Part(i).verts
  PROVE  Drafted(a, m, e, AllWanted, opt.packed)
<1> DEFINE n == Len(Wanted(i).visits)
           M == Len(scene.matrices)
<1>1. IsList(scene.matrices) /\ M \in Nat
  BY DEF Drafted, IsList
<1>2. n \in Nat
  BY WantedFacts DEF IsPart
<1>3. Len(s) = n /\ IsList(s)
  BY <1>2 DEF IsList
<1>4. IsConcat(m, scene.matrices, s)
  BY <1>1, <1>3, ConcatIs
<1>5. /\ IsList(m) /\ Len(m) = M + n /\ \A k \in 1..M : m[k] = scene.matrices[k]
      /\ \A k \in 1..n : m[M + k] = s[k]
  BY <1>3, <1>4 DEF IsConcat
<1>6. \A k \in 1..n : m[M + k] = [copy |-> 0, of |-> <<Wanted(i).owner, Wanted(i).visits[k]>>]
  BY <1>5
<1> HIDE DEF n, M
<1>7. M <= Len(m) /\ M + n <= Len(m)
  BY <1>1, <1>2, <1>5
<1> QED BY <1>1, <1>5, <1>6, <1>7, DraftNext DEF n, M

\* With those of a sibling.
LEMMA DraftShared ==
  ASSUME Shape, Drafted(scene.dcs, scene.matrices, nextVertex, AllWanted, opt.packed),
         nextIndex \in Nat, NEW i \in 1..Parts, i = Len(scene.dcs) + 1,
         NEW j \in 1..Len(scene.dcs), Wanted(j).owner = Wanted(i).owner,
         Wanted(j).visits = Wanted(i).visits,
         NEW dc, IsNew(dc, i, scene.dcs[j].firstInstance), NEW a, a = Append(scene.dcs, dc),
         NEW e, e = nextVertex + Part(i).verts
  PROVE  Drafted(a, scene.matrices, e, AllWanted, opt.packed)
<1> DEFINE f == scene.dcs[j].firstInstance
           m == scene.matrices
<1>1. j \in 1..Parts /\ AllWanted[j] = Wanted(j)
  <2>1. Len(scene.dcs) \in Nat /\ Parts \in Nat
    BY PartsType DEF Drafted, Numbered
  <2>2. j \in 1..Parts
    BY <2>1
  <2> QED BY <2>2 DEF AllWanted
<1>2. IsCall(scene.dcs[j], Wanted(j), m, 0, opt.packed)
  BY <1>1 DEF Drafted
<1>3. f \in Nat /\ f + Len(Wanted(i).visits) <= Len(m)
      /\ \A k \in 1..Len(Wanted(i).visits) :
           m[f + k] = [copy |-> 0, of |-> <<Wanted(i).owner, Wanted(i).visits[k]>>]
  BY <1>2 DEF IsCall
<1>4. IsList(m) /\ Len(m) <= Len(m)
  BY DEF Drafted, IsList
<1> QED BY <1>3, <1>4, DraftNext

\* A draw call as NewDrawCall makes it.
LEMMA NewIs ==
  ASSUME NEW i, NEW bits, bits = Wanted(i).bits, NEW min, opt.packed => min = Wanted(i).min,
         NEW instances, instances = Len(Wanted(i).visits), NEW first
  PROVE  /\ IsNew(NewDrawCall(i, bits, min, instances, first), i, first)
         /\ \A c : IsNew([NewDrawCall(i, bits, min, instances, first) EXCEPT !.chunk = c], i, first)
<1> DEFINE dc == NewDrawCall(i, bits, min, instances, first)
<1>1. /\ DOMAIN dc = CallFields
      /\ dc.vertexOffset = nextVertex /\ dc.indexOffset = nextIndex /\ dc.bits = bits
      /\ dc.indexMin = min /\ dc.triangles = Triangles(Part(i))
      /\ dc.start = InstancedTriangles(scene.dcs) /\ dc.instances = instances
      /\ dc.firstInstance = first
  BY DEF NewDrawCall, CallFields
<1> HIDE DEF dc
<1>2. IsNew(dc, i, first)
  BY <1>1 DEF IsNew
<1>3. ASSUME NEW c PROVE IsNew([dc EXCEPT !.chunk = c], i, first)
  <2> DEFINE x == [dc EXCEPT !.chunk = c]
  <2>1. /\ DOMAIN x = DOMAIN dc /\ x.vertexOffset = dc.vertexOffset
        /\ x.indexOffset = dc.indexOffset /\ x.bits = dc.bits /\ x.indexMin = dc.indexMin
        /\ x.triangles = dc.triangles /\ x.start = dc.start /\ x.instances = dc.instances
        /\ x.firstInstance = dc.firstInstance
    BY <1>1 DEF CallFields
  <2> HIDE DEF x
  <2> QED BY <1>1, <2>1 DEF IsNew, x
<1> QED BY <1>2, <1>3 DEF dc

\* What leaves the scene alone.
LEMMA SceneKept ==
  ASSUME SceneInv, UNCHANGED <<opt, kept, scene, nextVertex>>,
         \/ pass' = pass
         \/ pass \in {"cap", "scan"} /\ pass' \in {"scan", "adopt"}
         \/ pass \in {"reserve", "fill"} /\ pass' \in {"fill", "loaded"}
         \/ pass = "split" /\ pass' = "uploaded"
         \/ pass' = "failed"
  PROVE  SceneInv'
<1>1. AllWanted' = AllWanted /\ Parts' = Parts
  BY WantedKept
<1> QED BY <1>1 DEF SceneInv

LEMMA SceneOpens ==
  ASSUME SceneInv, UNCHANGED <<opt, kept, scene, nextVertex>>,
         pass \in {"cap", "scan", "adopt"}, pass' \in {"reserve", "register"}
  PROVE  SceneInv'
<1>1. scene.dcs = <<>> /\ scene.matrices = <<>> /\ nextVertex = 0
  BY DEF SceneInv
<1> DEFINE A == AllWanted'
           P == opt'.packed
<1>2. Drafted(<<>>, <<>>, 0, A, P)
  BY DraftedNothing
<1> QED BY <1>1, <1>2 DEF SceneInv

LEMMA InitScene == ASSUME Init PROVE SceneInv
<1>1. /\ scene.dcs = <<>> /\ scene.matrices = <<>> /\ nextVertex = 0
      /\ pass \in {"cap", "register", "build"}
  BY DEF Init
<1>2. Drafted(scene.dcs, scene.matrices, nextVertex, AllWanted, opt.packed)
  BY <1>1, DraftedNothing
<1> QED BY <1>1, <1>2 DEF SceneInv

LEMMA ReserveScene == ASSUME ViewsInv, DrawsInv, SceneInv, Reserve PROVE SceneInv'
<1> DEFINE p == Part(next)
           bits == IF opt.packed THEN BitsFor(IndexRange(p)[2] - IndexRange(p)[1] + 1) ELSE 0
           min == IF opt.packed THEN IndexRange(p)[1] ELSE 0
           siblings == {j \in DOMAIN scene.dcs : Part(j).mesh = p.mesh}
           v == Transforms(p.mesh)
           old == DC(CHOOSE j \in siblings : TRUE).firstInstance
           first == IF siblings = {} THEN Len(scene.matrices) ELSE old
           dc == NewDrawCall(next, bits, min, Len(v), first)
           s == [k \in DOMAIN v |-> [copy |-> 0, of |-> <<p.mesh, v[k]>>]]
           m == IF siblings = {} THEN scene.matrices \o s ELSE scene.matrices
           a == Append(scene.dcs, dc)
           e == nextVertex + p.verts
<1>0. Shape /\ PassInv
  BY DEF ViewsInv
<1>1. /\ pass = "reserve" /\ pass' = pass /\ next <= Len(kept)
      /\ scene'.dcs = a /\ scene'.matrices = m /\ nextVertex' = e
      /\ UNCHANGED <<opt, kept>>
  BY DEF Reserve
<1>2. ~Generated /\ Parts = Len(kept) /\ next \in 1..Parts
  BY <1>0, <1>1, PartsType DEF PassInv, Shape
<1>3. Laid(scene.dcs, nextIndex, opt.packed) /\ Len(scene.dcs) = next - 1 /\ nextIndex \in Nat
      /\ Drafted(scene.dcs, scene.matrices, nextVertex, AllWanted, opt.packed)
  BY <1>1 DEF DrawsInv, Laid, SceneInv
<1>4. next = Len(scene.dcs) + 1
  BY <1>2, <1>3
<1>5. \A i : Wanted(i).visits = Transforms(Part(i).mesh) /\ Wanted(i).owner = Part(i).mesh
  BY <1>2 DEF Wanted, Visits
<1>6. bits = Wanted(next).bits /\ (opt.packed => min = Wanted(next).min)
  BY <1>2 DEF Wanted, RangeIn
<1>7. v = Wanted(next).visits /\ p.mesh = Wanted(next).owner
  BY <1>5
<1>8. Len(v) \in Nat /\ DOMAIN v = 1..Len(v)
  BY <1>0, <1>2, <1>7, WantedFacts DEF IsPart
<1> HIDE DEF bits, min
<1>9. IsNew(dc, next, first)
  <2> HIDE DEF first, v
  <2> QED BY <1>6, <1>7, NewIs
<1>10. Drafted(a, m, e, AllWanted, opt.packed)
  <2>1. CASE siblings = {}
    <3>1. s = [k \in 1..Len(Wanted(next).visits) |->
                [copy |-> 0, of |-> <<Wanted(next).owner, Wanted(next).visits[k]>>]]
      BY <1>7, <1>8
    <3>2. m = scene.matrices \o s /\ first = Len(scene.matrices)
      BY <2>1
    <3>3. IsNew(dc, next, Len(scene.matrices)) /\ a = Append(scene.dcs, dc)
          /\ e = nextVertex + Part(next).verts
      BY <1>9, <3>2
    <3> HIDE DEF s, m, first, dc, a, e
    <3> QED BY <1>0, <1>2, <1>3, <1>4, <3>1, <3>2, <3>3, DraftOwn
  <2>2. CASE siblings # {}
    <3> DEFINE j == CHOOSE j \in siblings : TRUE
    <3>1. j \in siblings
      BY <2>2
    <3>2. j \in DOMAIN scene.dcs /\ Part(j).mesh = p.mesh
      BY <3>1
    <3>3. first = scene.dcs[j].firstInstance
      BY <2>2 DEF DC
    <3>4. m = scene.matrices
      BY <2>2
    <3> HIDE DEF j
    <3>5. Wanted(j).owner = Wanted(next).owner /\ Wanted(j).visits = Wanted(next).visits
      BY <1>5, <3>2
    <3>6. IsNew(dc, next, scene.dcs[j].firstInstance) /\ a = Append(scene.dcs, dc)
          /\ e = nextVertex + Part(next).verts
      BY <1>9, <3>3
    <3>7. DOMAIN scene.dcs = 1..Len(scene.dcs)
      BY <1>3 DEF Laid
    <3>8. j \in 1..Len(scene.dcs)
      BY <3>2, <3>7
    <3> HIDE DEF m, first, dc, a, e
    <3>9. Drafted(a, scene.matrices, e, AllWanted, opt.packed)
      BY <1>0, <1>2, <1>3, <1>4, <3>5, <3>6, <3>8, DraftShared
    <3> QED BY <3>4, <3>9
  <2> QED BY <2>1, <2>2
<1>11. AllWanted' = AllWanted
  BY <1>1, WantedKept
<1> HIDE DEF a, m, e
<1>12. Drafted(scene'.dcs, scene'.matrices, nextVertex', AllWanted', opt'.packed)
  BY <1>1, <1>10, <1>11
<1> QED BY <1>1, <1>12 DEF SceneInv

LEMMA RegisterScene == ASSUME ViewsInv, DrawsInv, SceneInv, Register PROVE SceneInv'
<1> DEFINE p == Part(next)
           range == IF Generated THEN <<0, p.verts - 1>> ELSE IndexRange(p)
           bits == IF opt.packed THEN BitsFor(range[2] - range[1] + 1) ELSE 0
           v == IF Generated THEN [k \in 1..p.instances |-> k] ELSE Transforms(p.mesh)
           nd == NewDrawCall(next, bits, range[1], Len(v), Len(scene.matrices))
           dc == [nd EXCEPT !.chunk = next]
           s == [k \in DOMAIN v |->
                  [copy |-> 0, of |-> <<IF Generated THEN next ELSE p.mesh, v[k]>>]]
           m == scene.matrices \o s
           a == Append(scene.dcs, dc)
           e == nextVertex + p.verts
<1>0. Shape
  BY DEF ViewsInv
<1>1. /\ pass = "register" /\ pass' = pass /\ next <= Parts
      /\ scene'.dcs = a /\ scene'.matrices = m /\ nextVertex' = e
      /\ UNCHANGED <<opt, kept>>
  BY DEF Register
<1>2. next \in 1..Parts
  BY <1>0, <1>1, PartsType DEF Shape
<1>3. nextIndex = 0 /\ Len(scene.dcs) = next - 1
      /\ Drafted(scene.dcs, scene.matrices, nextVertex, AllWanted, opt.packed)
  BY <1>1 DEF DrawsInv, SceneInv
<1>4. next = Len(scene.dcs) + 1 /\ nextIndex \in Nat
  BY <1>2, <1>3
<1>5. v = Wanted(next).visits /\ (IF Generated THEN next ELSE p.mesh) = Wanted(next).owner
  BY DEF Wanted, Visits
<1>6. range = RangeIn(next) /\ bits = Wanted(next).bits /\ range[1] = Wanted(next).min
  BY DEF Wanted, RangeIn
<1> HIDE DEF bits, range, v
<1>7. Len(v) \in Nat /\ DOMAIN v = 1..Len(v)
  BY <1>0, <1>2, <1>5, WantedFacts DEF IsPart
<1>8. IsNew(dc, next, Len(scene.matrices))
  BY <1>5, <1>6, NewIs
<1>9. Drafted(a, m, e, AllWanted, opt.packed)
  <2>1. s = [k \in 1..Len(Wanted(next).visits) |->
              [copy |-> 0, of |-> <<Wanted(next).owner, Wanted(next).visits[k]>>]]
    BY <1>5, <1>7
  <2>2. m = scene.matrices \o s /\ a = Append(scene.dcs, dc) /\ e = nextVertex + Part(next).verts
    OBVIOUS
  <2> HIDE DEF s, m, dc, a, e
  <2> QED BY <1>0, <1>2, <1>3, <1>4, <1>8, <2>1, <2>2, DraftOwn
<1>10. AllWanted' = AllWanted
  BY <1>1, WantedKept
<1> HIDE DEF a, m, e
<1>11. Drafted(scene'.dcs, scene'.matrices, nextVertex', AllWanted', opt'.packed)
  BY <1>1, <1>9, <1>10
<1> QED BY <1>1, <1>11 DEF SceneInv

LEMMA AddMeshScene == ASSUME ViewsInv, DrawsInv, SceneInv, AddMesh PROVE SceneInv'
<1> DEFINE p == Part(next)
           bits == IF opt.packed THEN BitsFor(p.verts) ELSE 0
           dc == NewDrawCall(next, bits, 0, p.instances, Len(scene.matrices))
           s == [k \in 1..p.instances |-> [copy |-> 0, of |-> <<next, k>>]]
           m == scene.matrices \o s
           a == Append(scene.dcs, dc)
           e == nextVertex + p.verts
<1>0. Shape
  BY DEF ViewsInv
<1>1. /\ pass = "build" /\ pass' \in {"build", "loaded"} /\ next <= Len(opt.generated)
      /\ scene'.dcs = a /\ scene'.matrices = m /\ nextVertex' = e
      /\ UNCHANGED <<opt, kept>>
  BY DEF AddMesh
<1>2. Generated /\ Parts = Len(opt.generated) /\ next \in 1..Parts
  <2>1. Generated
    BY <1>1 DEF DrawsInv
  <2> QED BY <1>0, <1>1, <2>1, PartsType DEF Parts, Shape
<1>3. Laid(scene.dcs, nextIndex, opt.packed) /\ Len(scene.dcs) = next - 1 /\ nextIndex \in Nat
      /\ Drafted(scene.dcs, scene.matrices, nextVertex, AllWanted, opt.packed)
  BY <1>1 DEF DrawsInv, Laid, SceneInv
<1>4. next = Len(scene.dcs) + 1
  BY <1>2, <1>3
<1>5. Wanted(next).visits = [k \in 1..p.instances |-> k] /\ Wanted(next).owner = next
      /\ Wanted(next).min = 0
  BY <1>2 DEF Wanted, Visits, RangeIn
<1>6. bits = Wanted(next).bits
  <2> DEFINE x == p.verts
  <2>1. Wanted(next).bits = IF opt.packed THEN BitsFor((x - 1) - 0 + 1) ELSE 0
    BY <1>2 DEF Wanted, RangeIn
  <2>2. x \in 0..(Pow2[WordBits])
    BY <1>0, <1>2, PartFacts
  <2> HIDE DEF x
  <2>3. Pow2[WordBits] \in Nat
    BY PowersOfTwo, LayoutAssumption
  <2>4. (x - 1) - 0 + 1 = x
    BY <2>2, <2>3
  <2> QED BY <2>1, <2>4 DEF x
<1>7. p.instances \in Nat /\ Len(Wanted(next).visits) = p.instances
  <2>1. p.instances \in Nat
    <3> DEFINE G == [verts : 0..(Pow2[WordBits]), index : Seq(Nat), instances : Nat]
    <3>1. opt.generated \in Seq(G)
      BY <1>0, OptionsAssumption DEF Shape
    <3>2. p = opt.generated[next] /\ next \in 1..Len(opt.generated)
      BY <1>2 DEF Part
    <3>3. p \in G
      <4> HIDE DEF G, p
      <4> QED BY <3>1, <3>2, LenProperties
    <3> HIDE DEF p
    <3> QED BY <3>3
  <2> QED BY <1>5, <2>1
<1> HIDE DEF bits
<1>8. IsNew(dc, next, Len(scene.matrices))
  BY <1>5, <1>6, <1>7, NewIs
<1>9. Drafted(a, m, e, AllWanted, opt.packed)
  <2>1. s = [k \in 1..Len(Wanted(next).visits) |->
              [copy |-> 0, of |-> <<Wanted(next).owner, Wanted(next).visits[k]>>]]
    <3>1. \A k \in 1..p.instances : Wanted(next).visits[k] = k
      BY <1>5
    <3> QED BY <1>5, <1>7, <3>1
  <2>2. m = scene.matrices \o s /\ a = Append(scene.dcs, dc) /\ e = nextVertex + Part(next).verts
    OBVIOUS
  <2> HIDE DEF s, m, dc, a, e
  <2> QED BY <1>0, <1>2, <1>3, <1>4, <1>8, <2>1, <2>2, DraftOwn
<1>10. AllWanted' = AllWanted
  BY <1>1, WantedKept
<1> HIDE DEF a, m, e
<1>11. Drafted(scene'.dcs, scene'.matrices, nextVertex', AllWanted', opt'.packed)
  BY <1>1, <1>9, <1>10
<1> QED BY <1>1, <1>11 DEF SceneInv

LEMMA RepeatScene == ASSUME ViewsInv, DrawsInv, SceneInv, Repeat PROVE SceneInv'
<1> DEFINE w == Replicate(scene, opt.copies)
           c == opt.copies
           n == Parts
<1>0. Shape /\ c \in Nat \ {0}
  BY OptionsAssumption DEF ViewsInv, Shape
<1>1. pass = "loaded" /\ pass' = "split" /\ scene' = w /\ UNCHANGED <<opt, kept>>
  BY DEF Repeat
<1>2. Drafted(scene.dcs, scene.matrices, nextVertex, AllWanted, opt.packed)
      /\ Len(scene.dcs) = n /\ n \in Nat \ {0}
  BY <1>0, <1>1, PartsType DEF DrawsInv, SceneInv
<1> HIDE DEF n, c
<1>3. w = Replicate(scene, c)
  BY DEF c
<1> HIDE DEF w
<1>4. Scened(w.dcs, w.matrices, c, n, AllWanted, opt.packed)
  BY <1>0, <1>2, <1>3, ReplicatedScene
<1>5. AllWanted' = AllWanted /\ Parts' = n /\ opt'.copies = c
  BY <1>1, WantedKept DEF n, c
<1> QED BY <1>1, <1>4, <1>5 DEF SceneInv

LEMMA FinalizeScene == ASSUME ViewsInv, DrawsInv, SceneInv, Finalize PROVE SceneInv'
<1>0. Shape
  BY DEF ViewsInv
<1>1. pass = "register" /\ pass' = "registered" /\ next > Parts /\ UNCHANGED <<opt, kept, scene>>
  BY DEF Finalize, planVars
<1>2. Drafted(scene.dcs, scene.matrices, nextVertex, AllWanted, opt.packed)
      /\ Len(scene.dcs) = next - 1 /\ next <= Parts + 1 /\ opt.registry
  BY <1>1 DEF DrawsInv, SceneInv
<1>3. Len(scene.dcs) = Parts
  BY <1>0, <1>1, <1>2, PartsType DEF Shape
<1>4. opt.copies = 1
  <2>1. opt.copies \in Nat \ {0} /\ (opt.copies > 1 => ~opt.registry)
    BY <1>0, OptionsAssumption DEF Shape
  <2> DEFINE c == opt.copies
  <2> HIDE DEF c
  <2>2. c \in Nat \ {0} /\ ~(c > 1)
    BY <1>2, <2>1 DEF c
  <2>3. c = 1
    BY <2>2
  <2> QED BY <2>3 DEF c
<1>5. Scened(scene.dcs, scene.matrices, 1, Parts, AllWanted, opt.packed)
  BY <1>2, <1>3, OneCopy
<1>6. AllWanted' = AllWanted /\ Parts' = Parts
  BY <1>1, WantedKept
<1> QED BY <1>1, <1>4, <1>5, <1>6 DEF SceneInv

LEMMA NextScene == ASSUME ViewsInv, DrawsInv, SceneInv, [Next]_vars PROVE SceneInv'
<1>1. CASE Cap
  <2>1. pass = "cap" /\ pass' = "cap" /\ UNCHANGED <<scene, nextVertex>>
    BY <1>1 DEF Cap
  <2> QED BY <2>1 DEF SceneInv
<1>2. CASE CountUses
  <2>1. pass = "cap" /\ pass' \in {"scan", "reserve"} /\ UNCHANGED <<opt, kept, scene, nextVertex>>
    BY <1>2 DEF CountUses, planVars
  <2> QED BY <2>1, SceneKept, SceneOpens
<1>3. CASE Allocate
  <2>1. /\ pass = "reserve" /\ pass' \in {"failed", "fill"}
        /\ UNCHANGED <<opt, kept, scene, nextVertex>>
    BY <1>3 DEF Allocate, planVars
  <2> QED BY <2>1, SceneKept
<1>4. CASE EndPass
  <2>1. /\ \/ pass = "scan" /\ pass' \in {"adopt", "reserve"}
           \/ pass = "fill" /\ pass' \in {"failed", "loaded"}
        /\ UNCHANGED <<opt, kept, scene, nextVertex>>
    BY <1>4 DEF EndPass, planVars
  <2> QED BY <2>1, SceneKept, SceneOpens
<1>5. CASE Adopt
  <2>1. pass = "adopt" /\ pass' = "register" /\ UNCHANGED <<opt, kept, scene, nextVertex>>
    BY <1>5 DEF Adopt, planVars
  <2> QED BY <2>1, SceneOpens
<1>6. CASE Split
  <2>1. pass' = pass /\ UNCHANGED <<opt, kept, scene, nextVertex>>
    BY <1>6 DEF Split, planVars
  <2> QED BY <2>1, SceneKept
<1>7. CASE Upload
  <2>1. /\ pass = "split" /\ pass' \in {"uploaded", "failed"}
        /\ UNCHANGED <<opt, kept, scene, nextVertex>>
    BY <1>7 DEF Upload, planVars
  <2> QED BY <2>1, SceneKept
<1>8. ASSUME NEW t \in Thread, Work(t) PROVE SceneInv'
  <2>1. pass' = pass /\ UNCHANGED <<opt, kept, scene, nextVertex>>
    BY <1>8 DEF Work, Take, planVars
  <2> QED BY <2>1, SceneKept
<1>9. CASE UNCHANGED vars
  <2>1. pass' = pass /\ UNCHANGED <<opt, kept, scene, nextVertex>>
    BY <1>9 DEF vars, planVars
  <2> QED BY <2>1, SceneKept
<1> QED BY <1>1, <1>2, <1>3, <1>4, <1>5, <1>6, <1>7, <1>8, <1>9,
           ReserveScene, RegisterScene, AddMeshScene, RepeatScene, FinalizeScene DEF Next, Main

-----------------------------------------------------------------------------
(* Vertices and bits, where they were written.                             *)

\* The vertices of a part, from a cell on.
Cells(cells, i, n, from) ==
  \A v \in 0..(n - 1) : from + v \in DOMAIN cells /\ cells[from + v] = <<i, v>>

LEMMA CopiedCells ==
  ASSUME NEW cells, NEW i, NEW from \in Nat, Part(i).verts \in Nat,
         NEW a, a = Copied(cells, i, from)
  PROVE  /\ Cells(a, i, Part(i).verts, from)
         /\ \A j : \A n, f \in Nat :
              Cells(cells, j, n, f) /\ (f + n <= from \/ from + Part(i).verts <= f) => Cells(a, j, n, f)
<1> DEFINE m == Part(i).verts
           R == from..(from + m - 1)
<1>1. /\ DOMAIN a = DOMAIN cells \cup R
      /\ \A c \in DOMAIN cells \cup R : a[c] = IF c \in R THEN <<i, c - from>> ELSE cells[c]
  BY DEF Copied
<1>2. m \in Nat
  OBVIOUS
<1> HIDE DEF m
<1>3. Cells(a, i, m, from)
  <2> SUFFICES ASSUME NEW v \in 0..(m - 1) PROVE from + v \in DOMAIN a /\ a[from + v] = <<i, v>>
    BY DEF Cells
  <2> DEFINE c == from + v
  <2>1. c \in R /\ c - from = v
    BY <1>2
  <2> HIDE DEF c, R
  <2> QED BY <1>1, <2>1 DEF c
<1>4. ASSUME NEW j, NEW n \in Nat, NEW f \in Nat, Cells(cells, j, n, f), f + n <= from \/ from + m <= f
      PROVE  Cells(a, j, n, f)
  <2> SUFFICES ASSUME NEW v \in 0..(n - 1) PROVE f + v \in DOMAIN a /\ a[f + v] = <<j, v>>
    BY DEF Cells
  <2> DEFINE c == f + v
  <2>1. c \in DOMAIN cells /\ cells[c] = <<j, v>>
    BY <1>4 DEF Cells
  <2>2. c \notin R
    BY <1>2, <1>4
  <2> HIDE DEF c, R
  <2>3. a[c] = cells[c]
    BY <1>1, <2>1, <2>2
  <2> QED BY <1>1, <2>1, <2>3 DEF c
<1> QED BY <1>3, <1>4 DEF m

\* What is written of indices is bits of their fields.
LEMMA WrittenInFields ==
  ASSUME NEW packed \in BOOLEAN, NEW index, NEW L \in Nat, DOMAIN index = 1..L,
         NEW offset \in Nat, NEW bits \in Nat, NEW min,
         NEW x \in BitsWritten(packed, index, offset, bits, min)
  PROVE  \E k \in 0..(L - 1), b \in 0..(IndexWidth(packed, bits) - 1) :
           x = IndexStart(packed, offset, bits, k) + b
<1>1. CASE packed
  <2> DEFINE B(j) == BitsOf((index[j] - min) % Pow2[bits], bits)
  <2>1. x \in UNION {{offset + (j - 1) * bits + c : c \in B(j)} : j \in 1..L}
    BY <1>1 DEF BitsWritten, PackedBits
  <2>2. \A j \in 1..L : B(j) \subseteq 0..(bits - 1)
    BY DEF BitsOf
  <2> HIDE DEF B
  <2>3. PICK j \in 1..L : x \in {offset + (j - 1) * bits + c : c \in B(j)}
    BY <2>1
  <2>4. PICK c \in B(j) : x = offset + (j - 1) * bits + c
    BY <2>3
  <2>5. j - 1 \in 0..(L - 1) /\ c \in 0..(bits - 1)
    BY <2>2
  <2> QED BY <1>1, <2>4, <2>5 DEF IndexStart, IndexWidth
<1>2. CASE ~packed
  <2> DEFINE B(j) == BitsOf(index[j], WordBits)
  <2>1. x \in UNION {{(offset + j - 1) * WordBits + c : c \in B(j)} : j \in 1..L}
    BY <1>2 DEF BitsWritten, RawBits
  <2>2. \A j \in 1..L : B(j) \subseteq 0..(WordBits - 1)
    BY DEF BitsOf
  <2> HIDE DEF B
  <2>3. PICK j \in 1..L : x \in {(offset + j - 1) * WordBits + c : c \in B(j)}
    BY <2>1
  <2>4. PICK c \in B(j) : x = (offset + j - 1) * WordBits + c
    BY <2>3
  <2>5. j - 1 \in 0..(L - 1) /\ c \in 0..(WordBits - 1) /\ offset + j - 1 = offset + (j - 1)
    BY <2>2
  <2> QED BY <1>2, <2>4, <2>5 DEF IndexStart, IndexWidth
<1> QED BY <1>1, <1>2

\* The fields of so many indices lie between two bounds.
LEMMA FieldBounds ==
  ASSUME NEW packed \in BOOLEAN, NEW L \in Nat, NEW offset \in Nat, NEW bits \in Nat,
         NEW k \in 0..(L - 1), NEW b \in 0..(IndexWidth(packed, bits) - 1)
  PROVE  LET u == IF packed THEN 1 ELSE WordBits
             w == IF packed THEN bits ELSE 1 IN
         IndexStart(packed, offset, bits, k) + b \in (offset * u)..((offset + L * w) * u - 1)
<1>0. WordBits \in Nat \ {0}
  BY LayoutAssumption
<1>1. CASE packed
  <2>1. b \in 0..(bits - 1) /\ bits \in Nat \ {0}
    BY <1>1 DEF IndexWidth
  <2>2. k * bits \in Nat /\ k * bits + bits <= L * bits /\ L * bits \in Nat
    <3>1. (L - 1 - k) * bits \in Nat
      BY <2>1
    <3>2. (L - 1 - k) * bits = L * bits - bits - k * bits /\ L * bits \in Nat /\ k * bits \in Nat
      BY <2>1
    <3> QED BY <2>1, <3>1, <3>2
  <2>3. IndexStart(packed, offset, bits, k) = offset + k * bits
    BY <1>1 DEF IndexStart
  <2>4. offset * 1 = offset /\ (offset + L * bits) * 1 = offset + L * bits
    BY <2>2
  <2>5. offset + k * bits + b \in offset..(offset + L * bits - 1)
    BY <2>1, <2>2
  <2>6. IndexStart(packed, offset, bits, k) + b \in (offset * 1)..((offset + L * bits) * 1 - 1)
    BY <2>3, <2>4, <2>5
  <2> QED BY <1>1, <2>6
<1>2. CASE ~packed
  <2> DEFINE W == WordBits
  <2>1. b \in 0..(W - 1)
    BY <1>2 DEF IndexWidth
  <2>2. IndexStart(packed, offset, bits, k) = (offset + k) * W
    BY <1>2 DEF IndexStart
  <2> HIDE DEF W
  <2>3. W \in Nat \ {0}
    BY <1>0 DEF W
  <2>4. (offset + k) * W \in Nat /\ (offset + k) * W + W <= (offset + L) * W
        /\ offset * W <= (offset + k) * W /\ offset * W \in Nat /\ (offset + L) * W \in Nat
    <3>1. (L - 1 - k) * W \in Nat /\ k * W \in Nat
      BY <2>3
    <3>2. (L - 1 - k) * W = (offset + L) * W - W - (offset + k) * W
          /\ (offset + k) * W = offset * W + k * W
      BY <2>3
    <3>3. (offset + L) * W \in Nat /\ (offset + k) * W \in Nat /\ offset * W \in Nat
      BY <2>3
    <3> QED BY <2>3, <3>1, <3>2, <3>3
  <2>5. (offset + k) * W + b \in (offset * W)..((offset + L) * W - 1)
    BY <2>1, <2>3, <2>4
  <2>6. L * 1 = L
    OBVIOUS
  <2> QED BY <1>2, <2>2, <2>5, <2>6 DEF W
<1> QED BY <1>1, <1>2

\* A part's indices are where its draw call says.
InPlace(bits, dc, p, packed) ==
  \A k \in 0..(3 * dc.triangles - 1) : \A b \in 0..(IndexWidth(packed, dc.bits) - 1) :
    IndexStart(packed, dc.indexOffset, dc.bits, k) + b \in bits
      <=> IndexStart(packed, dc.indexOffset, dc.bits, k) + b
            \in BitsWritten(packed, p.index, dc.indexOffset, dc.bits, p.min)

\* The bits of a primitive lie in its slice.
LEMMA SliceHolds ==
  ASSUME Shape, NEW i \in 1..Parts, DC(i).indexOffset \in Nat, DC(i).bits \in Nat,
         opt.packed \in BOOLEAN
  PROVE  /\ IndexBits(i) \subseteq Slice(i)
         /\ IndexBits(i) = BitsWritten(opt.packed, Part(i).index, DC(i).indexOffset, DC(i).bits, DC(i).indexMin)
         /\ \A k \in 0..(Len(Part(i).index) - 1) : \A b \in 0..(IndexWidth(opt.packed, DC(i).bits) - 1) :
              IndexStart(opt.packed, DC(i).indexOffset, DC(i).bits, k) + b \in Slice(i)
<1> DEFINE index == Part(i).index
           L == Len(index)
           o == DC(i).indexOffset
           n == DC(i).bits
           p == opt.packed
           u == IF p THEN 1 ELSE WordBits
           w == IF p THEN n ELSE 1
           U == Unit(p)
           x == o \div U
           y == CeilDiv(o + L * w, U)
<1>1. WordBits \in Nat \ {0} /\ U \in Nat \ {0}
  BY LayoutAssumption DEF Unit
<1>2. L \in Nat /\ DOMAIN index = 1..L
  <2>1. IsPart(Wanted(i), p) /\ Wanted(i).index = index
    BY WantedFacts DEF Wanted
  <2> QED BY <2>1 DEF IsPart
<1>3. Slice(i) = (x * WordBits)..(y * WordBits - 1)
  BY DEF Slice, WordsOf
<1>4. w \in Nat /\ u \in Nat /\ o \in Nat /\ n \in Nat
  BY <1>1
<1>5. u * U = WordBits
  BY <1>1 DEF Unit
<1> HIDE DEF index, L, o, n, U
<1>6. L * w \in Nat
  BY <1>2, <1>4
<1>7. x \in Nat /\ y \in Nat /\ x * U <= o /\ o + L * w <= y * U
  <2>1. x \in Nat /\ x * U <= o
    BY <1>1, <1>4, WordOf
  <2>2. o + L * w \in Nat
    BY <1>4, <1>6
  <2> QED BY <1>1, <2>1, <2>2, CeilDivBounds
<1> DEFINE e == o + L * w
<1>8. e \in Nat
  BY <1>4, <1>6
<1>9. x * WordBits <= o * u /\ e * u <= y * WordBits /\ x * WordBits \in Nat /\ y * WordBits \in Nat
  <2> HIDE DEF x, y, e, u, w
  <2>1. x * U \in Nat /\ y * U \in Nat /\ e <= y * U
    BY <1>1, <1>7 DEF e
  <2>2. (o - x * U) * u \in Nat /\ (y * U - e) * u \in Nat
    BY <1>4, <1>7, <1>8, <2>1
  <2>3. (x * U) * u = x * WordBits /\ (y * U) * u = y * WordBits
    <3>1. (x * U) * u = x * (u * U) /\ (y * U) * u = y * (u * U)
      BY <1>1, <1>4, <1>7
    <3> QED BY <1>5, <3>1
  <2>4. (o - x * U) * u = o * u - (x * U) * u /\ (y * U - e) * u = (y * U) * u - e * u
    BY <1>4, <1>8, <2>1
  <2>5. x * WordBits \in Nat /\ y * WordBits \in Nat /\ o * u \in Nat /\ e * u \in Nat
    BY <1>1, <1>4, <1>7, <1>8
  <2> QED BY <2>2, <2>3, <2>4, <2>5
<1>10. ASSUME NEW k \in 0..(L - 1), NEW b \in 0..(IndexWidth(p, n) - 1)
       PROVE  IndexStart(p, o, n, k) + b \in Slice(i)
  <2>1. IndexStart(p, o, n, k) + b \in (o * u)..((o + L * w) * u - 1)
    BY <1>2, <1>4, <1>10, FieldBounds
  <2> DEFINE z == IndexStart(p, o, n, k) + b
  <2>2. o * u \in Nat /\ e * u \in Nat
    BY <1>4, <1>8
  <2>3. z \in (o * u)..(e * u - 1)
    BY <2>1
  <2> HIDE DEF x, y, e, u, w, z
  <2>4. z \in (x * WordBits)..(y * WordBits - 1)
    BY <1>9, <2>2, <2>3
  <2> QED BY <1>3, <2>4 DEF z
<1>11. IndexBits(i) = BitsWritten(p, index, o, n, DC(i).indexMin)
  BY DEF IndexBits, BitsWritten, index, o, n
<1>12. IndexBits(i) \subseteq Slice(i)
  <2> SUFFICES ASSUME NEW z \in IndexBits(i) PROVE z \in Slice(i)
    OBVIOUS
  <2> HIDE DEF p
  <2>1. z \in BitsWritten(p, index, o, n, DC(i).indexMin) /\ p \in BOOLEAN
    BY <1>11 DEF p
  <2>2. \E k \in 0..(L - 1), b \in 0..(IndexWidth(p, n) - 1) : z = IndexStart(p, o, n, k) + b
    BY <1>2, <1>4, <2>1, WrittenInFields
  <2> QED BY <1>10, <2>2
<1> QED BY <1>10, <1>11, <1>12 DEF index, L, o, n

\* What a fill leaves in a slice is what a kernel looks for.
LEMMA SliceInPlace ==
  ASSUME Shape, NEW i \in 1..Parts, NEW m, IsCall(DC(i), Wanted(i), m, 0, opt.packed),
         opt.packed \in BOOLEAN, idx \cap Slice(i) = IndexBits(i)
  PROVE  InPlace(idx, DC(i), Wanted(i), opt.packed)
<1> DEFINE dc == DC(i)
           p == Wanted(i)
<1>1. IsPart(p, opt.packed) /\ p.index = Part(i).index
  BY WantedFacts DEF Wanted
<1>2. /\ dc.indexOffset \in Nat /\ dc.bits \in Nat /\ dc.triangles \in Nat
      /\ 3 * dc.triangles <= Len(Part(i).index) /\ Len(Part(i).index) \in Nat
      /\ (opt.packed => dc.indexMin = p.min)
  BY <1>1 DEF IsCall, IsPart
<1>3. /\ IndexBits(i) = BitsWritten(opt.packed, Part(i).index, dc.indexOffset, dc.bits, dc.indexMin)
      /\ \A k \in 0..(Len(Part(i).index) - 1) : \A b \in 0..(IndexWidth(opt.packed, dc.bits) - 1) :
           IndexStart(opt.packed, dc.indexOffset, dc.bits, k) + b \in Slice(i)
  BY <1>2, SliceHolds
<1>4. BitsWritten(opt.packed, p.index, dc.indexOffset, dc.bits, p.min) = IndexBits(i)
  BY <1>1, <1>2, <1>3 DEF BitsWritten
<1>5. \A k \in 0..(3 * dc.triangles - 1) : k \in 0..(Len(Part(i).index) - 1)
  <2> DEFINE t == dc.triangles
             L == Len(Part(i).index)
  <2> HIDE DEF t, L
  <2> QED BY <1>2 DEF t, L
<1> HIDE DEF dc, p
<1>6. \A k \in 0..(3 * dc.triangles - 1) : \A b \in 0..(IndexWidth(opt.packed, dc.bits) - 1) :
        IndexStart(opt.packed, dc.indexOffset, dc.bits, k) + b \in idx
          <=> IndexStart(opt.packed, dc.indexOffset, dc.bits, k) + b \in IndexBits(i)
  BY <1>3, <1>5
<1> QED BY <1>4, <1>6 DEF InPlace, dc, p

-----------------------------------------------------------------------------
(* The fill: which task writes what, and when it is there.                 *)

LEMMA SlicesDisjoint ==
  ASSUME ViewsInv, LayoutInv, pass = "fill", NEW i \in 1..Len(kept), NEW j \in 1..Len(kept), i # j
  PROVE  Slice(i) \cap Slice(j) = {}
<1> DEFINE unit == IF opt.packed THEN 1 ELSE WordBits
<1>3. unit \in Nat
  BY LayoutAssumption
<1> HIDE DEF unit
<1>4. ASSUME NEW a \in 1..Len(kept), NEW b \in 1..Len(kept), a < b
      PROVE  Slice(a) \cap Slice(b) = {}
  <2>1. /\ DC(a).indexOffset \in Nat /\ SliceEnd(a) \in Nat
        /\ DC(b).indexOffset \in Nat /\ SliceEnd(b) \in Nat
        /\ Slice(a) \subseteq (DC(a).indexOffset * unit)..(SliceEnd(a) * unit - 1)
        /\ Slice(b) \subseteq (DC(b).indexOffset * unit)..(SliceEnd(b) * unit - 1)
    BY SliceBounds DEF unit
  <2>2. SliceEnd(a) <= DC(b).indexOffset
    BY <1>4 DEF LayoutInv
  <2> DEFINE e == SliceEnd(a)
             f == DC(b).indexOffset
  <2>3. e * unit <= f * unit /\ e * unit \in Nat /\ f * unit \in Nat
    <3>1. e \in Nat /\ f \in Nat /\ e <= f
      BY <2>1, <2>2
    <3> HIDE DEF e, f
    <3>2. (f - e) * unit \in Nat
      BY <1>3, <3>1
    <3> QED
      BY <1>3, <3>1, <3>2
  <2>4. \A x \in Slice(a) : x \in Int /\ x < e * unit
    BY <2>1, <2>3
  <2>5. \A x \in Slice(b) : x \in Int /\ f * unit <= x
    BY <2>1, <2>3
  <2> HIDE DEF e, f
  <2> QED
    BY <2>3, <2>4, <2>5
<1>5. i < j \/ j < i
  OBVIOUS
<1> QED
  BY <1>4, <1>5

\* The copying steps of a fill.
Copies == {"positions", "uvs", "indices"}
LEMMA CopyingSteps ==
  ASSUME NEW i, NEW k \in 1..Len(FillSteps(i))
  PROVE  /\ FillSteps(i)[k][1] = "positions" => k = 3
         /\ FillSteps(i)[k][1] = "uvs" => k = 5 /\ Has(i, "uv")
         /\ FillSteps(i)[k][1] = "indices" => k = 4 + UvAt(i)
         /\ FillSteps(i)[k][1] \in Copies => FillSteps(i)[k][3] = i
         /\ FillSteps(i)[k][1] \notin Copies => k # 3 /\ k # 4 + UvAt(i) /\ (Has(i, "uv") => k # 5)
<1> DEFINE F == FillSteps(i)
           p == UvAt(i)
<1>1. /\ Len(F) = 6 + p
      /\ F[1][1] = "ensure" /\ F[2][1] = "ensure" /\ F[3][1] = "positions" /\ F[3][3] = i
      /\ p = 3 => F[4][1] = "ensure" /\ F[5][1] = "uvs" /\ F[5][3] = i /\ F[6][1] = "drop"
      /\ F[4 + p][1] = "indices" /\ F[4 + p][3] = i /\ F[5 + p][1] = "drop" /\ F[6 + p][1] = "drop"
  BY FillShape
<1>2. (p = 3 /\ Has(i, "uv")) \/ (p = 0 /\ ~Has(i, "uv"))
  BY DEF UvAt
<1> HIDE DEF F, p
<1>3. k \in 1..(6 + p)
  BY <1>1 DEF F
<1>4. CASE p = 3
  <2>1. k \in {1, 2, 3, 4, 5, 6, 7, 8, 9}
    BY <1>3, <1>4
  <2> QED BY <1>1, <1>2, <1>4, <2>1 DEF Copies, F, p
<1>5. CASE p = 0
  <2>1. k \in {1, 2, 3, 4, 5, 6}
    BY <1>3, <1>5
  <2> QED BY <1>1, <1>2, <1>5, <2>1 DEF Copies, F, p
<1> QED BY <1>2, <1>4, <1>5

\* A running task fills one of the primitives taken, and no other task does.
TaskInv ==
  pass = "fill" =>
    /\ \A t \in Thread : job[t] # <<>> => \E i \in 1..Len(kept) : i < next /\ job[t] = FillSteps(i)
    /\ \A s, t \in Thread : s # t => \A i \in 1..Len(kept) : ~(job[s] = FillSteps(i) /\ job[t] = FillSteps(i))

LEMMA FillIsSome ==
  \A i : /\ FillSteps(i) # <<>> /\ Len(FillSteps(i)) = 6 + UvAt(i) /\ UvAt(i) \in {0, 3}
         /\ \A j : FillSteps(i) = FillSteps(j) => i = j
<1> SUFFICES ASSUME NEW i, NEW j
             PROVE  /\ FillSteps(i) # <<>> /\ Len(FillSteps(i)) = 6 + UvAt(i) /\ UvAt(i) \in {0, 3}
                    /\ FillSteps(i) = FillSteps(j) => i = j
  OBVIOUS
<1>1. UvAt(i) \in {0, 3}
  BY DEF UvAt
<1>2. Len(FillSteps(i)) = 6 + UvAt(i) /\ FillSteps(i)[3][3] = i /\ FillSteps(j)[3][3] = j
  BY FillShape
<1>3. Len(FillSteps(i)) # 0
  BY <1>1, <1>2
<1>4. FillSteps(i) # <<>>
  <2>1. Len(<<>>) = 0
    OBVIOUS
  <2> QED BY <1>3, <2>1
<1> QED BY <1>1, <1>2, <1>4

LEMMA PlanSteps ==
  ASSUME UNCHANGED <<opt, kept>>
  PROVE  \A i : /\ FillSteps(i)' = FillSteps(i) /\ Part(i)' = Part(i) /\ UvAt(i)' = UvAt(i)
                /\ Has(i, "uv")' = Has(i, "uv")
<1>1. \A i : Part(i)' = Part(i)
  BY PartsKept
<1>2. \A i : Has(i, "uv")' = Has(i, "uv")
  BY <1>1 DEF Has
<1>3. \A i : UvSteps(i)' = UvSteps(i)
  BY <1>1, <1>2 DEF UvSteps
<1> QED BY <1>1, <1>2, <1>3 DEF FillSteps, UvAt

LEMMA NextTasks ==
  ASSUME ViewsInv, TaskInv, [Next]_vars
  PROVE  TaskInv'
<1>0. Shape /\ JobInv
  BY DEF ViewsInv
<1>1. CASE Main
  <2>1. Idle /\ job' = job
    BY <1>0, <1>1 DEF Main, Cap, CountUses, Reserve, Allocate, EndPass, Adopt, Register, Finalize,
                      AddMesh, Repeat, Split, Upload, threadVars, Idle, JobInv
  <2>2. \A t \in Thread : job'[t] = <<>>
    BY <2>1 DEF Idle
  <2>3. \A t \in Thread : \A i : job'[t] # FillSteps(i)'
    <3>1. \A i : (FillSteps(i) # <<>>)'
      <4>1. (\A i : /\ FillSteps(i) # <<>> /\ Len(FillSteps(i)) = 6 + UvAt(i) /\ UvAt(i) \in {0, 3}
                    /\ \A j : FillSteps(i) = FillSteps(j) => i = j)'
        BY FillIsSome, PTL
      <4> QED BY <4>1
    <3> QED BY <2>2, <3>1
  <2> QED BY <2>2, <2>3 DEF TaskInv
<1>2. ASSUME UNCHANGED <<opt, kept, pass, next>>,
             \A t \in Thread : job'[t] = job[t] \/ job'[t] = <<>>
      PROVE  TaskInv'
  <2>1. \A i : FillSteps(i)' = FillSteps(i) /\ FillSteps(i) # <<>>
    BY <1>2, PlanSteps, FillIsSome
  <2> SUFFICES ASSUME pass = "fill" PROVE TaskInv'
    BY <1>2 DEF TaskInv
  <2>2. ASSUME NEW t \in Thread, job'[t] # <<>>
        PROVE  \E i \in 1..Len(kept) : i < next /\ job'[t] = FillSteps(i)
    BY <1>2, <2>2 DEF TaskInv
  <2>3. ASSUME NEW s \in Thread, NEW t \in Thread, s # t, NEW i \in 1..Len(kept)
        PROVE  ~(job'[s] = FillSteps(i) /\ job'[t] = FillSteps(i))
    BY <1>2, <2>1, <2>3 DEF TaskInv
  <2> QED BY <1>2, <2>1, <2>2, <2>3 DEF TaskInv
<1>3. ASSUME NEW t \in Thread, Take(t) PROVE TaskInv'
  <2>1. /\ job[t] = <<>> /\ next <= Len(kept) /\ job' = [job EXCEPT ![t] = Steps(next)]
        /\ next' = next + 1 /\ UNCHANGED <<pass, opt, kept>>
    BY <1>3 DEF Take, Begin, planVars
  <2> SUFFICES ASSUME pass = "fill" PROVE TaskInv'
    BY <2>1 DEF TaskInv
  <2>2. next \in 1..Len(kept) /\ next \in Nat /\ Len(kept) \in Nat
    BY <1>0, <2>1, LenProperties DEF Shape
  <2>3. job'[t] = FillSteps(next) /\ \A s \in Thread : s # t => job'[s] = job[s]
    BY <1>0, <2>1 DEF Shape, Steps
  <2>4. \A i : FillSteps(i)' = FillSteps(i) /\ FillSteps(i) # <<>>
    BY <2>1, PlanSteps, FillIsSome
  <2>5. \A i, j : FillSteps(i) = FillSteps(j) => i = j
    BY FillIsSome
  <2>6. ASSUME NEW s \in Thread, job'[s] # <<>>
        PROVE  \E i \in 1..Len(kept) : i < next + 1 /\ job'[s] = FillSteps(i)
    <3>1. CASE s = t
      BY <2>2, <2>3, <3>1
    <3>2. CASE s # t
      <4>1. PICK i \in 1..Len(kept) : i < next /\ job[s] = FillSteps(i)
        BY <2>3, <2>6, <3>2 DEF TaskInv
      <4> QED BY <2>2, <2>3, <3>2, <4>1
    <3> QED BY <3>1, <3>2
  <2>7. ASSUME NEW s \in Thread, s # t PROVE job[s] # FillSteps(next)
    <3>1. job[s] # <<>> => \E i \in 1..Len(kept) : i < next /\ job[s] = FillSteps(i)
      BY DEF TaskInv
    <3> QED BY <2>2, <2>4, <2>5, <3>1
  <2>8. ASSUME NEW r \in Thread, NEW s \in Thread, r # s, NEW i \in 1..Len(kept)
        PROVE  ~(job'[r] = FillSteps(i) /\ job'[s] = FillSteps(i))
    <3>1. CASE r = t
      BY <2>3, <2>5, <2>7, <2>8, <3>1
    <3>2. CASE s = t
      BY <2>3, <2>5, <2>7, <2>8, <3>2
    <3>3. CASE r # t /\ s # t
      BY <2>3, <2>8, <3>3 DEF TaskInv
    <3> QED BY <3>1, <3>2, <3>3
  <2> QED BY <2>1, <2>4, <2>6, <2>8 DEF TaskInv
<1>4. ASSUME NEW t \in Thread, Task(t), UNCHANGED <<pass, next, planVars, gpu>> PROVE TaskInv'
  <2>1. job' = job \/ job' = [job EXCEPT ![t] = <<>>]
    BY <1>4 DEF Task, Check, Lock, Decode, Read, Drop, Free, Clear, Return, CopyPositions,
                CopyUvs, LoadWords, StoreWords, Advance, Goto
  <2>2. \A r \in Thread : job'[r] = job[r] \/ job'[r] = <<>>
    BY <1>0, <2>1 DEF Shape
  <2> QED BY <1>2, <1>4, <2>2 DEF planVars
<1>5. CASE UNCHANGED vars
  BY <1>2, <1>5 DEF vars, threadVars, planVars
<1> QED BY <1>1, <1>3, <1>4, <1>5 DEF Next, Work

\* The steps that copy.
CopiesAt(i, k) == k = 3 \/ k = 4 + UvAt(i) \/ (Has(i, "uv") /\ k = 5)

\* The task of primitive i, if it runs, is past its k-th step.
Past(i, k) == i < next /\ \A t \in Thread : job[t] = FillSteps(i) => at[t] > k

FilledInv ==
  pass = "fill" =>
    /\ \A i \in 1..Len(kept) :
         /\ Past(i, 3) => Cells(vtx, i, Part(i).verts, DC(i).vertexOffset)
         /\ Has(i, "uv") /\ Past(i, 5) => Cells(uv, i, Part(i).verts, DC(i).vertexOffset)
         /\ idx \cap Slice(i) \subseteq IndexBits(i)
         /\ \A k \in Nat : k = 4 + UvAt(i) /\ Past(i, k) => IndexBits(i) \subseteq idx
    /\ \A t \in Thread : \A i \in 1..Len(kept) :
         job[t] = FillSteps(i) /\ sub[t] = "store" => reg[t] \subseteq IndexBits(i)

\* What a fill does not change.
SameFill == pass = "fill" /\ UNCHANGED <<pass, opt, kept, scene>>
LEMMA FillKept ==
  ASSUME SameFill
  PROVE  \A i : /\ FillSteps(i)' = FillSteps(i) /\ Part(i)' = Part(i) /\ UvAt(i)' = UvAt(i)
                /\ Has(i, "uv")' = Has(i, "uv") /\ DC(i)' = DC(i) /\ Slice(i)' = Slice(i)
                /\ IndexBits(i)' = IndexBits(i)
<1>1. \A i : /\ FillSteps(i)' = FillSteps(i) /\ Part(i)' = Part(i) /\ UvAt(i)' = UvAt(i)
             /\ Has(i, "uv")' = Has(i, "uv")
  BY PlanSteps DEF SameFill
<1>2. \A i : DC(i)' = DC(i)
  BY DEF SameFill, DC
<1>3. \A i : Slice(i)' = Slice(i) /\ IndexBits(i)' = IndexBits(i)
  BY <1>1, <1>2 DEF SameFill, Slice, IndexBits
<1> QED BY <1>1, <1>2, <1>3

\* A step that copies nothing: whoever is past a copying step was so before.
LEMMA FillQuiet ==
  ASSUME FilledInv, SameFill, UNCHANGED <<vtx, uv, idx, reg>>,
         \A i \in 1..Len(kept) : \A k \in Nat : CopiesAt(i, k) /\ Past(i, k)' => Past(i, k),
         \A t \in Thread : sub'[t] = "store" => sub[t] = "store" /\ job'[t] = job[t]
  PROVE  FilledInv'
<1>1. \A i : /\ FillSteps(i)' = FillSteps(i) /\ Part(i)' = Part(i) /\ UvAt(i)' = UvAt(i)
             /\ Has(i, "uv")' = Has(i, "uv") /\ DC(i)' = DC(i) /\ Slice(i)' = Slice(i)
             /\ IndexBits(i)' = IndexBits(i)
  BY FillKept
<1>2. ASSUME NEW i \in 1..Len(kept)
      PROVE  /\ Past(i, 3)' => Cells(vtx', i, Part(i).verts, DC(i).vertexOffset)
             /\ Has(i, "uv") /\ Past(i, 5)' => Cells(uv', i, Part(i).verts, DC(i).vertexOffset)
             /\ idx' \cap Slice(i) \subseteq IndexBits(i)
             /\ \A k \in Nat : k = 4 + UvAt(i) /\ Past(i, k)' => IndexBits(i) \subseteq idx'
  <2>1. /\ Past(i, 3)' => Past(i, 3)
        /\ \A k \in Nat : k = 4 + UvAt(i) /\ Past(i, k)' => Past(i, k)
        /\ Has(i, "uv") /\ Past(i, 5)' => Past(i, 5)
    BY DEF CopiesAt
  <2>2. /\ Past(i, 3) => Cells(vtx, i, Part(i).verts, DC(i).vertexOffset)
        /\ Has(i, "uv") /\ Past(i, 5) => Cells(uv, i, Part(i).verts, DC(i).vertexOffset)
        /\ idx \cap Slice(i) \subseteq IndexBits(i)
        /\ \A k \in Nat : k = 4 + UvAt(i) /\ Past(i, k) => IndexBits(i) \subseteq idx
    BY DEF FilledInv, SameFill
  <2>3. vtx' = vtx /\ uv' = uv /\ idx' = idx
    OBVIOUS
  <2> QED BY <2>1, <2>2, <2>3
<1>3. ASSUME NEW t \in Thread, NEW i \in 1..Len(kept), job'[t] = FillSteps(i), sub'[t] = "store"
      PROVE  reg'[t] \subseteq IndexBits(i)
  BY <1>3 DEF FilledInv, SameFill
<1> QED BY <1>1, <1>2, <1>3 DEF FilledInv, SameFill

\* Tasks one step further, a task more or a task less.
LEMMA PastAdvance ==
  ASSUME Shape, SameFill, UNCHANGED <<next, job>>, NEW t \in Thread, at' = [at EXCEPT ![t] = @ + 1],
         NEW i, job[t] = FillSteps(i)
  PROVE  \A j : \A m \in Nat : Past(j, m)' => Past(j, m) \/ (j = i /\ m = at[t])
<1>1. at \in [Thread -> Nat \ {0}]
  BY DEF Shape
<1>2. \A j : FillSteps(j)' = FillSteps(j)
  BY FillKept
<1>3. \A j : FillSteps(i) = FillSteps(j) => i = j
  BY FillIsSome
<1> SUFFICES ASSUME NEW j, NEW m \in Nat, Past(j, m)', ~(j = i /\ m = at[t])
             PROVE  Past(j, m)
  OBVIOUS
<1>4. j < next /\ \A s \in Thread : job[s] = FillSteps(j) => at'[s] > m
  BY <1>2 DEF Past
<1>5. ASSUME NEW s \in Thread, job[s] = FillSteps(j) PROVE at[s] > m
  <2>1. at'[s] > m
    BY <1>4, <1>5
  <2>2. CASE s # t
    BY <1>1, <2>1, <2>2
  <2>3. CASE s = t
    <3>1. m # at[t] /\ at'[t] = at[t] + 1 /\ at[t] \in Nat
      BY <1>1, <1>3, <1>5, <2>3
    <3> QED BY <2>1, <2>3, <3>1
  <2> QED BY <2>2, <2>3
<1> QED BY <1>4, <1>5 DEF Past

\* The step of a fill that is next in a task.
LEMMA StepOfFill ==
  ASSUME ViewsInv, TaskInv, pass = "fill", NEW t \in Thread, Busy(t)
  PROVE  \E i \in 1..Len(kept) :
           /\ i < next /\ job[t] = FillSteps(i) /\ at[t] \in 1..Len(FillSteps(i))
           /\ Op(t) = "positions" => at[t] = 3
           /\ Op(t) = "uvs" => at[t] = 5 /\ Has(i, "uv")
           /\ Op(t) = "indices" => at[t] = 4 + UvAt(i)
           /\ Op(t) \in Copies => I(t) = i
           /\ Op(t) \notin Copies => at[t] # 3 /\ at[t] # 4 + UvAt(i) /\ (Has(i, "uv") => at[t] # 5)
           /\ \A s \in Thread : job[s] = FillSteps(i) => s = t
<1>1. job[t] # <<>> /\ at[t] \in 1..Len(job[t])
  BY StepType DEF ViewsInv
<1>2. PICK i \in 1..Len(kept) : i < next /\ job[t] = FillSteps(i)
  BY <1>1 DEF TaskInv
<1>3. Op(t) = FillSteps(i)[at[t]][1] /\ I(t) = FillSteps(i)[at[t]][3] /\ at[t] \in 1..Len(FillSteps(i))
  BY <1>1, <1>2 DEF Op, I
<1>4. \A s \in Thread : job[s] = FillSteps(i) => s = t
  BY <1>2 DEF TaskInv
<1>5. \A k \in 1..Len(FillSteps(i)) :
        /\ FillSteps(i)[k][1] = "positions" => k = 3
        /\ FillSteps(i)[k][1] = "uvs" => k = 5 /\ Has(i, "uv")
        /\ FillSteps(i)[k][1] = "indices" => k = 4 + UvAt(i)
        /\ FillSteps(i)[k][1] \in Copies => FillSteps(i)[k][3] = i
        /\ FillSteps(i)[k][1] \notin Copies => k # 3 /\ k # 4 + UvAt(i) /\ (Has(i, "uv") => k # 5)
  BY CopyingSteps
<1> QED BY <1>2, <1>3, <1>4, <1>5

\* Steps on views.
LEMMA ViewSteps ==
  ASSUME ViewsInv, TaskInv, FilledInv, SameFill, UNCHANGED next, NEW t \in Thread,
         Check(t) \/ Lock(t) \/ Decode(t) \/ Read(t) \/ Drop(t) \/ Free(t) \/ Clear(t), UNCHANGED outVars
  PROVE  FilledInv'
<1>0. Shape
  BY DEF ViewsInv
<1>1. Busy(t) /\ Op(t) \notin Copies
  BY DEF Check, Lock, Decode, Read, Drop, Free, Clear, Doing, Copies
<1>2. job' = job /\ (at' = at \/ at' = [at EXCEPT ![t] = @ + 1])
      /\ \E x \in {"start", "lock", "decode", "free", "clear"} : sub' = [sub EXCEPT ![t] = x]
  BY DEF Check, Lock, Decode, Read, Drop, Free, Clear, Advance, Goto
<1>3. PICK i \in 1..Len(kept) :
        /\ job[t] = FillSteps(i)
        /\ at[t] # 3 /\ at[t] # 4 + UvAt(i) /\ (Has(i, "uv") => at[t] # 5)
  BY <1>1, StepOfFill DEF SameFill
<1>4. ASSUME NEW j \in 1..Len(kept), NEW k \in Nat, CopiesAt(j, k), Past(j, k)'
      PROVE  Past(j, k)
  <2>1. CASE at' = at
    <3>1. \A m : FillSteps(m)' = FillSteps(m)
      BY FillKept
    <3> QED BY <1>2, <1>4, <2>1, <3>1 DEF Past
  <2>2. CASE at' = [at EXCEPT ![t] = @ + 1]
    <3>2. Past(j, k) \/ (j = i /\ k = at[t])
      BY <1>0, <1>2, <1>3, <1>4, <2>2, PastAdvance
    <3>3. ~(j = i /\ k = at[t])
      BY <1>3, <1>4 DEF CopiesAt
    <3> QED BY <3>2, <3>3
  <2> QED BY <1>2, <2>1, <2>2
<1>5. \A s \in Thread : sub'[s] = "store" => sub[s] = "store" /\ job'[s] = job[s]
  BY <1>0, <1>2 DEF Shape
<1> QED BY <1>4, <1>5, FillQuiet DEF outVars

LEMMA ReturnFilled ==
  ASSUME ViewsInv, TaskInv, FilledInv, SameFill, UNCHANGED next, NEW t \in Thread,
         Return(t), UNCHANGED outVars
  PROVE  FilledInv'
<1>0. Shape /\ JobInv
  BY DEF ViewsInv
<1>1. job[t] # <<>> /\ at[t] > Len(job[t]) /\ job' = [job EXCEPT ![t] = <<>>] /\ UNCHANGED <<at, sub>>
  BY DEF Return
<1>2. PICK i \in 1..Len(kept) : job[t] = FillSteps(i)
  BY <1>1 DEF TaskInv, SameFill
<1>3. at \in [Thread -> Nat \ {0}] /\ at[t] > 6 + UvAt(i) /\ UvAt(i) \in {0, 3}
      /\ \A j : FillSteps(i) = FillSteps(j) => i = j
  BY <1>0, <1>1, <1>2, FillIsSome DEF Shape
<1>4. ASSUME NEW j \in 1..Len(kept), NEW k \in Nat, CopiesAt(j, k), Past(j, k)'
      PROVE  Past(j, k)
  <2>1. \A m : FillSteps(m)' = FillSteps(m)
    BY FillKept
  <2>2. j < next /\ \A s \in Thread : job'[s] = FillSteps(j) => at[s] > k
    BY <1>1, <1>4, <2>1 DEF Past
  <2>3. ASSUME NEW s \in Thread, job[s] = FillSteps(j) PROVE at[s] > k
    <3>1. CASE s # t
      BY <1>0, <1>1, <2>2, <2>3, <3>1 DEF Shape
    <3>2. CASE s = t
      <4>1. j = i
        BY <1>2, <1>3, <2>3, <3>2
      <4>2. k \in Nat /\ k <= 6 + UvAt(i)
        <5>1. Has(j, "uv") => UvAt(j) = 3
          BY DEF UvAt
        <5> QED BY <1>3, <1>4, <4>1, <5>1 DEF CopiesAt
      <4> QED BY <1>3, <3>2, <4>2
    <3> QED BY <3>1, <3>2
  <2> QED BY <2>2, <2>3 DEF Past
<1>5. \A s \in Thread : sub'[s] = "store" => sub[s] = "store" /\ job'[s] = job[s]
  <2>1. sub[t] # "store"
    <3>1. sub[t] # "start" => at[t] <= Len(job[t])
      BY <1>0 DEF JobInv
    <3>2. Len(job[t]) = 6 + UvAt(i)
      BY <1>2, FillIsSome
    <3> QED BY <1>3, <3>1, <3>2
  <2> QED BY <1>0, <1>1, <2>1 DEF Shape
<1> QED BY <1>4, <1>5, FillQuiet DEF outVars

\* The vertices of the primitives, in ranges of their own.
LEMMA RangesApart ==
  ASSUME ViewsInv, LayoutInv, SceneInv, pass = "fill"
  PROVE  /\ \A i \in 1..Len(kept) : DC(i).vertexOffset \in Nat /\ Part(i).verts \in Nat
         /\ \A i, j \in 1..Len(kept) : i # j =>
              \/ DC(i).vertexOffset + Part(i).verts <= DC(j).vertexOffset
              \/ DC(j).vertexOffset + Part(j).verts <= DC(i).vertexOffset
<1>0. Shape /\ PassInv
  BY DEF ViewsInv
<1>1. Len(scene.dcs) = Len(kept) /\ Parts = Len(kept) /\ Len(kept) \in Nat
  BY <1>0, PartsType, LenProperties DEF LayoutInv, PassInv, Shape
<1>2. Drafted(scene.dcs, scene.matrices, nextVertex, AllWanted, opt.packed)
  BY DEF SceneInv
<1>3. \A i \in 1..Len(kept) : AllWanted[i].verts = Part(i).verts
  BY <1>1 DEF AllWanted, Wanted
<1>4. \A i \in 1..Len(kept) : DC(i).vertexOffset \in Nat /\ Part(i).verts \in Nat
  BY <1>1, <1>2, <1>3 DEF Drafted, IsCall, IsPart, DC
<1>5. \A i, j \in 1..Len(kept) : i < j => DC(i).vertexOffset + Part(i).verts <= DC(j).vertexOffset
  BY <1>1, <1>2, <1>3 DEF Drafted, DC
<1>6. \A i, j \in 1..Len(kept) : i # j => i < j \/ j < i
  BY <1>1
<1> QED BY <1>4, <1>5, <1>6

\* A step that copies, of the task of primitive i.
LEMMA CopyingFill ==
  ASSUME ViewsInv, LayoutInv, SceneInv, TaskInv, FilledInv, SameFill, UNCHANGED <<next, job, idx, reg>>,
         NEW t \in Thread, NEW i \in 1..Len(kept), job[t] = FillSteps(i),
         at' = [at EXCEPT ![t] = @ + 1], sub' = [sub EXCEPT ![t] = "start"],
         \/ /\ at[t] = 3 /\ uv' = uv
            /\ vtx' = Copied(vtx, i, DC(i).vertexOffset)
         \/ /\ at[t] = 5 /\ vtx' = vtx /\ Has(i, "uv")
            /\ uv' = Copied(uv, i, DC(i).vertexOffset)
  PROVE  FilledInv'
<1>0. Shape /\ pass = "fill"
  BY DEF ViewsInv, SameFill
<1>1. \A j : /\ FillSteps(j)' = FillSteps(j) /\ Part(j)' = Part(j) /\ UvAt(j)' = UvAt(j)
             /\ Has(j, "uv")' = Has(j, "uv") /\ DC(j)' = DC(j) /\ Slice(j)' = Slice(j)
             /\ IndexBits(j)' = IndexBits(j)
  BY FillKept
<1>2. \A j : \A m \in Nat : Past(j, m)' => Past(j, m) \/ (j = i /\ m = at[t])
  BY <1>0, PastAdvance
<1>3. /\ \A j \in 1..Len(kept) : DC(j).vertexOffset \in Nat /\ Part(j).verts \in Nat
      /\ \A j \in 1..Len(kept) : j # i =>
           \/ DC(j).vertexOffset + Part(j).verts <= DC(i).vertexOffset
           \/ DC(i).vertexOffset + Part(i).verts <= DC(j).vertexOffset
  BY <1>0, RangesApart
\* What a copy does.
<1>4. ASSUME NEW cells, NEW a, a = Copied(cells, i, DC(i).vertexOffset)
      PROVE  /\ Cells(a, i, Part(i).verts, DC(i).vertexOffset)
             /\ \A j \in 1..Len(kept) : j # i /\ Cells(cells, j, Part(j).verts, DC(j).vertexOffset)
                  => Cells(a, j, Part(j).verts, DC(j).vertexOffset)
  <2> DEFINE f == DC(i).vertexOffset
  <2>1. f \in Nat /\ Part(i).verts \in Nat /\ a = Copied(cells, i, f)
    BY <1>3, <1>4
  <2> HIDE DEF f
  <2>2. /\ Cells(a, i, Part(i).verts, f)
        /\ \A j : \A n, g \in Nat :
             Cells(cells, j, n, g) /\ (g + n <= f \/ f + Part(i).verts <= g) => Cells(a, j, n, g)
    BY <2>1, CopiedCells
  <2> QED BY <1>3, <2>2 DEF f
<1>5. ASSUME NEW j \in 1..Len(kept)
      PROVE  /\ Past(j, 3)' => Cells(vtx', j, Part(j).verts, DC(j).vertexOffset)
             /\ Has(j, "uv") /\ Past(j, 5)' => Cells(uv', j, Part(j).verts, DC(j).vertexOffset)
             /\ idx' \cap Slice(j) \subseteq IndexBits(j)
             /\ \A k \in Nat : k = 4 + UvAt(j) /\ Past(j, k)' => IndexBits(j) \subseteq idx'
  <2>1. /\ Past(j, 3) => Cells(vtx, j, Part(j).verts, DC(j).vertexOffset)
        /\ Has(j, "uv") /\ Past(j, 5) => Cells(uv, j, Part(j).verts, DC(j).vertexOffset)
        /\ idx \cap Slice(j) \subseteq IndexBits(j)
        /\ \A k \in Nat : k = 4 + UvAt(j) /\ Past(j, k) => IndexBits(j) \subseteq idx
    BY <1>0 DEF FilledInv
  <2>2. /\ Past(j, 3)' => Past(j, 3) \/ (j = i /\ at[t] = 3)
        /\ Past(j, 5)' => Past(j, 5) \/ (j = i /\ at[t] = 5)
    BY <1>2
  <2>3. \A k \in Nat : k = 4 + UvAt(j) /\ Past(j, k)' => Past(j, k)
    <3>1. j = i => at[t] # 4 + UvAt(j)
      BY DEF UvAt
    <3> QED BY <1>2, <3>1
  <2>4. idx' = idx
    OBVIOUS
  <2>5. /\ Past(j, 3)' => Cells(vtx', j, Part(j).verts, DC(j).vertexOffset)
        /\ Has(j, "uv") /\ Past(j, 5)' => Cells(uv', j, Part(j).verts, DC(j).vertexOffset)
    <3>1. CASE at[t] = 3 /\ uv' = uv /\ vtx' = Copied(vtx, i, DC(i).vertexOffset)
      BY <1>4, <2>1, <2>2, <3>1
    <3>2. CASE at[t] = 5 /\ vtx' = vtx /\ uv' = Copied(uv, i, DC(i).vertexOffset)
      BY <1>4, <2>1, <2>2, <3>2
    <3> QED BY <3>1, <3>2
  <2> QED BY <2>1, <2>3, <2>4, <2>5
<1>6. ASSUME NEW s \in Thread, NEW j \in 1..Len(kept), job'[s] = FillSteps(j), sub'[s] = "store"
      PROVE  reg'[s] \subseteq IndexBits(j)
  <2>1. job[s] = FillSteps(j) /\ sub[s] = "store" /\ reg'[s] = reg[s]
    BY <1>0, <1>6 DEF Shape
  <2> QED BY <1>0, <2>1 DEF FilledInv
<1> QED BY <1>1, <1>5, <1>6 DEF FilledInv, SameFill

LEMMA CopyFilled ==
  ASSUME ViewsInv, LayoutInv, SceneInv, TaskInv, FilledInv, SameFill, UNCHANGED next,
         NEW t \in Thread, CopyPositions(t) \/ CopyUvs(t)
  PROVE  FilledInv'
<1>1. Busy(t) /\ UNCHANGED <<job, idx, reg>>
      /\ at' = [at EXCEPT ![t] = @ + 1] /\ sub' = [sub EXCEPT ![t] = "start"]
      /\ \/ Op(t) = "positions" /\ uv' = uv /\ vtx' = Copied(vtx, I(t), DC(I(t)).vertexOffset)
         \/ Op(t) = "uvs" /\ vtx' = vtx /\ uv' = Copied(uv, I(t), DC(I(t)).vertexOffset)
  BY DEF CopyPositions, CopyUvs, Doing, Advance
<1>2. PICK i \in 1..Len(kept) :
        /\ job[t] = FillSteps(i)
        /\ Op(t) = "positions" => at[t] = 3
        /\ Op(t) = "uvs" => at[t] = 5 /\ Has(i, "uv")
        /\ Op(t) \in Copies => I(t) = i
  BY <1>1, StepOfFill DEF SameFill
<1>3. I(t) = i
  BY <1>1, <1>2 DEF Copies
<1>4. \/ at[t] = 3 /\ uv' = uv /\ vtx' = Copied(vtx, i, DC(i).vertexOffset)
      \/ at[t] = 5 /\ vtx' = vtx /\ Has(i, "uv") /\ uv' = Copied(uv, i, DC(i).vertexOffset)
  BY <1>1, <1>2, <1>3
<1> QED BY <1>1, <1>2, <1>4, CopyingFill

LEMMA LoadFilled ==
  ASSUME ViewsInv, TaskInv, FilledInv, SameFill, UNCHANGED next, NEW t \in Thread, LoadWords(t),
         DOMAIN reg = Thread
  PROVE  FilledInv'
<1>0. Shape /\ pass = "fill"
  BY DEF ViewsInv, SameFill
<1>1. Busy(t) /\ Op(t) = "indices" /\ UNCHANGED <<job, at, vtx, uv, idx>>
      /\ sub' = [sub EXCEPT ![t] = "store"]
      /\ reg' = [reg EXCEPT ![t] = IF opt.packed THEN idx \cap Slice(I(t)) ELSE {}]
  BY DEF LoadWords, Doing, Goto
<1>2. PICK i \in 1..Len(kept) : job[t] = FillSteps(i) /\ I(t) = i
  <2>1. Op(t) \in Copies
    BY <1>1 DEF Copies
  <2> QED BY <1>0, <1>1, <2>1, StepOfFill
<1>3. \A j : /\ FillSteps(j)' = FillSteps(j) /\ Part(j)' = Part(j) /\ UvAt(j)' = UvAt(j)
             /\ Has(j, "uv")' = Has(j, "uv") /\ DC(j)' = DC(j) /\ Slice(j)' = Slice(j)
             /\ IndexBits(j)' = IndexBits(j)
  BY FillKept
<1>4. \A j : \A k : Past(j, k)' => Past(j, k)
  BY <1>1, <1>3 DEF Past
<1>5. ASSUME NEW j \in 1..Len(kept)
      PROVE  /\ Past(j, 3)' => Cells(vtx', j, Part(j).verts, DC(j).vertexOffset)
             /\ Has(j, "uv") /\ Past(j, 5)' => Cells(uv', j, Part(j).verts, DC(j).vertexOffset)
             /\ idx' \cap Slice(j) \subseteq IndexBits(j)
             /\ \A k \in Nat : k = 4 + UvAt(j) /\ Past(j, k)' => IndexBits(j) \subseteq idx'
  <2>1. /\ Past(j, 3) => Cells(vtx, j, Part(j).verts, DC(j).vertexOffset)
        /\ Has(j, "uv") /\ Past(j, 5) => Cells(uv, j, Part(j).verts, DC(j).vertexOffset)
        /\ idx \cap Slice(j) \subseteq IndexBits(j)
        /\ \A k \in Nat : k = 4 + UvAt(j) /\ Past(j, k) => IndexBits(j) \subseteq idx
    BY <1>0 DEF FilledInv
  <2> QED BY <1>1, <1>4, <2>1
<1>6. ASSUME NEW s \in Thread, NEW j \in 1..Len(kept), job'[s] = FillSteps(j), sub'[s] = "store"
      PROVE  reg'[s] \subseteq IndexBits(j)
  <2>1. CASE s # t
    <3>1. job[s] = FillSteps(j) /\ sub[s] = "store" /\ reg'[s] = reg[s]
      BY <1>0, <1>1, <1>6, <2>1 DEF Shape
    <3> QED BY <1>0, <3>1 DEF FilledInv
  <2>2. CASE s = t
    <3>1. j = i
      BY <1>1, <1>2, <1>6, <2>2, FillIsSome
    <3>2. reg'[t] \subseteq idx \cap Slice(i)
      BY <1>1, <1>2
    <3>3. idx \cap Slice(i) \subseteq IndexBits(i)
      BY <1>0 DEF FilledInv
    <3> QED BY <2>2, <3>1, <3>2, <3>3
  <2> QED BY <2>1, <2>2
<1> QED BY <1>3, <1>5, <1>6 DEF FilledInv, SameFill

LEMMA StoreFilled ==
  ASSUME ViewsInv, LayoutInv, TaskInv, FilledInv, SameFill, UNCHANGED next, NEW t \in Thread,
         StoreWords(t), DOMAIN reg = Thread
  PROVE  FilledInv'
<1>0. Shape /\ PassInv /\ pass = "fill"
  BY DEF ViewsInv, SameFill
<1>1. Busy(t) /\ Op(t) = "indices" /\ sub[t] = "store" /\ UNCHANGED <<job, vtx, uv>>
      /\ at' = [at EXCEPT ![t] = @ + 1] /\ sub' = [sub EXCEPT ![t] = "start"]
      /\ idx' = (idx \ Slice(I(t))) \cup reg[t] \cup IndexBits(I(t))
      /\ reg' = [reg EXCEPT ![t] = {}]
  BY DEF StoreWords, Doing, Advance
<1>2. PICK i \in 1..Len(kept) : job[t] = FillSteps(i) /\ I(t) = i /\ at[t] = 4 + UvAt(i)
  <2>1. Op(t) \in Copies
    BY <1>1 DEF Copies
  <2> QED BY <1>0, <1>1, <2>1, StepOfFill
<1>3. \A j : /\ FillSteps(j)' = FillSteps(j) /\ Part(j)' = Part(j) /\ UvAt(j)' = UvAt(j)
             /\ Has(j, "uv")' = Has(j, "uv") /\ DC(j)' = DC(j) /\ Slice(j)' = Slice(j)
             /\ IndexBits(j)' = IndexBits(j)
  BY FillKept
<1>4. \A j : \A m \in Nat : Past(j, m)' => Past(j, m) \/ (j = i /\ m = at[t])
  BY <1>0, <1>1, <1>2, PastAdvance
<1>5. reg[t] \subseteq IndexBits(i)
  BY <1>0, <1>1, <1>2 DEF FilledInv
<1>6. idx' = (idx \ Slice(i)) \cup IndexBits(i)
  BY <1>1, <1>2, <1>5
<1>7. IndexBits(i) \subseteq Slice(i)
  <2>1. i \in 1..Parts /\ opt.packed \in BOOLEAN
    BY <1>0, PartsType, OptionsAssumption DEF PassInv
  <2>2. DC(i).indexOffset \in Nat /\ DC(i).bits \in Nat
    BY <1>0 DEF LayoutInv
  <2> QED BY <1>0, <2>1, <2>2, SliceHolds
<1>8. ASSUME NEW j \in 1..Len(kept)
      PROVE  /\ Past(j, 3)' => Cells(vtx', j, Part(j).verts, DC(j).vertexOffset)
             /\ Has(j, "uv") /\ Past(j, 5)' => Cells(uv', j, Part(j).verts, DC(j).vertexOffset)
             /\ idx' \cap Slice(j) \subseteq IndexBits(j)
             /\ \A k \in Nat : k = 4 + UvAt(j) /\ Past(j, k)' => IndexBits(j) \subseteq idx'
  <2>1. /\ Past(j, 3) => Cells(vtx, j, Part(j).verts, DC(j).vertexOffset)
        /\ Has(j, "uv") /\ Past(j, 5) => Cells(uv, j, Part(j).verts, DC(j).vertexOffset)
        /\ idx \cap Slice(j) \subseteq IndexBits(j)
        /\ \A k \in Nat : k = 4 + UvAt(j) /\ Past(j, k) => IndexBits(j) \subseteq idx
    BY <1>0 DEF FilledInv
  <2>2. (Past(j, 3)' => Past(j, 3)) /\ (Has(j, "uv") /\ Past(j, 5)' => Past(j, 5))
    <3>1. at[t] # 3 /\ (Has(i, "uv") => at[t] # 5)
      BY <1>2 DEF UvAt
    <3> QED BY <1>4, <3>1
  <2>3. idx' \cap Slice(j) \subseteq IndexBits(j)
        /\ \A k \in Nat : k = 4 + UvAt(j) /\ Past(j, k)' => IndexBits(j) \subseteq idx'
    <3>1. CASE j = i
      BY <1>6, <3>1
    <3>2. CASE j # i
      <4>1. Slice(i) \cap Slice(j) = {}
        BY <1>0, <3>2, SlicesDisjoint
      <4>2. idx' \cap Slice(j) = idx \cap Slice(j)
        BY <1>6, <1>7, <4>1
      <4>3. \A k \in Nat : k = 4 + UvAt(j) /\ Past(j, k)' => IndexBits(j) \subseteq idx
        BY <1>4, <2>1, <3>2
      <4>4. IndexBits(j) \subseteq Slice(j)
        <5>1. j \in 1..Parts /\ opt.packed \in BOOLEAN
          BY <1>0, PartsType, OptionsAssumption DEF PassInv
        <5>2. DC(j).indexOffset \in Nat /\ DC(j).bits \in Nat
          BY <1>0 DEF LayoutInv
        <5> QED BY <1>0, <5>1, <5>2, SliceHolds
      <4> QED BY <2>1, <4>2, <4>3, <4>4
    <3> QED BY <3>1, <3>2
  <2> QED BY <1>1, <2>1, <2>2, <2>3
<1>9. ASSUME NEW s \in Thread, NEW j \in 1..Len(kept), job'[s] = FillSteps(j), sub'[s] = "store"
      PROVE  reg'[s] \subseteq IndexBits(j)
  <2>1. s # t /\ job[s] = FillSteps(j) /\ sub[s] = "store"
    BY <1>0, <1>1, <1>9 DEF Shape
  <2>2. reg'[s] = reg[s]
    BY <1>1, <2>1
  <2> QED BY <1>0, <2>1, <2>2 DEF FilledInv
<1> QED BY <1>3, <1>8, <1>9 DEF FilledInv, SameFill

LEMMA TakeFilled ==
  ASSUME ViewsInv, FilledInv, SameFill, NEW t \in Thread, Take(t)
  PROVE  FilledInv'
<1>0. Shape /\ JobInv /\ pass = "fill"
  BY DEF ViewsInv, SameFill
<1>1. /\ job[t] = <<>> /\ next' = next + 1 /\ UNCHANGED <<sub, vtx, uv, idx, reg>>
      /\ job' = [job EXCEPT ![t] = FillSteps(next)] /\ at' = [at EXCEPT ![t] = 1]
  BY <1>0 DEF Take, Begin, Steps, outVars
<1>2. sub[t] = "start" /\ next \in Nat
  BY <1>0, <1>1 DEF JobInv, Shape
<1>3. \A i : FillSteps(i)' = FillSteps(i) /\ FillSteps(i) # <<>>
  BY FillKept, FillIsSome
<1>4. /\ job'[t] = FillSteps(next) /\ at'[t] = 1
      /\ \A s \in Thread : s # t => job'[s] = job[s] /\ at'[s] = at[s]
  BY <1>0, <1>1 DEF Shape
<1>5. ASSUME NEW i \in 1..Len(kept), NEW k \in Nat, CopiesAt(i, k), Past(i, k)' PROVE Past(i, k)
  <2>1. i < next + 1 /\ \A s \in Thread : job'[s] = FillSteps(i) => at'[s] > k
    BY <1>1, <1>3, <1>5 DEF Past
  <2>2. k >= 3
    <3>1. UvAt(i) \in {0, 3}
      BY FillIsSome
    <3> QED BY <1>5, <3>1 DEF CopiesAt
  <2>3. i # next
    BY <1>4, <2>1, <2>2
  <2>4. i < next
    <3>1. i \in Int
      OBVIOUS
    <3> QED BY <1>2, <2>1, <2>3, <3>1
  <2>5. \A s \in Thread : job[s] = FillSteps(i) => at[s] > k
    BY <1>1, <1>3, <1>4, <2>1
  <2> QED BY <2>4, <2>5 DEF Past
<1>6. \A s \in Thread : sub'[s] = "store" => sub[s] = "store" /\ job'[s] = job[s]
  BY <1>1, <1>2, <1>4
<1> QED BY <1>1, <1>5, <1>6, FillQuiet

\* Nothing is filled yet.
FreshInv == /\ pass \in {"cap", "scan", "reserve"} => idx = {}
            /\ DOMAIN reg = Thread
LEMMA NextFresh ==
  ASSUME ViewsInv, NameInv, FreshInv, [Next]_vars
  PROVE  FreshInv'
<1>1. CASE UNCHANGED vars
  BY <1>1 DEF FreshInv, vars, outVars
<1>2. CASE Main
  <2>1. (pass' \in {"cap", "scan", "reserve"} => pass \in {"cap", "scan", "reserve"} /\ idx' = idx)
        /\ reg' = reg
    BY <1>2 DEF Main, Cap, CountUses, Reserve, Allocate, EndPass, Adopt, Register, Finalize,
                AddMesh, Repeat, Split, Upload, outVars
  <2> QED BY <2>1 DEF FreshInv
<1>3. ASSUME NEW t \in Thread, Take(t) PROVE FreshInv'
  BY <1>3 DEF FreshInv, Take, outVars
<1>4. ASSUME NEW t \in Thread, Task(t), pass' = pass PROVE FreshInv'
  <2>1. DOMAIN reg' = Thread
    BY <1>4 DEF FreshInv, Task, outVars, CopyPositions, CopyUvs, LoadWords, StoreWords
  <2>2. CASE StoreWords(t)
    <3>1. Busy(t) /\ Op(t) = "indices"
      BY <2>2 DEF StoreWords, Doing
    <3>2. WellFormed(job[t]) /\ at[t] \in 1..Len(job[t])
      <4>1. job[t] # <<>> /\ at[t] <= Len(job[t]) /\ at[t] \in Nat \ {0}
        BY <3>1 DEF Busy, ViewsInv, Shape
      <4>2. WellFormed(job[t])
        BY <4>1 DEF ViewsInv, JobInv
      <4>3. Len(job[t]) \in Nat
        BY <4>2 DEF WellFormed
      <4> QED BY <4>1, <4>2, <4>3
    <3>3. at[t] \in 1..MaxSteps /\ Fills(t, at[t])
      <4>1. Len(job[t]) <= MaxSteps /\ Len(job[t]) \in Nat /\ MaxSteps \in Nat
        BY <3>2 DEF WellFormed, MaxSteps
      <4>2. at[t] \in 1..MaxSteps
        BY <3>2, <4>1
      <4> QED BY <3>1, <3>2, <4>2 DEF Fills, Busy, Op
    <3>4. pass = "fill"
      BY <3>3 DEF NameInv
    <3> QED BY <1>4, <2>1, <3>4 DEF FreshInv
  <2>3. CASE ~StoreWords(t)
    <3>1. idx' = idx
      BY <1>4, <2>3 DEF Task, outVars, CopyPositions, CopyUvs, LoadWords
    <3> QED BY <1>4, <2>1, <3>1 DEF FreshInv
  <2> QED BY <2>2, <2>3
<1> QED BY <1>1, <1>2, <1>3, <1>4 DEF Next, Work

LEMMA NextFilled ==
  ASSUME ViewsInv, LayoutInv, SceneInv, TaskInv, FreshInv, FilledInv, [Next]_vars
  PROVE  FilledInv'
<1>0. Shape /\ JobInv
  BY DEF ViewsInv
<1>1. CASE Main
  <2>1. CASE Allocate /\ pass' = "fill"
    <3>1. pass = "reserve" /\ next' = 1 /\ UNCHANGED <<job, sub, idx, kept>>
      BY <2>1 DEF Allocate, threadVars, planVars
    <3>2. idx' = {} /\ \A t \in Thread : job'[t] = <<>>
      BY <1>0, <3>1 DEF FreshInv, JobInv
    <3>3. \A i \in 1..Len(kept) : \A k : ~Past(i, k)'
      BY <3>1 DEF Past
    <3>4. \A i : (FillSteps(i) # <<>>)'
      <4>1. (\A i : /\ FillSteps(i) # <<>> /\ Len(FillSteps(i)) = 6 + UvAt(i) /\ UvAt(i) \in {0, 3}
                    /\ \A j : FillSteps(i) = FillSteps(j) => i = j)'
        BY FillIsSome, PTL
      <4> QED BY <4>1
    <3> QED BY <3>1, <3>2, <3>3, <3>4 DEF FilledInv
  <2>2. CASE ~(Allocate /\ pass' = "fill")
    <3>1. pass' # "fill"
      BY <1>1, <2>2 DEF Main, Cap, CountUses, Reserve, Allocate, EndPass, Adopt, Register, Finalize,
                        AddMesh, Repeat, Split, Upload
    <3> QED BY <3>1 DEF FilledInv
  <2> QED BY <2>1, <2>2
<1>2. ASSUME NEW t \in Thread, Take(t) PROVE FilledInv'
  <2>1. UNCHANGED <<pass, opt, kept, scene>>
    BY <1>2 DEF Take, planVars
  <2>2. CASE pass = "fill"
    BY <1>2, <2>1, <2>2, TakeFilled DEF SameFill
  <2>3. CASE pass # "fill"
    BY <2>1, <2>3 DEF FilledInv
  <2> QED BY <2>2, <2>3
<1>3. ASSUME NEW t \in Thread, Task(t), UNCHANGED <<pass, next, planVars, gpu>> PROVE FilledInv'
  <2>1. UNCHANGED <<pass, opt, kept, scene, next>>
    BY <1>3 DEF planVars
  <2>2. CASE pass = "fill"
    <3>1. SameFill
      BY <2>1, <2>2 DEF SameFill
    <3>2. CASE /\ Check(t) \/ Lock(t) \/ Decode(t) \/ Read(t) \/ Drop(t) \/ Free(t) \/ Clear(t)
               /\ UNCHANGED outVars
      BY <2>1, <3>1, <3>2, ViewSteps
    <3>3. CASE Return(t) /\ UNCHANGED outVars
      BY <2>1, <3>1, <3>3, ReturnFilled
    <3>4. CASE CopyPositions(t) \/ CopyUvs(t)
      BY <2>1, <3>1, <3>4, CopyFilled
    <3>5. CASE LoadWords(t)
      BY <2>1, <3>1, <3>5, LoadFilled DEF FreshInv
    <3>6. CASE StoreWords(t)
      BY <2>1, <3>1, <3>6, StoreFilled DEF FreshInv
    <3> QED BY <1>3, <3>2, <3>3, <3>4, <3>5, <3>6 DEF Task
  <2>3. CASE pass # "fill"
    BY <2>1, <2>3 DEF FilledInv
  <2> QED BY <2>2, <2>3
<1>4. CASE UNCHANGED vars
  <2>1. UNCHANGED <<pass, opt, kept, scene, next, job, at, sub, vtx, uv, idx, reg>>
    BY <1>4 DEF vars, threadVars, planVars, outVars
  <2>2. CASE pass = "fill"
    <3>1. SameFill
      BY <2>1, <2>2 DEF SameFill
    <3>2. \A i : FillSteps(i)' = FillSteps(i)
      BY <3>1, FillKept
    <3>3. \A i : \A k : Past(i, k)' => Past(i, k)
      BY <2>1, <3>2 DEF Past
    <3> QED BY <2>1, <3>1, <3>3, FillQuiet
  <2>3. CASE pass # "fill"
    BY <2>1, <2>3 DEF FilledInv
  <2> QED BY <2>2, <2>3
<1> QED BY <1>1, <1>2, <1>3, <1>4 DEF Next, Work

-----------------------------------------------------------------------------
(* What is filled stays, copied or built.                                  *)

\* The vertices a draw call names.
HasVertices(vs, us, i, p, dc) ==
  /\ Cells(vs, i, p.verts, dc.vertexOffset)
  /\ p.uv => Cells(us, i, p.verts, dc.vertexOffset)

\* A unit of an offset, in bits.
BitsIn(packed) == IF packed THEN 1 ELSE WordBits

PlacedInv ==
  /\ pass \in {"build", "register", "loaded"} =>
       \A i \in 1..Len(scene.dcs) : HasVertices(vtx, uv, i, AllWanted[i], scene.dcs[i])
  /\ pass \in {"split", "uploaded", "registered"} =>
       \A d \in 1..Len(scene.dcs) :
         HasVertices(vtx, uv, Base(d, Parts), AllWanted[Base(d, Parts)], scene.dcs[d])
  /\ pass \in {"build", "loaded"} =>
       \A i \in 1..Len(scene.dcs) : InPlace(idx, scene.dcs[i], AllWanted[i], opt.packed)
  /\ pass = "split" =>
       \A d \in 1..Len(scene.dcs) : InPlace(idx, scene.dcs[d], AllWanted[Base(d, Parts)], opt.packed)
  /\ pass = "build" => \A x \in idx : x \in Int /\ x < nextIndex * BitsIn(opt.packed)

\* The bits of some indices lie behind their offset and before their end.
LEMMA WrittenBetween ==
  ASSUME NEW packed \in BOOLEAN, NEW index, NEW L \in Nat, DOMAIN index = 1..L,
         NEW offset \in Nat, NEW bits \in Nat, NEW min, NEW end \in Int,
         offset + L * (IF packed THEN bits ELSE 1) <= end,
         NEW x \in BitsWritten(packed, index, offset, bits, min)
  PROVE  x \in Int /\ offset * BitsIn(packed) <= x /\ x < end * BitsIn(packed)
<1> DEFINE u == BitsIn(packed)
           e == offset + L * (IF packed THEN bits ELSE 1)
           w == IF packed THEN bits ELSE 1
<1>1. PICK k \in 0..(L - 1), b \in 0..(IndexWidth(packed, bits) - 1) :
        x = IndexStart(packed, offset, bits, k) + b
  BY WrittenInFields
<1>2. x \in (offset * u)..(e * u - 1)
  BY <1>1, FieldBounds DEF BitsIn
<1>3. u \in Nat \ {0}
  BY LayoutAssumption DEF BitsIn
<1>4. w \in Nat
  OBVIOUS
<1> HIDE DEF w, u
<1>5. e \in Nat
  <2>1. L * w \in Nat
    BY <1>4
  <2> QED BY <2>1 DEF w
<1> HIDE DEF e
<1>6. (end - e) * u \in Nat /\ (end - e) * u = end * u - e * u /\ e * u \in Nat /\ offset * u \in Nat
      /\ end * u \in Int
  <2>1. end - e \in Nat
    BY <1>5 DEF e
  <2> QED BY <1>3, <1>5, <2>1
<1>7. x \in Int /\ offset * u <= x /\ x < end * u
  BY <1>2, <1>6
<1> QED BY <1>7 DEF u

\* What is written behind a draw call leaves its indices alone.
LEMMA WrittenBehind ==
  ASSUME NEW packed \in BOOLEAN, NEW dc, IsDraw(dc, packed), NEW p, NEW bits, InPlace(bits, dc, p, packed),
         NEW end \in Nat, EndAt(dc, packed) <= end,
         NEW more, \A x \in more : x \in Int /\ end * BitsIn(packed) <= x
  PROVE  InPlace(bits \cup more, dc, p, packed)
<1> DEFINE u == BitsIn(packed)
           e == EndAt(dc, packed)
           L == 3 * dc.triangles
<1>1. u \in Nat \ {0}
  BY LayoutAssumption DEF BitsIn
<1>2. e \in Nat /\ L \in Nat /\ dc.indexOffset \in Nat /\ dc.bits \in Nat
  BY EndFacts DEF IsDraw
<1>3. e = dc.indexOffset + L * (IF packed THEN dc.bits ELSE 1)
  BY DEF EndAt
<1>4. ASSUME NEW k \in 0..(L - 1), NEW b \in 0..(IndexWidth(packed, dc.bits) - 1)
      PROVE  IndexStart(packed, dc.indexOffset, dc.bits, k) + b \notin more
  <2> DEFINE x == IndexStart(packed, dc.indexOffset, dc.bits, k) + b
  <2> HIDE DEF L
  <2>1. x \in (dc.indexOffset * u)..(e * u - 1)
    BY <1>2, <1>3, <1>4, FieldBounds DEF BitsIn
  <2> HIDE DEF x, u, e
  <2>2. (end - e) * u \in Nat /\ (end - e) * u = end * u - e * u /\ e * u \in Nat
        /\ end * u \in Nat /\ dc.indexOffset * u \in Nat
    <3>1. end - e \in Nat
      BY <1>2 DEF e
    <3> QED BY <1>1, <1>2, <3>1
  <2>3. x \in Int /\ x < end * u
    BY <2>1, <2>2
  <2>4. x \notin more
    BY <2>2, <2>3 DEF u
  <2> QED BY <2>4 DEF x
<1> QED BY <1>4 DEF InPlace, L

LEMMA WrittenHere ==
  ASSUME NEW packed \in BOOLEAN, NEW dc, IsDraw(dc, packed), NEW p, NEW bits,
         \A x \in bits : x \in Int /\ x < dc.indexOffset * BitsIn(packed),
         NEW more, more = BitsWritten(packed, p.index, dc.indexOffset, dc.bits, p.min)
  PROVE  InPlace(bits \cup more, dc, p, packed)
<1> DEFINE u == BitsIn(packed)
           L == 3 * dc.triangles
           o == dc.indexOffset
<1>1. u \in Nat \ {0}
  BY LayoutAssumption DEF BitsIn
<1>2. L \in Nat /\ o \in Nat /\ dc.bits \in Nat
  BY DEF IsDraw
<1>3. ASSUME NEW k \in 0..(L - 1), NEW b \in 0..(IndexWidth(packed, dc.bits) - 1)
      PROVE  IndexStart(packed, dc.indexOffset, dc.bits, k) + b \notin bits
  <2> DEFINE x == IndexStart(packed, o, dc.bits, k) + b
             e == (o + L * (IF packed THEN dc.bits ELSE 1)) * u - 1
  <2> HIDE DEF L, o
  <2>1. x \in (o * u)..e
    BY <1>2, <1>3, FieldBounds DEF BitsIn
  <2> HIDE DEF x, u, e
  <2>2. \A y : y \in (o * u)..e => y \in Int /\ o * u <= y
    <3>1. o * u \in Nat
      BY <1>1, <1>2
    <3> QED BY <3>1
  <2>3. x \notin bits
    <3>1. \A y \in bits : y \in Int /\ y < o * u
      BY DEF u, o
    <3>2. o * u \in Nat
      BY <1>1, <1>2
    <3> QED BY <2>1, <2>2, <3>1, <3>2
  <2> QED BY <2>3 DEF x, o
<1> QED BY <1>3 DEF InPlace, L

\* Only what a file has has texture coordinates, and not in the registry.
LEMMA Untextured ==
  ASSUME Shape, NEW i \in 1..Parts, Generated \/ opt.registry
  PROVE  ~Wanted(i).uv
<1>1. Wanted(i).uv = Textured(i)
  BY DEF Wanted
<1>2. CASE opt.registry
  BY <1>1, <1>2 DEF Textured
<1>3. CASE Generated
  <2> DEFINE G == [verts : 0..(Pow2[WordBits]), index : Seq(Nat), instances : Nat]
  <2>1. opt.generated \in Seq(G)
    BY OptionsAssumption DEF Shape
  <2>2. Part(i) = opt.generated[i] /\ i \in 1..Len(opt.generated)
    BY <1>3 DEF Part, Parts
  <2>3. Part(i) \in G
    <3> HIDE DEF G
    <3> QED BY <2>1, <2>2, LenProperties
  <2>4. DOMAIN Part(i) = {"verts", "index", "instances"}
    BY <2>3
  <2>5. "uv" \notin DOMAIN Part(i)
    BY <2>4
  <2> QED BY <1>1, <2>5 DEF Textured, Has
<1> QED BY <1>2, <1>3

\* One more part, its vertices copied to the end.
LEMMA VerticesNext ==
  ASSUME Shape, Drafted(scene.dcs, scene.matrices, nextVertex, AllWanted, opt.packed),
         Generated \/ opt.registry, NEW i \in 1..Parts, i = Len(scene.dcs) + 1,
         \A j \in 1..Len(scene.dcs) : HasVertices(vtx, uv, j, AllWanted[j], scene.dcs[j]),
         NEW first, NEW dc, IsNew(dc, i, first), NEW a, a = Append(scene.dcs, dc),
         NEW v, v = Copied(vtx, i, nextVertex)
  PROVE  /\ Len(a) = i /\ a[i] = dc /\ \A j \in 1..Len(scene.dcs) : a[j] = scene.dcs[j]
         /\ \A j \in 1..Len(a) : HasVertices(v, uv, j, AllWanted[j], a[j])
<1> DEFINE n == Len(scene.dcs)
<1>1. n \in Nat /\ scene.dcs = [d \in 1..n |-> scene.dcs[d]] /\ nextVertex \in Nat
  BY DEF Drafted, Numbered
<1>2. Len(a) = n + 1 /\ a[n + 1] = dc /\ \A j \in 1..n : a[j] = scene.dcs[j]
  <2> HIDE DEF n
  <2> QED BY <1>1, AppendIs
<1>3. \A j \in 1..Parts : AllWanted[j] = Wanted(j) /\ Wanted(j).verts = Part(j).verts /\ ~Wanted(j).uv
                          /\ Part(j).verts \in Nat
  <2>1. \A j \in 1..Parts : IsPart(Wanted(j), opt.packed) /\ Wanted(j).verts = Part(j).verts
    BY WantedFacts DEF Wanted
  <2> QED BY <2>1, Untextured DEF AllWanted, IsPart
<1>4. /\ Cells(v, i, Part(i).verts, nextVertex)
      /\ \A j : \A m, f \in Nat :
           Cells(vtx, j, m, f) /\ (f + m <= nextVertex \/ nextVertex + Part(i).verts <= f) => Cells(v, j, m, f)
  BY <1>1, <1>3, CopiedCells
<1>5. \A j \in 1..n : j \in 1..Parts
  BY <1>1, PartsType
<1>6. ASSUME NEW j \in 1..n PROVE HasVertices(v, uv, j, AllWanted[j], a[j])
  <2>1. /\ scene.dcs[j].vertexOffset \in Nat
        /\ scene.dcs[j].vertexOffset + AllWanted[j].verts <= nextVertex
    BY DEF Drafted, IsCall
  <2>2. Cells(vtx, j, AllWanted[j].verts, scene.dcs[j].vertexOffset)
    BY DEF HasVertices
  <2>3. AllWanted[j].verts \in Nat /\ ~AllWanted[j].uv
    BY <1>3, <1>5
  <2>4. Cells(v, j, AllWanted[j].verts, scene.dcs[j].vertexOffset)
    BY <1>4, <2>1, <2>2, <2>3
  <2> QED BY <1>2, <2>3, <2>4 DEF HasVertices
<1>7. HasVertices(v, uv, n + 1, AllWanted[n + 1], a[n + 1])
  <2>1. a[n + 1].vertexOffset = nextVertex /\ n + 1 = i
    BY <1>2 DEF IsNew
  <2>2. AllWanted[i].verts = Part(i).verts /\ ~AllWanted[i].uv
    BY <1>3
  <2> QED BY <1>4, <2>1, <2>2 DEF HasVertices
<1>8. \A j \in 1..(n + 1) : j \in 1..n \/ j = n + 1
  <2> HIDE DEF n
  <2> QED BY <1>1
<1> QED BY <1>2, <1>6, <1>7, <1>8

\* What leaves the output alone.
LEMMA PlacedKept ==
  ASSUME PlacedInv, UNCHANGED <<opt, kept, scene>>,
         \/ pass' \notin {"build", "register", "loaded", "split", "uploaded", "registered"}
         \/ pass' = "register" /\ scene.dcs = <<>>
         \/ /\ UNCHANGED <<nextIndex, vtx, uv, idx>>
            /\ pass' = pass \/ (pass = "split" /\ pass' = "uploaded")
  PROVE  PlacedInv'
<1>1. AllWanted' = AllWanted /\ Parts' = Parts
  BY WantedKept
<1>2. CASE pass' \notin {"build", "register", "loaded", "split", "uploaded", "registered"}
  BY <1>2 DEF PlacedInv
<1>3. CASE pass' = "register" /\ scene.dcs = <<>>
  <2>1. \A i \in 1..Len(scene'.dcs) : FALSE
    BY <1>3
  <2> QED BY <1>3, <2>1 DEF PlacedInv
<1>4. CASE /\ UNCHANGED <<nextIndex, vtx, uv, idx>>
           /\ pass' = pass \/ (pass = "split" /\ pass' = "uploaded")
  BY <1>1, <1>4 DEF PlacedInv
<1> QED BY <1>2, <1>3, <1>4

LEMMA RegisterPlaced == ASSUME ViewsInv, DrawsInv, SceneInv, PlacedInv, Register PROVE PlacedInv'
<1> DEFINE p == Part(next)
           range == IF Generated THEN <<0, p.verts - 1>> ELSE IndexRange(p)
           bits == IF opt.packed THEN BitsFor(range[2] - range[1] + 1) ELSE 0
           v == IF Generated THEN [k \in 1..p.instances |-> k] ELSE Transforms(p.mesh)
           nd == NewDrawCall(next, bits, range[1], Len(v), Len(scene.matrices))
           dc == [nd EXCEPT !.chunk = next]
           a == Append(scene.dcs, dc)
           Vs == Copied(vtx, next, nextVertex)
<1>0. Shape
  BY DEF ViewsInv
<1>1. /\ pass = "register" /\ pass' = pass /\ next <= Parts
      /\ scene'.dcs = a /\ vtx' = Vs /\ uv' = uv /\ UNCHANGED <<opt, kept>>
  BY DEF Register
<1>2. next \in 1..Parts
  BY <1>0, <1>1, PartsType DEF Shape
<1>3. Len(scene.dcs) = next - 1 /\ opt.registry
      /\ Drafted(scene.dcs, scene.matrices, nextVertex, AllWanted, opt.packed)
  BY <1>1 DEF DrawsInv, SceneInv
<1>4. next = Len(scene.dcs) + 1
  BY <1>2, <1>3
<1>5. v = Wanted(next).visits
  BY DEF Wanted, Visits
<1>6. bits = Wanted(next).bits /\ range[1] = Wanted(next).min
  BY DEF Wanted, RangeIn
<1> HIDE DEF bits, range, v
<1>7. IsNew(dc, next, Len(scene.matrices))
  BY <1>5, <1>6, NewIs
<1>8. \A j \in 1..Len(scene.dcs) : HasVertices(vtx, uv, j, AllWanted[j], scene.dcs[j])
  BY <1>1 DEF PlacedInv
<1>9. \A j \in 1..Len(a) : HasVertices(Vs, uv, j, AllWanted[j], a[j])
  <2>1. a = Append(scene.dcs, dc) /\ Vs = Copied(vtx, next, nextVertex)
    OBVIOUS
  <2> HIDE DEF a, Vs, dc
  <2> QED BY <1>0, <1>2, <1>3, <1>4, <1>7, <1>8, <2>1, VerticesNext
<1>10. AllWanted' = AllWanted
  BY <1>1, WantedKept
<1> HIDE DEF a, Vs
<1> QED BY <1>1, <1>9, <1>10 DEF PlacedInv

LEMMA AddMeshPlaced == ASSUME ViewsInv, DrawsInv, SceneInv, PlacedInv, AddMesh PROVE PlacedInv'
<1> DEFINE p == Part(next)
           bits == IF opt.packed THEN BitsFor(p.verts) ELSE 0
           dc == NewDrawCall(next, bits, 0, p.instances, Len(scene.matrices))
           a == Append(scene.dcs, dc)
           Vs == Copied(vtx, next, nextVertex)
           more == IF opt.packed THEN PackedBits(p.index, nextIndex, bits, 0)
                                 ELSE RawBits(p.index, nextIndex)
           n == Len(p.index)
           e == IF ~opt.packed THEN nextIndex + n
                ELSE IF bits = 0 THEN nextIndex
                ELSE nextIndex + (CeilDiv(n * bits, WordBits) + 1) * WordBits
<1>0. Shape /\ opt.packed \in BOOLEAN
  BY OptionsAssumption DEF ViewsInv, Shape
<1>1. /\ pass = "build" /\ pass' \in {"build", "loaded"} /\ next <= Len(opt.generated)
      /\ scene'.dcs = a /\ vtx' = Vs /\ uv' = uv /\ idx' = idx \cup more /\ nextIndex' = e
      /\ UNCHANGED <<opt, kept>>
  BY DEF AddMesh
<1>2. Generated /\ Parts = Len(opt.generated) /\ next \in 1..Parts
  <2>1. Generated
    BY <1>1 DEF DrawsInv
  <2> QED BY <1>0, <1>1, <2>1, PartsType DEF Parts, Shape
<1>3. Laid(scene.dcs, nextIndex, opt.packed) /\ Len(scene.dcs) = next - 1 /\ nextIndex \in Nat
      /\ Drafted(scene.dcs, scene.matrices, nextVertex, AllWanted, opt.packed)
  BY <1>1 DEF DrawsInv, Laid, SceneInv
<1>4. next = Len(scene.dcs) + 1
  BY <1>2, <1>3
<1>5. Wanted(next).visits = [k \in 1..p.instances |-> k] /\ Wanted(next).min = 0
      /\ Wanted(next).index = p.index
  BY <1>2 DEF Wanted, Visits, RangeIn
<1>6. bits = Wanted(next).bits
  <2> DEFINE x == p.verts
  <2>1. Wanted(next).bits = IF opt.packed THEN BitsFor((x - 1) - 0 + 1) ELSE 0
    BY <1>2 DEF Wanted, RangeIn
  <2>2. x \in 0..(Pow2[WordBits])
    BY <1>0, <1>2, PartFacts
  <2> HIDE DEF x
  <2>3. Pow2[WordBits] \in Nat
    BY PowersOfTwo, LayoutAssumption
  <2>4. (x - 1) - 0 + 1 = x
    BY <2>2, <2>3
  <2> QED BY <2>1, <2>4 DEF x
<1>7. p.instances = Len(Wanted(next).visits)
  <2>1. p.instances \in Nat
    <3> DEFINE G == [verts : 0..(Pow2[WordBits]), index : Seq(Nat), instances : Nat]
    <3>1. opt.generated \in Seq(G)
      BY <1>0, OptionsAssumption DEF Shape
    <3>2. p = opt.generated[next] /\ next \in 1..Len(opt.generated)
      BY <1>2 DEF Part
    <3>3. p \in G
      <4> HIDE DEF G, p
      <4> QED BY <3>1, <3>2, LenProperties
    <3> HIDE DEF p
    <3> QED BY <3>3
  <2> QED BY <1>5, <2>1
<1>8. IsPart(Wanted(next), opt.packed)
  BY <1>0, <1>2, WantedFacts
<1>9. bits \in Nat /\ (~opt.packed => bits = 0) /\ n \in Nat /\ DOMAIN p.index = 1..n
  BY <1>5, <1>6, <1>8 DEF IsPart
<1> HIDE DEF bits
<1>10. IsNew(dc, next, Len(scene.matrices))
  BY <1>5, <1>6, <1>7, NewIs
<1>11. \A j \in 1..Len(scene.dcs) : /\ HasVertices(vtx, uv, j, AllWanted[j], scene.dcs[j])
                                    /\ InPlace(idx, scene.dcs[j], AllWanted[j], opt.packed)
  BY <1>1 DEF PlacedInv
<1>12. /\ Len(a) = next /\ a[next] = dc /\ \A j \in 1..Len(scene.dcs) : a[j] = scene.dcs[j]
       /\ \A j \in 1..Len(a) : HasVertices(Vs, uv, j, AllWanted[j], a[j])
  <2>1. a = Append(scene.dcs, dc) /\ Vs = Copied(vtx, next, nextVertex)
    OBVIOUS
  <2> HIDE DEF a, Vs, dc
  <2> QED BY <1>0, <1>2, <1>3, <1>4, <1>10, <1>11, <2>1, VerticesNext
<1>13. AllWanted' = AllWanted /\ AllWanted[next] = Wanted(next)
  BY <1>1, <1>2, WantedKept DEF AllWanted
<1>14. dc.indexOffset = nextIndex /\ dc.bits = bits /\ IsDraw(dc, opt.packed)
  <2>1. dc.indexOffset = nextIndex /\ dc.bits = bits /\ dc.triangles = Triangles(Part(next))
        /\ DOMAIN dc = CallFields
    BY <1>6, <1>10 DEF IsNew
  <2>2. Triangles(Part(next)) \in Nat
    BY <1>8 DEF IsPart, Wanted
  <2> HIDE DEF dc
  <2> QED BY <1>3, <1>9, <2>1, <2>2 DEF IsDraw, CallFields
<1> HIDE DEF a, V, dc
<1>15. more = BitsWritten(opt.packed, Wanted(next).index, dc.indexOffset, dc.bits, Wanted(next).min)
  BY <1>5, <1>14 DEF BitsWritten
<1> HIDE DEF more
\* The range that the bits of the mesh take.
<1>16. e \in Nat /\ nextIndex <= e /\ nextIndex + n * (IF opt.packed THEN bits ELSE 1) <= e
  <2> HIDE DEF n
  <2>1. n * bits \in Nat /\ n * 0 = 0 /\ n * 1 = n /\ n \in Nat
    BY <1>9
  <2>2. CASE opt.packed /\ bits # 0
    <3> DEFINE c == CeilDiv(n * bits, WordBits)
    <3>1. WordBits \in Nat \ {0}
      BY LayoutAssumption
    <3>2. c \in Nat /\ n * bits <= c * WordBits
      BY <2>1, <3>1, CeilDivBounds
    <3>3. e = nextIndex + (c + 1) * WordBits
      BY <2>2
    <3> HIDE DEF c, e
    <3>4. c * WordBits \in Nat /\ (c + 1) * WordBits = c * WordBits + WordBits
      BY <3>1, <3>2
    <3> QED BY <1>3, <2>1, <2>2, <3>1, <3>2, <3>3, <3>4
  <2>3. CASE opt.packed /\ bits = 0
    BY <1>3, <2>1, <2>3
  <2>4. CASE ~opt.packed
    BY <1>3, <2>1, <2>4
  <2> QED BY <2>2, <2>3, <2>4
<1> HIDE DEF e
<1>17. \A x \in more : x \in Int /\ nextIndex * BitsIn(opt.packed) <= x /\ x < e * BitsIn(opt.packed)
  <2> SUFFICES ASSUME NEW x \in more
               PROVE  x \in Int /\ nextIndex * BitsIn(opt.packed) <= x /\ x < e * BitsIn(opt.packed)
    OBVIOUS
  <2>1. x \in BitsWritten(opt.packed, p.index, nextIndex, bits, 0)
    BY <1>5, <1>14, <1>15
  <2>2. nextIndex + n * (IF opt.packed THEN bits ELSE 1) <= e /\ e \in Int
    BY <1>16
  <2> HIDE DEF n, p
  <2> QED BY <1>0, <1>3, <1>9, <2>1, <2>2, WrittenBetween
<1>18. \A x \in idx : x \in Int /\ x < nextIndex * BitsIn(opt.packed)
  BY <1>1 DEF PlacedInv
<1>19. \A j \in 1..Len(a) : InPlace(idx \cup more, a[j], AllWanted[j], opt.packed)
  <2>1. InPlace(idx \cup more, dc, Wanted(next), opt.packed)
    BY <1>0, <1>14, <1>15, <1>18, WrittenHere
  <2>2. ASSUME NEW j \in 1..Len(scene.dcs) PROVE InPlace(idx \cup more, a[j], AllWanted[j], opt.packed)
    <3>1. IsDraw(scene.dcs[j], opt.packed) /\ EndAt(scene.dcs[j], opt.packed) <= nextIndex
      BY <1>3 DEF Laid
    <3>2. InPlace(idx \cup more, scene.dcs[j], AllWanted[j], opt.packed)
      BY <1>0, <1>3, <1>11, <1>17, <3>1, WrittenBehind
    <3> QED BY <1>12, <3>2
  <2>3. \A j \in 1..Len(a) : j \in 1..Len(scene.dcs) \/ j = next
    BY <1>2, <1>3, <1>12
  <2> QED BY <1>12, <1>13, <2>1, <2>2, <2>3
<1>20. \A x \in idx \cup more : x \in Int /\ x < e * BitsIn(opt.packed)
  <2> DEFINE u == BitsIn(opt.packed)
  <2>1. u \in Nat \ {0}
    BY LayoutAssumption DEF BitsIn
  <2> HIDE DEF u
  <2>2. nextIndex * u \in Nat /\ e * u \in Nat /\ nextIndex * u <= e * u
    <3>1. (e - nextIndex) * u \in Nat
      BY <1>3, <1>16, <2>1
    <3>2. (e - nextIndex) * u = e * u - nextIndex * u /\ nextIndex * u \in Nat /\ e * u \in Nat
      BY <1>3, <1>16, <2>1
    <3> QED BY <3>1, <3>2
  <2>3. \A x \in idx : x \in Int /\ x < nextIndex * u
    BY <1>18 DEF u
  <2>4. \A x \in idx : x \in Int /\ x < e * u
    BY <2>2, <2>3
  <2> QED BY <1>17, <2>4 DEF u
<1> QED BY <1>1, <1>12, <1>13, <1>19, <1>20 DEF PlacedInv

\* The tasks are done when the pass ends.
LEMMA FilledPlaced ==
  ASSUME ViewsInv, LayoutInv, DrawsInv, SceneInv, FilledInv, EndPass
  PROVE  PlacedInv'
<1>0. Shape /\ PassInv
  BY DEF ViewsInv
<1>1. UNCHANGED <<opt, kept, scene, vtx, uv, idx, nextIndex>> /\ pass \in {"scan", "fill"}
      /\ pass' = (IF pass = "scan" THEN IF opt.registry THEN "adopt" ELSE "reserve"
                  ELSE IF kept = <<>> THEN "failed" ELSE "loaded")
      /\ next > Len(kept) /\ \A t \in Thread : job[t] = <<>>
  BY DEF EndPass, planVars, outVars
<1>2. CASE pass' # "loaded"
  BY <1>1, <1>2 DEF PlacedInv
<1>3. CASE pass' = "loaded"
  <2>1. pass = "fill" /\ ~Generated /\ Parts = Len(kept) /\ opt.packed \in BOOLEAN
        /\ Len(scene.dcs) = Len(kept) /\ Len(kept) \in Nat
    BY <1>0, <1>1, <1>3, PartsType, OptionsAssumption, LenProperties DEF PassInv, LayoutInv, Shape
  <2>2. \A i \in 1..Len(kept) : \A k : Past(i, k)
    <3>1. \A i : FillSteps(i) # <<>>
      BY FillIsSome
    <3>2. \A i \in 1..Len(kept) : i < next
      BY <1>0, <1>1, <2>1 DEF Shape
    <3> QED BY <1>1, <3>1, <3>2 DEF Past
  <2>3. Drafted(scene.dcs, scene.matrices, nextVertex, AllWanted, opt.packed)
    BY <2>1 DEF SceneInv
  <2>4. ASSUME NEW i \in 1..Len(scene.dcs)
        PROVE  /\ HasVertices(vtx, uv, i, AllWanted[i], scene.dcs[i])
               /\ InPlace(idx, scene.dcs[i], AllWanted[i], opt.packed)
    <3>1. i \in 1..Parts /\ i \in 1..Len(kept) /\ DC(i) = scene.dcs[i] /\ AllWanted[i] = Wanted(i)
      BY <2>1 DEF DC, AllWanted
    <3>2. Wanted(i).verts = Part(i).verts /\ (Wanted(i).uv => Has(i, "uv"))
      BY DEF Wanted, Textured
    <3>3. /\ Cells(vtx, i, Part(i).verts, DC(i).vertexOffset)
          /\ Has(i, "uv") => Cells(uv, i, Part(i).verts, DC(i).vertexOffset)
          /\ idx \cap Slice(i) \subseteq IndexBits(i)
          /\ \A k \in Nat : k = 4 + UvAt(i) => IndexBits(i) \subseteq idx
      BY <2>1, <2>2, <3>1 DEF FilledInv
    <3>4. IndexBits(i) \subseteq idx
      <4>1. 4 + UvAt(i) \in Nat
        BY DEF UvAt
      <4> QED BY <3>3, <4>1
    <3>5. IsCall(DC(i), Wanted(i), scene.matrices, 0, opt.packed)
      BY <2>3, <3>1 DEF Drafted
    <3>6. IndexBits(i) \subseteq Slice(i)
      <4>1. DC(i).indexOffset \in Nat /\ DC(i).bits \in Nat
        BY <2>1, <3>1 DEF LayoutInv
      <4> QED BY <1>0, <2>1, <3>1, <4>1, SliceHolds
    <3>7. InPlace(idx, DC(i), Wanted(i), opt.packed)
      <4>1. idx \cap Slice(i) = IndexBits(i)
        BY <3>3, <3>4, <3>6
      <4> QED BY <1>0, <2>1, <3>1, <3>5, <4>1, SliceInPlace
    <3> QED BY <3>1, <3>2, <3>3, <3>7 DEF HasVertices
  <2>5. AllWanted' = AllWanted
    BY <1>1, WantedKept
  <2> QED BY <1>1, <1>3, <2>4, <2>5 DEF PlacedInv
<1> QED BY <1>2, <1>3

LEMMA RepeatPlaced == ASSUME ViewsInv, DrawsInv, SceneInv, PlacedInv, Repeat PROVE PlacedInv'
<1> DEFINE w == Replicate(scene, opt.copies)
           c == opt.copies
           n == Parts
<1>0. Shape /\ c \in Nat \ {0}
  BY OptionsAssumption DEF ViewsInv, Shape
<1>1. pass = "loaded" /\ pass' = "split" /\ scene' = w /\ UNCHANGED <<opt, kept, vtx, uv, idx>>
  BY DEF Repeat, outVars
<1>2. Drafted(scene.dcs, scene.matrices, nextVertex, AllWanted, opt.packed)
      /\ Len(scene.dcs) = n /\ n \in Nat \ {0}
      /\ \A i \in 1..n : /\ HasVertices(vtx, uv, i, AllWanted[i], scene.dcs[i])
                         /\ InPlace(idx, scene.dcs[i], AllWanted[i], opt.packed)
  BY <1>0, <1>1, PartsType DEF DrawsInv, SceneInv, PlacedInv
<1>3. AllWanted' = AllWanted /\ Parts' = n
  BY <1>1, WantedKept
<1> HIDE DEF n, c
<1>4. w = Replicate(scene, c)
  BY DEF c
<1> HIDE DEF w
<1>5. /\ Scened(w.dcs, w.matrices, c, n, AllWanted, opt.packed)
      /\ \A d \in 1..(c * n) :
           /\ w.dcs[d].vertexOffset = scene.dcs[Base(d, n)].vertexOffset
           /\ w.dcs[d].indexOffset = scene.dcs[Base(d, n)].indexOffset
  <2>1. Drafted(scene.dcs, scene.matrices, nextVertex, AllWanted, opt.packed) /\ Len(scene.dcs) = n
        /\ n \in Nat \ {0} /\ c \in Nat \ {0} /\ w = Replicate(scene, c)
    BY <1>0, <1>2, <1>4
  <2>2. Scened(w.dcs, w.matrices, c, n, AllWanted, opt.packed) /\ KeepsOffsets(w.dcs, scene.dcs, c * n, n)
    BY <2>1, ReplicatedScene
  <2> QED BY <2>2 DEF KeepsOffsets
<1>6. ASSUME NEW d \in 1..Len(w.dcs)
      PROVE  /\ HasVertices(vtx, uv, Base(d, n), AllWanted[Base(d, n)], w.dcs[d])
             /\ InPlace(idx, w.dcs[d], AllWanted[Base(d, n)], opt.packed)
  <2> DEFINE b == Base(d, n)
             p == AllWanted[b]
  <2>1. d \in 1..(c * n) /\ Len(w.dcs) = c * n
    BY <1>5 DEF Scened
  <2>2. b \in 1..n
    BY <1>0, <1>2, <2>1, CopyOf
  <2>3. IsCall(w.dcs[d], p, w.matrices, (d - 1) \div n, opt.packed)
        /\ IsCall(scene.dcs[b], p, scene.matrices, 0, opt.packed)
    BY <1>2, <1>5, <2>1, <2>2 DEF Scened, Drafted
  <2>4. w.dcs[d].vertexOffset = scene.dcs[b].vertexOffset /\ w.dcs[d].indexOffset = scene.dcs[b].indexOffset
        /\ w.dcs[d].bits = scene.dcs[b].bits /\ w.dcs[d].triangles = scene.dcs[b].triangles
    BY <1>5, <2>1, <2>3 DEF IsCall
  <2>5. HasVertices(vtx, uv, b, p, scene.dcs[b]) /\ InPlace(idx, scene.dcs[b], p, opt.packed)
    BY <1>2, <2>2
  <2> HIDE DEF b, p
  <2> QED BY <2>4, <2>5 DEF HasVertices, InPlace, b, p
<1> QED BY <1>1, <1>3, <1>6 DEF PlacedInv

LEMMA FinalizePlaced == ASSUME ViewsInv, DrawsInv, PlacedInv, Finalize PROVE PlacedInv'
<1>0. Shape
  BY DEF ViewsInv
<1>1. pass = "register" /\ pass' = "registered" /\ next > Parts
      /\ UNCHANGED <<opt, kept, scene, vtx, uv>>
  BY DEF Finalize, planVars, outVars
<1>2. Len(scene.dcs) = Parts /\ Parts \in Nat
  <2>1. Len(scene.dcs) = next - 1 /\ next <= Parts + 1
    BY <1>1 DEF DrawsInv
  <2> QED BY <1>0, <1>1, <2>1, PartsType DEF Shape
<1>3. AllWanted' = AllWanted /\ Parts' = Parts
  BY <1>1, WantedKept
<1>4. \A d \in 1..Parts : Base(d, Parts) = d
  <2> DEFINE n == Parts
  <2> HIDE DEF n
  <2>1. \A d \in 1..n : n \in Nat \ {0} /\ d \in Nat \ {0} /\ d <= n
    BY <1>2 DEF n
  <2> QED BY <2>1, BaseFacts DEF n
<1>5. \A i \in 1..Len(scene.dcs) : HasVertices(vtx, uv, i, AllWanted[i], scene.dcs[i])
  BY <1>1 DEF PlacedInv
<1> QED BY <1>1, <1>2, <1>3, <1>4, <1>5 DEF PlacedInv

LEMMA InitPlaced == ASSUME Init PROVE PlacedInv
<1>1. scene.dcs = <<>> /\ idx = {} /\ pass \in {"cap", "register", "build"}
  BY DEF Init
<1>2. \A i \in 1..Len(scene.dcs) : FALSE
  BY <1>1
<1> QED BY <1>1, <1>2 DEF PlacedInv

LEMMA NextPlaced ==
  ASSUME ViewsInv, LayoutInv, DrawsInv, SceneInv, NameInv, FilledInv, PlacedInv, [Next]_vars
  PROVE  PlacedInv'
<1>1. CASE Cap \/ CountUses \/ Allocate \/ Reserve
  <2>1. pass' \notin {"build", "register", "loaded", "split", "uploaded", "registered"}
    BY <1>1 DEF Cap, CountUses, Allocate, Reserve
  <2> QED BY <2>1 DEF PlacedInv
<1>2. CASE EndPass
  BY <1>2, FilledPlaced
<1>3. CASE Adopt
  <2>1. pass = "adopt" /\ pass' = "register" /\ UNCHANGED <<opt, kept, scene>> /\ scene.dcs = <<>>
    BY <1>3 DEF Adopt, planVars, SceneInv
  <2> QED BY <2>1, PlacedKept
<1>4. CASE Split \/ Upload
  <2>1. /\ UNCHANGED <<opt, kept, scene, nextIndex, vtx, uv, idx>> /\ pass = "split"
        /\ pass' \in {"split", "uploaded", "failed"}
    BY <1>4 DEF Split, Upload, planVars, outVars
  <2> QED BY <2>1, PlacedKept
<1>5. ASSUME NEW t \in Thread, Work(t) PROVE PlacedInv'
  <2>1. UNCHANGED <<pass, opt, kept, scene, nextIndex>> /\ pass \in {"scan", "fill"}
    <3>1. UNCHANGED <<pass, opt, kept, scene, nextIndex>>
      BY <1>5 DEF Work, Take, planVars
    <3>2. job[t] # <<>> \/ pass \in {"scan", "fill"}
      BY <1>5 DEF Work, Take, Task, Check, Lock, Decode, Read, Drop, Free, Clear, Return, CopyPositions,
                  CopyUvs, LoadWords, StoreWords, Doing, Busy
    <3> QED BY <3>1, <3>2 DEF ViewsInv, JobInv
  <2> QED BY <2>1, PlacedKept
<1>6. CASE UNCHANGED vars
  <2>1. UNCHANGED <<pass, opt, kept, scene, nextIndex, vtx, uv, idx>>
    BY <1>6 DEF vars, planVars, outVars
  <2> QED BY <2>1, PlacedKept
<1> QED BY <1>1, <1>2, <1>3, <1>4, <1>5, <1>6, RegisterPlaced, AddMeshPlaced, RepeatPlaced,
           FinalizePlaced DEF Next, Main

-----------------------------------------------------------------------------
(* What the kernels are given.                                             *)

SameCall(x, dc) ==
  /\ DOMAIN x = CallFields
  /\ x.vertexOffset = dc.vertexOffset /\ x.bits = dc.bits /\ x.indexMin = dc.indexMin
  /\ x.triangles = dc.triangles /\ x.start = dc.start
  /\ x.instances = dc.instances /\ x.firstInstance = dc.firstInstance
SameCalls(a, dcs) ==
  a = [d \in 1..Len(dcs) |-> a[d]] /\ \A d \in 1..Len(dcs) : SameCall(a[d], dcs[d])

\* A kernel reads the indices of the part.
ReadsBack(stream, dc, p, packed) ==
  Encodable(p, packed) /\ (packed => p.bits > 0) =>
    \A k \in 0..(3 * p.triangles - 1) : LoadIndex(stream, dc, k) = p.index[k + 1]

SentInv ==
  /\ pass \in {"split", "uploaded", "registered"} => SameCalls(gpu.dcs, scene.dcs)
  /\ Ready => \A d \in 1..Len(scene.dcs) :
       ReadsBack(gpu.stream[gpu.dcs[d].chunk], gpu.dcs[d], AllWanted[Base(d, Parts)], opt.packed)

IsPut(p, s, i, c, x) == p = [s EXCEPT ![i].chunk = c, ![i].indexOffset = @ - x]
IsOver(s, D) == s = [d \in D |-> s[d]]
LEMMA PutCall ==
  ASSUME NEW s, NEW D, IsOver(s, D), NEW i \in D, NEW c, NEW x, DOMAIN s[i] = CallFields,
         NEW p, IsPut(p, s, i, c, x)
  PROVE  /\ IsOver(p, D) /\ \A d \in D : d # i => p[d] = s[d]
         /\ DOMAIN p[i] = CallFields
         /\ p[i].vertexOffset = s[i].vertexOffset /\ p[i].bits = s[i].bits
         /\ p[i].indexMin = s[i].indexMin /\ p[i].triangles = s[i].triangles
         /\ p[i].start = s[i].start /\ p[i].instances = s[i].instances
         /\ p[i].firstInstance = s[i].firstInstance
<1> DEFINE r == [s[i] EXCEPT !.chunk = c]
<1>1. IsOver(p, D) /\ \A d \in D : d # i => p[d] = s[d]
  BY DEF IsPut, IsOver
<1>2. p[i] = [r EXCEPT !.indexOffset = s[i].indexOffset - x]
  BY DEF IsPut, IsOver
<1>3. /\ DOMAIN r = CallFields
      /\ r.vertexOffset = s[i].vertexOffset /\ r.bits = s[i].bits
      /\ r.indexMin = s[i].indexMin /\ r.triangles = s[i].triangles
      /\ r.start = s[i].start /\ r.instances = s[i].instances
      /\ r.firstInstance = s[i].firstInstance
  BY DEF CallFields
<1> HIDE DEF r
<1> DEFINE y == s[i].indexOffset - x
<1>4. p[i] = [r EXCEPT !.indexOffset = y]
  BY <1>2
<1> HIDE DEF y
<1>5. /\ DOMAIN p[i] = DOMAIN r
      /\ p[i].vertexOffset = r.vertexOffset /\ p[i].bits = r.bits
      /\ p[i].indexMin = r.indexMin /\ p[i].triangles = r.triangles
      /\ p[i].start = r.start /\ p[i].instances = r.instances
      /\ p[i].firstInstance = r.firstInstance
  BY <1>3, <1>4 DEF CallFields
<1> QED BY <1>1, <1>3, <1>5

LEMMA PlaceSame ==
  ASSUME NEW dcs, NEW split, SameCalls(split.dcs, dcs), NEW i \in 1..Len(dcs), NEW packed, NEW cap
  PROVE  SameCalls(Place(split, i, packed, cap).dcs, dcs)
<1> DEFINE s == split.dcs
           p == Place(split, i, packed, cap).dcs
           D == 1..Len(dcs)
<1>1. IsOver(s, D) /\ \A d \in D : SameCall(s[d], dcs[d])
  BY DEF SameCalls, IsOver
<1>2. \E c, x : IsPut(p, s, i, c, x)
  BY DEF Place, IsPut
<1>3. PICK c, x : IsPut(p, s, i, c, x)
  BY <1>2
<1> HIDE DEF s, p, D
<1>4. i \in D
  BY DEF D
<1>5. DOMAIN s[i] = CallFields
  BY <1>1, <1>4 DEF SameCall
<1>6. /\ IsOver(p, D) /\ \A d \in D : d # i => p[d] = s[d]
      /\ DOMAIN p[i] = CallFields
      /\ p[i].vertexOffset = s[i].vertexOffset /\ p[i].bits = s[i].bits
      /\ p[i].indexMin = s[i].indexMin /\ p[i].triangles = s[i].triangles
      /\ p[i].start = s[i].start /\ p[i].instances = s[i].instances
      /\ p[i].firstInstance = s[i].firstInstance
  BY <1>1, <1>3, <1>4, <1>5, PutCall
<1>7. SameCall(p[i], dcs[i])
  BY <1>1, <1>4, <1>6 DEF SameCall
<1>8. \A d \in D : SameCall(p[d], dcs[d])
  BY <1>1, <1>6, <1>7
<1> QED BY <1>6, <1>8 DEF SameCalls, IsOver, D, p

LEMMA SameAsItself ==
  ASSUME NEW dcs, NEW matrices, NEW copies, NEW n, NEW parts, NEW packed,
         Scened(dcs, matrices, copies, n, parts, packed)
  PROVE  SameCalls(dcs, dcs)
<1>1. dcs = [d \in 1..Len(dcs) |-> dcs[d]] /\ Len(dcs) = copies * n
  BY DEF Scened, Numbered
<1>2. \A d \in 1..Len(dcs) : DOMAIN dcs[d] = CallFields
  BY <1>1 DEF Scened, IsCall
<1> QED BY <1>1, <1>2 DEF SameCalls, SameCall

\* A chunk holds the bits of a draw call that is whole in it.
IsCut(stream, bits, from, to) == stream = {x - from * WordBits : x \in bits \cap WordsOf(from, to)}
HasCut(stream, bits, dc, packed, from) ==
  \A k \in 0..(3 * dc.triangles - 1) : \A b \in 0..(IndexWidth(packed, dc.bits) - 1) :
    (IndexStart(packed, dc.indexOffset, dc.bits, k) + b) - from * WordBits \in stream
      <=> IndexStart(packed, dc.indexOffset, dc.bits, k) + b \in bits
LEMMA ChunkHolds ==
  ASSUME NEW packed \in BOOLEAN, NEW dc, IsDraw(dc, packed), NEW from \in Nat, NEW to \in Int,
         from * Unit(packed) <= dc.indexOffset, EndWord(dc, packed) <= to,
         NEW bits, NEW stream, IsCut(stream, bits, from, to)
  PROVE  HasCut(stream, bits, dc, packed, from)
<1> SUFFICES ASSUME NEW k \in 0..(3 * dc.triangles - 1), NEW b \in 0..(IndexWidth(packed, dc.bits) - 1)
             PROVE  (IndexStart(packed, dc.indexOffset, dc.bits, k) + b) - from * WordBits \in stream
                      <=> IndexStart(packed, dc.indexOffset, dc.bits, k) + b \in bits
  BY DEF HasCut
<1> DEFINE W == WordBits
           u == Unit(packed)
           v == BitsIn(packed)
           o == dc.indexOffset
           L == 3 * dc.triangles
           e == EndAt(dc, packed)
           E == EndWord(dc, packed)
           y == IndexStart(packed, o, dc.bits, k) + b
           f == from * W
<1>1. W \in Nat \ {0} /\ u \in Nat \ {0} /\ v \in Nat \ {0} /\ u * v = W
  BY LayoutAssumption DEF Unit, BitsIn
<1>2. o \in Nat /\ L \in Nat /\ dc.bits \in Nat /\ e \in Nat /\ E \in Nat /\ e <= E * u /\ E <= to
      /\ from * u <= o
  BY EndFacts DEF IsDraw
<1>3. e = o + L * (IF packed THEN dc.bits ELSE 1)
  BY DEF EndAt
<1>4. k \in 0..(L - 1) /\ b \in 0..(IndexWidth(packed, dc.bits) - 1)
  OBVIOUS
<1>5. y \in (o * v)..(e * v - 1)
  <2> HIDE DEF L, o, e, v
  <2>1. y \in (o * BitsIn(packed))..((o + L * (IF packed THEN dc.bits ELSE 1)) * BitsIn(packed) - 1)
    BY <1>2, <1>4, FieldBounds DEF BitsIn
  <2> QED BY <1>3, <2>1 DEF v
<1>6. stream = {x - f : x \in bits \cap (f..(to * W - 1))}
  BY DEF WordsOf, IsCut
<1> HIDE DEF W, u, v, o, L, e, E, y, f
<1>7. f \in Nat /\ to * W \in Int /\ f <= o * v /\ e * v <= to * W /\ o * v \in Nat /\ e * v \in Nat
  <2>1. f \in Nat /\ to * W \in Int /\ o * v \in Nat /\ e * v \in Nat /\ from * u \in Nat /\ E * u \in Nat
    BY <1>1, <1>2 DEF f
  <2>2. f <= o * v
    <3>1. (o - from * u) * v \in Nat
      BY <1>1, <1>2, <2>1
    <3>2. (o - from * u) * v = o * v - (from * u) * v
      BY <1>1, <1>2, <2>1
    <3>3. (from * u) * v = f
      <4>1. (from * u) * v = from * (u * v)
        BY <1>1
      <4> QED BY <1>1, <4>1 DEF f
    <3> QED BY <2>1, <3>1, <3>2, <3>3
  <2>3. e * v <= to * W
    <3>1. (E * u - e) * v \in Nat /\ (to - E) * W \in Nat
      BY <1>1, <1>2, <2>1
    <3>2. (E * u - e) * v = (E * u) * v - e * v /\ (to - E) * W = to * W - E * W
      BY <1>1, <1>2, <2>1
    <3>3. (E * u) * v = E * W /\ E * W \in Nat
      <4>1. (E * u) * v = E * (u * v)
        BY <1>1, <1>2
      <4> QED BY <1>1, <1>2, <4>1
    <3> QED BY <2>1, <3>1, <3>2, <3>3
  <2> QED BY <2>1, <2>2, <2>3
<1> DEFINE lo == o * v
           hi == e * v
           top == to * W
<1> HIDE DEF lo, hi, top
<1>8. y \in Int /\ y \in f..(top - 1)
  <2>1. f \in Nat /\ top \in Int /\ f <= lo /\ hi <= top /\ lo \in Nat /\ hi \in Nat /\ y \in lo..(hi - 1)
    BY <1>5, <1>7 DEF lo, hi, top
  <2> QED BY <2>1
<1>9. stream = {x - f : x \in bits \cap (f..(top - 1))}
  BY <1>6 DEF top
<1>10. y \in bits => y - f \in stream
  BY <1>8, <1>9
<1>11. y - f \in stream => y \in bits
  <2> SUFFICES ASSUME y - f \in stream PROVE y \in bits
    OBVIOUS
  <2>1. PICK x \in bits \cap (f..(top - 1)) : y - f = x - f
    BY <1>9
  <2>2. x \in Int /\ f \in Nat
    BY <1>7 DEF top
  <2>3. x = y
    BY <1>8, <2>1, <2>2
  <2> QED BY <2>1, <2>3
<1> QED BY <1>10, <1>11 DEF y, o, f, W

\* Read from a stream that holds its bits, a part's index is what it was.
LEMMA ReadsBackAll ==
  ASSUME NEW packed \in BOOLEAN, NEW p, IsPart(p, packed), NEW m, NEW c, NEW dc, IsCall(dc, p, m, c, packed),
         NEW from \in Nat, from * Unit(packed) <= dc.indexOffset,
         NEW g, SameCall(g, dc), g.indexOffset = dc.indexOffset - from * Unit(packed),
         NEW stream,
         \A k \in 0..(3 * dc.triangles - 1) :
           HoldsField(stream, packed, p.index, dc.indexOffset, dc.bits, p.min, from, k)
  PROVE  ReadsBack(stream, g, p, packed)
<1> SUFFICES ASSUME Encodable(p, packed), packed => p.bits > 0, NEW k \in 0..(3 * p.triangles - 1)
             PROVE  LoadIndex(stream, g, k) = p.index[k + 1]
  BY DEF ReadsBack
<1> DEFINE L == Len(p.index)
           index == p.index
           o == dc.indexOffset
           n == dc.bits
           x == k + 1
<1>1. L \in Nat /\ DOMAIN index = 1..L /\ p.triangles \in Nat /\ 3 * p.triangles <= L
      /\ n \in Nat /\ p.min \in Nat /\ o \in Nat /\ n = p.bits /\ dc.triangles = p.triangles
      /\ (~packed => n = 0) /\ (packed => dc.indexMin = p.min)
      /\ \A j \in 1..L : index[j] \in Nat
  BY DEF IsPart, IsCall
<1>2. n = 0 <=> ~packed
  <2> HIDE DEF n
  <2>1. packed => n > 0
    BY <1>1
  <2> QED BY <1>1, <2>1
<1>3. k \in 0..(L - 1) /\ x \in 1..L
  <2> HIDE DEF L
  <2> QED BY <1>1
<1>4. g.bits = n /\ g.indexOffset = o - from * Unit(packed) /\ (packed => g.indexMin = p.min)
  BY <1>1 DEF SameCall
<1>5. index[k + 1] \in Nat
      /\ Storable(index[k + 1], packed, p.min, n)
  BY <1>1, <1>3 DEF Encodable, Storable
<1>6. HoldsField(stream, packed, index, o, n, p.min, from, k)
  BY <1>1
<1>7. from * Unit(packed) <= o
  OBVIOUS
<1> HIDE DEF L, index, o, n, x
<1>8. ReadsAt(g, packed, index, o, n, p.min, from, k)
  BY <1>1, <1>2, <1>3, <1>4, <1>5, <1>7 DEF ReadsAt
<1>9. LoadIndex(stream, g, k) = index[k + 1]
  BY <1>6, <1>8, IndexComesBack
<1> QED BY <1>9 DEF index

LEMMA CallIsDraw ==
  ASSUME NEW packed \in BOOLEAN, NEW p, IsPart(p, packed), NEW m, NEW c, NEW dc, IsCall(dc, p, m, c, packed)
  PROVE  IsDraw(dc, packed) /\ dc.triangles = p.triangles /\ dc.bits = p.bits
BY DEF IsCall, IsPart, IsDraw, CallFields

\* A draw call whose bits are in place reads its part from the chunk it is whole in.
LEMMA ChunkReads ==
  ASSUME NEW packed \in BOOLEAN, NEW p, IsPart(p, packed), NEW m, NEW c, NEW dc, IsCall(dc, p, m, c, packed),
         NEW bits, InPlace(bits, dc, p, packed),
         NEW from \in Nat, NEW to \in Int, from * Unit(packed) <= dc.indexOffset,
         EndWord(dc, packed) <= to,
         NEW g, SameCall(g, dc), g.indexOffset = dc.indexOffset - from * Unit(packed),
         NEW stream, IsCut(stream, bits, from, to)
  PROVE  ReadsBack(stream, g, p, packed)
<1>1. IsDraw(dc, packed)
  BY CallIsDraw
<1>2. HasCut(stream, bits, dc, packed, from)
  BY <1>1, ChunkHolds
<1>3. \A k \in 0..(3 * dc.triangles - 1) :
        HoldsField(stream, packed, p.index, dc.indexOffset, dc.bits, p.min, from, k)
  BY <1>2 DEF InPlace, HoldsField, HasCut
<1> QED BY <1>3, ReadsBackAll

LEMMA UploadSent ==
  ASSUME ViewsInv, DrawsInv, SceneInv, PlacedInv, SentInv, Upload
  PROVE  SentInv'
<1> DEFINE q == opt.packed
           N == Len(scene.dcs)
           m == Len(gpu.chunks)
           u == Unit(q)
           To(c) == gpu.chunks[c].to + IF c = m THEN 1 ELSE 0
           part(d) == AllWanted[Base(d, Parts)]
<1>0. Shape /\ q \in BOOLEAN /\ ~opt.registry
  <2>1. Shape /\ PassInv /\ pass = "split"
    BY DEF ViewsInv, Upload
  <2> QED BY <2>1, OptionsAssumption DEF Shape, PassInv
<1>1. pass = "split" /\ gpu.left = {} /\ UNCHANGED <<opt, kept, scene, idx>>
  BY DEF Upload, planVars, outVars
<1>2. CASE pass' = "failed"
  BY <1>2 DEF SentInv, Ready
<1>3. CASE pass' # "failed"
  <2>1. /\ pass' = "uploaded" /\ gpu'.dcs = gpu.dcs
        /\ gpu'.stream = [c \in DOMAIN gpu.chunks |->
             {x - gpu.chunks[c].from * WordBits : x \in idx \cap WordsOf(gpu.chunks[c].from, To(c))}]
    <3> DEFINE words == [c \in DOMAIN gpu.chunks |-> ChunkWords(gpu.chunks[c])]
               stream == [c \in DOMAIN gpu.chunks |->
                 {x - gpu.chunks[c].from * WordBits : x \in idx \cap WordsOf(gpu.chunks[c].from, To(c))}]
    <3>1. pass' = "uploaded" /\ gpu' = [dcs |-> gpu.dcs, words |-> words, stream |-> stream]
      BY <1>3 DEF Upload
    <3> HIDE DEF words, stream
    <3>2. gpu'.dcs = gpu.dcs /\ gpu'.stream = stream
      BY <3>1
    <3> QED BY <3>1, <3>2 DEF stream
  <2>2. SameCalls(gpu.dcs, scene.dcs)
    BY <1>1 DEF SentInv
  <2>3. AllWanted' = AllWanted /\ Parts' = Parts
    BY <1>1, WantedKept
  <2>4. SplitInv /\ Scened(scene.dcs, scene.matrices, opt.copies, Parts, AllWanted, q)
        /\ \A d \in 1..N : InPlace(idx, scene.dcs[d], part(d), q)
    BY <1>1 DEF DrawsInv, SceneInv, PlacedInv
  <2>5. ASSUME Ready' PROVE Whole(gpu, scene.dcs, q)
    <3>1. opt.direct \/ Alike(scene.dcs, q)
      BY <1>0, <1>1, <2>5 DEF Ready
    <3> QED BY <1>0, <1>1, <2>4, <3>1, SplitIsWhole DEF SplitInv
  <2>6. ASSUME Ready', NEW d \in 1..N
        PROVE  ReadsBack(gpu'.stream[gpu.dcs[d].chunk], gpu.dcs[d], part(d), q)
    <3> DEFINE dc == scene.dcs[d]
               g == gpu.dcs[d]
               c == g.chunk
               from == gpu.chunks[c].from
               to == To(c)
               copy == (d - 1) \div Parts
    <3>1. Whole(gpu, scene.dcs, q) /\ d \in DOMAIN scene.dcs
      <4>1. scene.dcs = [x \in 1..N |-> scene.dcs[x]]
        BY <2>4 DEF Scened, Numbered
      <4> QED BY <2>5, <2>6, <4>1
    <3>2. /\ c \in 1..m /\ m \in Nat \ {0} /\ gpu.chunks = [x \in 1..m |-> gpu.chunks[x]]
          /\ from \in Nat /\ gpu.chunks[c].to \in Int
          /\ g.indexOffset = dc.indexOffset - from * u /\ from * u <= dc.indexOffset
          /\ EndWord(dc, q) <= gpu.chunks[c].to + IF ~q /\ c = m THEN 1 ELSE 0
      BY <3>1 DEF Whole
    <3>3. IsPart(part(d), q) /\ IsCall(dc, part(d), scene.matrices, copy, q)
      <4>1. N = opt.copies * Parts
        BY <2>4 DEF Scened
      <4> QED BY <2>4, <4>1 DEF Scened
    <3>4. SameCall(g, dc)
      BY <2>2 DEF SameCalls
    <3>5. InPlace(idx, dc, part(d), q)
      BY <2>4
    <3>6. IsCut(gpu'.stream[c], idx, from, to)
      <4>1. c \in DOMAIN gpu.chunks
        BY <3>2
      <4> HIDE DEF c
      <4> QED BY <2>1, <4>1 DEF IsCut
    <3>7. EndWord(dc, q) \in Nat
      BY <1>0, <3>3, CallIsDraw, EndFacts
    <3> DEFINE last == gpu.chunks[c].to
    <3>8. to = last + IF c = m THEN 1 ELSE 0
      OBVIOUS
    <3> DEFINE p == part(d)
    <3> HIDE DEF c, from, to, dc, g, m, u, q, last, p, copy
    <3>9. to \in Int /\ EndWord(dc, q) <= to
      BY <3>2, <3>7, <3>8 DEF last, c
    <3>10. ReadsBack(gpu'.stream[c], g, p, q)
      BY <1>0, <3>2, <3>3, <3>4, <3>5, <3>6, <3>9, ChunkReads DEF p, u
    <3> QED BY <3>10 DEF c, g, p, q
  <2>7. Ready' => \A d \in 1..N : ReadsBack(gpu'.stream[gpu.dcs[d].chunk], gpu.dcs[d], part(d), q)
    BY <2>6
  <2> QED BY <1>1, <2>1, <2>2, <2>3, <2>7 DEF SentInv
<1> QED BY <1>2, <1>3

LEMMA RepeatSent == ASSUME ViewsInv, DrawsInv, SceneInv, Repeat PROVE SentInv'
<1> DEFINE w == Replicate(scene, opt.copies)
           c == opt.copies
           n == Parts
<1>0. Shape /\ c \in Nat \ {0}
  BY OptionsAssumption DEF ViewsInv, Shape
<1>1. pass = "loaded" /\ pass' = "split" /\ scene' = w /\ gpu'.dcs = w.dcs
  BY DEF Repeat
<1>2. Drafted(scene.dcs, scene.matrices, nextVertex, AllWanted, opt.packed)
      /\ Len(scene.dcs) = n /\ n \in Nat \ {0}
  BY <1>0, <1>1, PartsType DEF DrawsInv, SceneInv
<1> HIDE DEF n, c
<1>3. w = Replicate(scene, c)
  BY DEF c
<1> HIDE DEF w
<1>4. Scened(w.dcs, w.matrices, c, n, AllWanted, opt.packed)
  BY <1>0, <1>2, <1>3, ReplicatedScene
<1>5. SameCalls(w.dcs, w.dcs)
  BY <1>4, SameAsItself
<1> QED BY <1>1, <1>5 DEF SentInv, Ready

LEMMA SplitSent == ASSUME DrawsInv, SceneInv, SentInv, Split PROVE SentInv'
<1>1. pass = "split" /\ UNCHANGED <<pass, opt, kept, scene>>
  BY DEF Split, planVars
<1>2. PICK i \in gpu.left : gpu' = Place(gpu, i, opt.packed, opt.cap)
  BY DEF Split
<1>3. SameCalls(gpu.dcs, scene.dcs) /\ SplitInv
      /\ Scened(scene.dcs, scene.matrices, opt.copies, Parts, AllWanted, opt.packed)
  BY <1>1 DEF DrawsInv, SentInv, SceneInv
<1>4. gpu.left \subseteq DOMAIN scene.dcs
  BY <1>2, <1>3 DEF SplitInv, IsSplit
<1>5. DOMAIN scene.dcs = 1..Len(scene.dcs)
  BY <1>3 DEF Scened, Numbered
<1>6. i \in 1..Len(scene.dcs)
  BY <1>4, <1>5
<1>7. SameCalls(gpu'.dcs, scene.dcs)
  BY <1>2, <1>3, <1>6, PlaceSame
<1> QED BY <1>1, <1>7 DEF SentInv, Ready

\* In slots of its own, a mesh is read from the first word on.
LEMMA SlotReads ==
  ASSUME Shape, NEW i \in 1..Parts, NEW m, IsCall(DC(i), Wanted(i), m, 0, opt.packed),
         DC(i).indexOffset = 0
  PROVE  ReadsBack(IndexBits(i), DC(i), Wanted(i), opt.packed)
<1> DEFINE dc == DC(i)
           p == Wanted(i)
           q == opt.packed
           s == IndexBits(i)
<1>0. q \in BOOLEAN
  BY OptionsAssumption DEF Shape
<1>1. IsPart(p, q) /\ p.index = Part(i).index
  BY WantedFacts DEF Wanted
<1>2. /\ dc.indexOffset \in Nat /\ dc.bits \in Nat /\ dc.triangles \in Nat
      /\ (q => dc.indexMin = p.min) /\ DOMAIN dc = CallFields
  BY <1>1 DEF IsCall, IsPart
<1>3. s = BitsWritten(q, Part(i).index, dc.indexOffset, dc.bits, dc.indexMin)
  BY <1>0, <1>2, SliceHolds
<1>4. s = BitsWritten(q, p.index, dc.indexOffset, dc.bits, p.min)
  BY <1>1, <1>2, <1>3 DEF BitsWritten
<1>5. Unit(q) \in Nat \ {0} /\ WordBits \in Nat \ {0}
  BY LayoutAssumption DEF Unit
<1>6. SameCall(dc, dc)
  BY <1>2 DEF SameCall
<1>7. dc.indexOffset = 0
  OBVIOUS
<1> HIDE DEF dc, p, q, s
<1>8. 0 * Unit(q) <= dc.indexOffset /\ dc.indexOffset = dc.indexOffset - 0 * Unit(q)
  BY <1>5, <1>7
<1>9. ASSUME NEW k \in 0..(3 * dc.triangles - 1)
      PROVE  HoldsField(s, q, p.index, dc.indexOffset, dc.bits, p.min, 0, k)
  <2> SUFFICES ASSUME NEW b \in 0..(IndexWidth(q, dc.bits) - 1)
               PROVE  (IndexStart(q, dc.indexOffset, dc.bits, k) + b) - 0 * WordBits
                        = IndexStart(q, dc.indexOffset, dc.bits, k) + b
    BY <1>4 DEF HoldsField
  <2>1. k \in Int /\ b \in Int
    OBVIOUS
  <2>2. IndexStart(q, dc.indexOffset, dc.bits, k) \in Int
    BY <1>2, <1>5, <2>1 DEF IndexStart
  <2>3. 0 * WordBits = 0
    BY <1>5
  <2> QED BY <2>1, <2>2, <2>3
<1>10. IsCall(dc, p, m, 0, q)
  BY DEF dc, p, q
<1>11. ReadsBack(s, dc, p, q)
  BY <1>0, <1>1, <1>6, <1>8, <1>9, <1>10, ReadsBackAll
<1> QED BY <1>11 DEF s, dc, p, q

LEMMA FinalizeSent == ASSUME ViewsInv, DrawsInv, SceneInv, Finalize PROVE SentInv'
<1> DEFINE N == Parts
<1>0. Shape
  BY DEF ViewsInv
<1>1. /\ pass = "register" /\ pass' = "registered" /\ next > N /\ UNCHANGED <<opt, kept, scene>>
      /\ gpu'.dcs = scene.dcs /\ gpu'.stream = [i \in 1..N |-> IndexBits(i)]
  <2> DEFINE words == [i \in 1..Parts |->
                        IF opt.packed THEN CeilDiv(Len(Part(i).index) * DC(i).bits, WordBits) + 1
                                      ELSE Len(Part(i).index)]
             stream == [i \in 1..N |-> IndexBits(i)]
  <2>1. pass = "register" /\ pass' = "registered" /\ next > N /\ UNCHANGED <<opt, kept, scene>>
        /\ gpu' = [dcs |-> scene.dcs, words |-> words, stream |-> stream]
    BY DEF Finalize, planVars
  <2> HIDE DEF words, stream
  <2> QED BY <2>1 DEF stream
<1>2. /\ Len(scene.dcs) = next - 1 /\ next <= N + 1
      /\ \A i \in 1..Len(scene.dcs) : Registered(DC(i), i, Part(i), opt.packed)
      /\ Drafted(scene.dcs, scene.matrices, nextVertex, AllWanted, opt.packed)
  BY <1>1 DEF DrawsInv, SceneInv
<1>3. N \in Nat /\ Len(scene.dcs) = N
  BY <1>0, <1>1, <1>2, PartsType DEF Shape
<1>4. AllWanted' = AllWanted /\ Parts' = N
  BY <1>1, WantedKept
<1>5. SameCalls(scene.dcs, scene.dcs)
  BY <1>2, OneCopy, SameAsItself
<1>6. ASSUME NEW d \in 1..N
      PROVE  ReadsBack(gpu'.stream[scene.dcs[d].chunk], scene.dcs[d], AllWanted[Base(d, N)], opt.packed)
  <2>1. Base(d, N) = d
    <3> HIDE DEF N
    <3>1. d \in Nat \ {0} /\ d <= N /\ N \in Nat \ {0}
      BY <1>3
    <3> QED BY <3>1, BaseFacts
  <2>2. Registered(DC(d), d, Part(d), opt.packed)
    BY <1>2, <1>3
  <2>3. DC(d) = scene.dcs[d] /\ DC(d).chunk = d /\ DC(d).indexOffset = 0 /\ AllWanted[d] = Wanted(d)
    BY <2>2 DEF Registered, DC, AllWanted
  <2>4. IsCall(DC(d), Wanted(d), scene.matrices, 0, opt.packed)
    BY <1>2, <1>3, <2>3 DEF Drafted
  <2>5. ReadsBack(IndexBits(d), DC(d), Wanted(d), opt.packed)
    BY <1>0, <2>3, <2>4, SlotReads
  <2>6. gpu'.stream[scene.dcs[d].chunk] = IndexBits(d)
    BY <1>1, <2>3
  <2> HIDE DEF N
  <2> QED BY <2>1, <2>3, <2>5, <2>6
<1> HIDE DEF N
<1>7. \A d \in 1..Len(scene.dcs) :
        ReadsBack(gpu'.stream[gpu'.dcs[d].chunk], gpu'.dcs[d], AllWanted[Base(d, N)], opt.packed)
  BY <1>1, <1>3, <1>6
<1> QED BY <1>1, <1>4, <1>5, <1>7 DEF SentInv

LEMMA SentKept ==
  ASSUME SentInv, UNCHANGED <<pass, opt, kept, scene, gpu>>
  PROVE  SentInv'
<1>1. AllWanted' = AllWanted /\ Parts' = Parts
  BY WantedKept
<1> QED BY <1>1 DEF SentInv, Ready

LEMMA InitSent == ASSUME Init PROVE SentInv
BY DEF Init, SentInv, Ready

LEMMA NextSent ==
  ASSUME ViewsInv, DrawsInv, SceneInv, PlacedInv, SentInv, [Next]_vars
  PROVE  SentInv'
<1>1. CASE Cap \/ CountUses \/ Allocate \/ Reserve \/ EndPass \/ Adopt \/ Register \/ AddMesh
  <2>1. pass' \notin {"split", "uploaded", "registered"}
    BY <1>1 DEF Cap, CountUses, Allocate, Reserve, EndPass, Adopt, Register, AddMesh
  <2> QED BY <2>1 DEF SentInv, Ready
<1>2. CASE Finalize
  BY <1>2, FinalizeSent
<1>3. CASE Repeat
  BY <1>3, RepeatSent
<1>4. CASE Split
  BY <1>4, SplitSent
<1>5. CASE Upload
  BY <1>5, UploadSent
<1>6. ASSUME NEW t \in Thread, Work(t) PROVE SentInv'
  <2>1. UNCHANGED <<pass, opt, kept, scene, gpu>>
    BY <1>6 DEF Work, Take, planVars
  <2> QED BY <2>1, SentKept
<1>7. CASE UNCHANGED vars
  BY <1>7, SentKept DEF vars, planVars
<1> QED BY <1>1, <1>2, <1>3, <1>4, <1>5, <1>6, <1>7 DEF Next, Main

-----------------------------------------------------------------------------
(* A triangle's number, and what is drawn for it.                          *)

InstanceAt(dc, local) == IF dc.instances > 1 THEN local \div dc.triangles ELSE 0
TriangleAt(dc, local) == local - InstanceAt(dc, local) * dc.triangles

\* A number within a draw call names an instance and a triangle ...
LEMMA NumberNames ==
  ASSUME NEW dc, dc.triangles \in Nat, dc.instances \in Nat,
         NEW local \in 0..(dc.triangles * dc.instances - 1)
  PROVE  /\ InstanceAt(dc, local) \in 0..(dc.instances - 1)
         /\ TriangleAt(dc, local) \in 0..(dc.triangles - 1)
         /\ local = InstanceAt(dc, local) * dc.triangles + TriangleAt(dc, local)
<1> DEFINE T == dc.triangles
           N == dc.instances
           i == InstanceAt(dc, local)
           w == T * N
<1>0. T \in Nat /\ N \in Nat /\ local \in 0..(w - 1) /\ w \in Nat
  OBVIOUS
<1>1. T # 0 /\ N # 0
  <2>1. T = 0 => w = 0
    BY <1>0
  <2>2. N = 0 => w = 0
    BY <1>0
  <2> HIDE DEF w
  <2> QED BY <1>0, <2>1, <2>2
<1>2. CASE N > 1
  <2>1. i = local \div T
    BY <1>2 DEF InstanceAt
  <2> HIDE DEF T, N, i
  <2>2. i \in Nat /\ local - i * T \in 0..(T - 1) /\ i * T \in Nat
    <3> HIDE DEF w
    <3> DEFINE r == local % T
    <3>1. i \in Nat /\ r \in 0..(T - 1) /\ local = i * T + r
      <4>1. local \in Nat /\ T \in Nat \ {0}
        BY <1>0, <1>1
      <4>2. local \div T \in Nat /\ (local % T) \in 0..(T - 1) /\ local = (local \div T) * T + (local % T)
        BY <4>1, Quotient
      <4> QED BY <2>1, <4>2
    <3> HIDE DEF r
    <3>2. i * T \in Nat
      BY <1>0, <3>1
    <3> QED BY <1>0, <3>1, <3>2
  <2>3. i <= N - 1
    <3> SUFFICES ASSUME i >= N PROVE FALSE
      BY <1>0, <2>2
    <3>1. (i - N) * T \in Nat /\ (i - N) * T = i * T - N * T /\ N * T = w
      BY <1>0, <2>2
    <3> HIDE DEF w
    <3> QED BY <1>0, <2>2, <3>1
  <2>4. i \in 0..(N - 1)
    BY <1>0, <2>2, <2>3
  <2>5. local = i * T + (local - i * T)
    <3> HIDE DEF w
    <3> QED BY <1>0, <2>2
  <2> QED BY <2>2, <2>4, <2>5 DEF TriangleAt, i, T, N
<1>3. CASE ~(N > 1)
  <2>1. N = 1 /\ w = T
    BY <1>0, <1>1, <1>3
  <2>2. i = 0
    BY <1>3 DEF InstanceAt
  <2> HIDE DEF T, N, i, w
  <2>3. i * T = 0 /\ i \in 0..(N - 1)
    BY <1>0, <2>1, <2>2
  <2>4. local - i * T \in 0..(T - 1) /\ local = i * T + (local - i * T)
    BY <1>0, <2>1, <2>3
  <2> QED BY <2>3, <2>4 DEF TriangleAt, i, T, N
<1> QED BY <1>2, <1>3

\* ... and every instance and triangle has its number.
LEMMA NumberIs ==
  ASSUME NEW dc, dc.triangles \in Nat, dc.instances \in Nat,
         NEW i \in 0..(dc.instances - 1), NEW j \in 0..(dc.triangles - 1)
  PROVE  /\ i * dc.triangles + j \in 0..(dc.triangles * dc.instances - 1)
         /\ InstanceAt(dc, i * dc.triangles + j) = i
         /\ TriangleAt(dc, i * dc.triangles + j) = j
<1> DEFINE T == dc.triangles
           N == dc.instances
           w == T * N
           x == i * T + j
<1>0. T \in Nat \ {0} /\ N \in Nat \ {0} /\ i \in Nat /\ i <= N - 1 /\ j \in 0..(T - 1)
  OBVIOUS
<1> HIDE DEF T, N
<1>1. i * T \in Nat /\ w \in Nat /\ i * T + T <= w
  <2>1. (N - 1 - i) * T \in Nat
    BY <1>0
  <2>2. (N - 1 - i) * T = w - T - i * T
    BY <1>0
  <2>3. i * T \in Nat /\ w \in Nat
    BY <1>0
  <2> HIDE DEF w
  <2> QED BY <1>0, <2>1, <2>2, <2>3
<1>2. x \in 0..(w - 1)
  <2> HIDE DEF w
  <2> QED BY <1>0, <1>1
<1>3. InstanceAt(dc, x) = i
  <2>1. CASE N > 1
    <3>1. x \div T = i
      BY <1>0, QuotientIs
    <3> HIDE DEF x
    <3> QED BY <2>1, <3>1 DEF InstanceAt, N, T
  <2>2. CASE ~(N > 1)
    <3>1. i = 0
      BY <1>0, <2>2
    <3> HIDE DEF x
    <3> QED BY <2>2, <3>1 DEF InstanceAt, N
  <2> QED BY <2>1, <2>2
<1>4. x - i * T = j
  BY <1>0, <1>1
<1>5. TriangleAt(dc, x) = j
  <2> HIDE DEF x
  <2> QED BY <1>3, <1>4 DEF TriangleAt, T
<1> QED BY <1>2, <1>3, <1>5 DEF x, w, T, N

\* What is to be drawn of part b for the draw call d.
CornersOf(b, p, j) == [k \in 0..2 |-> <<b, p.index[3 * j + k + 1]>>]
Piece(d, b, p, c, i, j) ==
  [draw |-> d, instance |-> [copy |-> c, of |-> <<p.owner, p.visits[i + 1]>>], triangle |-> j,
   vertices |-> CornersOf(b, p, j), uvs |-> IF ~p.uv THEN None ELSE CornersOf(b, p, j)]

\* A draw call of which all is at hand.
Given(dcs, matrices, streams, vs, us, d, b, p, c, packed) ==
  /\ IsPart(p, packed)
  /\ dcs[d].triangles = p.triangles /\ dcs[d].instances = Len(p.visits)
  /\ dcs[d].firstInstance \in Nat
  /\ \A k \in 1..Len(p.visits) :
       matrices[dcs[d].firstInstance + k] = [copy |-> c, of |-> <<p.owner, p.visits[k]>>]
  /\ HasVertices(vs, us, b, p, dcs[d])
  /\ ReadsBack(streams[dcs[d].chunk], dcs[d], p, packed)

\* Its vertices, for one of its triangles.
LEMMA CornersRead ==
  ASSUME NEW dcs, NEW matrices, NEW streams, NEW vs, NEW us, NEW d, NEW b, NEW p, NEW c, NEW packed,
         Given(dcs, matrices, streams, vs, us, d, b, p, c, packed),
         Encodable(p, packed), packed => p.bits > 0, NEW j \in 0..(p.triangles - 1),
         NEW cells, Cells(cells, b, p.verts, dcs[d].vertexOffset)
  PROVE  [k \in 0..2 |-> cells[dcs[d].vertexOffset + LoadIndex(streams[dcs[d].chunk], dcs[d], 3 * j + k)]]
           = CornersOf(b, p, j)
<1> SUFFICES ASSUME NEW k \in 0..2
             PROVE  cells[dcs[d].vertexOffset + LoadIndex(streams[dcs[d].chunk], dcs[d], 3 * j + k)]
                      = <<b, p.index[3 * j + k + 1]>>
  BY DEF CornersOf
<1> DEFINE x == 3 * j + k
           y == x + 1
           s == streams[dcs[d].chunk]
           T == p.triangles
           L == Len(p.index)
<1>1. T \in Nat /\ L \in Nat /\ 3 * T <= L /\ \A z \in 1..L : p.index[z] \in Nat
  BY DEF Given, IsPart
<1>2. x \in 0..(3 * T - 1) /\ y \in 1..L
  <2> HIDE DEF L
  <2> QED BY <1>1
<1>3. LoadIndex(s, dcs[d], x) = p.index[y]
  <2> HIDE DEF x
  <2> QED BY <1>2 DEF Given, ReadsBack
<1>4. p.index[y] \in 0..(p.verts - 1)
  <2>1. p.index[y] \in Nat /\ p.index[y] < p.verts /\ p.verts \in Nat
    <3> HIDE DEF y
    <3> QED BY <1>1, <1>2 DEF Encodable, Given, IsPart
  <2> HIDE DEF y
  <2> QED BY <2>1
<1> DEFINE v == p.index[y]
<1> HIDE DEF x, y, s, v
<1>5. cells[dcs[d].vertexOffset + v] = <<b, v>>
  BY <1>4 DEF Cells, v
<1> QED BY <1>3, <1>5 DEF v, x, y, s

Finds(dcs, t, pfx) == 1 + IF pfx THEN FindDrawCallPfx(dcs, t) ELSE FindDrawCall(dcs, t)
LEMMA FindsHolder ==
  ASSUME NEW dcs, Numbered(dcs), NEW t \in 0..(InstancedTriangles(dcs) - 1), NEW pfx \in BOOLEAN
  PROVE  Finds(dcs, t, pfx) \in 1..Len(dcs) /\ Holds(dcs, t, Finds(dcs, t, pfx))
<1> DEFINE a == FindDrawCallPfx(dcs, t)
           b == FindDrawCall(dcs, t)
<1>1. a \in Nat /\ Holds(dcs, t, a + 1) /\ b \in Nat /\ Holds(dcs, t, b + 1)
  BY PfxFinds, FindFinds
<1> HIDE DEF a, b
<1>2. a + 1 = 1 + a /\ b + 1 = 1 + b
  BY <1>1
<1>3. Holds(dcs, t, 1 + a) /\ Holds(dcs, t, 1 + b)
  BY <1>1, <1>2
<1>4. Holds(dcs, t, Finds(dcs, t, pfx))
  BY <1>3 DEF Finds, a, b
<1> QED BY <1>4 DEF Holds

\* The piece that number t of draw call d is of.
PieceAt(dcs, t, d, b, p, c) ==
  Piece(d, b, p, c, InstanceAt(dcs[d], t - dcs[d].start), TriangleAt(dcs[d], t - dcs[d].start))

\* Resolve draws that piece.
LEMMA DrawnIs ==
  ASSUME NEW t \in 0..(InstancedTriangles(gpu.dcs) - 1), NEW pfx \in BOOLEAN, Numbered(gpu.dcs),
         NEW d, d = Finds(gpu.dcs, t, pfx), NEW p, NEW c,
         Given(gpu.dcs, scene.matrices, gpu.stream, vtx, uv, d, PartOf(d), p, c, opt.packed),
         Encodable(p, opt.packed), opt.packed => p.bits > 0, p.uv = Textured(PartOf(d))
  PROVE  Drawn(t, pfx) = PieceAt(gpu.dcs, t, d, PartOf(d), p, c)
<1> DEFINE dcs == gpu.dcs
           dc == dcs[d]
           b == PartOf(d)
           local == t - dc.start
           i == InstanceAt(dc, local)
           j == TriangleAt(dc, local)
           m == scene.matrices[dc.firstInstance + i + 1]
           load(k) == dc.vertexOffset + LoadIndex(gpu.stream[dc.chunk], dc, 3 * j + k)
           vs == [k \in 0..2 |-> vtx[load(k)]]
           us == IF ~Textured(b) THEN None ELSE [k \in 0..2 |-> uv[load(k)]]
<1>1. Drawn(t, pfx) = [draw |-> d, instance |-> m, triangle |-> j, vertices |-> vs, uvs |-> us]
  <2>1. d = 1 + IF pfx THEN FindDrawCallPfx(gpu.dcs, t) ELSE FindDrawCall(gpu.dcs, t)
    BY DEF Finds
  <2>2. i = IF dc.instances > 1 THEN local \div dc.triangles ELSE 0
    BY DEF InstanceAt
  <2>3. j = local - i * dc.triangles
    BY DEF TriangleAt
  <2> HIDE DEF i, j
  <2> QED BY <2>1, <2>2, <2>3 DEF Drawn
<1>2. d \in 1..Len(dcs) /\ Holds(dcs, t, d)
  BY FindsHolder
<1>3. dc.triangles = p.triangles /\ dc.instances = Len(p.visits) /\ dc.firstInstance \in Nat
      /\ dc.triangles \in Nat /\ dc.instances \in Nat
  BY DEF Given, IsPart
<1>4. local \in 0..(dc.triangles * dc.instances - 1)
  <2> DEFINE w == dc.triangles * dc.instances
             s == dc.start
  <2>1. s \in Nat /\ w \in Nat /\ s <= t /\ t < s + w /\ t \in Int
    BY <1>2, NumberedFacts DEF Holds
  <2> HIDE DEF w, s
  <2>2. t - s \in 0..(w - 1)
    BY <2>1
  <2> QED BY <2>2 DEF w, s
<1>5. i \in 0..(dc.instances - 1) /\ j \in 0..(dc.triangles - 1)
  <2> HIDE DEF local, dc
  <2> QED BY <1>3, <1>4, NumberNames
<1>6. m = [copy |-> c, of |-> <<p.owner, p.visits[i + 1]>>]
  <2> HIDE DEF i
  <2> DEFINE x == i + 1
  <2>1. x \in 1..Len(p.visits) /\ dc.firstInstance + i + 1 = dc.firstInstance + x
    <3> DEFINE n == Len(p.visits)
               f == dc.firstInstance
    <3>1. n \in Nat /\ f \in Nat /\ i \in 0..(n - 1)
      BY <1>3, <1>5
    <3> HIDE DEF n, f
    <3>2. x \in 1..n /\ f + i + 1 = f + x
      BY <3>1
    <3> QED BY <3>2 DEF n, f
  <2> HIDE DEF x
  <2>2. scene.matrices[dc.firstInstance + x] = [copy |-> c, of |-> <<p.owner, p.visits[x]>>]
    BY <2>1 DEF Given
  <2> QED BY <2>1, <2>2 DEF x
<1>7. vs = CornersOf(b, p, j)
  <2>1. Cells(vtx, b, p.verts, dc.vertexOffset)
    BY DEF Given, HasVertices
  <2>2. j \in 0..(p.triangles - 1)
    BY <1>3, <1>5
  <2> HIDE DEF j, b
  <2> QED BY <2>1, <2>2, CornersRead DEF b
<1>8. us = IF ~p.uv THEN None ELSE CornersOf(b, p, j)
  <2>1. CASE p.uv
    <3>1. Cells(uv, b, p.verts, dc.vertexOffset)
      BY <2>1 DEF Given, HasVertices
    <3>2. j \in 0..(p.triangles - 1)
      BY <1>3, <1>5
    <3>3. us = [k \in 0..2 |-> uv[load(k)]]
      BY <2>1
    <3> HIDE DEF j, b, us
    <3> QED BY <2>1, <3>1, <3>2, <3>3, CornersRead DEF b
  <2>2. CASE ~p.uv
    BY <2>2
  <2> QED BY <2>1, <2>2
<1> HIDE DEF m, vs, us, i, j, b
<1> QED BY <1>1, <1>6, <1>7, <1>8 DEF PieceAt, Piece, i, j, b

-----------------------------------------------------------------------------
(* The numbers and the pieces, one for one.                                *)

\* The draw calls of a scene, with the parts they are of.
Described(dcs, parts, copies, n, packed) ==
  /\ n \in Nat /\ copies \in Nat \ {0} /\ Len(dcs) = copies * n /\ Numbered(dcs)
  /\ \A d \in 1..Len(dcs) :
       /\ IsPart(parts[Base(d, n)], packed)
       /\ dcs[d].triangles = parts[Base(d, n)].triangles
       /\ dcs[d].instances = Len(parts[Base(d, n)].visits)

ShownOf(dcs, n, sound, pfx) ==
  {t \in 0..(InstancedTriangles(dcs) - 1) : Base(Finds(dcs, t, pfx), n) \in sound}
PieceFor(dcs, parts, n, t, pfx) ==
  PieceAt(dcs, t, Finds(dcs, t, pfx), Base(Finds(dcs, t, pfx), n),
          parts[Base(Finds(dcs, t, pfx), n)], (Finds(dcs, t, pfx) - 1) \div n)
Pieces(parts, n, copies, i) ==
  {Piece(c * n + i, i, parts[i], c, v - 1, j) :
     c \in 0..(copies - 1), v \in 1..Len(parts[i].visits), j \in 0..(parts[i].triangles - 1)}

\* Where a number lies in its draw call.
LEMMA NumberIn ==
  ASSUME NEW dcs, NEW parts, NEW copies, NEW n, NEW packed, Described(dcs, parts, copies, n, packed),
         NEW t \in 0..(InstancedTriangles(dcs) - 1), NEW pfx \in BOOLEAN, NEW d, d = Finds(dcs, t, pfx),
         NEW p, p = parts[Base(d, n)]
  PROVE  /\ n \in Nat \ {0} /\ d \in 1..(copies * n) /\ d \in 1..Len(dcs) /\ dcs[d].start \in Nat
         /\ IsPart(p, packed) /\ dcs[d].triangles = p.triangles
         /\ InstanceAt(dcs[d], t - dcs[d].start) \in 0..(Len(p.visits) - 1)
         /\ TriangleAt(dcs[d], t - dcs[d].start) \in 0..(p.triangles - 1)
         /\ t - dcs[d].start = InstanceAt(dcs[d], t - dcs[d].start) * p.triangles
                                 + TriangleAt(dcs[d], t - dcs[d].start)
<1> DEFINE dc == dcs[d]
           local == t - dc.start
<1>1. Numbered(dcs) /\ Len(dcs) = copies * n /\ n \in Nat /\ copies \in Nat \ {0}
  BY DEF Described
<1>2. d \in 1..Len(dcs) /\ Holds(dcs, t, d)
  BY <1>1, FindsHolder
<1>3. n # 0
  <2> SUFFICES ASSUME n = 0 PROVE FALSE
    OBVIOUS
  <2>1. Len(dcs) = 0
    BY <1>1
  <2> QED BY <1>2, <2>1
<1>4. IsPart(p, packed) /\ dc.triangles = p.triangles /\ dc.instances = Len(p.visits)
  BY <1>2 DEF Described
<1>5. dc.triangles \in Nat /\ dc.instances \in Nat
  BY <1>4 DEF IsPart
<1>6. local \in 0..(dc.triangles * dc.instances - 1) /\ dc.start \in Nat
  <2> DEFINE w == dc.triangles * dc.instances
             s == dc.start
  <2>1. s \in Nat /\ w \in Nat /\ s <= t /\ t < s + w /\ t \in Int
    <3>1. s \in Nat /\ w \in Nat
      BY <1>1, <1>2, NumberedFacts
    <3>2. s <= t /\ t < s + w
      BY <1>2 DEF Holds
    <3> QED BY <3>1, <3>2
  <2> HIDE DEF w, s
  <2>2. t - s \in 0..(w - 1)
    BY <2>1
  <2> QED BY <2>1, <2>2 DEF w, s
<1> HIDE DEF local, dc
<1>7. /\ InstanceAt(dc, local) \in 0..(dc.instances - 1)
      /\ TriangleAt(dc, local) \in 0..(dc.triangles - 1)
      /\ local = InstanceAt(dc, local) * dc.triangles + TriangleAt(dc, local)
  BY <1>5, <1>6, NumberNames
<1>8. d \in 1..(copies * n)
  BY <1>1, <1>2
<1> QED BY <1>1, <1>2, <1>3, <1>4, <1>6, <1>7, <1>8 DEF dc, local

LEMMA PieceOfNumber ==
  ASSUME NEW dcs, NEW parts, NEW copies, NEW n, NEW packed, Described(dcs, parts, copies, n, packed),
         NEW t \in 0..(InstancedTriangles(dcs) - 1), NEW pfx \in BOOLEAN
  PROVE  /\ Base(Finds(dcs, t, pfx), n) \in 1..n
         /\ PieceFor(dcs, parts, n, t, pfx) \in Pieces(parts, n, copies, Base(Finds(dcs, t, pfx), n))
<1> DEFINE d == Finds(dcs, t, pfx)
           b == Base(d, n)
           p == parts[b]
           c == (d - 1) \div n
           i == InstanceAt(dcs[d], t - dcs[d].start)
           j == TriangleAt(dcs[d], t - dcs[d].start)
<1>1. n \in Nat \ {0} /\ d \in 1..(copies * n) /\ IsPart(p, packed)
      /\ i \in 0..(Len(p.visits) - 1) /\ j \in 0..(p.triangles - 1)
  <2> HIDE DEF d
  <2>1. d = Finds(dcs, t, pfx)
    BY DEF d
  <2> QED BY <2>1, NumberIn
<1>2. copies \in Nat
  BY DEF Described
<1> HIDE DEF d
<1>3. b \in 1..n /\ c \in 0..(copies - 1) /\ d = c * n + b
  BY <1>1, <1>2, CopyOf
<1>4. Len(p.visits) \in Nat
  BY <1>1 DEF IsPart
<1> HIDE DEF i, j, b, c, p
<1> DEFINE v == i + 1
<1>5. v \in 1..Len(p.visits) /\ v - 1 = i
  <2> DEFINE l == Len(p.visits)
  <2> HIDE DEF l
  <2> QED BY <1>1, <1>4 DEF l
<1> HIDE DEF v
<1>6. Piece(c * n + b, b, p, c, v - 1, j) \in Pieces(parts, n, copies, b)
  BY <1>1, <1>3, <1>5 DEF Pieces, p
<1>7. Piece(d, b, p, c, i, j) \in Pieces(parts, n, copies, b)
  BY <1>3, <1>5, <1>6
<1> QED BY <1>3, <1>7 DEF PieceFor, PieceAt, d, b, p, c, i, j

\* A piece has one number only.
LEMMA PieceOnce ==
  ASSUME NEW dcs, NEW parts, NEW copies, NEW n, NEW packed, Described(dcs, parts, copies, n, packed),
         NEW s \in 0..(InstancedTriangles(dcs) - 1), NEW t \in 0..(InstancedTriangles(dcs) - 1),
         NEW pfx \in BOOLEAN,
         PieceFor(dcs, parts, n, s, pfx) = PieceFor(dcs, parts, n, t, pfx)
  PROVE  s = t
<1> DEFINE d == Finds(dcs, s, pfx)
           e == Finds(dcs, t, pfx)
           p == parts[Base(d, n)]
           r == parts[Base(e, n)]
           i(x) == InstanceAt(dcs[d], x - dcs[d].start)
           j(x) == TriangleAt(dcs[d], x - dcs[d].start)
           k == InstanceAt(dcs[e], t - dcs[e].start)
           l == TriangleAt(dcs[e], t - dcs[e].start)
<1>1. PieceFor(dcs, parts, n, s, pfx) = Piece(d, Base(d, n), p, (d - 1) \div n, i(s), j(s))
  BY DEF PieceFor, PieceAt
<1>2. PieceFor(dcs, parts, n, t, pfx) = Piece(e, Base(e, n), r, (e - 1) \div n, k, l)
  BY DEF PieceFor, PieceAt
<1>3. /\ d \in 1..Len(dcs) /\ IsPart(p, packed) /\ i(s) \in 0..(Len(p.visits) - 1)
      /\ s - dcs[d].start = i(s) * p.triangles + j(s) /\ dcs[d].start \in Nat
  <2> HIDE DEF d
  <2>1. d = Finds(dcs, s, pfx)
    BY DEF d
  <2> QED BY <2>1, NumberIn
<1>4. /\ k \in 0..(Len(r.visits) - 1)
      /\ t - dcs[e].start = k * r.triangles + l
  <2> HIDE DEF e
  <2>1. e = Finds(dcs, t, pfx)
    BY DEF e
  <2> QED BY <2>1, NumberIn
<1> HIDE DEF i, j, k, l, d, e, p, r
<1>5. d = e /\ j(s) = l
      /\ [copy |-> (d - 1) \div n, of |-> <<p.owner, p.visits[i(s) + 1]>>]
           = [copy |-> (e - 1) \div n, of |-> <<r.owner, r.visits[k + 1]>>]
  <2> DEFINE x == Piece(d, Base(d, n), p, (d - 1) \div n, i(s), j(s))
             y == Piece(e, Base(e, n), r, (e - 1) \div n, k, l)
  <2>1. x = y
    BY <1>1, <1>2
  <2>2. /\ x.draw = d /\ x.triangle = j(s)
        /\ x.instance = [copy |-> (d - 1) \div n, of |-> <<p.owner, p.visits[i(s) + 1]>>]
    BY DEF Piece
  <2>3. /\ y.draw = e /\ y.triangle = l
        /\ y.instance = [copy |-> (e - 1) \div n, of |-> <<r.owner, r.visits[k + 1]>>]
    BY DEF Piece
  <2> HIDE DEF x, y
  <2> QED BY <2>1, <2>2, <2>3
<1>6. p = r
  BY <1>5 DEF p, r
<1>7. p.visits[i(s) + 1] = p.visits[k + 1]
  BY <1>5, <1>6
<1>8. i(s) = k
  <2> DEFINE L == Len(p.visits)
             a == i(s) + 1
             b == k + 1
  <2>1. L \in Nat /\ i(s) \in 0..(L - 1) /\ k \in 0..(L - 1)
    BY <1>3, <1>4, <1>6 DEF IsPart
  <2> HIDE DEF L
  <2>2. a \in 1..L /\ b \in 1..L
    BY <2>1
  <2>3. p.visits[a] = p.visits[b]
    BY <1>7
  <2> HIDE DEF a, b
  <2>4. a = b
    BY <1>3, <2>2, <2>3 DEF IsPart, L
  <2> QED BY <2>1, <2>4 DEF a, b
<1>9. t - dcs[d].start = s - dcs[d].start
  BY <1>3, <1>4, <1>5, <1>6, <1>8
<1>10. s \in Int /\ t \in Int
  OBVIOUS
<1> QED BY <1>3, <1>9, <1>10

\* Copy c of part i has a draw call of its own.
LEMMA CallOfCopy ==
  ASSUME NEW n \in Nat \ {0}, NEW copies \in Nat, NEW c \in 0..(copies - 1), NEW i \in 1..n,
         NEW d, d = c * n + i
  PROVE  d \in 1..(copies * n) /\ Base(d, n) = i /\ (d - 1) \div n = c
<1> DEFINE r == i - 1
           x == c * n
           y == copies * n
<1>1. r \in 0..(n - 1) /\ r + 1 = i /\ c \in Nat
  OBVIOUS
<1>2. x \in Nat /\ y \in Nat /\ x + n <= y
  <2>1. (copies - 1 - c) * n \in Nat
    BY <1>1
  <2>2. (copies - 1 - c) * n = y - n - x
    BY <1>1
  <2>3. x \in Nat /\ y \in Nat
    BY <1>1
  <2> HIDE DEF x, y
  <2> QED BY <2>1, <2>2, <2>3
<1>3. (c * n + r) \div n = c /\ ((c * n + r) % n) = r
  BY <1>1, QuotientIs
<1>4. d - 1 = c * n + r
  <2> HIDE DEF r
  <2> QED BY <1>1, <1>2 DEF x
<1>5. Base(d, n) = i /\ (d - 1) \div n = c
  <2> HIDE DEF r
  <2> QED BY <1>1, <1>3, <1>4 DEF Base
<1>6. d \in 1..y
  <2> HIDE DEF y
  <2>1. d = x + i
    OBVIOUS
  <2> HIDE DEF x
  <2> QED BY <1>2, <2>1
<1> QED BY <1>5, <1>6

\* A piece has a number.
LEMMA NumberOfPiece ==
  ASSUME NEW dcs, NEW parts, NEW copies, NEW n, NEW packed, Described(dcs, parts, copies, n, packed),
         NEW i \in 1..n, NEW x \in Pieces(parts, n, copies, i), NEW pfx \in BOOLEAN
  PROVE  \E t \in 0..(InstancedTriangles(dcs) - 1) :
           Base(Finds(dcs, t, pfx), n) = i /\ PieceFor(dcs, parts, n, t, pfx) = x
<1> DEFINE p == parts[i]
<1>1. PICK c \in 0..(copies - 1), v \in 1..Len(p.visits), j \in 0..(p.triangles - 1) :
        x = Piece(c * n + i, i, p, c, v - 1, j)
  BY DEF Pieces
<1> DEFINE d == c * n + i
           dc == dcs[d]
           k == v - 1
           T == p.triangles
           L == Len(p.visits)
           local == k * T + j
           t == dc.start + local
           total == InstancedTriangles(dcs)
<1>2. Numbered(dcs) /\ Len(dcs) = copies * n /\ n \in Nat \ {0} /\ copies \in Nat \ {0}
  BY DEF Described
<1>3. d \in 1..Len(dcs) /\ Base(d, n) = i /\ (d - 1) \div n = c
  BY <1>2, CallOfCopy
<1>4. IsPart(p, packed) /\ dc.triangles = T /\ dc.instances = L
  BY <1>3 DEF Described
<1>5. T \in Nat /\ L \in Nat
  BY <1>4 DEF IsPart
<1>6. k \in 0..(L - 1) /\ j \in 0..(T - 1)
  <2> HIDE DEF T, L
  <2>1. v \in 1..L /\ j \in 0..(T - 1)
    BY DEF T, L
  <2> QED BY <1>5, <2>1
<1> HIDE DEF T, L, p, dc, k
<1>7. /\ local \in 0..(dc.triangles * dc.instances - 1)
      /\ InstanceAt(dc, local) = k /\ TriangleAt(dc, local) = j
  BY <1>4, <1>5, <1>6, NumberIs
<1> HIDE DEF local, d
<1>8. t \in 0..(total - 1) /\ t - dc.start = local /\ Holds(dcs, t, d)
  <2> DEFINE w == dc.triangles * dc.instances
             s == dc.start
  <2>1. s \in Nat /\ w \in Nat /\ s + w <= total /\ total \in Nat
    BY <1>2, <1>3, NumberedFacts DEF dc
  <2>2. local \in 0..(w - 1)
    BY <1>7
  <2> HIDE DEF w, s, total
  <2>3. s + local \in 0..(total - 1) /\ (s + local) - s = local /\ s <= s + local /\ s + local < s + w
    BY <2>1, <2>2
  <2> QED BY <1>3, <2>3 DEF Holds, w, s, dc
<1> HIDE DEF t
<1>9. Finds(dcs, t, pfx) = d
  <2>1. Holds(dcs, t, Finds(dcs, t, pfx))
    BY <1>2, <1>8, FindsHolder DEF total
  <2>2. t \in Nat
    BY <1>8
  <2> QED BY <1>2, <1>8, <2>1, <2>2, OneHolds
<1>10. PieceFor(dcs, parts, n, t, pfx) = Piece(d, i, p, c, k, j)
  BY <1>3, <1>7, <1>8, <1>9 DEF PieceFor, PieceAt, p, dc
<1>11. Piece(d, i, p, c, k, j) = x
  BY <1>1 DEF d, k
<1> QED BY <1>3, <1>8, <1>9, <1>10, <1>11 DEF total

AllDrawn(draws, dcs, parts, n, sound, pfx) ==
  draws = {PieceFor(dcs, parts, n, t, pfx) : t \in ShownOf(dcs, n, sound, pfx)}
AllPieces(source, parts, n, copies, sound) == source = UNION {Pieces(parts, n, copies, i) : i \in sound}

\* One for one: the numbers drawn and the pieces of the parts drawn.
Drawing(dcs, parts, copies, n, packed, sound, pfx, source, draws) ==
  /\ Described(dcs, parts, copies, n, packed)
  /\ sound \subseteq 1..n /\ pfx \in BOOLEAN
  /\ AllPieces(source, parts, n, copies, sound)
  /\ AllDrawn(draws, dcs, parts, n, sound, pfx)

OneEach(dcs, n, sound, pfx, source, draws) ==
  draws = source /\ Cardinality(ShownOf(dcs, n, sound, pfx)) = Cardinality(source)

LEMMA OneForOne ==
  ASSUME NEW dcs, NEW parts, NEW copies, NEW n, NEW packed, NEW sound, NEW pfx, NEW source, NEW draws,
         Drawing(dcs, parts, copies, n, packed, sound, pfx, source, draws)
  PROVE  OneEach(dcs, n, sound, pfx, source, draws)
<1> SUFFICES ASSUME Described(dcs, parts, copies, n, packed), sound \subseteq 1..n, pfx \in BOOLEAN,
                    AllPieces(source, parts, n, copies, sound),
                    AllDrawn(draws, dcs, parts, n, sound, pfx)
             PROVE  draws = source /\ Cardinality(ShownOf(dcs, n, sound, pfx)) = Cardinality(source)
  BY DEF Drawing, OneEach
<1> DEFINE shown == ShownOf(dcs, n, sound, pfx)
           total == InstancedTriangles(dcs)
           P(t) == PieceFor(dcs, parts, n, t, pfx)
           B(t) == Base(Finds(dcs, t, pfx), n)
<1>1. shown = {t \in 0..(total - 1) : B(t) \in sound}
  BY DEF ShownOf
<1>2. \A t \in 0..(total - 1) : P(t) \in Pieces(parts, n, copies, B(t))
  BY PieceOfNumber
<1>3. \A i \in 1..n : \A x \in Pieces(parts, n, copies, i) :
        \E t \in 0..(total - 1) : B(t) = i /\ P(t) = x
  BY NumberOfPiece
<1>4. \A s, t \in 0..(total - 1) : P(s) = P(t) => s = t
  BY PieceOnce
<1>5. draws = {P(t) : t \in shown} /\ source = UNION {Pieces(parts, n, copies, i) : i \in sound}
  BY DEF AllDrawn, AllPieces
<1> HIDE DEF shown, P, B
<1>6. draws \subseteq source
  <2> SUFFICES ASSUME NEW t \in shown PROVE P(t) \in source
    BY <1>5
  <2>1. t \in 0..(total - 1) /\ B(t) \in sound
    BY <1>1
  <2> QED BY <1>2, <1>5, <2>1
<1>7. source \subseteq draws
  <2> SUFFICES ASSUME NEW i \in sound, NEW x \in Pieces(parts, n, copies, i) PROVE x \in draws
    BY <1>5
  <2>1. PICK t \in 0..(total - 1) : B(t) = i /\ P(t) = x
    BY <1>3
  <2>2. t \in shown
    BY <1>1, <2>1
  <2> QED BY <1>5, <2>1, <2>2
<1>8. draws = source
  BY <1>6, <1>7
<1>9. IsFiniteSet(shown)
  <2>1. total \in Nat
    BY NumberedFacts DEF Described
  <2> HIDE DEF total
  <2>2. IsFiniteSet(0..(total - 1))
    BY <2>1, FS_Interval
  <2>3. shown \subseteq 0..(total - 1)
    BY <1>1
  <2> QED BY <2>2, <2>3, FS_Subset
<1> DEFINE f == [t \in shown |-> P(t)]
<1>10. f \in Bijection(shown, source)
  <2>1. f \in [shown -> source]
    BY <1>5, <1>8
  <2>2. \A s, t \in shown : f[s] = f[t] => s = t
    BY <1>1, <1>4
  <2>3. \A x \in source : \E t \in shown : f[t] = x
    BY <1>5, <1>8
  <2> HIDE DEF f
  <2> QED BY <2>1, <2>2, <2>3 DEF Bijection, Injection, Surjection, IsInjective
<1>11. Cardinality(source) = Cardinality(shown)
  <2>1. ExistsBijection(shown, source)
    BY <1>10 DEF ExistsBijection
  <2> QED BY <1>9, <2>1, FS_Bijection
<1> QED BY <1>8, <1>11 DEF shown

-----------------------------------------------------------------------------
(* What is drawn is what the file says.                                    *)

\* The kernels' draw calls have the numbers of the scene's.
LEMMA SameNumbers ==
  ASSUME NEW a, NEW dcs, SameCalls(a, dcs), Numbered(dcs)
  PROVE  Numbered(a) /\ Len(a) = Len(dcs)
<1> DEFINE N == Len(dcs)
<1>1. N \in Nat /\ a = [d \in 1..N |-> a[d]] /\ dcs = [d \in 1..N |-> dcs[d]]
      /\ \A d \in 1..N : SameCall(a[d], dcs[d])
  BY DEF SameCalls, Numbered
<1>2. \A d \in 1..N : /\ a[d].triangles = dcs[d].triangles /\ a[d].instances = dcs[d].instances
                      /\ a[d].start = dcs[d].start
  BY <1>1 DEF SameCall
<1>3. \A d \in 1..N : dcs[d].triangles \in Nat /\ dcs[d].instances \in Nat
                      /\ dcs[d].start = Sum(Share(dcs), d - 1)
  BY DEF Numbered
<1> HIDE DEF N
<1>4. Len(a) = N
  <2>1. a \in [1..N -> {a[d] : d \in 1..N}]
    BY <1>1
  <2>2. a \in Seq({a[d] : d \in 1..N})
    BY <1>1, <2>1, SeqDef
  <2> QED BY <1>1, <2>1, <2>2, LenProperties
<1>5. Share(a) = Share(dcs)
  <2>1. DOMAIN a = 1..N /\ DOMAIN dcs = 1..N
    BY <1>1
  <2> QED BY <1>2, <2>1 DEF Share
<1>6. Numbered(a)
  BY <1>1, <1>2, <1>3, <1>4, <1>5 DEF Numbered
<1> QED BY <1>4, <1>6 DEF N

EndInv ==
  /\ Shape /\ SceneInv /\ PlacedInv /\ SentInv
  /\ pass \in {"uploaded", "registered"}

LEMMA EndDescribed ==
  ASSUME EndInv
  PROVE  Described(gpu.dcs, AllWanted, opt.copies, Parts, opt.packed)
         /\ SameCalls(gpu.dcs, scene.dcs) /\ Len(gpu.dcs) = Len(scene.dcs)
<1>1. SameCalls(gpu.dcs, scene.dcs)
      /\ Scened(scene.dcs, scene.matrices, opt.copies, Parts, AllWanted, opt.packed)
  BY DEF EndInv, SentInv, SceneInv
<1>2. Numbered(gpu.dcs) /\ Len(gpu.dcs) = Len(scene.dcs)
  BY <1>1, SameNumbers DEF Scened
<1>3. ASSUME NEW d \in 1..Len(gpu.dcs)
      PROVE  /\ IsPart(AllWanted[Base(d, Parts)], opt.packed)
             /\ gpu.dcs[d].triangles = AllWanted[Base(d, Parts)].triangles
             /\ gpu.dcs[d].instances = Len(AllWanted[Base(d, Parts)].visits)
  <2> DEFINE p == AllWanted[Base(d, Parts)]
  <2>1. d \in 1..Len(scene.dcs) /\ d \in 1..(opt.copies * Parts)
    BY <1>1, <1>2 DEF Scened
  <2>2. IsPart(p, opt.packed) /\ IsCall(scene.dcs[d], p, scene.matrices, (d - 1) \div Parts, opt.packed)
    BY <1>1, <2>1 DEF Scened
  <2>3. SameCall(gpu.dcs[d], scene.dcs[d])
    BY <1>1, <2>1 DEF SameCalls
  <2> HIDE DEF p
  <2> QED BY <2>2, <2>3 DEF IsCall, SameCall, p
<1> QED BY <1>1, <1>2, <1>3 DEF Described, Scened

LEMMA EndGiven ==
  ASSUME EndInv, Ready, NEW d \in 1..Len(gpu.dcs)
  PROVE  Given(gpu.dcs, scene.matrices, gpu.stream, vtx, uv, d, PartOf(d), AllWanted[PartOf(d)],
               (d - 1) \div Parts, opt.packed)
<1> DEFINE b == PartOf(d)
           p == AllWanted[b]
           g == gpu.dcs[d]
           dc == scene.dcs[d]
           c == (d - 1) \div Parts
<1>0. b = Base(d, Parts)
  BY DEF PartOf, Base
<1>1. SameCalls(gpu.dcs, scene.dcs) /\ d \in 1..Len(scene.dcs)
  BY EndDescribed
<1>2. Scened(scene.dcs, scene.matrices, opt.copies, Parts, AllWanted, opt.packed)
  BY DEF EndInv, SceneInv
<1>3. d \in 1..(opt.copies * Parts)
  BY <1>1, <1>2 DEF Scened
<1>4. IsPart(p, opt.packed) /\ IsCall(dc, p, scene.matrices, c, opt.packed)
  BY <1>0, <1>2, <1>3 DEF Scened
<1>5. SameCall(g, dc)
  BY <1>1 DEF SameCalls
<1>6. HasVertices(vtx, uv, b, p, dc)
  BY <1>0, <1>1 DEF EndInv, PlacedInv
<1>7. ReadsBack(gpu.stream[g.chunk], g, p, opt.packed)
  BY <1>0, <1>1 DEF EndInv, SentInv
<1> HIDE DEF b, p, c, g, dc
<1>8. /\ g.triangles = p.triangles /\ g.instances = Len(p.visits) /\ g.firstInstance \in Nat
      /\ g.vertexOffset = dc.vertexOffset
      /\ \A k \in 1..Len(p.visits) :
           scene.matrices[g.firstInstance + k] = [copy |-> c, of |-> <<p.owner, p.visits[k]>>]
  BY <1>4, <1>5 DEF IsCall, SameCall
<1>9. HasVertices(vtx, uv, b, p, g)
  BY <1>6, <1>8 DEF HasVertices
<1> QED BY <1>4, <1>7, <1>8, <1>9 DEF Given, b, p, c, g

\* A part that can be drawn.
LEMMA EndSound ==
  ASSUME EndInv, NEW i \in 1..Parts, Sound(i), Valid(i)
  PROVE  /\ AllWanted[i] = Wanted(i) /\ Encodable(AllWanted[i], opt.packed)
         /\ opt.packed => AllWanted[i].bits > 0
<1>1. AllWanted[i] = Wanted(i)
  BY DEF AllWanted
<1>2. Encodable(Wanted(i), opt.packed)
  BY WantedFacts DEF EndInv
<1>3. Scened(scene.dcs, scene.matrices, opt.copies, Parts, AllWanted, opt.packed)
  BY DEF EndInv, SceneInv
<1>4. i \in 1..(opt.copies * Parts) /\ Base(i, Parts) = i
  <2> DEFINE n == Parts
             c == opt.copies
  <2>1. n \in Nat /\ c \in Nat \ {0} /\ i \in 1..n
    BY <1>3 DEF Scened
  <2> HIDE DEF n, c
  <2>2. n \in Nat \ {0} /\ i \in Nat \ {0} /\ i <= n
    BY <2>1
  <2>3. (c - 1) * n \in Nat /\ (c - 1) * n = c * n - n /\ c * n \in Nat
    BY <2>1
  <2>4. i \in 1..(c * n)
    <3> DEFINE w == c * n
               v == (c - 1) * n
    <3>1. v \in Nat /\ v = w - n /\ w \in Nat
      BY <2>3
    <3> HIDE DEF w, v
    <3>2. i \in 1..w
      BY <2>1, <3>1
    <3> QED BY <3>2 DEF w
  <2>5. Base(i, n) = i
    BY <2>2, BaseFacts
  <2> QED BY <2>4, <2>5 DEF n, c
<1>5. scene.dcs[i].bits = AllWanted[i].bits
  <2>1. IsCall(scene.dcs[i], AllWanted[Base(i, Parts)], scene.matrices, (i - 1) \div Parts, opt.packed)
    BY <1>3, <1>4 DEF Scened
  <2> QED BY <1>4, <2>1 DEF IsCall
<1>6. opt.packed => DC(i).bits > 0
  BY DEF Sound
<1> QED BY <1>1, <1>2, <1>5, <1>6 DEF DC

\* The pieces of a part are its triangles, by instance and copy.
LEMMA EndPieces ==
  ASSUME Shape, NEW i \in 1..Parts
  PROVE  Pieces(AllWanted, Parts, opt.copies, i) =
           {[draw |-> c * Parts + i, instance |-> [copy |-> c, of |-> m],
             triangle |-> n, vertices |-> Corners(i, n),
             uvs |-> IF ~Textured(i) THEN None ELSE Corners(i, n)] :
               c \in 0..(opt.copies - 1), m \in InstancesOf(i), n \in 0..(Triangles(Part(i)) - 1)}
<1> DEFINE p == AllWanted[i]
           L == Len(p.visits)
           X(c, m, n) == [draw |-> c * Parts + i, instance |-> [copy |-> c, of |-> m],
                          triangle |-> n, vertices |-> Corners(i, n),
                          uvs |-> IF ~Textured(i) THEN None ELSE Corners(i, n)]
           C == 0..(opt.copies - 1)
           T == 0..(Triangles(Part(i)) - 1)
<1>1. p = Wanted(i)
  BY DEF AllWanted
<1>2. p.triangles = Triangles(Part(i)) /\ p.index = Part(i).index /\ p.uv = Textured(i)
      /\ p.owner = (IF Generated THEN i ELSE Part(i).mesh) /\ p.visits = Visits(i)
  BY <1>1 DEF Wanted
<1>3. IsPart(p, opt.packed)
  BY <1>1, WantedFacts
<1>4. L \in Nat /\ DOMAIN p.visits = 1..L
  BY <1>3 DEF IsPart
<1> HIDE DEF p, L
<1>5. InstancesOf(i) = {<<p.owner, p.visits[v]>> : v \in 1..L}
  <2>1. CASE Generated
    <3>1. p.visits = [k \in 1..Part(i).instances |-> k] /\ p.owner = i
      BY <1>2, <2>1 DEF Visits
    <3>2. 1..L = 1..Part(i).instances /\ \A v \in 1..L : p.visits[v] = v
      BY <1>4, <3>1
    <3>3. InstancesOf(i) = {<<i, k>> : k \in 1..L}
      BY <2>1, <3>2 DEF InstancesOf
    <3>4. {<<p.owner, p.visits[v]>> : v \in 1..L} = {<<i, v>> : v \in 1..L}
      <4>1. \A v \in 1..L : <<p.owner, p.visits[v]>> = <<i, v>>
        BY <3>1, <3>2
      <4> QED BY <4>1, Zenon
    <3> QED BY <3>3, <3>4
  <2>2. CASE ~Generated
    <3>1. p.visits = Transforms(Part(i).mesh) /\ p.owner = Part(i).mesh
      BY <1>2, <2>2 DEF Visits
    <3>2. InstancesOf(i) = {<<Part(i).mesh, Transforms(Part(i).mesh)[k]>> :
                              k \in DOMAIN Transforms(Part(i).mesh)}
      BY <2>2 DEF InstancesOf
    <3> QED BY <1>4, <3>1, <3>2
  <2> QED BY <2>1, <2>2
<1>6. \A j : Corners(i, j) = CornersOf(i, p, j)
  BY <1>2 DEF Corners, CornersOf
<1>7. \A c : \A v \in 1..L : \A j : Piece(c * Parts + i, i, p, c, v - 1, j) = X(c, <<p.owner, p.visits[v]>>, j)
  <2> SUFFICES ASSUME NEW c, NEW v \in 1..L, NEW j
               PROVE  Piece(c * Parts + i, i, p, c, v - 1, j) = X(c, <<p.owner, p.visits[v]>>, j)
    OBVIOUS
  <2>1. (v - 1) + 1 = v
    BY <1>4
  <2> QED BY <1>2, <1>6, <2>1 DEF Piece
<1>8. Pieces(AllWanted, Parts, opt.copies, i) =
        {Piece(c * Parts + i, i, p, c, v - 1, j) : c \in C, v \in 1..L, j \in T}
  BY <1>2 DEF Pieces, p, L
<1> HIDE DEF X, C, T
<1>9. {Piece(c * Parts + i, i, p, c, v - 1, j) : c \in C, v \in 1..L, j \in T}
        = {X(c, m, n) : c \in C, m \in InstancesOf(i), n \in T}
  <2> DEFINE A == {Piece(c * Parts + i, i, p, c, v - 1, j) : c \in C, v \in 1..L, j \in T}
             B == {X(c, m, n) : c \in C, m \in InstancesOf(i), n \in T}
  <2>1. ASSUME NEW x \in A PROVE x \in B
    <3>1. PICK c \in C, v \in 1..L, j \in T : x = Piece(c * Parts + i, i, p, c, v - 1, j)
      BY <2>1
    <3>2. x = X(c, <<p.owner, p.visits[v]>>, j)
      BY <1>7, <3>1
    <3>3. <<p.owner, p.visits[v]>> \in InstancesOf(i)
      BY <1>5
    <3> QED BY <3>2, <3>3
  <2>2. ASSUME NEW x \in B PROVE x \in A
    <3>1. PICK c \in C, m \in InstancesOf(i), j \in T : x = X(c, m, j)
      BY <2>2
    <3>2. PICK v \in 1..L : m = <<p.owner, p.visits[v]>>
      BY <1>5
    <3>3. x = Piece(c * Parts + i, i, p, c, v - 1, j)
      BY <1>7, <3>1, <3>2
    <3> QED BY <3>3
  <2> QED BY <2>1, <2>2
<1> QED BY <1>8, <1>9 DEF X, C, T

LEMMA EndDraws ==
  ASSUME EndInv, Ready
  PROVE  DrawsSource
<1> DEFINE dcs == gpu.dcs
           sound == {i \in 1..Parts : Sound(i) /\ Valid(i)}
           source == UNION {Pieces(AllWanted, Parts, opt.copies, i) : i \in sound}
           shown(pfx) == ShownOf(dcs, Parts, sound, pfx)
           total == 0..(InstancedTriangles(dcs) - 1)
<1>1. Described(dcs, AllWanted, opt.copies, Parts, opt.packed)
  BY EndDescribed
<1>2. ASSUME NEW pfx \in BOOLEAN, NEW t \in shown(pfx)
      PROVE  Drawn(t, pfx) = PieceFor(dcs, AllWanted, Parts, t, pfx)
  <2> DEFINE d == Finds(dcs, t, pfx)
             b == PartOf(d)
             p == AllWanted[b]
  <2>1. t \in total /\ b \in sound /\ b = Base(d, Parts)
    BY <1>2 DEF ShownOf, PartOf, Base
  <2>2. Numbered(dcs) /\ d \in 1..Len(dcs)
    BY <1>1, <2>1, FindsHolder DEF Described
  <2>3. p = Wanted(b) /\ Encodable(p, opt.packed) /\ (opt.packed => p.bits > 0)
    BY <2>1, EndSound
  <2>4. p.uv = Textured(b)
    <3>1. \A i : Wanted(i).uv = Textured(i)
      BY DEF Wanted
    <3> HIDE DEF p
    <3> QED BY <2>3, <3>1
  <2>5. Given(dcs, scene.matrices, gpu.stream, vtx, uv, d, b, p, (d - 1) \div Parts, opt.packed)
    BY <2>2, EndGiven
  <2> HIDE DEF d
  <2>6. d = Finds(dcs, t, pfx)
    BY DEF d
  <2> HIDE DEF p
  <2>7. Drawn(t, pfx) = PieceAt(dcs, t, d, b, p, (d - 1) \div Parts)
    <3>1. t \in 0..(InstancedTriangles(gpu.dcs) - 1)
      BY <2>1
    <3> QED BY <2>2, <2>3, <2>4, <2>5, <2>6, <3>1, DrawnIs
  <2> QED BY <2>1, <2>6, <2>7 DEF PieceFor, p
<1>3. ASSUME NEW pfx \in BOOLEAN
      PROVE  /\ {Drawn(t, pfx) : t \in shown(pfx)} = source
             /\ Cardinality(shown(pfx)) = Cardinality(source)
  <2>1. {Drawn(t, pfx) : t \in shown(pfx)} = {PieceFor(dcs, AllWanted, Parts, t, pfx) : t \in shown(pfx)}
    <3> HIDE DEF shown
    <3> QED BY <1>2
  <2>2. sound \subseteq 1..Parts
    OBVIOUS
  <2> DEFINE draws == {Drawn(t, pfx) : t \in shown(pfx)}
  <2>3. AllDrawn(draws, dcs, AllWanted, Parts, sound, pfx)
    BY <2>1 DEF AllDrawn
  <2>4. AllPieces(source, AllWanted, Parts, opt.copies, sound)
    BY DEF AllPieces
  <2> HIDE DEF sound, dcs, draws, source
  <2>5. draws = source /\ Cardinality(ShownOf(dcs, Parts, sound, pfx)) = Cardinality(source)
    <3>1. Drawing(dcs, AllWanted, opt.copies, Parts, opt.packed, sound, pfx, source, draws)
      BY <1>1, <2>2, <2>3, <2>4 DEF Drawing
    <3>2. OneEach(dcs, Parts, sound, pfx, source, draws)
      BY <3>1, OneForOne
    <3> QED BY <3>2 DEF OneEach
  <2> QED BY <2>5 DEF draws
<1>4. Shape
  BY DEF EndInv
<1> DEFINE told == UNION {{[draw |-> c * Parts + i, instance |-> [copy |-> c, of |-> m],
                            triangle |-> n, vertices |-> Corners(i, n),
                            uvs |-> IF ~Textured(i) THEN None ELSE Corners(i, n)] :
                              c \in 0..(opt.copies - 1), m \in InstancesOf(i),
                              n \in 0..(Triangles(Part(i)) - 1)} : i \in sound}
           drawn(pfx) == {t \in total : PartOf(1 + IF pfx THEN FindDrawCallPfx(dcs, t)
                                                   ELSE FindDrawCall(dcs, t)) \in sound}
<1>5. source = told
  <2>1. \A i \in sound : i \in 1..Parts
    OBVIOUS
  <2> HIDE DEF sound
  <2> QED BY <1>4, <2>1, EndPieces
<1>6. \A pfx \in BOOLEAN : shown(pfx) = drawn(pfx)
  BY DEF ShownOf, Finds, PartOf, Base
<1> HIDE DEF source, shown, told, drawn
<1>7. \A pfx \in BOOLEAN : {Drawn(t, pfx) : t \in drawn(pfx)} = told
                           /\ Cardinality(drawn(pfx)) = Cardinality(told)
  BY <1>3, <1>5, <1>6
<1> QED BY <1>7 DEF DrawsSource, told, drawn

-----------------------------------------------------------------------------
(* The stages together.                                                    *)

\* What every stage of the load hands on to the next.
StagesInv ==
  /\ LayoutInv /\ NameInv /\ DrawsInv /\ SceneInv
  /\ TaskInv /\ FreshInv /\ FilledInv /\ PlacedInv /\ SentInv

LEMMA InitHandedOn == ASSUME Init PROVE StagesInv
<1>1. /\ pass \in {"cap", "register", "build"} /\ scene.dcs = <<>> /\ nextIndex = 0
      /\ job = [t \in Thread |-> <<>>] /\ idx = {} /\ reg = [t \in Thread |-> {}]
  BY DEF Init, InitViews
<1>2. LayoutInv /\ NameInv
  BY <1>1 DEF LayoutInv, NameInv, Fills
<1>3. TaskInv /\ FilledInv
  BY <1>1 DEF TaskInv, FilledInv
<1>4. FreshInv
  BY <1>1 DEF FreshInv
<1> QED BY <1>2, <1>3, <1>4, InitDraws, InitScene, InitPlaced, InitSent DEF StagesInv

LEMMA NextHandedOn == ASSUME ViewsInv, StagesInv, [Next]_vars PROVE StagesInv'
<1>1. /\ LayoutInv /\ NameInv /\ DrawsInv /\ SceneInv
      /\ TaskInv /\ FreshInv /\ FilledInv /\ PlacedInv /\ SentInv
  BY DEF StagesInv
<1>2. LayoutInv' /\ NameInv' /\ DrawsInv' /\ SceneInv'
  BY <1>1, NextLayout, NextNames, NextDraws, NextScene
<1>3. TaskInv' /\ FreshInv' /\ FilledInv'
  BY <1>1, NextTasks, NextFresh, NextFilled
<1>4. PlacedInv' /\ SentInv'
  BY <1>1, NextPlaced, NextSent
<1> QED BY <1>2, <1>3, <1>4 DEF StagesInv

\* Every stage keeps what the next one needs: the ranges reserved, the vertices and
\* bits stored, the draw calls made, cut into chunks and copied to the device all
\* stand for the file (GLBLoader.cpp:794-1067, MetalRastRenderer.cpp:653-762).
THEOREM StagesHandOn == Spec => []StagesInv
<1>1. Init => StagesInv
  BY InitHandedOn
<1>2. ViewsInv /\ StagesInv /\ [Next]_vars => StagesInv'
  BY NextHandedOn
<1> QED
  BY <1>1, <1>2, CountsAreExact, PTL DEF Spec

LEMMA StagesEnd == ASSUME ViewsInv, StagesInv, Ready PROVE EndInv
BY DEF EndInv, StagesInv, ViewsInv, Ready

\* Whatever file is loaded and in whichever order the workers and the split take
\* its parts, what the kernels draw, each number through either search, is what the
\* file says, every triangle of every instance in every copy once
\* (GLBLoader.cpp:794-1067, MetalRastRenderer.cpp:653-762, MetalRast.metal:160-283).
THEOREM DrawsTheFile == Spec => []DrawsSource
<1>1. ViewsInv /\ StagesInv => DrawsSource
  <2> SUFFICES ASSUME ViewsInv, StagesInv PROVE DrawsSource
    OBVIOUS
  <2>1. CASE Ready
    BY <2>1, StagesEnd, EndDraws
  <2>2. CASE ~Ready
    BY <2>2 DEF DrawsSource
  <2> QED BY <2>1, <2>2
<1> QED
  BY <1>1, CountsAreExact, StagesHandOn, PTL

\* The kernels' two searches for a triangle's draw call.
SearchesOneCall ==
  Ready => \A t \in 0..(InstancedTriangles(gpu.dcs) - 1) :
             FindDrawCallPfx(gpu.dcs, t) = FindDrawCall(gpu.dcs, t)

\* On the draw calls of a scene that is loaded the search of the draw calls and the
\* search of the prefix sums are one, those of no triangles included
\* (MetalRast.metal:160-198).
THEOREM SearchesAgreeOnScenes == Spec => []SearchesOneCall
<1>1. ViewsInv /\ StagesInv => SearchesOneCall
  <2> SUFFICES ASSUME ViewsInv, StagesInv, Ready,
                      NEW t \in 0..(InstancedTriangles(gpu.dcs) - 1)
               PROVE  FindDrawCallPfx(gpu.dcs, t) = FindDrawCall(gpu.dcs, t)
    BY DEF SearchesOneCall
  <2>1. Numbered(gpu.dcs)
    BY StagesEnd, EndDescribed DEF Described
  <2> QED BY <2>1, SearchesAgree
<1> QED
  BY <1>1, CountsAreExact, StagesHandOn, PTL
=============================================================================
