-------------------------- MODULE SceneLoad_proofs --------------------------
(***************************************************************************)
(* Proofs about SceneLoad, for every file, cap and number of threads.      *)
(*                                                                         *)
(* The heart is an exact count: a view's users are the drops of it that    *)
(* are still to come, in the tasks that run and in the primitives not yet  *)
(* taken by pass 2a and pass 3 (CountInv).  So a count of zero means that  *)
(* no step left anywhere names the view, and only then is it freed.        *)
(* Apart from it, the ranges that pass 2b reserves follow one another and  *)
(* begin on words of their own, and no two tasks fill the same primitive   *)
(* (LayoutInv, NameInv).                                                   *)
(* SceneDraws_proofs has what is drawn.                                    *)
(***************************************************************************)
EXTENDS SceneLoad, FiniteSetTheorems, SequenceTheorems, WellFoundedInduction, TLAPS

-----------------------------------------------------------------------------
(* The invariant.                                                          *)

Good == Compressed \ Broken

Shape ==
  /\ pass \in {"cap", "scan", "reserve", "fill", "adopt", "register", "registered",
               "build", "loaded", "split", "uploaded", "failed"}
  /\ opt \in Options
  /\ next \in Nat \ {0}
  /\ kept \in Seq(DOMAIN Plans)
  /\ data \in [View -> {"null", "decoded", "freed"}]
  /\ heap \in [View -> {0, 1}]
  /\ users \in [View -> Int]
  /\ at \in [Thread -> Nat \ {0}]
  /\ sub \in [Thread -> {"start", "lock", "decode", "store", "free", "clear"}]
  /\ job = [t \in Thread |-> job[t]]

\* Which passes follow which.
PassInv ==
  /\ Generated => kept = <<>>
  /\ pass \in {"cap", "scan", "reserve", "fill", "adopt"} => ~Generated
  /\ pass \in {"reserve", "fill", "build", "loaded", "split", "uploaded"} => ~opt.registry
  /\ pass = "adopt" => opt.registry
  /\ pass = "cap" => \A v \in View : users[v] = 0
  /\ pass \in {"register", "registered"} => \A v \in View : data[v] = "null"

\* What every task is like: a view is ensured before it is read or dropped and
\* dropped after all else, and the registry's scan drops nothing.
StepOK(steps, k) ==
  /\ steps[k][1] \in {"ensure", "drop"} \cup Reads
  /\ steps[k][2] \in View
  /\ steps[k][1] # "ensure" =>
       \E j \in 1..(k - 1) : steps[j][1] = "ensure" /\ steps[j][2] = steps[k][2]
  /\ steps[k][1] # "drop" /\ ~opt.registry =>
       \E j \in (k + 1)..Len(steps) : steps[j][1] = "drop" /\ steps[j][2] = steps[k][2]
  /\ steps[k][1] = "drop" => ~opt.registry
  /\ ~opt.registry => Uses(steps[k][2]) # 0
MaxSteps == 9
WellFormed(steps) ==
  /\ Len(steps) \in Nat /\ DOMAIN steps = 1..Len(steps) /\ Len(steps) <= MaxSteps
  /\ \A k \in 1..Len(steps) : StepOK(steps, k)

JobInv ==
  \A t \in Thread :
    /\ job[t] # <<>> => /\ pass \in {"scan", "fill"}
                        /\ WellFormed(job[t])
                        /\ at[t] <= Len(job[t]) + 1
    /\ sub[t] # "start" =>
         /\ job[t] # <<>> /\ at[t] <= Len(job[t])
         /\ sub[t] \in {"lock", "decode"} => Op(t) = "ensure" /\ V(t) \in Compressed
         /\ sub[t] = "store" => Op(t) = "indices"
         /\ sub[t] \in {"free", "clear"} => Op(t) = "drop"

\* The drops to come: of tasks that run, of primitives not yet scanned, and not
\* yet filled.
Owes(t, k, v) ==
  /\ job[t] # <<>>
  /\ at[t] <= k /\ k <= Len(job[t])
  /\ job[t][k][1] = "drop" /\ job[t][k][2] = v
  /\ k = at[t] => sub[t] = "start"
Owing(v) == {x \in Thread \X (1..MaxSteps) : Owes(x[1], x[2], v)}

ScanFrom == IF pass = "scan" THEN next ELSE Len(kept) + 1
FillFrom == IF pass \in {"scan", "reserve"} THEN 1
            ELSE IF pass = "fill" THEN next ELSE Len(kept) + 1
Untaken(from, accessor, v) ==
  {i \in from..Len(kept) : Has(i, accessor) /\ Part(i)[accessor] = v}

CountInv ==
  pass \notin {"cap", "failed"} /\ ~opt.registry =>
    \A v \in View :
      users[v] = Cardinality(Owing(v)) + Cardinality(Untaken(ScanFrom, "idx", v))
                   + Cardinality(Untaken(FillFrom, "pos", v))
                   + Cardinality(Untaken(FillFrom, "idx", v))
                   + Cardinality(Untaken(FillFrom, "uv", v))

\* Whoever is about to free a view, or has and has not yet dropped the pointer, is
\* the only one, and nobody else will use it.
Freeing(t) == job[t] # <<>> /\ sub[t] \in {"free", "clear"}
FreeInv ==
  /\ \A t \in Thread : Freeing(t) => users[V(t)] = 0
  /\ \A s, t \in Thread : Freeing(s) /\ Freeing(t) /\ V(s) = V(t) => s = t
  /\ \A t \in Thread : sub[t] = "clear" => data[V(t)] = "freed"

\* What a task has ensured is there for as long as anybody uses it.
DoneInv ==
  \A t \in Thread : job[t] # <<>> =>
    \A k \in 1..(at[t] - 1) :
      job[t][k][1] = "ensure" /\ job[t][k][2] \in Good
        /\ (opt.registry \/ users[job[t][k][2]] # 0)
      => data[job[t][k][2]] = "decoded"

DataInv ==
  \A v \in View :
    /\ v \notin Good => data[v] = "null"
    /\ heap[v] = IF data[v] = "decoded" THEN 1 ELSE 0
    /\ data[v] = "decoded" /\ ~opt.registry =>
         users[v] # 0 \/ \E t \in Thread : Freeing(t) /\ sub[t] = "free" /\ V(t) = v
    /\ data[v] = "freed" => \E t \in Thread : Freeing(t) /\ sub[t] = "clear" /\ V(t) = v

ViewsInv == Shape /\ PassInv /\ JobInv /\ CountInv /\ FreeInv /\ DoneInv /\ DataInv

\* Where the slice of a primitive ends.
SliceEnd(i) ==
  IF opt.packed THEN WordAligned(DC(i).indexOffset + Len(Part(i).index) * DC(i).bits)
                ELSE DC(i).indexOffset + Len(Part(i).index)
LayoutInv ==
  /\ pass \in {"cap", "scan"} => scene.dcs = <<>> /\ nextIndex = 0
  /\ pass = "reserve" => Len(scene.dcs) = next - 1 /\ next <= Len(kept) + 1
  /\ pass = "fill" => Len(scene.dcs) = Len(kept)
  /\ pass \in {"reserve", "fill"} =>
       /\ scene.dcs = [i \in 1..Len(scene.dcs) |-> DC(i)]
       /\ nextIndex \in Nat
       /\ opt.packed => WordAligned(nextIndex) = nextIndex
       /\ \A i \in 1..Len(scene.dcs) :
            /\ DC(i).indexOffset \in Nat /\ DC(i).bits \in Nat
            /\ opt.packed => WordAligned(DC(i).indexOffset) = DC(i).indexOffset
            /\ SliceEnd(i) <= nextIndex
            /\ \A j \in 1..Len(scene.dcs) : i < j => SliceEnd(i) <= DC(j).indexOffset

\* A running task fills a primitive that was taken, and no other task fills it.
Fills(t, k) == job[t] # <<>> /\ k \in 1..Len(job[t]) /\ job[t][k][1] = "indices"
NameInv ==
  \A s, t \in Thread : \A k, l \in 1..MaxSteps :
    /\ Fills(t, k) => /\ pass = "fill"
                      /\ job[t][k][3] \in 1..Len(kept) /\ job[t][k][3] < next
    /\ s # t /\ Fills(s, k) /\ Fills(t, l) => job[s][k][3] # job[t][l][3]

\* No decoded block is left behind by a load that is not given up: the safety part
\* of EndsFreed.
NoneLeft == pass \in {"loaded", "split", "uploaded", "registered"} => Freed

-----------------------------------------------------------------------------
(* Arithmetic.                                                             *)

\* A set of natural numbers has a least element.
LEMMA Least ==
  ASSUME NEW S \in SUBSET Nat, S # {}
  PROVE  \E x \in S : \A y \in S : x <= y
<1>1. PICK x \in S : \A y \in S : <<y, x>> \notin OpToRel(<, Nat)
  BY NatLessThanWellFounded, WFMin
<1>2. \A y \in S : ~ (y < x)
  BY <1>1 DEF OpToRel
<1> QED
  BY <1>2

\* Induction, as a statement about sets.
LEMMA Induction ==
  ASSUME NEW S, 0 \in S, \A n \in Nat : n \in S => n + 1 \in S
  PROVE  Nat \subseteq S
<1> SUFFICES ASSUME Nat \ S # {} PROVE FALSE
  OBVIOUS
<1>1. PICK m \in Nat \ S : \A k \in Nat \ S : m <= k
  BY Least
<1>2. m # 0 /\ m - 1 \in Nat
  BY <1>1
<1>3. m - 1 \in S
  BY <1>1, <1>2
<1> QED BY <1>1, <1>2, <1>3

\* The recursion of Pow2 is that of its definition.
LEMMA PowersOfTwo ==
  /\ Pow2 \in [Nat -> Nat \ {0}] /\ Pow2[0] = 1
  /\ \A n \in Nat : Pow2[n + 1] = 2 * Pow2[n]
<1> DEFINE Begins(g, n) == /\ g \in [0..n -> Nat \ {0}]
                           /\ \A k \in 0..n : g[k] = IF k = 0 THEN 1 ELSE 2 * g[k - 1]
           S == {n \in Nat : \E g : Begins(g, n)}
           G(n) == CHOOSE g : Begins(g, n)
           f == [n \in Nat |-> G(n)[n]]
<1>1. 0 \in S
  <2>1. Begins([k \in 0..0 |-> 1], 0)
    OBVIOUS
  <2> QED BY <2>1
<1>2. ASSUME NEW n \in Nat, n \in S PROVE n + 1 \in S
  <2>1. PICK g : Begins(g, n)
    BY <1>2
  <2> DEFINE h == [k \in 0..(n + 1) |-> IF k = n + 1 THEN 2 * g[n] ELSE g[k]]
  <2>2. Begins(h, n + 1)
    BY <2>1
  <2> HIDE DEF h, Begins
  <2> QED BY <2>2
<1>3. ASSUME NEW n \in Nat PROVE Begins(G(n), n)
  <2>1. n \in S
    <3> HIDE DEF S
    <3> QED BY <1>1, <1>2, Induction
  <2> QED BY <2>1
<1>4. ASSUME NEW n \in Nat, NEW g, NEW h, Begins(g, n), Begins(h, n + 1) PROVE g[n] = h[n]
  <2> DEFINE A == {k \in Nat : k <= n => g[k] = h[k]}
  <2>1. 0 \in A
    BY <1>4
  <2>2. ASSUME NEW k \in Nat, k \in A PROVE k + 1 \in A
    <3> SUFFICES ASSUME k + 1 <= n PROVE g[k + 1] = h[k + 1]
      OBVIOUS
    <3>1. g[k + 1] = 2 * g[k] /\ h[k + 1] = 2 * h[k]
      BY <1>4
    <3> QED BY <2>2, <3>1
  <2>3. n \in A
    <3> HIDE DEF A
    <3> QED BY <2>1, <2>2, Induction
  <2> QED BY <2>3
<1>5. f = [n \in Nat |-> IF n = 0 THEN 1 ELSE 2 * f[n - 1]]
  <2>1. ASSUME NEW n \in Nat PROVE f[n] = IF n = 0 THEN 1 ELSE 2 * f[n - 1]
    <3>1. G(n)[n] = IF n = 0 THEN 1 ELSE 2 * G(n)[n - 1]
      <4> HIDE DEF G
      <4> QED BY <1>3
    <3>2. CASE n # 0
      <4>1. G(n - 1)[n - 1] = G(n)[n - 1]
        <5>1. n - 1 \in Nat /\ (n - 1) + 1 = n
          BY <3>2
        <5>2. Begins(G(n - 1), n - 1) /\ Begins(G(n), n)
          BY <1>3, <5>1
        <5> HIDE DEF Begins, G
        <5> QED BY <1>4, <5>1, <5>2
      <4> HIDE DEF G
      <4> QED BY <3>1, <3>2, <4>1
    <3> HIDE DEF G
    <3> QED BY <3>1, <3>2
  <2> HIDE DEF G
  <2> QED BY <2>1
<1>6. Pow2 = [n \in Nat |-> IF n = 0 THEN 1 ELSE 2 * Pow2[n - 1]]
  <2> HIDE DEF f
  <2> QED BY <1>5 DEF Pow2
<1>7. Pow2[0] = 1 /\ \A n \in Nat : Pow2[n + 1] = 2 * Pow2[n]
  BY <1>6
<1>8. \A n \in Nat : Pow2[n] \in Nat \ {0}
  <2> DEFINE P == {n \in Nat : Pow2[n] \in Nat \ {0}}
  <2>1. 0 \in P /\ \A n \in Nat : n \in P => n + 1 \in P
    BY <1>7
  <2>2. Nat \subseteq P
    <3> HIDE DEF P
    <3> QED BY <2>1, Induction
  <2> QED BY <2>2
<1> QED BY <1>6, <1>7, <1>8

\* Divided and rounded up.
LEMMA CeilDivBounds ==
  ASSUME NEW n \in Nat, NEW d \in Nat \ {0}
  PROVE  /\ CeilDiv(n, d) \in Nat
         /\ n <= CeilDiv(n, d) * d
         /\ CeilDiv(n, d) * d < n + d
  BY DEF CeilDiv

\* WordAligned rounds up to a whole number of words, and is done then.
LEMMA Aligned ==
  ASSUME NEW n \in Nat
  PROVE  /\ WordAligned(n) \in Nat
         /\ n <= WordAligned(n)
         /\ WordAligned(WordAligned(n)) = WordAligned(n)
<1>1. WordBits \in Nat \ {0}
  BY LayoutAssumption
<1> DEFINE c == CeilDiv(n, WordBits)
<1>2. c \in Nat /\ n <= c * WordBits
  BY <1>1, CeilDivBounds
<1>3. (c * WordBits + WordBits - 1) \div WordBits = c
  BY <1>1, <1>2
<1>4. WordAligned(n) = c * WordBits /\ c * WordBits \in Nat
  BY <1>1, <1>2 DEF WordAligned
<1>5. WordAligned(c * WordBits) = c * WordBits
  BY <1>3 DEF WordAligned, CeilDiv
<1> QED
  BY <1>2, <1>4, <1>5

\* And a bounded one has a greatest.
LEMMA Greatest ==
  ASSUME NEW n \in Int, NEW S \in SUBSET (0..n), S # {}
  PROVE  \E x \in S : \A y \in S : x >= y
<1> DEFINE T == {m \in Nat : \E x \in S : m = n - x}
<1>1. T \in SUBSET Nat
  OBVIOUS
<1>2. T # {}
  <2>1. PICK x \in S : TRUE
    OBVIOUS
  <2>2. n - x \in T
    BY <2>1
  <2> QED
    BY <2>2
<1>3. PICK m \in T : \A k \in T : m <= k
  <2> HIDE DEF T
  <2> QED
    BY <1>1, <1>2, Least
<1>4. PICK x \in S : m = n - x
  BY <1>3
<1>5. ASSUME NEW y \in S PROVE x >= y
  <2>1. n - y \in T
    OBVIOUS
  <2>2. m <= n - y
    BY <1>3, <2>1
  <2> QED
    BY <1>4, <2>2
<1> QED
  BY <1>4, <1>5

\* Every range of 32-bit values is stored in so many bits.
LEMMA BitsAreBits ==
  ASSUME NEW range \in Int, range <= Pow2[WordBits] \/ range <= 1
  PROVE  BitsFor(range) \in 0..WordBits /\ Pow2[BitsFor(range)] >= range
<1>1. WordBits \in Nat
  BY LayoutAssumption
<1> DEFINE S == {b \in 0..WordBits : Pow2[b] >= range}
<1>2. S \in SUBSET Nat /\ S # {}
  <2>0. S \in SUBSET Nat
    BY <1>1
  <2>1. CASE range <= Pow2[WordBits]
    <3>1. Pow2[WordBits] \in Nat
      BY <1>1, PowersOfTwo
    <3>2. WordBits \in S
      BY <1>1, <2>1, <3>1
    <3> HIDE DEF S
    <3> QED
      BY <2>0, <3>2
  <2>2. CASE range <= 1
    <3>1. Pow2[0] = 1
      BY PowersOfTwo
    <3>2. 0 \in S
      BY <1>1, <2>2, <3>1
    <3> HIDE DEF S
    <3> QED
      BY <2>0, <3>2
  <2> QED
    BY <2>1, <2>2
<1>3. PICK b \in S : \A c \in S : b <= c
  BY <1>2, Least
<1>4. \A c \in 0..(b - 1) : c \notin S
  BY <1>1, <1>3
<1>5. \A c \in 0..(b - 1) : Pow2[c] < range
  <2>1. \A c \in Nat : Pow2[c] \in Nat
    BY PowersOfTwo
  <2> QED
    BY <1>1, <1>3, <1>4, <2>1
<1>6. \E x \in 0..WordBits : Pow2[x] >= range /\ \A c \in 0..(x - 1) : Pow2[c] < range
  BY <1>3, <1>5
<1> QED
  BY <1>6 DEF BitsFor

-----------------------------------------------------------------------------
(* The plans and their tasks.                                              *)

Max32 == Pow2[WordBits] - 1
IsPlan(p) ==
  /\ {"pos", "idx"} \subseteq DOMAIN p
  /\ \A accessor \in {"pos", "idx", "uv"} \cap DOMAIN p : p[accessor] \in View
  /\ p.verts \in Nat
  /\ p.index \in Seq(0..Max32)
  /\ p.range \in {<<>>} \cup ((0..Max32) \X (0..Max32))

\* Sequences joined one after the other.
Joins(s, b, n) == s = [i \in 1..n |-> IF i = 1 THEN b[i] ELSE s[i - 1] \o b[i]]

LEMMA JoinsExist == \A b : \A n \in Nat : n # 0 => \E s : Joins(s, b, n)
<1> SUFFICES ASSUME NEW b PROVE \A n \in Nat : n # 0 => \E s : Joins(s, b, n)
  OBVIOUS
<1> DEFINE S == {n \in Nat : n # 0 => \E s : Joins(s, b, n)}
<1>1. 0 \in S
  OBVIOUS
<1>2. ASSUME NEW n \in Nat, n \in S PROVE n + 1 \in S
  <2>1. CASE n = 0
    <3>1. Joins([i \in 1..1 |-> b[i]], b, 1)
      BY DEF Joins
    <3>2. n + 1 = 1
      BY <2>1
    <3> QED BY <3>1, <3>2
  <2>2. CASE n # 0
    <3>1. PICK s : Joins(s, b, n)
      BY <1>2, <2>2
    <3>2. \A i \in 1..n : s[i] = IF i = 1 THEN b[i] ELSE s[i - 1] \o b[i]
      BY <3>1 DEF Joins
    <3> DEFINE h == [i \in 1..(n + 1) |-> IF i = n + 1 THEN s[n] \o b[n + 1] ELSE s[i]]
    <3>3. ASSUME NEW i \in 1..(n + 1) PROVE h[i] = IF i = 1 THEN b[i] ELSE h[i - 1] \o b[i]
      <4>1. CASE i = n + 1
        <5>1. i # 1 /\ i - 1 = n /\ n \in 1..(n + 1) /\ n # n + 1
          BY <2>2, <4>1
        <5>2. h[n] = s[n] /\ h[i] = s[n] \o b[n + 1]
          BY <4>1, <5>1
        <5> HIDE DEF h
        <5> QED BY <4>1, <5>1, <5>2
      <4>2. CASE i # n + 1
        <5>1. i \in 1..n /\ h[i] = s[i] /\ (i # 1 => i - 1 \in 1..n /\ h[i - 1] = s[i - 1])
          BY <4>2
        <5> HIDE DEF h
        <5> QED BY <3>2, <5>1
      <4> QED BY <4>1, <4>2
    <3>4. h = [i \in 1..(n + 1) |-> h[i]]
      OBVIOUS
    <3> HIDE DEF h
    <3>5. Joins(h, b, n + 1)
      BY <3>3, <3>4 DEF Joins
    <3> QED BY <3>5
  <2> QED BY <2>1, <2>2
<1>3. Nat \subseteq S
  <2> HIDE DEF S
  <2> QED BY <1>1, <1>2, Induction
<1> QED BY <1>3

LEMMA FlattenJoins ==
  ASSUME NEW b, NEW n \in Nat \ {0}, Len(b) = n
  PROVE  \E s : Joins(s, b, n) /\ FlattenSeq(b) = s[n]
<1> DEFINE s == CHOOSE s : Joins(s, b, n)
<1>1. Joins(s, b, n)
  BY JoinsExist
<1>2. Len(b) # 0
  OBVIOUS
<1>3. FlattenSeq(b) = s[n]
  BY <1>2, Zenon DEF FlattenSeq, Joins
<1> QED BY <1>1, <1>3

\* The same, without the case of the first.
Joined(s, b, n) == s[1] = b[1] /\ \A i \in 1..(n - 1) : s[i + 1] = s[i] \o b[i + 1]

LEMMA JoinSteps ==
  ASSUME NEW s, NEW b, NEW n \in Nat \ {0}, Joins(s, b, n)
  PROVE  Joined(s, b, n)
<1>1. \A i \in 1..n : s[i] = IF i = 1 THEN b[i] ELSE s[i - 1] \o b[i]
  BY DEF Joins
<1>2. s[1] = b[1]
  BY <1>1
<1>3. ASSUME NEW i \in 1..(n - 1) PROVE s[i + 1] = s[i] \o b[i + 1]
  <2> DEFINE x == i + 1
  <2>1. x \in 1..n /\ x # 1 /\ x - 1 = i
    OBVIOUS
  <2> HIDE DEF x
  <2>2. s[x] = s[i] \o b[x]
    BY <1>1, <2>1
  <2> QED BY <2>2 DEF x
<1> QED BY <1>2, <1>3 DEF Joined

LEMMA FlattenSteps ==
  ASSUME NEW b, NEW n \in Nat \ {0}, Len(b) = n
  PROVE  \E s : FlattenSeq(b) = s[n] /\ Joined(s, b, n)
<1>1. PICK s : Joins(s, b, n) /\ FlattenSeq(b) = s[n]
  BY FlattenJoins
<1>2. Joined(s, b, n)
  BY <1>1, JoinSteps
<1> QED BY <1>1, <1>2

\* Sequences over S join to a sequence over S.
LEMMA FlattenType ==
  ASSUME NEW S, NEW b \in Seq(Seq(S))
  PROVE  FlattenSeq(b) \in Seq(S)
<1> DEFINE n == Len(b)
<1>1. n \in Nat /\ b \in [1..n -> Seq(S)]
  BY LenProperties
<1>2. CASE n = 0
  <2>1. FlattenSeq(b) = b
    BY <1>2 DEF FlattenSeq
  <2>2. b = <<>>
    BY <1>2
  <2> QED BY <2>1, <2>2
<1>3. CASE n # 0
  <2>0. PICK s : FlattenSeq(b) = s[n] /\ Joined(s, b, n)
    BY <1>1, <1>3, FlattenSteps
  <2>1. s[1] = b[1] /\ \A i \in 1..(n - 1) : s[i + 1] = s[i] \o b[i + 1]
    BY <2>0 DEF Joined
  <2> DEFINE A == {j \in Nat : j \in 1..n => s[j] \in Seq(S)}
  <2>2. 0 \in A
    OBVIOUS
  <2>3. ASSUME NEW j \in Nat, j \in A PROVE j + 1 \in A
    <3> SUFFICES ASSUME j + 1 \in 1..n PROVE s[j + 1] \in Seq(S)
      OBVIOUS
    <3>0. j # 0 => j \in 1..(n - 1)
      BY <1>1
    <3>1. b[j + 1] \in Seq(S)
      BY <1>1
    <3>2. CASE j = 0
      BY <2>1, <3>1, <3>2
    <3>3. CASE j # 0
      <4>1. s[j] \in Seq(S)
        BY <1>1, <2>3, <3>3
      <4>2. s[j + 1] = s[j] \o b[j + 1]
        BY <2>1, <3>0, <3>3
      <4> QED BY <3>1, <4>1, <4>2, ConcatProperties
    <3> QED BY <3>2, <3>3
  <2>4. Nat \subseteq A
    <3> HIDE DEF A
    <3> QED BY <2>2, <2>3, Induction
  <2> QED BY <1>1, <1>3, <2>0, <2>4
<1> QED BY <1>2, <1>3

\* What is pushed back are elements at the positions.
LEMMA PushedType ==
  ASSUME NEW S, NEW s \in Seq(S), NEW positions, NEW T,
         \A k \in DOMAIN s \cap positions : s[k] \in T
  PROVE  Pushed(s, positions) \in Seq(T)
<1> DEFINE b == [k \in DOMAIN s |-> IF k \in positions THEN <<s[k]>> ELSE <<>>]
<1>1. Len(s) \in Nat /\ DOMAIN s = 1..Len(s)
  BY LenProperties
<1>2. \A k \in DOMAIN s : b[k] \in Seq(T)
  OBVIOUS
<1>3. b \in [1..Len(s) -> Seq(T)]
  BY <1>1, <1>2
<1>4. b \in Seq(Seq(T))
  <2> HIDE DEF b
  <2> QED BY <1>1, <1>3
<1>5. FlattenSeq(b) \in Seq(T)
  BY <1>4, FlattenType
<1> QED BY <1>5 DEF Pushed

\* Numbers pushed back in their order are all different.
LEMMA PushedOnce ==
  ASSUME NEW n \in Nat, NEW positions
  PROVE  LET p == Pushed([v \in 1..n |-> v], positions) IN
         \A x, y \in DOMAIN p : p[x] = p[y] => x = y
<1> DEFINE id == [v \in 1..n |-> v]
           b == [k \in DOMAIN id |-> IF k \in positions THEN <<id[k]>> ELSE <<>>]
           Apart(p) == \A x, y \in DOMAIN p : p[x] = p[y] => x = y
<1>1. DOMAIN id = 1..n /\ Len(b) = n
  OBVIOUS
<1>2. \A k \in 1..n : b[k] = IF k \in positions THEN <<k>> ELSE <<>>
  OBVIOUS
<1> HIDE DEF b
<1>3. CASE n = 0
  <2>1. FlattenSeq(b) = b
    BY <1>1, <1>3 DEF FlattenSeq
  <2>2. DOMAIN b = {}
    BY <1>3 DEF b
  <2> QED BY <2>1, <2>2 DEF Pushed, b
<1>4. CASE n # 0
  <2>0. PICK s : FlattenSeq(b) = s[n] /\ Joined(s, b, n)
    BY <1>1, <1>4, FlattenSteps
  <2>1. s[1] = b[1] /\ \A i \in 1..(n - 1) : s[i + 1] = s[i] \o b[i + 1]
    BY <2>0 DEF Joined
  <2> DEFINE A == {j \in Nat : j \in 1..n => s[j] \in Seq(1..j) /\ Apart(s[j])}
  <2>2. 0 \in A
    OBVIOUS
  <2>3. ASSUME NEW j \in Nat, j \in A PROVE j + 1 \in A
    <3> SUFFICES ASSUME j + 1 \in 1..n PROVE s[j + 1] \in Seq(1..(j + 1)) /\ Apart(s[j + 1])
      OBVIOUS
    <3>0. j # 0 => j \in 1..(n - 1)
      OBVIOUS
    <3>1. b[j + 1] = IF j + 1 \in positions THEN <<j + 1>> ELSE <<>>
      BY <1>2
    <3>2. CASE j = 0
      <4>1. j + 1 = 1
        BY <3>2
      <4>2. s[1] = IF 1 \in positions THEN <<1>> ELSE <<>>
        BY <2>1, <3>1, <4>1
      <4>3. CASE 1 \in positions
        <5>1. s[1] = <<1>>
          BY <4>2, <4>3
        <5>2. <<1>> \in Seq(1..1)
          OBVIOUS
        <5>3. Apart(<<1>>)
          <6>1. \A x \in DOMAIN <<1>> : x = 1
            OBVIOUS
          <6> QED BY <6>1
        <5> HIDE DEF Apart
        <5> QED BY <4>1, <5>1, <5>2, <5>3
      <4>4. CASE 1 \notin positions
        <5>1. s[1] = <<>>
          BY <4>2, <4>4
        <5>2. <<>> \in Seq(1..1) /\ Apart(<<>>)
          OBVIOUS
        <5> HIDE DEF Apart
        <5> QED BY <4>1, <5>1, <5>2
      <4> QED BY <4>3, <4>4
    <3>3. CASE j # 0
      <4>1. j \in 1..n /\ s[j] \in Seq(1..j) /\ Apart(s[j])
        BY <2>3, <3>3
      <4>2. s[j + 1] = s[j] \o b[j + 1]
        BY <2>1, <3>0, <3>3
      <4>3. CASE j + 1 \notin positions
        <5>1. s[j + 1] = s[j]
          BY <3>1, <4>1, <4>2, <4>3, ConcatEmptySeq
        <5>2. s[j] \in Seq(1..(j + 1))
          BY <4>1
        <5> QED BY <4>1, <5>1, <5>2
      <4>4. CASE j + 1 \in positions
        <5> DEFINE l == Len(s[j])
        <5>1. s[j + 1] = Append(s[j], j + 1)
          BY <3>1, <4>1, <4>2, <4>4
        <5>2. l \in Nat /\ DOMAIN s[j] = 1..l /\ \A x \in 1..l : s[j][x] \in 1..j
          BY <4>1, LenProperties
        <5>3. s[j] \in Seq(1..(j + 1))
          BY <4>1
        <5>4. /\ s[j + 1] \in Seq(1..(j + 1)) /\ Len(s[j + 1]) = l + 1
              /\ \A x \in 1..l : s[j + 1][x] = s[j][x]
              /\ s[j + 1][l + 1] = j + 1
          BY <5>1, <5>3, AppendProperties
        <5>5. DOMAIN s[j + 1] = 1..(l + 1)
          BY <5>4, LenProperties
        <5>6. ASSUME NEW x \in 1..(l + 1), NEW y \in 1..(l + 1), s[j + 1][x] = s[j + 1][y]
              PROVE  x = y
          <6>1. CASE x \in 1..l /\ y \in 1..l
            BY <4>1, <5>2, <5>4, <5>6, <6>1
          <6>2. ASSUME NEW z \in 1..l PROVE s[j + 1][z] # s[j + 1][l + 1]
            <7>1. s[j + 1][z] \in 1..j /\ s[j + 1][l + 1] = j + 1
              BY <5>2, <5>4
            <7> QED BY <7>1
          <6>3. CASE x = l + 1 \/ y = l + 1
            <7>1. \A z \in 1..(l + 1) : z \in 1..l \/ z = l + 1
              BY <5>2
            <7> QED BY <5>6, <6>2, <6>3, <7>1
          <6> QED BY <5>2, <6>1, <6>3
        <5> QED BY <5>4, <5>5, <5>6
      <4> QED BY <4>3, <4>4
    <3> QED BY <3>2, <3>3
  <2>4. Nat \subseteq A
    <3> HIDE DEF A, Apart
    <3> QED BY <2>2, <2>3, Induction
  <2>5. Apart(s[n])
    <3> HIDE DEF Apart
    <3> QED BY <1>4, <2>4
  <2> QED BY <2>0, <2>5 DEF Pushed, b
<1> QED BY <1>3, <1>4

\* The plans are drawable primitives of the file, each with visits, none twice.
LEMMA PlansFacts ==
  /\ Plans \in Seq({Primitives[i] : i \in DOMAIN Primitives})
  /\ \A k \in DOMAIN Plans : /\ {"pos", "idx"} \subseteq DOMAIN Plans[k]
                             /\ LET visits == Transforms(Plans[k].mesh) IN
                                /\ visits \in Seq(DOMAIN Visited) /\ visits # <<>>
                                /\ \A a, b \in DOMAIN visits : visits[a] = visits[b] => a = b
<1> DEFINE Given == {Primitives[i] : i \in DOMAIN Primitives}
           Taken == {p \in Given : Drawable(p)}
<1>1. Plans \in Seq(Taken)
  <2> DEFINE K == {k \in DOMAIN Primitives : Drawable(Primitives[k])}
  <2>1. \A k \in DOMAIN Primitives \cap K : Primitives[k] \in Taken
    OBVIOUS
  <2>2. Primitives \in Seq(Given)
    BY FileAssumption
  <2> HIDE DEF Given, Taken, K
  <2>3. Pushed(Primitives, K) \in Seq(Taken)
    BY <2>1, <2>2, PushedType
  <2> QED BY <2>3 DEF Plans, K
<1>2. Visited \in Seq(DOMAIN Children)
  <2> DEFINE D == DOMAIN Children
             tree(s) == [k \in DOMAIN Scenes[s] |-> Subtree[Scenes[s][k]]]
             all == [s \in DOMAIN Scenes |-> FlattenSeq(tree(s))]
  <2>1. Scenes \in Seq(Seq(D)) /\ Subtree \in [D -> Seq(D)]
    BY FileAssumption
  <2> HIDE DEF D
  <2>2. ASSUME NEW s \in DOMAIN Scenes PROVE FlattenSeq(tree(s)) \in Seq(D)
    <3>1. Scenes[s] \in Seq(D)
      BY <2>1, LenProperties
    <3>2. /\ Len(Scenes[s]) \in Nat /\ DOMAIN Scenes[s] = 1..Len(Scenes[s])
          /\ \A k \in DOMAIN Scenes[s] : Scenes[s][k] \in D
      BY <3>1, LenProperties
    <3>3. tree(s) \in [1..Len(Scenes[s]) -> Seq(D)]
      BY <2>1, <3>2
    <3>4. tree(s) \in Seq(Seq(D))
      <4> HIDE DEF tree
      <4> QED BY <3>2, <3>3
    <3> QED BY <3>4, FlattenType
  <2>3. Len(Scenes) \in Nat /\ DOMAIN Scenes = 1..Len(Scenes)
    BY <2>1, LenProperties
  <2>4. all \in [1..Len(Scenes) -> Seq(D)]
    BY <2>2, <2>3
  <2>5. all \in Seq(Seq(D))
    <3> HIDE DEF all
    <3> QED BY <2>3, <2>4
  <2>6. FlattenSeq(all) \in Seq(D)
    BY <2>5, FlattenType
  <2> QED BY <2>6 DEF Visited, D
<1>3. ASSUME NEW k \in DOMAIN Plans
      PROVE  /\ {"pos", "idx"} \subseteq DOMAIN Plans[k]
             /\ LET visits == Transforms(Plans[k].mesh) IN
                /\ visits \in Seq(DOMAIN Visited) /\ visits # <<>>
                /\ \A a, b \in DOMAIN visits : visits[a] = visits[b] => a = b
  <2> DEFINE m == Plans[k].mesh
             N == Len(Visited)
             id == [v \in 1..N |-> v]
             K == {v \in DOMAIN Visited : MeshOf[Visited[v]] = m}
  <2>1. Drawable(Plans[k])
    <3> HIDE DEF Given
    <3>1. Plans[k] \in Taken
      BY <1>1, LenProperties
    <3> QED BY <3>1
  <2>2. N \in Nat /\ DOMAIN Visited = 1..N
    BY <1>2, LenProperties
  <2>3. Transforms(m) = Pushed(id, K)
    BY <2>2 DEF Transforms
  <2> HIDE DEF K, m, N
  <2>4. id \in Seq(1..N)
    BY <2>2
  <2>5. \A v \in DOMAIN id \cap K : id[v] \in 1..N
    OBVIOUS
  <2> HIDE DEF id
  <2>6. Pushed(id, K) \in Seq(1..N)
    BY <2>4, <2>5, PushedType
  <2>7. \A a, b \in DOMAIN Transforms(m) : Transforms(m)[a] = Transforms(m)[b] => a = b
    BY <2>2, <2>3, PushedOnce DEF id
  <2>8. {"pos", "idx"} \subseteq DOMAIN Plans[k] /\ Transforms(m) # <<>>
    BY <2>1 DEF Drawable, m
  <2> QED BY <2>2, <2>3, <2>6, <2>7, <2>8 DEF m
<1>4. Plans \in Seq(Given)
  <2>1. Taken \subseteq Given
    OBVIOUS
  <2> HIDE DEF Taken, Given
  <2>2. Plans \in [1..Len(Plans) -> Taken] /\ Len(Plans) \in Nat
    BY <1>1, LenProperties
  <2>3. Plans \in [1..Len(Plans) -> Given]
    BY <2>1, <2>2
  <2> QED BY <2>2, <2>3
<1> QED BY <1>3, <1>4

\* What is kept is a drawn primitive of the file.
LEMMA PartIsPlan ==
  ASSUME kept \in Seq(DOMAIN Plans), ~Generated, NEW i \in 1..Len(kept)
  PROVE  IsPlan(Part(i))
<1>1. kept[i] \in DOMAIN Plans /\ Part(i) = Plans[kept[i]]
  BY DEF Part
<1>2. Plans[kept[i]] \in {Primitives[k] : k \in DOMAIN Primitives}
  BY <1>1, PlansFacts, LenProperties
<1>3. PICK k \in DOMAIN Primitives : Part(i) = Primitives[k]
  BY <1>1, <1>2
<1>4. {"pos", "idx"} \subseteq DOMAIN Part(i)
  BY <1>1, PlansFacts
<1> QED
  BY <1>3, <1>4, PrimitivesAssumption DEF IsPlan, Max32

\* The range of a plan's indices, and the bits each of them is stored in.
LEMMA RangeOfPlan ==
  ASSUME NEW p, IsPlan(p)
  PROVE  /\ IndexRange(p)[1] \in Nat /\ IndexRange(p)[2] \in Nat
         /\ BitsFor(IndexRange(p)[2] - IndexRange(p)[1] + 1) \in Nat
         /\ Pow2[BitsFor(IndexRange(p)[2] - IndexRange(p)[1] + 1)]
              >= IndexRange(p)[2] - IndexRange(p)[1] + 1
<1> DEFINE s == {p.index[k] : k \in DOMAIN p.index}
           lo == CHOOSE x \in s : \A y \in s : x <= y
           hi == CHOOSE x \in s : \A y \in s : x >= y
<1>0. Max32 \in Int /\ WordBits \in Nat /\ Pow2[WordBits] \in Nat
  BY LayoutAssumption, PowersOfTwo DEF Max32
<1>1. s \subseteq 0..Max32
  <2>1. p.index \in Seq(0..Max32)
    BY DEF IsPlan
  <2>2. p.index \in [1..Len(p.index) -> 0..Max32]
    BY <2>1, LenProperties
  <2> QED
    BY <2>2
<1>2. s # {} => lo \in s
  <2> SUFFICES ASSUME s # {} PROVE lo \in s
    OBVIOUS
  <2> HIDE DEF s
  <2>1. \E x \in s : \A y \in s : x <= y
    BY <1>0, <1>1, Least
  <2> QED
    BY <2>1
<1>3. s # {} => hi \in s
  <2> SUFFICES ASSUME s # {} PROVE hi \in s
    OBVIOUS
  <2> HIDE DEF s
  <2>1. \E x \in s : \A y \in s : x >= y
    BY <1>0, <1>1, Greatest
  <2> QED
    BY <2>1
<1>4. IndexRange(p) = IF p.range # <<>> THEN p.range ELSE IF s = {} THEN <<0, 0>> ELSE <<lo, hi>>
  BY DEF IndexRange
<1> HIDE DEF s, lo, hi
<1> DEFINE a == IndexRange(p)[1]
           b == IndexRange(p)[2]
<1>5. a \in Nat /\ b \in Nat /\ (b <= Max32 \/ (a = 0 /\ b = 0))
  <2>1. CASE p.range # <<>>
    <3>1. p.range \in (0..Max32) \X (0..Max32)
      BY <2>1 DEF IsPlan
    <3>2. IndexRange(p) = p.range
      BY <1>4, <2>1
    <3>3. a \in 0..Max32 /\ b \in 0..Max32
      BY <3>1, <3>2
    <3> HIDE DEF a, b
    <3> QED
      BY <1>0, <3>3
  <2>2. CASE p.range = <<>> /\ s = {}
    <3>1. IndexRange(p) = <<0, 0>>
      BY <1>4, <2>2
    <3> QED
      BY <3>1
  <2>3. CASE p.range = <<>> /\ s # {}
    <3>1. IndexRange(p) = <<lo, hi>>
      BY <1>4, <2>3
    <3>2. lo \in 0..Max32 /\ hi \in 0..Max32
      BY <1>1, <1>2, <1>3, <2>3
    <3>3. a \in 0..Max32 /\ b \in 0..Max32
      BY <3>1, <3>2
    <3> HIDE DEF a, b
    <3> QED
      BY <1>0, <3>3
  <2> QED
    BY <2>1, <2>2, <2>3
<1> HIDE DEF a, b
<1>6. b - a + 1 \in Int /\ (b - a + 1 <= Pow2[WordBits] \/ b - a + 1 <= 1)
  BY <1>0, <1>5 DEF Max32
<1>7. BitsFor(b - a + 1) \in 0..WordBits /\ Pow2[BitsFor(b - a + 1)] >= b - a + 1
  BY <1>6, BitsAreBits
<1>8. BitsFor(b - a + 1) \in Nat
  BY <1>0, <1>7
<1> QED
  BY <1>5, <1>7, <1>8 DEF a, b

\* The steps of a fill, one after the other.
UvAt(i) == IF Has(i, "uv") THEN 3 ELSE 0
LEMMA FillShape ==
  ASSUME NEW i
  PROVE  LET F == FillSteps(i)
             p == UvAt(i) IN
         /\ Len(F) = 6 + p /\ DOMAIN F = 1..(6 + p)
         /\ F[1] = <<"ensure", Part(i).pos>>
         /\ F[2] = <<"ensure", Part(i).idx>>
         /\ F[3] = <<"positions", Part(i).pos, i>>
         /\ p = 3 => /\ F[4] = <<"ensure", Part(i).uv>>
                     /\ F[5] = <<"uvs", Part(i).uv, i>>
                     /\ F[6] = <<"drop", Part(i).uv>>
         /\ F[4 + p] = <<"indices", Part(i).idx, i>>
         /\ F[5 + p] = <<"drop", Part(i).pos>>
         /\ F[6 + p] = <<"drop", Part(i).idx>>
<1> DEFINE A == <<<<"ensure", Part(i).pos>>, <<"ensure", Part(i).idx>>, <<"positions", Part(i).pos, i>>>>
           B == UvSteps(i)
           C == <<<<"indices", Part(i).idx, i>>, <<"drop", Part(i).pos>>, <<"drop", Part(i).idx>>>>
           U == <<<<"ensure", Part(i).uv>>, <<"uvs", Part(i).uv, i>>, <<"drop", Part(i).uv>>>>
           S == {A[1], A[2], A[3], C[1], C[2], C[3], U[1], U[2], U[3]}
           p == UvAt(i)
<1>1. A \in Seq(S) /\ Len(A) = 3
  OBVIOUS
<1>2. C \in Seq(S) /\ Len(C) = 3
  OBVIOUS
<1>3. U \in Seq(S) /\ Len(U) = 3
  OBVIOUS
<1>4. B \in Seq(S) /\ Len(B) = p /\ p \in {0, 3} /\ (p = 3 => B = U)
  <2>1. CASE Has(i, "uv")
    <3>1. B = U /\ p = 3
      BY <2>1 DEF UvSteps, UvAt
    <3> HIDE DEF B, U, S, p
    <3> QED
      BY <1>3, <3>1
  <2>2. CASE ~Has(i, "uv")
    <3>1. B = <<>> /\ p = 0
      BY <2>2 DEF UvSteps, UvAt
    <3> HIDE DEF B, U, S, p
    <3> QED
      BY <3>1
  <2> QED
    BY <2>1, <2>2
<1>5. FillSteps(i) = A \o B \o C
  BY DEF FillSteps
<1>6. A[1] = <<"ensure", Part(i).pos>> /\ A[2] = <<"ensure", Part(i).idx>>
      /\ A[3] = <<"positions", Part(i).pos, i>>
  OBVIOUS
<1>7. C[1] = <<"indices", Part(i).idx, i>> /\ C[2] = <<"drop", Part(i).pos>>
      /\ C[3] = <<"drop", Part(i).idx>>
  OBVIOUS
<1>8. U[1] = <<"ensure", Part(i).uv>> /\ U[2] = <<"uvs", Part(i).uv, i>>
      /\ U[3] = <<"drop", Part(i).uv>>
  OBVIOUS
<1> HIDE DEF A, B, C, U, S, p
<1>9. /\ A \o B \in Seq(S) /\ Len(A \o B) = 3 + p
      /\ \A k \in 1..(3 + p) : (A \o B)[k] = IF k <= 3 THEN A[k] ELSE B[k - 3]
  <2>1. /\ A \o B \in Seq(S) /\ Len(A \o B) = Len(A) + Len(B)
        /\ \A k \in 1..(Len(A) + Len(B)) : (A \o B)[k] = IF k <= Len(A) THEN A[k] ELSE B[k - Len(A)]
    BY <1>1, <1>4, ConcatProperties
  <2> QED
    BY <1>1, <1>4, <2>1
<1> DEFINE AB == A \o B
           F == AB \o C
<1> HIDE DEF AB
<1>10. /\ F \in Seq(S) /\ Len(F) = 6 + p
       /\ \A k \in 1..(6 + p) : F[k] = IF k <= 3 + p THEN AB[k] ELSE C[k - (3 + p)]
  <2>1. AB \in Seq(S) /\ Len(AB) = 3 + p
    BY <1>9 DEF AB
  <2>2. /\ F \in Seq(S) /\ Len(F) = Len(AB) + Len(C)
        /\ \A k \in 1..(Len(AB) + Len(C)) : F[k] = IF k <= Len(AB) THEN AB[k] ELSE C[k - Len(AB)]
    BY <1>2, <2>1, ConcatProperties
  <2> HIDE DEF F
  <2>3. Len(AB) + Len(C) = 6 + p
    BY <1>2, <1>4, <2>1
  <2> QED
    BY <2>1, <2>2, <2>3
<1>11. DOMAIN F = 1..(6 + p)
  BY <1>10, LenProperties
<1>12. FillSteps(i) = F
  BY <1>5 DEF AB
<1> HIDE DEF F
<1>13. F[1] = A[1] /\ F[2] = A[2] /\ F[3] = A[3]
  BY <1>4, <1>9, <1>10 DEF AB
<1>14. p = 3 => F[4] = U[1] /\ F[5] = U[2] /\ F[6] = U[3]
  BY <1>4, <1>9, <1>10 DEF AB
<1>15. F[4 + p] = C[1] /\ F[5 + p] = C[2] /\ F[6 + p] = C[3]
  BY <1>4, <1>10
<1> QED
  BY <1>6, <1>7, <1>8, <1>10, <1>11, <1>12, <1>13, <1>14, <1>15 DEF p

\* The steps of a scan.
ReadAt(i) == IF Part(i).range = <<>> THEN 1 ELSE 0
LEMMA ScanShape ==
  ASSUME NEW i
  PROVE  LET S == ScanSteps(i)
             q == ReadAt(i) IN
         /\ opt.registry => Len(S) = 2 * q /\ DOMAIN S = 1..(2 * q)
         /\ ~opt.registry => /\ Len(S) = 2 + q /\ DOMAIN S = 1..(2 + q)
                             /\ S[1] = <<"ensure", Part(i).idx>>
                             /\ S[2 + q] = <<"drop", Part(i).idx>>
         /\ q = 1 => S[1] = <<"ensure", Part(i).idx>> /\ S[2] = <<"read", Part(i).idx>>
<1> DEFINE A == <<<<"ensure", Part(i).idx>>>>
           R == <<<<"read", Part(i).idx>>>>
           D == <<<<"drop", Part(i).idx>>>>
           B == IF Part(i).range = <<>> THEN R ELSE <<>>
           S == {A[1], R[1], D[1]}
           q == ReadAt(i)
<1>1. CASE opt.registry
  <2>1. CASE Part(i).range = <<>>
    <3>1. ScanSteps(i) = <<<<"ensure", Part(i).idx>>, <<"read", Part(i).idx>>>> /\ q = 1
      BY <1>1, <2>1 DEF ScanSteps, ReadAt
    <3> QED
      BY <1>1, <3>1
  <2>2. CASE Part(i).range # <<>>
    <3>1. ScanSteps(i) = <<>> /\ q = 0
      BY <1>1, <2>2 DEF ScanSteps, ReadAt
    <3>2. Len(<<>>) = 0 /\ DOMAIN <<>> = 1..0
      OBVIOUS
    <3> QED
      BY <1>1, <3>1, <3>2
  <2> QED
    BY <2>1, <2>2
<1>2. CASE ~opt.registry
  <2>1. A \in Seq(S) /\ Len(A) = 1 /\ A[1] = <<"ensure", Part(i).idx>>
    OBVIOUS
  <2>2. D \in Seq(S) /\ Len(D) = 1 /\ D[1] = <<"drop", Part(i).idx>>
    OBVIOUS
  <2>3. R \in Seq(S) /\ Len(R) = 1 /\ R[1] = <<"read", Part(i).idx>>
    OBVIOUS
  <2>4. q \in {0, 1} /\ B = IF q = 1 THEN R ELSE <<>>
    BY DEF ReadAt
  <2>5. ScanSteps(i) = A \o B \o D
    BY <1>2 DEF ScanSteps
  <2> HIDE DEF A, R, D, B, S, q
  <2>6. B \in Seq(S) /\ Len(B) = q
    BY <2>3, <2>4
  <2> DEFINE AB == A \o B
             F == AB \o D
  <2>7. /\ AB \in Seq(S) /\ Len(AB) = Len(A) + Len(B)
        /\ \A k \in 1..(Len(A) + Len(B)) : AB[k] = IF k <= Len(A) THEN A[k] ELSE B[k - Len(A)]
    BY <2>1, <2>6, ConcatProperties
  <2> HIDE DEF AB
  <2>8. /\ F \in Seq(S) /\ Len(F) = Len(AB) + Len(D)
        /\ \A k \in 1..(Len(AB) + Len(D)) : F[k] = IF k <= Len(AB) THEN AB[k] ELSE D[k - Len(AB)]
    <3>1. AB \in Seq(S) /\ D \in Seq(S)
      BY <2>2, <2>7
    <3> QED
      BY <3>1, ConcatProperties
  <2>9. ScanSteps(i) = F
    BY <2>5 DEF AB
  <2> HIDE DEF F
  <2>10. Len(F) = 2 + q
    BY <2>1, <2>2, <2>4, <2>6, <2>7, <2>8
  <2>11. DOMAIN F = 1..(2 + q)
    BY <2>8, <2>10, LenProperties
  <2>12. F[1] = A[1] /\ F[2 + q] = D[1]
    BY <2>1, <2>2, <2>4, <2>6, <2>7, <2>8
  <2>13. q = 1 => F[2] = R[1]
    <3> SUFFICES ASSUME q = 1 PROVE F[2] = R[1]
      OBVIOUS
    <3>1. B = R
      BY <2>4
    <3>2. F[2] = AB[2]
      BY <2>1, <2>2, <2>6, <2>7, <2>8
    <3>3. AB[2] = B[1]
      BY <2>1, <2>6, <2>7
    <3> QED
      BY <3>1, <3>2, <3>3
  <2> QED
    BY <1>2, <2>1, <2>2, <2>3, <2>9, <2>10, <2>11, <2>12, <2>13 DEF q
<1> QED
  BY <1>1, <1>2

\* The primitives from one on that use a view are finitely many.
LEMMA UntakenFinite ==
  ASSUME kept \in Seq(DOMAIN Plans), NEW from \in Nat \ {0}, NEW accessor, NEW v
  PROVE  /\ IsFiniteSet(Untaken(from, accessor, v))
         /\ Cardinality(Untaken(from, accessor, v)) \in Nat
<1>1. Len(kept) \in Nat
  BY LenProperties
<1>2. IsFiniteSet(from..Len(kept))
  BY <1>1, FS_Interval
<1>3. Untaken(from, accessor, v) \in SUBSET (from..Len(kept))
  BY DEF Untaken
<1>4. IsFiniteSet(Untaken(from, accessor, v))
  BY <1>2, <1>3, FS_Subset
<1> QED
  BY <1>4, FS_CardinalityType

\* Pass 1.7 counts what no pass has taken yet.
LEMMA CountIsUntaken ==
  ASSUME kept \in Seq(DOMAIN Plans), NEW accessor, NEW v
  PROVE  Count(accessor, v) = Cardinality(Untaken(1, accessor, v))
<1>1. DOMAIN kept = 1..Len(kept)
  BY LenProperties
<1>2. {i \in DOMAIN kept : Has(i, accessor) /\ Part(i)[accessor] = v} = Untaken(1, accessor, v)
  BY <1>1 DEF Untaken
<1> QED
  BY <1>2 DEF Count

\* Whoever uses a view is counted.
LEMMA UserCounts ==
  ASSUME kept \in Seq(DOMAIN Plans), opt.packed \in BOOLEAN, NEW v,
         NEW i \in 1..Len(kept), NEW accessor \in {"pos", "idx", "uv"},
         Has(i, accessor), Part(i)[accessor] = v
  PROVE  Uses(v) # 0
<1>1. \A a : Count(a, v) \in Nat
  BY CountIsUntaken, UntakenFinite
<1>2. Count(accessor, v) # 0
  <2>1. i \in Untaken(1, accessor, v)
    BY LenProperties DEF Untaken
  <2>2. Cardinality(Untaken(1, accessor, v)) # 0
    BY <2>1, UntakenFinite, FS_EmptySet
  <2> QED
    BY <2>2, CountIsUntaken
<1>3. Count("pos", v) \in Nat /\ Count("idx", v) \in Nat /\ Count("uv", v) \in Nat
  BY <1>1
<1>4. Count("pos", v) # 0 \/ Count("idx", v) # 0 \/ Count("uv", v) # 0
  BY <1>2
<1> QED
  BY <1>3, <1>4 DEF Uses

LEMMA StepsAreWellFormed ==
  ASSUME Shape, PassInv, pass \in {"scan", "fill"}, NEW i \in 1..Len(kept)
  PROVE  WellFormed(Steps(i))
<1>1. /\ kept \in Seq(DOMAIN Plans) /\ ~Generated /\ opt.packed \in BOOLEAN
      /\ pass = "fill" => ~opt.registry
  BY OptionsAssumption DEF Shape, PassInv
<1>2. IsPlan(Part(i))
  BY <1>1, PartIsPlan
<1> DEFINE pos == Part(i).pos
           idx_ == Part(i).idx
           uv_ == Part(i).uv
<1>3. /\ Has(i, "pos") /\ Has(i, "idx") /\ pos \in View /\ idx_ \in View
      /\ Has(i, "uv") => uv_ \in View
  BY <1>2 DEF IsPlan, Has
<1>4. Uses(pos) # 0 /\ Uses(idx_) # 0 /\ (Has(i, "uv") => Uses(uv_) # 0)
  BY <1>1, <1>3, UserCounts
<1> HIDE DEF pos, idx_, uv_
<1>5. CASE pass = "scan"
  <2> DEFINE S == ScanSteps(i)
             q == ReadAt(i)
  <2>1. /\ opt.registry => Len(S) = 2 * q /\ DOMAIN S = 1..(2 * q)
        /\ ~opt.registry => /\ Len(S) = 2 + q /\ DOMAIN S = 1..(2 + q)
                            /\ S[1] = <<"ensure", idx_>>
                            /\ S[2 + q] = <<"drop", idx_>>
        /\ q = 1 => S[1] = <<"ensure", idx_>> /\ S[2] = <<"read", idx_>>
    BY ScanShape DEF idx_
  <2>2. q \in {0, 1}
    BY DEF ReadAt
  <2> HIDE DEF S, q
  <2>3. ASSUME opt.registry PROVE \A k \in 1..(2 * q) : StepOK(S, k)
    <3> SUFFICES ASSUME NEW k \in 1..(2 * q) PROVE StepOK(S, k)
      OBVIOUS
    <3>1. q = 1 /\ k \in {1, 2}
      BY <2>2
    <3>2. S[1][1] = "ensure" /\ S[1][2] = idx_ /\ S[2][1] = "read" /\ S[2][2] = idx_
      BY <2>1, <3>1
    <3>3. CASE k = 1
      BY <1>3, <2>3, <3>2, <3>3 DEF StepOK
    <3>4. CASE k = 2
      BY <1>3, <2>3, <3>2, <3>4 DEF StepOK, Reads
    <3> QED
      BY <3>1, <3>3, <3>4
  <2>4. ASSUME ~opt.registry PROVE \A k \in 1..(2 + q) : StepOK(S, k)
    <3> SUFFICES ASSUME NEW k \in 1..(2 + q) PROVE StepOK(S, k)
      OBVIOUS
    <3>1. k = 1 \/ (q = 1 /\ k = 2) \/ k = 2 + q
      BY <2>2
    <3>2. /\ S[1][1] = "ensure" /\ S[1][2] = idx_
          /\ S[2 + q][1] = "drop" /\ S[2 + q][2] = idx_ /\ Len(S) = 2 + q
      BY <2>1, <2>4
    <3>3. CASE k = 1
      BY <1>3, <1>4, <2>2, <3>2, <3>3 DEF StepOK
    <3>4. CASE q = 1 /\ k = 2
      <4>1. S[2][1] = "read" /\ S[2][2] = idx_
        BY <2>1, <3>4
      <4> QED
        BY <1>3, <1>4, <2>2, <3>2, <3>4, <4>1 DEF StepOK, Reads
    <3>5. CASE k = 2 + q
      BY <1>3, <1>4, <2>2, <2>4, <3>2, <3>5 DEF StepOK
    <3> QED
      BY <3>1, <3>3, <3>4, <3>5
  <2>5. Len(S) <= MaxSteps
    BY <2>1, <2>2 DEF MaxSteps
  <2>6. WellFormed(S)
    <3>1. CASE opt.registry
      <4>1. Len(S) \in Nat /\ DOMAIN S = 1..Len(S)
        BY <2>1, <2>2, <3>1
      <4>2. \A k \in 1..Len(S) : StepOK(S, k)
        BY <2>1, <2>3, <3>1
      <4> QED
        BY <2>5, <4>1, <4>2 DEF WellFormed
    <3>2. CASE ~opt.registry
      <4>1. Len(S) \in Nat /\ DOMAIN S = 1..Len(S)
        BY <2>1, <2>2, <3>2
      <4>2. \A k \in 1..Len(S) : StepOK(S, k)
        BY <2>1, <2>4, <3>2
      <4> QED
        BY <2>5, <4>1, <4>2 DEF WellFormed
    <3> QED
      BY <3>1, <3>2
  <2>7. Steps(i) = S
    BY <1>5 DEF Steps, S
  <2> QED
    BY <2>6, <2>7
<1>6. CASE pass = "fill"
  <2> DEFINE F == FillSteps(i)
             p == UvAt(i)
  <2>1. /\ Len(F) = 6 + p /\ DOMAIN F = 1..(6 + p)
        /\ F[1] = <<"ensure", pos>>
        /\ F[2] = <<"ensure", idx_>>
        /\ F[3] = <<"positions", pos, i>>
        /\ p = 3 => /\ F[4] = <<"ensure", uv_>>
                    /\ F[5] = <<"uvs", uv_, i>>
                    /\ F[6] = <<"drop", uv_>>
        /\ F[4 + p] = <<"indices", idx_, i>>
        /\ F[5 + p] = <<"drop", pos>>
        /\ F[6 + p] = <<"drop", idx_>>
    BY FillShape DEF pos, idx_, uv_
  <2>2. p \in {0, 3} /\ (p = 3 => Has(i, "uv"))
    BY DEF UvAt
  <2> HIDE DEF F, p
  <2>3. ~opt.registry
    BY <1>1, <1>6
  <2>4. \A k \in 1..(6 + p) : StepOK(F, k)
    <3> SUFFICES ASSUME NEW k \in 1..(6 + p) PROVE StepOK(F, k)
      OBVIOUS
    <3>1. k \in {1, 2, 3, 4 + p, 5 + p, 6 + p} \/ (p = 3 /\ k \in {4, 5, 6})
      BY <2>2
    <3>2. /\ F[1][1] = "ensure" /\ F[1][2] = pos
          /\ F[2][1] = "ensure" /\ F[2][2] = idx_
          /\ F[3][1] = "positions" /\ F[3][2] = pos
          /\ F[4 + p][1] = "indices" /\ F[4 + p][2] = idx_
          /\ F[5 + p][1] = "drop" /\ F[5 + p][2] = pos
          /\ F[6 + p][1] = "drop" /\ F[6 + p][2] = idx_
          /\ Len(F) = 6 + p
      BY <2>1
    <3>3. p = 3 => /\ F[4][1] = "ensure" /\ F[4][2] = uv_
                   /\ F[5][1] = "uvs" /\ F[5][2] = uv_
                   /\ F[6][1] = "drop" /\ F[6][2] = uv_
      BY <2>1
    <3>4. CASE k = 1
      BY <1>3, <1>4, <2>2, <3>2, <3>4 DEF StepOK
    <3>5. CASE k = 2
      BY <1>3, <1>4, <2>2, <3>2, <3>5 DEF StepOK
    <3>6. CASE k = 3
      BY <1>3, <1>4, <2>2, <3>2, <3>6 DEF StepOK, Reads
    <3>7. CASE k = 4 + p
      BY <1>3, <1>4, <2>2, <3>2, <3>7 DEF StepOK, Reads
    <3>8. CASE k = 5 + p
      BY <1>3, <1>4, <2>2, <2>3, <3>2, <3>8 DEF StepOK
    <3>9. CASE k = 6 + p
      BY <1>3, <1>4, <2>2, <2>3, <3>2, <3>9 DEF StepOK
    <3>10. CASE p = 3 /\ k = 4
      BY <1>3, <1>4, <2>2, <3>2, <3>3, <3>10 DEF StepOK
    <3>11. CASE p = 3 /\ k = 5
      BY <1>3, <1>4, <2>2, <3>2, <3>3, <3>11 DEF StepOK, Reads
    <3>12. CASE p = 3 /\ k = 6
      BY <1>3, <1>4, <2>2, <2>3, <3>2, <3>3, <3>12 DEF StepOK
    <3> QED
      BY <3>1, <3>4, <3>5, <3>6, <3>7, <3>8, <3>9, <3>10, <3>11, <3>12
  <2>5. Len(F) <= MaxSteps
    BY <2>1, <2>2 DEF MaxSteps
  <2>6. WellFormed(F)
    <3>1. Len(F) \in Nat /\ DOMAIN F = 1..Len(F)
      BY <2>1, <2>2
    <3>2. \A k \in 1..Len(F) : StepOK(F, k)
      BY <2>1, <2>4
    <3> QED
      BY <2>5, <3>1, <3>2 DEF WellFormed
  <2>7. Steps(i) = F
    BY <1>6 DEF Steps, F
  <2> QED
    BY <2>6, <2>7
<1> QED
  BY <1>5, <1>6

-----------------------------------------------------------------------------
(* What the count says.                                                    *)

LEMMA OwingFinite ==
  ASSUME NEW v
  PROVE  IsFiniteSet(Owing(v)) /\ Cardinality(Owing(v)) \in Nat
<1>1. IsFiniteSet(1..MaxSteps)
  <2>1. 1 \in Int /\ MaxSteps \in Int
    BY DEF MaxSteps
  <2> QED
    BY <2>1, FS_Interval
<1>2. IsFiniteSet(Thread \X (1..MaxSteps))
  BY <1>1, ThreadsAssumption, FS_Product
<1>3. Owing(v) \in SUBSET (Thread \X (1..MaxSteps))
  BY DEF Owing
<1>4. IsFiniteSet(Owing(v))
  BY <1>2, <1>3, FS_Subset
<1> QED
  BY <1>4, FS_CardinalityType

\* Where the passes stand.
LEMMA FromType ==
  ASSUME Shape
  PROVE  ScanFrom \in Nat \ {0} /\ FillFrom \in Nat \ {0} /\ Len(kept) \in Nat
<1>1. Len(kept) \in Nat /\ next \in Nat \ {0}
  BY LenProperties DEF Shape
<1> QED
  BY <1>1 DEF ScanFrom, FillFrom

\* A count is at least the drops that running tasks owe, and 0 if there are none
\* to come at all.
LEMMA CountBounds ==
  ASSUME Shape, CountInv, pass \notin {"cap", "failed"}, ~opt.registry, NEW v \in View
  PROVE  /\ users[v] \in Nat
         /\ users[v] = 0 => Owing(v) = {}
<1> DEFINE a == Cardinality(Untaken(ScanFrom, "idx", v))
           b == Cardinality(Untaken(FillFrom, "pos", v))
           c == Cardinality(Untaken(FillFrom, "idx", v))
           d == Cardinality(Untaken(FillFrom, "uv", v))
           o == Cardinality(Owing(v))
<1>1. a \in Nat /\ b \in Nat /\ c \in Nat /\ d \in Nat
  BY FromType, UntakenFinite DEF Shape
<1>2. o \in Nat
  BY OwingFinite
<1>3. users[v] = o + a + b + c + d
  BY DEF CountInv
<1>4. o = 0 => Owing(v) = {}
  BY OwingFinite, FS_EmptySet
<1> HIDE DEF a, b, c, d, o
<1> QED
  BY <1>1, <1>2, <1>3, <1>4

\* A step of a task, and the task's length.
LEMMA StepType ==
  ASSUME Shape, JobInv, NEW t \in Thread, Busy(t)
  PROVE  /\ job[t] # <<>> /\ pass \in {"scan", "fill"}
         /\ at[t] \in 1..Len(job[t]) /\ Len(job[t]) \in Nat /\ Len(job[t]) <= MaxSteps
         /\ WellFormed(job[t]) /\ StepOK(job[t], at[t])
         /\ V(t) \in View
<1>1. job[t] # <<>> /\ at[t] <= Len(job[t]) /\ at[t] \in Nat \ {0}
  BY DEF Busy, Shape
<1>2. pass \in {"scan", "fill"} /\ WellFormed(job[t])
  BY <1>1 DEF JobInv
<1>3. Len(job[t]) \in Nat /\ Len(job[t]) <= MaxSteps /\ at[t] \in 1..Len(job[t])
  <2>1. Len(job[t]) \in Nat /\ Len(job[t]) <= MaxSteps
    BY <1>2 DEF WellFormed
  <2> QED
    BY <1>1, <2>1
<1>4. StepOK(job[t], at[t])
  BY <1>2, <1>3 DEF WellFormed
<1>5. V(t) \in View
  BY <1>4 DEF StepOK, V
<1> QED
  BY <1>1, <1>2, <1>3, <1>4, <1>5

\* Who has still to ensure or read a view, or to drop it, is counted.
LEMMA InUse ==
  ASSUME Shape, JobInv, CountInv, NEW t \in Thread, Busy(t), ~opt.registry,
         Op(t) # "drop" \/ sub[t] = "start"
  PROVE  users[V(t)] \in Nat \ {0}
<1>1. /\ job[t] # <<>> /\ pass \in {"scan", "fill"}
      /\ at[t] \in 1..Len(job[t]) /\ Len(job[t]) \in Nat /\ Len(job[t]) <= MaxSteps
      /\ StepOK(job[t], at[t]) /\ V(t) \in View
  BY StepType
<1>2. \E k \in 1..Len(job[t]) : Owes(t, k, V(t))
  <2>1. CASE Op(t) = "drop"
    <3>1. Owes(t, at[t], V(t))
      BY <1>1, <2>1 DEF Owes, Op, V
    <3> QED
      BY <1>1, <3>1
  <2>2. CASE Op(t) # "drop"
    <3>1. PICK j \in (at[t] + 1)..Len(job[t]) : job[t][j][1] = "drop" /\ job[t][j][2] = V(t)
      BY <1>1, <2>2 DEF StepOK, Op, V
    <3>2. Owes(t, j, V(t))
      BY <1>1, <3>1 DEF Owes
    <3> QED
      BY <1>1, <3>1, <3>2
  <2> QED
    BY <2>1, <2>2
<1>3. PICK k \in 1..Len(job[t]) : Owes(t, k, V(t))
  BY <1>2
<1>4. k \in 1..MaxSteps
  BY <1>1, <1>3 DEF MaxSteps
<1>5. <<t, k>> \in Owing(V(t))
  BY <1>3, <1>4 DEF Owing
<1>6. Owing(V(t)) # {}
  BY <1>5
<1> QED
  BY <1>1, <1>6, CountBounds

-----------------------------------------------------------------------------
(* Steps of a task.                                                        *)

SamePlan == UNCHANGED <<pass, next, opt, kept>>

LEMMA PlanKept ==
  ASSUME UNCHANGED <<opt, kept>>
  PROVE  /\ Generated' = Generated
         /\ \A v : Uses(v)' = Uses(v)
         /\ \A s : WellFormed(s)' = WellFormed(s)
         /\ \A from, accessor, v : Untaken(from, accessor, v)' = Untaken(from, accessor, v)
<1>1. Generated' = Generated
  BY DEF Generated
<1>2. \A i : Part(i)' = Part(i)
  BY <1>1 DEF Part
<1>3. \A i, accessor : Has(i, accessor)' = Has(i, accessor)
  BY <1>2 DEF Has
<1>4. \A accessor, v : Count(accessor, v)' = Count(accessor, v)
  BY <1>2, <1>3 DEF Count
<1>5. \A v : Uses(v)' = Uses(v)
  BY <1>4 DEF Uses
<1>6. \A s, k : StepOK(s, k)' = StepOK(s, k)
  BY <1>5 DEF StepOK
<1>7. \A s : WellFormed(s)' = WellFormed(s)
  BY <1>6 DEF WellFormed
<1>8. \A from, accessor, v : Untaken(from, accessor, v)' = Untaken(from, accessor, v)
  BY <1>2, <1>3 DEF Untaken
<1> QED
  BY <1>1, <1>5, <1>7, <1>8

LEMMA PassKept ==
  ASSUME PassInv, pass \in {"scan", "fill"}, UNCHANGED <<pass, opt, kept>>
  PROVE  PassInv'
<1>1. Generated' = Generated
  BY PlanKept
<1> QED
  BY <1>1 DEF PassInv

\* A task on to its next step.
LEMMA AdvanceStep ==
  ASSUME Shape, JobInv, NEW t \in Thread, Busy(t), Advance(t), SamePlan
  PROVE  /\ JobInv'
         /\ at' \in [Thread -> Nat \ {0}] /\ job' = [s \in Thread |-> job'[s]]
         /\ sub' \in [Thread -> {"start", "lock", "decode", "store", "free", "clear"}]
         /\ \A v : Owing(v)' = Owing(v) \ {<<t, at[t]>>}
         /\ \A s \in Thread : s # t => at'[s] = at[s] /\ sub'[s] = sub[s]
         /\ at'[t] = at[t] + 1 /\ sub'[t] = "start"
<1>1. /\ job' = job /\ at' = [at EXCEPT ![t] = @ + 1] /\ sub' = [sub EXCEPT ![t] = "start"]
      /\ UNCHANGED <<pass, opt, kept>>
  BY DEF Advance, SamePlan
<1>2. /\ at' \in [Thread -> Nat \ {0}] /\ job' = [s \in Thread |-> job'[s]]
      /\ sub' \in [Thread -> {"start", "lock", "decode", "store", "free", "clear"}]
      /\ \A s \in Thread : s # t => at'[s] = at[s] /\ sub'[s] = sub[s]
      /\ at'[t] = at[t] + 1 /\ sub'[t] = "start"
  BY <1>1 DEF Shape
<1>3. at[t] \in 1..Len(job[t]) /\ job[t] # <<>> /\ Len(job[t]) \in Nat
  BY StepType
<1>4. \A s : WellFormed(s)' = WellFormed(s)
  BY <1>1, PlanKept
<1>5. JobInv'
  <2> SUFFICES ASSUME NEW s \in Thread
               PROVE  /\ job'[s] # <<>> => /\ pass' \in {"scan", "fill"}
                                           /\ WellFormed(job[s])'
                                           /\ at'[s] <= Len(job'[s]) + 1
                      /\ sub'[s] # "start" =>
                           /\ job'[s] # <<>> /\ at'[s] <= Len(job'[s])
                           /\ sub'[s] \in {"lock", "decode"} => Op(s)' = "ensure" /\ V(s)' \in Compressed
                           /\ sub'[s] = "store" => Op(s)' = "indices"
                           /\ sub'[s] \in {"free", "clear"} => Op(s)' = "drop"
    BY DEF JobInv
  <2>1. job'[s] = job[s] /\ (job[s] # <<>> => WellFormed(job[s]) /\ pass \in {"scan", "fill"})
    BY <1>1 DEF JobInv
  <2>2. job[s] # <<>> => WellFormed(job[s])'
    <3> SUFFICES ASSUME job[s] # <<>> PROVE WellFormed(job[s])'
      OBVIOUS
    <3>1. \A x : x = job'[s] => WellFormed(x)'
      BY <1>4, <2>1
    <3> QED
      BY <3>1
  <2>3. CASE s = t
    BY <1>1, <1>2, <1>3, <2>1, <2>2, <2>3
  <2>4. CASE s # t
    <3>1. at'[s] = at[s] /\ sub'[s] = sub[s] /\ Op(s)' = Op(s) /\ V(s)' = V(s)
      BY <1>1, <1>2, <2>4 DEF Op, V
    <3> QED
      BY <1>1, <2>1, <2>2, <3>1 DEF JobInv
  <2> QED
    BY <2>3, <2>4
<1>6. ASSUME NEW v PROVE Owing(v)' = Owing(v) \ {<<t, at[t]>>}
  <2>1. ASSUME NEW s \in Thread, NEW k \in 1..MaxSteps
        PROVE  Owes(s, k, v)' <=> Owes(s, k, v) /\ <<s, k>> # <<t, at[t]>>
    <3>1. CASE s # t
      BY <1>1, <1>2, <3>1 DEF Owes
    <3>2. CASE s = t
      <4>1. at[t] + 1 <= k <=> at[t] <= k /\ k # at[t]
        BY <1>3 DEF MaxSteps
      <4> QED
        BY <1>1, <1>2, <3>2, <4>1 DEF Owes
    <3> QED
      BY <3>1, <3>2
  <2> QED
    BY <2>1 DEF Owing
<1> QED
  BY <1>2, <1>5, <1>6

\* A task on within its step.
LEMMA GotoStep ==
  ASSUME Shape, JobInv, NEW t \in Thread, Busy(t), SamePlan,
         NEW part \in {"lock", "decode", "store", "free", "clear"}, Goto(t, part),
         part \in {"lock", "decode"} => Op(t) = "ensure" /\ V(t) \in Compressed,
         part = "store" => Op(t) = "indices",
         part \in {"free", "clear"} => Op(t) = "drop"
  PROVE  /\ JobInv'
         /\ at' \in [Thread -> Nat \ {0}] /\ job' = [s \in Thread |-> job'[s]]
         /\ sub' \in [Thread -> {"start", "lock", "decode", "store", "free", "clear"}]
         /\ \A v : Owing(v)' = Owing(v) \ {<<t, at[t]>>}
         /\ \A s \in Thread : s # t => sub'[s] = sub[s]
         /\ at' = at /\ sub'[t] = part
<1>1. /\ job' = job /\ at' = at /\ sub' = [sub EXCEPT ![t] = part]
      /\ UNCHANGED <<pass, opt, kept>>
  BY DEF Goto, SamePlan
<1>2. /\ at' \in [Thread -> Nat \ {0}] /\ job' = [s \in Thread |-> job'[s]]
      /\ sub' \in [Thread -> {"start", "lock", "decode", "store", "free", "clear"}]
      /\ \A s \in Thread : s # t => sub'[s] = sub[s]
      /\ sub'[t] = part /\ part # "start"
  BY <1>1 DEF Shape
<1>3. at[t] \in 1..Len(job[t]) /\ job[t] # <<>> /\ Len(job[t]) \in Nat
  BY StepType
<1>4. \A s : WellFormed(s)' = WellFormed(s)
  BY <1>1, PlanKept
<1>5. JobInv'
  <2> SUFFICES ASSUME NEW s \in Thread
               PROVE  /\ job'[s] # <<>> => /\ pass' \in {"scan", "fill"}
                                           /\ WellFormed(job[s])'
                                           /\ at'[s] <= Len(job'[s]) + 1
                      /\ sub'[s] # "start" =>
                           /\ job'[s] # <<>> /\ at'[s] <= Len(job'[s])
                           /\ sub'[s] \in {"lock", "decode"} => Op(s)' = "ensure" /\ V(s)' \in Compressed
                           /\ sub'[s] = "store" => Op(s)' = "indices"
                           /\ sub'[s] \in {"free", "clear"} => Op(s)' = "drop"
    BY DEF JobInv
  <2>1. job'[s] = job[s] /\ (job[s] # <<>> => WellFormed(job[s]) /\ pass \in {"scan", "fill"})
    BY <1>1 DEF JobInv
  <2>2. job[s] # <<>> => WellFormed(job[s])'
    <3> SUFFICES ASSUME job[s] # <<>> PROVE WellFormed(job[s])'
      OBVIOUS
    <3>1. \A x : x = job'[s] => WellFormed(x)'
      BY <1>4, <2>1
    <3> QED
      BY <3>1
  <2>3. at'[s] = at[s] /\ Op(s)' = Op(s) /\ V(s)' = V(s)
    BY <1>1 DEF Op, V
  <2>4. CASE s = t
    BY <1>1, <1>2, <1>3, <2>1, <2>2, <2>3, <2>4
  <2>5. CASE s # t
    BY <1>1, <1>2, <2>1, <2>2, <2>3, <2>5 DEF JobInv
  <2> QED
    BY <2>4, <2>5
<1>6. ASSUME NEW v PROVE Owing(v)' = Owing(v) \ {<<t, at[t]>>}
  <2>1. ASSUME NEW s \in Thread, NEW k \in 1..MaxSteps
        PROVE  Owes(s, k, v)' <=> Owes(s, k, v) /\ <<s, k>> # <<t, at[t]>>
    <3>1. CASE s # t
      BY <1>1, <1>2, <3>1 DEF Owes
    <3>2. CASE s = t
      BY <1>1, <1>2, <3>2 DEF Owes
    <3> QED
      BY <3>1, <3>2
  <2> QED
    BY <2>1 DEF Owing
<1> QED
  BY <1>1, <1>2, <1>5, <1>6

\* The count, when no drop is made and when one is.
LEMMA CountKept ==
  ASSUME Shape, CountInv, SamePlan, UNCHANGED users, \A v : Owing(v)' = Owing(v)
  PROVE  CountInv'
<1>1. ScanFrom' = ScanFrom /\ FillFrom' = FillFrom
  BY DEF SamePlan, ScanFrom, FillFrom
<1>2. \A accessor, v : /\ Untaken(ScanFrom, accessor, v)' = Untaken(ScanFrom, accessor, v)
                       /\ Untaken(FillFrom, accessor, v)' = Untaken(FillFrom, accessor, v)
  <2>1. \A from, accessor, v : Untaken(from, accessor, v)' = Untaken(from, accessor, v)
    BY PlanKept DEF SamePlan
  <2>2. \A x, accessor, v : x = ScanFrom' => Untaken(ScanFrom, accessor, v)' = Untaken(x, accessor, v)'
    BY DEF Untaken
  <2>3. \A x, accessor, v : x = FillFrom' => Untaken(FillFrom, accessor, v)' = Untaken(x, accessor, v)'
    BY DEF Untaken
  <2> QED
    BY <1>1, <2>1, <2>2, <2>3
<1> QED
  BY <1>2 DEF CountInv, SamePlan

LEMMA CountDropped ==
  ASSUME Shape, CountInv, SamePlan, NEW w \in View, NEW x, x \in Owing(w),
         users' = [users EXCEPT ![w] = @ - 1],
         \A v : Owing(v)' = IF v = w THEN Owing(v) \ {x} ELSE Owing(v)
  PROVE  CountInv'
<1>1. ScanFrom' = ScanFrom /\ FillFrom' = FillFrom
  BY DEF SamePlan, ScanFrom, FillFrom
<1>2. \A accessor, v : /\ Untaken(ScanFrom, accessor, v)' = Untaken(ScanFrom, accessor, v)
                       /\ Untaken(FillFrom, accessor, v)' = Untaken(FillFrom, accessor, v)
  <2>1. \A from, accessor, v : Untaken(from, accessor, v)' = Untaken(from, accessor, v)
    BY PlanKept DEF SamePlan
  <2>2. \A y, accessor, v : y = ScanFrom' => Untaken(ScanFrom, accessor, v)' = Untaken(y, accessor, v)'
    BY DEF Untaken
  <2>3. \A y, accessor, v : y = FillFrom' => Untaken(FillFrom, accessor, v)' = Untaken(y, accessor, v)'
    BY DEF Untaken
  <2> QED
    BY <1>1, <2>1, <2>2, <2>3
<1>3. \A v : Cardinality(Owing(v)) \in Nat
  BY OwingFinite
<1>4. Cardinality(Owing(w) \ {x}) = Cardinality(Owing(w)) - 1
  BY OwingFinite, FS_RemoveElement
<1> DEFINE rest(v) == Cardinality(Untaken(ScanFrom, "idx", v))
                        + Cardinality(Untaken(FillFrom, "pos", v))
                        + Cardinality(Untaken(FillFrom, "idx", v))
                        + Cardinality(Untaken(FillFrom, "uv", v))
<1>5. SUFFICES ASSUME pass \notin {"cap", "failed"} /\ ~opt.registry, NEW v \in View
               PROVE  users'[v] = Cardinality(Owing(v)') + Cardinality(Untaken(ScanFrom, "idx", v))
                        + Cardinality(Untaken(FillFrom, "pos", v))
                        + Cardinality(Untaken(FillFrom, "idx", v))
                        + Cardinality(Untaken(FillFrom, "uv", v))
  BY <1>2 DEF CountInv, SamePlan
<1> DEFINE a == Cardinality(Untaken(ScanFrom, "idx", v))
           b == Cardinality(Untaken(FillFrom, "pos", v))
           c == Cardinality(Untaken(FillFrom, "idx", v))
           d == Cardinality(Untaken(FillFrom, "uv", v))
<1>6. a \in Nat /\ b \in Nat /\ c \in Nat /\ d \in Nat
  BY FromType, UntakenFinite DEF Shape
<1>7. users[v] = Cardinality(Owing(v)) + a + b + c + d
  BY <1>5 DEF CountInv
<1>8. users'[v] = IF v = w THEN users[v] - 1 ELSE users[v]
  BY DEF Shape
<1> HIDE DEF a, b, c, d
<1>9. users'[v] = Cardinality(Owing(v)') + a + b + c + d
  BY <1>3, <1>4, <1>6, <1>7, <1>8
<1> QED
  BY <1>9 DEF a, b, c, d

\* Steps that leave the views as they are.
Quiet(t) ==
  /\ Busy(t) /\ SamePlan /\ UNCHANGED <<data, heap, users>>
  /\ \/ /\ Advance(t)
        /\ Op(t) = "drop" => sub[t] = "free" /\ data[V(t)] # "decoded"
        /\ Op(t) = "ensure" /\ V(t) \in Good /\ (opt.registry \/ users[V(t)] # 0)
             => data[V(t)] = "decoded"
     \/ \E part \in {"lock", "decode", "store"} :
          /\ Goto(t, part)
          /\ part \in {"lock", "decode"} => Op(t) = "ensure" /\ V(t) \in Compressed
          /\ part = "store" => Op(t) = "indices"

LEMMA QuietStep ==
  ASSUME ViewsInv, NEW t \in Thread, Quiet(t)
  PROVE  ViewsInv'
<1>0. Shape /\ PassInv /\ JobInv /\ CountInv /\ FreeInv /\ DoneInv /\ DataInv
  BY DEF ViewsInv
<1>1. /\ Busy(t) /\ SamePlan /\ UNCHANGED <<data, heap, users>> /\ job' = job
  BY DEF Quiet, Advance, Goto
<1>2. /\ JobInv'
      /\ at' \in [Thread -> Nat \ {0}] /\ job' = [s \in Thread |-> job'[s]]
      /\ sub' \in [Thread -> {"start", "lock", "decode", "store", "free", "clear"}]
      /\ \A v : Owing(v)' = Owing(v) \ {<<t, at[t]>>}
      /\ \A s \in Thread : s # t => at'[s] = at[s] /\ sub'[s] = sub[s]
      /\ sub'[t] \in {"start", "lock", "decode", "store"}
      /\ at'[t] = at[t] \/ (at'[t] = at[t] + 1 /\ Advance(t))
      /\ Op(t) = "drop" => sub[t] # "start"
  <2>1. CASE Advance(t)
    <3>1. Op(t) = "drop" => sub[t] # "start"
      <4>1. Op(t) = "drop" => sub[t] = "free"
        BY <2>1 DEF Quiet, Goto, Advance, Shape, ViewsInv
      <4> QED
        BY <4>1
    <3> QED
      BY <1>0, <1>1, <2>1, <3>1, AdvanceStep
  <2>2. ASSUME NEW part \in {"lock", "decode", "store"}, Goto(t, part),
               part \in {"lock", "decode"} => Op(t) = "ensure" /\ V(t) \in Compressed,
               part = "store" => Op(t) = "indices"
        PROVE  Op(t) # "drop" /\ part \in {"lock", "decode", "store", "free", "clear"}
               /\ part \notin {"free", "clear"}
    BY <2>2
  <2>3. CASE ~Advance(t)
    <3>1. PICK part \in {"lock", "decode", "store"} :
            /\ Goto(t, part)
            /\ part \in {"lock", "decode"} => Op(t) = "ensure" /\ V(t) \in Compressed
            /\ part = "store" => Op(t) = "indices"
      BY <2>3 DEF Quiet
    <3> QED
      BY <1>0, <1>1, <2>2, <3>1, GotoStep
  <2> QED
    BY <2>1, <2>3
<1>3. Shape'
  BY <1>0, <1>1, <1>2 DEF Shape, SamePlan
<1>4. PassInv'
  <2>1. pass \in {"scan", "fill"}
    BY <1>0, <1>1 DEF JobInv, Busy
  <2> QED
    BY <1>0, <1>1, <2>1, PassKept DEF SamePlan
<1>5. \A v : Owing(v)' = Owing(v)
  <2>1. \A v : <<t, at[t]>> \notin Owing(v)
    BY <1>2 DEF Owing, Owes, Op
  <2> QED
    BY <1>2, <2>1
<1>6. CountInv'
  BY <1>0, <1>1, <1>5, CountKept
<1>7. ASSUME NEW s \in Thread, s # t
      PROVE  V(s)' = V(s) /\ sub'[s] = sub[s] /\ at'[s] = at[s] /\ (Freeing(s)' <=> Freeing(s))
  BY <1>1, <1>2, <1>7 DEF V, Freeing
<1>8. ~Freeing(t)' /\ sub'[t] # "clear"
  BY <1>2 DEF Freeing
<1>9. FreeInv'
  BY <1>0, <1>1, <1>7, <1>8 DEF FreeInv
<1>10. DoneInv'
  <2> SUFFICES ASSUME NEW s \in Thread, job'[s] # <<>>, NEW k \in 1..(at'[s] - 1),
                      job'[s][k][1] = "ensure", job'[s][k][2] \in Good,
                      opt'.registry \/ users'[job'[s][k][2]] # 0
               PROVE  data'[job'[s][k][2]] = "decoded"
    BY DEF DoneInv
  <2>1. CASE k \in 1..(at[s] - 1)
    BY <1>0, <1>1, <2>1 DEF DoneInv, SamePlan
  <2>2. CASE k \notin 1..(at[s] - 1)
    <3>1. s = t /\ k = at[t] /\ Advance(t)
      BY <1>0, <1>2, <2>2 DEF Shape
    <3>2. Op(t) = "ensure" /\ V(t) = job'[s][k][2]
      BY <1>1, <3>1 DEF Op, V
    <3>3. Op(t) = "ensure" /\ V(t) \in Good /\ (opt.registry \/ users[V(t)] # 0)
             => data[V(t)] = "decoded"
      <4>1. ASSUME NEW part \in {"lock", "decode", "store"} PROVE ~Goto(t, part)
        BY <1>0, <1>2, <3>1 DEF Goto, Advance, Shape
      <4> QED
        BY <4>1 DEF Quiet
    <3> QED
      BY <1>1, <3>2, <3>3 DEF SamePlan
  <2> QED
    BY <2>1, <2>2
<1>11. DataInv'
  <2> SUFFICES ASSUME NEW v \in View
               PROVE  /\ v \notin Good => data'[v] = "null"
                      /\ heap'[v] = IF data'[v] = "decoded" THEN 1 ELSE 0
                      /\ data'[v] = "decoded" /\ ~opt'.registry =>
                           users'[v] # 0 \/ \E s \in Thread : Freeing(s)' /\ sub'[s] = "free" /\ V(s)' = v
                      /\ data'[v] = "freed" =>
                           \E s \in Thread : Freeing(s)' /\ sub'[s] = "clear" /\ V(s)' = v
    BY DEF DataInv
  <2>1. Freeing(t) => sub[t] = "free" /\ data[V(t)] # "decoded"
    <3>1. Freeing(t) => Op(t) = "drop"
      BY <1>0 DEF JobInv, Freeing
    <3>2. ASSUME Op(t) = "drop" PROVE sub[t] = "free" /\ data[V(t)] # "decoded"
      BY <3>2 DEF Quiet
    <3> QED
      BY <3>1, <3>2
  <2>2. ASSUME data[v] = "decoded", ~opt.registry, users[v] = 0
        PROVE  \E s \in Thread : Freeing(s)' /\ sub'[s] = "free" /\ V(s)' = v
    <3>1. PICK s \in Thread : Freeing(s) /\ sub[s] = "free" /\ V(s) = v
      BY <1>0, <2>2 DEF DataInv
    <3>2. s # t
      BY <2>1, <2>2, <3>1
    <3> QED
      BY <1>7, <3>1, <3>2
  <2>3. ASSUME data[v] = "freed"
        PROVE  \E s \in Thread : Freeing(s)' /\ sub'[s] = "clear" /\ V(s)' = v
    <3>1. PICK s \in Thread : Freeing(s) /\ sub[s] = "clear" /\ V(s) = v
      BY <1>0, <2>3 DEF DataInv
    <3>2. s # t
      BY <2>1, <3>1
    <3> QED
      BY <1>7, <3>1, <3>2
  <2> QED
    BY <1>0, <1>1, <2>2, <2>3 DEF DataInv, SamePlan
<1> QED
  BY <1>2, <1>3, <1>4, <1>6, <1>9, <1>10, <1>11 DEF ViewsInv

\* What is not quiet is a block decoded, ...
LEMMA DecodeStep ==
  ASSUME ViewsInv, NEW t \in Thread, Decode(t), SamePlan
  PROVE  ViewsInv'
<1>0. Shape /\ PassInv /\ JobInv /\ CountInv /\ FreeInv /\ DoneInv /\ DataInv
  BY DEF ViewsInv
<1>1. Busy(t) /\ Op(t) = "ensure" /\ sub[t] = "decode" /\ Advance(t) /\ users' = users /\ job' = job
  BY DEF Decode, Doing, Advance
<1>2. V(t) \in View /\ V(t) \in Compressed
  BY <1>0, <1>1, StepType DEF JobInv
<1>3. CASE data[V(t)] # "null" \/ V(t) \in Broken
  <2>1. UNCHANGED <<data, heap>>
    BY <1>3 DEF Decode
  <2>2. ASSUME V(t) \in Good, opt.registry \/ users[V(t)] # 0
        PROVE  data[V(t)] = "decoded"
    <3>1. data[V(t)] # "null" /\ data[V(t)] \in {"null", "decoded", "freed"}
      BY <1>0, <1>2, <1>3, <2>2 DEF Good, Shape
    <3>2. data[V(t)] # "freed"
      <4> SUFFICES ASSUME data[V(t)] = "freed" PROVE FALSE
        OBVIOUS
      <4>1. PICK s \in Thread : Freeing(s) /\ sub[s] = "clear" /\ V(s) = V(t)
        BY <1>0, <1>2 DEF DataInv
      <4>2. users[V(s)] = 0
        BY <1>0, <4>1 DEF FreeInv
      <4>3. opt.registry
        BY <2>2, <4>1, <4>2
      <4>4. Op(s) = "drop" /\ Busy(s)
        BY <1>0, <4>1 DEF JobInv, Freeing, Busy
      <4>5. StepOK(job[s], at[s])
        BY <1>0, <4>4, StepType
      <4> QED
        BY <4>3, <4>4, <4>5 DEF StepOK, Op
    <3> QED
      BY <3>1, <3>2
  <2>3. Quiet(t)
    BY <1>1, <2>1, <2>2 DEF Quiet
  <2> QED
    BY <2>3, QuietStep
<1>4. CASE ~(data[V(t)] # "null" \/ V(t) \in Broken)
  <2>1. /\ data' = [data EXCEPT ![V(t)] = "decoded"]
        /\ heap' = [heap EXCEPT ![V(t)] = @ + 1]
        /\ V(t) \in Good
    BY <1>2, <1>4 DEF Decode, Good
  <2>2. /\ data' \in [View -> {"null", "decoded", "freed"}] /\ heap' \in [View -> {0, 1}]
        /\ data'[V(t)] = "decoded" /\ heap'[V(t)] = 1
        /\ \A v \in View : v # V(t) => data'[v] = data[v] /\ heap'[v] = heap[v]
    <3>1. heap[V(t)] = 0
      BY <1>0, <1>2, <1>4 DEF DataInv
    <3> QED
      BY <1>0, <1>2, <2>1, <3>1 DEF Shape
  <2>3. /\ JobInv'
        /\ at' \in [Thread -> Nat \ {0}] /\ job' = [s \in Thread |-> job'[s]]
        /\ sub' \in [Thread -> {"start", "lock", "decode", "store", "free", "clear"}]
        /\ \A v : Owing(v)' = Owing(v) \ {<<t, at[t]>>}
        /\ \A s \in Thread : s # t => at'[s] = at[s] /\ sub'[s] = sub[s]
        /\ at'[t] = at[t] + 1 /\ sub'[t] = "start"
    BY <1>0, <1>1, AdvanceStep
  <2>4. Shape'
    BY <1>0, <1>1, <2>2, <2>3 DEF Shape, SamePlan
  <2>5. PassInv'
    <3>1. pass \in {"scan", "fill"}
      BY <1>0, <1>1 DEF JobInv, Busy
    <3> QED
      BY <1>0, <1>1, <3>1, PassKept DEF SamePlan
  <2>6. CountInv'
    <3>1. \A v : <<t, at[t]>> \notin Owing(v)
      BY <1>1 DEF Owing, Owes, Op
    <3>2. \A v : Owing(v)' = Owing(v)
      BY <2>3, <3>1
    <3> QED
      BY <1>0, <1>1, <3>2, CountKept
  <2>7. ASSUME NEW s \in Thread, s # t
        PROVE  V(s)' = V(s) /\ sub'[s] = sub[s] /\ at'[s] = at[s] /\ (Freeing(s)' <=> Freeing(s))
    BY <1>1, <2>3, <2>7 DEF V, Freeing
  <2>8. ~Freeing(t)' /\ sub'[t] # "clear"
    BY <2>3 DEF Freeing
  <2>9. opt.registry \/ users[V(t)] # 0
    BY <1>0, <1>1, InUse
  \* Nobody frees what this task is about to read.
  <2>10. ASSUME NEW s \in Thread, Freeing(s) PROVE V(s) # V(t) /\ V(s) \in View
    <3>1. Op(s) = "drop" /\ Busy(s)
      BY <1>0, <2>10 DEF JobInv, Freeing, Busy
    <3>2. ~opt.registry /\ V(s) \in View
      BY <1>0, <3>1, StepType DEF StepOK, Op
    <3>3. users[V(s)] = 0
      BY <1>0, <2>10 DEF FreeInv
    <3> QED
      BY <2>9, <3>2, <3>3
  <2>11. FreeInv'
    <3>1. \A s \in Thread : sub'[s] = "clear" => data'[V(s)'] = "freed"
      <4> SUFFICES ASSUME NEW s \in Thread, sub'[s] = "clear" PROVE data'[V(s)'] = "freed"
        OBVIOUS
      <4>1. s # t /\ sub[s] = "clear" /\ V(s)' = V(s)
        BY <2>7, <2>8
      <4>2. Freeing(s)
        BY <1>0, <4>1 DEF JobInv, Freeing
      <4> QED
        BY <1>0, <2>2, <2>10, <4>1, <4>2 DEF FreeInv
    <3> QED
      BY <1>0, <1>1, <2>7, <2>8, <3>1 DEF FreeInv
  <2>12. DoneInv'
    <3> SUFFICES ASSUME NEW s \in Thread, job'[s] # <<>>, NEW k \in 1..(at'[s] - 1),
                        job'[s][k][1] = "ensure", job'[s][k][2] \in Good,
                        opt'.registry \/ users'[job'[s][k][2]] # 0
                 PROVE  data'[job'[s][k][2]] = "decoded"
      BY DEF DoneInv
    <3>1. CASE job[s][k][2] = V(t)
      BY <1>1, <2>2, <3>1
    <3>2. CASE job[s][k][2] # V(t)
      <4>1. k \in 1..(at[s] - 1)
        <5>1. s # t \/ k # at[t]
          BY <3>2 DEF V
        <5> QED
          BY <1>0, <2>3, <5>1 DEF Shape
      <4>2. data[job[s][k][2]] = "decoded"
        BY <1>0, <1>1, <4>1 DEF DoneInv, SamePlan
      <4>3. job[s][k][2] \in View
        BY <1>1, ViewsAssumption DEF Good
      <4> QED
        BY <1>1, <2>2, <3>2, <4>2, <4>3
    <3> QED
      BY <3>1, <3>2
  <2>13. DataInv'
    <3> SUFFICES ASSUME NEW v \in View
                 PROVE  /\ v \notin Good => data'[v] = "null"
                        /\ heap'[v] = IF data'[v] = "decoded" THEN 1 ELSE 0
                        /\ data'[v] = "decoded" /\ ~opt'.registry =>
                             users'[v] # 0 \/ \E s \in Thread : Freeing(s)' /\ sub'[s] = "free" /\ V(s)' = v
                        /\ data'[v] = "freed" =>
                             \E s \in Thread : Freeing(s)' /\ sub'[s] = "clear" /\ V(s)' = v
      BY DEF DataInv
    <3>1. CASE v = V(t)
      BY <1>1, <2>1, <2>2, <2>9, <3>1 DEF SamePlan
    <3>2. CASE v # V(t)
      <4>1. \A s \in Thread : Freeing(s) => s # t
        BY <1>1 DEF Freeing
      <4>2. data'[v] = data[v] /\ heap'[v] = heap[v]
        BY <2>2, <3>2
      <4>3. \A s \in Thread : Freeing(s) => Freeing(s)' /\ sub'[s] = sub[s] /\ V(s)' = V(s)
        BY <2>7, <4>1
      <4> QED
        BY <1>0, <1>1, <4>2, <4>3 DEF DataInv, SamePlan
    <3> QED
      BY <3>1, <3>2
  <2> QED
    BY <2>3, <2>4, <2>5, <2>6, <2>11, <2>12, <2>13 DEF ViewsInv
<1> QED
  BY <1>3, <1>4

\* A task that drops a view read it decoded.
LEMMA DroppedIsDecoded ==
  ASSUME Shape, JobInv, CountInv, DoneInv, NEW t \in Thread, Busy(t), Op(t) = "drop",
         sub[t] = "start"
  PROVE  /\ ~opt.registry /\ users[V(t)] \in Nat \ {0}
         /\ V(t) \in Good => data[V(t)] = "decoded"
<1>1. StepOK(job[t], at[t]) /\ at[t] \in 1..Len(job[t]) /\ job[t] # <<>>
  BY StepType
<1>2. ~opt.registry
  BY <1>1 DEF StepOK, Op
<1>3. users[V(t)] \in Nat \ {0}
  BY <1>2, InUse
<1>4. PICK j \in 1..(at[t] - 1) : job[t][j][1] = "ensure" /\ job[t][j][2] = V(t)
  BY <1>1 DEF StepOK, Op, V
<1> QED
  BY <1>1, <1>2, <1>3, <1>4 DEF DoneInv

\* ... a drop, ...
LEMMA DropStep ==
  ASSUME ViewsInv, NEW t \in Thread, Drop(t), SamePlan
  PROVE  ViewsInv'
<1>0. Shape /\ PassInv /\ JobInv /\ CountInv /\ FreeInv /\ DoneInv /\ DataInv
  BY DEF ViewsInv
<1> DEFINE w == V(t)
<1>1. /\ Busy(t) /\ Op(t) = "drop" /\ sub[t] = "start" /\ data' = data /\ heap' = heap
      /\ users' = [users EXCEPT ![w] = @ - 1]
      /\ IF users[w] = 1 THEN Goto(t, "free") ELSE Advance(t)
      /\ job' = job
  BY DEF Drop, Doing, Advance, Goto
<1>2. w \in View /\ at[t] \in 1..Len(job[t]) /\ Len(job[t]) \in Nat /\ Len(job[t]) <= MaxSteps /\ job[t] # <<>>
  BY <1>0, <1>1, StepType
<1>3. ~opt.registry /\ users[w] \in Nat \ {0} /\ (w \in Good => data[w] = "decoded")
  BY <1>0, <1>1, DroppedIsDecoded
<1>4. /\ JobInv'
      /\ at' \in [Thread -> Nat \ {0}] /\ job' = [s \in Thread |-> job'[s]]
      /\ sub' \in [Thread -> {"start", "lock", "decode", "store", "free", "clear"}]
      /\ \A v : Owing(v)' = Owing(v) \ {<<t, at[t]>>}
      /\ \A s \in Thread : s # t => at'[s] = at[s] /\ sub'[s] = sub[s]
      /\ users[w] = 1 => sub'[t] = "free" /\ at'[t] = at[t]
      /\ users[w] # 1 => sub'[t] = "start" /\ at'[t] = at[t] + 1
  <2>1. CASE users[w] = 1
    <3>1. Goto(t, "free")
      BY <1>1, <2>1
    <3> QED
      BY <1>0, <1>1, <2>1, <3>1, GotoStep
  <2>2. CASE users[w] # 1
    <3>1. Advance(t)
      BY <1>1, <2>2
    <3> QED
      BY <1>0, <1>1, <2>2, <3>1, AdvanceStep
  <2> QED
    BY <2>1, <2>2
<1>5. /\ users' \in [View -> Int] /\ users'[w] = users[w] - 1
      /\ \A v \in View : v # w => users'[v] = users[v]
  BY <1>0, <1>1, <1>2 DEF Shape
<1>6. Shape'
  BY <1>0, <1>1, <1>4, <1>5 DEF Shape, SamePlan
<1>7. PassInv'
  <2>1. pass \in {"scan", "fill"}
    BY <1>0, <1>2 DEF JobInv
  <2> QED
    BY <1>0, <2>1, PassKept DEF SamePlan
<1>8. CountInv'
  <2>1. at[t] \in 1..MaxSteps
    BY <1>2 DEF MaxSteps
  <2>2. <<t, at[t]>> \in Owing(w)
    BY <1>1, <1>2, <2>1 DEF Owing, Owes, Op, V
  <2>3. \A v : v # w => <<t, at[t]>> \notin Owing(v)
    BY DEF Owing, Owes, V
  <2>4. \A v : Owing(v)' = IF v = w THEN Owing(v) \ {<<t, at[t]>>} ELSE Owing(v)
    BY <1>4, <2>3
  <2> HIDE DEF w
  <2> QED
    BY <1>0, <1>1, <1>2, <2>2, <2>4, CountDropped
<1>9. V(t)' = w \/ users[w] # 1
  BY <1>1, <1>4 DEF V
<1>10. ASSUME NEW s \in Thread, s # t
       PROVE  V(s)' = V(s) /\ sub'[s] = sub[s] /\ at'[s] = at[s] /\ (Freeing(s)' <=> Freeing(s))
  BY <1>1, <1>4, <1>10 DEF V, Freeing
<1>11. ASSUME NEW s \in Thread, Freeing(s) PROVE s # t /\ V(s) # w /\ users[V(s)] = 0 /\ V(s) \in View
  <2>1. Busy(s)
    BY <1>0, <1>11 DEF JobInv, Freeing, Busy
  <2> QED
    BY <1>0, <1>1, <1>3, <1>11, <2>1, StepType DEF FreeInv, Freeing
<1>12. FreeInv'
  <2>1. ASSUME NEW s \in Thread, Freeing(s)' PROVE users'[V(s)'] = 0
    <3>1. CASE s = t
      <4>1. users[w] = 1
        BY <1>4, <2>1, <3>1 DEF Freeing
      <4> QED
        BY <1>5, <1>9, <3>1, <4>1
    <3>2. CASE s # t
      BY <1>5, <1>10, <1>11, <2>1, <3>2
    <3> QED
      BY <3>1, <3>2
  <2>2. ASSUME NEW s \in Thread, NEW u \in Thread, Freeing(s)', Freeing(u)', V(s)' = V(u)'
        PROVE  s = u
    <3>1. CASE s # t /\ u # t
      BY <1>0, <1>10, <2>2, <3>1 DEF FreeInv
    <3>2. ASSUME NEW x \in Thread, x # t, Freeing(x)', Freeing(t)' PROVE V(x)' # V(t)'
      <4>1. users[w] = 1
        BY <1>4, <3>2 DEF Freeing
      <4> QED
        BY <1>9, <1>10, <1>11, <3>2, <4>1
    <3> QED
      BY <2>2, <3>1, <3>2
  <2>3. ASSUME NEW s \in Thread, sub'[s] = "clear" PROVE data'[V(s)'] = "freed"
    BY <1>0, <1>1, <1>4, <1>10, <2>3 DEF FreeInv
  <2> QED
    BY <2>1, <2>2, <2>3 DEF FreeInv
<1>13. DoneInv'
  <2> SUFFICES ASSUME NEW s \in Thread, job'[s] # <<>>, NEW k \in 1..(at'[s] - 1),
                      job'[s][k][1] = "ensure", job'[s][k][2] \in Good,
                      opt'.registry \/ users'[job'[s][k][2]] # 0
               PROVE  data'[job'[s][k][2]] = "decoded"
    BY DEF DoneInv
  <2>1. job[s][k][2] \in View
    BY <1>1, ViewsAssumption DEF Good
  <2>2. k \in 1..(at[s] - 1)
    <3>1. s # t \/ k # at[t]
      BY <1>1 DEF Op
    <3> QED
      BY <1>0, <1>4, <3>1 DEF Shape
  <2>3. users[job[s][k][2]] # 0
    BY <1>1, <1>3, <1>5, <2>1 DEF SamePlan
  <2> QED
    BY <1>0, <1>1, <2>2, <2>3 DEF DoneInv
<1>14. DataInv'
  <2> SUFFICES ASSUME NEW v \in View
               PROVE  /\ data[v] = "decoded" =>
                           users'[v] # 0 \/ \E s \in Thread : Freeing(s)' /\ sub'[s] = "free" /\ V(s)' = v
                      /\ data[v] = "freed" =>
                           \E s \in Thread : Freeing(s)' /\ sub'[s] = "clear" /\ V(s)' = v
    BY <1>0, <1>1 DEF DataInv, SamePlan
  <2>1. ASSUME data[v] = "freed"
        PROVE  \E s \in Thread : Freeing(s)' /\ sub'[s] = "clear" /\ V(s)' = v
    <3>1. PICK s \in Thread : Freeing(s) /\ sub[s] = "clear" /\ V(s) = v
      BY <1>0, <2>1 DEF DataInv
    <3> QED
      BY <1>10, <1>11, <3>1
  <2>2. ASSUME data[v] = "decoded", users'[v] = 0
        PROVE  \E s \in Thread : Freeing(s)' /\ sub'[s] = "free" /\ V(s)' = v
    <3>1. CASE v = w
      <4>1. users[w] = 1
        BY <1>3, <1>5, <2>2, <3>1
      <4>2. Freeing(t)' /\ sub'[t] = "free" /\ V(t)' = v
        BY <1>1, <1>2, <1>4, <1>9, <3>1, <4>1 DEF Freeing
      <4> QED
        BY <4>2
    <3>2. CASE v # w
      <4>1. PICK s \in Thread : Freeing(s) /\ sub[s] = "free" /\ V(s) = v
        BY <1>0, <1>3, <1>5, <2>2, <3>2 DEF DataInv
      <4> QED
        BY <1>10, <1>11, <4>1
    <3> QED
      BY <3>1, <3>2
  <2> QED
    BY <2>1, <2>2
<1> QED
  BY <1>4, <1>6, <1>7, <1>8, <1>12, <1>13, <1>14 DEF ViewsInv

\* ... a block freed, ...
LEMMA FreeStep ==
  ASSUME ViewsInv, NEW t \in Thread, Free(t), SamePlan
  PROVE  ViewsInv'
<1>0. Shape /\ PassInv /\ JobInv /\ CountInv /\ FreeInv /\ DoneInv /\ DataInv
  BY DEF ViewsInv
<1> DEFINE w == V(t)
<1>1. /\ Busy(t) /\ Op(t) = "drop" /\ sub[t] = "free" /\ users' = users /\ job' = job
  BY DEF Free, Doing, Advance, Goto
<1>2. w \in View /\ job[t] # <<>> /\ Freeing(t) /\ users[w] = 0 /\ ~opt.registry
  <2>1. w \in View /\ job[t] # <<>> /\ StepOK(job[t], at[t])
    BY <1>0, <1>1, StepType
  <2>2. Freeing(t)
    BY <1>1, <2>1 DEF Freeing
  <2> QED
    BY <1>0, <1>1, <2>1, <2>2 DEF FreeInv, StepOK, Op
<1>3. CASE ~(data[w] # "null" /\ w \in Compressed)
  <2>1. UNCHANGED <<data, heap>> /\ Advance(t)
    BY <1>3 DEF Free
  <2>2. data[w] # "decoded"
    BY <1>0, <1>2, <1>3 DEF DataInv, Good
  <2>3. Quiet(t)
    BY <1>1, <2>1, <2>2 DEF Quiet
  <2> QED
    BY <2>3, QuietStep
<1>4. CASE data[w] # "null" /\ w \in Compressed
  <2>1. /\ data' = [data EXCEPT ![w] = "freed"] /\ heap' = [heap EXCEPT ![w] = @ - 1]
        /\ Goto(t, "clear")
    BY <1>4 DEF Free
  <2>2. data[w] = "decoded" /\ heap[w] = 1 /\ w \in Good
    <3>1. data[w] # "freed"
      <4> SUFFICES ASSUME data[w] = "freed" PROVE FALSE
        OBVIOUS
      <4>1. PICK s \in Thread : Freeing(s) /\ sub[s] = "clear" /\ V(s) = w
        BY <1>0, <1>2 DEF DataInv
      <4>2. s = t
        BY <1>0, <1>2, <4>1 DEF FreeInv
      <4> QED
        BY <1>1, <4>1, <4>2
    <3> QED
      BY <1>0, <1>2, <1>4, <3>1 DEF DataInv, Shape
  <2>3. /\ data' \in [View -> {"null", "decoded", "freed"}] /\ heap' \in [View -> {0, 1}]
        /\ data'[w] = "freed" /\ heap'[w] = 0
        /\ \A v \in View : v # w => data'[v] = data[v] /\ heap'[v] = heap[v]
    BY <1>0, <1>2, <2>1, <2>2 DEF Shape
  <2>4. /\ JobInv'
        /\ at' \in [Thread -> Nat \ {0}] /\ job' = [s \in Thread |-> job'[s]]
        /\ sub' \in [Thread -> {"start", "lock", "decode", "store", "free", "clear"}]
        /\ \A v : Owing(v)' = Owing(v) \ {<<t, at[t]>>}
        /\ \A s \in Thread : s # t => sub'[s] = sub[s]
        /\ at' = at /\ sub'[t] = "clear"
    BY <1>0, <1>1, <2>1, GotoStep
  <2>5. Shape'
    BY <1>0, <1>1, <2>3, <2>4 DEF Shape, SamePlan
  <2>6. PassInv'
    <3>1. pass \in {"scan", "fill"}
      BY <1>0, <1>1 DEF JobInv, Busy
    <3> QED
      BY <1>0, <1>1, <3>1, PassKept DEF SamePlan
  <2>7. CountInv'
    <3>1. \A v : <<t, at[t]>> \notin Owing(v)
      BY <1>1 DEF Owing, Owes
    <3>2. \A v : Owing(v)' = Owing(v)
      BY <2>4, <3>1
    <3> QED
      BY <1>0, <1>1, <3>2, CountKept
  <2>8. \A s \in Thread : V(s)' = V(s) /\ (Freeing(s)' <=> Freeing(s))
    BY <1>1, <1>2, <2>4 DEF V, Freeing
  <2>9. ASSUME NEW s \in Thread, s # t, Freeing(s) PROVE V(s) # w /\ V(s) \in View
    <3>1. Busy(s)
      BY <1>0, <2>9 DEF JobInv, Freeing, Busy
    <3> QED
      BY <1>0, <1>2, <2>9, <3>1, StepType DEF FreeInv
  <2>10. FreeInv'
    <3>1. ASSUME NEW s \in Thread, sub'[s] = "clear" PROVE data'[V(s)'] = "freed"
      <4>1. CASE s = t
        BY <2>3, <2>8, <4>1
      <4>2. CASE s # t
        <5>1. sub[s] = "clear"
          BY <2>4, <3>1, <4>2
        <5>2. Freeing(s)
          BY <1>0, <5>1 DEF JobInv, Freeing
        <5> QED
          BY <1>0, <2>3, <2>8, <2>9, <4>2, <5>1, <5>2 DEF FreeInv
      <4> QED
        BY <4>1, <4>2
    <3> QED
      BY <1>0, <1>1, <2>8, <3>1 DEF FreeInv
  <2>11. DoneInv'
    <3> SUFFICES ASSUME NEW s \in Thread, job'[s] # <<>>, NEW k \in 1..(at'[s] - 1),
                        job'[s][k][1] = "ensure", job'[s][k][2] \in Good,
                        opt'.registry \/ users'[job'[s][k][2]] # 0
                 PROVE  data'[job'[s][k][2]] = "decoded"
      BY DEF DoneInv
    <3>1. job[s][k][2] \in View /\ job[s][k][2] # w
      BY <1>1, <1>2, ViewsAssumption DEF Good, SamePlan
    <3> QED
      BY <1>0, <1>1, <2>3, <2>4, <3>1 DEF DoneInv, SamePlan
  <2>12. DataInv'
    <3> SUFFICES ASSUME NEW v \in View
                 PROVE  /\ v \notin Good => data'[v] = "null"
                        /\ heap'[v] = IF data'[v] = "decoded" THEN 1 ELSE 0
                        /\ data'[v] = "decoded" /\ ~opt'.registry =>
                             users'[v] # 0 \/ \E s \in Thread : Freeing(s)' /\ sub'[s] = "free" /\ V(s)' = v
                        /\ data'[v] = "freed" =>
                             \E s \in Thread : Freeing(s)' /\ sub'[s] = "clear" /\ V(s)' = v
      BY DEF DataInv
    <3>1. CASE v = w
      BY <1>2, <2>2, <2>3, <2>4, <2>8, <3>1
    <3>2. CASE v # w
      <4>1. data'[v] = data[v] /\ heap'[v] = heap[v]
        BY <2>3, <3>2
      <4>2. \A s \in Thread : Freeing(s) /\ V(s) = v => Freeing(s)' /\ sub'[s] = sub[s] /\ V(s)' = v
        BY <2>4, <2>8, <3>2
      <4> QED
        BY <1>0, <1>1, <4>1, <4>2 DEF DataInv, SamePlan
    <3> QED
      BY <3>1, <3>2
  <2> QED
    BY <2>4, <2>5, <2>6, <2>7, <2>10, <2>11, <2>12 DEF ViewsInv
<1> QED
  BY <1>3, <1>4

\* ... and its pointer dropped.
LEMMA ClearStep ==
  ASSUME ViewsInv, NEW t \in Thread, Clear(t), SamePlan
  PROVE  ViewsInv'
<1>0. Shape /\ PassInv /\ JobInv /\ CountInv /\ FreeInv /\ DoneInv /\ DataInv
  BY DEF ViewsInv
<1> DEFINE w == V(t)
<1>1. /\ Busy(t) /\ Op(t) = "drop" /\ sub[t] = "clear" /\ users' = users /\ job' = job
      /\ heap' = heap /\ Advance(t) /\ data' = [data EXCEPT ![w] = "null"]
  BY DEF Clear, Doing, Advance
<1>2. w \in View /\ job[t] # <<>> /\ Freeing(t) /\ users[w] = 0 /\ ~opt.registry
      /\ data[w] = "freed" /\ heap[w] = 0
  <2>1. w \in View /\ job[t] # <<>> /\ StepOK(job[t], at[t])
    BY <1>0, <1>1, StepType
  <2>2. Freeing(t)
    BY <1>1, <2>1 DEF Freeing
  <2> QED
    BY <1>0, <1>1, <2>1, <2>2 DEF FreeInv, StepOK, Op, DataInv
<1>3. /\ data' \in [View -> {"null", "decoded", "freed"}] /\ data'[w] = "null"
      /\ \A v \in View : v # w => data'[v] = data[v]
  BY <1>0, <1>1, <1>2 DEF Shape
<1>4. /\ JobInv'
      /\ at' \in [Thread -> Nat \ {0}] /\ job' = [s \in Thread |-> job'[s]]
      /\ sub' \in [Thread -> {"start", "lock", "decode", "store", "free", "clear"}]
      /\ \A v : Owing(v)' = Owing(v) \ {<<t, at[t]>>}
      /\ \A s \in Thread : s # t => at'[s] = at[s] /\ sub'[s] = sub[s]
      /\ at'[t] = at[t] + 1 /\ sub'[t] = "start"
  BY <1>0, <1>1, AdvanceStep
<1>5. Shape'
  BY <1>0, <1>1, <1>3, <1>4 DEF Shape, SamePlan
<1>6. PassInv'
  <2>1. pass \in {"scan", "fill"}
    BY <1>0, <1>1 DEF JobInv, Busy
  <2> QED
    BY <1>0, <1>1, <2>1, PassKept DEF SamePlan
<1>7. CountInv'
  <2>1. \A v : <<t, at[t]>> \notin Owing(v)
    BY <1>1 DEF Owing, Owes
  <2>2. \A v : Owing(v)' = Owing(v)
    BY <1>4, <2>1
  <2> QED
    BY <1>0, <1>1, <2>2, CountKept
<1>8. ASSUME NEW s \in Thread, s # t
      PROVE  V(s)' = V(s) /\ sub'[s] = sub[s] /\ at'[s] = at[s] /\ (Freeing(s)' <=> Freeing(s))
  BY <1>1, <1>4, <1>8 DEF V, Freeing
<1>9. ~Freeing(t)' /\ sub'[t] # "clear"
  BY <1>4 DEF Freeing
<1>10. ASSUME NEW s \in Thread, s # t, Freeing(s) PROVE V(s) # w /\ V(s) \in View
  <2>1. Busy(s)
    BY <1>0, <1>10 DEF JobInv, Freeing, Busy
  <2> QED
    BY <1>0, <1>2, <1>10, <2>1, StepType DEF FreeInv
<1>11. FreeInv'
  <2>1. ASSUME NEW s \in Thread, sub'[s] = "clear" PROVE data'[V(s)'] = "freed"
    <3>1. s # t /\ sub[s] = "clear" /\ V(s)' = V(s)
      BY <1>8, <1>9, <2>1
    <3>2. Freeing(s)
      BY <1>0, <3>1 DEF JobInv, Freeing
    <3> QED
      BY <1>0, <1>3, <1>10, <3>1, <3>2 DEF FreeInv
  <2> QED
    BY <1>0, <1>1, <1>8, <1>9, <2>1 DEF FreeInv
<1>12. DoneInv'
  <2> SUFFICES ASSUME NEW s \in Thread, job'[s] # <<>>, NEW k \in 1..(at'[s] - 1),
                      job'[s][k][1] = "ensure", job'[s][k][2] \in Good,
                      opt'.registry \/ users'[job'[s][k][2]] # 0
               PROVE  data'[job'[s][k][2]] = "decoded"
    BY DEF DoneInv
  <2>1. job[s][k][2] \in View /\ job[s][k][2] # w
    BY <1>1, <1>2, ViewsAssumption DEF Good, SamePlan
  <2>2. k \in 1..(at[s] - 1)
    <3>1. s # t \/ k # at[t]
      BY <1>1 DEF Op
    <3> QED
      BY <1>0, <1>4, <3>1 DEF Shape
  <2> QED
    BY <1>0, <1>1, <1>3, <2>1, <2>2 DEF DoneInv, SamePlan
<1>13. DataInv'
  <2> SUFFICES ASSUME NEW v \in View
               PROVE  /\ v \notin Good => data'[v] = "null"
                      /\ heap'[v] = IF data'[v] = "decoded" THEN 1 ELSE 0
                      /\ data'[v] = "decoded" /\ ~opt'.registry =>
                           users'[v] # 0 \/ \E s \in Thread : Freeing(s)' /\ sub'[s] = "free" /\ V(s)' = v
                      /\ data'[v] = "freed" =>
                           \E s \in Thread : Freeing(s)' /\ sub'[s] = "clear" /\ V(s)' = v
    BY DEF DataInv
  <2>1. CASE v = w
    BY <1>1, <1>2, <1>3, <2>1
  <2>2. CASE v # w
    <3>1. data'[v] = data[v]
      BY <1>3, <2>2
    <3>2. \A s \in Thread : Freeing(s) /\ V(s) = v => Freeing(s)' /\ sub'[s] = sub[s] /\ V(s)' = v
      BY <1>8, <2>2
    <3> QED
      BY <1>0, <1>1, <3>1, <3>2 DEF DataInv, SamePlan
  <2> QED
    BY <2>1, <2>2
<1> QED
  BY <1>4, <1>5, <1>6, <1>7, <1>11, <1>12, <1>13 DEF ViewsInv

\* A task that returns leaves nothing behind.
LEMMA ReturnStep ==
  ASSUME ViewsInv, NEW t \in Thread, Return(t), SamePlan
  PROVE  ViewsInv'
<1>0. Shape /\ PassInv /\ JobInv /\ CountInv /\ FreeInv /\ DoneInv /\ DataInv
  BY DEF ViewsInv
<1>1. /\ job[t] # <<>> /\ at[t] > Len(job[t]) /\ job' = [job EXCEPT ![t] = <<>>]
      /\ UNCHANGED <<data, heap, users, at, sub>>
  BY DEF Return, viewVars
<1>2. Len(job[t]) \in Nat /\ sub[t] = "start" /\ at[t] \in Nat
  BY <1>0, <1>1 DEF JobInv, WellFormed, Shape
<1>3. /\ job'[t] = <<>> /\ \A s \in Thread : s # t => job'[s] = job[s]
      /\ job' = [s \in Thread |-> job'[s]]
  BY <1>0, <1>1 DEF Shape
<1>4. Shape'
  BY <1>0, <1>1, <1>3 DEF Shape, SamePlan
<1>5. PassInv'
  <2>1. pass \in {"scan", "fill"}
    BY <1>0, <1>1 DEF JobInv, Busy
  <2> QED
    BY <1>0, <1>1, <2>1, PassKept DEF SamePlan
<1>6. ASSUME NEW s \in Thread, s # t
      PROVE  job'[s] = job[s] /\ V(s)' = V(s) /\ Op(s)' = Op(s) /\ (Freeing(s)' <=> Freeing(s))
  BY <1>1, <1>3, <1>6 DEF V, Op, Freeing
<1>7. ~Freeing(t) /\ ~Freeing(t)'
  BY <1>1, <1>2 DEF Freeing
<1>8. JobInv'
  <2> SUFFICES ASSUME NEW s \in Thread
               PROVE  /\ job'[s] # <<>> => /\ pass' \in {"scan", "fill"}
                                           /\ WellFormed(job[s])'
                                           /\ at'[s] <= Len(job'[s]) + 1
                      /\ sub'[s] # "start" =>
                           /\ job'[s] # <<>> /\ at'[s] <= Len(job'[s])
                           /\ sub'[s] \in {"lock", "decode"} => Op(s)' = "ensure" /\ V(s)' \in Compressed
                           /\ sub'[s] = "store" => Op(s)' = "indices"
                           /\ sub'[s] \in {"free", "clear"} => Op(s)' = "drop"
    BY DEF JobInv
  <2>1. CASE s = t
    BY <1>1, <1>2, <1>3, <2>1
  <2>2. CASE s # t
    <3>1. job[s] # <<>> => WellFormed(job[s])'
      <4> SUFFICES ASSUME job[s] # <<>> PROVE WellFormed(job[s])'
        OBVIOUS
      <4>1. WellFormed(job[s])
        BY <1>0 DEF JobInv
      <4>2. \A x : x = job'[s] => WellFormed(x)'
        BY <1>6, <2>2, <4>1, PlanKept DEF SamePlan
      <4> QED
        BY <4>2
    <3> QED
      BY <1>0, <1>1, <1>6, <2>2, <3>1 DEF JobInv, SamePlan
  <2> QED
    BY <2>1, <2>2
<1>9. CountInv'
  <2>1. ASSUME NEW v, NEW s \in Thread, NEW k \in 1..MaxSteps PROVE Owes(s, k, v)' <=> Owes(s, k, v)
    <3>1. CASE s = t
      <4>1. ~Owes(s, k, v)'
        BY <1>3, <3>1 DEF Owes
      <4>2. ~Owes(s, k, v)
        BY <1>1, <1>2, <3>1 DEF Owes, MaxSteps
      <4> QED
        BY <4>1, <4>2
    <3>2. CASE s # t
      BY <1>1, <1>3, <3>2 DEF Owes
    <3> QED
      BY <3>1, <3>2
  <2>2. \A v : Owing(v)' = Owing(v)
    BY <2>1 DEF Owing
  <2> QED
    BY <1>0, <1>1, <2>2, CountKept
<1>10. FreeInv'
  BY <1>0, <1>1, <1>2, <1>6, <1>7 DEF FreeInv
<1>11. DoneInv'
  BY <1>0, <1>1, <1>3 DEF DoneInv, SamePlan
<1>12. DataInv'
  <2>1. \A s \in Thread : Freeing(s) => Freeing(s)' /\ V(s)' = V(s)
    BY <1>6, <1>7
  <2> QED
    BY <1>0, <1>1, <2>1 DEF DataInv, SamePlan
<1> QED
  BY <1>4, <1>5, <1>8, <1>9, <1>10, <1>11, <1>12 DEF ViewsInv

\* A task taken owes the drops of its primitive.
LEMMA AddIf ==
  ASSUME NEW S, IsFiniteSet(S), NEW x, x \notin S, NEW c \in BOOLEAN
  PROVE  LET T == S \cup (IF c THEN {x} ELSE {}) IN
         IsFiniteSet(T) /\ Cardinality(T) = Cardinality(S) + (IF c THEN 1 ELSE 0)
<1>0. Cardinality(S) \in Nat
  BY FS_CardinalityType
<1>1. CASE c
  BY <1>1, FS_AddElement
<1>2. CASE ~c
  <2>1. S \cup (IF c THEN {x} ELSE {}) = S
    BY <1>2
  <2> QED
    BY <1>0, <1>2, <2>1
<1> QED
  BY <1>1, <1>2

LEMMA UntakenStep ==
  ASSUME kept \in Seq(DOMAIN Plans), NEW from \in 1..Len(kept), NEW accessor, NEW v
  PROVE  Cardinality(Untaken(from, accessor, v)) =
           Cardinality(Untaken(from + 1, accessor, v))
             + (IF Has(from, accessor) /\ Part(from)[accessor] = v THEN 1 ELSE 0)
<1> DEFINE S == Untaken(from + 1, accessor, v)
           c == Has(from, accessor) /\ Part(from)[accessor] = v
<1>1. IsFiniteSet(S)
  <2>1. from + 1 \in Nat \ {0}
    OBVIOUS
  <2> QED
    BY <2>1, UntakenFinite
<1>2. from \notin S /\ c \in BOOLEAN
  BY DEF Untaken, Has
<1>3. Untaken(from, accessor, v) = S \cup (IF c THEN {from} ELSE {})
  <2>1. from..Len(kept) = {from} \cup ((from + 1)..Len(kept))
    BY LenProperties
  <2> QED
    BY <2>1 DEF Untaken
<1> HIDE DEF S, c
<1>4. Cardinality(S \cup (IF c THEN {from} ELSE {})) = Cardinality(S) + (IF c THEN 1 ELSE 0)
  BY <1>1, <1>2, AddIf
<1> QED
  BY <1>3, <1>4 DEF S, c

\* The drops among the steps of a task.
LEMMA DropsOfScan ==
  ASSUME Shape, PassInv, ~opt.registry, NEW i \in 1..Len(kept), NEW k \in 1..Len(ScanSteps(i))
  PROVE  ScanSteps(i)[k][1] = "drop" <=> k = 2 + ReadAt(i)
<1> DEFINE S == ScanSteps(i)
           q == ReadAt(i)
<1>1. /\ Len(S) = 2 + q /\ S[1] = <<"ensure", Part(i).idx>> /\ S[2 + q] = <<"drop", Part(i).idx>>
      /\ q = 1 => S[2] = <<"read", Part(i).idx>>
  BY ScanShape
<1>2. q \in {0, 1}
  BY DEF ReadAt
<1> HIDE DEF S, q
<1>3. k = 1 \/ (q = 1 /\ k = 2) \/ k = 2 + q
  BY <1>1, <1>2 DEF S
<1>4. S[1][1] = "ensure" /\ S[2 + q][1] = "drop" /\ (q = 1 => S[2][1] = "read")
  BY <1>1
<1>5. S[k][1] = "drop" <=> k = 2 + q
  BY <1>2, <1>3, <1>4
<1> QED
  BY <1>5 DEF S, q

LEMMA DropsOfFill ==
  ASSUME NEW i, NEW k \in 1..Len(FillSteps(i))
  PROVE  LET p == UvAt(i) IN
         FillSteps(i)[k][1] = "drop" <=> (p = 3 /\ k = 6) \/ k = 5 + p \/ k = 6 + p
<1> DEFINE F == FillSteps(i)
           p == UvAt(i)
<1>1. /\ Len(F) = 6 + p
      /\ F[1][1] = "ensure" /\ F[2][1] = "ensure" /\ F[3][1] = "positions"
      /\ p = 3 => F[4][1] = "ensure" /\ F[5][1] = "uvs" /\ F[6][1] = "drop"
      /\ F[4 + p][1] = "indices" /\ F[5 + p][1] = "drop" /\ F[6 + p][1] = "drop"
  BY FillShape
<1>2. p \in {0, 3}
  BY DEF UvAt
<1> HIDE DEF F, p
<1>3. k \in {1, 2, 3, 4 + p, 5 + p, 6 + p} \/ (p = 3 /\ k \in {4, 5, 6})
  BY <1>1, <1>2 DEF F
<1>4. F[k][1] = "drop" <=> (p = 3 /\ k = 6) \/ k = 5 + p \/ k = 6 + p
  BY <1>1, <1>2, <1>3
<1> QED
  BY <1>4 DEF F, p

LEMMA TakeCount ==
  ASSUME ViewsInv, NEW t \in Thread, Take(t)
  PROVE  CountInv'
<1>0. Shape /\ PassInv /\ JobInv /\ CountInv
  BY DEF ViewsInv
<1>1. /\ pass \in {"scan", "fill"} /\ job[t] = <<>> /\ next <= Len(kept)
      /\ job' = [job EXCEPT ![t] = Steps(next)] /\ at' = [at EXCEPT ![t] = 1] /\ sub' = sub
      /\ next' = next + 1 /\ UNCHANGED <<pass, opt, kept, users>>
  BY DEF Take, Begin, viewVars, planVars
<1>2. kept \in Seq(DOMAIN Plans) /\ Len(kept) \in Nat /\ next \in 1..Len(kept)
  BY <1>0, <1>1, LenProperties DEF Shape
<1> SUFFICES ASSUME ~opt.registry, NEW v \in View
             PROVE  users[v] = Cardinality(Owing(v)') + Cardinality(Untaken(ScanFrom, "idx", v)')
                      + Cardinality(Untaken(FillFrom, "pos", v)')
                      + Cardinality(Untaken(FillFrom, "idx", v)')
                      + Cardinality(Untaken(FillFrom, "uv", v)')
  BY <1>1 DEF CountInv
<1> DEFINE s == Steps(next)
           n == next
<1>3. WellFormed(s)
  BY <1>0, <1>1, <1>2, StepsAreWellFormed
<1>4. Len(s) \in Nat /\ Len(s) <= MaxSteps
  BY <1>3 DEF WellFormed
<1>5. /\ job'[t] = s /\ at'[t] = 1 /\ sub'[t] = "start"
      /\ \A r \in Thread : r # t => job'[r] = job[r] /\ at'[r] = at[r] /\ sub'[r] = sub[r]
  BY <1>0, <1>1 DEF JobInv, Shape
<1>6. \A r \in Thread, k \in 1..MaxSteps : r # t => (Owes(r, k, v)' <=> Owes(r, k, v))
  BY <1>5 DEF Owes
<1>7. \A k \in 1..MaxSteps : ~Owes(t, k, v)
  BY <1>1 DEF Owes
<1>8. \A k \in 1..MaxSteps : Owes(t, k, v)' <=> k <= Len(s) /\ s[k][1] = "drop" /\ s[k][2] = v
  <2> SUFFICES ASSUME NEW k \in 1..MaxSteps
               PROVE  Owes(t, k, v)' <=> k <= Len(s) /\ s[k][1] = "drop" /\ s[k][2] = v
    OBVIOUS
  <2>1. k \in Nat /\ 1 <= k
    BY DEF MaxSteps
  <2>2. s = <<>> => Len(s) = 0
    BY EmptySeq
  <2> HIDE DEF s
  <2> QED
    BY <1>4, <1>5, <2>1, <2>2 DEF Owes
<1>9. IsFiniteSet(Owing(v)) /\ Cardinality(Owing(v)) \in Nat
  BY OwingFinite
<1>10. \A k : <<t, k>> \notin Owing(v)
  BY <1>7 DEF Owing
<1>11. \A from, accessor, w : Untaken(from, accessor, w)' = Untaken(from, accessor, w)
  BY <1>1, PlanKept
<1>12. \A x, accessor : /\ x = ScanFrom' => Untaken(ScanFrom, accessor, v)' = Untaken(x, accessor, v)
                        /\ x = FillFrom' => Untaken(FillFrom, accessor, v)' = Untaken(x, accessor, v)
  <2>1. \A x, accessor : /\ x = ScanFrom' => Untaken(ScanFrom, accessor, v)' = Untaken(x, accessor, v)'
                         /\ x = FillFrom' => Untaken(FillFrom, accessor, v)' = Untaken(x, accessor, v)'
    BY DEF Untaken
  <2> QED
    BY <1>11, <2>1
<1>13. users[v] = Cardinality(Owing(v)) + Cardinality(Untaken(ScanFrom, "idx", v))
                    + Cardinality(Untaken(FillFrom, "pos", v))
                    + Cardinality(Untaken(FillFrom, "idx", v))
                    + Cardinality(Untaken(FillFrom, "uv", v))
  BY <1>0, <1>1 DEF CountInv
<1>14. \A accessor : \A from \in Nat \ {0} : Cardinality(Untaken(from, accessor, v)) \in Nat
  BY <1>2, UntakenFinite
<1>15. n + 1 \in Nat \ {0} /\ Len(kept) + 1 \in Nat \ {0} /\ n \in Nat \ {0}
  BY <1>2
<1>16. \A accessor : Cardinality(Untaken(n, accessor, v)) =
         Cardinality(Untaken(n + 1, accessor, v))
           + (IF Has(n, accessor) /\ Part(n)[accessor] = v THEN 1 ELSE 0)
  BY <1>2, UntakenStep
<1>17. IsPlan(Part(n))
  BY <1>0, <1>1, <1>2, PartIsPlan DEF PassInv
<1>18. Has(n, "pos") /\ Has(n, "idx")
  BY <1>17 DEF IsPlan, Has
<1>19. CASE pass = "scan"
  <2>1. ScanFrom = n /\ ScanFrom' = n + 1 /\ FillFrom = 1 /\ FillFrom' = 1
    BY <1>1, <1>19 DEF ScanFrom, FillFrom
  <2> DEFINE k0 == 2 + ReadAt(n)
             c == Part(n).idx = v
  <2>2. s = ScanSteps(n) /\ Len(s) = k0 /\ s[k0][2] = Part(n).idx
        /\ k0 \in 1..MaxSteps
    <3>1. s = ScanSteps(n)
      BY <1>19 DEF Steps
    <3>2. ReadAt(n) \in {0, 1}
      BY DEF ReadAt
    <3>3. k0 \in 1..MaxSteps
      BY <3>2 DEF MaxSteps
    <3> HIDE DEF s
    <3> QED
      BY <3>1, <3>3, ScanShape
  <2>3. \A k \in 1..Len(s) : s[k][1] = "drop" <=> k = k0
    BY <1>0, <1>2, <2>2, DropsOfScan
  <2> HIDE DEF s, n, k0
  <2>4. Owing(v)' = Owing(v) \cup (IF c THEN {<<t, k0>>} ELSE {})
    <3>1. \A k \in 1..MaxSteps : Owes(t, k, v)' <=> k = k0 /\ c
      <4> SUFFICES ASSUME NEW k \in 1..MaxSteps PROVE Owes(t, k, v)' <=> k = k0 /\ c
        OBVIOUS
      <4>1. k \in Nat /\ 1 <= k
        BY DEF MaxSteps
      <4>2. k <= Len(s) => k \in 1..Len(s)
        BY <1>4, <4>1
      <4>3. k0 \in 1..Len(s)
        BY <1>4, <2>2
      <4> QED
        BY <1>8, <2>2, <2>3, <4>2, <4>3
    <3>2. \A r \in Thread, k \in 1..MaxSteps :
            Owes(r, k, v)' <=> Owes(r, k, v) \/ (r = t /\ k = k0 /\ c)
      BY <1>6, <1>7, <3>1
    <3> HIDE DEF c
    <3>3. \A x \in Thread \X (1..MaxSteps) :
            Owes(x[1], x[2], v)' <=> Owes(x[1], x[2], v) \/ (x = <<t, k0>> /\ c)
      BY <3>2
    <3>4. <<t, k0>> \in Thread \X (1..MaxSteps)
      BY <2>2
    <3> QED
      BY <3>3, <3>4 DEF Owing
  <2>5. Cardinality(Owing(v)') = Cardinality(Owing(v)) + (IF c THEN 1 ELSE 0)
    <3>1. c \in BOOLEAN
      OBVIOUS
    <3> HIDE DEF c
    <3> QED
      BY <1>9, <1>10, <2>4, <3>1, AddIf
  <2>6. Cardinality(Untaken(n, "idx", v)) = Cardinality(Untaken(n + 1, "idx", v)) + (IF c THEN 1 ELSE 0)
    BY <1>16, <1>18
  <2> HIDE DEF c
  <2>7. /\ Cardinality(Untaken(n + 1, "idx", v)) \in Nat /\ Cardinality(Untaken(1, "pos", v)) \in Nat
        /\ Cardinality(Untaken(1, "idx", v)) \in Nat /\ Cardinality(Untaken(1, "uv", v)) \in Nat
    BY <1>14, <1>15
  <2> QED
    BY <1>9, <1>12, <1>13, <2>1, <2>5, <2>6, <2>7
<1>20. CASE pass = "fill"
  <2>1. ScanFrom = Len(kept) + 1 /\ ScanFrom' = Len(kept) + 1 /\ FillFrom = n /\ FillFrom' = n + 1
    BY <1>1, <1>20 DEF ScanFrom, FillFrom
  <2> DEFINE p == UvAt(n)
             cu == p = 3 /\ Part(n).uv = v
             cp == Part(n).pos = v
             ci == Part(n).idx = v
  <2>2. p \in {0, 3} /\ (p = 3 <=> Has(n, "uv"))
    BY DEF UvAt
  <2>3. /\ s = FillSteps(n) /\ Len(s) = 6 + p
        /\ p = 3 => s[6][2] = Part(n).uv
        /\ s[5 + p][2] = Part(n).pos /\ s[6 + p][2] = Part(n).idx
    <3>1. s = FillSteps(n)
      BY <1>20 DEF Steps
    <3> HIDE DEF s
    <3> QED
      BY <3>1, FillShape
  <2>4. \A k \in 1..Len(s) : s[k][1] = "drop" <=> (p = 3 /\ k = 6) \/ k = 5 + p \/ k = 6 + p
    BY <2>3, DropsOfFill
  <2> HIDE DEF s, n, p
  <2> DEFINE O1 == Owing(v) \cup (IF cu THEN {<<t, 6>>} ELSE {})
             O2 == O1 \cup (IF cp THEN {<<t, 5 + p>>} ELSE {})
             O3 == O2 \cup (IF ci THEN {<<t, 6 + p>>} ELSE {})
  <2>5. \A k \in 1..MaxSteps : Owes(t, k, v)' <=>
          (k = 6 /\ cu) \/ (k = 5 + p /\ cp) \/ (k = 6 + p /\ ci)
    <3> SUFFICES ASSUME NEW k \in 1..MaxSteps
                 PROVE  Owes(t, k, v)' <=> (k = 6 /\ cu) \/ (k = 5 + p /\ cp) \/ (k = 6 + p /\ ci)
      OBVIOUS
    <3>1. k \in Nat /\ 1 <= k
      BY DEF MaxSteps
    <3>2. k <= Len(s) => k \in 1..Len(s)
      BY <1>4, <3>1
    <3>3. 5 + p \in 1..Len(s) /\ 6 + p \in 1..Len(s) /\ 6 \in 1..Len(s)
      BY <2>2, <2>3
    <3>4. Owes(t, k, v)' <=> k \in 1..Len(s) /\ s[k][1] = "drop" /\ s[k][2] = v
      BY <1>4, <1>8, <3>2
    <3>5. Owes(t, k, v)' <=> ((p = 3 /\ k = 6) \/ k = 5 + p \/ k = 6 + p) /\ s[k][2] = v
      BY <2>4, <3>3, <3>4
    <3>6. p = 3 => 6 # 5 + p /\ 6 # 6 + p
      OBVIOUS
    <3>7. 5 + p # 6 + p
      BY <2>2
    <3> QED
      BY <2>3, <3>5, <3>6, <3>7
  <2> HIDE DEF cu, cp, ci
  <2>6. Owing(v)' = O3
    <3>1. \A r \in Thread, k \in 1..MaxSteps :
            Owes(r, k, v)' <=> \/ Owes(r, k, v)
                               \/ r = t /\ ((k = 6 /\ cu) \/ (k = 5 + p /\ cp) \/ (k = 6 + p /\ ci))
      BY <1>6, <1>7, <2>5
    <3>2. \A x \in Thread \X (1..MaxSteps) :
            Owes(x[1], x[2], v)' <=> \/ Owes(x[1], x[2], v)
                                     \/ x = <<t, 6>> /\ cu
                                     \/ x = <<t, 5 + p>> /\ cp
                                     \/ x = <<t, 6 + p>> /\ ci
      BY <3>1
    <3>3. <<t, 6>> \in Thread \X (1..MaxSteps) /\ <<t, 5 + p>> \in Thread \X (1..MaxSteps)
          /\ <<t, 6 + p>> \in Thread \X (1..MaxSteps)
      BY <2>2 DEF MaxSteps
    <3>4. Owing(v)' = {x \in Thread \X (1..MaxSteps) :
            \/ Owes(x[1], x[2], v)
            \/ x = <<t, 6>> /\ cu
            \/ x = <<t, 5 + p>> /\ cp
            \/ x = <<t, 6 + p>> /\ ci}
      BY <3>2 DEF Owing
    <3> QED
      BY <3>3, <3>4 DEF Owing
  <2>7. cu \in BOOLEAN /\ cp \in BOOLEAN /\ ci \in BOOLEAN
    BY DEF cu, cp, ci
  <2>8. cu => p = 3
    BY DEF cu
  <2>9. IsFiniteSet(O1) /\ Cardinality(O1) = Cardinality(Owing(v)) + (IF cu THEN 1 ELSE 0)
    BY <1>9, <1>10, <2>7, AddIf
  <2>10. <<t, 5 + p>> \notin O1
    BY <1>10, <2>2, <2>8
  <2>11. <<t, 6 + p>> \notin O2
    BY <1>10, <2>2, <2>8
  <2> HIDE DEF O1
  <2>12. IsFiniteSet(O2) /\ Cardinality(O2) = Cardinality(O1) + (IF cp THEN 1 ELSE 0)
    BY <2>7, <2>9, <2>10, AddIf
  <2> HIDE DEF O2
  <2>13. Cardinality(O3) = Cardinality(O2) + (IF ci THEN 1 ELSE 0)
    BY <2>7, <2>11, <2>12, AddIf
  <2> HIDE DEF O3
  <2>14. Cardinality(Untaken(n, "uv", v)) = Cardinality(Untaken(n + 1, "uv", v)) + (IF cu THEN 1 ELSE 0)
    BY <1>16, <2>2 DEF cu
  <2>15. Cardinality(Untaken(n, "pos", v)) = Cardinality(Untaken(n + 1, "pos", v)) + (IF cp THEN 1 ELSE 0)
    BY <1>16, <1>18 DEF cp
  <2>16. Cardinality(Untaken(n, "idx", v)) = Cardinality(Untaken(n + 1, "idx", v)) + (IF ci THEN 1 ELSE 0)
    BY <1>16, <1>18 DEF ci
  <2>17. /\ Cardinality(Untaken(n + 1, "idx", v)) \in Nat /\ Cardinality(Untaken(n + 1, "pos", v)) \in Nat
         /\ Cardinality(Untaken(n + 1, "uv", v)) \in Nat
         /\ Cardinality(Untaken(Len(kept) + 1, "idx", v)) \in Nat
    BY <1>14, <1>15
  <2>18. users[v] = Cardinality(Owing(v)) + Cardinality(Untaken(Len(kept) + 1, "idx", v))
                      + Cardinality(Untaken(n, "pos", v)) + Cardinality(Untaken(n, "idx", v))
                      + Cardinality(Untaken(n, "uv", v))
    BY <1>13, <2>1
  <2>19. users[v] = Cardinality(O3) + Cardinality(Untaken(Len(kept) + 1, "idx", v))
                      + Cardinality(Untaken(n + 1, "pos", v)) + Cardinality(Untaken(n + 1, "idx", v))
                      + Cardinality(Untaken(n + 1, "uv", v))
    <3> DEFINE o0 == Cardinality(Owing(v))
               o1 == Cardinality(O1)
               o2 == Cardinality(O2)
               o3 == Cardinality(O3)
               x0 == Cardinality(Untaken(n, "pos", v))
               x1 == Cardinality(Untaken(n + 1, "pos", v))
               y0 == Cardinality(Untaken(n, "idx", v))
               y1 == Cardinality(Untaken(n + 1, "idx", v))
               z0 == Cardinality(Untaken(n, "uv", v))
               z1 == Cardinality(Untaken(n + 1, "uv", v))
               w0 == Cardinality(Untaken(Len(kept) + 1, "idx", v))
    <3>1. /\ o1 = o0 + (IF cu THEN 1 ELSE 0) /\ o2 = o1 + (IF cp THEN 1 ELSE 0)
          /\ o3 = o2 + (IF ci THEN 1 ELSE 0)
      BY <2>9, <2>12, <2>13
    <3>2. /\ z0 = z1 + (IF cu THEN 1 ELSE 0) /\ x0 = x1 + (IF cp THEN 1 ELSE 0)
          /\ y0 = y1 + (IF ci THEN 1 ELSE 0)
      BY <2>14, <2>15, <2>16
    <3>3. o0 \in Nat /\ x1 \in Nat /\ y1 \in Nat /\ z1 \in Nat /\ w0 \in Nat
      BY <1>9, <2>17
    <3>4. users[v] = o0 + w0 + x0 + y0 + z0
      BY <2>18
    <3> HIDE DEF o0, o1, o2, o3, x0, x1, y0, y1, z0, z1, w0
    <3>5. users[v] = o3 + w0 + x1 + y1 + z1
      BY <2>7, <3>1, <3>2, <3>3, <3>4
    <3> QED
      BY <3>5 DEF o3, w0, x1, y1, z1
  <2>20. /\ Untaken(ScanFrom, "idx", v)' = Untaken(Len(kept) + 1, "idx", v)
         /\ Untaken(FillFrom, "pos", v)' = Untaken(n + 1, "pos", v)
         /\ Untaken(FillFrom, "idx", v)' = Untaken(n + 1, "idx", v)
         /\ Untaken(FillFrom, "uv", v)' = Untaken(n + 1, "uv", v)
    BY <1>12, <2>1
  <2> QED
    BY <2>6, <2>19, <2>20
<1> QED
  BY <1>1, <1>19, <1>20

LEMMA TakeStep ==
  ASSUME ViewsInv, NEW t \in Thread, Take(t)
  PROVE  ViewsInv'
<1>0. Shape /\ PassInv /\ JobInv /\ CountInv /\ FreeInv /\ DoneInv /\ DataInv
  BY DEF ViewsInv
<1>1. /\ pass \in {"scan", "fill"} /\ job[t] = <<>> /\ next <= Len(kept)
      /\ job' = [job EXCEPT ![t] = Steps(next)] /\ at' = [at EXCEPT ![t] = 1] /\ sub' = sub
      /\ next' = next + 1 /\ UNCHANGED <<pass, opt, kept, users, data, heap>>
  BY DEF Take, Begin, viewVars, planVars
<1>2. kept \in Seq(DOMAIN Plans) /\ Len(kept) \in Nat /\ next \in 1..Len(kept)
  BY <1>0, <1>1, LenProperties DEF Shape
<1> DEFINE s == Steps(next)
<1>3. WellFormed(s)
  BY <1>0, <1>1, <1>2, StepsAreWellFormed
<1>4. Len(s) \in Nat
  BY <1>3 DEF WellFormed
<1> HIDE DEF s
<1>5. /\ job' = [job EXCEPT ![t] = s]
      /\ job'[t] = s /\ at'[t] = 1 /\ sub'[t] = "start"
      /\ \A r \in Thread : r # t => job'[r] = job[r] /\ at'[r] = at[r] /\ sub'[r] = sub[r]
  BY <1>0, <1>1 DEF JobInv, Shape, s
<1>6. /\ at' \in [Thread -> Nat \ {0}] /\ next' \in Nat \ {0}
      /\ job' = [r \in Thread |-> job'[r]]
  <2>1. at' \in [Thread -> Nat \ {0}]
    BY <1>0, <1>1 DEF Shape
  <2>2. next' \in Nat \ {0}
    BY <1>1, <1>2
  <2>3. job' = [r \in Thread |-> job'[r]]
    <3>1. job = [r \in Thread |-> job[r]]
      BY <1>0 DEF Shape
    <3> QED
      BY <1>5, <3>1
  <2> QED
    BY <2>1, <2>2, <2>3
<1>7. Shape'
  BY <1>0, <1>1, <1>6 DEF Shape
<1>8. PassInv'
  BY <1>0, <1>1, PassKept
<1>9. ASSUME NEW r \in Thread
      PROVE  /\ r # t => V(r)' = V(r) /\ Op(r)' = Op(r)
             /\ Freeing(r) => r # t
             /\ Freeing(r)' <=> Freeing(r)
  BY <1>0, <1>1, <1>5 DEF V, Op, Freeing, JobInv
<1>10. JobInv'
  <2> SUFFICES ASSUME NEW r \in Thread
               PROVE  /\ job'[r] # <<>> => /\ pass' \in {"scan", "fill"}
                                           /\ WellFormed(job[r])'
                                           /\ at'[r] <= Len(job'[r]) + 1
                      /\ sub'[r] # "start" =>
                           /\ job'[r] # <<>> /\ at'[r] <= Len(job'[r])
                           /\ sub'[r] \in {"lock", "decode"} => Op(r)' = "ensure" /\ V(r)' \in Compressed
                           /\ sub'[r] = "store" => Op(r)' = "indices"
                           /\ sub'[r] \in {"free", "clear"} => Op(r)' = "drop"
    BY DEF JobInv
  <2>1. CASE r = t
    <3>1. \A x : x = job'[t] => WellFormed(x)'
      BY <1>1, <1>3, <1>5, PlanKept
    <3>2. WellFormed(job[t])'
      BY <3>1
    <3>3. at'[t] <= Len(job'[t]) + 1
      BY <1>4, <1>5
    <3> QED
      BY <1>1, <1>5, <2>1, <3>2, <3>3
  <2>2. CASE r # t
    <3>1. job[r] # <<>> => WellFormed(job[r])'
      <4> SUFFICES ASSUME job[r] # <<>> PROVE WellFormed(job[r])'
        OBVIOUS
      <4>1. WellFormed(job[r])
        BY <1>0 DEF JobInv
      <4>2. \A x : x = job'[r] => WellFormed(x)'
        BY <1>1, <1>5, <2>2, <4>1, PlanKept
      <4> QED
        BY <4>2
    <3> QED
      BY <1>0, <1>1, <1>5, <1>9, <2>2, <3>1 DEF JobInv
  <2> QED
    BY <2>1, <2>2
<1>11. CountInv'
  BY TakeCount
<1>12. FreeInv'
  <2>1. \A r \in Thread : sub[r] = "clear" => r # t
    BY <1>0, <1>1 DEF JobInv
  <2> QED
    BY <1>0, <1>1, <1>9, <2>1 DEF FreeInv
<1>13. DoneInv'
  <2> SUFFICES ASSUME NEW r \in Thread, job'[r] # <<>>, NEW k \in 1..(at'[r] - 1),
                      job'[r][k][1] = "ensure", job'[r][k][2] \in Good,
                      opt'.registry \/ users'[job'[r][k][2]] # 0
               PROVE  data'[job'[r][k][2]] = "decoded"
    BY DEF DoneInv
  <2>1. r # t
    BY <1>5
  <2> QED
    BY <1>0, <1>1, <1>5, <2>1 DEF DoneInv
<1>14. DataInv'
  <2>1. \A r \in Thread : Freeing(r) => Freeing(r)' /\ V(r)' = V(r)
    BY <1>9
  <2> QED
    BY <1>0, <1>1, <2>1 DEF DataInv
<1> QED
  BY <1>7, <1>8, <1>10, <1>11, <1>12, <1>13, <1>14 DEF ViewsInv

\* What a task does.
LEMMA TaskStep ==
  ASSUME ViewsInv, NEW t \in Thread, Task(t), UNCHANGED <<pass, next, planVars, gpu>>
  PROVE  ViewsInv'
<1>0. Shape /\ PassInv /\ JobInv /\ CountInv /\ FreeInv /\ DoneInv /\ DataInv
  BY DEF ViewsInv
<1>1. SamePlan
  BY DEF SamePlan, planVars
<1>2. CASE Check(t)
  <2>1. Busy(t) /\ Op(t) = "ensure" /\ sub[t] = "start" /\ UNCHANGED <<data, heap, users>>
    BY <1>2 DEF Check, Doing, viewVars
  <2>2. CASE V(t) \notin Compressed \/ data[V(t)] # "null"
    <3>1. Advance(t)
      BY <1>2, <2>2 DEF Check
    <3>2. V(t) \in View
      BY <1>0, <2>1, StepType
    <3>3. ASSUME V(t) \in Good, opt.registry \/ users[V(t)] # 0
          PROVE  data[V(t)] = "decoded"
      <4>1. data[V(t)] # "null" /\ data[V(t)] \in {"null", "decoded", "freed"}
        BY <1>0, <2>2, <3>2, <3>3 DEF Good, Shape
      <4>2. data[V(t)] # "freed"
        <5> SUFFICES ASSUME data[V(t)] = "freed" PROVE FALSE
          OBVIOUS
        <5>1. PICK s \in Thread : Freeing(s) /\ sub[s] = "clear" /\ V(s) = V(t)
          BY <1>0, <3>2 DEF DataInv
        <5>2. users[V(s)] = 0
          BY <1>0, <5>1 DEF FreeInv
        <5>3. opt.registry
          BY <3>3, <5>1, <5>2
        <5>4. Op(s) = "drop" /\ Busy(s)
          BY <1>0, <5>1 DEF JobInv, Freeing, Busy
        <5>5. StepOK(job[s], at[s])
          BY <1>0, <5>4, StepType
        <5> QED
          BY <5>3, <5>4, <5>5 DEF StepOK, Op
      <4> QED
        BY <4>1, <4>2
    <3> QED
      BY <1>1, <2>1, <3>1, <3>3, QuietStep DEF Quiet
  <2>3. CASE ~(V(t) \notin Compressed \/ data[V(t)] # "null")
    <3>1. Goto(t, "lock")
      BY <1>2, <2>3 DEF Check
    <3>2. Quiet(t)
      BY <1>1, <2>1, <2>3, <3>1 DEF Quiet
    <3> QED
      BY <3>2, QuietStep
  <2> QED
    BY <2>2, <2>3
<1>3. CASE Lock(t)
  <2>1. /\ Busy(t) /\ Op(t) = "ensure" /\ sub[t] = "lock" /\ Goto(t, "decode")
        /\ UNCHANGED <<data, heap, users>>
    BY <1>3 DEF Lock, Doing
  <2>2. V(t) \in Compressed
    BY <1>0, <2>1 DEF JobInv
  <2>3. Quiet(t)
    BY <1>1, <2>1, <2>2 DEF Quiet
  <2> QED
    BY <2>3, QuietStep
<1>4. CASE Read(t) \/ CopyPositions(t) \/ CopyUvs(t) \/ StoreWords(t)
  <2>1. /\ Busy(t) /\ Op(t) \in Reads /\ Advance(t) /\ UNCHANGED <<data, heap, users>>
    BY <1>4 DEF Read, CopyPositions, CopyUvs, StoreWords, Doing, Reads, viewVars
  <2>2. Op(t) # "drop" /\ Op(t) # "ensure"
    BY <2>1 DEF Reads
  <2>3. Quiet(t)
    BY <1>1, <2>1, <2>2 DEF Quiet
  <2> QED
    BY <2>3, QuietStep
<1>5. CASE LoadWords(t)
  <2>1. /\ Busy(t) /\ Op(t) = "indices" /\ Goto(t, "store") /\ UNCHANGED <<data, heap, users>>
    BY <1>5 DEF LoadWords, Doing, viewVars
  <2>2. Quiet(t)
    BY <1>1, <2>1 DEF Quiet
  <2> QED
    BY <2>2, QuietStep
<1>6. CASE Decode(t)
  BY <1>1, <1>6, DecodeStep
<1>7. CASE Drop(t)
  BY <1>1, <1>7, DropStep
<1>8. CASE Free(t)
  BY <1>1, <1>8, FreeStep
<1>9. CASE Clear(t)
  BY <1>1, <1>9, ClearStep
<1>10. CASE Return(t)
  BY <1>1, <1>10, ReturnStep
<1> QED
  BY <1>2, <1>3, <1>4, <1>5, <1>6, <1>7, <1>8, <1>9, <1>10 DEF Task

-----------------------------------------------------------------------------
(* Steps between the passes.                                               *)

Idle == \A t \in Thread : job[t] = <<>>

\* When no task runs no drop is owed and nothing is being freed.
LEMMA IdleViews ==
  ASSUME Shape, JobInv, DataInv, Idle
  PROVE  /\ \A v : Owing(v) = {}
         /\ \A t \in Thread : sub[t] = "start" /\ ~Freeing(t)
         /\ \A v \in View : /\ data[v] # "freed"
                            /\ data[v] = "decoded" /\ ~opt.registry => users[v] # 0
<1>1. \A v : Owing(v) = {}
  BY DEF Idle, Owing, Owes
<1>2. \A t \in Thread : sub[t] = "start" /\ ~Freeing(t)
  BY DEF Idle, JobInv, Freeing
<1> QED
  BY <1>1, <1>2 DEF DataInv

\* What is left to show of a step that starts none.
LEMMA IdleStep ==
  ASSUME ViewsInv, Idle, UNCHANGED <<threadVars, opt>>, Shape', PassInv', CountInv',
         \A v \in View : /\ v \notin Good => data'[v] = "null"
                         /\ heap'[v] = IF data'[v] = "decoded" THEN 1 ELSE 0
                         /\ data'[v] # "freed"
                         /\ data'[v] = "decoded" /\ ~opt.registry => users'[v] # 0
  PROVE  ViewsInv'
<1>0. Shape /\ JobInv /\ DataInv
  BY DEF ViewsInv
<1>1. \A t \in Thread : sub[t] = "start" /\ job[t] = <<>>
  BY <1>0, IdleViews DEF Idle
<1>2. job' = job /\ sub' = sub /\ at' = at /\ opt' = opt
  BY DEF threadVars
<1>3. JobInv'
  BY <1>1, <1>2 DEF JobInv
<1>4. FreeInv'
  BY <1>1, <1>2 DEF FreeInv, Freeing
<1>5. DoneInv'
  BY <1>1, <1>2 DEF DoneInv
<1>6. DataInv'
  BY <1>2 DEF DataInv
<1> QED
  BY <1>3, <1>4, <1>5, <1>6 DEF ViewsInv

LEMMA IdleQuietStep ==
  ASSUME ViewsInv, Idle, UNCHANGED <<threadVars, opt, data, heap, users>>, Shape', PassInv', CountInv'
  PROVE  ViewsInv'
<1>0. Shape /\ JobInv /\ DataInv
  BY DEF ViewsInv
<1>1. \A v \in View : /\ data[v] # "freed"
                      /\ data[v] = "decoded" /\ ~opt.registry => users[v] # 0
  BY <1>0, IdleViews
<1> QED
  BY <1>0, <1>1, IdleStep DEF DataInv

\* The count between passes: what is untaken stays so.
LEMMA CountMoves ==
  ASSUME Shape, CountInv, JobInv, DataInv, Idle, UNCHANGED <<threadVars, opt, kept, users>>,
         pass \notin {"cap", "failed"},
         \A accessor, v : /\ Untaken(ScanFrom', accessor, v) = Untaken(ScanFrom, accessor, v)
                          /\ Untaken(FillFrom', accessor, v) = Untaken(FillFrom, accessor, v)
  PROVE  CountInv'
<1>1. \A v : Owing(v)' = Owing(v)
  <2>1. \A v, t, k : Owes(t, k, v)' <=> Owes(t, k, v)
    BY DEF Owes, threadVars
  <2> QED
    BY <2>1 DEF Owing
<1>2. \A accessor, v : /\ Untaken(ScanFrom, accessor, v)' = Untaken(ScanFrom, accessor, v)
                       /\ Untaken(FillFrom, accessor, v)' = Untaken(FillFrom, accessor, v)
  <2>1. \A from, accessor, v : Untaken(from, accessor, v)' = Untaken(from, accessor, v)
    BY PlanKept
  <2>2. \A x, accessor, v : x = ScanFrom' => Untaken(ScanFrom, accessor, v)' = Untaken(x, accessor, v)'
    BY DEF Untaken
  <2>3. \A x, accessor, v : x = FillFrom' => Untaken(FillFrom, accessor, v)' = Untaken(x, accessor, v)'
    BY DEF Untaken
  <2> QED
    BY <2>1, <2>2, <2>3
<1> QED
  BY <1>1, <1>2 DEF CountInv

\* None is left untaken past the last.
LEMMA AllTaken ==
  ASSUME Shape, NEW from \in Nat, from > Len(kept), NEW accessor, NEW v
  PROVE  Untaken(from, accessor, v) = {}
<1>1. Len(kept) \in Nat
  BY LenProperties DEF Shape
<1> QED
  BY <1>1 DEF Untaken

LEMMA CapStep ==
  ASSUME ViewsInv, Cap
  PROVE  ViewsInv'
<1>0. Shape /\ PassInv /\ JobInv /\ CountInv /\ FreeInv /\ DoneInv /\ DataInv
  BY DEF ViewsInv
<1>1. /\ pass = "cap" /\ next <= Len(Plans) /\ kept' \in {kept, Append(kept, next)}
      /\ next' = next + 1 /\ pass' = pass
      /\ UNCHANGED <<threadVars, opt, data, heap, users>>
  BY DEF Cap, viewVars
<1>2. Idle
  BY <1>0, <1>1 DEF JobInv, Idle
<1>3. next \in DOMAIN Plans /\ next' \in Nat \ {0}
  <2>1. Len(Plans) \in Nat /\ DOMAIN Plans = 1..Len(Plans)
    BY PlansFacts, LenProperties
  <2> QED
    BY <1>0, <1>1, <2>1 DEF Shape
<1>4. kept' \in Seq(DOMAIN Plans)
  <2> DEFINE D == DOMAIN Plans
  <2>1. kept \in Seq(D) /\ next \in D
    BY <1>0, <1>3 DEF Shape
  <2> HIDE DEF D
  <2>2. Append(kept, next) \in Seq(D)
    BY <2>1, AppendProperties
  <2>3. kept' \in Seq(D)
    BY <1>1, <2>1, <2>2
  <2> QED
    BY <2>3 DEF D
<1>5. Shape'
  BY <1>0, <1>1, <1>3, <1>4 DEF Shape, threadVars
<1>6. PassInv'
  <2>1. ~Generated /\ Generated' = Generated
    BY <1>0, <1>1 DEF PassInv, Generated
  <2> QED
    BY <1>0, <1>1, <2>1 DEF PassInv
<1>7. CountInv'
  BY <1>1 DEF CountInv
<1> QED
  BY <1>1, <1>2, <1>5, <1>6, <1>7, IdleQuietStep

LEMMA CountUsesStep ==
  ASSUME ViewsInv, CountUses
  PROVE  ViewsInv'
<1>0. Shape /\ PassInv /\ JobInv /\ CountInv /\ FreeInv /\ DoneInv /\ DataInv
  BY DEF ViewsInv
<1>1. /\ pass = "cap" /\ next' = 1
      /\ users' = IF opt.registry THEN users ELSE [v \in View |-> Uses(v)]
      /\ pass' = IF opt.packed \/ opt.registry THEN "scan" ELSE "reserve"
      /\ UNCHANGED <<threadVars, opt, kept, data, heap>>
  BY DEF CountUses, planVars
<1>2. Idle
  BY <1>0, <1>1 DEF JobInv, Idle
<1>3. kept \in Seq(DOMAIN Plans) /\ Len(kept) \in Nat /\ opt.packed \in BOOLEAN
  BY <1>0, LenProperties, OptionsAssumption DEF Shape
<1>4. \A accessor, v : Count(accessor, v) \in Nat
                        /\ Count(accessor, v) = Cardinality(Untaken(1, accessor, v))
  BY <1>3, CountIsUntaken, UntakenFinite
<1>5. \A v : Uses(v) \in Nat
  <2> SUFFICES ASSUME NEW v PROVE Uses(v) \in Nat
    OBVIOUS
  <2> DEFINE a == Count("pos", v)
             b == Count("idx", v)
             c == Count("uv", v)
  <2>1. a \in Nat /\ b \in Nat /\ c \in Nat
    BY <1>4
  <2>2. Uses(v) = a + b + c + IF opt.packed THEN b ELSE 0
    BY DEF Uses
  <2> HIDE DEF a, b, c
  <2> QED
    BY <2>1, <2>2
<1>6. users' \in [View -> Int]
  BY <1>0, <1>1, <1>5 DEF Shape
<1>7. Shape'
  BY <1>0, <1>1, <1>6 DEF Shape, threadVars
<1>8. PassInv'
  <2>1. ~Generated /\ Generated' = Generated
    BY <1>0, <1>1 DEF PassInv, Generated
  <2> QED
    BY <1>0, <1>1, <2>1 DEF PassInv
<1>9. CountInv'
  <2> SUFFICES ASSUME ~opt.registry, NEW v \in View
               PROVE  users'[v] = Cardinality(Owing(v)') + Cardinality(Untaken(ScanFrom, "idx", v)')
                        + Cardinality(Untaken(FillFrom, "pos", v)')
                        + Cardinality(Untaken(FillFrom, "idx", v)')
                        + Cardinality(Untaken(FillFrom, "uv", v)')
    BY <1>1 DEF CountInv
  <2>1. Owing(v)' = {} /\ Cardinality({}) = 0
    BY <1>1, <1>2, FS_EmptySet DEF Owing, Owes, Idle, threadVars
  <2>2. FillFrom' = 1 /\ ScanFrom' = IF opt.packed THEN 1 ELSE Len(kept) + 1
    BY <1>1, <1>3 DEF FillFrom, ScanFrom
  <2>3. \A from, accessor : Untaken(from, accessor, v)' = Untaken(from, accessor, v)
    BY <1>1, PlanKept
  <2>4. \A x, accessor : /\ x = ScanFrom' => Untaken(ScanFrom, accessor, v)' = Untaken(x, accessor, v)
                         /\ x = FillFrom' => Untaken(FillFrom, accessor, v)' = Untaken(x, accessor, v)
    <3>1. \A x, accessor : /\ x = ScanFrom' => Untaken(ScanFrom, accessor, v)' = Untaken(x, accessor, v)'
                           /\ x = FillFrom' => Untaken(FillFrom, accessor, v)' = Untaken(x, accessor, v)'
      BY DEF Untaken
    <3> QED
      BY <2>3, <3>1
  <2>5. Untaken(Len(kept) + 1, "idx", v) = {}
    BY <1>0, <1>3, AllTaken
  <2> DEFINE a == Count("pos", v)
             b == Count("idx", v)
             c == Count("uv", v)
             z == Cardinality(Untaken(ScanFrom, "idx", v)')
  <2>6. /\ Cardinality(Untaken(FillFrom, "pos", v)') = a
        /\ Cardinality(Untaken(FillFrom, "idx", v)') = b
        /\ Cardinality(Untaken(FillFrom, "uv", v)') = c
    BY <1>4, <2>2, <2>4
  <2>7. z = IF opt.packed THEN b ELSE 0
    <3>1. CASE opt.packed
      BY <1>4, <2>2, <2>4, <3>1
    <3>2. CASE ~opt.packed
      BY <2>1, <2>2, <2>4, <2>5, <3>2
    <3> QED
      BY <3>1, <3>2
  <2>8. users'[v] = a + b + c + IF opt.packed THEN b ELSE 0
    BY <1>1 DEF Uses
  <2>9. a \in Nat /\ b \in Nat /\ c \in Nat
    BY <1>4
  <2>10. Cardinality(Owing(v)') = 0
    BY <2>1
  <2> HIDE DEF a, b, c, z
  <2>11. users'[v] = 0 + z + a + b + c
    BY <2>7, <2>8, <2>9
  <2> QED
    BY <2>6, <2>10, <2>11 DEF z
<1>10. ASSUME NEW v \in View PROVE data[v] # "freed" /\ (data[v] = "decoded" => opt.registry)
  <2>1. users[v] = 0
    BY <1>0, <1>1 DEF PassInv
  <2> QED
    BY <1>0, <1>2, <2>1, IdleViews
<1>11. \A v \in View : /\ v \notin Good => data'[v] = "null"
                       /\ heap'[v] = IF data'[v] = "decoded" THEN 1 ELSE 0
                       /\ data'[v] # "freed"
                       /\ data'[v] = "decoded" /\ ~opt.registry => users'[v] # 0
  BY <1>0, <1>1, <1>10 DEF DataInv
<1> QED
  BY <1>1, <1>2, <1>7, <1>8, <1>9, <1>11, IdleStep

\* The end of a pass, the output storage, and what comes after the passes.
LEMMA BetweenStep ==
  ASSUME ViewsInv, Idle, UNCHANGED <<threadVars, opt, kept, data, heap, users>>, Shape',
         pass \notin {"cap", "failed"},
         \/ pass \notin {"scan", "reserve", "fill"} /\ pass' \notin {"cap", "scan", "reserve", "fill", "adopt"}
         \/ pass = "scan" /\ next > Len(kept) /\ pass' = (IF opt.registry THEN "adopt" ELSE "reserve")
         \/ pass = "reserve" /\ pass' \in {"reserve", "failed"}
         \/ pass = "reserve" /\ pass' = "fill" /\ next' = 1
         \/ pass = "fill" /\ next > Len(kept) /\ pass' \in {"failed", "loaded"},
         pass' = "adopt" => opt.registry,
         pass' \in {"build", "loaded", "split", "uploaded"} => ~opt.registry,
         pass' \in {"register", "registered"} => \A v \in View : data[v] = "null"
  PROVE  ViewsInv'
<1>0. Shape /\ PassInv /\ JobInv /\ CountInv /\ FreeInv /\ DoneInv /\ DataInv
  BY DEF ViewsInv
<1>1. Len(kept) \in Nat /\ next \in Nat
  BY <1>0, LenProperties DEF Shape
<1>2. PassInv'
  <2>1. Generated' = Generated
    BY DEF Generated
  <2> QED
    BY <1>0, <2>1 DEF PassInv
<1>3. CountInv'
  <2>1. CASE pass' = "failed" \/ opt.registry
    BY <2>1 DEF CountInv
  <2>2. CASE pass' # "failed" /\ ~opt.registry
    <3>1. \/ ScanFrom' = ScanFrom
          \/ ScanFrom > Len(kept) /\ ScanFrom' > Len(kept)
      BY <1>1, <2>2 DEF ScanFrom
    <3>2. \/ FillFrom' = FillFrom
          \/ FillFrom > Len(kept) /\ FillFrom' > Len(kept)
      BY <1>1, <2>2 DEF FillFrom
    <3>3. ScanFrom \in Nat /\ FillFrom \in Nat
      BY <1>0, FromType
    <3>4. ScanFrom' \in Nat /\ FillFrom' \in Nat
      <4>1. next' \in Nat /\ Len(kept') \in Nat
        BY <1>1 DEF Shape
      <4> QED
        BY <4>1 DEF ScanFrom, FillFrom
    <3>5. \A accessor, v : /\ Untaken(ScanFrom', accessor, v) = Untaken(ScanFrom, accessor, v)
                           /\ Untaken(FillFrom', accessor, v) = Untaken(FillFrom, accessor, v)
      BY <1>0, <3>1, <3>2, <3>3, <3>4, AllTaken
    <3> QED
      BY <1>0, <3>5, CountMoves
  <2> QED
    BY <2>1, <2>2
<1> QED
  BY <1>2, <1>3, IdleQuietStep

LEMMA AdoptStep ==
  ASSUME ViewsInv, Adopt
  PROVE  ViewsInv'
<1>0. Shape /\ PassInv /\ JobInv /\ CountInv /\ FreeInv /\ DoneInv /\ DataInv
  BY DEF ViewsInv
<1>1. /\ pass = "adopt" /\ pass' = "register"
      /\ data' = [v \in View |-> IF heap[v] = 1 THEN "null" ELSE data[v]]
      /\ heap' = [v \in View |-> 0]
      /\ UNCHANGED <<threadVars, opt, kept, next, users>>
  BY DEF Adopt, planVars
<1>2. Idle
  BY <1>0, <1>1 DEF JobInv, Idle
<1>3. ASSUME NEW v \in View PROVE data'[v] = "null" /\ heap'[v] = 0
  <2>1. data[v] \in {"null", "decoded", "freed"} /\ data[v] # "freed"
    BY <1>0, <1>2, IdleViews DEF Shape
  <2>2. heap[v] = IF data[v] = "decoded" THEN 1 ELSE 0
    BY <1>0 DEF DataInv
  <2> QED
    BY <1>1, <2>1, <2>2
<1>4. data' \in [View -> {"null", "decoded", "freed"}] /\ heap' \in [View -> {0, 1}]
  <2>1. data' = [v \in View |-> data'[v]]
    BY <1>1
  <2> QED
    BY <1>1, <1>3, <2>1
<1>5. Shape'
  BY <1>0, <1>1, <1>4 DEF Shape, threadVars
<1>6. opt.registry
  BY <1>0, <1>1 DEF PassInv
<1>7. PassInv'
  <2>1. Generated' = Generated
    BY <1>1 DEF Generated
  <2> QED
    BY <1>0, <1>1, <1>3, <2>1 DEF PassInv
<1>8. CountInv'
  BY <1>1, <1>6 DEF CountInv
<1>9. \A v \in View : /\ v \notin Good => data'[v] = "null"
                      /\ heap'[v] = IF data'[v] = "decoded" THEN 1 ELSE 0
                      /\ data'[v] # "freed"
                      /\ data'[v] = "decoded" /\ ~opt.registry => users'[v] # 0
  BY <1>3
<1> QED
  BY <1>1, <1>2, <1>5, <1>7, <1>8, <1>9, IdleStep

\* What the main thread does.
LEMMA MainStep ==
  ASSUME ViewsInv, Main
  PROVE  ViewsInv'
<1>0. Shape /\ PassInv /\ JobInv /\ CountInv /\ FreeInv /\ DoneInv /\ DataInv
  BY DEF ViewsInv
<1>1. CASE Cap
  BY <1>1, CapStep
<1>2. CASE CountUses
  BY <1>2, CountUsesStep
<1>3. CASE Adopt
  BY <1>3, AdoptStep
<1>4. CASE Reserve \/ Allocate \/ EndPass \/ Register \/ Finalize \/ AddMesh \/ Repeat \/ Split \/ Upload
  <2>1. /\ UNCHANGED <<threadVars, opt, kept, data, heap, users>>
        /\ Idle
    <3>1. CASE EndPass
      BY <3>1 DEF EndPass, planVars, viewVars, Idle
    <3>2. CASE Reserve
      BY <1>0, <3>2 DEF Reserve, planVars, viewVars, Idle, JobInv
    <3>3. CASE Allocate
      BY <1>0, <3>3 DEF Allocate, planVars, viewVars, Idle, JobInv
    <3>4. CASE Register
      BY <1>0, <3>4 DEF Register, planVars, viewVars, Idle, JobInv
    <3>5. CASE Finalize
      BY <1>0, <3>5 DEF Finalize, planVars, viewVars, Idle, JobInv
    <3>6. CASE AddMesh
      BY <1>0, <3>6 DEF AddMesh, planVars, viewVars, Idle, JobInv
    <3>7. CASE Repeat
      BY <1>0, <3>7 DEF Repeat, planVars, viewVars, Idle, JobInv
    <3>8. CASE Split
      BY <1>0, <3>8 DEF Split, planVars, viewVars, Idle, JobInv
    <3>9. CASE Upload
      BY <1>0, <3>9 DEF Upload, planVars, viewVars, Idle, JobInv
    <3> QED
      BY <1>4, <3>1, <3>2, <3>3, <3>4, <3>5, <3>6, <3>7, <3>8, <3>9
  <2>2. \/ pass = "reserve" /\ pass' = "reserve" /\ next' = next + 1
        \/ pass = "reserve" /\ pass' \in {"failed", "fill"} /\ next' = 1
        \/ pass = "scan" /\ next > Len(kept) /\ pass' = (IF opt.registry THEN "adopt" ELSE "reserve") /\ next' = 1
        \/ pass = "fill" /\ next > Len(kept) /\ pass' \in {"failed", "loaded"} /\ next' = 1
        \/ pass = "register" /\ pass' \in {"register", "registered"} /\ next' \in {next, next + 1}
        \/ pass = "build" /\ pass' \in {"build", "loaded"} /\ next' = next + 1
        \/ pass = "loaded" /\ pass' = "split" /\ next' = 1
        \/ pass = "split" /\ pass' \in {"split", "uploaded", "failed"} /\ next' \in {next, next + 1}
    <3>1. CASE Reserve
      BY <3>1 DEF Reserve
    <3>2. CASE Allocate
      BY <3>2 DEF Allocate
    <3>3. CASE EndPass
      BY <3>3 DEF EndPass
    <3>4. CASE Register
      BY <3>4 DEF Register
    <3>5. CASE Finalize
      BY <3>5 DEF Finalize
    <3>6. CASE AddMesh
      BY <3>6 DEF AddMesh
    <3>7. CASE Repeat
      BY <3>7 DEF Repeat
    <3>8. CASE Split
      BY <3>8 DEF Split
    <3>9. CASE Upload
      BY <3>9 DEF Upload
    <3> QED
      BY <1>4, <3>1, <3>2, <3>3, <3>4, <3>5, <3>6, <3>7, <3>8, <3>9
  <2>3. next' \in Nat \ {0}
    BY <1>0, <2>2 DEF Shape
  <2>4. pass' \in {"cap", "scan", "reserve", "fill", "adopt", "register", "registered",
                   "build", "loaded", "split", "uploaded", "failed"}
    BY <2>2
  <2>5. Shape'
    BY <1>0, <2>1, <2>3, <2>4 DEF Shape, threadVars
  <2>6. /\ pass \notin {"cap", "failed"}
        /\ \/ pass \notin {"scan", "reserve", "fill"} /\ pass' \notin {"cap", "scan", "reserve", "fill", "adopt"}
           \/ pass = "scan" /\ next > Len(kept) /\ pass' = (IF opt.registry THEN "adopt" ELSE "reserve")
           \/ pass = "reserve" /\ pass' \in {"reserve", "failed"}
           \/ pass = "reserve" /\ pass' = "fill" /\ next' = 1
           \/ pass = "fill" /\ next > Len(kept) /\ pass' \in {"failed", "loaded"}
    BY <2>2
  <2>7. /\ pass' = "adopt" => opt.registry
        /\ pass' \in {"build", "loaded", "split", "uploaded"} => ~opt.registry
        /\ pass' \in {"register", "registered"} => \A v \in View : data[v] = "null"
    BY <1>0, <2>2 DEF PassInv
  <2> QED
    BY <2>1, <2>5, <2>6, <2>7, BetweenStep
<1> QED
  BY <1>1, <1>2, <1>3, <1>4 DEF Main

-----------------------------------------------------------------------------
(* The views: theorems.                                                    *)

LEMMA InitViewsInv ==
  ASSUME Init
  PROVE  ViewsInv
<1>1. /\ data = [v \in View |-> "null"] /\ heap = [v \in View |-> 0]
      /\ users = [v \in View |-> 0] /\ opt \in Options /\ next = 1 /\ kept = <<>>
      /\ job = [t \in Thread |-> <<>>] /\ at = [t \in Thread |-> 1]
      /\ sub = [t \in Thread |-> "start"]
      /\ pass = IF opt.generated = <<>> THEN "cap" ELSE IF opt.registry THEN "register" ELSE "build"
  BY DEF Init, InitViews
<1>2. Shape
  <2>1. kept \in Seq(DOMAIN Plans)
    BY <1>1
  <2>2. job = [t \in Thread |-> job[t]]
    BY <1>1
  <2> QED
    BY <1>1, <2>1, <2>2 DEF Shape
<1>3. PassInv
  BY <1>1 DEF PassInv, Generated
<1>4. JobInv
  BY <1>1 DEF JobInv
<1>5. CountInv
  <2>1. CASE pass = "cap"
    BY <2>1 DEF CountInv
  <2>2. CASE pass # "cap"
    <3> SUFFICES ASSUME ~opt.registry, NEW v \in View
                 PROVE  users[v] = Cardinality(Owing(v)) + Cardinality(Untaken(ScanFrom, "idx", v))
                          + Cardinality(Untaken(FillFrom, "pos", v))
                          + Cardinality(Untaken(FillFrom, "idx", v))
                          + Cardinality(Untaken(FillFrom, "uv", v))
      BY DEF CountInv
    <3>1. Len(kept) = 0
      BY <1>1
    <3>2. ScanFrom = 1 /\ FillFrom = 1
      BY <1>1, <2>2, <3>1 DEF ScanFrom, FillFrom
    <3>3. \A accessor : Untaken(1, accessor, v) = {}
      BY <1>2, <3>1, AllTaken
    <3>4. Owing(v) = {}
      BY <1>1 DEF Owing, Owes
    <3>5. Cardinality({}) = 0
      BY FS_EmptySet
    <3>6. users[v] = 0
      BY <1>1
    <3>7. users[v] = Cardinality({}) + Cardinality({}) + Cardinality({}) + Cardinality({}) + Cardinality({})
      BY <3>5, <3>6
    <3> QED
      BY <3>2, <3>3, <3>4, <3>7
  <2> QED
    BY <2>1, <2>2
<1>6. FreeInv
  BY <1>1 DEF FreeInv, Freeing
<1>7. DoneInv
  BY <1>1 DEF DoneInv
<1>8. DataInv
  BY <1>1 DEF DataInv
<1> QED
  BY <1>2, <1>3, <1>4, <1>5, <1>6, <1>7, <1>8 DEF ViewsInv

LEMMA NextViewsInv ==
  ASSUME ViewsInv, [Next]_vars
  PROVE  ViewsInv'
<1>1. CASE Main
  BY <1>1, MainStep
<1>2. ASSUME NEW t \in Thread, Take(t) PROVE ViewsInv'
  BY <1>2, TakeStep
<1>3. ASSUME NEW t \in Thread, Task(t), UNCHANGED <<pass, next, planVars, gpu>> PROVE ViewsInv'
  BY <1>3, TaskStep
<1>4. CASE UNCHANGED vars
  <2>1. UNCHANGED <<pass, next, opt, kept, data, heap, users, job, at, sub>>
    BY <1>4 DEF vars, viewVars, threadVars, planVars
  <2>2. /\ Generated' = Generated /\ ScanFrom' = ScanFrom /\ FillFrom' = FillFrom
        /\ \A t : V(t)' = V(t) /\ Op(t)' = Op(t) /\ (Freeing(t)' <=> Freeing(t))
    BY <2>1 DEF Generated, ScanFrom, FillFrom, V, Op, Freeing
  <2>3. Shape' <=> Shape
    BY <2>1 DEF Shape
  <2>4. PassInv' <=> PassInv
    BY <2>1, <2>2 DEF PassInv
  <2>5. JobInv => JobInv'
    <3> SUFFICES ASSUME JobInv, NEW r \in Thread
                 PROVE  /\ job'[r] # <<>> => /\ pass' \in {"scan", "fill"}
                                             /\ WellFormed(job[r])'
                                             /\ at'[r] <= Len(job'[r]) + 1
                        /\ sub'[r] # "start" =>
                             /\ job'[r] # <<>> /\ at'[r] <= Len(job'[r])
                             /\ sub'[r] \in {"lock", "decode"} => Op(r)' = "ensure" /\ V(r)' \in Compressed
                             /\ sub'[r] = "store" => Op(r)' = "indices"
                             /\ sub'[r] \in {"free", "clear"} => Op(r)' = "drop"
      BY DEF JobInv
    <3>1. \A s : WellFormed(s)' = WellFormed(s)
      BY <2>1, PlanKept
    <3>2. ASSUME job[r] # <<>> PROVE WellFormed(job[r])'
      <4>1. WellFormed(job[r])
        BY <3>2 DEF JobInv
      <4>2. \A x : x = job'[r] => WellFormed(x)'
        BY <2>1, <3>1, <4>1
      <4> QED
        BY <4>2
    <3> QED
      BY <2>1, <2>2, <3>2 DEF JobInv
  <2>6. CountInv => CountInv'
    <3>1. ASSUME Shape, CountInv PROVE CountInv'
      <4>1. \A v : Owing(v)' = Owing(v)
        BY <2>1 DEF Owing, Owes
      <4> QED
        BY <2>1, <3>1, <4>1, CountKept DEF SamePlan
    <3> QED
      BY <3>1 DEF ViewsInv
  <2>7. (FreeInv' <=> FreeInv) /\ (DoneInv' <=> DoneInv) /\ (DataInv' <=> DataInv)
    BY <2>1, <2>2 DEF FreeInv, DoneInv, DataInv
  <2> QED
    BY <2>3, <2>4, <2>5, <2>6, <2>7 DEF ViewsInv
<1> QED
  BY <1>1, <1>2, <1>3, <1>4 DEF Next, Work

\* A count is exact at every moment of every load: a view's users are the drops of
\* it that are still to come, whatever order the tasks run in.
THEOREM CountsAreExact == Spec => []ViewsInv
<1>1. Init => ViewsInv
  BY InitViewsInv
<1>2. ViewsInv /\ [Next]_vars => ViewsInv'
  BY NextViewsInv
<1> QED
  BY <1>1, <1>2, PTL DEF Spec

\* So nobody reads bytes that are not decoded: what a task ensured is there until
\* it drops it.
LEMMA ReadersFindBytes ==
  ASSUME ViewsInv
  PROVE  ReadsDecoded
<1>0. Shape /\ JobInv /\ CountInv /\ DoneInv
  BY DEF ViewsInv
<1> SUFFICES ASSUME NEW t \in Thread, NEW v \in Good, Reading(t, v)
             PROVE  data[v] = "decoded"
  BY DEF ReadsDecoded, Good
<1>1. Busy(t) /\ Op(t) \in Reads /\ V(t) = v
  BY DEF Reading
<1>2. Op(t) # "drop" /\ Op(t) # "ensure"
  BY <1>1 DEF Reads
<1>3. StepOK(job[t], at[t]) /\ job[t] # <<>> /\ at[t] \in 1..Len(job[t])
  BY <1>0, <1>1, StepType
<1>4. PICK j \in 1..(at[t] - 1) : job[t][j][1] = "ensure" /\ job[t][j][2] = v
  BY <1>1, <1>2, <1>3 DEF StepOK, Op, V
<1>5. opt.registry \/ users[v] # 0
  BY <1>0, <1>1, <1>2, InUse
<1> QED
  BY <1>0, <1>3, <1>4, <1>5 DEF DoneInv

\* No thread reads a view that another has given back (ReadsDecoded), for every
\* file, cap, set of options and number of threads.
THEOREM NobodyReadsFreedBytes == Spec => []ReadsDecoded
<1>1. ViewsInv => ReadsDecoded
  BY ReadersFindBytes
<1> QED
  BY <1>1, CountsAreExact, PTL

LEMMA NoneLeftNow ==
  ASSUME ViewsInv
  PROVE  NoneLeft
<1>0. Shape /\ PassInv /\ JobInv /\ CountInv /\ DataInv
  BY DEF ViewsInv
<1> SUFFICES ASSUME pass \in {"loaded", "split", "uploaded", "registered"}, NEW v \in View
             PROVE  data[v] = "null" /\ heap[v] = 0
  BY DEF NoneLeft, Freed
<1>1. Idle
  BY <1>0 DEF JobInv, Idle
<1>2. Owing(v) = {} /\ data[v] # "freed" /\ (data[v] = "decoded" /\ ~opt.registry => users[v] # 0)
  BY <1>0, <1>1, IdleViews
<1>3. data[v] # "decoded"
  <2>1. CASE pass = "registered"
    BY <1>0, <2>1 DEF PassInv
  <2>2. CASE pass # "registered"
    <3>1. ~opt.registry
      BY <1>0, <2>2 DEF PassInv
    <3>2. ScanFrom = Len(kept) + 1 /\ FillFrom = Len(kept) + 1 /\ Len(kept) \in Nat
      BY <1>0, <2>2, LenProperties DEF ScanFrom, FillFrom, Shape
    <3>3. \A accessor : Untaken(Len(kept) + 1, accessor, v) = {}
      BY <1>0, <3>2, AllTaken
    <3>4. users[v] = Cardinality({}) + Cardinality({}) + Cardinality({}) + Cardinality({}) + Cardinality({})
      <4>1. users[v] = Cardinality(Owing(v)) + Cardinality(Untaken(ScanFrom, "idx", v))
                         + Cardinality(Untaken(FillFrom, "pos", v))
                         + Cardinality(Untaken(FillFrom, "idx", v))
                         + Cardinality(Untaken(FillFrom, "uv", v))
        BY <1>0, <2>2, <3>1 DEF CountInv
      <4>2. Untaken(ScanFrom, "idx", v) = {} /\ Untaken(FillFrom, "pos", v) = {}
            /\ Untaken(FillFrom, "idx", v) = {} /\ Untaken(FillFrom, "uv", v) = {}
        BY <3>2, <3>3
      <4> QED
        BY <1>2, <4>1, <4>2
    <3>5. Cardinality({}) = 0
      BY FS_EmptySet
    <3>6. users[v] = 0
      BY <3>4, <3>5
    <3> QED
      BY <1>2, <3>1, <3>6
  <2> QED
    BY <2>1, <2>2
<1>4. data[v] \in {"null", "decoded", "freed"} /\ heap[v] = IF data[v] = "decoded" THEN 1 ELSE 0
  BY <1>0 DEF Shape, DataInv
<1> QED
  BY <1>2, <1>3, <1>4

\* A load that is not given up leaves no decoded block behind, whichever task made
\* the last drop of it.
THEOREM NothingIsLeft == Spec => []NoneLeft
<1>1. ViewsInv => NoneLeft
  BY NoneLeftNow
<1> QED
  BY <1>1, CountsAreExact, PTL

-----------------------------------------------------------------------------
(* Decoded once.                                                           *)

\* The stage of a view, the heap left out.
StageAt(v) == IF opt.registry \/ v \notin Good THEN "raw"
              ELSE IF data[v] = "decoded" THEN "decoded"
              ELSE IF Counted /\ users[v] = 0 /\ Uses(v) # 0 THEN "gone"
              ELSE "absent"
StageInv == Stage = [v \in View |-> StageAt(v)]

LEMMA StageIsStageAt ==
  ASSUME ViewsInv
  PROVE  StageInv
<1>1. \A v \in View : heap[v] = IF data[v] = "decoded" THEN 1 ELSE 0
  BY DEF ViewsInv, DataInv
<1> QED
  BY <1>1 DEF StageInv, Stage, StageAt, Good

LEMMA StageKept ==
  ASSUME UNCHANGED <<opt, kept, data, users>>, pass = "cap" <=> pass' = "cap"
  PROVE  \A v : StageAt(v)' = StageAt(v)
<1>1. Generated' = Generated /\ \A v : Uses(v)' = Uses(v)
  BY PlanKept
<1>2. Counted' = Counted
  BY <1>1 DEF Counted
<1> QED
  BY <1>1, <1>2 DEF StageAt

\* What a step of the main thread does to the stages: nothing.
LEMMA MainStages ==
  ASSUME ViewsInv, Main, NEW v \in View
  PROVE  StageAt(v)' = StageAt(v)
<1>0. Shape /\ PassInv /\ JobInv /\ DataInv
  BY DEF ViewsInv
<1>1. CASE Cap
  <2>1. pass = "cap" /\ UNCHANGED <<pass, opt, data, users>>
    BY <1>1 DEF Cap, viewVars
  <2>2. ~Counted /\ ~Counted'
    BY <2>1 DEF Counted
  <2> QED
    BY <2>1, <2>2 DEF StageAt
<1>2. CASE CountUses
  <2>1. /\ pass = "cap" /\ UNCHANGED <<opt, kept, data>>
        /\ ~opt.registry => users' = [u \in View |-> Uses(u)]
    BY <1>2 DEF CountUses, planVars
  <2>2. ASSUME ~opt.registry, v \in Good PROVE StageAt(v)' = "absent" /\ StageAt(v) = "absent"
    <3>1. users[v] = 0 /\ Idle
      BY <1>0, <2>1 DEF PassInv, Idle, JobInv
    <3>2. data[v] # "decoded" /\ data'[v] # "decoded"
      BY <1>0, <2>1, <2>2, <3>1, IdleViews
    <3>3. users'[v] = Uses(v) /\ Uses(v)' = Uses(v)
      BY <2>1, <2>2, PlanKept
    <3>4. ~Counted
      BY <2>1 DEF Counted
    <3> QED
      BY <2>1, <2>2, <3>2, <3>3, <3>4 DEF StageAt
  <2>3. CASE opt.registry \/ v \notin Good
    BY <2>1, <2>3 DEF StageAt
  <2> QED
    BY <2>2, <2>3
<1>3. CASE Adopt
  <2>1. opt' = opt /\ opt.registry
    BY <1>0, <1>3 DEF Adopt, PassInv, planVars
  <2> QED
    BY <2>1 DEF StageAt
<1>4. CASE Reserve \/ Allocate
  BY <1>4, StageKept DEF Reserve, Allocate, planVars, viewVars
<1>5. CASE EndPass
  BY <1>5, StageKept DEF EndPass, planVars, viewVars
<1>6. CASE Register
  BY <1>6, StageKept DEF Register, viewVars
<1>7. CASE Finalize
  BY <1>7, StageKept DEF Finalize, planVars, viewVars
<1>8. CASE AddMesh
  BY <1>8, StageKept DEF AddMesh, viewVars
<1>9. CASE Repeat
  BY <1>9, StageKept DEF Repeat, viewVars
<1>10. CASE Split
  BY <1>10, StageKept DEF Split, planVars, viewVars
<1>11. CASE Upload
  BY <1>11, StageKept DEF Upload, planVars, viewVars
<1> QED
  BY <1>1, <1>2, <1>3, <1>4, <1>5, <1>6, <1>7, <1>8, <1>9, <1>10, <1>11 DEF Main

\* What a step of a task does to them: at most one view is decoded, or given back
\* by its last user while nobody reads it.
LEMMA TaskStages ==
  ASSUME ViewsInv, NEW t \in Thread, Task(t), UNCHANGED <<pass, next, planVars, gpu>>
  PROVE  \/ \A v \in View : StageAt(v)' = StageAt(v)
         \/ \E w \in View :
              /\ \A v \in View : v # w => StageAt(v)' = StageAt(v)
              /\ \/ StageAt(w) = "absent" /\ StageAt(w)' = "decoded"
                 \/ /\ StageAt(w) = "decoded" /\ StageAt(w)' = "gone"
                    /\ Readers[w] = {}
<1>0. Shape /\ PassInv /\ JobInv /\ CountInv /\ FreeInv /\ DoneInv /\ DataInv
  BY DEF ViewsInv
<1>1. UNCHANGED <<opt, kept, pass>>
  BY DEF planVars
<1>2. Generated' = Generated /\ Counted' = Counted /\ \A v : Uses(v)' = Uses(v)
  BY <1>1, PlanKept DEF Counted
<1>3. CASE UNCHANGED <<data, users>>
  BY <1>1, <1>3, StageKept
<1>9. Busy(t) => V(t) \in View
  BY <1>0, StepType
<1>4. CASE Decode(t) /\ ~(UNCHANGED <<data, users>>)
  <2>0. PICK w \in View : w = V(t)
    BY <1>9, <1>4 DEF Decode, Doing
  <2>1. /\ Busy(t) /\ Op(t) = "ensure" /\ sub[t] = "decode" /\ users' = users
        /\ data[w] = "null" /\ w \notin Broken /\ data' = [data EXCEPT ![w] = "decoded"]
    BY <1>4, <2>0 DEF Decode, Doing
  <2>2. w \in View /\ w \in Compressed
    BY <1>0, <2>0, <2>1 DEF JobInv
  <2>3. data'[w] = "decoded" /\ \A v \in View : v # w => data'[v] = data[v]
    BY <1>0, <2>1, <2>2 DEF Shape
  <2>4. \A v \in View : v # w => StageAt(v)' = StageAt(v)
    BY <1>1, <1>2, <2>1, <2>3 DEF StageAt
  <2>5. CASE opt.registry
    BY <1>1, <2>5 DEF StageAt
  <2>6. CASE ~opt.registry
    <3>1. users[w] # 0
      BY <1>0, <2>0, <2>1, <2>6, InUse
    <3>2. w \in Good
      BY <2>1, <2>2 DEF Good
    <3>3. StageAt(w) = "absent" /\ StageAt(w)' = "decoded"
      BY <1>1, <2>1, <2>3, <2>6, <3>1, <3>2 DEF StageAt
    <3> QED
      BY <2>2, <2>4, <3>3
  <2> QED
    BY <2>5, <2>6
<1>5. CASE Drop(t)
  <2>0. PICK w \in View : w = V(t)
    BY <1>9, <1>5 DEF Drop, Doing
  <2>1. /\ Busy(t) /\ Op(t) = "drop" /\ sub[t] = "start" /\ data' = data
        /\ users' = [users EXCEPT ![w] = @ - 1]
    BY <1>5, <2>0 DEF Drop, Doing
  <2>2. w \in Good => data[w] = "decoded"
    BY <1>0, <2>0, <2>1, DroppedIsDecoded
  <2>3. \A v \in View : v # w => users'[v] = users[v]
    BY <1>0, <2>1 DEF Shape
  <2>4. \A v \in View : v # w => StageAt(v)' = StageAt(v)
    BY <1>1, <1>2, <2>1, <2>3 DEF StageAt
  <2>5. StageAt(w)' = StageAt(w)
    BY <1>1, <2>1, <2>2 DEF StageAt
  <2> QED
    BY <2>4, <2>5
<1>6. CASE Free(t) /\ ~(UNCHANGED <<data, users>>)
  <2>0. PICK w \in View : w = V(t)
    BY <1>9, <1>6 DEF Free, Doing
  <2>1. /\ Busy(t) /\ Op(t) = "drop" /\ sub[t] = "free" /\ users' = users
        /\ data[w] # "null" /\ w \in Compressed /\ data' = [data EXCEPT ![w] = "freed"]
    BY <1>6, <2>0 DEF Free, Doing
  <2>2. w \in View /\ StepOK(job[t], at[t]) /\ pass \in {"scan", "fill"} /\ Freeing(t)
    BY <1>0, <2>0, <2>1, StepType DEF Freeing
  <2>3. ~opt.registry /\ Uses(w) # 0 /\ users[w] = 0
    BY <1>0, <2>0, <2>1, <2>2 DEF StepOK, Op, V, FreeInv
  <2>4. data'[w] = "freed" /\ \A v \in View : v # w => data'[v] = data[v]
    BY <1>0, <2>1, <2>2 DEF Shape
  <2>5. \A v \in View : v # w => StageAt(v)' = StageAt(v)
    BY <1>1, <1>2, <2>1, <2>4 DEF StageAt
  <2>6. w \in Good
    BY <1>0, <2>1, <2>2 DEF DataInv
  <2>7. data[w] = "decoded"
    <3>1. data[w] # "freed"
      <4> SUFFICES ASSUME data[w] = "freed" PROVE FALSE
        OBVIOUS
      <4>1. PICK s \in Thread : Freeing(s) /\ sub[s] = "clear" /\ V(s) = w
        BY <1>0, <2>2 DEF DataInv
      <4>2. s = t
        BY <1>0, <2>0, <2>2, <4>1 DEF FreeInv
      <4> QED
        BY <2>1, <4>1, <4>2
    <3> QED
      BY <1>0, <2>1, <2>2, <3>1 DEF Shape
  <2>8. Counted
    BY <1>0, <2>2 DEF Counted, PassInv
  <2>9. StageAt(w) = "decoded"
    BY <2>3, <2>6, <2>7 DEF StageAt
  <2>10. StageAt(w)' = "gone"
    BY <1>1, <1>2, <2>1, <2>3, <2>4, <2>6, <2>8 DEF StageAt
  <2>11. Readers[w] = {}
    <3>1. ASSUME NEW s \in Thread, Reading(s, w) PROVE FALSE
      <4>1. Busy(s) /\ Op(s) # "drop" /\ V(s) = w
        BY <3>1 DEF Reading, Reads
      <4>2. users[V(s)] # 0
        BY <1>0, <2>3, <4>1, InUse
      <4> QED
        BY <2>3, <4>1, <4>2
    <3> QED
      BY <2>2, <3>1 DEF Readers
  <2> QED
    BY <2>5, <2>9, <2>10, <2>11
<1>7. CASE Clear(t)
  <2>0. PICK w \in View : w = V(t)
    BY <1>9, <1>7 DEF Clear, Doing
  <2>1. /\ Busy(t) /\ Op(t) = "drop" /\ sub[t] = "clear" /\ users' = users
        /\ data' = [data EXCEPT ![w] = "null"] /\ data[w] = "freed"
    BY <1>0, <1>7, <2>0 DEF Clear, Doing, FreeInv
  <2>2. \A v \in View : (data'[v] = "decoded" <=> data[v] = "decoded")
    BY <1>0, <2>1 DEF Shape
  <2> QED
    BY <1>1, <1>2, <2>1, <2>2 DEF StageAt
<1>8. CASE Check(t) \/ Lock(t) \/ Read(t) \/ Return(t) \/ CopyPositions(t) \/ CopyUvs(t)
           \/ LoadWords(t) \/ StoreWords(t)
  <2>1. UNCHANGED <<data, users>>
    BY <1>8 DEF Check, Lock, Read, Return, CopyPositions, CopyUvs, LoadWords, StoreWords, viewVars
  <2> QED
    BY <1>3, <2>1
<1> QED
  BY <1>3, <1>4, <1>5, <1>6, <1>7, <1>8 DEF Task

LEMMA NextStages ==
  ASSUME ViewsInv, [Next]_vars
  PROVE  \/ \A v \in View : StageAt(v)' = StageAt(v)
         \/ \E w \in View :
              /\ \A v \in View : v # w => StageAt(v)' = StageAt(v)
              /\ \/ StageAt(w) = "absent" /\ StageAt(w)' = "decoded"
                 \/ /\ StageAt(w) = "decoded" /\ StageAt(w)' = "gone"
                    /\ Readers[w] = {}
<1>1. CASE Main
  BY <1>1, MainStages
<1>2. CASE UNCHANGED vars
  BY <1>2, StageKept DEF vars, viewVars, planVars
<1>3. ASSUME NEW t \in Thread, Take(t) PROVE \A v \in View : StageAt(v)' = StageAt(v)
  BY <1>3, StageKept DEF Take, viewVars, planVars
<1>4. CASE \E t \in Thread : Work(t)
  <2>1. PICK t \in Thread : Work(t)
    BY <1>4
  <2>2. CASE Take(t)
    BY <1>3, <2>2
  <2>3. CASE Task(t) /\ UNCHANGED <<pass, next, planVars, gpu>>
    BY <2>3, TaskStages
  <2> QED
    BY <2>1, <2>2, <2>3 DEF Work
<1> QED
  BY <1>1, <1>2, <1>4 DEF Next

\* The views implement DecodeOnce: every step decodes one absent view, gives back
\* one that nobody reads, or leaves the stages alone while readers come and go.
THEOREM ImplementsDecodeOnce == Spec => DecodedOnce
<1>1. Init => Once!Init
  <2> SUFFICES ASSUME Init PROVE Once!Init
    OBVIOUS
  <2>1. data = [v \in View |-> "null"] /\ job = [t \in Thread |-> <<>>]
    BY DEF Init, InitViews
  <2>2. Stage \in [View -> {"raw", "absent", "gone"}]
    BY <2>1 DEF Stage
  <2>3. Readers = [v \in View |-> {}]
    BY <2>1 DEF Readers, Reading, Busy
  <2> QED
    BY <2>2, <2>3 DEF Once!Init
<1>2. ViewsInv /\ StageInv /\ StageInv' /\ ReadsDecoded' /\ [Next]_vars => [Once!Next]_(Once!vars)
  <2> SUFFICES ASSUME ViewsInv, StageInv, StageInv', ReadsDecoded', [Next]_vars
               PROVE  Once!Next
    OBVIOUS
  <2>1. Stage = [v \in View |-> StageAt(v)] /\ Stage' = [v \in View |-> StageAt(v)']
    BY DEF StageInv
  <2>2. Once!ReadersMove
    <3>1. Readers' = [v \in View |-> {t \in Thread : Reading(t, v)'}]
      BY DEF Readers
    <3>2. ASSUME NEW v \in View, Readers'[v] # {} PROVE Stage'[v] \in {"raw", "decoded"}
      <4>1. PICK t \in Thread : Reading(t, v)'
        BY <3>1, <3>2
      <4>2. CASE v \in Good
        <5>1. data'[v] = "decoded"
          BY <4>1, <4>2 DEF ReadsDecoded, Good
        <5>2. StageAt(v)' \in {"raw", "decoded"}
          BY <5>1 DEF StageAt
        <5> QED
          BY <2>1, <5>2
      <4>3. CASE v \notin Good
        <5>1. StageAt(v)' = "raw"
          BY <4>3 DEF StageAt
        <5> QED
          BY <2>1, <5>1
      <4> QED
        BY <4>2, <4>3
    <3>3. Readers' \in [View -> SUBSET Thread]
      BY <3>1
    <3> QED
      BY <3>2, <3>3 DEF Once!ReadersMove
  <2>3. CASE \A v \in View : StageAt(v)' = StageAt(v)
    <3>1. Stage' = Stage
      BY <2>1, <2>3
    <3> QED
      BY <2>2, <3>1 DEF Once!Next
  <2>4. ASSUME NEW w \in View, \A v \in View : v # w => StageAt(v)' = StageAt(v),
               \/ StageAt(w) = "absent" /\ StageAt(w)' = "decoded"
               \/ StageAt(w) = "decoded" /\ StageAt(w)' = "gone" /\ Readers[w] = {}
        PROVE  Once!Decode(w) \/ Once!GiveBack(w)
    <3>1. Stage[w] = StageAt(w) /\ Stage' = [Stage EXCEPT ![w] = StageAt(w)']
      BY <2>1, <2>4
    <3> QED
      BY <2>4, <3>1 DEF Once!Decode, Once!GiveBack
  <2> QED
    BY <2>2, <2>3, <2>4, NextStages DEF Once!Next
<1>3. ViewsInv => ReadsDecoded /\ StageInv
  BY ReadersFindBytes, StageIsStageAt
<1> QED
  BY <1>1, <1>2, <1>3, CountsAreExact, PTL DEF Spec, DecodedOnce, Once!Spec

-----------------------------------------------------------------------------
(* Who writes which words.                                                 *)

\* A scan writes no indices; a fill writes those of its own primitive.
LEMMA IndicesOfSteps ==
  ASSUME Shape, PassInv, pass \in {"scan", "fill"}, NEW i \in 1..Len(kept),
         NEW k \in 1..Len(Steps(i)), Steps(i)[k][1] = "indices"
  PROVE  pass = "fill" /\ Steps(i)[k][3] = i
<1>1. CASE pass = "scan"
  <2> DEFINE S == ScanSteps(i)
             q == ReadAt(i)
  <2>1. Steps(i) = S
    BY <1>1 DEF Steps
  <2>2. /\ opt.registry => Len(S) = 2 * q
        /\ ~opt.registry => /\ Len(S) = 2 + q
                            /\ S[1] = <<"ensure", Part(i).idx>>
                            /\ S[2 + q] = <<"drop", Part(i).idx>>
        /\ q = 1 => S[1] = <<"ensure", Part(i).idx>> /\ S[2] = <<"read", Part(i).idx>>
    BY ScanShape
  <2>3. q \in {0, 1}
    BY DEF ReadAt
  <2> HIDE DEF S, q
  <2>4. /\ ~opt.registry => S[1][1] = "ensure" /\ S[2 + q][1] = "drop"
        /\ q = 1 => S[1][1] = "ensure" /\ S[2][1] = "read"
    BY <2>2
  <2>5. \/ opt.registry /\ q = 1 /\ k \in {1, 2}
        \/ ~opt.registry /\ (k = 1 \/ (q = 1 /\ k = 2) \/ k = 2 + q)
    <3>1. CASE opt.registry
      <4>1. k \in 1..(2 * q)
        BY <2>1, <2>2, <3>1
      <4> QED
        BY <2>3, <3>1, <4>1
    <3>2. CASE ~opt.registry
      <4>1. k \in 1..(2 + q)
        BY <2>1, <2>2, <3>2
      <4> QED
        BY <2>3, <3>2, <4>1
    <3> QED
      BY <3>1, <3>2
  <2>6. S[k][1] # "indices"
    BY <2>4, <2>5
  <2> QED
    BY <2>1, <2>6
<1>2. CASE pass = "fill"
  <2> DEFINE F == FillSteps(i)
             p == UvAt(i)
  <2>1. Steps(i) = F
    BY <1>2 DEF Steps
  <2>2. /\ Len(F) = 6 + p
        /\ F[1][1] = "ensure" /\ F[2][1] = "ensure" /\ F[3][1] = "positions"
        /\ p = 3 => F[4][1] = "ensure" /\ F[5][1] = "uvs" /\ F[6][1] = "drop"
        /\ F[4 + p][3] = i /\ F[5 + p][1] = "drop" /\ F[6 + p][1] = "drop"
    BY FillShape
  <2>3. p \in {0, 3}
    BY DEF UvAt
  <2> HIDE DEF F, p
  <2>4. k \in {1, 2, 3, 4 + p, 5 + p, 6 + p} \/ (p = 3 /\ k \in {4, 5, 6})
    BY <2>1, <2>2, <2>3
  <2>5. F[k][1] = "indices"
    BY <2>1
  <2>6. k = 4 + p
    BY <2>2, <2>4, <2>5
  <2> QED
    BY <1>2, <2>1, <2>2, <2>6
<1> QED
  BY <1>1, <1>2

LEMMA TakeNames ==
  ASSUME Shape, PassInv, JobInv, NameInv, NEW t \in Thread, Take(t)
  PROVE  NameInv'
<1>1. /\ pass \in {"scan", "fill"} /\ job[t] = <<>> /\ next <= Len(kept)
      /\ job' = [job EXCEPT ![t] = Steps(next)]
      /\ next' = next + 1 /\ UNCHANGED <<pass, opt, kept>>
  BY DEF Take, Begin, planVars
<1>2. next \in 1..Len(kept) /\ next \in Nat /\ Len(kept) \in Nat
  BY <1>1, LenProperties DEF Shape
<1> DEFINE s == Steps(next)
<1>3. \A k \in 1..Len(s) : s[k][1] = "indices" => pass = "fill" /\ s[k][3] = next
  BY <1>1, <1>2, IndicesOfSteps
<1>4. job' = [job EXCEPT ![t] = s]
  BY <1>1
<1> HIDE DEF s
<1>5. job'[t] = s /\ \A r \in Thread : r # t => job'[r] = job[r]
  BY <1>4 DEF Shape
<1>6. \A k : \A r \in Thread : r # t => (Fills(r, k)' <=> Fills(r, k))
  BY <1>5 DEF Fills
<1>7. ASSUME NEW k, Fills(t, k)' PROVE pass = "fill" /\ job'[t][k][3] = next
  BY <1>3, <1>5, <1>7 DEF Fills
<1>8. ASSUME NEW r \in Thread, NEW k \in 1..MaxSteps, Fills(r, k)'
      PROVE  /\ pass' = "fill" /\ job'[r][k][3] \in 1..Len(kept') /\ job'[r][k][3] < next'
             /\ r # t => job'[r][k][3] < next
  <2>1. CASE r = t
    BY <1>1, <1>2, <1>7, <1>8, <2>1
  <2>2. CASE r # t
    <3>1. pass = "fill" /\ job[r][k][3] \in 1..Len(kept) /\ job[r][k][3] < next
      BY <1>6, <1>8, <2>2 DEF NameInv
    <3> QED
      BY <1>1, <1>2, <1>5, <2>2, <3>1
  <2> QED
    BY <2>1, <2>2
<1>9. ASSUME NEW r \in Thread, NEW u \in Thread, NEW k \in 1..MaxSteps, NEW l \in 1..MaxSteps,
             r # u, Fills(r, k)', Fills(u, l)'
      PROVE  job'[r][k][3] # job'[u][l][3]
  <2>1. CASE r = t
    <3>1. job'[r][k][3] = next /\ job'[u][l][3] < next /\ job'[u][l][3] \in 1..Len(kept')
      BY <1>7, <1>8, <1>9, <2>1
    <3> QED
      BY <1>1, <1>2, <3>1
  <2>2. CASE u = t
    <3>1. job'[u][l][3] = next /\ job'[r][k][3] < next /\ job'[r][k][3] \in 1..Len(kept')
      BY <1>7, <1>8, <1>9, <2>2
    <3> QED
      BY <1>1, <1>2, <3>1
  <2>3. CASE r # t /\ u # t
    BY <1>5, <1>6, <1>9, <2>3 DEF NameInv
  <2> QED
    BY <2>1, <2>2, <2>3
<1> QED
  BY <1>8, <1>9 DEF NameInv

\* A primitive is filled by one task.
LEMMA NextNames ==
  ASSUME ViewsInv, NameInv, [Next]_vars
  PROVE  NameInv'
<1>0. Shape /\ PassInv /\ JobInv
  BY DEF ViewsInv
<1>1. ASSUME NEW t \in Thread, Take(t) PROVE NameInv'
  BY <1>0, <1>1, TakeNames
<1>2. CASE UNCHANGED <<job, pass, next, kept>>
  BY <1>2 DEF NameInv, Fills
<1>3. ASSUME NEW t \in Thread, Task(t), UNCHANGED <<pass, next, planVars, gpu>> PROVE NameInv'
  <2>1. job' = job \/ job' = [job EXCEPT ![t] = <<>>]
    BY <1>3 DEF Task, Check, Lock, Decode, Read, Drop, Free, Clear, Return, CopyPositions,
                CopyUvs, LoadWords, StoreWords, Advance, Goto
  <2>2. \A r \in Thread : job'[r] = job[r] \/ job'[r] = <<>>
    BY <1>0, <2>1 DEF Shape
  <2>3. \A k : \A r \in Thread : Fills(r, k)' => Fills(r, k) /\ job'[r] = job[r]
    BY <2>2 DEF Fills
  <2>4. UNCHANGED <<pass, next, kept>>
    BY <1>3 DEF planVars
  <2> QED
    BY <2>3, <2>4 DEF NameInv
<1>4. CASE Main
  <2>1. Idle /\ job' = job
    BY <1>0, <1>4 DEF Main, Cap, CountUses, Reserve, Allocate, EndPass, Adopt, Register, Finalize,
                      AddMesh, Repeat, Split, Upload, threadVars, Idle, JobInv
  <2>2. \A k : \A r \in Thread : ~Fills(r, k)'
    BY <2>1 DEF Fills, Idle
  <2> QED
    BY <2>2 DEF NameInv
<1>5. CASE UNCHANGED vars
  BY <1>2, <1>5 DEF vars, threadVars, planVars
<1> QED
  BY <1>1, <1>3, <1>4, <1>5 DEF Next, Work

LEMMA AppendIs ==
  ASSUME NEW s, NEW n \in Nat, s = [i \in 1..n |-> s[i]], NEW x
  PROVE  LET a == Append(s, x) IN
         /\ Len(s) = n /\ Len(a) = n + 1 /\ a = [i \in 1..(n + 1) |-> a[i]]
         /\ a[n + 1] = x /\ \A i \in 1..n : a[i] = s[i]
<1> DEFINE S == {s[i] : i \in 1..n} \cup {x}
           a == Append(s, x)
<1>1. s \in [1..n -> S] /\ x \in S
  <2>1. \A i \in 1..n : s[i] \in S
    OBVIOUS
  <2> HIDE DEF S
  <2>2. s \in [1..n -> S]
    BY <2>1
  <2> QED
    BY <2>2 DEF S
<1> HIDE DEF S
<1>2. s \in Seq(S) /\ Len(s) = n
  BY <1>1, SeqDef, LenProperties
<1>3. /\ a \in Seq(S) /\ Len(a) = Len(s) + 1
      /\ \A i \in 1..Len(s) : a[i] = s[i]
      /\ a[Len(s) + 1] = x
  BY <1>1, <1>2, AppendProperties
<1> HIDE DEF a
<1>4. a \in [1..(n + 1) -> S]
  BY <1>2, <1>3, LenProperties
<1> QED
  BY <1>2, <1>3, <1>4 DEF a

LEMMA ReserveLayout ==
  ASSUME Shape, PassInv, LayoutInv, Reserve
  PROVE  LayoutInv'
<1> DEFINE p == Part(next)
           bits == IF opt.packed THEN BitsFor(IndexRange(p)[2] - IndexRange(p)[1] + 1) ELSE 0
           n == Len(scene.dcs)
           N == Len(p.index)
<1>1. /\ pass = "reserve" /\ next <= Len(kept) /\ next' = next + 1 /\ UNCHANGED <<pass, opt, kept>>
      /\ \E min, m, first : scene'.dcs = Append(scene.dcs, NewDrawCall(next, bits, min, m, first))
      /\ nextIndex' = IF opt.packed THEN WordAligned(nextIndex + N * bits) ELSE nextIndex + N
  BY DEF Reserve
<1>2. kept \in Seq(DOMAIN Plans) /\ next \in Nat \ {0} /\ ~Generated /\ opt.packed \in BOOLEAN
      /\ Len(kept) \in Nat /\ next \in 1..Len(kept)
  BY <1>1, OptionsAssumption, LenProperties DEF Shape, PassInv
<1>3. /\ n = next - 1 /\ n \in Nat /\ nextIndex \in Nat
      /\ scene.dcs = [i \in 1..n |-> scene.dcs[i]]
      /\ opt.packed => WordAligned(nextIndex) = nextIndex
      /\ \A i \in 1..n :
            /\ DC(i).indexOffset \in Nat /\ DC(i).bits \in Nat
            /\ opt.packed => WordAligned(DC(i).indexOffset) = DC(i).indexOffset
            /\ SliceEnd(i) <= nextIndex
            /\ \A j \in 1..n : i < j => SliceEnd(i) <= DC(j).indexOffset
  BY <1>1, <1>2 DEF LayoutInv, DC
<1>4. IsPlan(p)
  BY <1>2, PartIsPlan
<1>5. N \in Nat /\ bits \in Nat
  <2>1. N \in Nat
    BY <1>4, LenProperties DEF IsPlan
  <2>2. BitsFor(IndexRange(p)[2] - IndexRange(p)[1] + 1) \in Nat
    BY <1>4, RangeOfPlan
  <2> QED
    BY <2>1, <2>2
<1>6. \A i : Part(i)' = Part(i)
  BY <1>1 DEF Part, Generated
<1>7. PICK dc : scene'.dcs = Append(scene.dcs, dc) /\ dc.indexOffset = nextIndex /\ dc.bits = bits
  BY <1>1 DEF NewDrawCall
<1> HIDE DEF p, bits, n, N
<1>8. /\ Len(scene'.dcs) = n + 1 /\ scene'.dcs = [i \in 1..(n + 1) |-> scene'.dcs[i]]
      /\ scene'.dcs[n + 1] = dc /\ \A i \in 1..n : scene'.dcs[i] = scene.dcs[i]
  BY <1>3, <1>7, AppendIs
\* The end of the slice reserved is the end of what is reserved.
<1>9. /\ nextIndex' \in Nat /\ nextIndex <= nextIndex'
      /\ opt.packed => WordAligned(nextIndex') = nextIndex'
  <2>1. nextIndex + N * bits \in Nat /\ nextIndex <= nextIndex + N * bits
    <3>1. N * bits \in Nat
      BY <1>5
    <3> QED
      BY <1>3, <3>1
  <2>2. CASE opt.packed
    BY <1>1, <1>3, <2>1, <2>2, Aligned
  <2>3. CASE ~opt.packed
    BY <1>1, <1>3, <1>5, <2>3
  <2> QED
    BY <2>2, <2>3
<1>10. \A i \in 1..n : SliceEnd(i)' = SliceEnd(i)
  <2> SUFFICES ASSUME NEW i \in 1..n PROVE SliceEnd(i)' = SliceEnd(i)
    OBVIOUS
  <2>1. DC(i)' = DC(i) /\ Part(i)' = Part(i) /\ opt' = opt
    BY <1>1, <1>6, <1>8 DEF DC
  <2>2. \A x : WordAligned(x)' = WordAligned(x)
    BY DEF WordAligned
  <2> QED
    BY <2>1 DEF SliceEnd
<1>11. \A i : i = n + 1 => SliceEnd(i)' = nextIndex'
  <2> SUFFICES ASSUME NEW i, i = n + 1 PROVE SliceEnd(i)' = nextIndex'
    OBVIOUS
  <2>1. DC(i)' = dc /\ Part(i)' = p /\ opt' = opt
    <3>1. i = next
      BY <1>2, <1>3
    <3> QED
      BY <1>1, <1>6, <1>8, <3>1 DEF DC, p
  <2>2. DC(i)'.indexOffset = nextIndex /\ DC(i)'.bits = bits /\ Len(Part(i).index)' = N
    BY <1>7, <2>1 DEF N
  <2> QED
    BY <1>1, <2>1, <2>2 DEF SliceEnd
<1>12. ASSUME NEW i \in 1..(n + 1)
       PROVE  /\ DC(i)'.indexOffset \in Nat /\ DC(i)'.bits \in Nat
              /\ opt'.packed => WordAligned(DC(i)'.indexOffset) = DC(i)'.indexOffset
              /\ SliceEnd(i)' <= nextIndex'
              /\ \A j \in 1..(n + 1) : i < j => SliceEnd(i)' <= DC(j)'.indexOffset
  <2>1. CASE i = n + 1
    <3>1. DC(i)' = dc
      BY <1>8, <2>1 DEF DC
    <3>2. SliceEnd(i)' = nextIndex'
      BY <1>11, <2>1
    <3> QED
      BY <1>1, <1>3, <1>5, <1>7, <1>9, <2>1, <3>1, <3>2
  <2>2. CASE i \in 1..n
    <3>1. DC(i)' = DC(i) /\ SliceEnd(i)' = SliceEnd(i)
      BY <1>8, <1>10, <2>2 DEF DC
    <3>2. /\ DC(i).indexOffset \in Nat /\ DC(i).bits \in Nat
          /\ opt.packed => WordAligned(DC(i).indexOffset) = DC(i).indexOffset
          /\ SliceEnd(i) <= nextIndex
      BY <1>3, <2>2
    <3>3. SliceEnd(i) \in Int
      <4>1. i \in 1..Len(kept)
        BY <1>2, <1>3, <2>2
      <4>2. IsPlan(Part(i))
        BY <1>2, <4>1, PartIsPlan
      <4>3. Len(Part(i).index) \in Nat
        BY <4>2, LenProperties DEF IsPlan
      <4>4. DC(i).indexOffset + Len(Part(i).index) * DC(i).bits \in Nat
        BY <3>2, <4>3
      <4> QED
        BY <3>2, <4>3, <4>4, Aligned DEF SliceEnd
    <3>4. ASSUME NEW j \in 1..(n + 1), i < j PROVE SliceEnd(i) <= DC(j)'.indexOffset
      <4>1. CASE j = n + 1
        <5>1. DC(j)' = dc
          BY <1>8, <4>1 DEF DC
        <5> QED
          BY <1>7, <3>2, <5>1
      <4>2. CASE j \in 1..n
        <5>1. DC(j)' = DC(j)
          BY <1>8, <4>2 DEF DC
        <5> QED
          BY <1>3, <2>2, <3>4, <4>2, <5>1
      <4> QED
        BY <1>3, <4>1, <4>2
    <3> QED
      BY <1>1, <1>3, <1>9, <3>1, <3>2, <3>3, <3>4
  <2> QED
    BY <1>3, <2>1, <2>2
<1> QED
  <2>1. pass' = "reserve" /\ Len(scene'.dcs) = next' - 1 /\ next' <= Len(kept') + 1
    BY <1>1, <1>2, <1>3, <1>8
  <2>2. scene'.dcs = [i \in 1..Len(scene'.dcs) |-> DC(i)'] /\ Len(scene'.dcs) = n + 1
    BY <1>8 DEF DC
  <2>3. \A i \in 1..Len(scene'.dcs) :
          /\ DC(i)'.indexOffset \in Nat /\ DC(i)'.bits \in Nat
          /\ opt'.packed => WordAligned(DC(i)'.indexOffset) = DC(i)'.indexOffset
          /\ SliceEnd(i)' <= nextIndex'
          /\ \A j \in 1..Len(scene'.dcs) : i < j => SliceEnd(i)' <= DC(j)'.indexOffset
    BY <1>12, <2>2
  <2>4. opt'.packed => WordAligned(nextIndex') = nextIndex'
    BY <1>1, <1>9
  <2> HIDE <1>1, <1>2, <1>3, <1>8, <1>12
  <2> QED
    BY <1>9, <2>1, <2>2, <2>3, <2>4 DEF LayoutInv, WordAligned

\* Ranges are reserved one after the other.
LEMMA NextLayout ==
  ASSUME ViewsInv, LayoutInv, [Next]_vars
  PROVE  LayoutInv'
<1>0. Shape /\ PassInv /\ JobInv
  BY DEF ViewsInv
<1>1. ASSUME UNCHANGED <<opt, kept, scene, nextIndex>>, pass' = pass,
             pass = "reserve" => next' = next
      PROVE  LayoutInv'
  <2>1. \A i : SliceEnd(i)' = SliceEnd(i) /\ DC(i)' = DC(i)
    BY <1>1 DEF SliceEnd, DC, Part, Generated, WordAligned
  <2> QED
    BY <1>1, <2>1 DEF LayoutInv, DC, WordAligned
<1>2. CASE Reserve
  BY <1>0, <1>2, ReserveLayout
<1>3. ASSUME pass \in {"cap", "scan"}, pass' \in {"cap", "scan"}, UNCHANGED <<scene, nextIndex>>
      PROVE  LayoutInv'
  BY <1>3 DEF LayoutInv
<1>4. ASSUME pass \in {"cap", "scan"}, pass' = "reserve", next' = 1, UNCHANGED <<scene, nextIndex, kept>>
      PROVE  LayoutInv'
  <2>1. scene'.dcs = <<>> /\ nextIndex' = 0
    BY <1>4 DEF LayoutInv
  <2>2. Len(scene'.dcs) = 0 /\ scene'.dcs = [i \in 1..0 |-> DC(i)']
    BY <2>1
  <2>3. WordAligned(0) = 0
    <3>1. WordBits \in Nat \ {0}
      BY LayoutAssumption
    <3>2. (0 + WordBits - 1) \div WordBits = 0
      BY <3>1
    <3> QED
      BY <3>1, <3>2 DEF WordAligned, CeilDiv
  <2>4. Len(kept') \in Nat
    BY <1>0, <1>4, LenProperties DEF Shape
  <2> QED
    BY <1>4, <2>1, <2>2, <2>3, <2>4 DEF LayoutInv, WordAligned
<1>5. CASE Allocate
  <2>1. /\ pass = "reserve" /\ next > Len(kept) /\ pass' \in {"failed", "fill"}
        /\ UNCHANGED <<opt, kept, scene, nextIndex>>
    BY <1>5 DEF Allocate, planVars
  <2>2. Len(scene.dcs) = Len(kept)
    <3>1. Len(kept) \in Nat /\ next \in Nat
      BY <1>0, LenProperties DEF Shape
    <3> QED
      BY <2>1, <3>1 DEF LayoutInv
  <2>3. \A i : SliceEnd(i)' = SliceEnd(i) /\ DC(i)' = DC(i)
    BY <2>1 DEF SliceEnd, DC, Part, Generated, WordAligned
  <2> QED
    BY <2>1, <2>2, <2>3 DEF LayoutInv, DC, WordAligned
<1>6. ASSUME pass' \notin {"cap", "scan", "reserve", "fill"} PROVE LayoutInv'
  BY <1>6 DEF LayoutInv
<1>7. CASE Cap
  BY <1>3, <1>7 DEF Cap
<1>8. CASE CountUses
  BY <1>3, <1>4, <1>8 DEF CountUses, planVars
<1>9. CASE EndPass
  BY <1>4, <1>6, <1>9 DEF EndPass, planVars
<1>10. CASE Adopt \/ Register \/ Finalize \/ AddMesh \/ Repeat \/ Split \/ Upload
  BY <1>6, <1>10 DEF Adopt, Register, Finalize, AddMesh, Repeat, Split, Upload
<1>11. CASE Main
  BY <1>2, <1>5, <1>7, <1>8, <1>9, <1>10, <1>11 DEF Main
<1>12. ASSUME NEW t \in Thread, Work(t) PROVE LayoutInv'
  <2>1. CASE Take(t)
    BY <1>1, <2>1 DEF Take, planVars
  <2>2. CASE UNCHANGED <<pass, next, planVars, gpu>>
    BY <1>1, <2>2 DEF planVars
  <2> QED
    BY <1>12, <2>1, <2>2 DEF Work
<1>13. CASE UNCHANGED vars
  BY <1>1, <1>13 DEF vars, planVars
<1> QED
  BY <1>11, <1>12, <1>13 DEF Next

\* The words of a slice lie between its offset and its end.
LEMMA SliceBounds ==
  ASSUME ViewsInv, LayoutInv, pass = "fill", NEW i \in 1..Len(kept)
  PROVE  LET unit == IF opt.packed THEN 1 ELSE WordBits IN
         /\ DC(i).indexOffset \in Nat /\ SliceEnd(i) \in Nat
         /\ Slice(i) \subseteq (DC(i).indexOffset * unit)..(SliceEnd(i) * unit - 1)
<1>0. Shape /\ PassInv
  BY DEF ViewsInv
<1>1. kept \in Seq(DOMAIN Plans) /\ ~Generated /\ opt.packed \in BOOLEAN
  BY <1>0, OptionsAssumption DEF Shape, PassInv
<1>2. IsPlan(Part(i))
  BY <1>1, PartIsPlan
<1> DEFINE W == WordBits
           f == DC(i).indexOffset
           N == Len(Part(i).index)
           b == DC(i).bits
<1>3. W \in Nat \ {0} /\ N \in Nat
  BY <1>2, LayoutAssumption, LenProperties DEF IsPlan
<1>4. f \in Nat /\ b \in Nat /\ (opt.packed => WordAligned(f) = f)
  BY DEF LayoutInv
<1>5. Slice(i) = WordsOf(f \div (IF opt.packed THEN W ELSE 1),
                         CeilDiv(f + N * (IF opt.packed THEN b ELSE 1), IF opt.packed THEN W ELSE 1))
  BY DEF Slice, Unit
<1>6. SliceEnd(i) = IF opt.packed THEN WordAligned(f + N * b) ELSE f + N
  BY DEF SliceEnd
<1>7. \A n : WordAligned(n) = CeilDiv(n, W) * W
  BY DEF WordAligned
<1> HIDE DEF W, f, N, b
<1>8. CASE opt.packed
  <2>1. N * b \in Nat
    BY <1>3, <1>4
  <2>2. f + N * b \in Nat
    BY <1>4, <2>1
  <2>3. Slice(i) = WordsOf(f \div W, CeilDiv(f + N * b, W))
    BY <1>5, <1>8
  <2>4. Slice(i) = ((f \div W) * W)..(CeilDiv(f + N * b, W) * W - 1)
    BY <2>3 DEF WordsOf, W
  <2>5. CeilDiv(f + N * b, W) * W = SliceEnd(i) /\ SliceEnd(i) \in Nat
    BY <1>6, <1>7, <1>8, <2>2, Aligned
  <2>6. (f \div W) * W = f
    <3>1. PICK c \in Nat : f = c * W
      <4>1. CeilDiv(f, W) \in Nat
        BY <1>3, <1>4, CeilDivBounds
      <4>2. f = CeilDiv(f, W) * W
        BY <1>4, <1>7, <1>8
      <4> QED
        BY <4>1, <4>2
    <3>2. (c * W) \div W = c
      BY <1>3
    <3> QED
      BY <3>1, <3>2
  <2>7. f * 1 = f /\ SliceEnd(i) * 1 = SliceEnd(i)
    BY <1>4, <2>5
  <2> QED
    BY <1>4, <1>8, <2>4, <2>5, <2>6, <2>7 DEF f
<1>9. CASE ~opt.packed
  <2>1. Slice(i) = WordsOf(f \div 1, CeilDiv(f + N * 1, 1))
    BY <1>5, <1>9
  <2>2. f \div 1 = f /\ CeilDiv(f + N * 1, 1) = f + N
    BY <1>3, <1>4 DEF CeilDiv
  <2>3. Slice(i) = (f * W)..((f + N) * W - 1)
    BY <2>1, <2>2 DEF WordsOf, W
  <2>4. SliceEnd(i) = f + N /\ SliceEnd(i) \in Nat
    BY <1>3, <1>4, <1>6, <1>9
  <2> QED
    BY <1>4, <1>9, <2>3, <2>4 DEF f, W
<1> QED
  BY <1>1, <1>8, <1>9

LEMMA ApartNow ==
  ASSUME ViewsInv, LayoutInv, NameInv
  PROVE  WritersApart
<1>0. Shape /\ PassInv /\ JobInv
  BY DEF ViewsInv
<1> SUFFICES ASSUME NEW s \in Thread, NEW t \in Thread, s # t,
                    Doing(s, "indices", "store"), Doing(t, "indices", "store")
             PROVE  Slice(I(s)) \cap Slice(I(t)) = {}
  BY DEF WritersApart
<1>1. ASSUME NEW r \in Thread, Doing(r, "indices", "store")
      PROVE  at[r] \in 1..MaxSteps /\ Fills(r, at[r]) /\ I(r) = job[r][at[r]][3]
  <2>1. Busy(r) /\ Op(r) = "indices"
    BY <1>1 DEF Doing
  <2>2. job[r] # <<>> /\ at[r] \in 1..Len(job[r]) /\ Len(job[r]) \in Nat /\ Len(job[r]) <= MaxSteps
    BY <1>0, <2>1, StepType
  <2>3. at[r] \in 1..MaxSteps
    BY <2>2 DEF MaxSteps
  <2> QED
    BY <2>1, <2>2, <2>3 DEF Fills, Op, I
<1>2. pass = "fill" /\ I(s) \in 1..Len(kept) /\ I(t) \in 1..Len(kept) /\ I(s) # I(t)
  BY <1>1 DEF NameInv
<1> DEFINE unit == IF opt.packed THEN 1 ELSE WordBits
<1>3. unit \in Nat
  BY LayoutAssumption
<1> HIDE DEF unit
<1>4. ASSUME NEW i \in 1..Len(kept), NEW j \in 1..Len(kept), i < j
      PROVE  Slice(i) \cap Slice(j) = {}
  <2>1. /\ DC(i).indexOffset \in Nat /\ SliceEnd(i) \in Nat
        /\ DC(j).indexOffset \in Nat /\ SliceEnd(j) \in Nat
        /\ Slice(i) \subseteq (DC(i).indexOffset * unit)..(SliceEnd(i) * unit - 1)
        /\ Slice(j) \subseteq (DC(j).indexOffset * unit)..(SliceEnd(j) * unit - 1)
    BY <1>2, SliceBounds DEF unit
  <2>2. SliceEnd(i) <= DC(j).indexOffset
    BY <1>2, <1>4 DEF LayoutInv
  <2> DEFINE e == SliceEnd(i)
             f == DC(j).indexOffset
  <2>3. e * unit <= f * unit /\ e * unit \in Nat /\ f * unit \in Nat
    <3>1. e \in Nat /\ f \in Nat /\ e <= f
      BY <2>1, <2>2
    <3> HIDE DEF e, f
    <3>2. (f - e) * unit \in Nat
      BY <1>3, <3>1
    <3> QED
      BY <1>3, <3>1, <3>2
  <2>4. \A x \in Slice(i) : x \in Int /\ x < e * unit
    BY <2>1, <2>3
  <2>5. \A x \in Slice(j) : x \in Int /\ f * unit <= x
    BY <2>1, <2>3
  <2> HIDE DEF e, f
  <2> QED
    BY <2>3, <2>4, <2>5
<1>5. I(s) < I(t) \/ I(t) < I(s)
  BY <1>2
<1> QED
  BY <1>2, <1>4, <1>5

\* Whatever the options, tasks that write at the same time write different words:
\* the slices reserved follow one another, packed ones on words of their own, and a
\* slice is filled by one task.
THEOREM SlicesApart == Spec => []WritersApart
<1>1. Init => LayoutInv /\ NameInv
  <2> SUFFICES ASSUME Init PROVE LayoutInv /\ NameInv
    OBVIOUS
  <2>1. /\ pass \in {"cap", "register", "build"} /\ scene.dcs = <<>> /\ nextIndex = 0
        /\ job = [t \in Thread |-> <<>>]
    BY DEF Init, InitViews
  <2>2. LayoutInv
    BY <2>1 DEF LayoutInv
  <2>3. NameInv
    BY <2>1 DEF NameInv, Fills
  <2> QED
    BY <2>2, <2>3
<1>2. ViewsInv /\ LayoutInv /\ NameInv /\ [Next]_vars => LayoutInv' /\ NameInv'
  BY NextLayout, NextNames
<1>3. ViewsInv /\ LayoutInv /\ NameInv => WritersApart
  BY ApartNow
<1> QED
  BY <1>1, <1>2, <1>3, CountsAreExact, PTL DEF Spec

-----------------------------------------------------------------------------
(* Draw calls and the words they take.                                     *)

IsDraw(dc, packed) ==
  /\ {"indexOffset", "bits", "triangles", "chunk"} \subseteq DOMAIN dc
  /\ dc.indexOffset \in Nat /\ dc.bits \in Nat /\ dc.triangles \in Nat
  /\ ~packed => dc.bits = 0

\* Draw calls laid out one after the other, the last one before end.
Laid(dcs, end, packed) ==
  /\ Len(dcs) \in Nat /\ dcs = [i \in 1..Len(dcs) |-> dcs[i]] /\ end \in Nat
  /\ \A i \in 1..Len(dcs) :
       /\ IsDraw(dcs[i], packed) /\ dcs[i].chunk = 1 /\ EndAt(dcs[i], packed) <= end
       /\ \A j \in 1..Len(dcs) : i < j => EndAt(dcs[i], packed) <= dcs[j].indexOffset

\* The indices of a draw call take words, possibly none.
LEMMA EndFacts ==
  ASSUME NEW dc, NEW packed \in BOOLEAN, IsDraw(dc, packed)
  PROVE  /\ Unit(packed) \in Nat \ {0}
         /\ EndAt(dc, packed) \in Nat /\ dc.indexOffset <= EndAt(dc, packed)
         /\ EndWord(dc, packed) \in Nat
         /\ EndAt(dc, packed) <= EndWord(dc, packed) * Unit(packed)
<1> DEFINE b == IF packed THEN dc.bits ELSE 1
<1>1. Unit(packed) \in Nat \ {0}
  BY LayoutAssumption DEF Unit
<1>2. dc.indexOffset \in Nat /\ 3 * dc.triangles \in Nat /\ b \in Nat
  BY DEF IsDraw
<1>3. (3 * dc.triangles) * b \in Nat
  <2> HIDE DEF b
  <2> QED BY <1>2
<1>4. EndAt(dc, packed) \in Nat /\ dc.indexOffset <= EndAt(dc, packed)
  BY <1>2, <1>3 DEF EndAt
<1> QED BY <1>1, <1>4, CeilDivBounds DEF EndWord

\* Rounding up is monotonic.
LEMMA CeilDivMonotonic ==
  ASSUME NEW a \in Nat, NEW b \in Nat, a <= b, NEW d \in Nat \ {0}
  PROVE  CeilDiv(a, d) <= CeilDiv(b, d)
<1> DEFINE x == CeilDiv(a, d)
           y == CeilDiv(b, d)
<1>1. x \in Nat /\ y \in Nat /\ x * d < a + d /\ b <= y * d
  BY CeilDivBounds
<1> HIDE DEF x, y
<1>2. x * d < (y + 1) * d
  BY <1>1
<1>3. x < y + 1
  BY <1>1, <1>2
<1> QED BY <1>1, <1>3 DEF x, y

\* What lies before the end of a word lies in it or in an earlier one.
LEMMA DivBelow ==
  ASSUME NEW x \in Nat, NEW n \in Int, NEW d \in Nat \ {0}, x < n * d
  PROVE  x \div d \in 0..(n - 1)
<1> DEFINE q == x \div d
<1>1. q \in Nat /\ q * d <= x
  OBVIOUS
<1> HIDE DEF q
<1>2. q * d < n * d
  BY <1>1
<1>3. q < n
  BY <1>1, <1>2
<1> QED BY <1>1, <1>3 DEF q

\* One more draw call, from where the last one ends.
LEMMA LaidAppend ==
  ASSUME NEW dcs, NEW end, NEW packed \in BOOLEAN, Laid(dcs, end, packed),
         NEW dc, IsDraw(dc, packed), dc.chunk = 1, dc.indexOffset = end,
         NEW e \in Nat, EndAt(dc, packed) <= e
  PROVE  Laid(Append(dcs, dc), e, packed) /\ Len(Append(dcs, dc)) = Len(dcs) + 1
<1> DEFINE n == Len(dcs)
           a == Append(dcs, dc)
<1>1. n \in Nat /\ dcs = [i \in 1..n |-> dcs[i]] /\ end \in Nat
  BY DEF Laid
<1>2. /\ Len(a) = n + 1 /\ a = [i \in 1..(n + 1) |-> a[i]]
      /\ a[n + 1] = dc /\ \A i \in 1..n : a[i] = dcs[i]
  <2> HIDE DEF n
  <2> QED BY <1>1, AppendIs
<1>3. end <= e
  BY EndFacts, <1>1
<1>4. \A i \in 1..n :
        /\ IsDraw(dcs[i], packed) /\ dcs[i].chunk = 1 /\ EndAt(dcs[i], packed) <= end
        /\ \A j \in 1..n : i < j => EndAt(dcs[i], packed) <= dcs[j].indexOffset
  BY DEF Laid
<1>5. \A i \in 1..n : EndAt(dcs[i], packed) \in Nat
  BY <1>4, EndFacts
<1> HIDE DEF n, a
<1>6. \A i \in 1..(n + 1) : i \in 1..n \/ i = n + 1
  BY <1>1
<1>7. \A i \in 1..(n + 1) :
        /\ IsDraw(a[i], packed) /\ a[i].chunk = 1 /\ EndAt(a[i], packed) <= e
        /\ \A j \in 1..(n + 1) : i < j => EndAt(a[i], packed) <= a[j].indexOffset
  <2> SUFFICES ASSUME NEW i \in 1..(n + 1)
               PROVE  /\ IsDraw(a[i], packed) /\ a[i].chunk = 1 /\ EndAt(a[i], packed) <= e
                      /\ \A j \in 1..(n + 1) : i < j => EndAt(a[i], packed) <= a[j].indexOffset
    OBVIOUS
  <2>1. CASE i = n + 1
    BY <1>1, <1>2, <2>1
  <2>2. CASE i \in 1..n
    <3>1. a[i] = dcs[i] /\ EndAt(dcs[i], packed) <= end /\ EndAt(dcs[i], packed) \in Nat
      BY <1>2, <1>4, <1>5, <2>2
    <3>2. \A j \in 1..(n + 1) : i < j => EndAt(a[i], packed) <= a[j].indexOffset
      BY <1>2, <1>4, <1>6, <2>2, <3>1
    <3>3. EndAt(dcs[i], packed) <= e
      BY <1>1, <1>3, <3>1
    <3> QED BY <1>4, <2>2, <3>1, <3>2, <3>3
  <2> QED BY <1>6, <2>1, <2>2
<1> QED BY <1>1, <1>2, <1>7 DEF Laid, a, n

\* Draw calls, those of copies after the first n included: two that do not begin
\* together lie one after the other.
Base(d, n) == ((d - 1) % n) + 1
Spread(dcs, n, end, packed) ==
  /\ \E N \in Nat : n <= N /\ dcs = [d \in 1..N |-> dcs[d]]
  /\ n \in Nat \ {0} /\ end \in Nat
  /\ \A d \in DOMAIN dcs :
       /\ IsDraw(dcs[d], packed) /\ dcs[d].chunk = 1 /\ EndAt(dcs[d], packed) <= end
       /\ dcs[Base(d, n)].bits = dcs[d].bits
       /\ \A e \in DOMAIN dcs : dcs[d].indexOffset < dcs[e].indexOffset
                                  => EndAt(dcs[d], packed) <= dcs[e].indexOffset

\* A copy is a copy of one of the first.
LEMMA BaseFacts ==
  ASSUME NEW n \in Nat \ {0}, NEW d \in Nat \ {0}
  PROVE  /\ Base(d, n) \in 1..n
         /\ d <= n => Base(d, n) = d
         /\ Base(Base(d, n), n) = Base(d, n)
<1>1. \A x \in Nat : x % n \in 0..(n - 1)
  OBVIOUS
<1>2. \A x \in Nat : x < n => x % n = x
  OBVIOUS
<1>3. Base(d, n) \in 1..n
  BY <1>1 DEF Base
<1>4. \A c \in 1..n : Base(c, n) = c
  BY <1>2 DEF Base
<1> QED BY <1>3, <1>4

\* Of draw calls that are laid out, one that begins before another ends before it.
LEMMA LaidOrder ==
  ASSUME NEW dcs, NEW end, NEW packed \in BOOLEAN, Laid(dcs, end, packed),
         NEW i \in 1..Len(dcs), NEW j \in 1..Len(dcs), dcs[i].indexOffset < dcs[j].indexOffset
  PROVE  EndAt(dcs[i], packed) <= dcs[j].indexOffset
<1>1. Len(dcs) \in Nat
  BY DEF Laid
<1>2. IsDraw(dcs[i], packed) /\ IsDraw(dcs[j], packed)
  BY DEF Laid
<1>3. dcs[j].indexOffset <= EndAt(dcs[j], packed) /\ EndAt(dcs[j], packed) \in Nat
  BY <1>2, EndFacts
<1>4. dcs[i].indexOffset \in Nat /\ dcs[j].indexOffset \in Nat
  BY <1>2 DEF IsDraw
<1>5. CASE i < j
  BY <1>5 DEF Laid
<1>6. CASE j < i
  <2>1. EndAt(dcs[j], packed) <= dcs[i].indexOffset
    BY <1>6 DEF Laid
  <2> QED BY <1>3, <1>4, <2>1
<1> QED BY <1>1, <1>4, <1>5, <1>6

\* Copies of draw calls that are laid out do not cross each other.
LEMMA Replicated ==
  ASSUME NEW s, NEW copies \in Nat \ {0}, NEW end, NEW packed \in BOOLEAN,
         Laid(s.dcs, end, packed), Len(s.dcs) # 0
  PROVE  Spread(Replicate(s, copies).dcs, Len(s.dcs), end, packed)
<1> DEFINE n == Len(s.dcs)
           w == Replicate(s, copies).dcs
<1>1. n \in Nat \ {0} /\ s.dcs = [i \in 1..n |-> s.dcs[i]] /\ end \in Nat
  BY DEF Laid
<1>2. \A i \in 1..n : IsDraw(s.dcs[i], packed) /\ s.dcs[i].chunk = 1
                        /\ EndAt(s.dcs[i], packed) <= end
  BY DEF Laid
<1>3. \A i, j \in 1..n : s.dcs[i].indexOffset < s.dcs[j].indexOffset
                           => EndAt(s.dcs[i], packed) <= s.dcs[j].indexOffset
  BY LaidOrder
\* A draw call of the result is one of s, but for its number of triangles before it.
<1>4. \E N \in Nat :
        /\ n <= N /\ w = [d \in 1..N |-> w[d]]
        /\ \A d \in 1..N :
             /\ w[d].indexOffset = s.dcs[Base(d, n)].indexOffset
             /\ w[d].bits = s.dcs[Base(d, n)].bits
             /\ w[d].triangles = s.dcs[Base(d, n)].triangles
             /\ w[d].chunk = s.dcs[Base(d, n)].chunk
             /\ DOMAIN w[d] = DOMAIN s.dcs[Base(d, n)]
  <2>1. CASE copies <= 1
    <3>1. w = s.dcs
      BY <2>1 DEF Replicate
    <3>2. \A d \in 1..n : Base(d, n) = d
      <4> HIDE DEF n
      <4> QED BY <1>1, BaseFacts
    <3>3. n \in Nat /\ n <= n /\ w = [d \in 1..n |-> w[d]]
      BY <1>1, <3>1
    <3>4. \A d \in 1..n : w[d] = s.dcs[Base(d, n)]
      BY <3>1, <3>2
    <3> HIDE DEF w, n
    <3> QED BY <3>3, <3>4
  <2>2. CASE ~(copies <= 1)
    <3> DEFINE of(k) == s.dcs[((k - 1) % n) + 1]
               before(k) == [j \in 1..(k - 1) |-> of(j)]
    <3>1. w = [k \in 1..(copies * n) |->
                 [of(k) EXCEPT !.start = InstancedTriangles(before(k)),
                               !.firstInstance = Sum([j \in 1..(k - 1) |-> of(j).instances], k - 1)]]
      BY <2>2 DEF Replicate
    <3>2. copies * n \in Nat /\ n <= copies * n
      <4> HIDE DEF n
      <4>1. (copies - 1) * n \in Nat
        BY <1>1
      <4> QED BY <1>1, <4>1
    <3>3. \A d \in 1..(copies * n) : \E x, y : w[d] = [s.dcs[Base(d, n)] EXCEPT !.start = x, !.firstInstance = y]
      BY <3>1 DEF Base
    <3>4. \A d \in 1..(copies * n) :
             /\ w[d].indexOffset = s.dcs[Base(d, n)].indexOffset
             /\ w[d].bits = s.dcs[Base(d, n)].bits
             /\ w[d].triangles = s.dcs[Base(d, n)].triangles
             /\ w[d].chunk = s.dcs[Base(d, n)].chunk
             /\ DOMAIN w[d] = DOMAIN s.dcs[Base(d, n)]
      <4> SUFFICES ASSUME NEW d \in 1..(copies * n)
                   PROVE  /\ w[d].indexOffset = s.dcs[Base(d, n)].indexOffset
                          /\ w[d].bits = s.dcs[Base(d, n)].bits
                          /\ w[d].triangles = s.dcs[Base(d, n)].triangles
                          /\ w[d].chunk = s.dcs[Base(d, n)].chunk
                          /\ DOMAIN w[d] = DOMAIN s.dcs[Base(d, n)]
        OBVIOUS
      <4>1. PICK x, y : w[d] = [s.dcs[Base(d, n)] EXCEPT !.start = x, !.firstInstance = y]
        BY <3>3
      <4>2. Base(d, n) \in 1..n
        <5>1. d \in Nat \ {0}
          BY <3>2
        <5> HIDE DEF n
        <5> QED BY <1>1, <5>1, BaseFacts
      <4>3. {"indexOffset", "bits", "triangles", "chunk"} \subseteq DOMAIN s.dcs[Base(d, n)]
        BY <1>2, <4>2 DEF IsDraw
      <4> HIDE DEF w, n
      <4> QED BY <4>1, <4>3
    <3>5. w = [d \in 1..(copies * n) |-> w[d]]
      BY <3>1
    <3> HIDE DEF w, n
    <3> QED BY <3>2, <3>4, <3>5
  <2> HIDE DEF w, n
  <2> QED BY <2>1, <2>2
<1> HIDE DEF w
<1>5. PICK N \in Nat :
        /\ n <= N /\ w = [d \in 1..N |-> w[d]]
        /\ \A d \in 1..N :
             /\ w[d].indexOffset = s.dcs[Base(d, n)].indexOffset
             /\ w[d].bits = s.dcs[Base(d, n)].bits
             /\ w[d].triangles = s.dcs[Base(d, n)].triangles
             /\ w[d].chunk = s.dcs[Base(d, n)].chunk
             /\ DOMAIN w[d] = DOMAIN s.dcs[Base(d, n)]
  BY <1>4
<1> HIDE DEF n
<1>6. DOMAIN w = 1..N
  BY <1>5
<1>7. \A d \in 1..N : Base(d, n) \in 1..n /\ Base(d, n) \in 1..N /\ Base(Base(d, n), n) = Base(d, n)
  BY <1>1, <1>5, BaseFacts
<1>8. \A d \in 1..N : /\ IsDraw(w[d], packed) /\ w[d].chunk = 1
                      /\ EndAt(w[d], packed) = EndAt(s.dcs[Base(d, n)], packed)
                      /\ EndAt(w[d], packed) <= end
  BY <1>2, <1>5, <1>7 DEF IsDraw, EndAt
<1>9. \A d \in 1..N : w[Base(d, n)].bits = w[d].bits
  BY <1>5, <1>7
<1>10. \A d, e \in 1..N : w[d].indexOffset < w[e].indexOffset
                            => EndAt(w[d], packed) <= w[e].indexOffset
  BY <1>3, <1>5, <1>7, <1>8
<1> QED BY <1>1, <1>5, <1>6, <1>8, <1>9, <1>10 DEF Spread, n, w

\* A split under way.  A draw call that was placed lies in its chunk, whole if the
\* others placed after it did not move the chunk's end back.
IsSplit(split, dcs, packed) ==
  LET m == Len(split.chunks)
      u == Unit(packed) IN
  /\ m \in Nat \ {0} /\ split.chunks = [c \in 1..m |-> split.chunks[c]]
  /\ \A c \in 1..m : split.chunks[c].from \in Nat /\ split.chunks[c].to \in Int
  /\ split.dcs = [d \in DOMAIN dcs |-> split.dcs[d]]
  /\ split.left \subseteq DOMAIN dcs
  /\ \A d \in DOMAIN dcs : /\ {"indexOffset", "chunk", "bits", "triangles"} \subseteq DOMAIN split.dcs[d]
                           /\ split.dcs[d].bits = dcs[d].bits
                           /\ split.dcs[d].triangles = dcs[d].triangles
  /\ \A d \in split.left : /\ split.dcs[d].indexOffset = dcs[d].indexOffset
                           /\ split.chunks[m].from * u <= dcs[d].indexOffset
  /\ \A d \in DOMAIN dcs \ split.left :
       LET c == split.dcs[d].chunk IN
       /\ c \in 1..m
       /\ split.dcs[d].indexOffset = dcs[d].indexOffset - split.chunks[c].from * u
       /\ split.chunks[c].from * u <= dcs[d].indexOffset
       /\ \A e \in split.left : dcs[d].indexOffset <= dcs[e].indexOffset
       /\ Alike(dcs, packed) =>
            EndWord(dcs[d], packed) <= split.chunks[c].to

\* The first k of a sequence, and one more.
LEMMA FirstAndOne ==
  ASSUME NEW s, NEW m \in Nat, s = [i \in 1..m |-> s[i]], NEW k \in 0..m, NEW x
  PROVE  \A a : a = SubSeq(s, 1, k) \o <<x>> =>
           /\ Len(a) = k + 1 /\ a = [i \in 1..(k + 1) |-> a[i]]
           /\ a[k + 1] = x /\ \A i \in 1..k : a[i] = s[i]
<1> DEFINE S == {s[i] : i \in 1..m} \cup {x}
           b == SubSeq(s, 1, k)
           w == b \o <<x>>
<1>1. s \in [1..m -> S] /\ x \in S
  <2>1. \A i \in 1..m : s[i] \in S
    OBVIOUS
  <2> HIDE DEF S
  <2>2. s \in [1..m -> S]
    BY <2>1
  <2> QED
    BY <2>2 DEF S
<1> HIDE DEF S
<1>2. s \in Seq(S) /\ Len(s) = m
  BY <1>1, SeqDef, LenProperties
<1>3. b \in Seq(S) /\ Len(b) = k /\ \A i \in 1..k : b[i] = s[i]
  BY <1>2
<1> HIDE DEF b
<1>4. w \in Seq(S) /\ Len(w) = k + 1 /\ (\A i \in 1..k : w[i] = b[i]) /\ w[k + 1] = x
  BY <1>1, <1>3
<1> HIDE DEF w
<1>5. w \in [1..(k + 1) -> S]
  BY <1>4, LenProperties
<1>6. /\ Len(w) = k + 1 /\ w = [i \in 1..(k + 1) |-> w[i]]
      /\ w[k + 1] = x /\ \A i \in 1..k : w[i] = s[i]
  BY <1>3, <1>4, <1>5
<1>7. w = SubSeq(s, 1, k) \o <<x>>
  BY DEF w, b
<1> QED
  BY <1>6, <1>7

\* Division and multiplication by a unit.
LEMMA WordOf ==
  ASSUME NEW x \in Nat, NEW d \in Nat \ {0}
  PROVE  x \div d \in Nat /\ (x \div d) * d <= x
OBVIOUS

\* What an update of two fields of one draw call leaves of the others.
LEMMA PutAt ==
  ASSUME NEW s, NEW D, s = [d \in D |-> s[d]], NEW i \in D, NEW c, NEW x,
         {"indexOffset", "chunk"} \subseteq DOMAIN s[i]
  PROVE  LET p == [s EXCEPT ![i].chunk = c, ![i].indexOffset = @ - x] IN
         /\ p = [d \in D |-> p[d]]
         /\ \A d \in D : d # i => p[d] = s[d]
         /\ DOMAIN p[i] = DOMAIN s[i]
         /\ p[i].chunk = c /\ p[i].indexOffset = s[i].indexOffset - x
         /\ ("bits" \in DOMAIN s[i] => p[i].bits = s[i].bits)
         /\ ("triangles" \in DOMAIN s[i] => p[i].triangles = s[i].triangles)
OBVIOUS

\* Placing the next draw call in the last chunk, or in one of its own, keeps the
\* rest whole where it is.
LEMMA PlaceKeeps ==
  ASSUME NEW packed \in BOOLEAN, NEW dcs, NEW n, NEW end, Spread(dcs, n, end, packed),
         NEW split, IsSplit(split, dcs, packed),
         NEW i \in split.left, \A j \in split.left : dcs[i].indexOffset <= dcs[j].indexOffset,
         NEW cap
  PROVE  IsSplit(Place(split, i, packed, cap), dcs, packed)
<1> DEFINE m == Len(split.chunks)
           u == Unit(packed)
           E == EndWord(dcs[i], packed)
           P == Place(split, i, packed, cap)
           D == DOMAIN dcs
           C == split.chunks
           L == split.left
           s == split.dcs
<1>1. /\ m \in Nat \ {0} /\ C = [c \in 1..m |-> C[c]]
      /\ \A c \in 1..m : C[c].from \in Nat /\ C[c].to \in Int
      /\ s = [d \in D |-> s[d]] /\ L \subseteq D /\ i \in L /\ i \in D
  BY DEF IsSplit
<1>2. \A d \in D : /\ IsDraw(dcs[d], packed)
                   /\ {"indexOffset", "chunk", "bits", "triangles"} \subseteq DOMAIN s[d]
                   /\ s[d].bits = dcs[d].bits /\ s[d].triangles = dcs[d].triangles
                   /\ dcs[d].indexOffset \in Nat
  BY DEF IsSplit, Spread, IsDraw
<1>3. u \in Nat \ {0} /\ \A d \in D : EndAt(dcs[d], packed) \in Nat /\ EndWord(dcs[d], packed) \in Nat
                              /\ dcs[d].indexOffset <= EndAt(dcs[d], packed)
  BY <1>1, <1>2, EndFacts
<1>4. s[i].indexOffset = dcs[i].indexOffset /\ C[m].from * u <= dcs[i].indexOffset
  BY <1>1 DEF IsSplit
<1>5. PICK full \in BOOLEAN :
        LET from == IF full THEN dcs[i].indexOffset \div u ELSE C[m].from
            last == m + IF full THEN 1 ELSE 0 IN
        P = [chunks |-> SubSeq(C, 1, last - 1) \o <<[from |-> from, to |-> E]>>,
             dcs |-> [s EXCEPT ![i].chunk = last, ![i].indexOffset = @ - from * u],
             left |-> L \ {i}]
  <2>1. E = EndWord(s[i], packed)
    <3>1. s[i].indexOffset = dcs[i].indexOffset /\ s[i].triangles = dcs[i].triangles
          /\ s[i].bits = dcs[i].bits
      BY <1>1, <1>2, <1>4
    <3> QED BY <3>1 DEF EndWord, EndAt
  <2>2. u = Unit(packed)
    OBVIOUS
  <2> DEFINE full == (E - C[m].from + (IF packed THEN 1 ELSE 0)) > cap
             from == IF full THEN dcs[i].indexOffset \div u ELSE C[m].from
             last == m + IF full THEN 1 ELSE 0
  <2> HIDE DEF E, u
  <2>3. P = [chunks |-> SubSeq(C, 1, last - 1) \o <<[from |-> from, to |-> E]>>,
             dcs |-> [s EXCEPT ![i].chunk = last, ![i].indexOffset = @ - from * u],
             left |-> L \ {i}]
    BY <1>4, <2>1, <2>2, Zenon DEF Place
  <2> HIDE DEF P, m, C, s, L
  <2> QED BY <2>3
<1> DEFINE from == IF full THEN dcs[i].indexOffset \div u ELSE C[m].from
           last == m + IF full THEN 1 ELSE 0
<1>6. /\ P.chunks = SubSeq(C, 1, last - 1) \o <<[from |-> from, to |-> E]>>
      /\ P.dcs = [s EXCEPT ![i].chunk = last, ![i].indexOffset = @ - from * u]
      /\ P.left = L \ {i}
  <2> HIDE DEF P, m, C, s, L, E, u
  <2> QED BY <1>5
<1> HIDE DEF P, E, u
<1>7. last \in {m, m + 1} /\ (last = m + 1 \/ from = C[m].from) /\ from \in Nat
      /\ from * u <= dcs[i].indexOffset
  <2>1. dcs[i].indexOffset \div u \in Nat /\ (dcs[i].indexOffset \div u) * u <= dcs[i].indexOffset
    BY <1>1, <1>2, <1>3, WordOf
  <2> HIDE DEF m, C
  <2> QED BY <1>1, <1>4, <2>1
<1>8. /\ Len(P.chunks) = last /\ P.chunks = [c \in 1..last |-> P.chunks[c]]
      /\ P.chunks[last].from = from /\ P.chunks[last].to = E
      /\ \A c \in 1..(last - 1) : P.chunks[c] = C[c]
  <2> DEFINE x == [from |-> from, to |-> E]
             k == last - 1
             a == SubSeq(C, 1, k) \o <<x>>
  <2>1. k \in 0..m /\ k + 1 = last
    <3> HIDE DEF m, last
    <3> QED BY <1>1, <1>7
  <2>2. /\ Len(a) = k + 1 /\ a = [c \in 1..(k + 1) |-> a[c]]
        /\ a[k + 1] = x /\ \A c \in 1..k : a[c] = C[c]
    <3>1. a = SubSeq(C, 1, k) \o <<x>>
      OBVIOUS
    <3> HIDE DEF m, C, k, x, a
    <3>2. m \in Nat /\ C = [c \in 1..m |-> C[c]] /\ k \in 0..m
      BY <1>1, <2>1
    <3>3. \A w : w = SubSeq(C, 1, k) \o <<x>> =>
            /\ Len(w) = k + 1 /\ w = [c \in 1..(k + 1) |-> w[c]]
            /\ w[k + 1] = x /\ \A c \in 1..k : w[c] = C[c]
      BY <3>2, FirstAndOne
    <3> QED BY <3>1, <3>3
  <2>3. x.from = from /\ x.to = E
    <3> HIDE DEF from
    <3> QED OBVIOUS
  <2>4. P.chunks = a
    BY <1>6
  <2>5. \A c \in 1..(last - 1) : a[c] = C[c]
    BY <2>2
  <2>6. last = k + 1
    BY <2>1
  <2> HIDE DEF x, k, a, last, from, C
  <2> QED BY <2>2, <2>3, <2>4, <2>5, <2>6
<1> HIDE DEF last, from
<1>9. /\ P.dcs = [d \in D |-> P.dcs[d]]
      /\ \A d \in D : d # i => P.dcs[d] = s[d]
      /\ P.dcs[i].chunk = last /\ P.dcs[i].indexOffset = s[i].indexOffset - from * u
      /\ {"indexOffset", "chunk", "bits", "triangles"} \subseteq DOMAIN P.dcs[i]
      /\ P.dcs[i].bits = s[i].bits /\ P.dcs[i].triangles = s[i].triangles
  <2> DEFINE p == [s EXCEPT ![i].chunk = last, ![i].indexOffset = @ - from * u]
  <2>1. p = P.dcs /\ s = [d \in D |-> s[d]] /\ i \in D
    BY <1>1, <1>6
  <2>2. {"indexOffset", "chunk", "bits", "triangles"} \subseteq DOMAIN s[i]
    BY <1>1, <1>2
  <2>3. {"indexOffset", "chunk"} \subseteq DOMAIN s[i]
        /\ "bits" \in DOMAIN s[i] /\ "triangles" \in DOMAIN s[i]
    BY <2>2
  <2> HIDE DEF s, D
  <2>4. /\ p = [d \in D |-> p[d]]
        /\ \A d \in D : d # i => p[d] = s[d]
        /\ DOMAIN p[i] = DOMAIN s[i]
        /\ p[i].chunk = last /\ p[i].indexOffset = s[i].indexOffset - from * u
        /\ p[i].bits = s[i].bits /\ p[i].triangles = s[i].triangles
    BY <2>1, <2>3, PutAt, Zenon
  <2> HIDE DEF p
  <2> QED BY <2>1, <2>2, <2>4
<1> DEFINE pd == P.dcs
           pc == P.chunks
<1>10. last \in Nat \ {0} /\ m <= last /\ last - 1 <= m /\ E \in Nat
  <2> HIDE DEF m
  <2> QED BY <1>1, <1>3, <1>7 DEF E
<1>11. \A c \in 1..last : (c \in 1..m /\ c \in 1..(last - 1)) \/ c = last
  <2> HIDE DEF m
  <2> QED BY <1>1, <1>10
<1>12. \A c \in 1..last : pc[c].from \in Nat /\ pc[c].to \in Int
  <2>1. \A c \in 1..m : C[c].from \in Nat /\ C[c].to \in Int
    BY <1>1
  <2>2. pc[last].from \in Nat /\ pc[last].to \in Int
    BY <1>7, <1>8, <1>10
  <2>3. \A c \in 1..(last - 1) : pc[c] = C[c]
    BY <1>8
  <2> HIDE DEF m, C, pc
  <2> QED BY <1>11, <2>1, <2>2, <2>3
<1>13. \A d \in D : d # i /\ d \notin L =>
         LET c == s[d].chunk IN
         /\ c \in 1..m
         /\ s[d].indexOffset = dcs[d].indexOffset - C[c].from * u
         /\ C[c].from * u <= dcs[d].indexOffset
         /\ \A e \in L : dcs[d].indexOffset <= dcs[e].indexOffset
         /\ Alike(dcs, packed) => EndWord(dcs[d], packed) <= C[c].to
  BY DEF IsSplit, u
<1>14. \A d \in D : d \in L => s[d].indexOffset = dcs[d].indexOffset
  BY DEF IsSplit
<1>15. ASSUME NEW d \in D, d # i, d \notin L, Alike(dcs, packed)
       PROVE  EndWord(dcs[d], packed) <= E
  <2>1. dcs[d].indexOffset <= dcs[i].indexOffset
    BY <1>1, <1>13, <1>15
  <2>2. dcs[d].indexOffset < dcs[i].indexOffset => EndAt(dcs[d], packed) <= dcs[i].indexOffset
    BY <1>1 DEF Spread
  <2>3. dcs[d].indexOffset = dcs[i].indexOffset => EndAt(dcs[d], packed) = EndAt(dcs[i], packed)
    BY <1>1, <1>15 DEF Alike
  <2> DEFINE x == EndAt(dcs[d], packed)
             y == EndAt(dcs[i], packed)
  <2>4. x \in Nat /\ y \in Nat /\ dcs[i].indexOffset <= y /\ u \in Nat \ {0}
    BY <1>1, <1>3
  <2>5. dcs[d].indexOffset \in Nat /\ dcs[i].indexOffset \in Nat
    BY <1>1, <1>2
  <2> HIDE DEF x, y
  <2>6. x <= y
    BY <2>1, <2>2, <2>3, <2>4, <2>5 DEF x, y
  <2>7. CeilDiv(x, u) <= CeilDiv(y, u)
    BY <2>4, <2>6, CeilDivMonotonic
  <2> QED BY <2>7 DEF EndWord, E, x, y, u
<1>16. \A d \in P.left : /\ pd[d].indexOffset = dcs[d].indexOffset
                         /\ pc[last].from * u <= dcs[d].indexOffset
  <2> SUFFICES ASSUME NEW d \in P.left
               PROVE  /\ pd[d].indexOffset = dcs[d].indexOffset
                      /\ pc[last].from * u <= dcs[d].indexOffset
    OBVIOUS
  <2>1. d \in L /\ d # i /\ d \in D
    BY <1>1, <1>6
  <2>2. dcs[i].indexOffset <= dcs[d].indexOffset /\ dcs[d].indexOffset \in Nat
        /\ dcs[i].indexOffset \in Nat
    BY <1>1, <1>2, <2>1
  <2>3. from * u \in Nat
    BY <1>3, <1>7
  <2>4. pd[d].indexOffset = dcs[d].indexOffset
    BY <1>9, <1>14, <2>1
  <2>5. pc[last].from * u = from * u
    BY <1>8
  <2> HIDE DEF pd, pc
  <2> QED BY <1>7, <2>2, <2>3, <2>4, <2>5
<1>17. \A d \in D \ P.left :
         LET c == pd[d].chunk IN
         /\ c \in 1..last
         /\ pd[d].indexOffset = dcs[d].indexOffset - pc[c].from * u
         /\ pc[c].from * u <= dcs[d].indexOffset
         /\ \A e \in P.left : dcs[d].indexOffset <= dcs[e].indexOffset
         /\ Alike(dcs, packed) => EndWord(dcs[d], packed) <= pc[c].to
  <2> SUFFICES ASSUME NEW d \in D \ P.left
               PROVE  LET c == pd[d].chunk IN
                      /\ c \in 1..last
                      /\ pd[d].indexOffset = dcs[d].indexOffset - pc[c].from * u
                      /\ pc[c].from * u <= dcs[d].indexOffset
                      /\ \A e \in P.left : dcs[d].indexOffset <= dcs[e].indexOffset
                      /\ Alike(dcs, packed) => EndWord(dcs[d], packed) <= pc[c].to
    OBVIOUS
  <2>1. CASE d = i
    <3>1. pd[d].chunk = last /\ pd[d].indexOffset = dcs[d].indexOffset - pc[last].from * u
          /\ pc[last].from * u <= dcs[d].indexOffset
      BY <1>4, <1>7, <1>8, <1>9, <2>1
    <3>2. \A e \in P.left : dcs[d].indexOffset <= dcs[e].indexOffset
      BY <1>6, <2>1
    <3>3. EndWord(dcs[d], packed) <= pc[last].to
      <4>1. EndWord(dcs[d], packed) = E /\ pc[last].to = E
        BY <1>8, <2>1 DEF E
      <4> HIDE DEF pc
      <4> QED BY <1>10, <4>1
    <3>4. last \in 1..last
      BY <1>10
    <3> HIDE DEF pd, pc
    <3> QED BY <3>1, <3>2, <3>3, <3>4
  <2>2. CASE d # i
    <3>1. d \in D /\ d \notin L
      BY <1>6, <2>2
    <3> DEFINE c == s[d].chunk
    <3>2. /\ c \in 1..m
          /\ s[d].indexOffset = dcs[d].indexOffset - C[c].from * u
          /\ C[c].from * u <= dcs[d].indexOffset
          /\ \A e \in L : dcs[d].indexOffset <= dcs[e].indexOffset
          /\ Alike(dcs, packed) => EndWord(dcs[d], packed) <= C[c].to
      BY <1>13, <2>2, <3>1
    <3>3. pd[d] = s[d]
      BY <1>9, <2>2, <3>1
    <3>4. \A e \in P.left : dcs[d].indexOffset <= dcs[e].indexOffset
      BY <1>6, <3>2
    <3> HIDE DEF c, m, C
    <3>5. CASE c < last
      <4>1. c \in 1..last /\ c \in 1..(last - 1)
        BY <1>1, <1>10, <3>2, <3>5
      <4>2. pc[c] = C[c]
        BY <1>8, <4>1
      <4> HIDE DEF pd, pc
      <4> QED BY <3>2, <3>3, <3>4, <4>1, <4>2 DEF c
    <3>6. CASE c = last
      <4>1. m = last /\ pc[c].from = C[c].from /\ pc[c].to = E /\ c \in 1..last
        BY <1>1, <1>7, <1>8, <1>10, <3>2, <3>6
      <4>2. Alike(dcs, packed) => EndWord(dcs[d], packed) <= pc[c].to
        <5>1. ASSUME Alike(dcs, packed)
              PROVE  EndWord(dcs[d], packed) <= E
          BY <1>15, <2>2, <3>1, <5>1
        <5>2. EndWord(dcs[d], packed) \in Nat
          BY <1>3, <3>1
        <5> HIDE DEF pc
        <5> QED BY <1>10, <4>1, <5>1, <5>2
      <4> HIDE DEF pd, pc
      <4> QED BY <3>2, <3>3, <3>4, <4>1, <4>2 DEF c
    <3>7. c < last \/ c = last
      BY <1>1, <1>10, <3>2
    <3> QED BY <3>5, <3>6, <3>7
  <2> QED BY <2>1, <2>2
<1>18. /\ pd = [d \in D |-> pd[d]]
       /\ P.left \subseteq D
       /\ \A d \in D : /\ {"indexOffset", "chunk", "bits", "triangles"} \subseteq DOMAIN pd[d]
                       /\ pd[d].bits = dcs[d].bits
                       /\ pd[d].triangles = dcs[d].triangles
  <2>1. \A d \in D : /\ {"indexOffset", "chunk", "bits", "triangles"} \subseteq DOMAIN pd[d]
                     /\ pd[d].bits = s[d].bits /\ pd[d].triangles = s[d].triangles
    <3>1. \A d \in D : d # i => pd[d] = s[d]
      BY <1>9
    <3>2. /\ {"indexOffset", "chunk", "bits", "triangles"} \subseteq DOMAIN pd[i]
          /\ pd[i].bits = s[i].bits /\ pd[i].triangles = s[i].triangles
      BY <1>9
    <3> HIDE DEF pd, s, D
    <3> QED BY <1>2, <3>1, <3>2
  <2>2. pd = [d \in D |-> pd[d]]
    BY <1>9
  <2>3. P.left \subseteq D
    BY <1>1, <1>6
  <2> HIDE DEF pd, s, D
  <2> QED BY <1>2, <2>1, <2>2, <2>3
<1>19. Len(pc) = last /\ pc = [c \in 1..last |-> pc[c]]
  BY <1>8
<1>20. u = Unit(packed)
  BY DEF u
<1> HIDE DEF m, C, s, L, u
<1> QED BY <1>10, <1>12, <1>16, <1>17, <1>18, <1>19, <1>20 DEF IsSplit, P, E

\* Every draw call lies whole in its chunk; in the last one, a raw one may take the
\* word of slack as well.
Whole(split, dcs, packed) ==
  LET m == Len(split.chunks)
      u == Unit(packed) IN
  /\ m \in Nat \ {0} /\ split.chunks = [c \in 1..m |-> split.chunks[c]]
  /\ \A c \in 1..m : split.chunks[c].from \in Nat /\ split.chunks[c].to \in Int
  /\ split.dcs = [d \in DOMAIN dcs |-> split.dcs[d]]
  /\ \A d \in DOMAIN dcs :
       LET c == split.dcs[d].chunk IN
       /\ c \in 1..m
       /\ split.dcs[d].bits = dcs[d].bits /\ split.dcs[d].triangles = dcs[d].triangles
       /\ split.dcs[d].indexOffset = dcs[d].indexOffset - split.chunks[c].from * u
       /\ split.chunks[c].from * u <= dcs[d].indexOffset
       /\ EndWord(dcs[d], packed) <= split.chunks[c].to + IF ~packed /\ c = m THEN 1 ELSE 0

\* Index k of so many, each of so many bits, lies before the end of the last.
LEMMA BitsBefore ==
  ASSUME NEW n \in Nat, NEW k \in 0..(n - 1), NEW b \in Nat \ {0}
  PROVE  k * b \in Nat /\ n * b \in Nat /\ k * b < n * b
<1>1. (n - 1 - k) * b \in Nat
  OBVIOUS
<1>2. k * b \in Nat /\ n * b \in Nat
  OBVIOUS
<1>3. (n - 1 - k) * b = n * b - b - k * b
  OBVIOUS
<1> QED BY <1>1, <1>2, <1>3

\* What is read of a draw call that is whole in its chunk.
LEMMA WholeIsRead ==
  ASSUME NEW packed \in BOOLEAN, NEW dc, IsDraw(dc, packed), packed => dc.bits > 0,
         NEW from \in Nat, NEW to \in Int, from * Unit(packed) <= dc.indexOffset,
         EndWord(dc, packed) <= to + (IF packed THEN 0 ELSE 1),
         NEW r, r.bits = dc.bits, r.indexOffset = dc.indexOffset - from * Unit(packed),
         NEW k \in 0..(3 * dc.triangles - 1)
  PROVE  LastWord(r, k) \in 0..(to - from)
<1> DEFINE o == dc.indexOffset
           n == 3 * dc.triangles
           b == dc.bits
           e == EndWord(dc, packed)
           W == WordBits
<1>1. o \in Nat /\ n \in Nat /\ b \in Nat /\ W \in Nat \ {0} /\ k \in 0..(n - 1) /\ e \in Nat
  BY LayoutAssumption, EndFacts DEF IsDraw
<1>2. CASE packed
  <2>1. b # 0 /\ b \in Nat \ {0} /\ Unit(packed) = W
    BY <1>1, <1>2 DEF Unit
  <2>2. EndAt(dc, packed) = o + n * b
    BY <1>2 DEF EndAt
  <2>3. o + n * b <= e * W /\ e <= to
    <3>1. o + n * b <= e * W
      BY <1>2, <2>1, <2>2, EndFacts
    <3>2. e <= to + 0
      BY <1>2
    <3> HIDE DEF e
    <3> QED BY <1>1, <3>1, <3>2
  <2>4. from * W <= o /\ r.indexOffset = o - from * W /\ r.bits = b
    BY <2>1
  <2>5. LastWord(r, k) = (o - from * W + k * b) \div W + 1
    BY <2>1, <2>4 DEF LastWord
  <2> HIDE DEF o, n, b, e, W
  <2>6. k * b \in Nat /\ n * b \in Nat /\ k * b < n * b
    BY <1>1, <2>1, BitsBefore
  <2> DEFINE x == o - from * W + k * b
  <2>7. from * W \in Nat /\ e * W \in Nat
    BY <1>1
  <2>8. x \in Nat /\ x < e * W - from * W
    BY <1>1, <2>3, <2>4, <2>6, <2>7
  <2>9. e * W - from * W = (e - from) * W
    BY <1>1
  <2> HIDE DEF x
  <2>10. x \div W \in 0..(e - from - 1)
    BY <1>1, <2>8, <2>9, DivBelow
  <2> DEFINE q == x \div W
  <2> HIDE DEF q
  <2>11. q + 1 \in 0..(to - from)
    BY <1>1, <2>3, <2>10 DEF q
  <2> QED BY <2>5, <2>11 DEF x, q
<1>3. CASE ~packed
  <2>1. b = 0 /\ Unit(packed) = 1
    BY <1>3 DEF Unit, IsDraw
  <2>2. EndAt(dc, packed) = o + n * 1
    BY <1>3 DEF EndAt
  <2>3. e = CeilDiv(o + n * 1, 1)
    BY <2>1, <2>2 DEF EndWord
  <2>4. e <= to + 1
    BY <1>3
  <2>5. from * 1 <= o /\ r.indexOffset = o - from * 1 /\ r.bits = 0
    BY <2>1
  <2>6. LastWord(r, k) = o - from * 1 + k
    BY <2>5 DEF LastWord
  <2> HIDE DEF o, n, b, e, W
  <2>7. e = o + n
    BY <1>1, <2>3 DEF CeilDiv
  <2> QED BY <1>1, <2>4, <2>5, <2>6, <2>7
<1> QED BY <1>2, <1>3

\* What a kernel reads of buffers in which every draw call is whole.
LEMMA WholeFetches ==
  ASSUME NEW packed \in BOOLEAN, NEW dcs, NEW n, NEW end, Spread(dcs, n, end, packed),
         NEW split, Whole(split, dcs, packed),
         NEW words, words = [c \in DOMAIN split.chunks |-> ChunkWords(split.chunks[c])],
         NEW d \in DOMAIN dcs, packed => dcs[Base(d, n)].bits > 0,
         NEW k \in 0..(3 * split.dcs[d].triangles - 1)
  PROVE  LastWord(split.dcs[d], k) \in 0..(words[split.dcs[d].chunk] - 1)
<1> DEFINE c == split.dcs[d].chunk
           f == split.chunks[c].from
           t == split.chunks[c].to
           dc == dcs[d]
           r == split.dcs[d]
           m == Len(split.chunks)
<1>1. IsDraw(dc, packed) /\ dcs[Base(d, n)].bits = dc.bits
  BY DEF Spread
<1>2. /\ c \in 1..m /\ r.bits = dc.bits /\ r.triangles = dc.triangles
      /\ r.indexOffset = dc.indexOffset - f * Unit(packed)
      /\ f * Unit(packed) <= dc.indexOffset
      /\ EndWord(dc, packed) <= t + IF ~packed /\ c = m THEN 1 ELSE 0
  BY DEF Whole
<1>3. f \in Nat /\ t \in Int /\ split.chunks = [x \in 1..m |-> split.chunks[x]]
  BY <1>2 DEF Whole
<1>31. EndWord(dc, packed) <= t + IF packed THEN 0 ELSE 1
  <2>1. EndWord(dc, packed) \in Nat
    BY <1>1, EndFacts
  <2> HIDE DEF c, t, dc, m
  <2> QED BY <1>2, <1>3, <2>1
<1>4. packed => dc.bits > 0
  BY <1>1
<1>5. k \in 0..(3 * dc.triangles - 1)
  BY <1>2
<1>6. words[c] = t - f + 1
  <2>1. c \in DOMAIN split.chunks
    BY <1>2, <1>3
  <2> QED BY <2>1 DEF ChunkWords
<1> HIDE DEF c, f, t, dc, r, m
<1>7. LastWord(r, k) \in 0..(t - f)
  BY <1>1, <1>2, <1>3, <1>31, <1>4, <1>5, WholeIsRead
<1>8. LastWord(r, k) \in 0..(words[c] - 1)
  BY <1>3, <1>6, <1>7
<1> QED BY <1>8 DEF r, c

\* When all draw calls are placed and those that begin together end together.
LEMMA SplitIsWhole ==
  ASSUME NEW packed \in BOOLEAN, NEW dcs, NEW n, NEW end, Spread(dcs, n, end, packed),
         NEW split, IsSplit(split, dcs, packed), split.left = {}, Alike(dcs, packed)
  PROVE  Whole(split, dcs, packed)
<1>1. \A d \in DOMAIN dcs : EndWord(dcs[d], packed) \in Nat
  BY EndFacts DEF Spread
<1>2. \A x \in Nat, y \in Int : x <= y => x <= y + 0 /\ x <= y + 1
  OBVIOUS
<1> QED BY <1>1, <1>2 DEF IsSplit, Whole

\* A split begins with no draw call placed.
LEMMA SplitStarts ==
  ASSUME NEW packed \in BOOLEAN, NEW dcs, NEW n, NEW end, Spread(dcs, n, end, packed),
         NEW split, split.dcs = dcs, split.left = DOMAIN dcs,
         split.chunks = <<[from |-> 0, to |-> 0]>>
  PROVE  IsSplit(split, dcs, packed)
<1> DEFINE m == Len(split.chunks)
           D == DOMAIN dcs
<1>1. m = 1 /\ split.chunks = [c \in 1..1 |-> split.chunks[c]] /\ split.chunks[1].from = 0
      /\ split.chunks[1].to = 0
  OBVIOUS
<1>2. dcs = [d \in D |-> dcs[d]]
  BY DEF Spread
<1>3. Unit(packed) \in Nat \ {0}
  BY LayoutAssumption DEF Unit
<1>4. \A d \in D : /\ {"indexOffset", "chunk", "bits", "triangles"} \subseteq DOMAIN dcs[d]
                   /\ dcs[d].indexOffset \in Nat
  BY DEF Spread, IsDraw
<1>5. 0 * Unit(packed) = 0
  BY <1>3
<1> HIDE DEF m
<1> QED BY <1>1, <1>2, <1>4, <1>5 DEF IsSplit, m

\* A direct load has one buffer for all.
LEMMA DirectIsWhole ==
  ASSUME NEW packed \in BOOLEAN, NEW dcs, NEW n, NEW end, Spread(dcs, n, end, packed),
         NEW to, to = IF packed THEN CeilDiv(end, WordBits) ELSE end - 1,
         NEW split, split.dcs = dcs, split.chunks = <<[from |-> 0, to |-> to]>>
  PROVE  Whole(split, dcs, packed)
<1> DEFINE m == Len(split.chunks)
           D == DOMAIN dcs
           u == Unit(packed)
           room == IF packed THEN 0 ELSE 1
<1>1. m = 1 /\ split.chunks = [c \in 1..1 |-> split.chunks[c]] /\ split.chunks[1].from = 0
      /\ split.chunks[1].to = to
  OBVIOUS
<1>2. dcs = [d \in D |-> dcs[d]] /\ end \in Nat
  BY DEF Spread
<1>3. u \in Nat \ {0}
  BY LayoutAssumption DEF Unit
<1>4. \A d \in D : dcs[d].indexOffset \in Nat /\ dcs[d].chunk = 1 /\ EndAt(dcs[d], packed) <= end
                     /\ EndAt(dcs[d], packed) \in Nat
  BY EndFacts DEF Spread, IsDraw
<1>5. \A d \in D : EndWord(dcs[d], packed) <= CeilDiv(end, u)
  BY <1>2, <1>3, <1>4, CeilDivMonotonic DEF EndWord
<1>6. CeilDiv(end, u) = to + room /\ to \in Int
  <2>1. CASE packed
    <3>1. u = WordBits /\ to = CeilDiv(end, WordBits) /\ room = 0
      BY <2>1 DEF Unit
    <3>2. CeilDiv(end, u) \in Nat
      BY <1>2, <1>3, CeilDivBounds
    <3> HIDE DEF u, room
    <3> QED BY <3>1, <3>2
  <2>2. CASE ~packed
    <3>1. u = 1 /\ to = end - 1 /\ room = 1
      BY <2>2 DEF Unit
    <3> HIDE DEF u, room
    <3> QED BY <1>2, <3>1 DEF CeilDiv
  <2> QED BY <2>1, <2>2
<1>7. 0 * u = 0
  BY <1>3
<1>8. \A d \in D : dcs[d].indexOffset = dcs[d].indexOffset - 0
  BY <1>4
<1>9. \A d \in D : EndWord(dcs[d], packed) <= to + room
  BY <1>5, <1>6
<1>10. \A c \in 1..m : c = m /\ room = IF ~packed /\ c = m THEN 1 ELSE 0
  BY <1>1
<1> HIDE DEF m, D, u, room
<1> QED BY <1>1, <1>2, <1>4, <1>6, <1>7, <1>8, <1>9, <1>10 DEF Whole, m, D, u

\* What the parts of a load have: whole triangles, and vertices a word can count.
LEMMA PartsType ==
  ASSUME Shape
  PROVE  Parts \in Nat /\ (~Generated => Parts = Len(kept)) /\ opt \in Options
<1>1. Len(kept) \in Nat /\ opt \in Options
  BY LenProperties DEF Shape
<1>2. Len(opt.generated) \in Nat
  BY <1>1, OptionsAssumption, LenProperties
<1> QED BY <1>1, <1>2 DEF Parts

LEMMA PartFacts ==
  ASSUME Shape, NEW i \in 1..Parts
  PROVE  /\ Len(Part(i).index) \in Nat /\ Triangles(Part(i)) \in Nat
         /\ 3 * Triangles(Part(i)) <= Len(Part(i).index)
         /\ Generated => Part(i).verts \in 0..(Pow2[WordBits])
         /\ ~Generated => IsPlan(Part(i))
<1>1. Len(Part(i).index) \in Nat /\ (Generated => Part(i).verts \in 0..(Pow2[WordBits]))
      /\ (~Generated => IsPlan(Part(i)))
  <2>1. CASE Generated
    <3> DEFINE G == [verts : 0..(Pow2[WordBits]), index : Seq(Nat), instances : Nat]
    <3>1. opt.generated \in Seq(G)
      BY OptionsAssumption DEF Shape
    <3>2. Part(i) = opt.generated[i] /\ i \in 1..Len(opt.generated)
      BY <2>1 DEF Part, Parts
    <3>3. Part(i) \in G
      <4> HIDE DEF G
      <4> QED BY <3>1, <3>2, LenProperties
    <3>4. Part(i).index \in Seq(Nat) /\ Part(i).verts \in 0..(Pow2[WordBits])
      BY <3>3
    <3>5. Len(Part(i).index) \in Nat
      BY <3>4, LenProperties
    <3> QED BY <2>1, <3>4, <3>5
  <2>2. CASE ~Generated
    <3>1. IsPlan(Part(i))
      BY <2>2, PartsType, PartIsPlan DEF Shape
    <3>2. Part(i).index \in Seq(0..Max32)
      BY <3>1 DEF IsPlan
    <3>3. Len(Part(i).index) \in Nat
      BY <3>2, LenProperties
    <3> QED BY <2>2, <3>1, <3>3
  <2> QED BY <2>1, <2>2
<1> DEFINE n == Len(Part(i).index)
<1>2. Triangles(Part(i)) = n \div 3
  BY DEF Triangles
<1> HIDE DEF n
<1>3. n \in Nat
  BY <1>1 DEF n
<1>4. n \div 3 \in Nat /\ 3 * (n \div 3) <= n
  BY <1>3
<1> QED BY <1>1, <1>2, <1>4 DEF n

\* The bits of an index of a primitive, and of a generated mesh.
LEMMA PartBits ==
  ASSUME Shape, NEW i \in 1..Parts
  PROVE  /\ ~Generated => BitsFor(IndexRange(Part(i))[2] - IndexRange(Part(i))[1] + 1) \in Nat
         /\ Generated => BitsFor(Part(i).verts) \in Nat
                         /\ BitsFor((Part(i).verts - 1) - 0 + 1) \in Nat
<1>1. ~Generated => BitsFor(IndexRange(Part(i))[2] - IndexRange(Part(i))[1] + 1) \in Nat
  BY PartFacts, RangeOfPlan
<1>2. ASSUME Generated
      PROVE  BitsFor(Part(i).verts) \in Nat /\ BitsFor((Part(i).verts - 1) - 0 + 1) \in Nat
  <2> DEFINE v == Part(i).verts
  <2>1. v \in 0..(Pow2[WordBits])
    BY <1>2, PartFacts
  <2> HIDE DEF v
  <2>2. v \in Int /\ v <= Pow2[WordBits] /\ (v - 1) - 0 + 1 = v
    BY <2>1
  <2>3. BitsFor(v) \in 0..WordBits
    BY <2>2, BitsAreBits
  <2>4. BitsFor(v) \in Nat
    BY <2>3, LayoutAssumption
  <2> QED BY <2>2, <2>4 DEF v
<1> QED BY <1>1, <1>2

\* The draw call of a part.
LEMMA NewDraw ==
  ASSUME Shape, NEW i \in 1..Parts, nextIndex \in Nat,
         NEW bits \in Nat, ~opt.packed => bits = 0, NEW min, NEW instances, NEW first
  PROVE  LET dc == NewDrawCall(i, bits, min, instances, first) IN
         /\ IsDraw(dc, opt.packed) /\ dc.chunk = 1 /\ dc.indexOffset = nextIndex
         /\ dc.bits = bits /\ dc.triangles = Triangles(Part(i))
         /\ DOMAIN dc = {"vertexOffset", "indexOffset", "bits", "indexMin", "triangles",
                         "start", "instances", "firstInstance", "chunk"}
<1>1. Triangles(Part(i)) \in Nat
  BY PartFacts
<1> QED BY <1>1 DEF NewDrawCall, IsDraw

\* It comes after those there are, in a range that holds the part's indices.
LEMMA LaidNext ==
  ASSUME Shape, NEW i \in 1..Parts, Laid(scene.dcs, nextIndex, opt.packed),
         NEW bits \in Nat, ~opt.packed => bits = 0, NEW min, NEW instances, NEW first,
         NEW e \in Nat,
         nextIndex + Len(Part(i).index) * (IF opt.packed THEN bits ELSE 1) <= e
  PROVE  \A dcs : dcs = Append(scene.dcs, NewDrawCall(i, bits, min, instances, first))
                  => Laid(dcs, e, opt.packed) /\ Len(dcs) = Len(scene.dcs) + 1
<1> DEFINE dc == NewDrawCall(i, bits, min, instances, first)
           b == IF opt.packed THEN bits ELSE 1
           n == Len(Part(i).index)
           t == 3 * Triangles(Part(i))
<1>1. nextIndex \in Nat /\ opt.packed \in BOOLEAN
  BY OptionsAssumption DEF Laid, Shape
<1>2. /\ IsDraw(dc, opt.packed) /\ dc.chunk = 1 /\ dc.indexOffset = nextIndex
      /\ dc.bits = bits /\ dc.triangles = Triangles(Part(i))
  BY <1>1, NewDraw
<1>3. n \in Nat /\ t \in Nat /\ t <= n /\ b \in Nat
  BY PartFacts
<1>4. EndAt(dc, opt.packed) = nextIndex + t * b
  BY <1>2 DEF EndAt
<1> HIDE DEF dc, b, n, t
<1>5. t * b \in Nat /\ n * b \in Nat /\ (n - t) * b \in Nat /\ (n - t) * b = n * b - t * b
  BY <1>3
<1>6. nextIndex + n * b <= e
  BY DEF n, b
<1>7. EndAt(dc, opt.packed) <= e
  BY <1>1, <1>4, <1>5, <1>6
<1>8. Laid(Append(scene.dcs, dc), e, opt.packed) /\ Len(Append(scene.dcs, dc)) = Len(scene.dcs) + 1
  BY <1>1, <1>2, <1>7, LaidAppend
<1> QED BY <1>8 DEF dc

-----------------------------------------------------------------------------
(* The draw calls, pass by pass, and what is read of them.                 *)

Registered(dc, i, p, packed) ==
  /\ IsDraw(dc, packed) /\ dc.chunk = i /\ dc.indexOffset = 0 /\ dc.triangles = Triangles(p)
SplitInv ==
  /\ Spread(scene.dcs, Parts, nextIndex, opt.packed)
  /\ IF opt.direct THEN Whole(gpu, scene.dcs, opt.packed) /\ gpu.left = {}
                   ELSE IsSplit(gpu, scene.dcs, opt.packed)
DrawsInv ==
  /\ pass \in {"cap", "scan", "adopt"} => scene.dcs = <<>> /\ nextIndex = 0
  /\ pass = "adopt" => next = 1
  /\ pass = "build" => Generated
  /\ pass = "register" => opt.registry /\ nextIndex = 0
                          /\ scene.dcs = [i \in 1..Len(scene.dcs) |-> DC(i)]
                          /\ \A i \in 1..Len(scene.dcs) : Registered(DC(i), i, Part(i), opt.packed)
  /\ pass \in {"reserve", "build", "register"} => Len(scene.dcs) = next - 1 /\ next <= Parts + 1
  /\ pass \in {"fill", "loaded"} => Len(scene.dcs) = Parts
  /\ pass \in {"loaded", "split"} => Parts # 0
  /\ pass \in {"reserve", "fill", "build", "loaded"} => Laid(scene.dcs, nextIndex, opt.packed)
  /\ pass = "split" => SplitInv
  /\ FetchesInBuffer

LEMMA PartsKept ==
  ASSUME UNCHANGED <<opt, kept>>
  PROVE  Parts' = Parts /\ Generated' = Generated /\ \A i : Part(i)' = Part(i)
<1>1. Generated' = Generated
  BY DEF Generated
<1> QED BY <1>1 DEF Parts, Part

\* What the steps of the tasks and of the plan leave alone.
LEMMA DrawsKept ==
  ASSUME DrawsInv, UNCHANGED <<pass, next, opt, kept, scene, nextIndex, gpu>>
  PROVE  DrawsInv'
<1>1. Parts' = Parts /\ Generated' = Generated /\ \A i : Part(i)' = Part(i)
  BY PartsKept
<1>2. FetchesInBuffer'
  <2>1. \A i : Sound(i)' = Sound(i)
    BY <1>1 DEF Sound, Has, DC
  <2>2. \A d : PartOf(d)' = PartOf(d)
    BY <1>1 DEF PartOf
  <2>3. FetchesInBuffer
    BY DEF DrawsInv
  <2> QED BY <2>1, <2>2, <2>3 DEF FetchesInBuffer, Ready
<1>3. SplitInv' = SplitInv
  BY <1>1 DEF SplitInv
<1>4. \A i : DC(i)' = DC(i)
  BY DEF DC
<1> QED BY <1>1, <1>2, <1>3, <1>4 DEF DrawsInv

\* While the load is under way, nothing is drawn.
LEMMA NotYet ==
  ASSUME pass \notin {"uploaded", "registered"}
  PROVE  FetchesInBuffer
BY DEF FetchesInBuffer, Ready

LEMMA NotYetNext ==
  ASSUME pass' \notin {"uploaded", "registered"}
  PROVE  FetchesInBuffer'
BY DEF FetchesInBuffer, Ready

LEMMA NothingLaid ==
  ASSUME NEW packed
  PROVE  Laid(<<>>, 0, packed) /\ Len(<<>>) = 0
BY DEF Laid

LEMMA InitDraws == ASSUME Init PROVE DrawsInv
<1>1. /\ opt \in Options /\ next = 1 /\ scene.dcs = <<>> /\ nextIndex = 0 /\ kept = <<>>
      /\ pass = IF opt.generated = <<>> THEN "cap" ELSE IF opt.registry THEN "register" ELSE "build"
  BY DEF Init
<1>2. Parts \in Nat
  BY <1>1, OptionsAssumption, LenProperties DEF Parts
<1>3. Len(scene.dcs) = 0 /\ Laid(scene.dcs, nextIndex, opt.packed)
  BY <1>1, NothingLaid
<1>4. scene.dcs = [i \in 1..Len(scene.dcs) |-> DC(i)]
  BY <1>1, <1>3 DEF DC
<1>5. \A i \in 1..Len(scene.dcs) : FALSE
  BY <1>3
<1>6. FetchesInBuffer
  BY <1>1, NotYet
<1> QED BY <1>1, <1>2, <1>3, <1>4, <1>5, <1>6 DEF DrawsInv, Generated

\* Each action, in turn.
LEMMA CountUsesDraws == ASSUME ViewsInv, DrawsInv, CountUses PROVE DrawsInv'
<1>1. /\ pass = "cap" /\ pass' = (IF opt.packed \/ opt.registry THEN "scan" ELSE "reserve")
      /\ next' = 1 /\ UNCHANGED <<opt, kept, scene, nextIndex>>
  BY DEF CountUses, planVars
<1>2. scene.dcs = <<>> /\ nextIndex = 0
  BY <1>1 DEF DrawsInv
<1>3. next' <= Parts' + 1
  <2>1. Parts \in Nat
    BY PartsType DEF ViewsInv
  <2>2. Parts' = Parts
    BY <1>1, PartsKept
  <2> QED BY <1>1, <2>1, <2>2
<1>4. Laid(scene'.dcs, nextIndex', opt'.packed) /\ Len(scene'.dcs) = 0
  BY <1>1, <1>2, NothingLaid
<1>5. FetchesInBuffer'
  BY <1>1, NotYetNext
<1>6. Len(scene'.dcs) = next' - 1 /\ next' <= Parts' + 1
  <2>1. next' = 1 /\ Len(scene'.dcs) = 0
    BY <1>1, <1>4
  <2>2. Len(scene'.dcs) = next' - 1
    BY <2>1
  <2> QED BY <1>3, <2>2
<1>7. pass' \in {"scan", "reserve"} /\ scene'.dcs = <<>> /\ nextIndex' = 0
  BY <1>1, <1>2
<1> QED BY <1>4, <1>5, <1>6, <1>7 DEF DrawsInv

LEMMA ReserveDraws == ASSUME ViewsInv, DrawsInv, Reserve PROVE DrawsInv'
<1> DEFINE p == Part(next)
           bits == IF opt.packed THEN BitsFor(IndexRange(p)[2] - IndexRange(p)[1] + 1) ELSE 0
           n == Len(p.index)
           e == IF opt.packed THEN WordAligned(nextIndex + n * bits) ELSE nextIndex + n
<1>0. Shape /\ PassInv /\ opt.packed \in BOOLEAN
  BY OptionsAssumption DEF ViewsInv, Shape
<1>1. /\ pass = "reserve" /\ pass' = pass /\ next' = next + 1 /\ next <= Len(kept)
      /\ nextIndex' = e /\ UNCHANGED <<opt, kept>>
  BY DEF Reserve
<1>2. \E min, instances, first :
        scene'.dcs = Append(scene.dcs, NewDrawCall(next, bits, min, instances, first))
  BY DEF Reserve
<1>3. ~Generated /\ Parts = Len(kept) /\ next \in 1..Parts /\ Parts \in Nat /\ next \in Nat
  BY <1>0, <1>1, PartsType DEF PassInv, Shape
<1>4. bits \in Nat /\ (~opt.packed => bits = 0)
  BY <1>0, <1>3, PartBits
<1>5. n \in Nat
  BY <1>0, <1>3, PartFacts
<1>6. Laid(scene.dcs, nextIndex, opt.packed) /\ Len(scene.dcs) = next - 1 /\ nextIndex \in Nat
  BY <1>1 DEF DrawsInv, Laid
<1> HIDE DEF bits, n
<1>7. e \in Nat /\ nextIndex + n * (IF opt.packed THEN bits ELSE 1) <= e
  <2>1. n * bits \in Nat
    BY <1>4, <1>5
  <2>2. CASE opt.packed
    <3>1. nextIndex + n * bits \in Nat
      BY <1>6, <2>1
    <3>2. WordAligned(nextIndex + n * bits) \in Nat
          /\ nextIndex + n * bits <= WordAligned(nextIndex + n * bits)
      BY <3>1, Aligned
    <3> QED BY <2>2, <3>2
  <2>3. CASE ~opt.packed
    BY <1>5, <1>6, <2>3
  <2> QED BY <2>2, <2>3
<1>8. PICK min, instances, first :
        scene'.dcs = Append(scene.dcs, NewDrawCall(next, bits, min, instances, first))
  BY <1>2 DEF bits
<1> HIDE DEF e
<1>9. Laid(scene'.dcs, e, opt.packed) /\ Len(scene'.dcs) = Len(scene.dcs) + 1
  <2>1. nextIndex + Len(Part(next).index) * (IF opt.packed THEN bits ELSE 1) <= e
    BY <1>7 DEF n
  <2>2. \A dcs : dcs = Append(scene.dcs, NewDrawCall(next, bits, min, instances, first))
                 => Laid(dcs, e, opt.packed) /\ Len(dcs) = Len(scene.dcs) + 1
    <3>1. Shape /\ next \in 1..Parts /\ Laid(scene.dcs, nextIndex, opt.packed)
          /\ bits \in Nat /\ e \in Nat /\ (~opt.packed => bits = 0)
      BY <1>0, <1>3, <1>4, <1>6, <1>7
    <3> QED BY <2>1, <3>1, LaidNext, Zenon
  <2> QED BY <1>8, <2>2
<1>10. Laid(scene'.dcs, nextIndex', opt'.packed) /\ Len(scene'.dcs) = next' - 1
       /\ next' <= Parts' + 1
  <2>1. Parts' = Parts
    BY <1>1, PartsKept
  <2> QED BY <1>1, <1>3, <1>6, <1>9, <2>1
<1>11. FetchesInBuffer'
  BY <1>1, NotYetNext
<1> QED BY <1>1, <1>10, <1>11 DEF DrawsInv

LEMMA AddMeshDraws == ASSUME ViewsInv, DrawsInv, AddMesh PROVE DrawsInv'
<1> DEFINE p == Part(next)
           bits == IF opt.packed THEN BitsFor(p.verts) ELSE 0
           n == Len(p.index)
           e == IF ~opt.packed THEN nextIndex + n
                ELSE IF bits = 0 THEN nextIndex
                ELSE nextIndex + (CeilDiv(n * bits, WordBits) + 1) * WordBits
<1>0. Shape /\ PassInv /\ opt.packed \in BOOLEAN
  BY OptionsAssumption DEF ViewsInv, Shape
<1>1. /\ pass = "build" /\ next' = next + 1 /\ next <= Len(opt.generated)
      /\ pass' = (IF next = Len(opt.generated) THEN "loaded" ELSE pass)
      /\ nextIndex' = e /\ UNCHANGED <<opt, kept>>
  BY DEF AddMesh
<1>2. \E min, instances, first :
        scene'.dcs = Append(scene.dcs, NewDrawCall(next, bits, min, instances, first))
  BY DEF AddMesh
<1>3. Generated /\ Parts = Len(opt.generated) /\ next \in 1..Parts /\ Parts \in Nat /\ next \in Nat
  <2>1. Generated
    BY <1>1 DEF DrawsInv
  <2> QED BY <1>0, <1>1, <2>1, PartsType DEF Parts, Shape
<1>4. bits \in Nat /\ (~opt.packed => bits = 0)
  BY <1>0, <1>3, PartBits
<1>5. n \in Nat
  BY <1>0, <1>3, PartFacts
<1>6. Laid(scene.dcs, nextIndex, opt.packed) /\ Len(scene.dcs) = next - 1 /\ nextIndex \in Nat
  BY <1>1 DEF DrawsInv, Laid
<1> HIDE DEF bits, n
<1>7. e \in Nat /\ nextIndex + n * (IF opt.packed THEN bits ELSE 1) <= e
  <2>1. n * bits \in Nat /\ n * 0 = 0
    BY <1>4, <1>5
  <2>2. CASE opt.packed /\ bits # 0
    <3> DEFINE c == CeilDiv(n * bits, WordBits)
    <3>1. WordBits \in Nat \ {0}
      BY LayoutAssumption
    <3>2. c \in Nat /\ n * bits <= c * WordBits
      BY <2>1, <3>1, CeilDivBounds
    <3>3. e = nextIndex + (c + 1) * WordBits
      BY <2>2
    <3> HIDE DEF c, e
    <3>4. c * WordBits \in Nat /\ (c + 1) * WordBits = c * WordBits + WordBits
      BY <3>1, <3>2
    <3> QED BY <1>6, <2>1, <2>2, <3>1, <3>2, <3>3, <3>4
  <2>3. CASE opt.packed /\ bits = 0
    BY <1>6, <2>1, <2>3
  <2>4. CASE ~opt.packed
    BY <1>5, <1>6, <2>4
  <2> QED BY <2>2, <2>3, <2>4
<1>8. PICK min, instances, first :
        scene'.dcs = Append(scene.dcs, NewDrawCall(next, bits, min, instances, first))
  BY <1>2 DEF bits
<1> HIDE DEF e
<1>9. Laid(scene'.dcs, e, opt.packed) /\ Len(scene'.dcs) = Len(scene.dcs) + 1
  <2>1. nextIndex + Len(Part(next).index) * (IF opt.packed THEN bits ELSE 1) <= e
    BY <1>7 DEF n
  <2>2. \A dcs : dcs = Append(scene.dcs, NewDrawCall(next, bits, min, instances, first))
                 => Laid(dcs, e, opt.packed) /\ Len(dcs) = Len(scene.dcs) + 1
    <3>1. Shape /\ next \in 1..Parts /\ Laid(scene.dcs, nextIndex, opt.packed)
          /\ bits \in Nat /\ e \in Nat /\ (~opt.packed => bits = 0)
      BY <1>0, <1>3, <1>4, <1>6, <1>7
    <3> QED BY <2>1, <3>1, LaidNext, Zenon
  <2> QED BY <1>8, <2>2
<1>10. Parts' = Parts /\ Generated' = Generated
  BY <1>1, PartsKept
<1>11. Laid(scene'.dcs, nextIndex', opt'.packed) /\ Len(scene'.dcs) = next' - 1
       /\ next' <= Parts' + 1 /\ (next = Parts => Len(scene'.dcs) = Parts' /\ Parts' # 0)
  BY <1>1, <1>3, <1>6, <1>9, <1>10
<1>12. FetchesInBuffer'
  BY <1>1, NotYetNext
<1> QED BY <1>1, <1>3, <1>10, <1>11, <1>12 DEF DrawsInv

\* The steps between the passes.
LEMMA BetweenDraws ==
  ASSUME ViewsInv, DrawsInv, Allocate \/ EndPass \/ Adopt
  PROVE  DrawsInv'
<1>1. UNCHANGED <<opt, kept, scene, nextIndex>>
  BY DEF Allocate, EndPass, Adopt, planVars
<1>2. Shape /\ PassInv
  BY DEF ViewsInv
<1>3. Parts \in Nat /\ Parts' = Parts /\ Generated' = Generated /\ (~Generated => Parts = Len(kept))
      /\ next \in Nat
  BY <1>1, <1>2, PartsType, PartsKept DEF Shape
<1>4. CASE Allocate
  <2>1. pass = "reserve" /\ next > Len(kept) /\ pass' \in {"failed", "fill"} /\ next' = 1
    BY <1>4 DEF Allocate
  <2>2. Len(scene.dcs) = Parts /\ Laid(scene.dcs, nextIndex, opt.packed)
    <3>1. Len(scene.dcs) = next - 1 /\ next <= Parts + 1
      BY <2>1 DEF DrawsInv
    <3>2. ~Generated /\ Laid(scene.dcs, nextIndex, opt.packed)
      BY <1>2, <2>1 DEF PassInv, DrawsInv
    <3> QED BY <1>3, <2>1, <3>1, <3>2
  <2>3. FetchesInBuffer'
    BY <2>1, NotYetNext
  <2> QED BY <1>1, <1>3, <2>1, <2>2, <2>3 DEF DrawsInv
<1>5. CASE EndPass
  <2>1. /\ pass \in {"scan", "fill"} /\ next' = 1
        /\ pass' = IF pass = "scan" THEN IF opt.registry THEN "adopt" ELSE "reserve"
                   ELSE IF kept = <<>> THEN "failed" ELSE "loaded"
    BY <1>5 DEF EndPass
  <2>2. FetchesInBuffer'
    BY <2>1, NotYetNext
  <2>3. CASE pass = "scan"
    <3>1. scene.dcs = <<>> /\ nextIndex = 0
      BY <2>3 DEF DrawsInv
    <3>2. Laid(scene'.dcs, nextIndex', opt'.packed) /\ Len(scene'.dcs) = 0
      BY <1>1, <3>1, NothingLaid
    <3> QED BY <1>1, <1>3, <2>1, <2>2, <2>3, <3>1, <3>2 DEF DrawsInv
  <2>4. CASE pass = "fill"
    <3>1. Len(scene.dcs) = Parts /\ Laid(scene.dcs, nextIndex, opt.packed)
      BY <2>4 DEF DrawsInv
    <3>2. kept # <<>> => Parts # 0
      <4>1. kept \in Seq(DOMAIN Plans) /\ Parts = Len(kept)
        BY <1>2, <1>3, <2>4 DEF Shape, PassInv
      <4> QED BY <4>1, EmptySeq
    <3> QED BY <1>1, <1>3, <2>1, <2>2, <2>4, <3>1, <3>2 DEF DrawsInv
  <2> QED BY <2>1, <2>3, <2>4
<1>6. CASE Adopt
  <2>1. pass = "adopt" /\ pass' = "register" /\ next' = next
    BY <1>6 DEF Adopt
  <2>2. scene.dcs = <<>> /\ nextIndex = 0 /\ next = 1 /\ opt.registry
    BY <1>2, <2>1 DEF DrawsInv, PassInv
  <2>3. FetchesInBuffer'
    BY <2>1, NotYetNext
  <2>4. Len(scene'.dcs) = 0 /\ scene'.dcs = <<>>
    BY <1>1, <2>2, NothingLaid
  <2>5. scene'.dcs = [i \in 1..Len(scene'.dcs) |-> DC(i)']
    BY <2>4
  <2>6. \A i \in 1..Len(scene'.dcs) : FALSE
    BY <2>4
  <2> QED BY <1>1, <1>3, <2>1, <2>2, <2>3, <2>4, <2>5, <2>6 DEF DrawsInv
<1> QED BY <1>4, <1>5, <1>6

\* What a kernel reads of a mesh paged in by itself.
LEMMA RegisteredReads ==
  ASSUME NEW packed \in BOOLEAN, NEW dc, NEW i, NEW p, Registered(dc, i, p, packed),
         Len(p.index) \in Nat, 3 * Triangles(p) <= Len(p.index),
         packed => dc.bits > 0, NEW k \in 0..(3 * dc.triangles - 1)
  PROVE  LastWord(dc, k) \in
           0..((IF packed THEN CeilDiv(Len(p.index) * dc.bits, WordBits) + 1 ELSE Len(p.index)) - 1)
<1> DEFINE n == Len(p.index)
           b == dc.bits
           W == WordBits
<1>1. /\ dc.indexOffset = 0 /\ dc.triangles = Triangles(p) /\ dc.triangles \in Nat
      /\ b \in Nat /\ W \in Nat \ {0} /\ n \in Nat /\ (~packed => b = 0)
  BY LayoutAssumption DEF Registered, IsDraw
<1>2. k \in 0..(n - 1)
  <2> DEFINE t == dc.triangles
  <2>1. t \in Nat /\ 3 * t <= n /\ k \in 0..(3 * t - 1) /\ n \in Nat
    BY <1>1
  <2> HIDE DEF t, n
  <2> QED BY <2>1
<1>3. CASE packed
  <2>1. b \in Nat \ {0}
    BY <1>1, <1>3
  <2>2. LastWord(dc, k) = (0 + k * b) \div W + 1
    BY <1>1, <2>1 DEF LastWord
  <2> DEFINE c == CeilDiv(n * b, W)
  <2> HIDE DEF n, b, W
  <2>3. k * b \in Nat /\ n * b \in Nat /\ k * b < n * b
    BY <1>1, <1>2, <2>1, BitsBefore
  <2>4. c \in Nat /\ n * b <= c * W
    BY <1>1, <2>3, CeilDivBounds
  <2> HIDE DEF c
  <2> DEFINE x == k * b
  <2>5. x \in Nat /\ x < c * W
    <3>1. c * W \in Nat
      BY <1>1, <2>4
    <3> QED BY <2>3, <2>4, <3>1
  <2>6. LastWord(dc, k) = x \div W + 1
    <3>1. 0 + x = x
      BY <2>5
    <3> QED BY <2>2, <3>1
  <2> HIDE DEF x
  <2>7. x \div W \in 0..(c - 1)
    <3>1. x \in Nat /\ c \in Int /\ W \in Nat \ {0} /\ x < c * W
      BY <1>1, <2>4, <2>5
    <3> QED BY <3>1, DivBelow, Zenon
  <2> DEFINE q == x \div W
  <2> HIDE DEF q
  <2>8. q + 1 \in 0..((c + 1) - 1)
    BY <2>4, <2>7 DEF q
  <2> QED BY <1>3, <2>6, <2>8 DEF q, c, n, b, W
<1>4. CASE ~packed
  <2>1. LastWord(dc, k) = 0 + k
    BY <1>1, <1>4 DEF LastWord
  <2> QED BY <1>1, <1>2, <1>4, <2>1
<1> QED BY <1>3, <1>4

\* What is read of what is handed to the kernels.
LEMMA FetchesNext ==
  ASSUME UNCHANGED <<opt, kept, scene>>, NEW dcs, NEW words,
         gpu'.dcs = dcs, gpu'.words = words,
         \A d \in DOMAIN dcs : (opt.packed => scene.dcs[Base(d, Parts)].bits > 0) =>
           \A k \in 0..(3 * dcs[d].triangles - 1) :
             LastWord(dcs[d], k) \in 0..(words[dcs[d].chunk] - 1)
  PROVE  FetchesInBuffer'
<1>1. Parts' = Parts
  BY PartsKept
<1>2. SUFFICES ASSUME NEW d \in DOMAIN dcs, Sound(PartOf(d))',
                      NEW k \in 0..(3 * dcs[d].triangles - 1)
               PROVE  LastWord(dcs[d], k) \in 0..(words[dcs[d].chunk] - 1)
  BY DEF FetchesInBuffer
<1>3. opt'.packed => scene'.dcs[((d - 1) % Parts') + 1].bits > 0
  BY <1>2 DEF Sound, DC, PartOf
<1>4. opt.packed => scene.dcs[Base(d, Parts)].bits > 0
  BY <1>1, <1>3 DEF Base
<1> QED BY <1>2, <1>4

LEMMA RegisterDraws == ASSUME ViewsInv, DrawsInv, Register PROVE DrawsInv'
<1> DEFINE p == Part(next)
           range == IF Generated THEN <<0, p.verts - 1>> ELSE IndexRange(p)
           bits == IF opt.packed THEN BitsFor(range[2] - range[1] + 1) ELSE 0
<1>0. Shape /\ PassInv /\ opt.packed \in BOOLEAN
  BY OptionsAssumption DEF ViewsInv, Shape
<1>1. /\ pass = "register" /\ pass' = pass /\ next <= Parts /\ next' = next + 1
      /\ UNCHANGED <<opt, kept, nextIndex>>
  BY DEF Register
<1>2. \E min, instances, first :
        scene'.dcs = Append(scene.dcs,
                            [NewDrawCall(next, bits, min, instances, first) EXCEPT !.chunk = next])
  BY DEF Register
<1>3. /\ opt.registry /\ nextIndex = 0 /\ Len(scene.dcs) = next - 1
      /\ scene.dcs = [i \in 1..Len(scene.dcs) |-> DC(i)]
      /\ \A i \in 1..Len(scene.dcs) : Registered(DC(i), i, Part(i), opt.packed)
  BY <1>1 DEF DrawsInv
<1>4. Parts \in Nat /\ next \in Nat \ {0} /\ next \in 1..Parts
  BY <1>0, <1>1, PartsType DEF Shape
<1>5. bits \in Nat /\ (~opt.packed => bits = 0)
  <2>1. CASE Generated
    <3>1. range[2] - range[1] + 1 = (p.verts - 1) - 0 + 1
      BY <2>1
    <3> HIDE DEF range, p
    <3>2. BitsFor((p.verts - 1) - 0 + 1) \in Nat
      BY <1>0, <1>4, <2>1, PartBits DEF p
    <3> QED BY <3>1, <3>2
  <2>2. CASE ~Generated
    <3>1. range = IndexRange(p)
      BY <2>2
    <3>2. BitsFor(IndexRange(p)[2] - IndexRange(p)[1] + 1) \in Nat
      BY <1>0, <1>4, <2>2, PartBits
    <3> HIDE DEF range, p
    <3> QED BY <3>1, <3>2
  <2> QED BY <2>1, <2>2
<1>6. PICK min, instances, first :
        scene'.dcs = Append(scene.dcs,
                            [NewDrawCall(next, bits, min, instances, first) EXCEPT !.chunk = next])
  BY <1>2
<1> DEFINE dc == NewDrawCall(next, bits, min, instances, first)
           x == [dc EXCEPT !.chunk = next]
<1> HIDE DEF bits, range, p
<1>7. Registered(x, next, Part(next), opt.packed)
  <2>1. /\ IsDraw(dc, opt.packed) /\ dc.indexOffset = 0 /\ dc.triangles = Triangles(Part(next))
        /\ {"indexOffset", "bits", "triangles", "chunk"} \subseteq DOMAIN dc
    <3>1. nextIndex \in Nat
      BY <1>3
    <3>2. IsDraw(dc, opt.packed) /\ dc.indexOffset = nextIndex /\ dc.triangles = Triangles(Part(next))
      BY <1>0, <1>4, <1>5, <3>1, NewDraw
    <3> HIDE DEF dc
    <3> QED BY <1>3, <3>2 DEF IsDraw
  <2> HIDE DEF dc
  <2>2. /\ DOMAIN x = DOMAIN dc /\ x.indexOffset = dc.indexOffset /\ x.bits = dc.bits
        /\ x.triangles = dc.triangles /\ x.chunk = next
    BY <2>1
  <2> HIDE DEF x
  <2> QED BY <2>1, <2>2 DEF Registered, IsDraw
<1> DEFINE n == next - 1
           a == Append(scene.dcs, x)
<1>8. n \in Nat /\ n + 1 = next /\ scene.dcs = [i \in 1..n |-> scene.dcs[i]]
  BY <1>3, <1>4 DEF DC
<1> HIDE DEF x
<1>9. /\ Len(a) = n + 1 /\ a = [i \in 1..(n + 1) |-> a[i]]
      /\ a[n + 1] = x /\ \A i \in 1..n : a[i] = scene.dcs[i]
  <2> HIDE DEF n
  <2> QED BY <1>8, AppendIs
<1>10. scene'.dcs = a
  BY <1>6 DEF x
<1>11. Parts' = Parts /\ Generated' = Generated /\ \A i : Part(i)' = Part(i)
  BY <1>1, PartsKept
<1> HIDE DEF a, n
<1>12. Len(scene'.dcs) = next' - 1 /\ next' <= Parts' + 1 /\ Len(scene'.dcs) = next
  BY <1>1, <1>4, <1>8, <1>9, <1>10, <1>11
<1>13. scene'.dcs = [i \in 1..Len(scene'.dcs) |-> DC(i)']
  BY <1>8, <1>9, <1>10, <1>12 DEF DC
<1>14. \A i \in 1..next : Registered(a[i], i, Part(i), opt.packed)
  <2> SUFFICES ASSUME NEW i \in 1..next PROVE Registered(a[i], i, Part(i), opt.packed)
    OBVIOUS
  <2>1. i \in 1..n \/ i = n + 1
    BY <1>4, <1>8
  <2>2. CASE i = n + 1
    BY <1>7, <1>8, <1>9, <2>2
  <2>3. CASE i \in 1..n
    <3>1. i \in 1..Len(scene.dcs)
      BY <1>3, <2>3 DEF n
    <3> QED BY <1>3, <1>9, <2>3, <3>1 DEF DC
  <2> QED BY <2>1, <2>2, <2>3
<1>15. \A i \in 1..Len(scene'.dcs) : Registered(DC(i)', i, Part(i)', opt'.packed)
  BY <1>1, <1>10, <1>11, <1>12, <1>14 DEF DC
<1>16. FetchesInBuffer'
  BY <1>1, NotYetNext
<1>17. opt'.registry /\ nextIndex' = 0 /\ pass' = "register"
  BY <1>1, <1>3
<1> QED BY <1>12, <1>13, <1>15, <1>16, <1>17 DEF DrawsInv

LEMMA FinalizeDraws == ASSUME ViewsInv, DrawsInv, Finalize PROVE DrawsInv'
<1> DEFINE words == [i \in 1..Parts |->
                      IF opt.packed THEN CeilDiv(Len(Part(i).index) * DC(i).bits, WordBits) + 1
                                    ELSE Len(Part(i).index)]
<1>0. Shape /\ opt.packed \in BOOLEAN
  BY OptionsAssumption DEF ViewsInv, Shape
<1>1. /\ pass = "register" /\ next > Parts /\ pass' = "registered"
      /\ gpu'.dcs = scene.dcs /\ gpu'.words = words
      /\ UNCHANGED <<opt, kept, scene>>
  BY DEF Finalize, planVars
<1>2. /\ Len(scene.dcs) = next - 1 /\ next <= Parts + 1
      /\ scene.dcs = [i \in 1..Len(scene.dcs) |-> DC(i)]
      /\ \A i \in 1..Len(scene.dcs) : Registered(DC(i), i, Part(i), opt.packed)
  BY <1>1 DEF DrawsInv
<1>3. Parts \in Nat /\ next \in Nat \ {0}
  BY <1>0, PartsType DEF Shape
<1>4. Len(scene.dcs) = Parts
  BY <1>1, <1>2, <1>3
<1>5. DOMAIN scene.dcs = 1..Parts
  BY <1>2, <1>4
<1>6. ASSUME NEW d \in 1..Parts, opt.packed => scene.dcs[Base(d, Parts)].bits > 0,
             NEW k \in 0..(3 * scene.dcs[d].triangles - 1)
      PROVE  LastWord(scene.dcs[d], k) \in 0..(words[scene.dcs[d].chunk] - 1)
  <2>1. Base(d, Parts) = d
    <3>1. d \in Nat \ {0} /\ d <= Parts /\ Parts \in Nat \ {0}
      BY <1>3
    <3> QED BY <3>1, BaseFacts
  <2>2. Registered(scene.dcs[d], d, Part(d), opt.packed)
    BY <1>2, <1>4 DEF DC
  <2>3. Len(Part(d).index) \in Nat /\ 3 * Triangles(Part(d)) <= Len(Part(d).index)
    BY <1>0, PartFacts
  <2>4. opt.packed => scene.dcs[d].bits > 0
    BY <1>6, <2>1
  <2>5. LastWord(scene.dcs[d], k) \in
          0..((IF opt.packed THEN CeilDiv(Len(Part(d).index) * scene.dcs[d].bits, WordBits) + 1
                             ELSE Len(Part(d).index)) - 1)
    BY <1>0, <2>2, <2>3, <2>4, RegisteredReads
  <2>6. scene.dcs[d].chunk = d
    BY <2>2 DEF Registered
  <2>7. words[d] = IF opt.packed THEN CeilDiv(Len(Part(d).index) * scene.dcs[d].bits, WordBits) + 1
                                 ELSE Len(Part(d).index)
    BY DEF DC
  <2> HIDE DEF words
  <2> QED BY <2>5, <2>6, <2>7
<1> HIDE DEF words
<1>7. FetchesInBuffer'
  BY <1>1, <1>5, <1>6, FetchesNext
<1> QED BY <1>1, <1>7 DEF DrawsInv

LEMMA RepeatDraws == ASSUME ViewsInv, DrawsInv, Repeat PROVE DrawsInv'
<1> DEFINE whole == Replicate(scene, opt.copies)
           g == [dcs |-> whole.dcs, left |-> IF opt.direct THEN {} ELSE DOMAIN whole.dcs,
                 chunks |-> <<[from |-> 0, to |-> IF opt.direct THEN IndexWords - 1 ELSE 0]>>]
<1>0. Shape /\ opt.packed \in BOOLEAN /\ opt.direct \in BOOLEAN /\ opt.copies \in Nat \ {0}
  BY OptionsAssumption DEF ViewsInv, Shape
<1>1. /\ pass = "loaded" /\ pass' = "split" /\ scene' = whole /\ gpu' = g
      /\ UNCHANGED <<opt, kept, nextIndex>>
  BY DEF Repeat
<1>2. Laid(scene.dcs, nextIndex, opt.packed) /\ Len(scene.dcs) = Parts /\ Parts # 0
  BY <1>1 DEF DrawsInv
<1> DEFINE w == whole.dcs
<1>3. Spread(w, Parts, nextIndex, opt.packed)
  <2>1. Len(scene.dcs) # 0
    BY <1>2
  <2>2. Spread(w, Len(scene.dcs), nextIndex, opt.packed)
    BY <1>0, <1>2, <2>1, Replicated
  <2> HIDE DEF w
  <2> QED BY <1>2, <2>2
<1> HIDE DEF w, whole
<1>4. g.dcs = w /\ g.left = (IF opt.direct THEN {} ELSE DOMAIN w)
      /\ g.chunks = <<[from |-> 0, to |-> IF opt.direct THEN IndexWords - 1 ELSE 0]>>
  BY DEF w
<1> HIDE DEF g
<1>5. ASSUME opt.direct PROVE Whole(g, w, opt.packed) /\ g.left = {}
  <2>1. g.chunks = <<[from |-> 0, to |-> IndexWords - 1]>> /\ g.left = {}
    BY <1>4, <1>5
  <2>2. IndexWords - 1 = IF opt.packed THEN CeilDiv(nextIndex, WordBits) ELSE nextIndex - 1
    <3>1. CeilDiv(nextIndex, WordBits) \in Nat
      BY <1>2, LayoutAssumption, CeilDivBounds DEF Laid
    <3> QED BY <3>1 DEF IndexWords
  <2> QED BY <1>0, <1>3, <1>4, <2>1, <2>2, DirectIsWhole
<1>6. ASSUME ~opt.direct PROVE IsSplit(g, w, opt.packed)
  <2>1. g.chunks = <<[from |-> 0, to |-> 0]>> /\ g.left = DOMAIN w
    BY <1>4, <1>6
  <2> QED BY <1>0, <1>3, <1>4, <2>1, SplitStarts
<1>7. Parts' = Parts
  BY <1>1, PartsKept
<1>8. scene'.dcs = w
  BY <1>1 DEF w
<1>9. SplitInv'
  BY <1>1, <1>3, <1>5, <1>6, <1>7, <1>8 DEF SplitInv
<1>10. FetchesInBuffer'
  BY <1>1, NotYetNext
<1> QED BY <1>1, <1>2, <1>7, <1>9, <1>10 DEF DrawsInv

LEMMA SplitDraws == ASSUME ViewsInv, DrawsInv, Split PROVE DrawsInv'
<1>0. opt.packed \in BOOLEAN
  BY OptionsAssumption DEF ViewsInv, Shape
<1>1. pass = "split" /\ UNCHANGED <<pass, next, opt, kept, scene, nextIndex>>
  BY DEF Split, planVars
<1>2. PICK i \in gpu.left : /\ \A j \in gpu.left : DC(i).indexOffset <= DC(j).indexOffset
                            /\ gpu' = Place(gpu, i, opt.packed, opt.cap)
  BY DEF Split
<1>3. SplitInv /\ Parts # 0
  BY <1>1 DEF DrawsInv
<1>4. ~opt.direct /\ IsSplit(gpu, scene.dcs, opt.packed)
      /\ Spread(scene.dcs, Parts, nextIndex, opt.packed)
  BY <1>2, <1>3 DEF SplitInv
<1>5. \A j \in gpu.left : scene.dcs[i].indexOffset <= scene.dcs[j].indexOffset
  BY <1>2 DEF DC
<1>6. IsSplit(Place(gpu, i, opt.packed, opt.cap), scene.dcs, opt.packed)
  BY <1>0, <1>4, <1>5, PlaceKeeps
<1>7. Parts' = Parts
  BY <1>1, PartsKept
<1>8. SplitInv'
  BY <1>1, <1>2, <1>4, <1>6, <1>7 DEF SplitInv
<1>9. FetchesInBuffer'
  BY <1>1, NotYetNext
<1> QED BY <1>1, <1>3, <1>7, <1>8, <1>9 DEF DrawsInv

LEMMA UploadDraws == ASSUME ViewsInv, DrawsInv, Upload PROVE DrawsInv'
<1> DEFINE words == [c \in DOMAIN gpu.chunks |-> ChunkWords(gpu.chunks[c])]
<1>0. opt.packed \in BOOLEAN
  BY OptionsAssumption DEF ViewsInv, Shape
<1>1. /\ pass = "split" /\ gpu.left = {} /\ UNCHANGED <<opt, kept, scene>>
      /\ \/ pass' = "uploaded" /\ gpu'.dcs = gpu.dcs /\ gpu'.words = words
         \/ pass' = "failed"
  BY DEF Upload, planVars
<1>2. SplitInv /\ ~opt.registry
  BY <1>1 DEF DrawsInv, ViewsInv, PassInv
<1>3. Spread(scene.dcs, Parts, nextIndex, opt.packed)
  BY <1>2 DEF SplitInv
<1>4. ASSUME opt.direct \/ Alike(scene.dcs, opt.packed), pass' = "uploaded"
      PROVE  FetchesInBuffer'
  <2>1. Whole(gpu, scene.dcs, opt.packed)
    BY <1>0, <1>1, <1>2, <1>3, <1>4, SplitIsWhole DEF SplitInv
  <2>2. DOMAIN gpu.dcs = DOMAIN scene.dcs
    BY <2>1 DEF Whole
  <2> HIDE DEF words
  <2>3. ASSUME NEW d \in DOMAIN gpu.dcs, opt.packed => scene.dcs[Base(d, Parts)].bits > 0,
               NEW k \in 0..(3 * gpu.dcs[d].triangles - 1)
        PROVE  LastWord(gpu.dcs[d], k) \in 0..(words[gpu.dcs[d].chunk] - 1)
    <3>1. d \in DOMAIN scene.dcs
      BY <2>2
    <3>2. words = [c \in DOMAIN gpu.chunks |-> ChunkWords(gpu.chunks[c])]
      BY DEF words
    <3> QED BY <1>0, <1>3, <2>1, <2>3, <3>1, <3>2, WholeFetches
  <2> QED BY <1>1, <1>4, <2>3, FetchesNext
<1>5. FetchesInBuffer'
  <2>1. CASE pass' = "uploaded"
    <3>1. CASE opt.direct \/ Alike(scene.dcs, opt.packed)
      BY <1>4, <2>1, <3>1
    <3>2. CASE ~(opt.direct \/ Alike(scene.dcs, opt.packed))
      BY <1>1, <1>2, <3>2 DEF FetchesInBuffer, Ready
    <3> QED BY <3>1, <3>2
  <2>2. CASE pass' = "failed"
    BY <2>2, NotYetNext
  <2> QED BY <1>1, <2>1, <2>2
<1>6. pass' \in {"uploaded", "failed"}
  BY <1>1
<1> QED BY <1>5, <1>6 DEF DrawsInv

LEMMA NextDraws ==
  ASSUME ViewsInv, DrawsInv, [Next]_vars
  PROVE  DrawsInv'
<1>1. CASE Cap
  <2>1. pass = "cap" /\ pass' = "cap" /\ UNCHANGED <<scene, nextIndex>>
    BY <1>1 DEF Cap
  <2>2. scene'.dcs = <<>> /\ nextIndex' = 0
    BY <2>1 DEF DrawsInv
  <2>3. FetchesInBuffer'
    BY <2>1, NotYetNext
  <2> QED BY <2>1, <2>2, <2>3 DEF DrawsInv
<1>2. CASE Main
  <2>1. CASE CountUses
    BY <2>1, CountUsesDraws
  <2>2. CASE Reserve
    BY <2>2, ReserveDraws
  <2>3. CASE Allocate \/ EndPass \/ Adopt
    BY <2>3, BetweenDraws
  <2>4. CASE Register
    BY <2>4, RegisterDraws
  <2>5. CASE Finalize
    BY <2>5, FinalizeDraws
  <2>6. CASE AddMesh
    BY <2>6, AddMeshDraws
  <2>7. CASE Repeat
    BY <2>7, RepeatDraws
  <2>8. CASE Split
    BY <2>8, SplitDraws
  <2>9. CASE Upload
    BY <2>9, UploadDraws
  <2> QED BY <1>1, <1>2, <2>1, <2>2, <2>3, <2>4, <2>5, <2>6, <2>7, <2>8, <2>9 DEF Main
<1>3. ASSUME NEW t \in Thread, Work(t) PROVE DrawsInv'
  <2>1. CASE Take(t)
    <3>1. pass \in {"scan", "fill"} /\ UNCHANGED <<pass, opt, kept, scene, nextIndex>>
      BY <2>1 DEF Take, planVars
    <3>2. Parts' = Parts
      BY <3>1, PartsKept
    <3>3. FetchesInBuffer'
      BY <3>1, NotYetNext
    <3> QED BY <3>1, <3>2, <3>3 DEF DrawsInv
  <2>2. CASE UNCHANGED <<pass, next, planVars, gpu>>
    BY <2>2, DrawsKept DEF planVars
  <2> QED BY <1>3, <2>1, <2>2 DEF Work
<1>4. CASE UNCHANGED vars
  BY <1>4, DrawsKept DEF vars, planVars
<1> QED BY <1>2, <1>3, <1>4 DEF Next

\* No kernel reads past the end of an index buffer, whatever is loaded, how, and in
\* whichever order a split takes draw calls of equal offsets; a scene that is split
\* has to be Alike (MetalRastRenderer.cpp:650-745).
THEOREM ReadsInside == Spec => []FetchesInBuffer
<1>1. Init => DrawsInv
  BY InitDraws
<1>2. ViewsInv /\ DrawsInv /\ [Next]_vars => DrawsInv'
  BY NextDraws
<1>3. DrawsInv => FetchesInBuffer
  BY DEF DrawsInv
<1> QED
  BY <1>1, <1>2, <1>3, CountsAreExact, PTL DEF Spec
=============================================================================
