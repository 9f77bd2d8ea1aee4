-------------------------- MODULE VRAMPool_proofs --------------------------
(* Proofs about VRAMPool, for every capacity, set of requests and bound: the *)
(* free list and the live slots partition the buffer, the list stays merged, *)
(* used_ is exact, slots are stable and eviction is least recently used.     *)
EXTENDS VRAMPool, FiniteSetTheorems, SequenceTheorems, TLAPS

(***************************************************************************)
(* Geometry: the free list, without the slots.                             *)
(***************************************************************************)

FreeRange == [offset : Nat, size : Nat]

\* A free list as the allocator keeps it: no empty range, no overlap, and
\* neighbours merged.
WellFormed(F) ==
  /\ F \subseteq FreeRange
  /\ \A r \in F : r.size > 0
  /\ \A p, q \in F : p # q => Disjoint(p, q)
  /\ \A p, q \in F : End(p) # q.offset

Covers(F, b) == \E r \in F : r.offset <= b /\ b < End(r)

\* Rounding up loses nothing.
LEMMA RoundUpFacts ==
  ASSUME NEW n \in Nat \ {0}
  PROVE  RoundUp(n) \in Nat \ {0}
  BY DEF RoundUp

\* The next range matters only if it starts where the new one ends: no other
\* range can lie between.
LEMMA NextNeighbour ==
  ASSUME NEW F, WellFormed(F), NEW o \in Nat, NEW s \in Nat \ {0},
         \A q \in F : Disjoint([offset |-> o, size |-> s], q)
  PROVE  {q \in Next_(F, o) : q.offset = o + s} = {q \in F : q.offset = o + s}
<1> SUFFICES ASSUME NEW q \in F, q.offset = o + s
             PROVE  q \in Next_(F, o)
  BY DEF Next_
<1>1. \A p \in F : p.offset \in Nat /\ p.size \in Nat /\ p.size > 0
  BY DEF WellFormed, FreeRange
<1>2. \A p \in F : p.offset >= o => q.offset <= p.offset
  BY <1>1 DEF Disjoint, End
<1> QED
  BY <1>1, <1>2 DEF Next_

\* The previous range matters only if it ends where the new one starts.
LEMMA PrevNeighbour ==
  ASSUME NEW F, WellFormed(F), NEW o \in Nat, NEW s \in Nat \ {0}
  PROVE  {q \in Prev_(F, o) : End(q) = o} = {q \in F : End(q) = o}
<1> SUFFICES ASSUME NEW q \in F, End(q) = o
             PROVE  q \in Prev_(F, o)
  BY DEF Prev_
<1>1. \A p \in F : p.offset \in Nat /\ p.size \in Nat /\ p.size > 0
  BY DEF WellFormed, FreeRange
<1>2. q.offset < o
  BY <1>1 DEF End
<1>3. \A p \in F : p.offset < o => p.offset <= q.offset
  BY <1>1 DEF WellFormed, Disjoint, End
<1> QED
  BY <1>1, <1>2, <1>3 DEF Prev_

\* What insertFreeRange returns: the ranges that are not adjacent, and one
\* range from the lowest byte to the end of the highest.
LEMMA InsertShape ==
  ASSUME NEW F, WellFormed(F), NEW o \in Nat, NEW s \in Nat \ {0},
         \A q \in F : Disjoint([offset |-> o, size |-> s], q)
  PROVE  \E low, high \in Nat :
           /\ low <= o /\ o + s <= high
           /\ InsertFreeRange(F, o, s) =
                {q \in F : End(q) # o /\ q.offset # o + s}
                  \cup {[offset |-> low, size |-> high - low]}
           /\ \/ low = o /\ \A q \in F : End(q) # o
              \/ \E q \in F : End(q) = o /\ q.offset = low
           /\ \/ high = o + s /\ \A q \in F : q.offset # o + s
              \/ \E q \in F : q.offset = o + s /\ End(q) = high
<1> DEFINE nx == {q \in Next_(F, o) : q.offset = o + s}
           pv == {q \in Prev_(F, o) : End(q) = o}
           lo == IF pv = {} THEN o ELSE (CHOOSE q \in pv : TRUE).offset
           hi == IF nx = {} THEN o + s ELSE End(CHOOSE q \in nx : TRUE)
<1>1. InsertFreeRange(F, o, s) = (F \ (pv \cup nx)) \cup {[offset |-> lo, size |-> hi - lo]}
  BY DEF InsertFreeRange
<1>2. \A p \in F : p.offset \in Nat /\ p.size \in Nat /\ p.size > 0
  BY DEF WellFormed, FreeRange
<1>3. /\ \A q : q \in nx <=> q \in F /\ q.offset = o + s
      /\ \A q : q \in pv <=> q \in F /\ End(q) = o
  <2>1. nx = {q \in F : q.offset = o + s}
    BY NextNeighbour
  <2>2. pv = {q \in F : End(q) = o}
    BY PrevNeighbour
  <2>3. QED
    BY <2>1, <2>2
<1> HIDE DEF nx, pv
<1>4. /\ lo \in Nat /\ lo <= o
      /\ \/ lo = o /\ \A q \in F : End(q) # o
         \/ \E q \in F : End(q) = o /\ q.offset = lo
  <2>1. CASE pv = {}
    BY <2>1, <1>3
  <2>2. CASE pv # {}
    <3>1. PICK p \in pv : p = CHOOSE q \in pv : TRUE
      BY <2>2
    <3>2. lo = p.offset
      BY <2>2, <3>1
    <3>3. p \in F /\ End(p) = o
      BY <1>3
    <3> HIDE DEF lo
    <3>4. QED
      BY <1>2, <3>2, <3>3 DEF End
  <2>3. QED
    BY <2>1, <2>2
<1>5. /\ hi \in Nat /\ o + s <= hi
      /\ \/ hi = o + s /\ \A q \in F : q.offset # o + s
         \/ \E q \in F : q.offset = o + s /\ End(q) = hi
  <2>1. CASE nx = {}
    BY <2>1, <1>3
  <2>2. CASE nx # {}
    <3>1. PICK p \in nx : p = CHOOSE q \in nx : TRUE
      BY <2>2
    <3>2. hi = End(p)
      BY <2>2, <3>1
    <3>3. p \in F /\ p.offset = o + s
      BY <1>3
    <3> HIDE DEF hi
    <3>4. QED
      BY <1>2, <3>2, <3>3 DEF End
  <2>3. QED
    BY <2>1, <2>2
<1>6. (F \ (pv \cup nx)) = {q \in F : End(q) # o /\ q.offset # o + s}
  BY <1>3
<1> HIDE DEF lo, hi
<1>7. InsertFreeRange(F, o, s) =
        {q \in F : End(q) # o /\ q.offset # o + s} \cup {[offset |-> lo, size |-> hi - lo]}
  BY <1>1, <1>6
<1> QED
  BY <1>4, <1>5, <1>7

\* insertFreeRange keeps the list well formed, covers just the old bytes and
\* the new ones, and meets nothing that neither of them met.
LEMMA InsertKeeps ==
  ASSUME NEW F, WellFormed(F), NEW o \in Nat, NEW s \in Nat \ {0},
         \A q \in F : Disjoint([offset |-> o, size |-> s], q)
  PROVE  LET G == InsertFreeRange(F, o, s)
         IN  /\ WellFormed(G)
             /\ \A b \in Nat : (o <= b /\ b < o + s) \/ Covers(F, b) => Covers(G, b)
             /\ \A l, n \in Nat :
                  /\ n > 0
                  /\ l + n <= o \/ o + s <= l
                  /\ \A q \in F : End(q) <= l \/ l + n <= q.offset
                  => \A q \in G : End(q) <= l \/ l + n <= q.offset
             /\ \A cap \in Nat :
                  o + s <= cap /\ (\A q \in F : End(q) <= cap) => \A q \in G : End(q) <= cap
<1> DEFINE G == InsertFreeRange(F, o, s)
<1>1. PICK low \in Nat, high \in Nat :
           /\ low <= o /\ o + s <= high
           /\ G = {q \in F : End(q) # o /\ q.offset # o + s}
                  \cup {[offset |-> low, size |-> high - low]}
           /\ \/ low = o /\ \A q \in F : End(q) # o
              \/ \E q \in F : End(q) = o /\ q.offset = low
           /\ \/ high = o + s /\ \A q \in F : q.offset # o + s
              \/ \E q \in F : q.offset = o + s /\ End(q) = high
  BY InsertShape
<1> DEFINE new == [offset |-> low, size |-> high - low]
<1>2. \A p \in F : p.offset \in Nat /\ p.size \in Nat /\ p.size > 0
  BY DEF WellFormed, FreeRange
<1>3. new \in FreeRange /\ new.size > 0 /\ new.offset = low /\ End(new) = high
  BY <1>1 DEF FreeRange, End
<1>4. \A g \in G : g = new \/ (g \in F /\ End(g) # o /\ g.offset # o + s)
  BY <1>1
<1>5. \A q \in F : q \notin G => End(q) = o \/ q.offset = o + s
  BY <1>1
<1>6. new \in G
  BY <1>1
<1>7. \A q \in F : End(q) <= o \/ o + s <= q.offset
  BY <1>2 DEF Disjoint, End
<1>8. \A q \in F : q \in G => End(q) <= low \/ high <= q.offset
  BY <1>1, <1>2, <1>7 DEF WellFormed, Disjoint, End
<1> HIDE DEF G, new
<1>9. WellFormed(G)
  <2>1. G \subseteq FreeRange /\ \A r \in G : r.size > 0
    BY <1>3, <1>4 DEF WellFormed
  <2>2. ASSUME NEW p \in G, NEW q \in G, p # q
        PROVE  Disjoint(p, q)
    BY <2>2, <1>2, <1>3, <1>4, <1>8 DEF WellFormed, Disjoint
  <2>3. ASSUME NEW p \in G, NEW q \in G, End(p) = q.offset
        PROVE  FALSE
    <3>1. CASE p = new /\ q = new
      BY <3>1, <2>3, <1>1, <1>3
    <3>2. CASE p # new /\ q # new
      BY <3>2, <2>3, <1>4 DEF WellFormed
    <3>3. CASE p = new /\ q # new
      <4>1. q \in F /\ End(q) # o /\ q.offset # o + s /\ high = q.offset
        BY <3>3, <2>3, <1>3, <1>4
      <4>2. \A r \in F : End(r) # high
        BY <4>1 DEF WellFormed
      <4>3. QED
        BY <4>1, <4>2, <1>1
    <3>4. CASE p # new /\ q = new
      <4>1. p \in F /\ End(p) # o /\ End(p) = low
        BY <3>4, <2>3, <1>3, <1>4
      <4>2. \A r \in F : r.offset # low
        BY <4>1 DEF WellFormed
      <4>3. QED
        BY <4>1, <4>2, <1>1
    <3>5. QED
      BY <3>1, <3>2, <3>3, <3>4
  <2>4. QED
    BY <2>1, <2>2, <2>3 DEF WellFormed
<1>10. ASSUME NEW b \in Nat, (o <= b /\ b < o + s) \/ Covers(F, b)
       PROVE  Covers(G, b)
  <2>1. CASE low <= b /\ b < high
    BY <2>1, <1>3, <1>6 DEF Covers
  <2>2. CASE ~ (low <= b /\ b < high)
    <3>1. PICK q \in F : q.offset <= b /\ b < End(q)
      BY <2>2, <1>1, <1>10 DEF Covers
    <3>2. q \in G
      <4>1. SUFFICES ASSUME q \notin G PROVE FALSE
        OBVIOUS
      <4>2. CASE End(q) = o
        <5>1. PICK r \in F : End(r) = o /\ r.offset = low
          BY <4>2, <1>1
        <5>2. r = q
          BY <5>1, <4>2, <1>2 DEF WellFormed, Disjoint, End
        <5>3. QED
          BY <5>1, <5>2, <3>1, <2>2, <1>1
      <4>3. CASE q.offset = o + s
        <5>1. PICK r \in F : r.offset = o + s /\ End(r) = high
          BY <4>3, <1>1
        <5>2. r = q
          BY <5>1, <4>3, <1>2 DEF WellFormed, Disjoint, End
        <5>3. QED
          BY <5>1, <5>2, <3>1, <2>2, <1>1
      <4>4. QED
        BY <4>1, <4>2, <4>3, <1>5
    <3>3. QED
      BY <3>1, <3>2 DEF Covers
  <2>3. QED
    BY <2>1, <2>2
<1>11. ASSUME NEW l \in Nat, NEW n \in Nat, n > 0,
              l + n <= o \/ o + s <= l,
              \A q \in F : End(q) <= l \/ l + n <= q.offset,
              NEW q \in G
       PROVE  End(q) <= l \/ l + n <= q.offset
  <2>1. CASE q = new
    BY <2>1, <1>11, <1>1, <1>2, <1>3 DEF End
  <2>2. CASE q # new
    BY <2>2, <1>11, <1>4
  <2>3. QED
    BY <2>1, <2>2
<1>12. ASSUME NEW cap \in Nat, o + s <= cap, \A q \in F : End(q) <= cap, NEW q \in G
       PROVE  End(q) <= cap
  BY <1>12, <1>1, <1>3, <1>4
<1> QED
  BY <1>9, <1>10, <1>11, <1>12 DEF G

\* Taking the front of a range keeps the list well formed and gives up just the
\* bytes taken.
LEMMA CarveKeeps ==
  ASSUME WellFormed(freeList),
         NEW r \in freeList, NEW n \in Nat \ {0}, r.size >= n
  PROVE  LET G == Carve(r, n)
         IN  /\ WellFormed(G)
             /\ \A b \in Nat : Covers(freeList, b) =>
                  Covers(G, b) \/ (r.offset <= b /\ b < r.offset + n)
             /\ \A g \in G : \E q \in freeList :
                  q.offset <= g.offset /\ End(g) = End(q)
             /\ \A g \in G : End(g) <= r.offset \/ r.offset + n <= g.offset
<1> DEFINE G == Carve(r, n)
           rest == [offset |-> r.offset + n, size |-> r.size - n]
<1>1. \A p \in freeList : p.offset \in Nat /\ p.size \in Nat /\ p.size > 0
  BY DEF WellFormed, FreeRange
<1>2. \A g \in G : \/ g \in freeList /\ g # r
                   \/ g = rest /\ r.size # n
  BY DEF Carve
<1>3. \A q \in freeList : q # r => q \in G
  BY DEF Carve
<1>4. r.size # n => rest \in G
  BY DEF Carve
<1>5. r.size # n => rest \in FreeRange /\ rest.size > 0
  BY <1>1 DEF FreeRange
<1>6. rest.offset = r.offset + n /\ End(rest) = End(r)
  BY <1>1 DEF End
<1>7. \A p, q \in freeList : p # q => Disjoint(p, q)
  BY DEF WellFormed
<1>8. \A p, q \in freeList : End(p) # q.offset
  BY DEF WellFormed
<1> HIDE DEF G, rest
<1>9. WellFormed(G)
  <2>1. G \subseteq FreeRange /\ \A g \in G : g.size > 0
    BY <1>2, <1>5 DEF WellFormed
  <2>2. ASSUME NEW p \in G, NEW q \in G, p # q
        PROVE  Disjoint(p, q)
    BY <2>2, <1>1, <1>2, <1>6, <1>7 DEF Disjoint, End
  <2>3. ASSUME NEW p \in G, NEW q \in G, End(p) = q.offset
        PROVE  FALSE
    <3>1. CASE q \in freeList
      BY <3>1, <2>3, <1>2, <1>6, <1>8
    <3>2. CASE q = rest /\ p = rest
      BY <3>2, <2>3, <1>2, <1>1, <1>6 DEF End
    <3>3. CASE q = rest /\ p \in freeList /\ p # r
      BY <3>3, <2>3, <1>1, <1>2, <1>6, <1>7 DEF Disjoint, End
    <3>4. QED
      BY <3>1, <3>2, <3>3, <1>2
  <2>4. QED
    BY <2>1, <2>2, <2>3 DEF WellFormed
<1>10. ASSUME NEW b \in Nat, Covers(freeList, b), ~ (r.offset <= b /\ b < r.offset + n)
       PROVE  Covers(G, b)
  <2>1. PICK q \in freeList : q.offset <= b /\ b < End(q)
    BY <1>10 DEF Covers
  <2>2. CASE q # r
    BY <2>1, <2>2, <1>3 DEF Covers
  <2>3. CASE q = r
    <3>1. r.size # n /\ rest.offset <= b /\ b < End(rest)
      BY <2>1, <2>3, <1>1, <1>6, <1>10 DEF End
    <3>2. QED
      BY <3>1, <1>4 DEF Covers
  <2>4. QED
    BY <2>2, <2>3
<1>11. \A g \in G : \E q \in freeList : q.offset <= g.offset /\ End(g) = End(q)
  BY <1>1, <1>2, <1>6
<1>12. \A g \in G : End(g) <= r.offset \/ r.offset + n <= g.offset
  BY <1>1, <1>2, <1>6, <1>7 DEF Disjoint, End
<1> QED
  BY <1>9, <1>10, <1>11, <1>12 DEF G

(***************************************************************************)
(* The inductive invariant.  Partition needs the free list to be well      *)
(* formed, and needs an id on the recycle stack never to be a live slot's; *)
(* EvictsOldest needs the rest of a running eviction to be in order.       *)
(***************************************************************************)

\* The recycle stack holds no id twice and no id of a live slot.
RecycledOnce ==
  /\ \A i, j \in 1..Len(freeSlotIds) : freeSlotIds[i] = freeSlotIds[j] => i = j
  /\ \A i \in 1..Len(freeSlotIds) : freeSlotIds[i] \notin Live

\* What is left of an eviction: live slots not used in this frame, oldest
\* first, and none older is spared.
VictimsReady ==
  /\ \A i \in 1..Len(victims) :
       victims[i] \in Live /\ slots[victims[i]].lastUsedFrame < frame
  /\ \A i, j \in 1..Len(victims) : victims[i] = victims[j] => i = j
  /\ \A i, j \in 1..Len(victims) :
       i < j => slots[victims[i]].lastUsedFrame <= slots[victims[j]].lastUsedFrame
  /\ \A id \in Live, i \in 1..Len(victims) :
       (\A j \in 1..Len(victims) : victims[j] # id)
         => slots[victims[i]].lastUsedFrame <= slots[id].lastUsedFrame

Inv ==
  /\ TypeOK
  /\ Partition
  /\ WellFormed(freeList)
  /\ UsedIsTaken
  /\ RecycledOnce
  /\ VictimsReady

\* A live slot is a record of the expected type.
LEMMA LiveRecords ==
  ASSUME TypeOK
  PROVE  /\ Live \subseteq 1..Len(slots)
         /\ DOMAIN slots = 1..Len(slots)
         /\ \A id \in Live : slots[id] \in SlotRecord
  BY DEF TypeOK, Live

\* Popping the back of a stack.
LEMMA PopFacts ==
  ASSUME NEW S, NEW s \in Seq(S), s # <<>>
  PROVE  /\ SubSeq(s, 1, Len(s) - 1) \in Seq(S)
         /\ Len(SubSeq(s, 1, Len(s) - 1)) = Len(s) - 1
         /\ \A i \in 1..(Len(s) - 1) : SubSeq(s, 1, Len(s) - 1)[i] = s[i]
<1>1. Len(s) \in Nat /\ Len(s) >= 1 /\ \A i \in 1..(Len(s) - 1) : s[i] \in S
  OBVIOUS
<1> DEFINE k == Len(s) - 1
<1>2. k \in Nat /\ 1 \in Int /\ k \in Int /\ Len(s) - 1 = k
  BY <1>1
<1>3. \A i \in 1..k : s[i] \in S
  BY <1>1
<1> HIDE DEF k
<1>4. SubSeq(s, 1, k) \in Seq(S)
  BY <1>2, <1>3, SubSeqProperties
<1>5. Len(SubSeq(s, 1, k)) = IF 1 <= k THEN k - 1 + 1 ELSE 0
  BY <1>2, <1>3, SubSeqProperties
<1>6. \A i \in 1..(k - 1 + 1) : SubSeq(s, 1, k)[i] = s[1 + i - 1]
  BY <1>2, <1>3, SubSeqProperties
<1>7. Len(SubSeq(s, 1, k)) = k
  BY <1>2, <1>5
<1>8. \A i \in 1..k : SubSeq(s, 1, k)[i] = s[i]
  BY <1>2, <1>6
<1>9. QED
  BY <1>2, <1>4, <1>7, <1>8

\* Storing a record takes an id that no live slot has.
LEMMA StoredAt ==
  ASSUME TypeOK, RecycledOnce, NEW rec \in SlotRecord, rec.meshId # Free,
         StoreSlot(rec)
  PROVE  /\ slots' \in Seq(SlotRecord)
         /\ freeSlotIds' \in Seq(1..Len(slots'))
         /\ NewSlotId \notin Live
         /\ Live' = Live \cup {NewSlotId}
         /\ slots'[NewSlotId] = rec
         /\ \A id \in Live : slots'[id] = slots[id]
         /\ RecycledOnce'
<1> DEFINE n == Len(freeSlotIds)
<1>1. /\ slots \in Seq(SlotRecord) /\ Len(slots) \in Nat
      /\ freeSlotIds \in Seq(1..Len(slots)) /\ n \in Nat
  BY DEF TypeOK
<1>2. CASE freeSlotIds # <<>>
  <2>1. NewSlotId = freeSlotIds[n] /\ n \in 1..n
    BY <1>1, <1>2 DEF NewSlotId
  <2>2. NewSlotId \in 1..Len(slots) /\ NewSlotId \notin Live
    BY <1>1, <2>1 DEF RecycledOnce
  <2>3. /\ slots' = [slots EXCEPT ![NewSlotId] = rec]
        /\ freeSlotIds' = SubSeq(freeSlotIds, 1, n - 1)
    BY <1>2 DEF StoreSlot
  <2>4. /\ slots' \in Seq(SlotRecord) /\ Len(slots') = Len(slots)
        /\ DOMAIN slots' = DOMAIN slots
        /\ slots'[NewSlotId] = rec
        /\ \A id \in DOMAIN slots : id # NewSlotId => slots'[id] = slots[id]
    BY <1>1, <2>2, <2>3
  <2>5. Live' = Live \cup {NewSlotId}
    BY <1>1, <2>2, <2>4 DEF Live
  <2>6. /\ freeSlotIds' \in Seq(1..Len(slots')) /\ Len(freeSlotIds') = n - 1
        /\ \A i \in 1..(n - 1) : freeSlotIds'[i] = freeSlotIds[i]
    BY <1>1, <1>2, <2>3, <2>4, PopFacts
  <2>7. RecycledOnce'
    <3>1. \A i \in 1..(n - 1) : i \in 1..n /\ i # n
      BY <1>1
    <3>2. \A i, j \in 1..(n - 1) : freeSlotIds'[i] = freeSlotIds'[j] => i = j
      BY <3>1, <2>6 DEF RecycledOnce
    <3>3. \A i \in 1..(n - 1) : freeSlotIds[i] \notin Live /\ freeSlotIds[i] # NewSlotId
      BY <3>1, <2>1 DEF RecycledOnce
    <3>4. \A i \in 1..(n - 1) : freeSlotIds'[i] \notin Live'
      BY <3>3, <2>5, <2>6
    <3>5. QED
      BY <2>6, <3>2, <3>4 DEF RecycledOnce
  <2>8. \A id \in Live : slots'[id] = slots[id]
    BY <2>2, <2>4 DEF Live
  <2>9. QED
    BY <2>2, <2>4, <2>5, <2>6, <2>7, <2>8
<1>3. CASE freeSlotIds = <<>>
  <2>1. NewSlotId = Len(slots) + 1 /\ NewSlotId \notin Live
    BY <1>1, <1>3 DEF NewSlotId, Live
  <2>2. slots' = Append(slots, rec) /\ freeSlotIds' = freeSlotIds
    BY <1>3 DEF StoreSlot
  <2>3. /\ slots' \in Seq(SlotRecord) /\ Len(slots') = Len(slots) + 1
        /\ slots'[NewSlotId] = rec
        /\ \A id \in DOMAIN slots : slots'[id] = slots[id]
    BY <1>1, <2>1, <2>2
  <2>4. DOMAIN slots' = DOMAIN slots \cup {NewSlotId}
    BY <1>1, <2>1, <2>3
  <2>5. Live' = Live \cup {NewSlotId}
    BY <2>1, <2>3, <2>4 DEF Live
  <2>6. freeSlotIds' \in Seq(1..Len(slots')) /\ Len(freeSlotIds') = 0
    BY <1>1, <1>3, <2>2, <2>3
  <2>7. RecycledOnce'
    BY <2>6 DEF RecycledOnce
  <2>8. QED
    BY <2>1, <2>3, <2>5, <2>6, <2>7 DEF Live
<1>4. QED
  BY <1>2, <1>3

\* Freeing a slot takes it, and only it, out of the live ones.
LEMMA FreedAt ==
  ASSUME TypeOK, RecycledOnce, NEW id \in Live, FreeSlot(id)
  PROVE  /\ slots' \in Seq(SlotRecord) /\ Len(slots') = Len(slots)
         /\ freeSlotIds' \in Seq(1..Len(slots'))
         /\ Live' = Live \ {id}
         /\ \A other \in Live' : slots'[other] = slots[other]
         /\ freeList' = InsertFreeRange(freeList, slots[id].offset, slots[id].size)
         /\ used' = used - slots[id].size
         /\ RecycledOnce'
<1> DEFINE n == Len(freeSlotIds)
<1>1. /\ slots \in Seq(SlotRecord) /\ Len(slots) \in Nat /\ id \in 1..Len(slots)
      /\ freeSlotIds \in Seq(1..Len(slots)) /\ n \in Nat
  BY LiveRecords DEF TypeOK
<1>2. /\ freeList' = InsertFreeRange(freeList, slots[id].offset, slots[id].size)
      /\ used' = used - slots[id].size
      /\ slots' = [slots EXCEPT ![id] = [offset |-> slots[id].offset, size |-> 0,
                                              meshId |-> Free, lastUsedFrame |-> 0]]
      /\ freeSlotIds' = Append(freeSlotIds, id)
  BY DEF FreeSlot
<1>3. /\ slots' = [slots EXCEPT ![id] = slots'[id]]
      /\ slots'[id].meshId = Free /\ slots'[id] \in SlotRecord
  <2>1. slots[id] \in SlotRecord
    BY <1>1
  <2>2. slots'[id] = [offset |-> slots[id].offset, size |-> 0,
                      meshId |-> Free, lastUsedFrame |-> 0]
    BY <1>1, <1>2
  <2>3. slots'[id].meshId = Free /\ slots'[id] \in SlotRecord
    BY <2>1, <2>2 DEF SlotRecord, Free
  <2>4. QED
    BY <1>1, <1>2, <2>2, <2>3
<1>4. /\ slots' \in Seq(SlotRecord) /\ Len(slots') = Len(slots)
      /\ DOMAIN slots' = DOMAIN slots
      /\ \A k \in DOMAIN slots : k # id => slots'[k] = slots[k]
  BY <1>1, <1>3
<1>5. Live' = Live \ {id}
  BY <1>1, <1>3, <1>4 DEF Live
<1>6. /\ freeSlotIds' \in Seq(1..Len(slots')) /\ Len(freeSlotIds') = n + 1
      /\ \A i \in 1..n : freeSlotIds'[i] = freeSlotIds[i]
      /\ freeSlotIds'[n + 1] = id
  BY <1>1, <1>2, <1>4
<1>7. RecycledOnce'
  <2>1. \A i \in 1..n : freeSlotIds[i] # id
    BY DEF RecycledOnce
  <2>2. \A i \in 1..(n + 1) : i \in 1..n \/ i = n + 1
    BY <1>1
  <2>3. \A i, j \in 1..n : freeSlotIds[i] = freeSlotIds[j] => i = j
    BY DEF RecycledOnce
  <2>4. \A i, j \in 1..(n + 1) : freeSlotIds'[i] = freeSlotIds'[j] => i = j
    BY <1>6, <2>1, <2>2, <2>3
  <2>5. \A i \in 1..n : freeSlotIds[i] \notin Live
    BY DEF RecycledOnce
  <2>6. \A i \in 1..(n + 1) : freeSlotIds'[i] \notin Live'
    BY <1>5, <1>6, <2>2, <2>5
  <2>7. QED
    BY <1>6, <2>4, <2>6 DEF RecycledOnce
<1>8. QED
  BY <1>2, <1>4, <1>5, <1>6, <1>7 DEF Live

(***************************************************************************)
(* Each action keeps the invariant.                                        *)
(***************************************************************************)

\* The bytes of one live slot, and of a well-formed one, are finitely many.
LEMMA TakenFinite ==
  ASSUME TypeOK, InBounds
  PROVE  IsFiniteSet(Taken) /\ Taken \subseteq 0..(Capacity - 1)
<1>1. \A id \in Live : /\ slots[id].offset \in Nat /\ slots[id].size \in Nat
                       /\ End(slots[id]) <= Capacity
  BY LiveRecords DEF SlotRecord, InBounds
<1>2. \A id \in Live : Bytes(slots[id]) \subseteq 0..(Capacity - 1)
  BY <1>1, CapacityAssumption DEF Bytes, End
<1>3. Taken \subseteq 0..(Capacity - 1)
  BY <1>2 DEF Taken
<1>4. IsFiniteSet(0..(Capacity - 1))
  BY FS_Interval, CapacityAssumption
<1>5. QED
  BY <1>3, <1>4, FS_Subset

\* A range of n bytes has n bytes.
LEMMA BytesFacts ==
  ASSUME NEW r, r.offset \in Nat, r.size \in Nat
  PROVE  IsFiniteSet(Bytes(r)) /\ Cardinality(Bytes(r)) = r.size
<1>1. r.offset \in Int /\ End(r) - 1 \in Int
  BY DEF End
<1>2. /\ IsFiniteSet(Bytes(r))
      /\ Cardinality(Bytes(r)) =
           IF r.offset > End(r) - 1 THEN 0 ELSE End(r) - 1 - r.offset + 1
  BY <1>1, FS_Interval DEF Bytes
<1>3. (IF r.offset > End(r) - 1 THEN 0 ELSE End(r) - 1 - r.offset + 1) = r.size
  BY DEF End
<1>4. QED
  BY <1>2, <1>3

\* Disjoint finite sets add up.
LEMMA DisjointSum ==
  ASSUME NEW S, NEW T, IsFiniteSet(S), IsFiniteSet(T), S \cap T = {}
  PROVE  Cardinality(S \cup T) = Cardinality(S) + Cardinality(T)
<1>1. Cardinality(S \cup T) = Cardinality(S) + Cardinality(T) - Cardinality(S \cap T)
  BY FS_Union
<1>2. Cardinality(S \cap T) = 0
  BY FS_EmptySet
<1>3. Cardinality(S) \in Nat /\ Cardinality(T) \in Nat
  BY FS_CardinalityType
<1>4. QED
  BY <1>1, <1>2, <1>3

\* An allocation moves bytes from the free list to a slot.
LEMMA AllocKeeps ==
  ASSUME Inv, NEW bytes \in Request, NEW mesh \in MeshId, Alloc(bytes, mesh)
  PROVE  Inv'
<1> DEFINE n == RoundUp(bytes)
<1>1. n \in Nat \ {0}
  BY RoundUpFacts, RequestAssumption
<1>2. PICK r \in freeList :
        /\ FirstFit(r, n)
        /\ freeList' = Carve(r, n)
        /\ StoreSlot([offset |-> r.offset, size |-> n, meshId |-> mesh, lastUsedFrame |-> 0])
  BY DEF Alloc
<1>3. used' = used + n /\ victims = <<>> /\ UNCHANGED <<frame, victims>>
  BY DEF Alloc
<1> HIDE DEF n
<1> DEFINE rec == [offset |-> r.offset, size |-> n, meshId |-> mesh, lastUsedFrame |-> 0]
<1>4. /\ TypeOK /\ InBounds /\ NoOverlap /\ Covered /\ WellFormed(freeList)
      /\ RecycledOnce /\ UsedIsTaken
  BY DEF Inv, Partition
<1>5. /\ r.offset \in Nat /\ r.size \in Nat /\ n <= r.size /\ End(r) <= Capacity
  BY <1>1, <1>2, <1>4 DEF WellFormed, FreeRange, FirstFit, Fits, InBounds
<1>6. /\ rec \in SlotRecord /\ rec.meshId # Free
      /\ rec.offset = r.offset /\ rec.size = n /\ End(rec) = r.offset + n
  BY <1>1, <1>5, MeshAssumption DEF SlotRecord, Free, End
<1> DEFINE id0 == NewSlotId
<1>7. /\ slots' \in Seq(SlotRecord)
      /\ freeSlotIds' \in Seq(1..Len(slots'))
      /\ id0 \notin Live
      /\ Live' = Live \cup {id0}
      /\ slots'[id0] = rec
      /\ \A id \in Live : slots'[id] = slots[id]
      /\ RecycledOnce'
  BY <1>2, <1>4, <1>6, StoredAt
<1> HIDE DEF rec, id0
<1>8. /\ WellFormed(freeList')
      /\ \A b \in Nat : Covers(freeList, b) =>
           Covers(freeList', b) \/ (r.offset <= b /\ b < r.offset + n)
      /\ \A g \in freeList' : \E q \in freeList : q.offset <= g.offset /\ End(g) = End(q)
      /\ \A g \in freeList' : End(g) <= r.offset \/ r.offset + n <= g.offset
  BY <1>1, <1>2, <1>4, <1>5, CarveKeeps
<1>9. /\ \A id \in Live : slots[id].offset \in Nat /\ slots[id].size \in Nat
      /\ \A g \in freeList' : g.offset \in Nat /\ g.size \in Nat /\ g.size > 0
      /\ \A g \in freeList : g.offset \in Nat /\ g.size \in Nat
  BY <1>4, <1>8, LiveRecords DEF SlotRecord, WellFormed, FreeRange
<1>10. TypeOK'
  <2>1. freeList' \subseteq [offset : Nat, size : Nat]
    BY <1>8 DEF WellFormed, FreeRange
  <2>2. used' \in Nat
    BY <1>1, <1>3, <1>4 DEF TypeOK
  <2>3. victims' \in Seq(1..Len(slots')) /\ frame' \in Nat
    BY <1>3, <1>4 DEF TypeOK
  <2>4. QED
    BY <1>7, <2>1, <2>2, <2>3 DEF TypeOK
<1>11. InBounds'
  <2>1. \A g \in freeList' : g.size > 0 /\ End(g) <= Capacity
    BY <1>4, <1>8, <1>9 DEF InBounds
  <2>2. \A id \in Live' : slots'[id].size > 0 /\ End(slots'[id]) <= Capacity
    <3>1. \A id \in Live : slots'[id].size > 0 /\ End(slots'[id]) <= Capacity
      BY <1>4, <1>7 DEF InBounds
    <3>2. rec.size > 0 /\ End(rec) <= Capacity
      BY <1>1, <1>5, <1>6, CapacityAssumption DEF End
    <3>3. QED
      BY <3>1, <3>2, <1>7
  <2>3. QED
    BY <2>1, <2>2 DEF InBounds
<1>12. \A id \in Live : Disjoint(slots[id], rec) /\ Disjoint(rec, slots[id])
  <2>1. \A id \in Live : Disjoint(r, slots[id])
    BY <1>2, <1>4 DEF NoOverlap
  <2>2. QED
    BY <2>1, <1>5, <1>6, <1>9, <1>1 DEF Disjoint, End
<1>13. NoOverlap'
  <2>1. \A p, q \in freeList' : p # q => Disjoint(p, q)
    BY <1>8 DEF WellFormed
  <2>2. ASSUME NEW p \in freeList', NEW id \in Live'
        PROVE  Disjoint(p, slots'[id])
    <3>1. CASE id = id0
      BY <3>1, <1>6, <1>7, <1>8 DEF Disjoint
    <3>2. CASE id # id0
      <4>1. id \in Live /\ slots'[id] = slots[id]
        BY <3>2, <1>7
      <4>2. PICK q \in freeList : q.offset <= p.offset /\ End(p) = End(q)
        BY <1>8
      <4>3. Disjoint(q, slots[id])
        BY <4>1, <4>2, <1>4 DEF NoOverlap
      <4>4. QED
        BY <4>1, <4>2, <4>3, <1>9 DEF Disjoint, End
    <3>3. QED
      BY <3>1, <3>2
  <2>3. ASSUME NEW id \in Live', NEW jd \in Live', id # jd
        PROVE  Disjoint(slots'[id], slots'[jd])
    BY <2>3, <1>4, <1>7, <1>12 DEF NoOverlap
  <2>4. QED
    BY <2>1, <2>2, <2>3 DEF NoOverlap
<1>14. Covered'
  <2>1. SUFFICES ASSUME NEW b \in 0..(Capacity - 1)
                 PROVE  \/ \E g \in freeList' : g.offset <= b /\ b < End(g)
                        \/ \E id \in Live' : slots'[id].offset <= b /\ b < End(slots'[id])
    BY DEF Covered
  <2>2. CASE \E id \in Live : slots[id].offset <= b /\ b < End(slots[id])
    BY <2>2, <1>7
  <2>3. CASE \E g \in freeList : g.offset <= b /\ b < End(g)
    <3>1. Covers(freeList', b) \/ (r.offset <= b /\ b < r.offset + n)
      BY <2>3, <1>8, CapacityAssumption DEF Covers
    <3>2. CASE Covers(freeList', b)
      BY <3>2 DEF Covers
    <3>3. CASE r.offset <= b /\ b < r.offset + n
      BY <3>3, <1>6, <1>7
    <3>4. QED
      BY <3>1, <3>2, <3>3
  <2>4. QED
    BY <2>2, <2>3, <1>4 DEF Covered
<1>15. UsedIsTaken'
  <2>1. Taken' = Taken \cup Bytes(rec)
    BY <1>7 DEF Taken
  <2>2. Taken \cap Bytes(rec) = {}
    BY <1>5, <1>6, <1>9, <1>12, <1>1 DEF Taken, Bytes, Disjoint, End
  <2>3. IsFiniteSet(Taken)
    BY <1>4, TakenFinite
  <2>4. IsFiniteSet(Bytes(rec)) /\ Cardinality(Bytes(rec)) = n
    BY <1>1, <1>5, <1>6, BytesFacts
  <2>5. Cardinality(Taken') = Cardinality(Taken) + n
    BY <2>1, <2>2, <2>3, <2>4, DisjointSum
  <2>6. QED
    BY <2>5, <1>3, <1>4 DEF UsedIsTaken
<1>16. VictimsReady'
  BY <1>3 DEF VictimsReady
<1>17. QED
  BY <1>7, <1>8, <1>10, <1>11, <1>13, <1>14, <1>15, <1>16 DEF Inv, Partition

\* A free moves a slot's bytes back to the list.
LEMMA FreeKeeps ==
  ASSUME Inv, NEW id0 \in Live, FreeSlot(id0),
         victims' \in Seq(1..Len(slots)), frame' = frame
  PROVE  TypeOK' /\ Partition' /\ WellFormed(freeList') /\ UsedIsTaken' /\ RecycledOnce'
<1> DEFINE o == slots[id0].offset
           n == slots[id0].size
<1>1. /\ TypeOK /\ InBounds /\ NoOverlap /\ Covered /\ WellFormed(freeList)
      /\ RecycledOnce /\ UsedIsTaken
  BY DEF Inv, Partition
<1>2. /\ slots' \in Seq(SlotRecord) /\ Len(slots') = Len(slots)
      /\ freeSlotIds' \in Seq(1..Len(slots'))
      /\ Live' = Live \ {id0}
      /\ \A other \in Live' : slots'[other] = slots[other]
      /\ freeList' = InsertFreeRange(freeList, o, n)
      /\ used' = used - n
      /\ RecycledOnce'
  BY <1>1, FreedAt
<1>3. \A id \in Live : slots[id].offset \in Nat /\ slots[id].size \in Nat
                       /\ End(slots[id]) = slots[id].offset + slots[id].size
  BY <1>1, LiveRecords DEF SlotRecord, End
<1>4. /\ o \in Nat /\ n \in Nat \ {0} /\ End(slots[id0]) = o + n /\ o + n <= Capacity
      /\ slots[id0].offset = o /\ slots[id0].size = n
  BY <1>1, <1>3 DEF InBounds
<1>5. \A q \in freeList : q.offset \in Nat /\ q.size \in Nat
  BY <1>1 DEF WellFormed, FreeRange
<1> HIDE DEF o, n
<1>6. \A q \in freeList : Disjoint([offset |-> o, size |-> n], q)
  <2>1. \A q \in freeList : Disjoint(q, slots[id0])
    BY <1>1 DEF NoOverlap
  <2>2. QED
    BY <2>1, <1>4, <1>5 DEF Disjoint, End
<1>7. /\ WellFormed(freeList')
      /\ \A b \in Nat : (o <= b /\ b < o + n) \/ Covers(freeList, b) => Covers(freeList', b)
      /\ \A l, m \in Nat :
           /\ m > 0
           /\ l + m <= o \/ o + n <= l
           /\ \A q \in freeList : End(q) <= l \/ l + m <= q.offset
           => \A q \in freeList' : End(q) <= l \/ l + m <= q.offset
      /\ \A cap \in Nat :
           o + n <= cap /\ (\A q \in freeList : End(q) <= cap)
             => \A q \in freeList' : End(q) <= cap
  BY <1>1, <1>2, <1>4, <1>6, InsertKeeps
<1>8. InBounds'
  <2>1. \A g \in freeList' : g.size > 0
    BY <1>7 DEF WellFormed
  <2>2. \A g \in freeList' : End(g) <= Capacity
    BY <1>1, <1>4, <1>7, CapacityAssumption DEF InBounds
  <2>3. \A id \in Live' : slots'[id].size > 0 /\ End(slots'[id]) <= Capacity
    BY <1>1, <1>2 DEF InBounds
  <2>4. QED
    BY <2>1, <2>2, <2>3 DEF InBounds
<1>9. NoOverlap'
  <2>1. \A p, q \in freeList' : p # q => Disjoint(p, q)
    BY <1>7 DEF WellFormed
  <2>2. ASSUME NEW p \in freeList', NEW id \in Live'
        PROVE  Disjoint(p, slots'[id])
    <3> DEFINE l == slots[id].offset
               m == slots[id].size
    <3>1. id \in Live /\ id # id0 /\ slots'[id] = slots[id]
      BY <1>2
    <3>2. l \in Nat /\ m \in Nat /\ m > 0 /\ End(slots[id]) = l + m
      BY <1>1, <1>3, <3>1 DEF InBounds
    <3>3. \A q \in freeList : Disjoint(q, slots[id])
      BY <1>1, <3>1 DEF NoOverlap
    <3>4. Disjoint(slots[id0], slots[id])
      BY <1>1, <3>1 DEF NoOverlap
    <3>5. l + m <= o \/ o + n <= l
      BY <1>4, <3>2, <3>4 DEF Disjoint
    <3>6. \A q \in freeList : End(q) <= l \/ l + m <= q.offset
      BY <3>2, <3>3 DEF Disjoint
    <3> HIDE DEF l, m
    <3>7. End(p) <= l \/ l + m <= p.offset
      BY <1>7, <3>2, <3>5, <3>6
    <3>8. QED
      BY <3>1, <3>2, <3>7 DEF Disjoint, l
  <2>3. ASSUME NEW id \in Live', NEW jd \in Live', id # jd
        PROVE  Disjoint(slots'[id], slots'[jd])
    BY <2>3, <1>1, <1>2 DEF NoOverlap
  <2>4. QED
    BY <2>1, <2>2, <2>3 DEF NoOverlap
<1>10. Covered'
  <2>1. SUFFICES ASSUME NEW b \in 0..(Capacity - 1)
                 PROVE  \/ \E g \in freeList' : g.offset <= b /\ b < End(g)
                        \/ \E id \in Live' : slots'[id].offset <= b /\ b < End(slots'[id])
    BY DEF Covered
  <2>2. b \in Nat
    BY CapacityAssumption
  <2>3. CASE Covers(freeList, b) \/ (o <= b /\ b < o + n)
    BY <2>2, <2>3, <1>7 DEF Covers
  <2>4. CASE \E id \in Live : id # id0 /\ slots[id].offset <= b /\ b < End(slots[id])
    BY <2>4, <1>2
  <2>5. QED
    BY <2>3, <2>4, <1>1, <1>4 DEF Covered, Covers
<1>11. IsFiniteSet(Taken') /\ Cardinality(Taken) = Cardinality(Taken') + n
  <2>1. Taken = Taken' \cup Bytes(slots[id0])
    BY <1>2 DEF Taken
  <2>2. Taken' \cap Bytes(slots[id0]) = {}
    <3>1. SUFFICES ASSUME NEW id \in Live', NEW b,
                          b \in Bytes(slots[id]), b \in Bytes(slots[id0])
                   PROVE  FALSE
      BY <1>2 DEF Taken
    <3>2. id \in Live /\ id # id0
      BY <1>2
    <3>3. Disjoint(slots[id], slots[id0])
      BY <3>2, <1>1 DEF NoOverlap
    <3>4. slots[id].offset \in Nat /\ End(slots[id]) \in Nat
      BY <3>2, <1>3
    <3>5. b \in Int /\ slots[id].offset <= b /\ b < End(slots[id])
      BY <3>1, <3>4 DEF Bytes
    <3>6. o <= b /\ b < o + n
      BY <3>1, <1>4 DEF Bytes
    <3>7. QED
      BY <3>3, <3>4, <3>5, <3>6, <1>4 DEF Disjoint
  <2>3. IsFiniteSet(Taken')
    BY <2>1, <1>1, TakenFinite, FS_Subset
  <2>4. IsFiniteSet(Bytes(slots[id0])) /\ Cardinality(Bytes(slots[id0])) = n
    BY <1>3, <1>4, BytesFacts
  <2>5. Cardinality(Taken' \cup Bytes(slots[id0])) = Cardinality(Taken') + n
    BY <2>2, <2>3, <2>4, DisjointSum
  <2>6. QED
    BY <2>1, <2>3, <2>5
<1>12. UsedIsTaken' /\ used' \in Nat
  <2>1. Cardinality(Taken') \in Nat
    BY <1>11, FS_CardinalityType
  <2>2. used' = Cardinality(Taken')
    BY <2>1, <1>1, <1>2, <1>4, <1>11 DEF UsedIsTaken
  <2>3. QED
    BY <2>1, <2>2 DEF UsedIsTaken
<1>13. TypeOK'
  <2>1. freeList' \subseteq [offset : Nat, size : Nat]
    BY <1>7 DEF WellFormed, FreeRange
  <2>2. victims' \in Seq(1..Len(slots')) /\ frame' \in Nat
    BY <1>1, <1>2 DEF TypeOK
  <2>3. QED
    BY <2>1, <2>2, <1>2, <1>12 DEF TypeOK
<1>14. QED
  BY <1>2, <1>7, <1>8, <1>9, <1>10, <1>12, <1>13 DEF Partition

\* One more victim freed: the rest stay live and in order.
LEMMA EvictKeeps ==
  ASSUME Inv, EvictNext
  PROVE  Inv' /\ Head(victims) \in Live
<1> DEFINE n == Len(victims)
           id0 == Head(victims)
<1>1. TypeOK /\ VictimsReady /\ RecycledOnce
  BY DEF Inv
<1>2. victims # <<>> /\ FreeSlot(id0) /\ victims' = Tail(victims) /\ frame' = frame
  BY DEF EvictNext
<1>3. victims \in Seq(1..Len(slots)) /\ n \in Nat /\ n >= 1
  BY <1>1, <1>2 DEF TypeOK
<1>4. /\ victims' \in Seq(1..Len(slots)) /\ Len(victims') = n - 1
      /\ id0 = victims[1]
      /\ \A i \in 1..(n - 1) : victims'[i] = victims[i + 1]
  BY <1>2, <1>3
<1>5. id0 \in Live
  BY <1>1, <1>3, <1>4 DEF VictimsReady
<1> HIDE DEF id0
<1>6. TypeOK' /\ Partition' /\ WellFormed(freeList') /\ UsedIsTaken' /\ RecycledOnce'
  BY <1>2, <1>4, <1>5, FreeKeeps
<1>7. Live' = Live \ {id0} /\ \A other \in Live' : slots'[other] = slots[other]
  BY <1>1, <1>2, <1>5, FreedAt
<1>8. \A i \in 1..(n - 1) : i + 1 \in 1..n /\ i + 1 # 1
  BY <1>3
<1>9. \A i \in 1..(n - 1) : victims'[i] \in Live' /\ slots'[victims'[i]] = slots[victims[i + 1]]
  <2>1. \A i \in 1..(n - 1) : victims[i + 1] \in Live
    BY <1>1, <1>8 DEF VictimsReady
  <2>2. \A i \in 1..(n - 1) : victims[i + 1] # id0
    BY <1>1, <1>3, <1>4, <1>8 DEF VictimsReady
  <2>3. QED
    BY <2>1, <2>2, <1>4, <1>7
<1>10. VictimsReady'
  <2>1. \A i \in 1..(n - 1) : slots'[victims'[i]].lastUsedFrame < frame'
    BY <1>1, <1>2, <1>8, <1>9 DEF VictimsReady
  <2>2. \A i, j \in 1..(n - 1) : victims'[i] = victims'[j] => i = j
    <3>1. \A i, j \in 1..(n - 1) : victims'[i] = victims'[j] => i + 1 = j + 1
      BY <1>1, <1>4, <1>8 DEF VictimsReady
    <3>2. QED
      BY <3>1
  <2>3. \A i, j \in 1..(n - 1) :
          i < j => slots'[victims'[i]].lastUsedFrame <= slots'[victims'[j]].lastUsedFrame
    <3>1. ASSUME NEW i \in 1..(n - 1), NEW j \in 1..(n - 1), i < j
          PROVE  slots[victims[i + 1]].lastUsedFrame <= slots[victims[j + 1]].lastUsedFrame
      <4>1. i + 1 \in 1..n /\ j + 1 \in 1..n /\ i + 1 < j + 1
        BY <3>1, <1>3
      <4>2. QED
        BY <4>1, <1>1 DEF VictimsReady
    <3>2. QED
      BY <3>1, <1>9
  <2>4. ASSUME NEW id \in Live', NEW i \in 1..(n - 1),
               \A j \in 1..(n - 1) : victims'[j] # id
        PROVE  slots'[victims'[i]].lastUsedFrame <= slots'[id].lastUsedFrame
    <3>1. id \in Live /\ id # id0 /\ slots'[id] = slots[id]
      BY <1>7
    <3>2. \A k \in 1..n : victims[k] # id
      <4>1. ASSUME NEW k \in 1..n, victims[k] = id PROVE FALSE
        <5>1. k # 1
          BY <4>1, <3>1, <1>4
        <5>2. k - 1 \in 1..(n - 1) /\ (k - 1) + 1 = k
          BY <5>1, <1>3
        <5>3. victims'[k - 1] = victims[k]
          BY <5>2, <1>4
        <5>4. QED
          BY <5>2, <5>3, <4>1, <2>4
      <4>2. QED
        BY <4>1
    <3>3. slots[victims[i + 1]].lastUsedFrame <= slots[id].lastUsedFrame
      BY <3>1, <3>2, <1>1, <1>8 DEF VictimsReady
    <3>4. QED
      BY <3>1, <3>3, <1>9
  <2>5. QED
    BY <2>1, <2>2, <2>3, <2>4, <1>4, <1>9 DEF VictimsReady
<1>11. QED
  BY <1>5, <1>6, <1>10 DEF Inv, id0

\* touch() and the choice of victims only order the slots; a new frame only
\* makes more of them eligible.
LEMMA TouchKeeps ==
  ASSUME Inv, NEW id0 \in DOMAIN slots, Touch(id0)
  PROVE  Inv' /\ Live' = Live
         /\ \A id \in Live : /\ slots'[id].offset = slots[id].offset
                             /\ slots'[id].size = slots[id].size
                             /\ slots'[id].meshId = slots[id].meshId
<1>1. /\ TypeOK /\ Partition /\ WellFormed(freeList) /\ UsedIsTaken /\ RecycledOnce
      /\ victims = <<>> /\ victims' = victims /\ frame' = frame
      /\ freeList' = freeList /\ freeSlotIds' = freeSlotIds /\ used' = used
  BY DEF Inv, Touch
<1>2. slots \in Seq(SlotRecord) /\ frame \in Nat /\ id0 \in 1..Len(slots)
  BY <1>1 DEF TypeOK
<1>3. /\ slots' \in Seq(SlotRecord) /\ Len(slots') = Len(slots)
      /\ DOMAIN slots' = DOMAIN slots
      /\ \A id \in DOMAIN slots : /\ slots'[id].offset = slots[id].offset
                                  /\ slots'[id].size = slots[id].size
                                  /\ slots'[id].meshId = slots[id].meshId
  <2>1. CASE slots' = slots
    BY <2>1, <1>2
  <2>2. CASE slots' = [slots EXCEPT ![id0].lastUsedFrame = frame]
    <3> DEFINE old == slots[id0]
    <3>1. /\ old \in SlotRecord
          /\ slots'[id0] = [old EXCEPT !.lastUsedFrame = frame]
      BY <2>2, <1>2
    <3> HIDE DEF old
    <3>2. slots'[id0] \in SlotRecord
      BY <3>1, <1>2 DEF SlotRecord
    <3>3. /\ slots'[id0].offset = old.offset
          /\ slots'[id0].size = old.size
          /\ slots'[id0].meshId = old.meshId
      BY <3>1 DEF SlotRecord
    <3>4. /\ slots'[id0].offset = slots[id0].offset
          /\ slots'[id0].size = slots[id0].size
          /\ slots'[id0].meshId = slots[id0].meshId
      BY <3>3 DEF old
    <3>5. /\ DOMAIN slots' = DOMAIN slots
          /\ \A id \in DOMAIN slots : id # id0 => slots'[id] = slots[id]
      BY <2>2, <1>2
    <3>6. slots' = [slots EXCEPT ![id0] = slots'[id0]]
      BY <2>2, <1>2
    <3>7. slots' \in Seq(SlotRecord) /\ Len(slots') = Len(slots)
      BY <3>2, <3>6, <1>2
    <3>8. QED
      BY <3>4, <3>5, <3>7
  <2>3. QED
    BY <2>1, <2>2 DEF Touch
<1>4. Live' = Live
  BY <1>3 DEF Live
<1>5. TypeOK'
  BY <1>1, <1>3 DEF TypeOK
<1>6. \A id \in Live : /\ slots'[id].offset = slots[id].offset
                       /\ slots'[id].size = slots[id].size
                       /\ slots'[id].meshId = slots[id].meshId
                       /\ End(slots'[id]) = End(slots[id])
                       /\ Bytes(slots'[id]) = Bytes(slots[id])
  BY <1>3 DEF Live, End, Bytes
<1>7. Partition'
  <2>1. InBounds'
    BY <1>1, <1>4, <1>6 DEF Partition, InBounds
  <2>2. NoOverlap'
    BY <1>1, <1>4, <1>6 DEF Partition, NoOverlap, Disjoint
  <2>3. Covered'
    BY <1>1, <1>4, <1>6 DEF Partition, Covered
  <2>4. QED
    BY <2>1, <2>2, <2>3 DEF Partition
<1>8. UsedIsTaken'
  <2>1. Taken' = Taken
    BY <1>4, <1>6 DEF Taken
  <2>2. QED
    BY <2>1, <1>1 DEF UsedIsTaken
<1>9. RecycledOnce' /\ VictimsReady'
  BY <1>1, <1>4 DEF RecycledOnce, VictimsReady
<1>10. QED
  BY <1>1, <1>4, <1>5, <1>6, <1>7, <1>8, <1>9 DEF Inv

\* The victims chosen are ready to be freed.
LEMMA ChooseKeeps ==
  ASSUME Inv, EvictLRU(EvictCount)
  PROVE  Inv'
<1>1. PICK n \in 1..EvictCount : \E v \in [1..n -> DOMAIN slots] :
        VictimList(frame, v) /\ victims' = v
  BY DEF EvictLRU
<1>2. PICK v \in [1..n -> DOMAIN slots] : VictimList(frame, v) /\ victims' = v
  BY <1>1
<1>3. UNCHANGED <<freeList, slots, freeSlotIds, used, frame>>
  BY DEF EvictLRU
<1>4. TypeOK /\ slots \in Seq(SlotRecord) /\ frame \in Nat /\ DOMAIN slots = 1..Len(slots)
  BY DEF Inv, TypeOK
<1>5. v \in Seq(1..Len(slots)) /\ Len(v) = n
  BY <1>2, <1>4, BoundsAssumption
<1>6. Live' = Live
  BY <1>3 DEF Live
<1>7. VictimsReady'
  <2>1. \A i \in 1..Len(v) : v[i] \in Live /\ slots[v[i]].lastUsedFrame < frame
    BY <1>2 DEF VictimList, Candidates
  <2>2. /\ \A i, j \in 1..Len(v) : v[i] = v[j] => i = j
        /\ \A i, j \in 1..Len(v) :
             i < j => slots[v[i]].lastUsedFrame <= slots[v[j]].lastUsedFrame
    BY <1>2 DEF VictimList
  <2>3. ASSUME NEW id \in Live, NEW i \in 1..Len(v), \A j \in 1..Len(v) : v[j] # id
        PROVE  slots[v[i]].lastUsedFrame <= slots[id].lastUsedFrame
    <3>1. CASE id \in Candidates(frame)
      BY <3>1, <2>3, <1>2 DEF VictimList
    <3>2. CASE id \notin Candidates(frame)
      <4>1. ~ (slots[id].lastUsedFrame < frame)
        BY <3>2 DEF Candidates
      <4>2. slots[id].lastUsedFrame \in Nat /\ slots[v[i]].lastUsedFrame \in Nat
        BY <2>1, <1>4, LiveRecords DEF SlotRecord
      <4>3. QED
        BY <4>1, <4>2, <2>1, <1>4
    <3>3. QED
      BY <3>1, <3>2
  <2>4. QED
    BY <2>1, <2>2, <2>3, <1>2, <1>3, <1>6 DEF VictimsReady
<1>8. TypeOK'
  BY <1>2, <1>3, <1>4, <1>5 DEF TypeOK
<1>9. Partition' /\ UsedIsTaken' /\ RecycledOnce' /\ WellFormed(freeList')
  <2>1. InBounds' /\ NoOverlap' /\ Covered'
    BY <1>3, <1>6 DEF Inv, Partition, InBounds, NoOverlap, Covered
  <2>2. Taken' = Taken
    BY <1>3, <1>6 DEF Taken
  <2>3. UsedIsTaken' /\ RecycledOnce' /\ WellFormed(freeList')
    BY <1>3, <1>6, <2>2 DEF Inv, UsedIsTaken, RecycledOnce
  <2>4. QED
    BY <2>1, <2>3 DEF Partition
<1>10. QED
  BY <1>7, <1>8, <1>9 DEF Inv

\* Nothing but the frame number, or nothing at all, changes.
LEMMA StillKeeps ==
  ASSUME Inv, UNCHANGED <<freeList, slots, freeSlotIds, used, victims>>,
         frame' = frame \/ (victims = <<>> /\ frame' = frame + 1)
  PROVE  Inv' /\ Live' = Live
<1>1. Live' = Live /\ Taken' = Taken
  BY DEF Live, Taken
<1>2. InBounds' /\ NoOverlap' /\ Covered'
  BY <1>1 DEF Inv, Partition, InBounds, NoOverlap, Covered
<1>3. UsedIsTaken' /\ RecycledOnce' /\ WellFormed(freeList')
  BY <1>1 DEF Inv, UsedIsTaken, RecycledOnce
<1>4. VictimsReady'
  BY <1>1 DEF Inv, VictimsReady
<1>5. TypeOK'
  BY DEF Inv, TypeOK
<1>6. QED
  BY <1>1, <1>2, <1>3, <1>4, <1>5 DEF Inv, Partition

(***************************************************************************)
(* The theorems.                                                           *)
(***************************************************************************)

\* A caller's free is a free of a live slot or does nothing.
LEMMA CallFreeCases ==
  ASSUME NEW id, CallFree(id)
  PROVE  /\ victims = <<>> /\ UNCHANGED <<frame, victims>>
         /\ \/ id \in Live /\ FreeSlot(id)
            \/ UNCHANGED <<freeList, slots, freeSlotIds, used>>
  BY DEF CallFree, FreeSlot

LEMMA InitInv == Init => Inv
<1> SUFFICES ASSUME Init PROVE Inv
  OBVIOUS
<1> DEFINE all == [offset |-> 0, size |-> Capacity]
<1>1. /\ freeList = {all} /\ slots = <<>> /\ freeSlotIds = <<>>
      /\ used = 0 /\ frame = 0 /\ victims = <<>> /\ Live = {}
  BY DEF Init, Live
<1>2. all \in FreeRange /\ all.size = Capacity /\ all.offset = 0 /\ End(all) = Capacity
  BY CapacityAssumption DEF FreeRange, End
<1> HIDE DEF all
<1>3. TypeOK
  <2>1. freeList \subseteq [offset : Nat, size : Nat]
    BY <1>1, <1>2 DEF FreeRange
  <2>2. slots \in Seq(SlotRecord) /\ freeSlotIds \in Seq(1..Len(slots))
    BY <1>1
  <2>3. victims \in Seq(1..Len(slots))
    BY <1>1
  <2>4. QED
    BY <1>1, <2>1, <2>2, <2>3 DEF TypeOK
<1>4. WellFormed(freeList)
  BY <1>1, <1>2, CapacityAssumption DEF WellFormed
<1>5. Partition
  <2>1. InBounds
    BY <1>1, <1>2, CapacityAssumption DEF InBounds
  <2>2. NoOverlap
    BY <1>1 DEF NoOverlap
  <2>3. Covered
    BY <1>1, <1>2, CapacityAssumption DEF Covered
  <2>4. QED
    BY <2>1, <2>2, <2>3 DEF Partition
<1>6. UsedIsTaken
  BY <1>1, FS_EmptySet DEF UsedIsTaken, Taken
<1>7. RecycledOnce /\ VictimsReady
  BY <1>1 DEF RecycledOnce, VictimsReady
<1>8. QED
  BY <1>3, <1>4, <1>5, <1>6, <1>7 DEF Inv

LEMMA NextInv == Inv /\ [Next]_vars => Inv'
<1> SUFFICES ASSUME Inv, [Next]_vars PROVE Inv'
  OBVIOUS
<1>1. CASE \E bytes \in Request, mesh \in MeshId : Alloc(bytes, mesh)
  BY <1>1, AllocKeeps
<1>2. ASSUME NEW id \in DOMAIN slots, CallFree(id) PROVE Inv'
  <2>1. CASE id \in Live /\ FreeSlot(id)
    <3>1. /\ victims' = victims /\ victims = <<>> /\ frame' = frame
          /\ victims' \in Seq(1..Len(slots))
      BY <1>2, CallFreeCases DEF Inv, TypeOK
    <3>2. VictimsReady'
      BY <3>1 DEF VictimsReady
    <3>3. QED
      BY <2>1, <3>1, <3>2, FreeKeeps DEF Inv
  <2>2. CASE UNCHANGED <<freeList, slots, freeSlotIds, used>>
    BY <2>2, <1>2, CallFreeCases, StillKeeps
  <2>3. QED
    BY <2>1, <2>2, <1>2, CallFreeCases
<1>3. ASSUME NEW id \in DOMAIN slots, Touch(id) PROVE Inv'
  BY <1>3, TouchKeeps
<1>4. CASE EvictLRU(EvictCount)
  BY <1>4, ChooseKeeps
<1>5. CASE EvictNext
  BY <1>5, EvictKeeps
<1>6. CASE NextFrame
  BY <1>6, StillKeeps DEF NextFrame
<1>7. CASE UNCHANGED vars
  BY <1>7, StillKeeps DEF vars
<1>8. QED
  BY <1>1, <1>2, <1>3, <1>4, <1>5, <1>6, <1>7 DEF Next

\* The inductive invariant, of every reachable state.
THEOREM Invariance == Spec => []Inv
<1>1. Init => Inv
  BY InitInv
<1>2. Inv /\ [Next]_vars => Inv'
  BY NextInv
<1>3. QED
  BY <1>1, <1>2, PTL DEF Spec

\* The variables keep their types; used_ never wraps below zero.
THEOREM TypeCorrect == Spec => []TypeOK
<1>1. Inv => TypeOK
  BY DEF Inv
<1>2. QED
  BY <1>1, Invariance, PTL

\* Free ranges and live slots partition the buffer, for every capacity: no two
\* meshes share a byte, no byte is lost.
THEOREM PoolPartitioned == Spec => []Partition
<1>1. Inv => Partition
  BY DEF Inv
<1>2. QED
  BY <1>1, Invariance, PTL

\* used_ is exact.
THEOREM UsedExact == Spec => []UsedIsTaken
<1>1. Inv => UsedIsTaken
  BY DEF Inv
<1>2. QED
  BY <1>1, Invariance, PTL

\* A request fails only when its bytes do not lie free in a row anywhere: the
\* free range that covers the first byte reaches the last one, since a second
\* range would have to start exactly where the first ends.
THEOREM FailsOnlyWhenFull == Spec => []NoFalseExhaustion
<1>1. Inv => NoFalseExhaustion
  <2> SUFFICES ASSUME Inv, NEW bytes \in Request,
                      NEW low \in 0..(Capacity - RoundUp(bytes)),
                      \A id \in Live :
                        Disjoint([offset |-> low, size |-> RoundUp(bytes)], slots[id])
               PROVE  \E r \in freeList : Fits(r, RoundUp(bytes))
    BY DEF NoFalseExhaustion
  <2> DEFINE n == RoundUp(bytes)
  <2>1. n \in Nat \ {0}
    BY RoundUpFacts, RequestAssumption
  <2>2. /\ Covered /\ WellFormed(freeList) /\ InBounds
        /\ \A id \in Live : slots[id].offset \in Nat /\ slots[id].size \in Nat
    BY LiveRecords DEF Inv, Partition, SlotRecord
  <2>3. \A id \in Live : low + n <= slots[id].offset \/ End(slots[id]) <= low
    BY <2>1, <2>2 DEF Disjoint, End
  <2> HIDE DEF n
  <2>4. low \in Nat /\ low + n <= Capacity
    BY <2>1, CapacityAssumption DEF n
  <2>5. \A b \in low..(low + n - 1) : \E r \in freeList : r.offset <= b /\ b < End(r)
    <3>1. ASSUME NEW b \in low..(low + n - 1)
          PROVE  \E r \in freeList : r.offset <= b /\ b < End(r)
      <4>1. b \in 0..(Capacity - 1)
        BY <2>1, <2>4, CapacityAssumption
      <4>2. \A id \in Live : ~ (slots[id].offset <= b /\ b < End(slots[id]))
        BY <2>1, <2>2, <2>3, <2>4 DEF End
      <4>3. QED
        BY <4>1, <4>2, <2>2 DEF Covered
    <3>2. QED
      BY <3>1
  <2>6. PICK r \in freeList : r.offset <= low /\ low < End(r)
    BY <2>1, <2>4, <2>5
  <2>7. \A q \in freeList : q.offset \in Nat /\ q.size \in Nat /\ q.size > 0
    BY <2>2 DEF WellFormed, FreeRange
  <2>8. low + n <= End(r)
    <3>1. SUFFICES ASSUME End(r) < low + n PROVE FALSE
      BY <2>1, <2>4, <2>7 DEF End
    <3>2. End(r) \in low..(low + n - 1)
      BY <3>1, <2>1, <2>4, <2>6, <2>7 DEF End
    <3>3. PICK q \in freeList : q.offset <= End(r) /\ End(r) < End(q)
      BY <3>2, <2>5
    <3>4. Disjoint(r, q)
      BY <3>3, <2>2, <2>7 DEF WellFormed, End
    <3>5. End(r) = q.offset
      BY <3>3, <3>4, <2>7 DEF Disjoint, End
    <3>6. QED
      BY <3>5, <2>2 DEF WellFormed
  <2>9. r.size >= n
    BY <2>1, <2>4, <2>6, <2>7, <2>8 DEF End
  <2>10. QED
    BY <2>9 DEF Fits, n
<1>2. QED
  BY <1>1, Invariance, PTL

\* A live slot's extent and mesh never move.
THEOREM SlotsStable == Spec => StableSlots
<1> DEFINE A == \A id \in Live : id \in Live' =>
                  /\ slots'[id].offset = slots[id].offset
                  /\ slots'[id].size = slots[id].size
                  /\ slots'[id].meshId = slots[id].meshId
<1>1. Inv /\ [Next]_vars => A
  <2> SUFFICES ASSUME Inv, [Next]_vars PROVE A
    OBVIOUS
  <2>0. TypeOK /\ RecycledOnce
    BY DEF Inv
  <2>1. ASSUME NEW bytes \in Request, NEW mesh \in MeshId, Alloc(bytes, mesh) PROVE A
    <3>1. RoundUp(bytes) \in Nat
      BY RoundUpFacts, RequestAssumption
    <3>2. PICK r \in freeList :
            StoreSlot([offset |-> r.offset, size |-> RoundUp(bytes),
                       meshId |-> mesh, lastUsedFrame |-> 0])
      BY <2>1 DEF Alloc
    <3>3. /\ [offset |-> r.offset, size |-> RoundUp(bytes),
              meshId |-> mesh, lastUsedFrame |-> 0] \in SlotRecord
          /\ mesh # Free
      BY <2>0, <3>1, MeshAssumption DEF TypeOK, SlotRecord, Free
    <3>4. \A id \in Live : slots'[id] = slots[id]
      BY <2>0, <3>2, <3>3, StoredAt
    <3>5. QED
      BY <3>4
  <2>2. ASSUME NEW id \in DOMAIN slots, CallFree(id) PROVE A
    <3>1. CASE id \in Live /\ FreeSlot(id)
      BY <3>1, <2>0, FreedAt
    <3>2. CASE UNCHANGED <<freeList, slots, freeSlotIds, used>>
      BY <3>2
    <3>3. QED
      BY <3>1, <3>2, <2>2, CallFreeCases
  <2>3. ASSUME NEW id \in DOMAIN slots, Touch(id) PROVE A
    BY <2>3, TouchKeeps
  <2>4. CASE EvictNext
    <3>1. Head(victims) \in Live /\ FreeSlot(Head(victims))
      BY <2>4, EvictKeeps DEF EvictNext
    <3>2. QED
      BY <3>1, <2>0, FreedAt
  <2>5. CASE EvictLRU(EvictCount) \/ NextFrame \/ UNCHANGED vars
    BY <2>5 DEF EvictLRU, NextFrame, vars
  <2>6. QED
    BY <2>1, <2>2, <2>3, <2>4, <2>5 DEF Next
<1>2. QED
  BY <1>1, Invariance, PTL DEF Spec, StableSlots

\* evictLRU frees the least recently used, and nothing of the current frame.
THEOREM LeastRecentlyUsed == Spec => EvictsOldest
<1> DEFINE A == \A id \in Live \ Live' : victims # <<>> =>
                  /\ slots[id].lastUsedFrame < frame
                  /\ \A other \in Live' :
                       \/ slots[id].lastUsedFrame <= slots[other].lastUsedFrame
                       \/ \E i \in 1..Len(victims) : victims[i] = other
<1>1. Inv /\ [Next]_vars => A
  <2> SUFFICES ASSUME Inv, [Next]_vars PROVE A
    OBVIOUS
  <2>1. CASE EvictNext
    <3>1. /\ victims # <<>> /\ FreeSlot(Head(victims)) /\ Head(victims) \in Live
          /\ TypeOK /\ RecycledOnce /\ VictimsReady
      BY <2>1, EvictKeeps DEF EvictNext, Inv
    <3>2. Live' = Live \ {Head(victims)}
      BY <3>1, FreedAt
    <3>3. 1 \in 1..Len(victims) /\ Head(victims) = victims[1]
      BY <3>1 DEF TypeOK
    <3>4. QED
      BY <3>2, <3>3, <3>1 DEF VictimsReady
  <2>2. CASE UNCHANGED vars \/ EvictLRU(EvictCount) \/ NextFrame
    <3>1. Live' = Live
      BY <2>2 DEF vars, EvictLRU, NextFrame, Live
    <3>2. QED
      BY <3>1
  <2>3. CASE \/ \E bytes \in Request, mesh \in MeshId : Alloc(bytes, mesh)
             \/ \E id \in DOMAIN slots : CallFree(id) \/ Touch(id)
    BY <2>3 DEF Alloc, CallFree, Touch
  <2>4. QED
    BY <2>1, <2>2, <2>3 DEF Next
<1>2. QED
  BY <1>1, Invariance, PTL DEF Spec, EvictsOldest
=============================================================================
