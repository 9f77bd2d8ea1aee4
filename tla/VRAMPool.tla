------------------------------ MODULE VRAMPool ------------------------------
(***************************************************************************)
(* VRAMPool (src/src/MeshRegistry.cpp): one device buffer cut into slots   *)
(* by a first-fit allocator with a coalescing free list, recycled slot ids *)
(* and least-recently-used eviction.  Single-threaded, as its header says. *)
(*                                                                         *)
(* freeList_ is a vector kept sorted by offset; here it is the set of its  *)
(* ranges, and "next" and "previous" are by offset.  evictLRU is one       *)
(* action that picks and orders its victims and one per victim it frees;   *)
(* nothing else happens in between.  Requests are not empty.               *)
(***************************************************************************)
EXTENDS Integers, Sequences, FiniteSets

CONSTANTS
  Capacity,     \* bytes of the buffer
  Request,      \* byte counts the callers ask for
  MeshId,       \* meshes the callers name
  MaxSlots,     \* bound on the length of slots_
  MaxFrame,     \* bound on the frame number
  EvictCount    \* how many slots a caller asks to evict

ASSUME CapacityAssumption == Capacity \in Nat \ {0}
ASSUME RequestAssumption == Request \subseteq Nat \ {0}
ASSUME MeshAssumption == MeshId \subseteq Nat
ASSUME BoundsAssumption ==
  MaxSlots \in Nat /\ MaxFrame \in Nat /\ EvictCount \in Nat

VARIABLES
  freeList,     \* freeList_, as a set
  slots,        \* slots_: a record for each id below Len
  freeSlotIds,  \* freeSlotIds_: a stack
  used,         \* used_
  frame,        \* the caller's frame number
  victims       \* the rest of evictLRU's sorted list, <<>> outside it

vars == <<freeList, slots, freeSlotIds, used, frame, victims>>

Free == -1
Live == {id \in DOMAIN slots : slots[id].meshId # Free}
End(r) == r.offset + r.size

Init ==
  /\ freeList = {[offset |-> 0, size |-> Capacity]}
  /\ slots = <<>>
  /\ freeSlotIds = <<>>
  /\ used = 0
  /\ frame = 0
  /\ victims = <<>>

-----------------------------------------------------------------------------

\* (bytes + 15) & ~15
RoundUp(bytes) == ((bytes + 15) \div 16) * 16

Fits(r, n) == r \in freeList /\ r.size >= n

\* First fit takes the front of the lowest range that is large enough.
FirstFit(r, n) == Fits(r, n) /\ \A q \in freeList : Fits(q, n) => r.offset <= q.offset

Carve(r, n) ==
  (freeList \ {r}) \cup
    (IF r.size = n THEN {} ELSE {[offset |-> r.offset + n, size |-> r.size - n]})

\* Slot ids are vector indices; here they start at 1.
NewSlotId == IF freeSlotIds # <<>> THEN freeSlotIds[Len(freeSlotIds)] ELSE Len(slots) + 1

\* newSlotId() pops the recycled id or grows slots_; then the record is stored.
StoreSlot(record) ==
  IF freeSlotIds # <<>>
  THEN /\ slots' = [slots EXCEPT ![NewSlotId] = record]
       /\ freeSlotIds' = SubSeq(freeSlotIds, 1, Len(freeSlotIds) - 1)
  ELSE /\ slots' = Append(slots, record)
       /\ UNCHANGED freeSlotIds

\* A range that fits is found; when none does alloc returns -1 and changes nothing.
Alloc(bytes, mesh) ==
  /\ victims = <<>>
  /\ freeSlotIds # <<>> \/ Len(slots) < MaxSlots
  /\ \E r \in freeList :
       /\ FirstFit(r, RoundUp(bytes))
       /\ freeList' = Carve(r, RoundUp(bytes))
       /\ StoreSlot([offset |-> r.offset, size |-> RoundUp(bytes),
                     meshId |-> mesh, lastUsedFrame |-> 0])
  /\ used' = used + RoundUp(bytes)
  /\ UNCHANGED <<frame, victims>>

-----------------------------------------------------------------------------

\* The neighbours of a range about to be inserted at this offset.
Next_(F, offset) ==
  {q \in F : q.offset >= offset /\ \A p \in F : p.offset >= offset => q.offset <= p.offset}
Prev_(F, offset) ==
  {q \in F : q.offset < offset /\ \A p \in F : p.offset < offset => p.offset <= q.offset}

\* Only the next neighbour is merged.
InsertMergingNext(F, offset, size) ==
  LET next == {q \in Next_(F, offset) : q.offset = offset + size}
      high == IF next = {} THEN offset + size ELSE End(CHOOSE q \in next : TRUE)
  IN  (F \ next) \cup {[offset |-> offset, size |-> high - offset]}

\* The neighbours are merged and left in the list.
InsertKeepingNeighbours(F, offset, size) ==
  LET next == {q \in Next_(F, offset) : q.offset = offset + size}
      high == IF next = {} THEN offset + size ELSE End(CHOOSE q \in next : TRUE)
  IN  F \cup {[offset |-> offset, size |-> high - offset]}

\* Insert in order, swallow the next range if adjacent, be swallowed by the
\* previous one if adjacent.
InsertFreeRange(F, offset, size) ==
  LET next == {q \in Next_(F, offset) : q.offset = offset + size}
      prev == {q \in Prev_(F, offset) : End(q) = offset}
      low  == IF prev = {} THEN offset ELSE (CHOOSE q \in prev : TRUE).offset
      high == IF next = {} THEN offset + size ELSE End(CHOOSE q \in next : TRUE)
  IN  (F \ (prev \cup next)) \cup {[offset |-> low, size |-> high - low]}

\* free() without the test for a slot already free.
FreeSlotAgain(id) ==
  IF id \notin DOMAIN slots
  THEN UNCHANGED <<freeList, slots, freeSlotIds, used>>
  ELSE /\ freeList' = IF slots[id].size = 0 THEN freeList
                      ELSE InsertFreeRange(freeList, slots[id].offset, slots[id].size)
       /\ used' = used - slots[id].size
       /\ slots' = [slots EXCEPT ![id] = [offset |-> slots[id].offset, size |-> 0,
                                               meshId |-> Free, lastUsedFrame |-> 0]]
       /\ freeSlotIds' = Append(freeSlotIds, id)

\* free(): nothing for an id out of range or a slot already free.
FreeSlot(id) ==
  IF id \notin Live
  THEN UNCHANGED <<freeList, slots, freeSlotIds, used>>
  ELSE /\ freeList' = InsertFreeRange(freeList, slots[id].offset, slots[id].size)
       /\ used' = used - slots[id].size
       /\ slots' = [slots EXCEPT ![id] = [offset |-> slots[id].offset, size |-> 0,
                                               meshId |-> Free, lastUsedFrame |-> 0]]
       /\ freeSlotIds' = Append(freeSlotIds, id)

\* A caller frees an id it was given, possibly for the second time.
CallFree(id) ==
  /\ victims = <<>>
  /\ FreeSlot(id)
  /\ UNCHANGED <<frame, victims>>

\* touch(): also on a slot freed meanwhile.
Touch(id) ==
  /\ victims = <<>>
  /\ id \in DOMAIN slots
  /\ slots' = IF slots[id].lastUsedFrame < frame
              THEN [slots EXCEPT ![id].lastUsedFrame = frame]
              ELSE slots
  /\ UNCHANGED <<freeList, freeSlotIds, used, frame, victims>>

-----------------------------------------------------------------------------

Candidates(cutoff) == {id \in Live : slots[id].lastUsedFrame < cutoff}

\* The candidates in vector order, cut to count before the sort.
VictimsUnsorted(cutoff, v) ==
  /\ \A i \in 1..Len(v) : v[i] \in Candidates(cutoff)
  /\ \A i, j \in 1..Len(v) : v[i] = v[j] => i = j
  /\ \A i \in 1..Len(v) : \A id \in Candidates(cutoff) :
       id < v[i] => \E j \in 1..Len(v) : v[j] = id

\* The first entries of the candidates sorted by last use (std::sort leaves the
\* order among equals open), count of them or all.
VictimList(cutoff, v) ==
  /\ \A i \in 1..Len(v) : v[i] \in Candidates(cutoff)
  /\ \A i, j \in 1..Len(v) : v[i] = v[j] => i = j
  /\ \A i, j \in 1..Len(v) :
       i < j => slots[v[i]].lastUsedFrame <= slots[v[j]].lastUsedFrame
  /\ \A id \in Candidates(cutoff), i \in 1..Len(v) :
       (\A j \in 1..Len(v) : v[j] # id)
          => slots[v[i]].lastUsedFrame <= slots[id].lastUsedFrame

\* evictLRU(count, cutoffFrame): build the list ...
EvictLRU(count) ==
  /\ victims = <<>>
  /\ \E n \in 1..count : \E v \in [1..n -> DOMAIN slots] :
       /\ n = count \/ n = Cardinality(Candidates(frame))
       /\ VictimList(frame, v)
       /\ victims' = v
  /\ UNCHANGED <<freeList, slots, freeSlotIds, used, frame>>

\* ... and free the victims in that order.
EvictNext ==
  /\ victims # <<>>
  /\ FreeSlot(Head(victims))
  /\ victims' = Tail(victims)
  /\ UNCHANGED frame

\* The caller starts another frame.
NextFrame ==
  /\ victims = <<>>
  /\ frame < MaxFrame
  /\ frame' = frame + 1
  /\ UNCHANGED <<freeList, slots, freeSlotIds, used, victims>>

Next ==
  \/ \E bytes \in Request, mesh \in MeshId : Alloc(bytes, mesh)
  \/ \E id \in DOMAIN slots : CallFree(id) \/ Touch(id)
  \/ EvictLRU(EvictCount)
  \/ EvictNext
  \/ NextFrame

Spec == Init /\ [][Next]_vars

-----------------------------------------------------------------------------
(* Properties.                                                             *)

SlotRecord == [offset : Nat, size : Nat, meshId : MeshId \cup {Free},
               lastUsedFrame : Nat]

TypeOK ==
  /\ freeList \subseteq [offset : Nat, size : Nat]
  /\ slots \in Seq(SlotRecord)
  /\ freeSlotIds \in Seq(1..Len(slots))
  /\ used \in Nat
  /\ frame \in Nat
  /\ victims \in Seq(1..Len(slots))

Disjoint(p, q) == End(p) <= q.offset \/ End(q) <= p.offset

\* Free ranges and live slots lie inside the buffer and are not empty.
InBounds ==
  /\ \A r \in freeList : r.size > 0 /\ End(r) <= Capacity
  /\ \A id \in Live : slots[id].size > 0 /\ End(slots[id]) <= Capacity

NoOverlap ==
  /\ \A p, q \in freeList : p # q => Disjoint(p, q)
  /\ \A p \in freeList, id \in Live : Disjoint(p, slots[id])
  /\ \A id, jd \in Live : id # jd => Disjoint(slots[id], slots[jd])

Covered ==
  \A b \in 0..(Capacity - 1) :
     \/ \E r \in freeList : r.offset <= b /\ b < End(r)
     \/ \E id \in Live : slots[id].offset <= b /\ b < End(slots[id])

\* Free ranges and live slots partition the buffer: two meshes never share
\* bytes (a worker's memcpy would corrupt the other's geometry) and no byte is
\* lost for good (MeshRegistry.cpp:63-120).
Partition == InBounds /\ NoOverlap /\ Covered

Bytes(r) == r.offset..(End(r) - 1)
Taken == UNION {Bytes(slots[id]) : id \in Live}

\* used_ (MeshRegistry.cpp:77, :89) is the number of bytes the live slots take.
UsedIsTaken == used = Cardinality(Taken)

\* Whenever a request's bytes lie free in a row, some free range holds them: an
\* alloc that fails (and makes the caller evict) fails for want of room only
\* (MeshRegistry.cpp:66-68 over the list :102-120 keeps).
NoFalseExhaustion ==
  \A bytes \in Request : \A low \in 0..(Capacity - RoundUp(bytes)) :
     (\A id \in Live : Disjoint([offset |-> low, size |-> RoundUp(bytes)], slots[id]))
       => \E r \in freeList : Fits(r, RoundUp(bytes))

\* A slot freed by evictLRU was not used in the current frame, and no slot that
\* was eligible and is spared was used longer ago (MeshRegistry.cpp:122-146).
EvictsOldest ==
  [][\A id \in Live \ Live' : victims # <<>> =>
       /\ slots[id].lastUsedFrame < frame
       /\ \A other \in Live' :
            \/ slots[id].lastUsedFrame <= slots[other].lastUsedFrame
            \/ \E i \in 1..Len(victims) : victims[i] = other]_vars

\* While a slot is live its extent and its mesh stay: the draw calls of a frame
\* carry the offset (MeshRegistry.cpp:607-625) and the workers write through it (:858-940).
StableSlots ==
  [][\A id \in Live : id \in Live' =>
       /\ slots'[id].offset = slots[id].offset
       /\ slots'[id].size = slots[id].size
       /\ slots'[id].meshId = slots[id].meshId]_vars
=============================================================================
