-------------------------- MODULE Residency_proofs --------------------------
(***************************************************************************)
(* What holds of the residency manager for every number of meshes, workers *)
(* and slots, every budget and every interleaving.                         *)
(***************************************************************************)
EXTENDS Residency, FiniteSetTheorems, TLAPS

-----------------------------------------------------------------------------
(* The operators.                                                          *)

\* The cells of the two pools are apart.
LEMMA PoolsDisjoint == VertCells \cap IdxCells = {} /\ None \notin Cell
BY SizeAssumption, NoneAssumption DEF VertCells, IdxCells, Cell

\* evictLRU takes cells of the pool it is given that have an owner and were
\* not touched this frame; alloc takes a free cell of the pool or one of these.
LEMMA OfferFacts ==
  ASSUME NEW cells
  PROVE  /\ Victims(cells) \subseteq cells
         /\ \A c \in Victims(cells) : owner[c] # None /\ ~touched[c]
         /\ Offer(cells) \subseteq cells
         /\ \A c \in Offer(cells) : owner[c] = None \/ c \in Victims(cells)
<1>1. FreeIn(cells) \subseteq cells /\ \A c \in FreeIn(cells) : owner[c] = None
  BY DEF FreeIn
<1>2. Victims(cells) \subseteq Evictable(cells)
  BY DEF Victims, FirstChunk
<1>3. Evictable(cells) \subseteq cells
      /\ \A c \in Evictable(cells) : owner[c] # None /\ ~touched[c]
  BY DEF Evictable
<1>4. Offer(cells) \subseteq FreeIn(cells) \cup Victims(cells)
  BY DEF Offer, FirstFit
<1> QED BY <1>1, <1>2, <1>3, <1>4

\* A vertex cell and an index cell are told apart by their pools.
LEMMA CellOfPool ==
  ASSUME NEW v \in VertCells, NEW i \in IdxCells
  PROVE  /\ (CHOOSE c \in {v, i} : c \in VertCells) = v
         /\ (CHOOSE c \in {v, i} : c \in IdxCells) = i
BY PoolsDisjoint

Evicted == Victims(VertCells) \cup Victims(IdxCells)

\* What the two outcomes of ensurePoolSlots do to each record and each cell.
LEMMA EnsureSlotsEffect ==
  ASSUME NEW w \in Worker, EnsureSlots(w)
  PROVE  \E v \in Offer(VertCells), i \in Offer(IdxCells) :
         /\ owner' = [c \in Cell |-> IF c \in {v, i} THEN wmesh[w]
                                     ELSE IF c \in Evicted THEN None ELSE owner[c]]
         /\ touched' = [c \in Cell |-> touched[c] /\ c \notin {v, i} \cup Evicted]
         /\ state' = [k \in Mesh |-> IF k \in OwnersOf(Evicted) THEN "NotResident"
                                     ELSE state[k]]
         /\ vertSlot' = [k \in Mesh |-> IF k = wmesh[w] THEN v
                           ELSE IF k \in OwnersOf(Evicted) THEN None ELSE vertSlot[k]]
         /\ idxSlot' = [k \in Mesh |-> IF k = wmesh[w] THEN i
                           ELSE IF k \in OwnersOf(Evicted) THEN None ELSE idxSlot[k]]
         /\ offset' = [offset EXCEPT ![wmesh[w]] = <<v, i>>]
<1>1. PICK v \in Offer(VertCells), i \in Offer(IdxCells) :
        /\ Reassign({v, i}, Evicted, wmesh[w])
        /\ offset' = [offset EXCEPT ![wmesh[w]] = <<v, i>>]
  BY DEF EnsureSlots, Evicted
<1>2. v \in VertCells /\ i \in IdxCells
  BY OfferFacts
<1>3. /\ {v, i} # {}
      /\ (CHOOSE c \in {v, i} : c \in VertCells) = v
      /\ (CHOOSE c \in {v, i} : c \in IdxCells) = i
  BY <1>2, CellOfPool
<1>4. /\ owner' = [c \in Cell |-> IF c \in {v, i} THEN wmesh[w]
                                 ELSE IF c \in Evicted THEN None ELSE owner[c]]
      /\ touched' = [c \in Cell |-> touched[c] /\ c \notin {v, i} \cup Evicted]
      /\ state' = [k \in Mesh |-> IF k \in OwnersOf(Evicted) THEN "NotResident"
                                  ELSE state[k]]
  BY <1>1 DEF Reassign, Change
<1>5. vertSlot' = [k \in Mesh |-> IF k = wmesh[w] THEN v
                    ELSE IF k \in OwnersOf(Evicted) THEN None ELSE vertSlot[k]]
  BY <1>1, <1>3 DEF Reassign, Change
<1>6. idxSlot' = [k \in Mesh |-> IF k = wmesh[w] THEN i
                   ELSE IF k \in OwnersOf(Evicted) THEN None ELSE idxSlot[k]]
  BY <1>1, <1>3 DEF Reassign, Change
<1> QED BY <1>1, <1>4, <1>5, <1>6

LEMMA EnsureFailsEffect ==
  ASSUME NEW w \in Worker, EnsureFails(w)
  PROVE  /\ owner' = [c \in Cell |-> IF c \in Evicted THEN None ELSE owner[c]]
         /\ touched' = [c \in Cell |-> touched[c] /\ c \notin Evicted]
         /\ state' = [k \in Mesh |-> IF k \in OwnersOf(Evicted) THEN "NotResident"
                                     ELSE state[k]]
         /\ vertSlot' = [k \in Mesh |-> IF k \in OwnersOf(Evicted) THEN None
                                        ELSE vertSlot[k]]
         /\ idxSlot' = [k \in Mesh |-> IF k \in OwnersOf(Evicted) THEN None
                                       ELSE idxSlot[k]]
<1>1. Reassign({}, Evicted, wmesh[w])
  BY DEF EnsureFails, Evicted
<1> QED BY <1>1 DEF Reassign, Change

-----------------------------------------------------------------------------
(* Type correctness.                                                       *)

\* Past the loop's test and before its increment, cur is a mesh.
CurOK == mpc \in {"claim", "emit", "touchVert", "touchIdx"} => cur \in Mesh

LEMMA InitTypeOK == Init => TypeOK /\ CurOK
<1> SUFFICES ASSUME Init PROVE TypeOK /\ CurOK
  OBVIOUS
<1> USE SizeAssumption DEF Init
<1>1. want \in Seq(Mesh) /\ loadQueue \in Seq(Mesh)
  OBVIOUS
<1>2. mpc = "idle" /\ frame \in {-1, 0, 1} /\ visible \subseteq Mesh
  OBVIOUS
<1>8. cur \in 1..(NumMeshes + 1)
  OBVIOUS
<1>9. queueMutex \in Worker \cup {None} /\ stop \in BOOLEAN
  OBVIOUS
<1>7. drawn \subseteq Mesh \X ((Cell \cup {None}) \X (Cell \cup {None}))
  <2>1. drawn = {}
    OBVIOUS
  <2> QED BY <2>1, Zenon
<1>3. /\ state \in [Mesh -> {"NotResident", "Loading", "Resident"}]
      /\ vertSlot \in [Mesh -> VertCells \cup {None}]
      /\ idxSlot \in [Mesh -> IdxCells \cup {None}]
  OBVIOUS
<1>4. offset \in [Mesh -> (Cell \cup {None}) \X (Cell \cup {None})]
  BY DEF NoCells
<1>5. owner \in [Cell -> Mesh \cup {None}] /\ touched \in [Cell -> BOOLEAN]
  OBVIOUS
<1>6. /\ wpc \in [Worker -> {"loop", "lock", "block", "asleep", "ensure", "decode",
                             "copy", "revert", "exited"}]
      /\ wmesh \in [Worker -> Mesh \cup {None}]
      /\ \A w \in Worker : ~InHand(w)
  BY DEF InHand
<1> QED BY <1>1, <1>2, <1>3, <1>4, <1>5, <1>6, <1>7, <1>8, <1>9
     DEF TypeOK, CurOK

LEMMA MainTypeOK ==
  ASSUME TypeOK, CurOK,
         BeginFrame \/ PrepareFrame \/ DestructorStops \/ DestructorNotifies
           \/ DestructorJoins
  PROVE  TypeOK' /\ CurOK'
<1> USE SizeAssumption, NoneAssumption, ViewAssumption
    DEF TypeOK, CurOK, InHand, mainVars, meshVars, poolVars, queueVars, workerVars
<1>1. CASE BeginFrame
  BY <1>1 DEF BeginFrame
<1>2. CASE ReadState
  BY <1>2 DEF ReadState, Mesh
<1>3. CASE CompareExchange
  <2>4. cur \in Mesh
    BY <1>3 DEF CompareExchange
  <2>1. want' \in Seq(Mesh)
    <3>1. CASE state[cur] = "NotResident"
      <4>1. want' = Append(want, cur)
        BY <1>3, <3>1 DEF CompareExchange
      <4> QED BY <4>1, <2>4
    <3>2. CASE state[cur] # "NotResident"
      BY <1>3, <3>2 DEF CompareExchange
    <3> QED BY <3>1, <3>2
  <2>2. state' \in [Mesh -> {"NotResident", "Loading", "Resident"}]
    <3>1. CASE state[cur] = "NotResident"
      <4>1. state' = [state EXCEPT ![cur] = "Loading"]
        BY <1>3, <3>1 DEF CompareExchange
      <4> QED BY <4>1, <2>4
    <3>2. CASE state[cur] # "NotResident"
      BY <1>3, <3>2 DEF CompareExchange
    <3> QED BY <3>1, <3>2
  <2>3. cur' \in 1..(NumMeshes + 1)
    BY <1>3 DEF CompareExchange, Mesh
  <2> QED BY <1>3, <2>1, <2>2, <2>3 DEF CompareExchange
<1>4. CASE Emit
  <2>1. <<cur, offset[cur]>> \in Mesh \X ((Cell \cup {None}) \X (Cell \cup {None}))
    BY <1>4 DEF Emit
  <2> QED BY <1>4, <2>1 DEF Emit
<1>5. CASE TouchVert
  <2>1. touched' \in [Cell -> BOOLEAN]
    BY <1>5 DEF TouchVert, Touch
  <2> QED BY <1>5, <2>1 DEF TouchVert
<1>6. CASE TouchIdx
  <2>1. touched' \in [Cell -> BOOLEAN]
    BY <1>6 DEF TouchIdx, Touch
  <2>2. cur' \in 1..(NumMeshes + 1)
    BY <1>6 DEF TouchIdx, Mesh
  <2> QED BY <1>6, <2>1, <2>2 DEF TouchIdx
<1>7. CASE NothingToQueue
  BY <1>7 DEF NothingToQueue, Return
<1>8. CASE QueueLoads
  <2>1. ToQueue \in 0..Len(want)
    BY DEF ToQueue
  <2>2. SubSeq(want, 1, ToQueue) \in Seq(Mesh)
    BY <2>1
  <2>3. loadQueue' \in Seq(Mesh)
    BY <1>8, <2>2 DEF QueueLoads, Queue
  <2>4. state' \in [Mesh -> {"NotResident", "Loading", "Resident"}]
    BY <1>8 DEF QueueLoads, Queue
  <2>5. wpc' \in [Worker -> {"loop", "lock", "block", "asleep", "ensure", "decode",
                             "copy", "revert", "exited"}]
    BY <1>8 DEF QueueLoads, Queue, WakeAll
  <2>6. \A w \in Worker : InHand(w)' => wmesh'[w] \in Mesh
    BY <1>8 DEF QueueLoads, Queue, WakeAll
  <2>7. mpc' = "idle" /\ visible' = {} /\ cur' = 1 /\ want' = <<>>
    BY <1>8 DEF QueueLoads, Queue, Return
  <2> QED BY <1>8, <2>3, <2>4, <2>5, <2>6, <2>7 DEF QueueLoads, Queue
<1>9. CASE DestructorStops
  BY <1>9 DEF DestructorStops
<1>10. CASE DestructorNotifies
  <2>1. wpc' \in [Worker -> {"loop", "lock", "block", "asleep", "ensure", "decode",
                             "copy", "revert", "exited"}]
    BY <1>10 DEF DestructorNotifies, WakeAll
  <2>2. \A w \in Worker : InHand(w)' => wmesh'[w] \in Mesh
    BY <1>10 DEF DestructorNotifies, WakeAll
  <2> QED BY <1>10, <2>1, <2>2 DEF DestructorNotifies
<1>11. CASE DestructorJoins
  BY <1>11 DEF DestructorJoins
<1> QED BY <1>1, <1>2, <1>3, <1>4, <1>5, <1>6, <1>7, <1>8, <1>9, <1>10, <1>11
     DEF PrepareFrame

LEMMA WorkerTypeOK ==
  ASSUME TypeOK, CurOK, NEW w \in Worker,
         WorkerRuns(w) \/ Wait(w) \/ WakesSpuriously(w)
  PROVE  TypeOK' /\ CurOK'
<1> USE NoneAssumption
    DEF TypeOK, CurOK, InHand, mainVars, meshVars, poolVars, queueVars, workerVars,
        WorkerUnchanged
<1>1. CASE CheckStop(w)
  BY <1>1 DEF CheckStop
<1>9. CASE Block(w)
  BY <1>9 DEF Block
<1>10. CASE Exits(w)
  BY <1>10 DEF Exits
<1>11. CASE PredicateFalse(w)
  BY <1>11 DEF PredicateFalse
<1>12. CASE WakesSpuriously(w)
  BY <1>12 DEF WakesSpuriously
<1>2. CASE Pops(w)
  <2>1. Head(loadQueue) \in Mesh /\ Tail(loadQueue) \in Seq(Mesh)
    BY <1>2 DEF Pops
  <2> QED BY <1>2, <2>1 DEF Pops
<1>3. CASE EnsureSlots(w)
  <2>1. PICK v \in Offer(VertCells), i \in Offer(IdxCells) :
          /\ owner' = [c \in Cell |-> IF c \in {v, i} THEN wmesh[w]
                                      ELSE IF c \in Evicted THEN None ELSE owner[c]]
          /\ touched' = [c \in Cell |-> touched[c] /\ c \notin {v, i} \cup Evicted]
          /\ state' = [k \in Mesh |-> IF k \in OwnersOf(Evicted) THEN "NotResident"
                                      ELSE state[k]]
          /\ vertSlot' = [k \in Mesh |-> IF k = wmesh[w] THEN v
                            ELSE IF k \in OwnersOf(Evicted) THEN None ELSE vertSlot[k]]
          /\ idxSlot' = [k \in Mesh |-> IF k = wmesh[w] THEN i
                            ELSE IF k \in OwnersOf(Evicted) THEN None ELSE idxSlot[k]]
          /\ offset' = [offset EXCEPT ![wmesh[w]] = <<v, i>>]
    BY <1>3, EnsureSlotsEffect
  <2>2. v \in VertCells /\ i \in IdxCells /\ wmesh[w] \in Mesh
    BY <1>3, OfferFacts DEF EnsureSlots
  <2>3. owner' \in [Cell -> Mesh \cup {None}]
    BY <2>1, <2>2
  <2>4. touched' \in [Cell -> BOOLEAN]
    BY <2>1, Zenon
  <2>5. state' \in [Mesh -> {"NotResident", "Loading", "Resident"}]
    BY <2>1
  <2>6. /\ vertSlot' \in [Mesh -> VertCells \cup {None}]
        /\ idxSlot' \in [Mesh -> IdxCells \cup {None}]
    BY <2>1, <2>2
  <2>7. offset' \in [Mesh -> (Cell \cup {None}) \X (Cell \cup {None})]
    BY <2>1, <2>2 DEF Cell
  <2> QED BY <1>3, <2>3, <2>4, <2>5, <2>6, <2>7 DEF EnsureSlots
<1>4. CASE EnsureFails(w)
  <2>1. owner' \in [Cell -> Mesh \cup {None}]
    BY <1>4, EnsureFailsEffect
  <2>2. touched' \in [Cell -> BOOLEAN]
    <3>1. touched' = [c \in Cell |-> touched[c] /\ c \notin Evicted]
      BY <1>4, EnsureFailsEffect
    <3> QED BY <3>1, Zenon
  <2>3. state' \in [Mesh -> {"NotResident", "Loading", "Resident"}]
    BY <1>4, EnsureFailsEffect
  <2>4. /\ vertSlot' \in [Mesh -> VertCells \cup {None}]
        /\ idxSlot' \in [Mesh -> IdxCells \cup {None}]
    BY <1>4, EnsureFailsEffect
  <2> QED BY <1>4, <2>1, <2>2, <2>3, <2>4 DEF EnsureFails
<1>5. CASE DecodeFails(w)
  <2>1. /\ owner' \in [Cell -> Mesh \cup {None}]
        /\ touched' \in [Cell -> BOOLEAN]
    BY <1>5 DEF DecodeFails
  <2> QED BY <1>5, <2>1 DEF DecodeFails
<1>6. CASE Locate(w)
  BY <1>6 DEF Locate
<1>7. CASE Publish(w)
  BY <1>7 DEF Publish
<1>8. CASE Revert(w)
  BY <1>8 DEF Revert
<1> QED BY <1>1, <1>2, <1>3, <1>4, <1>5, <1>6, <1>7, <1>8, <1>9, <1>10, <1>11,
        <1>12 DEF WorkerRuns, Wait

LEMMA NextTypeOK ==
  ASSUME TypeOK, CurOK, [Next]_vars
  PROVE  TypeOK' /\ CurOK'
<1>1. CASE Next
  BY <1>1, MainTypeOK, WorkerTypeOK DEF Next
<1>2. CASE UNCHANGED vars
  BY <1>2 DEF vars, mainVars, meshVars, poolVars, queueVars, workerVars,
              TypeOK, CurOK, InHand
<1> QED BY <1>1, <1>2

-----------------------------------------------------------------------------
(* Slots and their owners.                                                 *)

\* A cell that was touched this frame has an owner: what is freed is no longer
\* touched, and touch() goes by the records' ids.
TouchedOwned == \A c \in Cell : touched[c] => owner[c] # None

SlotInv == SlotOwned /\ TouchedOwned

\* The steps that leave slots and records alone, or only touch them.
LEMMA SlotInvQuiet ==
  ASSUME TypeOK, SlotInv, UNCHANGED <<vertSlot, idxSlot, owner>>,
         \/ UNCHANGED touched
         \/ touched' = [c \in Cell |-> FALSE]
         \/ \E m \in Mesh : Touch(vertSlot[m]) \/ Touch(idxSlot[m])
  PROVE  SlotInv'
<1> USE DEF SlotInv
<1>1. SlotOwned'
  BY DEF SlotOwned
<1>2. CASE UNCHANGED touched
  BY <1>1, <1>2 DEF TouchedOwned
<1>3. CASE touched' = [c \in Cell |-> FALSE]
  BY <1>1, <1>3 DEF TouchedOwned
<1>4. ASSUME NEW m \in Mesh, NEW slot, slot = vertSlot[m] \/ slot = idxSlot[m],
             Touch(slot)
      PROVE  TouchedOwned'
  <2>1. CASE slot = None
    BY <1>4, <2>1 DEF Touch, TouchedOwned
  <2>2. CASE slot # None
    <3>1. owner[slot] = m /\ m # None
      BY <1>4, <2>2, NoneAssumption DEF SlotOwned, TypeOK
    <3>2. touched' = [touched EXCEPT ![slot] = TRUE]
      BY <1>4, <2>2 DEF Touch
    <3> QED BY <3>1, <3>2 DEF TouchedOwned, TypeOK
  <2> QED BY <2>1, <2>2
<1>5. CASE \E m \in Mesh : Touch(vertSlot[m]) \/ Touch(idxSlot[m])
  <2>1. PICK m \in Mesh : Touch(vertSlot[m]) \/ Touch(idxSlot[m])
    BY <1>5
  <2>2. PICK slot : (slot = vertSlot[m] \/ slot = idxSlot[m]) /\ Touch(slot)
    BY <2>1
  <2> QED BY <1>1, <1>4, <2>2
<1> QED BY <1>2, <1>3, <1>5

LEMMA SlotInvEnsure ==
  ASSUME TypeOK, SlotInv, NEW w \in Worker, EnsureSlots(w) \/ EnsureFails(w)
  PROVE  /\ SlotInv'
         /\ \A c \in Cell : touched[c] => owner'[c] = owner[c]
<1> USE DEF SlotInv
<1>1. \A c \in Evicted : owner[c] \in OwnersOf(Evicted) /\ owner[c] # None /\ ~touched[c]
  BY OfferFacts DEF Evicted, OwnersOf
<1>2. CASE EnsureSlots(w)
  <2>1. PICK v \in Offer(VertCells), i \in Offer(IdxCells) :
          /\ owner' = [c \in Cell |-> IF c \in {v, i} THEN wmesh[w]
                                      ELSE IF c \in Evicted THEN None ELSE owner[c]]
          /\ touched' = [c \in Cell |-> touched[c] /\ c \notin {v, i} \cup Evicted]
          /\ vertSlot' = [k \in Mesh |-> IF k = wmesh[w] THEN v
                            ELSE IF k \in OwnersOf(Evicted) THEN None ELSE vertSlot[k]]
          /\ idxSlot' = [k \in Mesh |-> IF k = wmesh[w] THEN i
                            ELSE IF k \in OwnersOf(Evicted) THEN None ELSE idxSlot[k]]
    BY <1>2, EnsureSlotsEffect
  <2>2. v \in VertCells /\ i \in IdxCells /\ wmesh[w] \in Mesh
    BY <1>2, OfferFacts DEF EnsureSlots, TypeOK, InHand
  <2>3. \A c \in {v, i} : owner[c] = None \/ c \in Evicted
    BY OfferFacts DEF Evicted
  <2>4. \A c \in Cell : touched[c] => c \notin {v, i} \cup Evicted
    BY <1>1, <2>3 DEF TouchedOwned
  <2>5. TouchedOwned'
    BY <2>1, <2>4 DEF TouchedOwned
  <2>6. ASSUME NEW k \in Mesh, NEW c \in Cell, owner[c] = k,
               k \notin OwnersOf(Evicted)
        PROVE  owner'[c] = k
    <3>1. c \notin Evicted
      BY <1>1, <2>6
    <3>2. c \notin {v, i}
      BY <2>3, <2>6, <3>1, NoneAssumption
    <3> QED BY <2>1, <2>6, <3>1, <3>2
  <2>7. \A k \in Mesh : k = wmesh[w] => owner'[v] = k /\ owner'[i] = k
    BY <2>1, <2>2 DEF Cell
  <2>8. ASSUME NEW k \in Mesh, vertSlot'[k] # None
        PROVE  owner'[vertSlot'[k]] = k
    <3>1. CASE k = wmesh[w]
      BY <2>1, <2>7, <3>1
    <3>2. CASE k # wmesh[w]
      <4>1. k \notin OwnersOf(Evicted) /\ vertSlot'[k] = vertSlot[k]
        BY <2>1, <2>8, <3>2
      <4>2. vertSlot[k] \in Cell /\ owner[vertSlot[k]] = k
        BY <2>8, <4>1 DEF SlotOwned, TypeOK, Cell
      <4> QED BY <2>6, <4>1, <4>2
    <3> QED BY <3>1, <3>2
  <2>9. ASSUME NEW k \in Mesh, idxSlot'[k] # None
        PROVE  owner'[idxSlot'[k]] = k
    <3>1. CASE k = wmesh[w]
      BY <2>1, <2>7, <3>1
    <3>2. CASE k # wmesh[w]
      <4>1. k \notin OwnersOf(Evicted) /\ idxSlot'[k] = idxSlot[k]
        BY <2>1, <2>9, <3>2
      <4>2. idxSlot[k] \in Cell /\ owner[idxSlot[k]] = k
        BY <2>9, <4>1 DEF SlotOwned, TypeOK, Cell
      <4> QED BY <2>6, <4>1, <4>2
    <3> QED BY <3>1, <3>2
  <2>10. \A c \in Cell : touched[c] => owner'[c] = owner[c]
    BY <2>1, <2>4
  <2> QED BY <2>5, <2>8, <2>9, <2>10 DEF SlotOwned
<1>3. CASE EnsureFails(w)
  <2>1. /\ owner' = [c \in Cell |-> IF c \in Evicted THEN None ELSE owner[c]]
        /\ touched' = [c \in Cell |-> touched[c] /\ c \notin Evicted]
        /\ vertSlot' = [k \in Mesh |-> IF k \in OwnersOf(Evicted) THEN None
                                       ELSE vertSlot[k]]
        /\ idxSlot' = [k \in Mesh |-> IF k \in OwnersOf(Evicted) THEN None
                                      ELSE idxSlot[k]]
    BY <1>3, EnsureFailsEffect
  <2>2. ASSUME NEW k \in Mesh, NEW c \in Cell, owner[c] = k,
               k \notin OwnersOf(Evicted)
        PROVE  owner'[c] = k
    BY <1>1, <2>1, <2>2
  <2>3. ASSUME NEW k \in Mesh, vertSlot'[k] # None
        PROVE  owner'[vertSlot'[k]] = k
    <3>1. k \notin OwnersOf(Evicted) /\ vertSlot'[k] = vertSlot[k]
      BY <2>1, <2>3
    <3>2. vertSlot[k] \in Cell /\ owner[vertSlot[k]] = k
      BY <2>3, <3>1 DEF SlotOwned, TypeOK, Cell
    <3> QED BY <2>2, <3>1, <3>2
  <2>4. ASSUME NEW k \in Mesh, idxSlot'[k] # None
        PROVE  owner'[idxSlot'[k]] = k
    <3>1. k \notin OwnersOf(Evicted) /\ idxSlot'[k] = idxSlot[k]
      BY <2>1, <2>4
    <3>2. idxSlot[k] \in Cell /\ owner[idxSlot[k]] = k
      BY <2>4, <3>1 DEF SlotOwned, TypeOK, Cell
    <3> QED BY <2>2, <3>1, <3>2
  <2>5. TouchedOwned' /\ \A c \in Cell : touched[c] => owner'[c] = owner[c]
    BY <1>1, <2>1 DEF TouchedOwned
  <2> QED BY <2>3, <2>4, <2>5 DEF SlotOwned
<1> QED BY <1>2, <1>3

LEMMA SlotInvDecodeFails ==
  ASSUME TypeOK, SlotInv, NEW w \in Worker, DecodeFails(w)
  PROVE  SlotInv'
<1> USE DEF SlotInv
<1>1. PICK m \in Mesh : m = wmesh[w]
  BY DEF DecodeFails, TypeOK, InHand
<1> DEFINE freed == {vertSlot[m], idxSlot[m]}
<1>2. /\ owner' = [c \in Cell |-> IF c \in freed THEN None ELSE owner[c]]
      /\ touched' = [c \in Cell |-> touched[c] /\ c \notin freed]
      /\ vertSlot' = [vertSlot EXCEPT ![m] = None]
      /\ idxSlot' = [idxSlot EXCEPT ![m] = None]
  BY <1>1 DEF DecodeFails
<1>3. \A c \in freed : c = None \/ owner[c] = m
  BY DEF SlotOwned
<1> HIDE DEF freed
<1>4. ASSUME NEW k \in Mesh, NEW c \in Cell, owner[c] = k, k # m
      PROVE  owner'[c] = k
  BY <1>2, <1>3, <1>4, PoolsDisjoint
<1>5. ASSUME NEW k \in Mesh, vertSlot'[k] # None
      PROVE  owner'[vertSlot'[k]] = k
  <2>1. k # m /\ vertSlot'[k] = vertSlot[k]
    BY <1>2, <1>5 DEF TypeOK
  <2>2. vertSlot[k] \in Cell /\ owner[vertSlot[k]] = k
    BY <1>5, <2>1 DEF SlotOwned, TypeOK, Cell
  <2> QED BY <1>4, <2>1, <2>2
<1>6. ASSUME NEW k \in Mesh, idxSlot'[k] # None
      PROVE  owner'[idxSlot'[k]] = k
  <2>1. k # m /\ idxSlot'[k] = idxSlot[k]
    BY <1>2, <1>6 DEF TypeOK
  <2>2. idxSlot[k] \in Cell /\ owner[idxSlot[k]] = k
    BY <1>6, <2>1 DEF SlotOwned, TypeOK, Cell
  <2> QED BY <1>4, <2>1, <2>2
<1>7. TouchedOwned'
  BY <1>2 DEF TouchedOwned
<1> QED BY <1>5, <1>6, <1>7 DEF SlotOwned

LEMMA InitSlotInv == Init => SlotInv
BY DEF Init, SlotInv, SlotOwned, TouchedOwned

LEMMA NextSlotInv ==
  ASSUME TypeOK, CurOK, SlotInv, [Next]_vars
  PROVE  SlotInv'
<1> USE DEF mainVars, meshVars, poolVars, queueVars, workerVars
<1>1. CASE BeginFrame \/ PrepareFrame
  <2>1. UNCHANGED <<vertSlot, idxSlot, owner>>
    BY <1>1 DEF BeginFrame, PrepareFrame, ReadState, CompareExchange, Emit, TouchVert,
                TouchIdx, NothingToQueue, QueueLoads, Queue
  <2>2. \/ UNCHANGED touched
        \/ touched' = [c \in Cell |-> FALSE]
        \/ \E m \in Mesh : Touch(vertSlot[m]) \/ Touch(idxSlot[m])
    <3>1. CASE BeginFrame
      BY <3>1 DEF BeginFrame
    <3>2. CASE TouchVert \/ TouchIdx
      BY <3>2 DEF TouchVert, TouchIdx, CurOK
    <3>3. CASE \/ ReadState \/ CompareExchange \/ Emit \/ NothingToQueue \/ QueueLoads
      BY <3>3 DEF ReadState, CompareExchange, Emit, NothingToQueue, QueueLoads, Queue
    <3> QED BY <1>1, <3>1, <3>2, <3>3 DEF PrepareFrame
  <2> QED BY <2>1, <2>2, SlotInvQuiet
<1>2. CASE DestructorStops \/ DestructorNotifies \/ DestructorJoins
  BY <1>2, SlotInvQuiet DEF DestructorStops, DestructorNotifies, DestructorJoins
<1>3. ASSUME NEW w \in Worker,
             \/ CheckStop(w) \/ Block(w) \/ Locate(w) \/ Publish(w) \/ Revert(w)
             \/ Wait(w) \/ WakesSpuriously(w)
      PROVE  SlotInv'
  <2>1. UNCHANGED <<vertSlot, idxSlot, owner, touched>>
    BY <1>3 DEF CheckStop, Block, Locate, Publish, Revert, Wait, PredicateFalse, Exits,
                Pops, WakesSpuriously, WorkerUnchanged
  <2> QED BY <2>1, SlotInvQuiet
<1>4. ASSUME NEW w \in Worker, EnsureSlots(w) \/ EnsureFails(w) \/ DecodeFails(w)
      PROVE  SlotInv'
  BY <1>4, SlotInvEnsure, SlotInvDecodeFails
<1>5. CASE UNCHANGED vars
  BY <1>5, SlotInvQuiet DEF vars
<1> QED BY <1>1, <1>2, <1>3, <1>4, <1>5 DEF Next, WorkerRuns

-----------------------------------------------------------------------------
(* Loads are not forgotten.                                                *)

Wanted(m) == \E i \in 1..Len(want) : want[i] = m
Queued(m) == \E i \in 1..Len(loadQueue) : loadQueue[i] = m
Held(m) == \E w \in Worker : InHand(w) /\ wmesh[w] = m

\* A concatenation: the length, the old elements, then the new ones.
LEMMA Concatenated ==
  ASSUME NEW S, NEW a \in Seq(S), NEW b \in Seq(S)
  PROVE  /\ Len(a \o b) = Len(a) + Len(b)
         /\ \A i \in 1..Len(a) : (a \o b)[i] = a[i]
         /\ \A i \in 1..Len(b) : (a \o b)[Len(a) + i] = b[i]
         /\ Len(a) \in Nat
  OBVIOUS

LEMMA InitNoLostLoad == Init => NoLostLoad
BY DEF Init, NoLostLoad

LEMMA NextNoLostLoad ==
  ASSUME TypeOK, CurOK, NoLostLoad, [Next]_vars
  PROVE  NoLostLoad'
<1> USE DEF mainVars, meshVars, poolVars, queueVars, workerVars
<1>0. \A m \in Mesh : state[m] = "Loading" => Wanted(m) \/ Queued(m) \/ Held(m)
  BY DEF NoLostLoad, Wanted, Queued, Held
<1> SUFFICES ASSUME NEW m \in Mesh, state'[m] = "Loading"
             PROVE  Wanted(m)' \/ Queued(m)' \/ Held(m)'
  BY DEF NoLostLoad, Wanted, Queued, Held
<1>1. CASE CompareExchange
  <2>1. CASE state[cur] = "NotResident"
    <3>1. want' = Append(want, cur) /\ cur \in Mesh
      BY <1>1, <2>1 DEF CompareExchange, CurOK
    <3>2. Wanted(m) => Wanted(m)'
      BY <3>1 DEF Wanted, TypeOK
    <3>3. m = cur => Wanted(m)'
      <4>1. Len(want') = Len(want) + 1 /\ want'[Len(want) + 1] = cur /\ Len(want) \in Nat
        BY <3>1 DEF TypeOK
      <4> QED BY <4>1 DEF Wanted
    <3>4. m # cur => state[m] = "Loading"
      BY <1>1, <2>1 DEF CompareExchange, TypeOK
    <3>5. Queued(m)' = Queued(m) /\ Held(m)' = Held(m)
      BY <1>1 DEF CompareExchange, Queued, Held, InHand
    <3> QED BY <1>0, <3>2, <3>3, <3>4, <3>5
  <2>2. CASE state[cur] # "NotResident"
    <3>1. UNCHANGED <<state, want, loadQueue, wpc, wmesh>>
      BY <1>1, <2>2 DEF CompareExchange
    <3> QED BY <1>0, <3>1 DEF Wanted, Queued, Held, InHand
  <2> QED BY <2>1, <2>2
<1>2. CASE QueueLoads
  <2> DEFINE n == ToQueue
  <2>1. n \in 0..Len(want) /\ Len(want) \in Nat
    BY SizeAssumption DEF ToQueue, TypeOK
  <2>2. /\ loadQueue' = loadQueue \o SubSeq(want, 1, n)
        /\ state[m] = "Loading" /\ ~\E i \in (n + 1)..Len(want) : want[i] = m
        /\ UNCHANGED wmesh
        /\ \A w \in Worker : InHand(w) => InHand(w)'
    BY <1>2 DEF QueueLoads, Queue, WakeAll, InHand, TypeOK
  <2> HIDE DEF n
  <2>3. Held(m) => Held(m)'
    BY <2>2 DEF Held
  <2>4. /\ SubSeq(want, 1, n) \in Seq(Mesh)
        /\ Len(SubSeq(want, 1, n)) = n
        /\ \A i \in 1..n : SubSeq(want, 1, n)[i] = want[i]
    BY <2>1 DEF TypeOK
  <2>5. /\ Len(loadQueue') = Len(loadQueue) + n
        /\ \A i \in 1..Len(loadQueue) : loadQueue'[i] = loadQueue[i]
        /\ \A i \in 1..n : loadQueue'[Len(loadQueue) + i] = want[i]
        /\ Len(loadQueue) \in Nat
    <3>1. loadQueue \in Seq(Mesh)
      BY DEF TypeOK
    <3>2. n \in Nat
      BY <2>1
    <3>3. loadQueue' = loadQueue \o SubSeq(want, 1, n)
      BY <2>2
    <3>4. /\ Len(loadQueue') = Len(loadQueue) + Len(SubSeq(want, 1, n))
          /\ \A i \in 1..Len(loadQueue) : loadQueue'[i] = loadQueue[i]
          /\ \A i \in 1..Len(SubSeq(want, 1, n)) :
               loadQueue'[Len(loadQueue) + i] = SubSeq(want, 1, n)[i]
          /\ Len(loadQueue) \in Nat
      BY <2>4, <3>1, <3>3, Concatenated
    <3> QED BY <2>4, <3>4
  <2>6. Queued(m) => Queued(m)'
    BY <2>1, <2>5 DEF Queued
  <2>7. Wanted(m) => Queued(m)'
    <3>1. ASSUME NEW i \in 1..Len(want), want[i] = m
          PROVE  Queued(m)'
      <4>1. i \in 1..n
        BY <2>1, <2>2, <3>1
      <4>2. Len(loadQueue) + i \in 1..Len(loadQueue') /\ loadQueue'[Len(loadQueue) + i] = m
        BY <2>1, <2>5, <3>1, <4>1
      <4> QED BY <4>2 DEF Queued
    <3> QED BY <3>1 DEF Wanted
  <2> QED BY <1>0, <2>2, <2>3, <2>6, <2>7
<1>3. CASE NothingToQueue
  <2>1. ~Wanted(m) /\ UNCHANGED <<state, loadQueue, wpc, wmesh>>
    BY <1>3 DEF NothingToQueue, Wanted
  <2> QED BY <1>0, <2>1 DEF Queued, Held, InHand
<1>4. CASE BeginFrame \/ ReadState \/ Emit \/ TouchVert \/ TouchIdx \/ DestructorStops
           \/ DestructorJoins \/ UNCHANGED vars
  <2>1. UNCHANGED <<state, want, loadQueue, wpc, wmesh>>
    BY <1>4 DEF BeginFrame, ReadState, Emit, TouchVert, TouchIdx, DestructorStops,
                DestructorJoins, vars
  <2> QED BY <1>0, <2>1 DEF Wanted, Queued, Held, InHand
<1>5. CASE DestructorNotifies
  <2>1. UNCHANGED <<state, want, loadQueue, wmesh>>
    BY <1>5 DEF DestructorNotifies
  <2>2. \A w \in Worker : InHand(w) => InHand(w)'
    BY <1>5 DEF DestructorNotifies, WakeAll, InHand
  <2> QED BY <1>0, <2>1, <2>2 DEF Wanted, Queued, Held
<1>6. ASSUME NEW w \in Worker,
             \/ CheckStop(w) \/ Block(w) \/ PredicateFalse(w) \/ Exits(w)
             \/ WakesSpuriously(w) \/ Locate(w) \/ EnsureSlots(w) \/ EnsureFails(w)
             \/ DecodeFails(w)
      PROVE  Wanted(m)' \/ Queued(m)' \/ Held(m)'
  <2>1. UNCHANGED <<want, loadQueue, wmesh>>
    BY <1>6 DEF CheckStop, Block, PredicateFalse, Exits, WakesSpuriously, Locate,
                EnsureSlots, EnsureFails, DecodeFails, WorkerUnchanged
  <2>2. state[m] = "Loading"
    <3>1. CASE EnsureSlots(w)
      BY <3>1, EnsureSlotsEffect
    <3>2. CASE EnsureFails(w)
      BY <3>2, EnsureFailsEffect
    <3>3. CASE \/ CheckStop(w) \/ Block(w) \/ PredicateFalse(w) \/ Exits(w)
               \/ WakesSpuriously(w) \/ Locate(w) \/ DecodeFails(w)
      BY <3>3 DEF CheckStop, Block, PredicateFalse, Exits, WakesSpuriously, Locate,
                  DecodeFails, WorkerUnchanged
    <3> QED BY <1>6, <3>1, <3>2, <3>3
  <2>3. \A x \in Worker : InHand(x) => InHand(x)'
    <3>1. CASE CheckStop(w)
      BY <3>1 DEF CheckStop, InHand, TypeOK
    <3>2. CASE Block(w)
      BY <3>2 DEF Block, InHand, TypeOK
    <3>3. CASE PredicateFalse(w)
      BY <3>3 DEF PredicateFalse, InHand, TypeOK
    <3>4. CASE Exits(w)
      BY <3>4 DEF Exits, InHand, TypeOK
    <3>5. CASE WakesSpuriously(w)
      BY <3>5 DEF WakesSpuriously, InHand, TypeOK
    <3>6. CASE Locate(w)
      BY <3>6 DEF Locate, InHand, TypeOK
    <3>7. CASE EnsureSlots(w)
      BY <3>7 DEF EnsureSlots, InHand, TypeOK
    <3>8. CASE EnsureFails(w)
      BY <3>8 DEF EnsureFails, InHand, TypeOK
    <3>9. CASE DecodeFails(w)
      BY <3>9 DEF DecodeFails, InHand, TypeOK
    <3> QED BY <1>6, <3>1, <3>2, <3>3, <3>4, <3>5, <3>6, <3>7, <3>8, <3>9
  <2> QED BY <1>0, <2>1, <2>2, <2>3 DEF Wanted, Queued, Held
<1>7. ASSUME NEW w \in Worker, Pops(w)
      PROVE  Wanted(m)' \/ Queued(m)' \/ Held(m)'
  <2>1. /\ state[m] = "Loading" /\ UNCHANGED want
        /\ loadQueue # <<>> /\ loadQueue' = Tail(loadQueue)
    BY <1>7 DEF Pops
  <2>2. InHand(w)' /\ wmesh'[w] = Head(loadQueue)
    BY <1>7 DEF Pops, InHand, TypeOK
  <2>3. Held(m) => Held(m)'
    <3>1. \A x \in Worker : InHand(x) => x # w
      BY <1>7 DEF Pops, InHand
    <3>2. \A x \in Worker : x # w => wpc'[x] = wpc[x] /\ wmesh'[x] = wmesh[x]
      BY <1>7 DEF Pops, TypeOK
    <3> QED BY <3>1, <3>2 DEF Held, InHand
  <2>4. Queued(m) => Held(m)' \/ Queued(m)'
    <3>1. ASSUME NEW i \in 1..Len(loadQueue), loadQueue[i] = m
          PROVE  Held(m)' \/ Queued(m)'
      <4>1. CASE i = 1
        BY <2>1, <2>2, <3>1, <4>1 DEF Held, TypeOK
      <4>2. CASE i # 1
        <5>1. i - 1 \in 1..Len(loadQueue') /\ loadQueue'[i - 1] = m
          BY <2>1, <3>1, <4>2 DEF TypeOK
        <5> QED BY <5>1 DEF Queued
      <4> QED BY <4>1, <4>2
    <3> QED BY <3>1 DEF Queued
  <2>5. Wanted(m) => Wanted(m)'
    BY <2>1 DEF Wanted
  <2> QED BY <1>0, <2>1, <2>3, <2>4, <2>5
<1>8. ASSUME NEW w \in Worker, Publish(w) \/ Revert(w)
      PROVE  Wanted(m)' \/ Queued(m)' \/ Held(m)'
  <2>1. wmesh[w] \in Mesh
    BY <1>8 DEF Publish, Revert, TypeOK, InHand
  <2>2. m # wmesh[w] /\ state[m] = "Loading" /\ UNCHANGED <<want, loadQueue>>
    BY <1>8, <2>1 DEF Publish, Revert, TypeOK
  <2>3. \A x \in Worker : x # w => wpc'[x] = wpc[x] /\ wmesh'[x] = wmesh[x]
    BY <1>8 DEF Publish, Revert, TypeOK
  <2>4. Held(m) => Held(m)'
    BY <2>2, <2>3 DEF Held, InHand
  <2> QED BY <1>0, <2>2, <2>4 DEF Wanted, Queued
<1> QED BY <1>1, <1>2, <1>3, <1>4, <1>5, <1>6, <1>7, <1>8
     DEF Next, PrepareFrame, WorkerRuns, Wait

-----------------------------------------------------------------------------
(* The theorems.                                                           *)

\* The inductive invariant.
Inv == TypeOK /\ CurOK /\ SlotInv /\ NoLostLoad

THEOREM Invariance == Spec => []Inv
<1>1. Init => Inv
  BY InitTypeOK, InitSlotInv, InitNoLostLoad DEF Inv
<1>2. Inv /\ [Next]_vars => Inv'
  BY NextTypeOK, NextSlotInv, NextNoLostLoad DEF Inv
<1> QED BY <1>1, <1>2, PTL DEF Spec

\* The manager's variables keep their types (MeshRegistry.cpp:523-717).
THEOREM TypeCorrect == Spec => []TypeOK
<1>1. Inv => TypeOK
  BY DEF Inv
<1> QED BY <1>1, Invariance, PTL

\* A mesh that is Loading is wanted, queued or held by a worker, whatever is
\* evicted or fails meanwhile (MeshRegistry.cpp:593-602, :668-671, :711-715).
THEOREM NoLoadIsLost == Spec => []NoLostLoad
<1>1. Inv => NoLostLoad
  BY DEF Inv
<1> QED BY <1>1, Invariance, PTL

\* A record never names a slot of another mesh (MeshRegistry.cpp:440-445).
THEOREM SlotsAreOwned == Spec => []SlotOwned
<1>1. Inv => SlotOwned
  BY DEF Inv, SlotInv
<1> QED BY <1>1, Invariance, PTL

\* A slot touched this frame changes hands only when its own mesh's load fails
\* (MeshRegistry.cpp:432-433, :843-847).
THEOREM TouchedIsKept == Spec => TouchedKept
<1> DEFINE Kept == \A c \in Cell : (touched[c] /\ owner'[c] # owner[c])
                     => \E w \in Worker : wpc[w] = "decode" /\ wpc'[w] = "revert"
<1>1. ASSUME Inv, [Next]_vars PROVE Kept
  <2> USE DEF mainVars, meshVars, poolVars, queueVars, workerVars
  <2>1. ASSUME NEW w \in Worker, DecodeFails(w) PROVE Kept
    <3>1. wpc[w] = "decode" /\ wpc'[w] = "revert"
      BY <2>1, <1>1 DEF DecodeFails, Inv, TypeOK
    <3> QED BY <3>1
  <2>2. ASSUME NEW w \in Worker, EnsureSlots(w) \/ EnsureFails(w) PROVE Kept
    BY <1>1, <2>2, SlotInvEnsure DEF Inv
  <2>3. CASE BeginFrame \/ PrepareFrame \/ DestructorStops \/ DestructorNotifies
               \/ DestructorJoins \/ UNCHANGED vars
    <3>1. UNCHANGED owner
      BY <2>3 DEF BeginFrame, PrepareFrame, ReadState, CompareExchange, Emit, TouchVert,
                  TouchIdx, NothingToQueue, QueueLoads, Queue, DestructorStops,
                  DestructorNotifies, DestructorJoins, vars
    <3> QED BY <3>1
  <2>4. ASSUME NEW w \in Worker,
               \/ CheckStop(w) \/ Block(w) \/ Locate(w) \/ Publish(w) \/ Revert(w)
               \/ Wait(w) \/ WakesSpuriously(w)
        PROVE  Kept
    <3>1. UNCHANGED owner
      BY <2>4 DEF CheckStop, Block, Locate, Publish, Revert, Wait, PredicateFalse, Exits,
                  Pops, WakesSpuriously, WorkerUnchanged
    <3> QED BY <3>1
  <2> HIDE DEF Kept
  <2> QED BY <1>1, <2>1, <2>2, <2>3, <2>4 DEF Next, WorkerRuns
<1>2. Inv /\ [Next]_vars => [Kept]_vars
  BY <1>1
<1> QED BY <1>2, Invariance, PTL DEF Spec, TouchedKept

-----------------------------------------------------------------------------
(* Pools with room.                                                        *)

\* A slot in either pool for every mesh.
Roomy == NumMeshes <= VertSlots /\ NumMeshes <= IdxChunks * IdxSlots

Distinct(s) == \A i, j \in 1..Len(s) : s[i] = s[j] => i = j

\* A mesh that is Loading because somebody has it is with one of them, once.
OnceInv ==
  /\ Distinct(want) /\ Distinct(loadQueue)
  /\ \A m \in Mesh : /\ ~(Wanted(m) /\ Queued(m)) /\ ~(Wanted(m) /\ Held(m))
                     /\ ~(Queued(m) /\ Held(m))
                     /\ Wanted(m) \/ Queued(m) \/ Held(m) => state[m] = "Loading"
  /\ \A w, x \in Worker : InHand(w) /\ InHand(x) /\ wmesh[w] = wmesh[x] => w = x

Filling(m) == \E w \in Worker : wpc[w] \in {"decode", "copy"} /\ wmesh[w] = m
Placed(m) == state[m] = "Resident" \/ Filling(m)

\* The meshes that are in the pools are those that are Resident or being filled,
\* and no cell is taken but by them.
CellInv ==
  /\ \A c \in Cell : owner[c] # None => c \in {vertSlot[owner[c]], idxSlot[owner[c]]}
  /\ \A m \in Mesh :
       /\ Placed(m) => /\ vertSlot[m] \in VertCells /\ idxSlot[m] \in IdxCells
                       /\ offset[m] = <<vertSlot[m], idxSlot[m]>>
       /\ ~Placed(m) => vertSlot[m] = None /\ idxSlot[m] = None

\* What is drawn is Resident, and drawn from where it is.
DrawnInv ==
  /\ mpc \in {"emit", "touchVert", "touchIdx"} => state[cur] = "Resident"
  /\ \A d \in drawn : state[d[1]] = "Resident" /\ d[2] = offset[d[1]]

RoomInv == OnceInv /\ CellInv /\ DrawnInv

\* How many cells there are.
LEMMA CellCounts ==
  /\ IsFiniteSet(VertCells) /\ Cardinality(VertCells) = VertSlots
  /\ IsFiniteSet(IdxCells) /\ Cardinality(IdxCells) = IdxChunks * IdxSlots
  /\ IsFiniteSet(Mesh) /\ Cardinality(Mesh) = NumMeshes
<1>1. \A n \in Nat : IsFiniteSet(1..n) /\ Cardinality(1..n) = n
  <2>1. \A n \in Nat : IsFiniteSet(1..n) /\ Cardinality(1..n) = IF 1 > n THEN 0 ELSE n - 1 + 1
    BY FS_Interval
  <2> QED BY <2>1
<1>2. IsFiniteSet({0}) /\ Cardinality({0}) = 1
  BY FS_Singleton, Zenon
<1>3. \A S, T : IsFiniteSet(S) /\ IsFiniteSet(T) =>
        IsFiniteSet(S \X T) /\ Cardinality(S \X T) = Cardinality(S) * Cardinality(T)
  BY FS_Product, Zenon
<1>4. IsFiniteSet(VertCells) /\ Cardinality(VertCells) = 1 * VertSlots
  <2>1. IsFiniteSet({0} \X (1..VertSlots))
        /\ Cardinality({0} \X (1..VertSlots)) = Cardinality({0}) * Cardinality(1..VertSlots)
    BY <1>1, <1>2, <1>3, SizeAssumption, Zenon
  <2>2. Cardinality(1..VertSlots) = VertSlots
    BY <1>1, SizeAssumption
  <2> QED BY <1>2, <2>1, <2>2, Zenon DEF VertCells
<1>5. IsFiniteSet(IdxCells) /\ Cardinality(IdxCells) = IdxChunks * IdxSlots
  <2>1. IsFiniteSet((1..IdxChunks) \X (1..IdxSlots))
        /\ Cardinality((1..IdxChunks) \X (1..IdxSlots)) =
             Cardinality(1..IdxChunks) * Cardinality(1..IdxSlots)
    BY <1>1, <1>3, SizeAssumption, Zenon
  <2>2. Cardinality(1..IdxChunks) = IdxChunks /\ Cardinality(1..IdxSlots) = IdxSlots
    BY <1>1, SizeAssumption
  <2> QED BY <2>1, <2>2, Zenon DEF IdxCells
<1> QED BY <1>1, <1>4, <1>5, SizeAssumption DEF Mesh

\* A worker that comes to look for slots has a mesh that has none.
LEMMA Unplaced ==
  ASSUME TypeOK, OnceInv, NEW w \in Worker, wpc[w] \in {"ensure", "revert"}
  PROVE  /\ wmesh[w] \in Mesh /\ state[wmesh[w]] = "Loading" /\ ~Placed(wmesh[w])
<1>1. InHand(w) /\ wmesh[w] \in Mesh
  BY DEF InHand, TypeOK
<1>2. state[wmesh[w]] = "Loading"
  BY <1>1 DEF OnceInv, Held
<1>3. ~Filling(wmesh[w])
  BY <1>1 DEF OnceInv, Filling, InHand
<1> QED BY <1>1, <1>2, <1>3 DEF Placed

\* A pool whose cells are all taken by other meshes is too small.
LEMMA OneIsFree ==
  ASSUME TypeOK, NEW cells, cells \subseteq Cell, IsFiniteSet(cells),
         NumMeshes <= Cardinality(cells),
         NEW m \in Mesh, \A c \in cells : owner[c] # m,
         \A c, d \in cells : owner[c] # None /\ owner[c] = owner[d] => c = d
  PROVE  FreeIn(cells) # {}
<1> SUFFICES ASSUME FreeIn(cells) = {} PROVE FALSE
  OBVIOUS
<1> DEFINE f == [c \in cells |-> owner[c]]
           T == Mesh \ {m}
<1>1. \A c \in cells : owner[c] \in T
  BY DEF FreeIn, TypeOK
<1>2. f \in Injection(cells, T)
  BY <1>1 DEF Injection, FreeIn, IsInjective
<1>3. IsFiniteSet(T) /\ Cardinality(T) = NumMeshes - 1
  BY CellCounts, FS_RemoveElement
<1>4. Cardinality(cells) <= Cardinality(T)
  <2> HIDE DEF f, T
  <2> QED BY <1>2, <1>3, FS_Injection
<1>5. Cardinality(cells) \in Nat
  BY FS_CardinalityType
<1> QED BY <1>3, <1>4, <1>5, SizeAssumption

\* With room, nothing is evicted.
LEMMA NothingEvicted ==
  ASSUME Roomy, TypeOK, OnceInv, CellInv, NEW w \in Worker, wpc[w] = "ensure"
  PROVE  Evicted = {}
<1>1. /\ wmesh[w] \in Mesh /\ vertSlot[wmesh[w]] = None /\ idxSlot[wmesh[w]] = None
      /\ wmesh[w] # None
  BY Unplaced, NoneAssumption DEF CellInv
<1>2. \A c \in Cell : owner[c] # wmesh[w]
  BY <1>1, PoolsDisjoint DEF CellInv
<1>3. \A c \in Cell : owner[c] # None => owner[c] \in Mesh
  BY DEF TypeOK
<1>4. \A c \in VertCells : c \in Cell /\ (owner[c] # None => c = vertSlot[owner[c]])
  BY <1>3, PoolsDisjoint DEF CellInv, Cell, TypeOK
<1>5. \A c \in IdxCells : c \in Cell /\ (owner[c] # None => c = idxSlot[owner[c]])
  BY <1>3, PoolsDisjoint DEF CellInv, Cell, TypeOK
<1>6. FreeIn(VertCells) # {}
  <2>1. \A c, d \in VertCells : owner[c] # None /\ owner[c] = owner[d] => c = d
    BY <1>4
  <2>2. VertCells \subseteq Cell /\ IsFiniteSet(VertCells) /\ NumMeshes <= Cardinality(VertCells)
    BY CellCounts DEF Cell, Roomy
  <2> QED BY <1>1, <1>2, <1>4, <2>1, <2>2, OneIsFree
<1>7. FreeIn(IdxCells) # {}
  <2>1. \A c, d \in IdxCells : owner[c] # None /\ owner[c] = owner[d] => c = d
    BY <1>5
  <2>2. IdxCells \subseteq Cell /\ IsFiniteSet(IdxCells) /\ NumMeshes <= Cardinality(IdxCells)
    BY CellCounts DEF Cell, Roomy
  <2> QED BY <1>1, <1>2, <1>5, <2>1, <2>2, OneIsFree
<1> QED BY <1>6, <1>7 DEF Evicted, Victims

\* So the outcomes of ensurePoolSlots are a free cell of each pool, or nothing.
LEMMA EnsureWithRoom ==
  ASSUME Roomy, TypeOK, OnceInv, CellInv, NEW w \in Worker, EnsureSlots(w) \/ EnsureFails(w)
  PROVE  /\ UNCHANGED <<state, want, loadQueue, wmesh, mpc, cur, drawn>>
         /\ \/ /\ EnsureFails(w) /\ wpc' = [wpc EXCEPT ![w] = "revert"]
               /\ UNCHANGED <<owner, vertSlot, idxSlot, offset>>
            \/ /\ EnsureSlots(w) /\ wpc' = [wpc EXCEPT ![w] = "decode"]
               /\ \E v \in VertCells, i \in IdxCells :
                    /\ owner[v] = None /\ owner[i] = None
                    /\ owner' = [c \in Cell |-> IF c \in {v, i} THEN wmesh[w] ELSE owner[c]]
                    /\ vertSlot' = [k \in Mesh |-> IF k = wmesh[w] THEN v ELSE vertSlot[k]]
                    /\ idxSlot' = [k \in Mesh |-> IF k = wmesh[w] THEN i ELSE idxSlot[k]]
                    /\ offset' = [offset EXCEPT ![wmesh[w]] = <<v, i>>]
<1>1. wpc[w] = "ensure" /\ Evicted = {} /\ OwnersOf(Evicted) = {}
  BY NothingEvicted DEF EnsureSlots, EnsureFails, OwnersOf
<1>2. UNCHANGED <<want, loadQueue, wmesh, mpc, cur, drawn>>
  BY DEF EnsureSlots, EnsureFails, mainVars, queueVars
<1>3. CASE EnsureFails(w)
  <2>1. /\ owner' = [c \in Cell |-> owner[c]] /\ state' = [k \in Mesh |-> state[k]]
        /\ vertSlot' = [k \in Mesh |-> vertSlot[k]] /\ idxSlot' = [k \in Mesh |-> idxSlot[k]]
    BY <1>1, <1>3, EnsureFailsEffect
  <2>2. wpc' = [wpc EXCEPT ![w] = "revert"] /\ UNCHANGED offset
    BY <1>3 DEF EnsureFails
  <2> QED BY <1>2, <1>3, <2>1, <2>2 DEF TypeOK
<1>4. CASE EnsureSlots(w)
  <2>1. PICK v \in Offer(VertCells), i \in Offer(IdxCells) :
          /\ owner' = [c \in Cell |-> IF c \in {v, i} THEN wmesh[w] ELSE owner[c]]
          /\ state' = [k \in Mesh |-> state[k]]
          /\ vertSlot' = [k \in Mesh |-> IF k = wmesh[w] THEN v ELSE vertSlot[k]]
          /\ idxSlot' = [k \in Mesh |-> IF k = wmesh[w] THEN i ELSE idxSlot[k]]
          /\ offset' = [offset EXCEPT ![wmesh[w]] = <<v, i>>]
    BY <1>1, <1>4, EnsureSlotsEffect
  <2>2. v \in VertCells /\ i \in IdxCells /\ owner[v] = None /\ owner[i] = None
    BY <1>1, OfferFacts DEF Evicted
  <2>3. wpc' = [wpc EXCEPT ![w] = "decode"] /\ state' = state
    BY <1>4, <2>1 DEF EnsureSlots, TypeOK
  <2> QED BY <1>2, <1>4, <2>1, <2>2, <2>3
<1> QED BY <1>3, <1>4

\* The steps that neither hand a mesh on nor change its state.
LEMMA OnceQuiet ==
  ASSUME OnceInv, UNCHANGED <<state, want, loadQueue, wmesh>>,
         \A x \in Worker : InHand(x)' = InHand(x)
  PROVE  OnceInv'
<1>1. \A m \in Mesh : Wanted(m)' = Wanted(m) /\ Queued(m)' = Queued(m) /\ Held(m)' = Held(m)
  BY DEF Wanted, Queued, Held
<1> QED BY <1>1 DEF OnceInv, Distinct

\* A claim, the queue's turn, a pop and the end of a load hand meshes on, one at
\* a time.
LEMMA ClaimOnce == ASSUME TypeOK, CurOK, OnceInv, CompareExchange PROVE OnceInv'
<1>1. CASE state[cur] # "NotResident"
  <2>1. UNCHANGED <<state, want, loadQueue, wmesh, wpc>>
    BY <1>1 DEF CompareExchange, queueVars, workerVars
  <2> QED BY <2>1, OnceQuiet DEF InHand
<1>2. CASE state[cur] = "NotResident"
  <2>1. /\ cur \in Mesh /\ want \in Seq(Mesh) /\ Len(want) \in Nat
        /\ want' = Append(want, cur) /\ state' = [state EXCEPT ![cur] = "Loading"]
        /\ UNCHANGED <<loadQueue, wmesh, wpc>>
    BY <1>2 DEF CompareExchange, CurOK, TypeOK, queueVars, workerVars
  <2>2. ~Wanted(cur) /\ ~Queued(cur) /\ ~Held(cur)
    BY <1>2, <2>1 DEF OnceInv
  <2>3. /\ Len(want') = Len(want) + 1 /\ want'[Len(want) + 1] = cur
        /\ \A i \in 1..Len(want) : want'[i] = want[i]
    BY <2>1
  <2>4. \A m \in Mesh : Wanted(m)' <=> Wanted(m) \/ m = cur
    <3>1. \A m \in Mesh : Wanted(m) => Wanted(m)'
      BY <2>1, <2>3 DEF Wanted
    <3>2. \A m \in Mesh : m = cur => Wanted(m)'
      <4>1. Len(want) + 1 \in 1..Len(want')
        BY <2>1, <2>3
      <4> QED BY <2>3, <4>1 DEF Wanted
    <3>3. \A m \in Mesh : Wanted(m)' => Wanted(m) \/ m = cur
      BY <2>1, <2>3 DEF Wanted
    <3> QED BY <3>1, <3>2, <3>3
  <2>5. Distinct(want')
    <3> SUFFICES ASSUME NEW i \in 1..Len(want'), NEW j \in 1..Len(want'), want'[i] = want'[j]
                 PROVE  i = j
      BY DEF Distinct
    <3>1. \A k \in 1..Len(want) : want[k] # cur
      BY <2>2 DEF Wanted
    <3>2. \A k \in 1..Len(want') : k \in 1..Len(want) \/ k = Len(want) + 1
      BY <2>1, <2>3
    <3> QED BY <2>3, <3>1, <3>2 DEF OnceInv, Distinct
  <2>6. \A m \in Mesh : Queued(m)' = Queued(m) /\ Held(m)' = Held(m)
    BY <2>1 DEF Queued, Held, InHand
  <2>7. \A m \in Mesh : state'[m] = IF m = cur THEN "Loading" ELSE state[m]
    BY <2>1 DEF TypeOK
  <2>8. /\ Distinct(loadQueue)'
        /\ (\A w, x \in Worker : InHand(w) /\ InHand(x) /\ wmesh[w] = wmesh[x] => w = x)'
    BY <2>1 DEF OnceInv, InHand, Distinct
  <2>9. \A m \in Mesh : /\ ~(Wanted(m)' /\ Queued(m)') /\ ~(Wanted(m)' /\ Held(m)')
                        /\ ~(Queued(m)' /\ Held(m)')
                        /\ Wanted(m)' \/ Queued(m)' \/ Held(m)' => state'[m] = "Loading"
    BY <2>2, <2>4, <2>6, <2>7 DEF OnceInv
  <2> QED BY <2>5, <2>8, <2>9 DEF OnceInv, Distinct
<1> QED BY <1>1, <1>2

\* What was wanted is queued or given up.
LEMMA QueueOnce == ASSUME TypeOK, OnceInv, QueueLoads PROVE OnceInv'
<1> DEFINE n == ToQueue
<1>1. n \in 0..Len(want) /\ Len(want) \in Nat
  BY SizeAssumption DEF ToQueue, TypeOK
<1>2. /\ loadQueue' = loadQueue \o SubSeq(want, 1, n) /\ want' = <<>>
      /\ \A m \in Mesh : state'[m] = IF \E i \in (n + 1)..Len(want) : want[i] = m
                                     THEN "NotResident" ELSE state[m]
      /\ UNCHANGED wmesh
      /\ \A w \in Worker : InHand(w)' = InHand(w)
  BY DEF QueueLoads, Queue, Return, WakeAll, InHand, TypeOK
<1> HIDE DEF n
<1>3. /\ SubSeq(want, 1, n) \in Seq(Mesh) /\ Len(SubSeq(want, 1, n)) = n
      /\ \A i \in 1..n : SubSeq(want, 1, n)[i] = want[i]
  BY <1>1 DEF TypeOK
<1>4. /\ Len(loadQueue') = Len(loadQueue) + n /\ Len(loadQueue) \in Nat
      /\ \A i \in 1..Len(loadQueue) : loadQueue'[i] = loadQueue[i]
      /\ \A i \in 1..n : loadQueue'[Len(loadQueue) + i] = want[i]
  <2>1. loadQueue \in Seq(Mesh)
    BY DEF TypeOK
  <2>2. /\ Len(loadQueue') = Len(loadQueue) + Len(SubSeq(want, 1, n))
        /\ \A i \in 1..Len(loadQueue) : loadQueue'[i] = loadQueue[i]
        /\ \A i \in 1..Len(SubSeq(want, 1, n)) :
             loadQueue'[Len(loadQueue) + i] = SubSeq(want, 1, n)[i]
        /\ Len(loadQueue) \in Nat
    BY <1>2, <1>3, <2>1, Concatenated
  <2> QED BY <1>3, <2>2
<1>5. \A k \in 1..Len(loadQueue') :
        \/ k \in 1..Len(loadQueue) /\ loadQueue'[k] = loadQueue[k]
        \/ k - Len(loadQueue) \in 1..n /\ loadQueue'[k] = want[k - Len(loadQueue)]
  <2> SUFFICES ASSUME NEW k \in 1..Len(loadQueue')
               PROVE  \/ k \in 1..Len(loadQueue) /\ loadQueue'[k] = loadQueue[k]
                      \/ k - Len(loadQueue) \in 1..n /\ loadQueue'[k] = want[k - Len(loadQueue)]
    OBVIOUS
  <2>1. k \in Int /\ n \in Nat
    BY <1>1
  <2>2. CASE k <= Len(loadQueue)
    BY <1>4, <2>1, <2>2
  <2>3. CASE ~(k <= Len(loadQueue))
    <3>1. k - Len(loadQueue) \in 1..n /\ Len(loadQueue) + (k - Len(loadQueue)) = k
      BY <1>4, <2>1, <2>3
    <3> QED BY <1>4, <3>1
  <2> QED BY <2>2, <2>3
<1>6. \A m \in Mesh : Queued(m)' => Queued(m) \/ \E i \in 1..n : want[i] = m
  BY <1>5 DEF Queued
<1>7. Distinct(loadQueue')
  <2> SUFFICES ASSUME NEW i \in 1..Len(loadQueue'), NEW j \in 1..Len(loadQueue'),
                      loadQueue'[i] = loadQueue'[j]
               PROVE  i = j
    BY DEF Distinct
  <2>1. \A a \in 1..Len(loadQueue), b \in 1..n : loadQueue[a] # want[b]
    <3> SUFFICES ASSUME NEW a \in 1..Len(loadQueue), NEW b \in 1..n, loadQueue[a] = want[b]
                 PROVE  FALSE
      OBVIOUS
    <3>1. b \in 1..Len(want) /\ want[b] \in Mesh
      BY <1>1 DEF TypeOK
    <3>2. Wanted(want[b]) /\ Queued(want[b])
      BY <3>1 DEF Wanted, Queued
    <3> QED BY <3>1, <3>2 DEF OnceInv
  <2>2. \A a, b \in 1..n : want[a] = want[b] => a = b
    BY <1>1 DEF OnceInv, Distinct
  <2>3. \A a, b \in 1..Len(loadQueue) : loadQueue[a] = loadQueue[b] => a = b
    BY DEF OnceInv, Distinct
  <2>4. i \in Int /\ j \in Int /\ Len(loadQueue) \in Nat
    BY <1>4
  <2>5. CASE i \in 1..Len(loadQueue) /\ loadQueue'[i] = loadQueue[i]
    BY <1>5, <2>1, <2>3, <2>5
  <2>6. CASE i - Len(loadQueue) \in 1..n /\ loadQueue'[i] = want[i - Len(loadQueue)]
    <3>1. ~(j \in 1..Len(loadQueue) /\ loadQueue'[j] = loadQueue[j])
      BY <2>1, <2>6
    <3>2. j - Len(loadQueue) \in 1..n /\ loadQueue'[j] = want[j - Len(loadQueue)]
      BY <1>5, <3>1
    <3>3. i - Len(loadQueue) = j - Len(loadQueue)
      BY <2>2, <2>6, <3>2
    <3> QED BY <2>4, <3>3
  <2> QED BY <1>5, <2>5, <2>6
<1>8. \A m \in Mesh : ~Wanted(m)' /\ Held(m)' = Held(m)
  BY <1>2 DEF Wanted, Held
<1>9. ASSUME NEW m \in Mesh, NEW i \in 1..n, want[i] = m
      PROVE  Wanted(m) /\ ~\E k \in (n + 1)..Len(want) : want[k] = m
  <2>1. i \in 1..Len(want) /\ \A k \in (n + 1)..Len(want) : k \in 1..Len(want) /\ k # i
    BY <1>1
  <2> QED BY <1>9, <2>1 DEF Wanted, OnceInv, Distinct
<1>10. ASSUME NEW m \in Mesh, \E k \in (n + 1)..Len(want) : want[k] = m
       PROVE  Wanted(m)
  <2>1. \A k \in (n + 1)..Len(want) : k \in 1..Len(want)
    BY <1>1
  <2> QED BY <1>10, <2>1 DEF Wanted
<1>11. \A m \in Mesh : /\ ~(Wanted(m)' /\ Queued(m)') /\ ~(Wanted(m)' /\ Held(m)')
                       /\ ~(Queued(m)' /\ Held(m)')
                       /\ Wanted(m)' \/ Queued(m)' \/ Held(m)' => state'[m] = "Loading"
  <2> SUFFICES ASSUME NEW m \in Mesh
               PROVE  /\ ~(Queued(m)' /\ Held(m))
                      /\ Queued(m)' \/ Held(m) => state'[m] = "Loading"
    BY <1>8
  <2>1. CASE \E i \in 1..n : want[i] = m
    BY <1>2, <1>9, <2>1 DEF OnceInv
  <2>2. CASE ~\E i \in 1..n : want[i] = m
    BY <1>2, <1>6, <1>10, <2>2 DEF OnceInv
  <2> QED BY <2>1, <2>2
<1>12. /\ Distinct(want)'
       /\ (\A w, x \in Worker : InHand(w) /\ InHand(x) /\ wmesh[w] = wmesh[x] => w = x)'
  BY <1>2 DEF OnceInv, Distinct
<1> QED BY <1>7, <1>11, <1>12 DEF OnceInv, Distinct

LEMMA PopOnce == ASSUME TypeOK, OnceInv, NEW w \in Worker, Pops(w) PROVE OnceInv'
<1>1. /\ loadQueue \in Seq(Mesh) /\ loadQueue # <<>> /\ Len(loadQueue) \in Nat \ {0}
      /\ loadQueue' = Tail(loadQueue) /\ Head(loadQueue) = loadQueue[1] /\ loadQueue[1] \in Mesh
      /\ wmesh' = [wmesh EXCEPT ![w] = loadQueue[1]] /\ wpc' = [wpc EXCEPT ![w] = "ensure"]
      /\ UNCHANGED <<state, want>> /\ wpc[w] = "lock"
  BY DEF Pops, TypeOK, mainVars, meshVars
<1>2. /\ Len(loadQueue') = Len(loadQueue) - 1
      /\ \A k \in 1..Len(loadQueue') : loadQueue'[k] = loadQueue[k + 1] /\ k + 1 \in 1..Len(loadQueue)
  BY <1>1
<1> DEFINE h == loadQueue[1]
<1>3. Queued(h) /\ ~Wanted(h) /\ ~Held(h) /\ state[h] = "Loading"
  <2>1. Queued(h)
    BY <1>1 DEF Queued
  <2> QED BY <1>1, <2>1 DEF OnceInv
<1>4. /\ InHand(w)' /\ ~InHand(w) /\ wmesh'[w] = h
      /\ \A x \in Worker : x # w => InHand(x)' = InHand(x) /\ wmesh'[x] = wmesh[x]
  BY <1>1 DEF InHand, TypeOK
<1>5. \A m \in Mesh : Held(m)' <=> Held(m) \/ m = h
  BY <1>4 DEF Held
<1>6. \A m \in Mesh : Queued(m)' => Queued(m) /\ m # h
  <2> SUFFICES ASSUME NEW m \in Mesh, NEW k \in 1..Len(loadQueue'), loadQueue'[k] = m
               PROVE  Queued(m) /\ m # h
    BY DEF Queued
  <2>1. k + 1 \in 1..Len(loadQueue) /\ loadQueue[k + 1] = m /\ k + 1 # 1 /\ 1 \in 1..Len(loadQueue)
    BY <1>1, <1>2
  <2> QED BY <2>1 DEF Queued, OnceInv, Distinct
<1>7. Distinct(loadQueue')
  <2> SUFFICES ASSUME NEW i \in 1..Len(loadQueue'), NEW j \in 1..Len(loadQueue'),
                      loadQueue'[i] = loadQueue'[j]
               PROVE  i = j
    BY DEF Distinct
  <2>1. i + 1 = j + 1
    BY <1>2 DEF OnceInv, Distinct
  <2> QED BY <1>2, <2>1
<1>8. \A m \in Mesh : Wanted(m)' = Wanted(m)
  BY <1>1 DEF Wanted
<1>9. \A x, y \in Worker : InHand(x)' /\ InHand(y)' /\ wmesh'[x] = wmesh'[y] => x = y
  <2>1. \A x \in Worker : InHand(x) => wmesh[x] # h
    BY <1>3 DEF Held
  <2> QED BY <1>4, <2>1 DEF OnceInv
<1>10. \A m \in Mesh : /\ ~(Wanted(m)' /\ Queued(m)') /\ ~(Wanted(m)' /\ Held(m)')
                       /\ ~(Queued(m)' /\ Held(m)')
                       /\ Wanted(m)' \/ Queued(m)' \/ Held(m)' => state'[m] = "Loading"
  <2> HIDE DEF h
  <2> QED BY <1>1, <1>3, <1>5, <1>6, <1>8 DEF OnceInv
<1>11. Distinct(want)'
  BY <1>1 DEF OnceInv, Distinct
<1> QED BY <1>7, <1>9, <1>10, <1>11 DEF OnceInv, Distinct

LEMMA EndOnce ==
  ASSUME TypeOK, OnceInv, NEW w \in Worker, Publish(w) \/ Revert(w) PROVE OnceInv'
<1>1. /\ wmesh[w] \in Mesh /\ InHand(w) /\ UNCHANGED <<want, loadQueue>>
      /\ \A m \in Mesh : m # wmesh[w] => state'[m] = state[m]
      /\ wmesh' = [wmesh EXCEPT ![w] = None] /\ wpc' = [wpc EXCEPT ![w] = "loop"]
  BY DEF Publish, Revert, TypeOK, InHand, mainVars, queueVars
<1>2. ~InHand(w)' /\ \A x \in Worker : x # w => InHand(x)' = InHand(x) /\ wmesh'[x] = wmesh[x]
  BY <1>1 DEF InHand, TypeOK
<1>3. \A m \in Mesh : Wanted(m)' = Wanted(m) /\ Queued(m)' = Queued(m)
  BY <1>1 DEF Wanted, Queued
<1>4. \A m \in Mesh : Held(m)' => Held(m) /\ m # wmesh[w]
  BY <1>1, <1>2 DEF Held, OnceInv
<1>5. ~Wanted(wmesh[w]) /\ ~Queued(wmesh[w])
  BY <1>1 DEF OnceInv, Held
<1>6. \A m \in Mesh : /\ ~(Wanted(m)' /\ Queued(m)') /\ ~(Wanted(m)' /\ Held(m)')
                      /\ ~(Queued(m)' /\ Held(m)')
                      /\ Wanted(m)' \/ Queued(m)' \/ Held(m)' => state'[m] = "Loading"
  BY <1>1, <1>3, <1>4, <1>5 DEF OnceInv
<1>7. \A x, y \in Worker : InHand(x)' /\ InHand(y)' /\ wmesh'[x] = wmesh'[y] => x = y
  BY <1>2 DEF OnceInv
<1>8. Distinct(want)' /\ Distinct(loadQueue)'
  BY <1>1 DEF OnceInv, Distinct
<1> QED BY <1>6, <1>7, <1>8 DEF OnceInv, Distinct

\* No step has a mesh in two places.
LEMMA OnceKeeps ==
  ASSUME Roomy, TypeOK, CurOK, OnceInv, CellInv, [Next]_vars
  PROVE  OnceInv'
<1> USE DEF mainVars, meshVars, poolVars, queueVars, workerVars, WorkerUnchanged
<1>1. CASE CompareExchange
  BY <1>1, ClaimOnce
<1>2. CASE QueueLoads
  BY <1>2, QueueOnce
<1>3. CASE NothingToQueue
  <2>1. UNCHANGED <<state, want, loadQueue, wmesh, wpc>>
    BY <1>3 DEF NothingToQueue, Return
  <2> QED BY <2>1, OnceQuiet DEF InHand
<1>4. CASE BeginFrame \/ ReadState \/ Emit \/ TouchVert \/ TouchIdx \/ DestructorStops
           \/ DestructorJoins \/ UNCHANGED vars
  <2>1. UNCHANGED <<state, want, loadQueue, wmesh, wpc>>
    BY <1>4 DEF BeginFrame, ReadState, Emit, TouchVert, TouchIdx, DestructorStops,
                DestructorJoins, vars
  <2> QED BY <2>1, OnceQuiet DEF InHand
<1>5. CASE DestructorNotifies
  <2>1. UNCHANGED <<state, want, loadQueue, wmesh>> /\ wpc' = WakeAll
    BY <1>5 DEF DestructorNotifies
  <2>2. \A x \in Worker : InHand(x)' = InHand(x)
    BY <2>1 DEF WakeAll, InHand
  <2> QED BY <2>1, <2>2, OnceQuiet
<1>6. ASSUME NEW w \in Worker,
             CheckStop(w) \/ Block(w) \/ PredicateFalse(w) \/ Exits(w) \/ WakesSpuriously(w)
      PROVE  OnceInv'
  <2>1. /\ UNCHANGED <<state, want, loadQueue, wmesh>>
        /\ wpc[w] \in {"loop", "lock", "block", "asleep"}
        /\ \E p \in {"loop", "lock", "block", "asleep", "exited"} : wpc' = [wpc EXCEPT ![w] = p]
    BY <1>6 DEF CheckStop, Block, PredicateFalse, Exits, WakesSpuriously
  <2>2. \A x \in Worker : InHand(x)' = InHand(x)
    BY <2>1 DEF InHand, TypeOK
  <2> QED BY <2>1, <2>2, OnceQuiet
<1>7. ASSUME NEW w \in Worker, Locate(w) \/ DecodeFails(w)
      PROVE  OnceInv'
  <2>1. /\ UNCHANGED <<state, want, loadQueue, wmesh>> /\ wpc[w] = "decode"
        /\ \E p \in {"copy", "revert"} : wpc' = [wpc EXCEPT ![w] = p]
    BY <1>7 DEF Locate, DecodeFails
  <2>2. \A x \in Worker : InHand(x)' = InHand(x)
    BY <2>1 DEF InHand, TypeOK
  <2> QED BY <2>1, <2>2, OnceQuiet
<1>8. ASSUME NEW w \in Worker, EnsureSlots(w) \/ EnsureFails(w)
      PROVE  OnceInv'
  <2>1. UNCHANGED <<state, want, loadQueue, wmesh>>
    BY <1>8, EnsureWithRoom
  <2>2. wpc[w] = "ensure" /\ \E p \in {"decode", "revert"} : wpc' = [wpc EXCEPT ![w] = p]
    BY <1>8 DEF EnsureSlots, EnsureFails
  <2>3. \A x \in Worker : InHand(x)' = InHand(x)
    BY <2>2 DEF InHand, TypeOK
  <2> QED BY <2>1, <2>3, OnceQuiet
<1>9. ASSUME NEW w \in Worker, Pops(w) \/ Publish(w) \/ Revert(w)
      PROVE  OnceInv'
  BY <1>9, PopOnce, EndOnce
<1> QED BY <1>1, <1>2, <1>3, <1>4, <1>5, <1>6, <1>7, <1>8, <1>9
     DEF Next, PrepareFrame, WorkerRuns, Wait

\* The steps that leave the pools and who is in them alone.
LEMMA CellQuiet ==
  ASSUME CellInv, UNCHANGED <<owner, vertSlot, idxSlot, offset>>,
         \A m \in Mesh : Placed(m)' = Placed(m)
  PROVE  CellInv'
BY DEF CellInv

\* A worker that goes between two places of which neither is that of a filler.
LEMMA FillingQuiet ==
  ASSUME TypeOK, UNCHANGED <<state, wmesh>>, NEW w \in Worker,
         wpc[w] \notin {"decode", "copy"},
         NEW p \in {"loop", "lock", "block", "asleep", "exited", "ensure", "revert"},
         wpc' = [wpc EXCEPT ![w] = p]
  PROVE  \A m \in Mesh : Placed(m)' = Placed(m)
<1>1. \A x \in Worker : wpc'[x] \in {"decode", "copy"} <=> wpc[x] \in {"decode", "copy"}
  BY DEF TypeOK
<1>2. \A m \in Mesh : Filling(m)' = Filling(m)
  BY <1>1 DEF Filling
<1> QED BY <1>2 DEF Placed

\* A mesh that gets its slots, and one that gives them back.
LEMMA EnsureCells ==
  ASSUME Roomy, TypeOK, OnceInv, CellInv, NEW w \in Worker, EnsureSlots(w) \/ EnsureFails(w)
  PROVE  CellInv'
<1>0. wpc[w] = "ensure"
  BY DEF EnsureSlots, EnsureFails
<1> PICK h \in Mesh : h = wmesh[w]
  BY <1>0, Unplaced
<1>1. h \in Mesh /\ ~Placed(h) /\ h # None /\ UNCHANGED <<state, wmesh>>
  BY <1>0, Unplaced, EnsureWithRoom, NoneAssumption
<1>2. CASE /\ wpc' = [wpc EXCEPT ![w] = "revert"]
           /\ UNCHANGED <<owner, vertSlot, idxSlot, offset>>
  BY <1>0, <1>1, <1>2, FillingQuiet, CellQuiet
<1>3. ASSUME wpc' = [wpc EXCEPT ![w] = "decode"],
             NEW v \in VertCells, NEW i \in IdxCells, owner[v] = None, owner[i] = None,
             owner' = [c \in Cell |-> IF c \in {v, i} THEN h ELSE owner[c]],
             vertSlot' = [k \in Mesh |-> IF k = h THEN v ELSE vertSlot[k]],
             idxSlot' = [k \in Mesh |-> IF k = h THEN i ELSE idxSlot[k]],
             offset' = [offset EXCEPT ![h] = <<v, i>>]
      PROVE  CellInv'
  <2>1. \A x \in Worker : IF x = w THEN wpc'[x] = "decode" ELSE wpc'[x] = wpc[x]
    BY <1>3 DEF TypeOK
  <2>2. Filling(h)' /\ \A m \in Mesh : m # h => (Filling(m)' <=> Filling(m))
    BY <1>0, <1>1, <2>1 DEF Filling
  <2>3. Placed(h)' /\ \A m \in Mesh : m # h => (Placed(m)' <=> Placed(m))
    BY <1>1, <2>2 DEF Placed
  <2>4. /\ vertSlot'[h] = v /\ idxSlot'[h] = i /\ offset'[h] = <<v, i>>
        /\ \A m \in Mesh : m # h => /\ vertSlot'[m] = vertSlot[m] /\ idxSlot'[m] = idxSlot[m]
                                    /\ offset'[m] = offset[m]
    BY <1>1, <1>3 DEF TypeOK
  <2>5. ASSUME NEW c \in Cell, owner'[c] # None
        PROVE  c \in {vertSlot'[owner'[c]], idxSlot'[owner'[c]]}
    <3>1. CASE c \in {v, i}
      BY <1>3, <2>4, <3>1
    <3>2. CASE c \notin {v, i}
      <4>1. owner'[c] = owner[c] /\ owner[c] \in Mesh
        BY <1>3, <2>5, <3>2 DEF TypeOK
      <4>2. c \in {vertSlot[owner[c]], idxSlot[owner[c]]}
        BY <2>5, <4>1 DEF CellInv
      <4>3. owner[c] # h
        BY <1>1, <4>2, PoolsDisjoint DEF CellInv
      <4> QED BY <2>4, <4>1, <4>2, <4>3
    <3> QED BY <3>1, <3>2
  <2>6. \A m \in Mesh :
          /\ Placed(m)' => /\ vertSlot'[m] \in VertCells /\ idxSlot'[m] \in IdxCells
                           /\ offset'[m] = <<vertSlot'[m], idxSlot'[m]>>
          /\ ~Placed(m)' => vertSlot'[m] = None /\ idxSlot'[m] = None
    BY <2>3, <2>4 DEF CellInv
  <2> QED BY <2>5, <2>6 DEF CellInv
<1> QED BY <1>2, <1>3, EnsureWithRoom

\* A load that fails gives its cells back.
LEMMA FailCells ==
  ASSUME TypeOK, OnceInv, CellInv, NEW w \in Worker, DecodeFails(w)
  PROVE  CellInv'
<1> PICK h \in Mesh : h = wmesh[w]
  BY DEF DecodeFails, TypeOK, InHand
<1>1. /\ h \in Mesh /\ InHand(w) /\ wpc[w] = "decode" /\ h # None
      /\ owner' = [c \in Cell |-> IF c \in {vertSlot[h], idxSlot[h]} THEN None ELSE owner[c]]
      /\ vertSlot' = [vertSlot EXCEPT ![h] = None] /\ idxSlot' = [idxSlot EXCEPT ![h] = None]
      /\ wpc' = [wpc EXCEPT ![w] = "revert"] /\ UNCHANGED <<state, offset, wmesh>>
  BY NoneAssumption DEF DecodeFails, TypeOK, InHand
<1>2. state[h] = "Loading"
  BY <1>1 DEF OnceInv, Held
<1>3. \A x \in Worker : IF x = w THEN wpc'[x] = "revert" ELSE wpc'[x] = wpc[x]
  BY <1>1 DEF TypeOK
<1>4. ~Filling(h)' /\ \A m \in Mesh : m # h => (Filling(m)' <=> Filling(m))
  BY <1>1, <1>3 DEF Filling, OnceInv, InHand
<1>5. ~Placed(h)' /\ \A m \in Mesh : m # h => (Placed(m)' <=> Placed(m))
  BY <1>1, <1>2, <1>4 DEF Placed
<1>6. /\ vertSlot'[h] = None /\ idxSlot'[h] = None
      /\ \A m \in Mesh : m # h => vertSlot'[m] = vertSlot[m] /\ idxSlot'[m] = idxSlot[m]
  BY <1>1 DEF TypeOK
<1>7. ASSUME NEW c \in Cell, owner'[c] # None
      PROVE  c \in {vertSlot'[owner'[c]], idxSlot'[owner'[c]]}
  <2>1. c \notin {vertSlot[h], idxSlot[h]} /\ owner'[c] = owner[c] /\ owner[c] \in Mesh
    BY <1>1, <1>7 DEF TypeOK
  <2>2. c \in {vertSlot[owner[c]], idxSlot[owner[c]]}
    BY <1>7, <2>1 DEF CellInv
  <2> QED BY <1>6, <2>1, <2>2
<1>8. \A m \in Mesh :
        /\ Placed(m)' => /\ vertSlot'[m] \in VertCells /\ idxSlot'[m] \in IdxCells
                         /\ offset'[m] = <<vertSlot'[m], idxSlot'[m]>>
        /\ ~Placed(m)' => vertSlot'[m] = None /\ idxSlot'[m] = None
  BY <1>1, <1>5, <1>6 DEF CellInv
<1> QED BY <1>7, <1>8 DEF CellInv

\* A load that ends well leaves its mesh where it is, one that fails leaves none.
LEMMA EndCells ==
  ASSUME TypeOK, OnceInv, CellInv, NEW w \in Worker, Publish(w) \/ Revert(w)
  PROVE  CellInv'
<1> PICK h \in Mesh : h = wmesh[w]
  BY DEF Publish, Revert, TypeOK, InHand
<1>1. /\ h \in Mesh /\ InHand(w) /\ UNCHANGED <<owner, vertSlot, idxSlot, offset>> /\ h # None
      /\ wmesh' = [wmesh EXCEPT ![w] = None] /\ wpc' = [wpc EXCEPT ![w] = "loop"]
      /\ \A m \in Mesh : m # h => state'[m] = state[m]
  BY NoneAssumption DEF Publish, Revert, TypeOK, InHand, mainVars, queueVars, poolVars
<1>2. \A x \in Worker : x # w => wpc'[x] = wpc[x] /\ wmesh'[x] = wmesh[x]
  BY <1>1 DEF TypeOK
<1>3. wpc'[w] = "loop"
  BY <1>1 DEF TypeOK
<1>4. \A m \in Mesh : m # h => (Filling(m)' <=> Filling(m))
  BY <1>1, <1>2, <1>3 DEF Filling
<1>5. ~Filling(h)'
  BY <1>1, <1>2, <1>3 DEF Filling, OnceInv, InHand
<1>6. Placed(h)' = Placed(h)
  <2>1. CASE Publish(w)
    <3>1. Filling(h) /\ state'[h] = "Resident"
      BY <1>1, <2>1 DEF Publish, Filling, TypeOK
    <3> QED BY <3>1 DEF Placed
  <2>2. CASE Revert(w)
    <3>1. ~Placed(h) /\ state'[h] = "NotResident"
      BY <1>1, <2>2, Unplaced DEF Revert, TypeOK
    <3> QED BY <1>5, <3>1 DEF Placed
  <2> QED BY <2>1, <2>2
<1>7. \A m \in Mesh : Placed(m)' = Placed(m)
  <2>1. \A m \in Mesh : m # h => Placed(m)' = Placed(m)
    BY <1>1, <1>4 DEF Placed
  <2>2. \A m \in Mesh : m = h => Placed(m)' = Placed(m)
    BY <1>6
  <2> QED BY <2>1, <2>2
<1> QED BY <1>1, <1>7, CellQuiet

\* No step puts a mesh in a cell of another's, or leaves one behind.
LEMMA CellKeeps ==
  ASSUME Roomy, TypeOK, CurOK, OnceInv, CellInv, [Next]_vars
  PROVE  CellInv'
<1> USE DEF mainVars, meshVars, poolVars, queueVars, workerVars, WorkerUnchanged
<1>1. CASE BeginFrame \/ ReadState \/ Emit \/ TouchVert \/ TouchIdx \/ NothingToQueue
           \/ DestructorStops \/ DestructorJoins \/ UNCHANGED vars
  <2>1. UNCHANGED <<owner, vertSlot, idxSlot, offset, state, wpc, wmesh>>
    BY <1>1 DEF BeginFrame, ReadState, Emit, TouchVert, TouchIdx, NothingToQueue,
                DestructorStops, DestructorJoins, vars
  <2> QED BY <2>1, CellQuiet DEF Placed, Filling
<1>2. CASE CompareExchange
  <2>1. UNCHANGED <<owner, vertSlot, idxSlot, offset, wpc, wmesh>>
    BY <1>2 DEF CompareExchange
  <2>2. \A m \in Mesh : state'[m] = "Resident" <=> state[m] = "Resident"
    <3>1. CASE state[cur] = "NotResident"
      <4>1. state' = [state EXCEPT ![cur] = "Loading"]
        BY <1>2, <3>1 DEF CompareExchange
      <4> QED BY <3>1, <4>1 DEF TypeOK
    <3>2. CASE state[cur] # "NotResident"
      BY <1>2, <3>2 DEF CompareExchange
    <3> QED BY <3>1, <3>2
  <2> QED BY <2>1, <2>2, CellQuiet DEF Placed, Filling
<1>3. CASE QueueLoads
  <2>1. /\ UNCHANGED <<owner, vertSlot, idxSlot, offset, wmesh>>
        /\ state' = [m \in Mesh |-> IF \E i \in (ToQueue + 1)..Len(want) : want[i] = m
                                    THEN "NotResident" ELSE state[m]]
        /\ wpc' = WakeAll \/ wpc' = wpc
    BY <1>3 DEF QueueLoads, Queue
  <2>2. ToQueue \in 0..Len(want)
    BY SizeAssumption DEF ToQueue, TypeOK
  <2>3. \A m \in Mesh : (\E i \in (ToQueue + 1)..Len(want) : want[i] = m) => state[m] = "Loading"
    <3>1. \A i \in (ToQueue + 1)..Len(want) : i \in 1..Len(want)
      BY <2>2
    <3> QED BY <3>1 DEF OnceInv, Wanted
  <2>4. \A m \in Mesh : state'[m] = "Resident" <=> state[m] = "Resident"
    BY <2>1, <2>3 DEF TypeOK
  <2>5. \A x \in Worker : wpc'[x] \in {"decode", "copy"} <=> wpc[x] \in {"decode", "copy"}
    BY <2>1 DEF WakeAll
  <2>6. \A m \in Mesh : Filling(m)' = Filling(m)
    BY <2>1, <2>5 DEF Filling
  <2>7. \A m \in Mesh : Placed(m)' = Placed(m)
    BY <2>4, <2>6 DEF Placed
  <2> QED BY <2>1, <2>7, CellQuiet
<1>4. CASE DestructorNotifies
  <2>1. UNCHANGED <<owner, vertSlot, idxSlot, offset, state, wmesh>> /\ wpc' = WakeAll
    BY <1>4 DEF DestructorNotifies
  <2>2. \A x \in Worker : wpc'[x] \in {"decode", "copy"} <=> wpc[x] \in {"decode", "copy"}
    BY <2>1 DEF WakeAll
  <2>3. \A m \in Mesh : Filling(m)' = Filling(m)
    BY <2>1, <2>2 DEF Filling
  <2> QED BY <2>1, <2>3, CellQuiet DEF Placed
<1>5. ASSUME NEW w \in Worker,
             CheckStop(w) \/ Block(w) \/ PredicateFalse(w) \/ Exits(w) \/ WakesSpuriously(w)
      PROVE  CellInv'
  <2>1. UNCHANGED <<owner, vertSlot, idxSlot, offset, state, wmesh>>
    BY <1>5 DEF CheckStop, Block, PredicateFalse, Exits, WakesSpuriously
  <2>2. /\ wpc[w] \notin {"decode", "copy"}
        /\ \E p \in {"loop", "lock", "block", "asleep", "exited", "ensure", "revert"} :
             wpc' = [wpc EXCEPT ![w] = p]
    BY <1>5 DEF CheckStop, Block, PredicateFalse, Exits, WakesSpuriously
  <2> QED BY <2>1, <2>2, FillingQuiet, CellQuiet
<1>6. ASSUME NEW w \in Worker, Pops(w)
      PROVE  CellInv'
  <2>1. UNCHANGED <<owner, vertSlot, idxSlot, offset, state>>
    BY <1>6 DEF Pops
  <2>2. /\ wpc[w] = "lock" /\ wpc' = [wpc EXCEPT ![w] = "ensure"]
        /\ wmesh' = [wmesh EXCEPT ![w] = Head(loadQueue)]
    BY <1>6 DEF Pops
  <2>3. \A x \in Worker : IF x = w THEN wpc'[x] = "ensure"
                          ELSE wpc'[x] = wpc[x] /\ wmesh'[x] = wmesh[x]
    BY <2>2 DEF TypeOK
  <2>4. \A m \in Mesh : Filling(m)' = Filling(m)
    BY <2>2, <2>3 DEF Filling
  <2> QED BY <2>1, <2>4, CellQuiet DEF Placed
<1>7. ASSUME NEW w \in Worker, Locate(w)
      PROVE  CellInv'
  <2>1. UNCHANGED <<owner, vertSlot, idxSlot, offset, state, wmesh>>
        /\ wpc[w] = "decode" /\ wpc' = [wpc EXCEPT ![w] = "copy"]
    BY <1>7 DEF Locate
  <2>2. \A x \in Worker : wpc'[x] \in {"decode", "copy"} <=> wpc[x] \in {"decode", "copy"}
    BY <2>1 DEF TypeOK
  <2>3. \A m \in Mesh : Filling(m)' = Filling(m)
    BY <2>1, <2>2 DEF Filling
  <2> QED BY <2>1, <2>3, CellQuiet DEF Placed
<1>8. ASSUME NEW w \in Worker,
             EnsureSlots(w) \/ EnsureFails(w) \/ DecodeFails(w) \/ Publish(w) \/ Revert(w)
      PROVE  CellInv'
  BY <1>8, EnsureCells, FailCells, EndCells
<1> QED BY <1>1, <1>2, <1>3, <1>4, <1>5, <1>6, <1>7, <1>8
     DEF Next, PrepareFrame, WorkerRuns, Wait

\* A mesh that is Resident stays so, where it is.
LEMMA ResidentStays ==
  ASSUME Roomy, TypeOK, CurOK, OnceInv, CellInv, [Next]_vars
  PROVE  \A m \in Mesh : state[m] = "Resident" =>
           state'[m] = "Resident" /\ offset'[m] = offset[m]
<1> USE DEF mainVars, meshVars, poolVars, queueVars, workerVars, WorkerUnchanged
<1>1. CASE CompareExchange
  <2>1. UNCHANGED offset
    BY <1>1 DEF CompareExchange
  <2>2. CASE state[cur] = "NotResident"
    <3>1. state' = [state EXCEPT ![cur] = "Loading"]
      BY <1>1, <2>2 DEF CompareExchange
    <3> QED BY <2>1, <2>2, <3>1 DEF TypeOK
  <2>3. CASE state[cur] # "NotResident"
    BY <1>1, <2>1, <2>3 DEF CompareExchange
  <2> QED BY <2>2, <2>3
<1>2. CASE QueueLoads
  <2>1. /\ UNCHANGED offset
        /\ state' = [m \in Mesh |-> IF \E i \in (ToQueue + 1)..Len(want) : want[i] = m
                                    THEN "NotResident" ELSE state[m]]
    BY <1>2 DEF QueueLoads, Queue
  <2>2. \A i \in (ToQueue + 1)..Len(want) : i \in 1..Len(want)
    BY SizeAssumption DEF ToQueue, TypeOK
  <2>3. \A m \in Mesh : (\E i \in (ToQueue + 1)..Len(want) : want[i] = m) => state[m] = "Loading"
    BY <2>2 DEF OnceInv, Wanted
  <2> QED BY <2>1, <2>3
<1>3. ASSUME NEW w \in Worker, EnsureSlots(w) \/ EnsureFails(w)
      PROVE  \A m \in Mesh : state[m] = "Resident" =>
               state'[m] = "Resident" /\ offset'[m] = offset[m]
  <2>1. wmesh[w] \in Mesh /\ state[wmesh[w]] = "Loading"
    BY <1>3, Unplaced DEF EnsureSlots, EnsureFails
  <2>2. UNCHANGED state
    BY <1>3, EnsureWithRoom
  <2>3. UNCHANGED offset \/ \E p : offset' = [offset EXCEPT ![wmesh[w]] = p]
    BY <1>3 DEF EnsureSlots, EnsureFails
  <2> QED BY <2>1, <2>2, <2>3 DEF TypeOK
<1>4. ASSUME NEW w \in Worker, Publish(w) \/ Revert(w)
      PROVE  \A m \in Mesh : state[m] = "Resident" =>
               state'[m] = "Resident" /\ offset'[m] = offset[m]
  <2>1. InHand(w) /\ wmesh[w] \in Mesh /\ UNCHANGED offset
    BY <1>4 DEF Publish, Revert, InHand, TypeOK
  <2>2. state[wmesh[w]] = "Loading"
    BY <2>1 DEF OnceInv, Held
  <2>3. \/ state' = [state EXCEPT ![wmesh[w]] = "Resident"]
        \/ state' = [state EXCEPT ![wmesh[w]] = "NotResident"]
    BY <1>4 DEF Publish, Revert
  <2> QED BY <2>1, <2>2, <2>3 DEF TypeOK
<1>5. CASE BeginFrame \/ ReadState \/ Emit \/ TouchVert \/ TouchIdx \/ NothingToQueue
           \/ DestructorStops \/ DestructorNotifies \/ DestructorJoins \/ UNCHANGED vars
  <2>1. UNCHANGED <<state, offset>>
    BY <1>5 DEF BeginFrame, ReadState, Emit, TouchVert, TouchIdx, NothingToQueue,
                DestructorStops, DestructorNotifies, DestructorJoins, vars
  <2> QED BY <2>1
<1>6. ASSUME NEW w \in Worker,
             \/ CheckStop(w) \/ Block(w) \/ Wait(w) \/ WakesSpuriously(w)
             \/ Locate(w) \/ DecodeFails(w)
      PROVE  UNCHANGED <<state, offset>>
  BY <1>6 DEF CheckStop, Block, Wait, PredicateFalse, Exits, Pops, WakesSpuriously,
              Locate, DecodeFails
<1> QED BY <1>1, <1>2, <1>3, <1>4, <1>5, <1>6 DEF Next, PrepareFrame, WorkerRuns

\* What a frame has drawn, and what it is about to draw, stays where it was.
LEMMA DrawnKeeps ==
  ASSUME Roomy, TypeOK, CurOK, OnceInv, CellInv, DrawnInv, [Next]_vars
  PROVE  DrawnInv'
<1> USE DEF mainVars, meshVars, poolVars, queueVars, workerVars, WorkerUnchanged
<1> DEFINE Drawing == {"emit", "touchVert", "touchIdx"}
<1>1. \A m \in Mesh : state[m] = "Resident" =>
        state'[m] = "Resident" /\ offset'[m] = offset[m]
  BY ResidentStays
<1>2. \A d \in drawn : d[1] \in Mesh
  BY DEF TypeOK
<1>3. \A d \in drawn : state'[d[1]] = "Resident" /\ d[2] = offset'[d[1]]
  BY <1>1, <1>2 DEF DrawnInv
<1>4. CASE drawn' = drawn /\ (mpc' \notin Drawing \/ UNCHANGED <<mpc, cur>>)
  BY <1>1, <1>3, <1>4 DEF DrawnInv, CurOK
<1>5. CASE BeginFrame
  BY <1>5 DEF BeginFrame, DrawnInv
<1>6. CASE ReadState
  BY <1>3, <1>6 DEF ReadState, DrawnInv
<1>7. CASE Emit
  <2>1. /\ cur \in Mesh /\ state[cur] = "Resident" /\ drawn' = drawn \cup {<<cur, offset[cur]>>}
        /\ UNCHANGED cur
    BY <1>7 DEF Emit, CurOK, DrawnInv
  <2>2. state'[cur] = "Resident" /\ offset'[cur] = offset[cur]
    BY <1>1, <2>1
  <2>3. \A d \in drawn' : d \in drawn \/ d = <<cur, offset[cur]>>
    BY <2>1
  <2> QED BY <1>3, <2>1, <2>2, <2>3 DEF DrawnInv
<1>8. CASE TouchVert
  <2>1. UNCHANGED <<cur, drawn, state>> /\ state[cur] = "Resident"
    BY <1>8 DEF TouchVert, DrawnInv
  <2> QED BY <1>3, <2>1 DEF DrawnInv
<1>9. CASE \/ CompareExchange \/ TouchIdx \/ NothingToQueue \/ QueueLoads
           \/ DestructorStops \/ DestructorNotifies \/ DestructorJoins \/ UNCHANGED vars
  <2>1. drawn' = drawn /\ (mpc' \notin Drawing \/ UNCHANGED <<mpc, cur>>)
    BY <1>9 DEF CompareExchange, TouchIdx, NothingToQueue, QueueLoads, Queue, Return,
                DestructorStops, DestructorNotifies, DestructorJoins, vars
  <2> QED BY <1>4, <2>1
<1>10. ASSUME NEW w \in Worker, WorkerRuns(w) \/ Wait(w) \/ WakesSpuriously(w)
       PROVE  UNCHANGED <<mpc, cur, drawn>>
  BY <1>10 DEF WorkerRuns, CheckStop, Block, EnsureSlots, EnsureFails, DecodeFails, Locate,
               Publish, Revert, Wait, PredicateFalse, Exits, Pops, WakesSpuriously
<1> QED BY <1>4, <1>5, <1>6, <1>7, <1>8, <1>9, <1>10 DEF Next, PrepareFrame

\* At first nobody has a mesh and no cell is taken.
LEMMA InitRoom == Init => RoomInv
<1> SUFFICES ASSUME Init PROVE RoomInv
  OBVIOUS
<1>1. /\ \A m \in Mesh : ~Wanted(m) /\ ~Queued(m) /\ ~Held(m) /\ ~Placed(m)
      /\ \A w \in Worker : ~InHand(w)
  BY DEF Init, Wanted, Queued, Held, InHand, Placed, Filling
<1>2. Distinct(want) /\ Distinct(loadQueue)
  BY DEF Init, Distinct
<1>3. OnceInv
  BY <1>1, <1>2 DEF OnceInv
<1>4. CellInv
  BY <1>1 DEF Init, CellInv
<1>5. DrawnInv
  BY DEF Init, DrawnInv
<1> QED BY <1>3, <1>4, <1>5 DEF RoomInv

\* With room, nobody evicts, and the three hold.
LEMMA RoomInvariance ==
  ASSUME Roomy
  PROVE  Spec => [](Inv /\ RoomInv)
<1>1. Init => RoomInv
  BY InitRoom
<1>2. Inv /\ RoomInv /\ [Next]_vars => RoomInv'
  BY OnceKeeps, CellKeeps, DrawnKeeps DEF Inv, RoomInv
<1> QED BY <1>1, <1>2, Invariance, PTL DEF Spec

\* A set whose elements are all equal has at most one.
LEMMA AtMostOne ==
  ASSUME NEW S, \A x, y \in S : x = y
  PROVE  Cardinality(S) = IF S = {} THEN 0 ELSE 1
<1>1. CASE S = {}
  BY <1>1, FS_EmptySet
<1>2. CASE S # {}
  <2>1. PICK x \in S : TRUE
    BY <1>2
  <2>2. S = {x}
    BY <2>1
  <2> QED BY <1>2, <2>2, FS_Singleton
<1> QED BY <1>1, <1>2

\* A mesh with one of them, once, is counted once.
LEMMA OnceImpliesEachLoadOnce ==
  ASSUME OnceInv
  PROVE  EachLoadOnce
<1> SUFFICES ASSUME NEW m \in Mesh
             PROVE  Places(m) <= 1 /\ (Places(m) = 1 => state[m] = "Loading")
  BY DEF EachLoadOnce
<1> DEFINE A == {i \in 1..Len(want) : want[i] = m}
           B == {i \in 1..Len(loadQueue) : loadQueue[i] = m}
           C == {w \in Worker : InHand(w) /\ wpc[w] # "revert" /\ wmesh[w] = m}
<1>1. /\ A # {} => Wanted(m)
      /\ B # {} => Queued(m)
      /\ C # {} => Held(m)
  BY DEF Wanted, Queued, Held
<1>2. (\A x, y \in A : x = y) /\ (\A x, y \in B : x = y) /\ (\A x, y \in C : x = y)
  BY DEF OnceInv, Distinct
<1>3. ~(A # {} /\ B # {}) /\ ~(A # {} /\ C # {}) /\ ~(B # {} /\ C # {})
  BY <1>1 DEF OnceInv
<1>4. A # {} \/ B # {} \/ C # {} => state[m] = "Loading"
  BY <1>1 DEF OnceInv
<1>5. Places(m) = Cardinality(A) + Cardinality(B) + Cardinality(C)
  BY DEF Places
<1> HIDE DEF A, B, C
<1>6. /\ Cardinality(A) = IF A = {} THEN 0 ELSE 1
      /\ Cardinality(B) = IF B = {} THEN 0 ELSE 1
      /\ Cardinality(C) = IF C = {} THEN 0 ELSE 1
  BY <1>2, AtMostOne
<1> QED BY <1>3, <1>4, <1>5, <1>6

\* A Resident mesh has its cells, and no worker has it.
LEMMA RoomImpliesDrawnComplete ==
  ASSUME Inv, RoomInv
  PROVE  DrawnComplete
<1> SUFFICES ASSUME NEW d \in drawn, NEW c \in {d[2][1], d[2][2]}
             PROVE  /\ c \in Cell /\ owner[c] = d[1]
                    /\ \A w \in Worker : ~ (InHand(w) /\ wmesh[w] = d[1])
  BY DEF DrawnComplete
<1>1. d[1] \in Mesh /\ state[d[1]] = "Resident" /\ d[2] = offset[d[1]]
  BY DEF Inv, TypeOK, RoomInv, DrawnInv
<1>2. /\ vertSlot[d[1]] \in VertCells /\ idxSlot[d[1]] \in IdxCells
      /\ offset[d[1]] = <<vertSlot[d[1]], idxSlot[d[1]]>>
  BY <1>1 DEF RoomInv, CellInv, Placed
<1>3. c = vertSlot[d[1]] \/ c = idxSlot[d[1]]
  BY <1>1, <1>2
<1>4. c \in Cell /\ c # None
  BY <1>2, <1>3, PoolsDisjoint DEF Cell
<1>5. owner[c] = d[1]
  BY <1>1, <1>3, <1>4 DEF Inv, SlotInv, SlotOwned
<1>6. ~Held(d[1])
  BY <1>1 DEF RoomInv, OnceInv
<1> QED BY <1>4, <1>5, <1>6 DEF Held

\* With a slot in either pool for every mesh, a mesh is being loaded at most
\* once, and exactly when it is Loading, whatever frames, workers and failures
\* come between: no frame queues it a second time (MeshRegistry.cpp:592-602).
THEOREM LoadsAreOnce == ASSUME Roomy PROVE Spec => []EachLoadOnce
<1>1. Inv /\ RoomInv => EachLoadOnce
  BY OnceImpliesEachLoadOnce DEF RoomInv
<1> QED BY <1>1, RoomInvariance, PTL

\* With a slot in either pool for every mesh, what a frame has drawn is whole in
\* the slots it is drawn from, and no worker writes it, until the next frame
\* (MeshRegistry.cpp:604-656).
THEOREM DrawnIsComplete == ASSUME Roomy PROVE Spec => []DrawnComplete
<1>1. Inv /\ RoomInv => DrawnComplete
  BY RoomImpliesDrawnComplete
<1> QED BY <1>1, RoomInvariance, PTL

\* With a slot in either pool for every mesh, a Resident mesh has its two slots
\* (MeshRegistry.h:82), which it need not have where meshes evict one another.
THEOREM ResidentIsPlaced == ASSUME Roomy PROVE Spec => []ResidentHasSlots
<1>1. Inv /\ RoomInv => ResidentHasSlots
  BY PoolsDisjoint DEF RoomInv, CellInv, Placed, ResidentHasSlots, Cell
<1> QED BY <1>1, RoomInvariance, PTL

=============================================================================
