----------------------------- MODULE Residency -----------------------------
(***************************************************************************)
(* ResidencyManager (src/src/MeshRegistry.cpp): the render thread prepares *)
(* a frame (cull, claim loads, draw what is resident, queue) while worker  *)
(* threads page meshes into the vertex pool and the index pool chunks and  *)
(* evict others to make room.                                              *)
(*                                                                         *)
(* A pool is a set of equal cells, a slot id is a cell, and first fit is   *)
(* the lowest one (VRAMPool models byte ranges).  A pool has at most 64    *)
(* slots, so one evictLRU(64) frees all that are eligible and their order  *)
(* does not matter: of lastUsedFrame only "is the current frame" is kept.  *)
(* A step is what a thread does between two accesses to shared state;      *)
(* ensurePoolSlots holds poolMutex_ throughout and is one step.            *)
(***************************************************************************)
EXTENDS Integers, Sequences, FiniteSets

CONSTANTS
  NumMeshes,    \* registered meshes
  Views,        \* sets of meshes a camera can see
  Worker,       \* loader threads
  Budget,       \* cfg_.maxLoadsPerFrame
  VertSlots,    \* slots of the vertex pool
  IdxChunks,    \* chunks of the index pool
  IdxSlots,     \* slots of each chunk
  MayFail,      \* a buffer view may fail to decode
  MaxQueue,     \* bound on loadQueue_
  None

Mesh == 1..NumMeshes
VertCells == {0} \X (1..VertSlots)
IdxCells == (1..IdxChunks) \X (1..IdxSlots)
Cell == VertCells \cup IdxCells

ASSUME SizeAssumption ==
  /\ NumMeshes \in Nat /\ Budget \in Nat /\ MaxQueue \in Nat
  /\ VertSlots \in Nat /\ IdxChunks \in Nat /\ IdxSlots \in Nat
ASSUME ViewAssumption == Views \subseteq SUBSET Mesh
ASSUME FailAssumption == MayFail \in BOOLEAN
ASSUME NoneAssumption == None \notin Mesh \cup Cell \cup Worker

VARIABLES
  mpc,          \* where the render thread is
  frame,        \* currentFrame_: -1 before the first, 0 the first, 1 a later one
  visible,      \* the meshes this frame's camera sees
  cur,          \* loop index of prepareFrame
  want,         \* wantLoad
  drawn,        \* draw calls of the frame: a mesh and the cells it is drawn from
  state,        \* MeshRecord::state
  vertSlot,     \* vertSlotId
  idxSlot,      \* idxSlotId with idxChunkIdx
  offset,       \* the pool offsets last written to the record
  owner,        \* Slot::meshId of each cell
  touched,      \* Slot::lastUsedFrame = currentFrame_
  loadQueue, queueMutex, stop,
  wpc, wmesh    \* each worker's place and mesh

mainVars == <<mpc, frame, visible, cur, want, drawn>>
meshVars == <<state, vertSlot, idxSlot, offset>>
poolVars == <<owner, touched>>
queueVars == <<loadQueue, queueMutex, stop>>
workerVars == <<wpc, wmesh>>
vars == <<mainVars, meshVars, poolVars, queueVars, workerVars>>

NoCells == <<None, None>>

Init ==
  /\ mpc = "idle" /\ frame = -1 /\ visible = {} /\ cur = 1
  /\ want = <<>> /\ drawn = {}
  /\ state = [m \in Mesh |-> "NotResident"]
  /\ vertSlot = [m \in Mesh |-> None]
  /\ idxSlot = [m \in Mesh |-> None]
  /\ offset = [m \in Mesh |-> NoCells]
  /\ owner = [c \in Cell |-> None]
  /\ touched = [c \in Cell |-> FALSE]
  /\ loadQueue = <<>> /\ queueMutex = None /\ stop = FALSE
  /\ wpc = [w \in Worker |-> "loop"]
  /\ wmesh = [w \in Worker |-> None]

-----------------------------------------------------------------------------
(* The render thread.                                                      *)

\* prepareFrame for another frame; the GPU has finished the previous one.
BeginFrame ==
  /\ mpc = "idle"
  /\ Len(loadQueue) + NumMeshes <= MaxQueue
  /\ mpc' = "scan"
  /\ frame' = IF frame = -1 THEN 0 ELSE 1
  /\ visible' \in Views
  /\ drawn' = {}
  /\ touched' = [c \in Cell |-> FALSE]
  /\ UNCHANGED <<cur, want, meshVars, owner, queueVars, workerVars>>

\* Cull the mesh, then branch on its state as loaded here.
ReadState ==
  /\ mpc = "scan" /\ cur <= NumMeshes
  /\ \/ /\ cur \notin visible \/ state[cur] = "Loading"
        /\ cur' = cur + 1
        /\ UNCHANGED mpc
     \/ /\ cur \in visible /\ state[cur] # "Loading"
        /\ mpc' = IF state[cur] = "Resident" THEN "emit" ELSE "claim"
        /\ UNCHANGED cur
  /\ UNCHANGED <<frame, visible, want, drawn, meshVars, poolVars, queueVars, workerVars>>

\* compare_exchange_strong from NotResident to Loading.
CompareExchange ==
  /\ mpc = "claim"
  /\ IF state[cur] = "NotResident"
     THEN /\ state' = [state EXCEPT ![cur] = "Loading"]
          /\ want' = Append(want, cur)
     ELSE UNCHANGED <<state, want>>
  /\ cur' = cur + 1
  /\ mpc' = "scan"
  /\ UNCHANGED <<frame, visible, drawn, vertSlot, idxSlot, offset,
                 poolVars, queueVars, workerVars>>

\* One draw call, from the record's offsets.
Emit ==
  /\ mpc = "emit"
  /\ drawn' = drawn \cup {<<cur, offset[cur]>>}
  /\ mpc' = "touchVert"
  /\ UNCHANGED <<frame, visible, cur, want, meshVars, poolVars, queueVars, workerVars>>

\* touch() on an id that is gone does nothing; poolMutex_ is not taken.
Touch(slot) == touched' = IF slot = None THEN touched ELSE [touched EXCEPT ![slot] = TRUE]

TouchVert ==
  /\ mpc = "touchVert"
  /\ Touch(vertSlot[cur])
  /\ mpc' = "touchIdx"
  /\ UNCHANGED <<frame, visible, cur, want, drawn, meshVars, owner,
                 queueVars, workerVars>>

TouchIdx ==
  /\ mpc = "touchIdx"
  /\ Touch(idxSlot[cur])
  /\ cur' = cur + 1
  /\ mpc' = "scan"
  /\ UNCHANGED <<frame, visible, want, drawn, meshVars, owner,
                 queueVars, workerVars>>

\* prepareFrame returns: its locals are gone.
Return == mpc' = "idle" /\ visible' = {} /\ cur' = 1 /\ want' = <<>>

NothingToQueue ==
  /\ mpc = "scan" /\ cur > NumMeshes /\ want = <<>>
  /\ Return
  /\ UNCHANGED <<frame, drawn, meshVars, poolVars, queueVars, workerVars>>

WakeAll == [w \in Worker |-> IF wpc[w] = "asleep" THEN "lock" ELSE wpc[w]]

\* Under queueMutex_: queue the first n, give up those from first on.
Queue(n, first, wakes) ==
  /\ mpc = "scan" /\ cur > NumMeshes /\ want # <<>>
  /\ queueMutex = None
  /\ loadQueue' = loadQueue \o SubSeq(want, 1, n)
  /\ state' = [m \in Mesh |-> IF \E i \in first..Len(want) : want[i] = m
                              THEN "NotResident" ELSE state[m]]
  /\ wpc' = IF wakes THEN WakeAll ELSE wpc
  /\ Return
  /\ UNCHANGED <<frame, drawn, vertSlot, idxSlot, offset, poolVars,
                 queueMutex, stop, wmesh>>

ToQueue == IF Len(want) <= Budget THEN Len(want) ELSE Budget

\* Mutants: nothing is given up; everything is; nobody is notified.
QueueLoadsForgetting == Queue(ToQueue, Len(want) + 1, ToQueue > 0)
QueueLoadsRevertingAll == Queue(ToQueue, 1, ToQueue > 0)
QueueLoadsSilently == Queue(ToQueue, ToQueue + 1, FALSE)

\* As many as the budget allows; notify_all if anything was queued.
QueueLoads == Queue(ToQueue, ToQueue + 1, ToQueue > 0)

\* ~ResidencyManager: the flag is stored without queueMutex_ ...
DestructorStops ==
  /\ mpc = "idle"
  /\ stop' = TRUE
  /\ mpc' = "notifyStop"
  /\ UNCHANGED <<frame, visible, cur, want, drawn, meshVars, poolVars,
                 loadQueue, queueMutex, workerVars>>

DestructorNotifies ==
  /\ mpc = "notifyStop"
  /\ wpc' = WakeAll
  /\ mpc' = "join"
  /\ UNCHANGED <<frame, visible, cur, want, drawn, meshVars, poolVars, queueVars,
                 wmesh>>

DestructorJoins ==
  /\ mpc = "join"
  /\ \A w \in Worker : wpc[w] = "exited"
  /\ mpc' = "destroyed"
  /\ UNCHANGED <<frame, visible, cur, want, drawn, meshVars, poolVars, queueVars,
                 workerVars>>

PrepareFrame == ReadState \/ CompareExchange \/ Emit \/ TouchVert \/ TouchIdx
                  \/ NothingToQueue \/ QueueLoads

-----------------------------------------------------------------------------
(* A worker.                                                               *)

WorkerUnchanged == UNCHANGED <<mainVars, meshVars, poolVars, wmesh>>

CheckStop(w) ==
  /\ wpc[w] = "loop"
  /\ wpc' = [wpc EXCEPT ![w] = IF stop THEN "exited" ELSE "lock"]
  /\ UNCHANGED queueVars /\ WorkerUnchanged

\* Mutant: the predicate looks at the queue only.
PredicateFalseBlind(w) ==
  /\ wpc[w] = "lock" /\ queueMutex = None
  /\ loadQueue = <<>>
  /\ queueMutex' = w
  /\ wpc' = [wpc EXCEPT ![w] = "block"]
  /\ UNCHANGED <<loadQueue, stop>> /\ WorkerUnchanged

\* The predicate is false: wait() blocks, which gives the mutex up atomically;
\* what happened since the predicate was read is not looked at again.
PredicateFalse(w) ==
  /\ wpc[w] = "lock" /\ queueMutex = None
  /\ ~stop /\ loadQueue = <<>>
  /\ queueMutex' = w
  /\ wpc' = [wpc EXCEPT ![w] = "block"]
  /\ UNCHANGED <<loadQueue, stop>> /\ WorkerUnchanged

Block(w) ==
  /\ wpc[w] = "block"
  /\ queueMutex' = None
  /\ wpc' = [wpc EXCEPT ![w] = "asleep"]
  /\ UNCHANGED <<loadQueue, stop>> /\ WorkerUnchanged

WakesSpuriously(w) ==
  /\ wpc[w] = "asleep"
  /\ wpc' = [wpc EXCEPT ![w] = "lock"]
  /\ UNCHANGED queueVars /\ WorkerUnchanged

Exits(w) ==
  /\ wpc[w] = "lock" /\ queueMutex = None
  /\ stop
  /\ wpc' = [wpc EXCEPT ![w] = "exited"]
  /\ UNCHANGED queueVars /\ WorkerUnchanged

Pops(w) ==
  /\ wpc[w] = "lock" /\ queueMutex = None
  /\ ~stop /\ loadQueue # <<>>
  /\ wmesh' = [wmesh EXCEPT ![w] = Head(loadQueue)]
  /\ loadQueue' = Tail(loadQueue)
  /\ wpc' = [wpc EXCEPT ![w] = "ensure"]
  /\ UNCHANGED <<mainVars, meshVars, poolVars, queueMutex, stop>>

\* The lowest cell of a set, if any.
FirstFit(S) == {c \in S : \A d \in S : c[1] < d[1] \/ (c[1] = d[1] /\ c[2] <= d[2])}
FirstChunk(S) == {c \in S : \A d \in S : c[1] <= d[1]}

FreeIn(cells) == {c \in cells : owner[c] = None}
\* Mutant: the cutoff does not spare the current frame.
EvictableAll(cells) == {c \in cells : owner[c] # None}
Evictable(cells) == {c \in cells : owner[c] # None /\ frame = 1 /\ ~touched[c]}

\* When no chunk has room, the first chunk that can evict evicts.
Victims(cells) == IF FreeIn(cells) # {} THEN {} ELSE FirstChunk(Evictable(cells))
Offer(cells) == FirstFit(FreeIn(cells) \cup Victims(cells))

\* The cells taken and those evicted change hands; the records in lost are
\* NotResident, and those in reset have no slots.
Change(cells, evicted, m, lost, reset) ==
  LET Slot(slotOf, pool) ==
        [k \in Mesh |-> IF k = m /\ cells # {}
                        THEN CHOOSE c \in cells : c \in pool
                        ELSE IF k \in reset THEN None ELSE slotOf[k]]
  IN  /\ owner' = [c \in Cell |-> IF c \in cells THEN m
                                  ELSE IF c \in evicted THEN None ELSE owner[c]]
      /\ touched' = [c \in Cell |-> touched[c] /\ c \notin cells \cup evicted]
      /\ state' = [k \in Mesh |-> IF k \in lost THEN "NotResident" ELSE state[k]]
      /\ vertSlot' = Slot(vertSlot, VertCells)
      /\ idxSlot' = Slot(idxSlot, IdxCells)

OwnersOf(cells) == {owner[c] : c \in cells}

\* Mutant: an evicted mesh keeps its slot ids.
ReassignKeepingIds(cells, evicted, m) == Change(cells, evicted, m, OwnersOf(evicted), {})

Reassign(cells, evicted, m) ==
  Change(cells, evicted, m, OwnersOf(evicted), OwnersOf(evicted))

\* ensurePoolSlots: a slot in each pool ...
EnsureSlots(w) ==
  /\ wpc[w] = "ensure"
  /\ \E v \in Offer(VertCells), i \in Offer(IdxCells) :
       /\ Reassign({v, i}, Victims(VertCells) \cup Victims(IdxCells), wmesh[w])
       /\ offset' = [offset EXCEPT ![wmesh[w]] = <<v, i>>]
  /\ wpc' = [wpc EXCEPT ![w] = "decode"]
  /\ UNCHANGED <<mainVars, queueVars, wmesh>>

\* ... or none: what was taken is given back, what was evicted is gone.
EnsureFails(w) ==
  /\ wpc[w] = "ensure"
  /\ Offer(VertCells) = {} \/ Offer(IdxCells) = {}
  /\ Reassign({}, Victims(VertCells) \cup Victims(IdxCells), wmesh[w])
  /\ wpc' = [wpc EXCEPT ![w] = "revert"]
  /\ UNCHANGED <<mainVars, offset, queueVars, wmesh>>

\* A buffer view does not decode: free whatever slots the record names now.
DecodeFails(w) ==
  /\ MayFail
  /\ wpc[w] = "decode"
  /\ LET m == wmesh[w]
         freed == {vertSlot[m], idxSlot[m]}
     IN  /\ owner' = [c \in Cell |-> IF c \in freed THEN None ELSE owner[c]]
         /\ touched' = [c \in Cell |-> touched[c] /\ c \notin freed]
         /\ vertSlot' = [vertSlot EXCEPT ![m] = None]
         /\ idxSlot' = [idxSlot EXCEPT ![m] = None]
  /\ wpc' = [wpc EXCEPT ![w] = "revert"]
  /\ UNCHANGED <<mainVars, state, offset, queueVars, wmesh>>

\* Mutant: the state goes out before the bytes are in.
LocateEarly(w) ==
  /\ wpc[w] = "decode"
  /\ wpc' = [wpc EXCEPT ![w] = "copy"]
  /\ state' = [state EXCEPT ![wmesh[w]] = "Resident"]
  /\ UNCHANGED <<mainVars, vertSlot, idxSlot, offset, poolVars, queueVars, wmesh>>

\* Decoded, the bytes go where the record's slot ids point when they are read
\* here; an id reset meanwhile indexes slots_[-1].
Locate(w) ==
  /\ wpc[w] = "decode"
  /\ wpc' = [wpc EXCEPT ![w] = "copy"]
  /\ UNCHANGED <<mainVars, meshVars, poolVars, queueVars, wmesh>>

\* The last byte is in; the state goes out with release order.
Publish(w) ==
  /\ wpc[w] = "copy"
  /\ state' = [state EXCEPT ![wmesh[w]] = "Resident"]
  /\ wpc' = [wpc EXCEPT ![w] = "loop"]
  /\ wmesh' = [wmesh EXCEPT ![w] = None]
  /\ UNCHANGED <<mainVars, vertSlot, idxSlot, offset, poolVars, queueVars>>

Revert(w) ==
  /\ wpc[w] = "revert"
  /\ state' = [state EXCEPT ![wmesh[w]] = "NotResident"]
  /\ wpc' = [wpc EXCEPT ![w] = "loop"]
  /\ wmesh' = [wmesh EXCEPT ![w] = None]
  /\ UNCHANGED <<mainVars, vertSlot, idxSlot, offset, poolVars, queueVars>>

Wait(w) == PredicateFalse(w) \/ Exits(w) \/ Pops(w)

WorkerRuns(w) ==
  \/ CheckStop(w) \/ Block(w)
  \/ EnsureSlots(w) \/ EnsureFails(w) \/ DecodeFails(w) \/ Locate(w)
  \/ Publish(w) \/ Revert(w)

Next ==
  \/ BeginFrame \/ PrepareFrame
  \/ DestructorStops \/ DestructorNotifies \/ DestructorJoins
  \/ \E w \in Worker : WorkerRuns(w) \/ Wait(w) \/ WakesSpuriously(w)

\* Threads keep running and nobody is shut out of queueMutex_ for ever; the
\* application draws frame after frame until it tears the manager down.
Fairness ==
  /\ WF_vars(BeginFrame) /\ SF_vars(PrepareFrame)
  /\ WF_vars(DestructorNotifies) /\ WF_vars(DestructorJoins)
  /\ \A w \in Worker : WF_vars(WorkerRuns(w)) /\ SF_vars(Wait(w))

Spec == Init /\ [][Next]_vars /\ Fairness

-----------------------------------------------------------------------------
(* Properties.                                                             *)

InHand(w) == wpc[w] \in {"ensure", "decode", "copy", "revert"}

TypeOK ==
  /\ mpc \in {"idle", "scan", "claim", "emit", "touchVert", "touchIdx",
              "notifyStop", "join", "destroyed"}
  /\ frame \in {-1, 0, 1} /\ visible \subseteq Mesh /\ cur \in 1..(NumMeshes + 1)
  /\ want \in Seq(Mesh)
  /\ drawn \subseteq Mesh \X ((Cell \cup {None}) \X (Cell \cup {None}))
  /\ state \in [Mesh -> {"NotResident", "Loading", "Resident"}]
  /\ vertSlot \in [Mesh -> VertCells \cup {None}]
  /\ idxSlot \in [Mesh -> IdxCells \cup {None}]
  /\ offset \in [Mesh -> (Cell \cup {None}) \X (Cell \cup {None})]
  /\ owner \in [Cell -> Mesh \cup {None}]
  /\ touched \in [Cell -> BOOLEAN]
  /\ loadQueue \in Seq(Mesh) /\ queueMutex \in Worker \cup {None} /\ stop \in BOOLEAN
  /\ wpc \in [Worker -> {"loop", "lock", "block", "asleep", "ensure", "decode",
                         "copy", "revert", "exited"}]
  /\ wmesh \in [Worker -> Mesh \cup {None}]
  /\ \A w \in Worker : InHand(w) => wmesh[w] \in Mesh

\* Nothing is Loading for ever because everybody has forgotten it: a mesh that
\* is Loading is wanted, queued or in a worker's hands, through budget cuts,
\* failures and evictions (MeshRegistry.cpp:593-602, :668-671, :711-715).
NoLostLoad ==
  \A m \in Mesh : state[m] = "Loading" =>
    \/ \E i \in 1..Len(want) : want[i] = m
    \/ \E i \in 1..Len(loadQueue) : loadQueue[i] = m
    \/ \E w \in Worker : InHand(w) /\ wmesh[w] = m

\* A record never names a slot another mesh owns, whatever evictions and
\* failures happen while it loads: else the next free() or touch() of the one
\* would hit the other (MeshRegistry.cpp:442-447, :844-846).
SlotOwned ==
  \A m \in Mesh : /\ vertSlot[m] # None => owner[vertSlot[m]] = m
                  /\ idxSlot[m] # None => owner[idxSlot[m]] = m

\* "Don't evict slots touched this frame" (MeshRegistry.cpp:432-433).
TouchedKept ==
  [][\A c \in Cell : (touched[c] /\ owner'[c] # owner[c])
       => \E w \in Worker : wpc[w] = "decode" /\ wpc'[w] = "revert"]_vars

\* A load that was started ends, one way or the other: a queued mesh finds a
\* worker awake, whenever notify_all comes (MeshRegistry.cpp:673, :695-706).
LoadEnds == \A m \in Mesh : state[m] = "Loading" ~> (state[m] # "Loading" \/ stop)

Places(m) ==
  Cardinality({i \in 1..Len(want) : want[i] = m})
    + Cardinality({i \in 1..Len(loadQueue) : loadQueue[i] = m})
    + Cardinality({w \in Worker : InHand(w) /\ wpc[w] # "revert" /\ wmesh[w] = m})

\* While the pools have room, a mesh is being loaded at most once, and exactly
\* when it is Loading: frames never queue it twice (MeshRegistry.cpp:592).
EachLoadOnce ==
  \A m \in Mesh : /\ Places(m) <= 1
                  /\ Places(m) = 1 => state[m] = "Loading"

\* While the pools have room, whatever a frame draws is in the slots it is
\* drawn from, complete, until the frame is over (MeshRegistry.cpp:604-656).
DrawnComplete ==
  \A d \in drawn : \A c \in {d[2][1], d[2][2]} :
    /\ c \in Cell /\ owner[c] = d[1]
    /\ \A w \in Worker : ~ (InHand(w) /\ wmesh[w] = d[1])

\* While the pools have room and loads succeed, a mesh that keeps being seen is
\* resident at last, whatever the budget (MeshRegistry.cpp:660-674).
SeenIsResident ==
  \A m \in Mesh : ([]<>(m \in visible) /\ []~stop) => <>[](state[m] = "Resident")

\* "Current pool slot extents - only valid when state == Resident"
\* (MeshRegistry.h:82): a Resident mesh has its two slots.
ResidentHasSlots ==
  \A m \in Mesh : state[m] = "Resident" => vertSlot[m] # None /\ idxSlot[m] # None

\* "Tear down the manager" (ui/InteractiveApp.cpp:413): the destructor returns,
\* provided that no worker has gone to sleep through its notification or is about
\* to, as one may that looked at the flag before it was stored (README).
TeardownReturns ==
  (mpc = "join" /\ \A w \in Worker : wpc[w] \notin {"block", "asleep"}) ~> mpc = "destroyed"
=============================================================================
