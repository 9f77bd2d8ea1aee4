----------------------------- MODULE Rasterizer -----------------------------
(***************************************************************************)
(* One frame after the other on the GPU: MetalRastRenderer::encodeFrame and*)
(* the kernels it dispatches.  Persistent threadgroups claim batches of    *)
(* triangles and shade them; what is too large for Stage 1 goes through    *)
(* the queues of Stages 2 and 3; fragments meet in the visibility buffer   *)
(* by atomic minimum.  With Hi-Z on, a mask of instance slots, computed    *)
(* from the depths of a frame, says what the next one (or, in two-phase    *)
(* mode, its second phase) draws.                                          *)
(*                                                                         *)
(* A view is what bindFrameView hands over: draw calls, and for each       *)
(* instance slot its box on the screen and the fragments of its triangles. *)
(* What becomes of a triangle (shaded in Stage 1, in Stage 2 or in tiles   *)
(* by Stage 3) depends on its extent and is part of the view.              *)
(***************************************************************************)
EXTENDS HiZ, Sequences

CONSTANTS
  Views,          \* the views that may be bound, a sequence
  TG,             \* threadgroups of Stage 1
  Batch,          \* STAGE1_BATCH
  Cap2, Cap3,     \* capacities of the stage queues
  Tile,           \* STAGE3_TILE
  Word, Words,    \* bits of a word of the mask; bound on its words
  Payload,        \* codes left for the triangle in a fragment, 2^36
  None

\* What bindFrameView is given: draw calls over instance slots, their triangles
\* numbered one call after the other, and for each slot a box that holds what is
\* drawn of its triangles.
IsView(v) ==
  LET last == v.dc[Len(v.dc)]
      Holds(b, z) == \A p \in DOMAIN z : b.straddles \/ (b.lo <= p /\ p <= b.hi /\ b.near <= z[p])
  IN  /\ v.dc \in Seq([tris : Nat, insts : Nat, first : Nat, cum : Nat]) /\ v.dc # <<>>
      /\ v.dc[1].cum = 0 /\ last.first + last.insts <= Word * Words
      /\ \A d \in 1..Len(v.dc) :
           LET call == v.dc[d]
           IN  /\ call.first + call.insts <= last.first + last.insts
               /\ call.cum + call.insts * call.tris <=
                    IF d = Len(v.dc) THEN Payload ELSE v.dc[d + 1].cum
               /\ \A s \in call.first..(call.first + call.insts - 1), t \in 0..(call.tris - 1) :
                    /\ DOMAIN v.tri[s][t].z \subseteq Pixel
                    /\ \A p \in DOMAIN v.tri[s][t].z : v.tri[s][t].z[p] \in 0..(Far - 1)
                    /\ Holds(v.box[s], v.tri[s][t].z)
      /\ v.box \in [0..(last.first + last.insts - 1) ->
                      [straddles : BOOLEAN, lo : Int, hi : Int, near : Int]]

\* Where a box that is tested against the pyramid is tested, the width divides
\* into whole texels.
EvenLevels ==
  \A v \in 1..Len(Views) : \A s \in DOMAIN Views[v].box :
    LET b == Views[v].box[s]
    IN  b.straddles \/ b.hi < 0 \/ b.lo > W
          \/ W % Pow2[MipFor(Smaller(b.hi, W) - Larger(b.lo, 0))] = 0

ASSUME SizesAssumption ==
  /\ Batch \in Nat \ {0} /\ Tile \in Nat \ {0} /\ Word \in Nat \ {0}
  /\ Cap2 \in Nat /\ Cap3 \in Nat /\ Words \in Nat /\ Payload \in Nat \ {0}
ASSUME ViewsAssumption == Len(Views) \in Nat /\ \A v \in 1..Len(Views) : IsView(Views[v])
ASSUME GroupsAssumption == TG # {}
ASSUME NoneAssumption == None \notin Nat

VARIABLES
  view,           \* index of the bound view
  hiZ, twoPhase, compact,   \* the toggles
  cap, mask, mask2,         \* instanceMaskCap_, the bits set in both masks
  packed,         \* slots compact_visible_instances has listed
  stage, phase,   \* what the GPU is at
  batchCounter,
  tgs,            \* each threadgroup: mesh, block, local batch, items to shade
  n2, q2, n3, q3, \* counters and items of the stage queues
  fb,             \* the visibility buffer
  image, shown,   \* last image resolved and the view it shows
  still,          \* the image before it showed the same view
  lost            \* fragments a full queue has dropped in this frame

hostVars == <<view, hiZ, twoPhase, compact>>
maskVars == <<cap, mask, mask2>>
drawVars == <<batchCounter, tgs, n2, q2, n3, q3, fb, lost>>
shownVars == <<image, shown, still>>
vars == <<hostVars, maskVars, packed, stage, phase, drawVars, shownVars>>

-----------------------------------------------------------------------------
(* The bound view.  An item is a triangle of an instance of a draw call.   *)

DC == Views[view].dc
NumDC == Len(DC)
NumInstances == DC[NumDC].first + DC[NumDC].insts
Slots == 0..(NumInstances - 1)
ItemsOf == [v \in 1..Len(Views) |->
  UNION {LET dc == Views[v].dc[d]
         IN  {<<d, i, t>> : i \in 0..(dc.insts - 1), t \in 0..(dc.tris - 1)} :
         d \in 1..Len(Views[v].dc)}]
Items == ItemsOf[view]
Slot(x) == DC[x[1]].first + x[2]
GlobalTri(x) == DC[x[1]].cum + x[2] * DC[x[1]].tris + x[3]
Tri(x) == Views[view].tri[Slot(x)][x[3]]
Covers(x) == DOMAIN Tri(x).z
InTile(x, k) == {p \in Covers(x) : p \div Tile = k}
Tiles(x) == {p \div Tile : p \in Covers(x)}
Box(s) == Views[view].box[s]

(* The visibility buffer: depth above, triangle below.                     *)

Encode(x, p) == Tri(x).z[p] * Payload + GlobalTri(x)
Empty == Far * Payload + Payload - 1
Depth(code) == code \div Payload
Depths == [p \in Pixel |-> Depth(fb[p])]
\* Each unit is an item and the pixels shaded of it.
Draw(units) ==
  fb' = [p \in Pixel |->
           Min({fb[p]} \cup {Encode(u[1], p) : u \in {v \in units : p \in v[2]}})]
Lose(x, pixels) == lost' = lost \cup {<<x, p>> : p \in pixels}

\* find_draw_call: the last draw call that starts at or before g.
FindDrawCall(g) ==
  LET search[r \in (1..NumDC) \X (1..(NumDC + 1))] ==
        IF r[1] + 1 >= r[2] THEN r[1]
        ELSE LET mid == (r[1] + r[2]) \div 2
             IN  IF DC[mid].cum <= g THEN search[<<mid, r[2]>>] ELSE search[<<r[1], mid>>]
  IN  search[<<1, NumDC + 1>>]

Decode(code) ==
  LET g == code % Payload
      d == FindDrawCall(g)
      offset == g - DC[d].cum
  IN  <<d, offset \div DC[d].tris, offset % DC[d].tris>>

-----------------------------------------------------------------------------
(* The host, between frames.                                               *)

AllBits == 0..(Word * Words - 1)
\* The bits of the words that hold n slots.
BitsFor(n) == 0..(Word * ((n + Word - 1) \div Word) - 1)
NotStarted == [mesh |-> 1, block |-> 0, local |-> 0, todo |-> {}]

Init ==
  /\ view \in 1..Len(Views)
  /\ hiZ = FALSE /\ twoPhase = FALSE /\ compact = FALSE
  /\ cap = 0 /\ mask = AllBits /\ mask2 = {} /\ packed = {}
  /\ stage = "host" /\ phase = 1
  /\ batchCounter = 0 /\ tgs = [g \in TG |-> NotStarted]
  /\ n2 = 0 /\ q2 = {} /\ n3 = 0 /\ q3 = {}
  /\ fb = [p \in Pixel |-> Empty]
  /\ image = [p \in Pixel |-> None] /\ shown = None /\ still = FALSE
  /\ lost = {}

BindFrameView(v) ==
  /\ stage = "host" /\ view # v
  /\ view' = v
  /\ UNCHANGED <<hiZ, twoPhase, compact, maskVars, packed, stage, phase, drawVars, shownVars>>

\* Mutant: the mask stays when Hi-Z goes off.
KeepMask(on) ==
  /\ stage = "host" /\ on # hiZ
  /\ hiZ' = on
  /\ UNCHANGED <<view, twoPhase, compact, maskVars, packed, stage, phase, drawVars, shownVars>>

SetHiZOcclusion(on) ==
  /\ stage = "host" /\ on # hiZ
  /\ hiZ' = on
  /\ mask' = IF on THEN mask ELSE AllBits
  /\ UNCHANGED <<view, twoPhase, compact, cap, mask2, packed, stage, phase, drawVars, shownVars>>

SetHiZTwoPhase(on) ==
  /\ stage = "host" /\ on # twoPhase
  /\ twoPhase' = on
  /\ UNCHANGED <<view, hiZ, compact, maskVars, packed, stage, phase, drawVars, shownVars>>

SetCompactInstances(on) ==
  /\ stage = "host" /\ on # compact
  /\ compact' = on
  /\ UNCHANGED <<view, hiZ, twoPhase, maskVars, packed, stage, phase, drawVars, shownVars>>

UseTwoPhase == hiZ /\ twoPhase
UseCompacted == hiZ /\ compact /\ NumInstances > NumDC
MaskInUse == IF phase = 1 THEN mask ELSE mask2

\* ensureVisibilityMask_: larger buffers, all to be drawn in the first phase.
EnsureMask ==
  IF NumInstances > cap
  THEN cap' = NumInstances /\ mask' = AllBits /\ mask2' = {}
  ELSE UNCHANGED maskVars

\* Mutant: the batch counter goes on into the second phase.
ResetQueuesOnly ==
  /\ UNCHANGED batchCounter
  /\ n2' = 0 /\ q2' = {} /\ n3' = 0 /\ q3' = {}
  /\ tgs' = [g \in TG |-> NotStarted]
Reset ==
  /\ batchCounter' = 0
  /\ n2' = 0 /\ q2' = {} /\ n3' = 0 /\ q3' = {}
  /\ tgs' = [g \in TG |-> NotStarted]

BeginFrame ==
  /\ stage = "host"
  /\ IF UseTwoPhase THEN EnsureMask ELSE UNCHANGED maskVars
  /\ stage' = IF UseCompacted THEN "compact" ELSE "dispatch"
  /\ UNCHANGED <<hostVars, packed, phase, drawVars, shownVars>>

-----------------------------------------------------------------------------
(* The draw: compaction, then the three stages.                            *)

\* In single-phase mode this is encoded before the masks have grown: what it
\* reads past the old mask may be anything.
CompactInstances ==
  /\ stage = "compact"
  /\ \E junk \in SUBSET (Slots \ BitsFor(cap)) :
       packed' = (MaskInUse \cap Slots \cap BitsFor(cap)) \cup junk
  /\ stage' = "dispatch"
  /\ UNCHANGED <<hostVars, maskVars, phase, drawVars, shownVars>>

DispatchStage1 ==
  /\ stage = "dispatch"
  /\ EnsureMask
  /\ stage' = "stage1"
  /\ UNCHANGED <<hostVars, packed, phase, drawVars, shownVars>>

IsDrawn(s) ==
  \/ ~hiZ
  \/ UseCompacted /\ s \in packed
  \/ ~UseCompacted /\ s \in MaskInUse

Batches(m) == (DC[m].tris + Batch - 1) \div Batch
\* Batches of the draw calls before one, whose sum the groups never form.
BatchesBefore == [v \in 1..Len(Views) |->
  LET before[m \in 1..(Len(Views[v].dc) + 1)] ==
        IF m = 1 THEN 0
        ELSE before[m - 1] + (Views[v].dc[m - 1].tris + Batch - 1) \div Batch
  IN  before]
Before(m) == BatchesBefore[view][m]

\* The loop over the draw calls, to the one that local batch l falls in; past
\* the last call it breaks before it subtracts.
Walk(m, l) ==
  LET at[s \in (1..NumDC) \X Nat] ==
        IF s[2] < Batches(s[1]) THEN s
        ELSE IF s[1] = NumDC THEN <<s[1] + 1, s[2]>>
        ELSE at[<<s[1] + 1, s[2] - Batches(s[1])>>]
  IN  at[<<m, l>>]

BatchItems(m, l) ==
  IF m > NumDC THEN {}
  ELSE {x \in Items : x[1] = m /\ x[3] \div Batch = l /\ IsDrawn(Slot(x))}

HasReturned(g) == tgs[g].mesh > NumDC

\* Mutant: the claimed number is not kept for the next difference.
ClaimForgets(g) ==
  /\ stage = "stage1" /\ tgs[g].todo = {} /\ ~HasReturned(g)
  /\ LET at == Walk(tgs[g].mesh, tgs[g].local + (batchCounter - tgs[g].block))
     IN  tgs' = [tgs EXCEPT ![g] = [mesh |-> at[1], block |-> 0, local |-> at[2],
                                    todo |-> BatchItems(at[1], at[2])]]
  /\ batchCounter' = batchCounter + 1
  /\ UNCHANGED <<hostVars, maskVars, packed, stage, phase, n2, q2, n3, q3, fb, lost, shownVars>>

\* All lanes are at the barrier; lane 0 claims the next batch number and walks
\* on from the last one the group had.
Claim(g) ==
  /\ stage = "stage1" /\ tgs[g].todo = {} /\ ~HasReturned(g)
  /\ LET at == Walk(tgs[g].mesh, tgs[g].local + (batchCounter - tgs[g].block))
     IN  tgs' = [tgs EXCEPT ![g] = [mesh |-> at[1], block |-> batchCounter, local |-> at[2],
                                    todo |-> BatchItems(at[1], at[2])]]
  /\ batchCounter' = batchCounter + 1
  /\ UNCHANGED <<hostVars, maskVars, packed, stage, phase, n2, q2, n3, q3, fb, lost, shownVars>>

\* Mutant: off by one at the end of the queue.
HasRoomOrOne(n, capacity) == n <= capacity
HasRoom(n, capacity) == n < capacity

\* stage1_one: a small triangle is rasterised, another is queued, or dropped.
Shade(g, x) ==
  /\ stage = "stage1"
  /\ tgs' = [tgs EXCEPT ![g].todo = @ \ {x}]
  /\ IF Tri(x).route = "small"
     THEN Draw({<<x, Covers(x)>>}) /\ UNCHANGED <<n2, q2, lost>>
     ELSE /\ n2' = n2 + 1
          /\ IF HasRoom(n2, Cap2) THEN q2' = q2 \cup {x} /\ UNCHANGED lost
                                  ELSE Lose(x, Covers(x)) /\ UNCHANGED q2
          /\ UNCHANGED fb
  /\ UNCHANGED <<hostVars, maskVars, packed, stage, phase, batchCounter, n3, q3, shownVars>>

\* prepare_indirect: one threadgroup for each queued item.  Its work is the
\* item, or the tiles of a large one in their order.
PrepareStage2 ==
  /\ stage = "stage1" /\ \A g \in TG : HasReturned(g) /\ tgs[g].todo = {}
  /\ stage' = "stage2"
  /\ q2' = UNION {IF Tri(x).route = "medium" THEN {<<x, None>>}
                  ELSE {<<x, k>> : k \in Tiles(x)} : x \in q2}
  /\ UNCHANGED <<hostVars, maskVars, packed, phase, batchCounter, tgs, n2, n3, q3, fb, lost, shownVars>>

ShadeQueued(u) ==
  /\ stage = "stage2" /\ u \in q2
  /\ q2' = q2 \ {u}
  /\ LET x == u[1]  k == u[2]
     IN  \/ /\ k = None
            /\ Draw({<<x, Covers(x)>>}) /\ UNCHANGED <<n3, q3, lost>>
         \/ /\ k # None /\ \A v \in q2 : v[1] = x => k <= v[2]
            /\ n3' = n3 + 1
            /\ IF HasRoom(n3, Cap3) THEN q3' = q3 \cup {u} /\ UNCHANGED lost
                                    ELSE Lose(x, InTile(x, k)) /\ UNCHANGED q3
            /\ UNCHANGED fb
  /\ UNCHANGED <<hostVars, maskVars, packed, stage, phase, batchCounter, tgs, n2, shownVars>>

\* The tiles only take minima, so that their order does not matter.
Stage3 ==
  /\ stage = "stage2" /\ q2 = {}
  /\ Draw({<<u[1], InTile(u[1], u[2])>> : u \in q3})
  /\ stage' = IF UseTwoPhase THEN "cull" ELSE "resolve"
  /\ UNCHANGED <<hostVars, maskVars, packed, phase, batchCounter, tgs, n2, q2, n3, q3, lost, shownVars>>

-----------------------------------------------------------------------------
(* Culling and the end of a frame.                                         *)

NowVisible == {s \in Slots : BoxVisible(Box(s), Depths)}

\* The words of the bound slots are written whole.
CullDiff ==
  /\ stage = "cull" /\ UseTwoPhase /\ phase = 1
  /\ mask2' = (mask2 \ BitsFor(NumInstances)) \cup (NowVisible \ mask)
  /\ phase' = 2
  /\ Reset
  /\ stage' = IF UseCompacted THEN "compact" ELSE "dispatch"
  /\ UNCHANGED <<hostVars, cap, mask, packed, fb, lost, shownVars>>

CullAbsolute ==
  /\ stage = "cull" /\ (UseTwoPhase => phase = 2)
  /\ mask' = (mask \ BitsFor(NumInstances)) \cup NowVisible
  /\ stage' = IF UseTwoPhase THEN "resolve" ELSE "submitted"
  /\ UNCHANGED <<hostVars, cap, mask2, packed, phase, drawVars, shownVars>>

Resolve ==
  /\ stage = "resolve"
  /\ image' = [p \in Pixel |-> IF Depth(fb[p]) = Far THEN None ELSE Decode(fb[p])]
  /\ shown' = view /\ still' = (shown = view)
  /\ stage' = IF hiZ /\ ~twoPhase THEN "cull" ELSE "submitted"
  /\ UNCHANGED <<hostVars, maskVars, packed, phase, drawVars>>

\* waitUntilCompleted.  The reset and the clear that open the next frame, and
\* what it writes before it reads, are anticipated here: the next frame begins
\* the same way whatever is left in these buffers.
Completed ==
  /\ stage = "submitted"
  /\ Reset
  /\ fb' = [p \in Pixel |-> Empty] /\ lost' = {}
  /\ mask2' = {} /\ packed' = {} /\ phase' = 1
  /\ stage' = "host"
  /\ UNCHANGED <<hostVars, cap, mask, shownVars>>

Host ==
  \/ \E v \in 1..Len(Views) : BindFrameView(v)
  \/ \E on \in BOOLEAN : SetHiZOcclusion(on) \/ SetHiZTwoPhase(on) \/ SetCompactInstances(on)
  \/ BeginFrame
GPU ==
  \/ CompactInstances \/ DispatchStage1
  \/ \E g \in TG : Claim(g) \/ \E x \in tgs[g].todo : Shade(g, x)
  \/ PrepareStage2
  \/ \E u \in q2 : ShadeQueued(u)
  \/ Stage3 \/ CullDiff \/ CullAbsolute \/ Resolve \/ Completed

Next == Host \/ GPU
Spec == Init /\ [][Next]_vars

-----------------------------------------------------------------------------
(* Properties.                                                             *)

TypeOK ==
  /\ view \in 1..Len(Views)
  /\ hiZ \in BOOLEAN /\ twoPhase \in BOOLEAN /\ compact \in BOOLEAN
  /\ cap \in 0..(Word * Words) /\ mask \subseteq AllBits /\ mask2 \subseteq AllBits
  /\ packed \subseteq AllBits
  /\ stage \in {"host", "compact", "dispatch", "stage1", "stage2", "cull", "resolve", "submitted"}
  /\ phase \in {1, 2} /\ batchCounter \in Nat
  /\ \A g \in TG : /\ tgs[g].mesh \in 1..(NumDC + 1) /\ tgs[g].local \in Nat
                   /\ tgs[g].block \in 0..batchCounter
                   /\ \A x \in tgs[g].todo : x \in Items /\ x[1] = tgs[g].mesh
  /\ n2 \in Nat /\ (stage = "stage1" => q2 \subseteq Items /\ Cardinality(q2) <= Cap2)
  /\ n3 \in Nat /\ Cardinality(q3) <= Cap3
  /\ fb \in [Pixel -> 0..Empty]
  /\ \A e \in lost : e[1] \in Items /\ e[2] \in Covers(e[1])

\* The counter gives every batch of every draw call to one threadgroup: the
\* batch a group stands at is the one its number counts to, and no two groups
\* stand at the same one (MetalRast.metal:549-573).
ClaimsApart ==
  /\ \A g \in TG : ~HasReturned(g) =>
       Before(tgs[g].mesh) + tgs[g].local = tgs[g].block
  /\ \A g, h \in TG : g # h /\ tgs[g].todo # {} /\ tgs[h].todo # {} =>
       tgs[g].mesh # tgs[h].mesh \/ tgs[g].local # tgs[h].local

\* A pixel shows the nearest fragment of the whole view, but for those a full
\* queue has dropped.
NearestAt(p) ==
  LET there == {x \in Items : p \in Covers(x) /\ <<x, p>> \notin lost}
  IN  IF there = {} THEN image[p] = None
      ELSE image[p] \in there /\ \A x \in there : Tri(image[p]).z[p] <= Tri(x).z[p]

\* "Eliminates the 1-frame pop" (MetalRastRenderer.h:111): with two phases, as
\* without Hi-Z, every image is right whatever the mask left by earlier frames,
\* other views and toggles says.
TwoPhaseExact == stage = "submitted" /\ (~hiZ \/ twoPhase) => \A p \in Pixel : NearestAt(p)

\* In single-phase mode an image may lack what the frame before did not see,
\* but the next image of the same view is right where no fragment was dropped:
\* one that was may uncover what the mask leaves out.
StillExact ==
  stage = "submitted" /\ hiZ /\ ~twoPhase /\ still =>
    \A p \in Pixel : (\A e \in lost : e[2] # p) => NearestAt(p)

\* "never wrongly cull visible geometry" (MetalRast.metal:1293): all of a
\* culled instance lies behind what the visibility buffer holds.
NeverWronglyCulled ==
  stage = "cull" => \A x \in Items : Slot(x) \notin NowVisible =>
                      \A p \in Covers(x) : Tri(x).z[p] > Depths[p]
=============================================================================
