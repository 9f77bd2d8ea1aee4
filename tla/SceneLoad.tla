----------------------------- MODULE SceneLoad -----------------------------
(***************************************************************************)
(* From a file or a generator to the buffers that are drawn: loadGLB       *)
(* (src/src/GLBLoader.cpp) with its parallel passes, the scene helpers     *)
(* (Mesh.cpp) and the geometry part of uploadScene (MetalRastRenderer.cpp); *)
(* or loadGLBToRegistry and registerProceduralMesh (MeshRegistry.cpp), whose *)
(* meshes Residency pages in.                                              *)
(* Every use of a buffer view is counted before the first task starts;     *)
(* pass 2a scans the index range of every primitive, pass 2b reserves its  *)
(* output, pass 3 fills it, and whoever takes a view's count to zero frees *)
(* the decoded block.  Tasks are taken in order, as ThreadPool does;       *)
(* pool.wait() is in EndPass.                                              *)
(***************************************************************************)
EXTENDS BufferViews, SceneLayout

CONSTANTS
  MaxIndices,   \* the cap of pass 1.5, 0 for none
  VertexWords,  \* sizeof(PackedVertex) in words
  Options       \* the calls: what is loaded, and how

ASSUME OptionsAssumption ==
  \A o \in Options :
    /\ o.packed \in BOOLEAN          \* bitPackIndices
    /\ o.registry \in BOOLEAN        \* for a ResidencyManager
    /\ o.direct \in BOOLEAN          \* with a device: straight into its buffers
    /\ o.cap \in Nat \ {0}           \* maxBufferLength, in words
    /\ o.copies \in Nat \ {0}        \* --repeat, for a file loaded into memory
    /\ o.copies > 1 \/ o.direct => ~o.registry /\ o.generated = <<>>
    /\ o.generated \in Seq([verts : 0..(Pow2[WordBits]), index : Seq(Nat), instances : Nat])
       \* or <<>>, for loadGLB: a vertex number fits a word
ASSUME PrimitivesAssumption ==
  \A i \in DOMAIN Primitives :
    /\ \A accessor \in {"pos", "idx", "uv"} \cap DOMAIN Primitives[i] :
         Primitives[i][accessor] \in View
    /\ Primitives[i].verts \in Nat
    /\ Primitives[i].index \in Seq(0..(Pow2[WordBits] - 1))
    /\ Primitives[i].range \in {<<>>} \cup ((0..(Pow2[WordBits] - 1)) \X (0..(Pow2[WordBits] - 1)))
\* A parsed file: primitives in a row, roots that are nodes, and nodes that form
\* trees, as cgltf links them: walk_node ends on every one of them.
ASSUME FileAssumption ==
  /\ Primitives \in Seq({Primitives[i] : i \in DOMAIN Primitives})
  /\ Scenes \in Seq(Seq(DOMAIN Children))
  /\ Subtree \in [DOMAIN Children -> Seq(DOMAIN Children)]

VARIABLES
  opt,
  pass,
  next,         \* the first primitive of the pass not taken yet
  kept,         \* the plans kept by the cap
  emitted,      \* their indices
  scene,        \* draw calls and matrices
  nextVertex, nextIndex, \* the end of what is reserved; bits when packed
  vtx, uv, idx, \* the output: what a cell holds, the bits of the index words
  reg,          \* the words a thread has loaded to set bits in
  gpu           \* what uploadScene hands to the kernels

planVars == <<opt, kept, emitted, scene, nextVertex, nextIndex>>
outVars == <<vtx, uv, idx, reg>>
vars == <<viewVars, threadVars, pass, next, planVars, outVars, gpu>>

Generated == opt.generated # <<>>
Part(i) == IF Generated THEN opt.generated[i] ELSE Plans[kept[i]]
Parts == IF Generated THEN Len(opt.generated) ELSE Len(kept)
Has(i, accessor) == accessor \in DOMAIN Part(i)
DC(i) == scene.dcs[i]

\* The registry's scan counts nothing and leaves what it decodes to the end.
ScanSteps(i) ==
  IF opt.registry
  THEN IF Part(i).range # <<>> THEN <<>> ELSE <<<<"ensure", Part(i).idx>>, <<"read", Part(i).idx>>>>
  ELSE
  <<<<"ensure", Part(i).idx>>>>
    \o (IF Part(i).range = <<>> THEN <<<<"read", Part(i).idx>>>> ELSE <<>>)
    \o <<<<"drop", Part(i).idx>>>>

UvSteps(i) ==
  IF ~Has(i, "uv") THEN <<>>
  ELSE <<<<"ensure", Part(i).uv>>, <<"uvs", Part(i).uv, i>>, <<"drop", Part(i).uv>>>>

FillSteps(i) ==
  <<<<"ensure", Part(i).pos>>, <<"ensure", Part(i).idx>>, <<"positions", Part(i).pos, i>>>>
    \o UvSteps(i)
    \o <<<<"indices", Part(i).idx, i>>, <<"drop", Part(i).pos>>, <<"drop", Part(i).idx>>>>

Steps(i) == IF pass = "scan" THEN ScanSteps(i) ELSE FillSteps(i)

\* Pass 1.7: one user per primitive and accessor, and one for the scan.
Count(accessor, v) == Cardinality({i \in DOMAIN kept : Has(i, accessor) /\ Part(i)[accessor] = v})
Uses(v) == Count("pos", v) + Count("idx", v) + Count("uv", v)
             + IF opt.packed THEN Count("idx", v) ELSE 0

Init ==
  /\ InitViews
  /\ users = [v \in View |-> 0]
  /\ opt \in Options
  /\ pass = IF opt.generated = <<>> THEN "cap" ELSE IF opt.registry THEN "register" ELSE "build"
  /\ next = 1
  /\ kept = <<>> /\ emitted = 0
  /\ scene = [dcs |-> <<>>, matrices |-> <<>>]
  /\ nextVertex = 0 /\ nextIndex = 0
  /\ vtx = <<>> /\ uv = <<>> /\ idx = {}
  /\ reg = [t \in Thread |-> {}]
  /\ gpu = None

-----------------------------------------------------------------------------
(* The plan.                                                               *)

\* Pass 1.5.  Once the cap is reached no later primitive is taken.
Cap ==
  /\ pass = "cap" /\ next <= Len(Plans)
  /\ IF MaxIndices # 0 /\ emitted >= MaxIndices
     THEN UNCHANGED <<kept, emitted>>
     ELSE /\ kept' = Append(kept, next)
          /\ emitted' = emitted + Len(Plans[next].index)
  /\ next' = next + 1
  /\ UNCHANGED <<viewVars, threadVars, pass, opt, scene, nextVertex, nextIndex, outVars, gpu>>

CountUses ==
  /\ pass = "cap" /\ next > Len(Plans)
  /\ users' = IF opt.registry THEN users ELSE [v \in View |-> Uses(v)]
  /\ pass' = IF opt.packed \/ opt.registry THEN "scan" ELSE "reserve"
  /\ next' = 1
  /\ UNCHANGED <<data, heap, mutex, threadVars, planVars, outVars, gpu>>

NewDrawCall(i, bits, min, instances, first) ==
  [vertexOffset |-> nextVertex, indexOffset |-> nextIndex, bits |-> bits, indexMin |-> min,
   triangles |-> Triangles(Part(i)), start |-> InstancedTriangles(scene.dcs),
   instances |-> instances, firstInstance |-> first, chunk |-> 1]

\* Mutant: the next primitive starts in the middle of a word.
ReserveUnaligned(end) == end
\* Rounded up, so that "parallel writers never share a word".
WordAligned(end) == CeilDiv(end, WordBits) * WordBits

\* Pass 2b: a primitive's draw call and its ranges; primitives of one mesh share
\* its instances.
Reserve ==
  LET p == Part(next)
      bits == IF opt.packed THEN BitsFor(IndexRange(p)[2] - IndexRange(p)[1] + 1) ELSE 0
      siblings == {j \in DOMAIN scene.dcs : Part(j).mesh = p.mesh}
      instances == Transforms(p.mesh) IN
  /\ pass = "reserve" /\ next <= Len(kept)
  /\ scene' =
       [dcs |-> Append(scene.dcs, NewDrawCall(next, bits,
                  IF opt.packed THEN IndexRange(p)[1] ELSE 0, Len(instances),
                  IF siblings = {} THEN Len(scene.matrices)
                  ELSE DC(CHOOSE j \in siblings : TRUE).firstInstance)),
        matrices |-> IF siblings = {}
                     THEN scene.matrices \o [k \in DOMAIN instances |->
                            [copy |-> 0, of |-> <<p.mesh, instances[k]>>]]
                     ELSE scene.matrices]
  /\ nextVertex' = nextVertex + p.verts
  /\ nextIndex' = IF opt.packed THEN WordAligned(nextIndex + Len(p.index) * bits)
                                ELSE nextIndex + Len(p.index)
  /\ next' = next + 1
  /\ UNCHANGED <<viewVars, threadVars, pass, opt, kept, emitted, outVars, gpu>>

IndexWords == IF opt.packed THEN CeilDiv(nextIndex, WordBits) + 1 ELSE nextIndex

\* The output storage.  Buffers of the device may be too large or not to be had:
\* loadGLB throws.
Allocate ==
  /\ pass = "reserve" /\ next > Len(kept)
  /\ pass' \in (IF opt.direct THEN {"failed"} ELSE {})
                 \cup (IF opt.direct /\ (IndexWords > opt.cap \/ nextVertex * VertexWords > opt.cap)
                       THEN {} ELSE {"fill"})
  /\ next' = 1
  /\ vtx' = [c \in 0..(nextVertex - 1) |-> None]
  /\ uv' = IF \E i \in DOMAIN kept : Has(i, "uv") THEN vtx' ELSE <<>>
  /\ UNCHANGED <<viewVars, threadVars, planVars, idx, reg, gpu>>

-----------------------------------------------------------------------------
(* The parallel passes.                                                    *)

Take(t) ==
  /\ pass \in {"scan", "fill"}
  /\ job[t] = <<>> /\ next <= Len(kept)
  /\ Begin(t, Steps(next))
  /\ next' = next + 1
  /\ UNCHANGED <<viewVars, pass, planVars, outVars, gpu>>

I(t) == job[t][at[t]][3]
\* A primitive's vertices, written from a cell on.
Copied(cells, i, offset) ==
  LET range == offset..(offset + Part(i).verts - 1) IN
  [c \in DOMAIN cells \cup range |-> IF c \in range THEN <<i, c - offset>> ELSE cells[c]]

\* The words of the output that hold a primitive's indices.
Slice(i) ==
  LET n == Len(Part(i).index) * (IF opt.packed THEN DC(i).bits ELSE 1)
      unit == Unit(opt.packed) IN
  WordsOf(DC(i).indexOffset \div unit, CeilDiv(DC(i).indexOffset + n, unit))
IndexBits(i) ==
  IF ~opt.packed THEN RawBits(Part(i).index, DC(i).indexOffset)
  ELSE PackedBits(Part(i).index, DC(i).indexOffset, DC(i).bits, DC(i).indexMin)

CopyPositions(t) ==
  /\ Doing(t, "positions", "start")
  /\ vtx' = Copied(vtx, I(t), DC(I(t)).vertexOffset)
  /\ Advance(t)
  /\ UNCHANGED <<viewVars, uv, idx, reg>>

CopyUvs(t) ==
  /\ Doing(t, "uvs", "start")
  /\ uv' = Copied(uv, I(t), DC(I(t)).vertexOffset)
  /\ Advance(t)
  /\ UNCHANGED <<viewVars, vtx, idx, reg>>

\* A packed index is or'ed into its words: they are loaded ...
LoadWords(t) ==
  /\ Doing(t, "indices", "start")
  /\ reg' = [reg EXCEPT ![t] = IF opt.packed THEN idx \cap Slice(I(t)) ELSE {}]
  /\ Goto(t, "store")
  /\ UNCHANGED <<viewVars, vtx, uv, idx>>

\* ... and stored with its bits, whatever others stored there meanwhile.
StoreWords(t) ==
  /\ Doing(t, "indices", "store")
  /\ idx' = (idx \ Slice(I(t))) \cup reg[t] \cup IndexBits(I(t))
  /\ reg' = [reg EXCEPT ![t] = {}]
  /\ Advance(t)
  /\ UNCHANGED <<viewVars, vtx, uv>>

\* Mutant: the last user but one frees.
DropEarly(t) ==
  /\ Doing(t, "drop", "start")
  /\ users' = [users EXCEPT ![V(t)] = @ - 1]
  /\ IF users[V(t)] <= 2 THEN Goto(t, "free") ELSE Advance(t)
  /\ UNCHANGED <<data, heap, mutex>>

\* releaseBufferView: an atomic decrement ...
Drop(t) ==
  /\ Doing(t, "drop", "start")
  /\ users' = [users EXCEPT ![V(t)] = @ - 1]
  /\ IF users[V(t)] = 1 THEN Goto(t, "free") ELSE Advance(t)
  /\ UNCHANGED <<data, heap, mutex>>

\* Mutant: what was decoded is left to nobody.
FreeNothing(t) ==
  /\ Doing(t, "drop", "free")
  /\ Advance(t)
  /\ UNCHANGED viewVars

\* ... and for the last user a free() and, after it, the null pointer.
Free(t) ==
  /\ Doing(t, "drop", "free")
  /\ IF data[V(t)] # "null" /\ V(t) \in Compressed
     THEN /\ data' = [data EXCEPT ![V(t)] = "freed"]
          /\ heap' = [heap EXCEPT ![V(t)] = @ - 1]
          /\ Goto(t, "clear")
     ELSE Advance(t) /\ UNCHANGED <<data, heap>>
  /\ UNCHANGED <<users, mutex>>

Clear(t) ==
  /\ Doing(t, "drop", "clear")
  /\ data' = [data EXCEPT ![V(t)] = "null"]
  /\ Advance(t)
  /\ UNCHANGED <<heap, users, mutex>>

\* pool.wait() returns when no task is queued or running.  A file whose primitives
\* are all filtered out ends the load with an error.
EndPass ==
  /\ pass \in {"scan", "fill"}
  /\ next > Len(kept) /\ \A t \in Thread : job[t] = <<>>
  /\ pass' = IF pass = "scan" THEN IF opt.registry THEN "adopt" ELSE "reserve"
             ELSE IF kept = <<>> THEN "failed" ELSE "loaded"
  /\ next' = 1
  /\ UNCHANGED <<viewVars, threadVars, planVars, outVars, gpu>>

-----------------------------------------------------------------------------
(* The registry.                                                           *)

\* The decoded vectors go out of scope and the pointers into them are dropped.
Adopt ==
  /\ pass = "adopt"
  /\ data' = [v \in View |-> IF heap[v] = 1 THEN "null" ELSE data[v]]
  /\ heap' = [v \in View |-> 0]
  /\ pass' = "register"
  /\ UNCHANGED <<users, mutex, threadVars, next, planVars, outVars, gpu>>

\* A record per primitive or generated mesh, with instances of its own; its slots
\* are those it gets when all are paged in, a buffer each.
Register ==
  LET p == Part(next)
      range == IF Generated THEN <<0, p.verts - 1>> ELSE IndexRange(p)
      instances == IF Generated THEN [k \in 1..p.instances |-> k] ELSE Transforms(p.mesh)
      dc == NewDrawCall(next, IF opt.packed THEN BitsFor(range[2] - range[1] + 1) ELSE 0,
                        range[1], Len(instances), Len(scene.matrices)) IN
  /\ pass = "register" /\ next <= Parts
  /\ scene' = [dcs |-> Append(scene.dcs, [dc EXCEPT !.chunk = next]),
               matrices |-> scene.matrices \o [k \in DOMAIN instances |->
                 [copy |-> 0, of |-> <<IF Generated THEN next ELSE p.mesh, instances[k]>>]]]
  /\ vtx' = Copied(vtx, next, nextVertex)
  /\ nextVertex' = nextVertex + p.verts
  /\ next' = next + 1
  /\ UNCHANGED <<viewVars, threadVars, pass, opt, kept, emitted, nextIndex, uv, idx, reg, gpu>>

\* finalizeRegistration, and what loadMeshIntoPool makes of the indices in slots of
\* the size ensurePoolSlots asks for.
Finalize ==
  /\ pass = "register" /\ next > Parts
  /\ pass' = "registered"
  /\ gpu' = [dcs |-> scene.dcs,
             words |-> [i \in 1..Parts |->
               IF opt.packed THEN CeilDiv(Len(Part(i).index) * DC(i).bits, WordBits) + 1
                             ELSE Len(Part(i).index)],
             stream |-> [i \in 1..Parts |-> IndexBits(i)]]
  /\ UNCHANGED <<viewVars, threadVars, next, planVars, outVars>>

-----------------------------------------------------------------------------
(* Generated scenes, and the upload.                                       *)

\* addInstancedMeshToScene: appended at once, packed indices with a slack word.
AddMesh ==
  LET p == Part(next)
      bits == IF opt.packed THEN BitsFor(p.verts) ELSE 0 IN
  /\ pass = "build" /\ next <= Len(opt.generated)
  /\ p.instances > 0 /\ p.verts > 0
  /\ LET dc == NewDrawCall(next, bits, 0, p.instances, Len(scene.matrices)) IN
     /\ scene' = [dcs |-> Append(scene.dcs, dc),
                  matrices |-> scene.matrices \o [k \in 1..p.instances |->
                                 [copy |-> 0, of |-> <<next, k>>]]]
     /\ idx' = idx \cup IF opt.packed THEN PackedBits(p.index, nextIndex, bits, 0)
                                       ELSE RawBits(p.index, nextIndex)
  /\ nextIndex' = IF ~opt.packed THEN nextIndex + Len(p.index)
                  ELSE IF bits = 0 THEN nextIndex
                  ELSE nextIndex + (CeilDiv(Len(p.index) * bits, WordBits) + 1) * WordBits
  /\ vtx' = Copied(vtx, next, nextVertex)
  /\ nextVertex' = nextVertex + p.verts
  /\ next' = next + 1
  /\ pass' = IF next = Len(opt.generated) THEN "loaded" ELSE pass
  /\ UNCHANGED <<viewVars, threadVars, opt, kept, emitted, uv, reg, gpu>>

\* --repeat, and the start of uploadScene.
Repeat ==
  LET whole == Replicate(scene, opt.copies) IN
  /\ pass = "loaded"
  /\ scene' = whole
  /\ gpu' = [dcs |-> whole.dcs, left |-> IF opt.direct THEN {} ELSE DOMAIN whole.dcs,
             chunks |-> <<[from |-> 0, to |-> IF opt.direct THEN IndexWords - 1 ELSE 0]>>]
  /\ pass' = "split" /\ next' = 1
  /\ UNCHANGED <<viewVars, threadVars, opt, kept, emitted, nextVertex, nextIndex, outVars>>

\* std::sort: draw calls of equal offsets come in any order.
Split ==
  /\ pass = "split"
  /\ \E i \in gpu.left :
       /\ \A j \in gpu.left : DC(i).indexOffset <= DC(j).indexOffset
       /\ gpu' = Place(gpu, i, opt.packed, opt.cap)
  /\ UNCHANGED <<viewVars, threadVars, pass, next, planVars, outVars>>

\* Buffers the device does not grant, or more of them than there are slots, end in
\* an exception.  The word behind the last chunk comes from the source, those
\* behind the others are zero.
Upload ==
  LET words == [c \in DOMAIN gpu.chunks |-> ChunkWords(gpu.chunks[c])]
      copied(c) == WordsOf(gpu.chunks[c].from,
                           gpu.chunks[c].to + IF c = Len(gpu.chunks) THEN 1 ELSE 0) IN
  /\ pass = "split" /\ gpu.left = {}
  /\ IF \/ opt.direct
        \/ /\ nextVertex * VertexWords <= opt.cap
           /\ Len(words) <= MaxIndexBuffers
           /\ \A c \in DOMAIN words : words[c] <= opt.cap
     THEN /\ pass' = "uploaded"
          /\ gpu' = [dcs |-> gpu.dcs, words |-> words,
                     stream |-> [c \in DOMAIN gpu.chunks |->
                       {x - gpu.chunks[c].from * WordBits : x \in idx \cap copied(c)}]]
     ELSE pass' = "failed" /\ UNCHANGED gpu
  /\ UNCHANGED <<viewVars, threadVars, next, planVars, outVars>>

Task(t) ==
  \/ (Check(t) \/ Lock(t) \/ Decode(t) \/ Read(t) \/ Drop(t) \/ Free(t) \/ Clear(t) \/ Return(t))
       /\ UNCHANGED outVars
  \/ CopyPositions(t) \/ CopyUvs(t) \/ LoadWords(t) \/ StoreWords(t)

Work(t) == Take(t) \/ (Task(t) /\ UNCHANGED <<pass, next, planVars, gpu>>)

Main == \/ Cap \/ CountUses \/ Reserve \/ Allocate \/ EndPass
        \/ Adopt \/ Register \/ Finalize \/ AddMesh \/ Repeat \/ Split \/ Upload

Next == Main \/ \E t \in Thread : Work(t)

\* A view's mutex is never kept from a thread for ever: at most one decode by
\* each thread happens under it.
Fairness == WF_vars(Main) /\ \A t \in Thread : WF_vars(Work(t))

Spec == Init /\ [][Next]_vars /\ Fairness

-----------------------------------------------------------------------------
(* Properties.                                                             *)

\* Whoever reads a view reads decoded bytes for as long as it reads: no other
\* task gives the block back meanwhile (GLBLoader.cpp:700-709, :961-1014).
ReadsDecoded ==
  \A t \in Thread, v \in Compressed \ Broken : Reading(t, v) => data[v] = "decoded"

\* The load comes to an end, and one that is not given up has freed each decoded
\* block (GLBLoader.cpp:681-687).
Freed == \A v \in View : data[v] = "null" /\ heap[v] = 0
EndsFreed == <>(pass = "failed" \/ (pass \in {"uploaded", "registered"} /\ Freed))

\* A view is decoded once, read while it is, and gone after its last use (in
\* loadGLB: the registry's workers decode again).  One without a use stays absent.
Counted == pass # "cap" /\ ~Generated
Stage == [v \in View |-> IF opt.registry \/ v \notin Compressed \ Broken THEN "raw"
                         ELSE IF data[v] = "decoded" /\ heap[v] = 1 THEN "decoded"
                         ELSE IF Counted /\ users[v] = 0 /\ Uses(v) # 0 THEN "gone"
                         ELSE "absent"]
Readers == [v \in View |-> {t \in Thread : Reading(t, v)}]
Once == INSTANCE DecodeOnce WITH Reader <- Thread, stage <- Stage, readers <- Readers
DecodedOnce == Once!Spec

\* Draw calls whose bytes decode, and whose indices are not packed in no bits at
\* all: of those the kernels read words that nobody wrote (README).
Sound(i) == /\ \A accessor \in {"pos", "idx", "uv"} : Has(i, accessor) => Part(i)[accessor] \notin Broken
            /\ opt.packed => DC(i).bits > 0
PartOf(d) == ((d - 1) % Parts) + 1

\* Whose indices name vertices there are, and lie in the range their accessor declares.
Valid(i) ==
  \A k \in DOMAIN Part(i).index :
    /\ Part(i).index[k] < Part(i).verts
    /\ opt.packed /\ ~Generated => Part(i).index[k] \in IndexRange(Part(i))[1]..IndexRange(Part(i))[2]

\* Draw calls that begin together end together: not so when one of them takes no
\* bits.  A split that places such a one last cuts their chunk short (README).
Alike(dcs, packed) ==
  \A d, e \in DOMAIN dcs : dcs[d].indexOffset = dcs[e].indexOffset
                             => EndAt(dcs[d], packed) = EndAt(dcs[e], packed)
Ready ==
  /\ pass \in {"uploaded", "registered"}
  /\ opt.direct \/ opt.registry \/ Alike(scene.dcs, opt.packed)

Textured(i) == Has(i, "uv") /\ ~opt.registry

\* What resolve makes of a triangle's number.
Drawn(t, pfx) ==
  LET d == 1 + IF pfx THEN FindDrawCallPfx(gpu.dcs, t) ELSE FindDrawCall(gpu.dcs, t)
      dc == gpu.dcs[d]
      local == t - dc.start
      instance == IF dc.instances > 1 THEN local \div dc.triangles ELSE 0
      triangle == local - instance * dc.triangles
      vertex(k) == LoadIndex(gpu.stream[dc.chunk], dc, 3 * triangle + k) IN
  [draw |-> d, instance |-> scene.matrices[dc.firstInstance + instance + 1], triangle |-> triangle,
   vertices |-> [k \in 0..2 |-> vtx[dc.vertexOffset + vertex(k)]],
   uvs |-> IF ~Textured(PartOf(d)) THEN None
           ELSE [k \in 0..2 |-> uv[dc.vertexOffset + vertex(k)]]]

InstancesOf(i) ==
  IF Generated THEN {<<i, k>> : k \in 1..Part(i).instances}
  ELSE {<<Part(i).mesh, Transforms(Part(i).mesh)[k]>> : k \in DOMAIN Transforms(Part(i).mesh)}
Corners(i, n) == [k \in 0..2 |-> <<i, Part(i).index[3 * n + k + 1]>>]

\* The triangles drawn are those of the file: every triangle of every primitive
\* kept, once per copy and instance, with its own vertices and UVs, under either
\* search (GLBLoader.cpp:812-868, Mesh.cpp:425-440, MetalRastRenderer.cpp:653-711).
\* Primitives that are not Sound and Valid may draw anything; of a split scene this
\* is said if draw calls that begin together end together (Alike).
DrawsSource ==
  Ready =>
    LET total == 0..(InstancedTriangles(gpu.dcs) - 1)
        sound == {i \in 1..Parts : Sound(i) /\ Valid(i)}
        source == UNION {{[draw |-> c * Parts + i, instance |-> [copy |-> c, of |-> m],
                           triangle |-> n, vertices |-> Corners(i, n),
                           uvs |-> IF ~Textured(i) THEN None ELSE Corners(i, n)] :
                             c \in 0..(opt.copies - 1), m \in InstancesOf(i),
                             n \in 0..(Triangles(Part(i)) - 1)} : i \in sound}
        shown(pfx) == {t \in total : PartOf(1 + IF pfx THEN FindDrawCallPfx(gpu.dcs, t)
                                                      ELSE FindDrawCall(gpu.dcs, t)) \in sound} IN
    \A pfx \in BOOLEAN :
      /\ {Drawn(t, pfx) : t \in shown(pfx)} = source
      /\ Cardinality(shown(pfx)) = Cardinality(source)

\* No kernel reads an index word outside its buffer, the second word of a
\* packed read included, in whichever order equal offsets are sorted, if those
\* draw calls are alike: "+1 trailing
\* uint32 (4B) of slack so an unaligned packed read at the end of stream never OOBs"
\* (MetalRastRenderer.cpp:650-651, :657-745).
FetchesInBuffer ==
  Ready =>
    \A d \in DOMAIN gpu.dcs : Sound(PartOf(d)) =>
      \A k \in 0..(3 * gpu.dcs[d].triangles - 1) :
        LastWord(gpu.dcs[d], k) \in 0..(gpu.words[gpu.dcs[d].chunk] - 1)

\* Tasks that write at the same time write different words
\* (GLBLoader.cpp:825-827, :951-953).
WritersApart ==
  \A s, t \in Thread :
    s # t /\ Doing(s, "indices", "store") /\ Doing(t, "indices", "store")
      => Slice(I(s)) \cap Slice(I(t)) = {}
=============================================================================
