---------------------------- MODULE SceneLayout ----------------------------
(***************************************************************************)
(* What the loaders compute without threads: the primitives of a glTF file *)
(* and their instances (src/src/GLBLoader.cpp), the generated meshes and   *)
(* the replication of a scene (Mesh.cpp), the split of its indices into    *)
(* buffers and the prefix table (MetalRastRenderer.cpp); and what the      *)
(* kernels read there (src/shaders/MetalRast.metal).  A stream of 32-bit   *)
(* words is the set of its bits that are 1, and a word has WordBits bits.  *)
(***************************************************************************)
EXTENDS Integers, Sequences, FiniteSets, SequencesExt

CONSTANTS
  Scenes,       \* per scene of the file the sequence of its root nodes
  Children,     \* the children of every node
  MeshOf,       \* its mesh, 0 for none
  Primitives,   \* the primitives of all meshes in mesh order: mesh, type, verts,
                \* the view of each accessor it has (pos, idx, uv), the index
                \* values read from idx, and the range <<min, max>> it declares
  WordBits,     \* 32
  PfxBuckets,   \* kPfxBucketCount
  MaxIndexBuffers  \* kMaxIndexBuffers

ASSUME LayoutAssumption ==
  /\ WordBits \in Nat \ {0} /\ PfxBuckets \in Nat \ {0} /\ MaxIndexBuffers \in Nat \ {0}
  /\ DOMAIN Children = DOMAIN MeshOf

CeilDiv(n, d) == (n + d - 1) \div d
Pow2[n \in Nat] == IF n = 0 THEN 1 ELSE 2 * Pow2[n - 1]
\* f[1] + ... + f[n].
Sum(f, n) == LET s[k \in 0..n] == IF k = 0 THEN 0 ELSE s[k - 1] + f[k] IN s[n]

\* walk_node from every root of every scene: the nodes as they are visited.
Subtree[n \in DOMAIN Children] ==
  <<n>> \o FlattenSeq([k \in DOMAIN Children[n] |-> Subtree[Children[n][k]]])
Visited ==
  FlattenSeq([s \in DOMAIN Scenes |->
    FlattenSeq([k \in DOMAIN Scenes[s] |-> Subtree[Scenes[s][k]]])])

\* The elements at the given positions, pushed back one after the other.
Pushed(s, positions) ==
  FlattenSeq([k \in DOMAIN s |-> IF k \in positions THEN <<s[k]>> ELSE <<>>])

\* The instances of a mesh; a visit of a node stands for its world matrix.
Transforms(m) ==
  Pushed([v \in DOMAIN Visited |-> v], {v \in DOMAIN Visited : MeshOf[Visited[v]] = m})

\* Pass 1: the primitives drawn, one draw call each.
Drawable(p) ==
  p.type = "triangles" /\ {"pos", "idx"} \subseteq DOMAIN p /\ Transforms(p.mesh) # <<>>
Plans == Pushed(Primitives, {k \in DOMAIN Primitives : Drawable(Primitives[k])})

\* The bits of an index in lo .. hi, stored less lo: ceil(log2(hi - lo + 1)).
BitsFor(range) ==
  CHOOSE b \in 0..WordBits : Pow2[b] >= range /\ \A c \in 0..(b - 1) : Pow2[c] < range

IndexRange(p) ==
  IF p.range # <<>> THEN p.range       \* the accessor's min and max
  ELSE LET s == {p.index[k] : k \in DOMAIN p.index} IN
       IF s = {} THEN <<0, 0>>
       ELSE <<CHOOSE x \in s : \A y \in s : x <= y, CHOOSE x \in s : \A y \in s : x >= y>>

Triangles(p) == Len(p.index) \div 3

\* Generated meshes: two triangles (a, c, b), (b, c, d) per cell of a grid.
Grid(rows, cols) ==
  LET at(i, j) == i * (cols + 1) + j
      cell(i, j) == <<at(i, j), at(i + 1, j), at(i, j + 1),
                      at(i, j + 1), at(i + 1, j), at(i + 1, j + 1)>> IN
  [verts |-> (rows + 1) * (cols + 1),
   index |-> FlattenSeq([c \in 1..(rows * cols) |->
               cell((c - 1) \div cols, (c - 1) % cols)])]
MakeUVSphere(nLat, nLon) == Grid(nLat, nLon)
MakeGroundPlane(subdiv) == IF subdiv < 1 THEN Grid(1, 1) ELSE Grid(subdiv, subdiv)

\* makeZorahLikeScene: the instances of each base mesh, as long as any are left.
ZorahShare(target, bases) ==
  LET per == CeilDiv(target, bases)
      upTo(b) == IF b * per < target THEN b * per ELSE target IN
  SelectSeq([b \in 1..bases |-> upTo(b) - upTo(b - 1)], LAMBDA n : n > 0)

-----------------------------------------------------------------------------
(* Bits.                                                                   *)

BitsOf(value, count) == {b \in 0..(count - 1) : (value \div Pow2[b]) % 2 = 1}
ReadBits(stream, pos, count) ==
  Sum([b \in 1..count |-> IF pos + b - 1 \in stream THEN Pow2[b - 1] ELSE 0], count)

\* pack_indices_block, bitstreamWriteU32: index k at pos + k * bits, less min.
PackedBits(index, pos, bits, min) ==
  UNION {{pos + (k - 1) * bits + b : b \in BitsOf((index[k] - min) % Pow2[bits], bits)} :
           k \in DOMAIN index}
\* copy_indices_raw_block.
RawBits(index, at) ==
  UNION {{(at + k - 1) * WordBits + b : b \in BitsOf(index[k], WordBits)} : k \in DOMAIN index}

WordsOf(from, to) == (from * WordBits)..(to * WordBits - 1)

-----------------------------------------------------------------------------
(* Draw calls.                                                             *)

InstancedTriangles(dcs) ==
  Sum([i \in DOMAIN dcs |-> dcs[i].triangles * dcs[i].instances], Len(dcs))

\* replicateScene: the draw calls again per copy, each with instances of its own.
Replicate(scene, copies) ==
  LET n == Len(scene.dcs)
      of(k) == scene.dcs[((k - 1) % n) + 1]
      before(k) == [j \in 1..(k - 1) |-> of(j)] IN
  IF copies <= 1 THEN scene ELSE
  [dcs |-> [k \in 1..(copies * n) |->
     [of(k) EXCEPT !.start = InstancedTriangles(before(k)),
                   !.firstInstance = Sum([j \in 1..(k - 1) |-> of(j).instances], k - 1)]],
   matrices |-> FlattenSeq([k \in 1..(copies * n) |->
     [s \in 1..of(k).instances |->
        [scene.matrices[of(k).firstInstance + s] EXCEPT !.copy = (k - 1) \div n]]])]

\* Where the indices of a draw call end, and the word that takes.
Unit(packed) == IF packed THEN WordBits ELSE 1
EndAt(dc, packed) == dc.indexOffset + 3 * dc.triangles * (IF packed THEN dc.bits ELSE 1)
EndWord(dc, packed) == CeilDiv(EndAt(dc, packed), Unit(packed))

\* uploadScene splits the index words into buffers of at most cap words, between
\* draw calls, in the order of their offsets (bits when packed).  The slack word
\* after a chunk is counted for packed indices only.
Place(split, i, packed, cap) ==
  LET slack == IF packed THEN 1 ELSE 0
      dc == split.dcs[i]
      end == EndWord(dc, packed)
      open == split.chunks[Len(split.chunks)]
      full == end - open.from + slack > cap
      from == IF full THEN dc.indexOffset \div Unit(packed) ELSE open.from
      last == Len(split.chunks) + IF full THEN 1 ELSE 0 IN
  [chunks |-> SubSeq(split.chunks, 1, last - 1) \o <<[from |-> from, to |-> end]>>,
   dcs |-> [split.dcs EXCEPT ![i].chunk = last, ![i].indexOffset = @ - from * Unit(packed)],
   left |-> split.left \ {i}]
\* Mutant: no slack word behind a chunk.
ChunkWordsTight(chunk) == chunk.to - chunk.from
ChunkWords(chunk) == chunk.to - chunk.from + 1

-----------------------------------------------------------------------------
(* What the kernels read.  Draw calls are counted from 0 there.            *)

\* find_draw_call's bisection: the last draw call that starts at t or before.
Bisect(dcs, t, first, last) ==
  LET f[r \in (0..Len(dcs)) \X (0..Len(dcs))] ==     \* between r[1] and r[2]
        IF r[1] + 1 >= r[2] THEN r[1]
        ELSE LET mid == (r[1] + r[2]) \div 2 IN
             IF dcs[mid + 1].start <= t THEN f[<<mid, r[2]>>] ELSE f[<<r[1], mid>>]
  IN f[<<first, last>>]
FindDrawCall(dcs, t) == Bisect(dcs, t, 0, Len(dcs))

\* rebuildPrefixBuckets: bucket b has the first draw call that starts past it.
PfxShift(dcs) ==
  LET total == InstancedTriangles(dcs) IN
  CHOOSE s \in 0..total : /\ total \div Pow2[s] < PfxBuckets
                          /\ \A r \in 0..(s - 1) : total \div Pow2[r] >= PfxBuckets
PfxBucket(dcs, b) == Cardinality({i \in DOMAIN dcs : dcs[i].start <= b * Pow2[PfxShift(dcs)]})

FindDrawCallPfx(dcs, t) ==
  LET b == IF t \div Pow2[PfxShift(dcs)] < PfxBuckets THEN t \div Pow2[PfxShift(dcs)] ELSE PfxBuckets - 1
      lo == IF PfxBucket(dcs, b) > 0 THEN PfxBucket(dcs, b) - 1 ELSE 0
      hi == PfxBucket(dcs, b + 1) IN
  IF hi <= lo + 1 THEN lo ELSE Bisect(dcs, t, lo, hi)

\* load_index: the k-th index of a draw call, k from 0.
LoadIndex(stream, dc, k) ==
  IF dc.bits = 0 THEN ReadBits(stream, (dc.indexOffset + k) * WordBits, WordBits)
  ELSE ReadBits(stream, dc.indexOffset + k * dc.bits, dc.bits) + dc.indexMin

\* The last word it reads: readU32_chunk always takes two.
LastWord(dc, k) ==
  IF dc.bits = 0 THEN dc.indexOffset + k
  ELSE (dc.indexOffset + k * dc.bits) \div WordBits + 1
=============================================================================
