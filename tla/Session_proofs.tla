--------------------------- MODULE Session_proofs ---------------------------
(***************************************************************************)
(* Proofs about Session, for any files, command lines and bounds: no       *)
(* device resource is released twice, lost or drawn from after its release, *)
(* every frame is drawn from one load with camera and instances in place,  *)
(* and the viewer dies of one thing only.                                  *)
(*                                                                         *)
(* The invariant rests on who releases what.  The renderer releases its    *)
(* textures, its UVs and, unless it borrows them, its geometry ("Owns");   *)
(* the manager releases the geometry of its load and a scene that was not  *)
(* uploaded yet what the loader put into buffers.  These three are alive   *)
(* and do not overlap, since loads have different numbers.                 *)
(***************************************************************************)
EXTENDS Session, SequenceTheorems, TLAPS

Renderer ==
  [slot : [Kinds -> Resource \cup {None}], textures : Seq(Resource \cup {None}),
   resourceList : SUBSET Resource, texArgs : SUBSET Resource, residencyMode : BOOLEAN,
   compressed : BOOLEAN, counts : Nat \cup {None}, usePrefixSum : BOOLEAN,
   buckets : Nat \cup {None}, aimed : BOOLEAN, posed : BOOLEAN]
Heap == [live : SUBSET Resource, twice : SUBSET Resource]

Batch == {"smoke", "synthetic", "renderer", "warmup", "measure", "stats"}
Window == {"app", "top", "poll", "camera", "panels", "rebuild", "register", "renew", "bind"}

TypeOK ==
  /\ args \in Args
  /\ pc \in Batch \cup Window \cup {"scene", "encode", "crashed", "done"}
  /\ settings \in [compressed : BOOLEAN, prefix : BOOLEAN] /\ applied \in BOOLEAN
  /\ path \in File \cup {None}
  /\ scene \in Scene \cup {None} /\ registry \in Registry \cup {None}
  /\ r \in Renderer /\ heap \in Heap
  /\ loads \in Nat /\ events \in Nat /\ count \in Int
  /\ menu \in BOOLEAN /\ resize \in BOOLEAN /\ quit \in BOOLEAN

\* What the destructor releases.
Owns(ren) ==
  Textures(ren) \cup Owned(ren, IF ren.residencyMode THEN {"uvs"} ELSE Kinds)

\* A texture that is bound is one that is held; a slot holds nothing but its kind,
\* of one of the first n loads.
Kept(ren, n) ==
  /\ ren.resourceList = Textures(ren) /\ ren.texArgs = Textures(ren)
  /\ Textures(ren) \subseteq {"texture"} \X Nat \X Nat
  /\ \A k \in Kinds : ren.slot[k] = None \/ ren.slot[k] \in {k} \X (1..n)

\* The renderer holds nothing, ...
Bare(ren) == Textures(ren) = {} /\ \A k \in Kinds : ren.slot[k] = None
\* ... or a scene s that was uploaded, ...
KindsOf(s) == IF s.uvs THEN Kinds ELSE Geometry
ShowsScene(ren, s) ==
  /\ s # None /\ ~s.data
  /\ \A k \in Kinds : ren.slot[k] = IF k \in KindsOf(s) THEN <<k, s.load>> ELSE None
  /\ \A t \in Textures(ren) : t[2] = s.load
  /\ ren.counts = s.load /\ ren.compressed = s.compressed
\* ... or the view of a registry g.
ShowsRegistry(ren, g) ==
  /\ g # None
  /\ \A k \in Geometry : ren.slot[k] = <<k, g.load>>
  /\ ren.counts = g.load /\ ren.compressed = g.compressed

GeometryOf(g) == IF g = None THEN {} ELSE Resources(Geometry, g.load)

\* The loads of registry and scene are two of the first n.
LoadsApart(g, s, n) ==
  /\ s # None => s.load \in 1..n
  /\ g # None => g.load \in 1..n
  /\ s # None /\ g # None => s.load # g.load

\* What must be released, and by whom: a renderer, a registry and a scene.
HeapOK(ren, h, g, s, n) ==
  /\ h.twice = {}
  /\ Owns(ren) \subseteq h.live
  /\ GeometryOf(g) \subseteq h.live
  /\ Direct(s) \subseteq h.live
  /\ h.live \subseteq Owns(ren) \cup GeometryOf(g) \cup Direct(s) \cup {<<"uvs", m>> : m \in 1..n}

RendererOK(ren, s, n) ==
  /\ Kept(ren, n)
  /\ ren.residencyMode => ren.posed
  /\ ~ren.residencyMode => Bare(ren) \/ ShowsScene(ren, s)
  /\ ren.usePrefixSum => ren.buckets = ren.counts

\* Who comes when: the batch has no window, the registry is there from the start in
\* a batch that streams and never in another.
PhaseInv ==
  /\ pc \in Batch => ~args.interactive
  /\ pc \in Window => args.interactive
  /\ pc \in {"scene", "smoke", "renderer", "app"} => registry = None /\ r = NewRenderer
  /\ pc = "scene" => scene = None
  /\ pc = "renderer" /\ ~Streaming => scene # None
  /\ pc \in {"warmup", "measure"} \/ (pc = "encode" /\ ~args.interactive)
       => (registry # None <=> Streaming)
  /\ pc = "warmup" => Streaming
  /\ pc = "register" => registry = None

ShowInv ==
  /\ LoadsApart(registry, scene, loads)
  /\ HeapOK(r, heap, registry, scene, loads)
  /\ RendererOK(r, scene, loads)
  /\ r.residencyMode /\ pc \notin {"register", "renew"} => ShowsRegistry(r, registry)

\* From Aim on the camera is there, and with it the instances of a scene.
Placed == r.aimed /\ (r.slot["worldView"] # None /\ ~r.residencyMode => r.posed)
DrawInv ==
  /\ pc = "panels" => Placed
  /\ pc \in {"rebuild", "bind", "encode"} /\ ~menu => Placed
  /\ pc = "encode" /\ registry # None => r.residencyMode

Inv == TypeOK /\ PhaseInv /\ ShowInv /\ DrawInv

-----------------------------------------------------------------------------
(* What the renderer's operations do.                                      *)

\* Releasing what is alive leaves no trace but its absence.
LEMMA ReleaseAlive ==
  ASSUME NEW h \in Heap, NEW S, S \subseteq h.live
  PROVE  Release(h, S) = [live |-> h.live \ S, twice |-> h.twice] /\ Release(h, S) \in Heap
BY DEF Release, Heap

LEMMA GetAlive ==
  ASSUME NEW h \in Heap, NEW S \in SUBSET Resource
  PROVE  Get(h, S) = [live |-> h.live \cup S, twice |-> h.twice] /\ Get(h, S) \in Heap
BY DEF Get, Heap

LEMMA NewIsBare ==
  /\ NewRenderer \in Renderer
  /\ Owns(NewRenderer) = {}
  /\ \A s, n : RendererOK(NewRenderer, s, n)
  /\ Bare(NewRenderer) /\ ~NewRenderer.residencyMode
<1>1. Textures(NewRenderer) = {} /\ \A k \in Kinds : NewRenderer.slot[k] = None
  BY DEF Textures, NewRenderer
<1>2. NewRenderer \in Renderer
  BY DEF NewRenderer, Renderer
<1>3. Owns(NewRenderer) = {}
  BY <1>1 DEF Owns, Owned, NewRenderer
<1>4. \A s, n : RendererOK(NewRenderer, s, n)
  BY <1>1 DEF RendererOK, Kept, Bare, NewRenderer
<1> QED
  BY <1>1, <1>2, <1>3, <1>4 DEF Bare, NewRenderer

\* The destructor releases what the renderer owns, all of it alive.
LEMMA DestroyEffect ==
  ASSUME NEW o, o.r \in Renderer, o.h \in Heap, Owns(o.r) \subseteq o.h.live
  PROVE  /\ Destroy(o).r = NewRenderer
         /\ Destroy(o).h = [live |-> o.h.live \ Owns(o.r), twice |-> o.h.twice]
         /\ Destroy(o).h \in Heap
<1>1. Textures(o.r) \cup Owned(o.r, IF o.r.residencyMode THEN {"uvs"} ELSE DOMAIN o.r.slot)
        = Owns(o.r)
  BY DEF Owns, Renderer
<1> QED
  BY <1>1, ReleaseAlive DEF Destroy

\* What the renderer owns is no part of a registry's buffers, nor of a scene that
\* still has to be uploaded.
LEMMA OwnedApart ==
  ASSUME NEW ren \in Renderer, NEW g \in Registry \cup {None}, NEW s \in Scene \cup {None},
         NEW n \in Nat, LoadsApart(g, s, n), RendererOK(ren, s, n)
  PROVE  /\ Owns(ren) \cap GeometryOf(g) = {}
         /\ Owns(ren) \cap Direct(s) = {}
         /\ GeometryOf(g) \cap Direct(s) = {}
<1>1. ASSUME NEW x \in Owns(ren), x \in GeometryOf(g) \cup Direct(s)
      PROVE  ~ren.residencyMode /\ ShowsScene(ren, s) /\ x[2] = s.load
  <2>1. x[1] \in Geometry
    BY <1>1 DEF GeometryOf, Direct, Resources, Geometry
  <2>2. x \notin Textures(ren)
    BY <2>1 DEF RendererOK, Kept, Geometry
  <2>3. PICK k \in Kinds : x = ren.slot[k] /\ x # None /\ (ren.residencyMode => k = "uvs")
    BY <1>1, <2>2 DEF Owns, Owned, Kinds
  <2>4. k = x[1]
    BY <2>3 DEF RendererOK, Kept
  <2>5. ~ren.residencyMode
    BY <2>1, <2>3, <2>4 DEF Geometry
  <2>6. ShowsScene(ren, s)
    BY <2>3, <2>5 DEF RendererOK, Bare
  <2>7. x = <<k, s.load>>
    BY <2>3, <2>6 DEF ShowsScene
  <2> QED
    BY <2>5, <2>6, <2>7
<1>2. ShowsScene(ren, s) => Direct(s) = {}
  BY DEF ShowsScene, Direct
<1>3. \A x \in GeometryOf(g) : g # None /\ x[2] = g.load
  BY DEF GeometryOf, Resources
<1>4. \A x \in Direct(s) : s # None /\ x[2] = s.load
  BY DEF Direct, Resources
<1> QED
  BY <1>1, <1>2, <1>3, <1>4 DEF LoadsApart, ShowsScene

\* A view takes the place of the geometry: of the registry's own before, or of a
\* scene's, which is released.
LEMMA BindEffect ==
  ASSUME NEW o, o.r \in Renderer, o.h \in Heap, Owns(o.r) \subseteq o.h.live,
         o = [r |-> o.r, h |-> o.h],
         NEW g \in Registry,
         NEW b, b = BindFrameView(o, g)
  PROVE  /\ b.r \in Renderer /\ b.h \in Heap
         /\ b.h = [live |-> IF o.r.residencyMode THEN o.h.live
                            ELSE o.h.live \ Owned(o.r, Geometry), twice |-> o.h.twice]
         /\ b.r.slot = [k \in Kinds |-> IF k \in Geometry THEN <<k, g.load>> ELSE o.r.slot[k]]
         /\ b.r.textures = o.r.textures
         /\ b.r.resourceList = o.r.resourceList /\ b.r.texArgs = o.r.texArgs
         /\ b.r.residencyMode /\ b.r.posed /\ b.r.aimed = o.r.aimed
         /\ b.r.counts = g.load /\ b.r.compressed = g.compressed
         /\ b.r.usePrefixSum => b.r.buckets = b.r.counts
<1> DEFINE h == IF o.r.residencyMode THEN o.h ELSE Release(o.h, Owned(o.r, Geometry))
<1>1. h \in Heap /\ h = [live |-> IF o.r.residencyMode THEN o.h.live
                            ELSE o.h.live \ Owned(o.r, Geometry), twice |-> o.h.twice]
  <2>1. ~o.r.residencyMode => Owned(o.r, Geometry) \subseteq o.h.live
    BY DEF Owns, Owned, Kinds
  <2>2. o.h = [live |-> o.h.live, twice |-> o.h.twice]
    BY DEF Heap
  <2> QED
    BY <2>1, <2>2, ReleaseAlive
<1>2. b = BindOver([r |-> o.r, h |-> h], g)
  BY DEF BindFrameView
<1>3. b.h = h
  BY <1>2 DEF BindOver
<1>4. b.r = [o.r EXCEPT !.slot = [k \in DOMAIN @ |-> IF k \in Geometry THEN <<k, g.load>> ELSE @[k]],
                     !.residencyMode = TRUE, !.compressed = g.compressed,
                     !.counts = g.load, !.posed = TRUE,
                     !.buckets = IF o.r.usePrefixSum THEN g.load ELSE None]
  BY <1>2 DEF BindOver
<1>5. DOMAIN o.r.slot = Kinds /\ g.load \in Nat /\ g.compressed \in BOOLEAN
  BY DEF Renderer, Registry
<1>6. [k \in Kinds |-> IF k \in Geometry THEN <<k, g.load>> ELSE o.r.slot[k]]
        \in [Kinds -> Resource \cup {None}]
  BY <1>5 DEF Renderer, Resource, Kinds
<1>7. b.r \in Renderer
  BY <1>4, <1>5, <1>6 DEF Renderer
<1>8. b.r.slot = [k \in Kinds |-> IF k \in Geometry THEN <<k, g.load>> ELSE o.r.slot[k]]
  BY <1>4, <1>5 DEF Renderer
<1>9. /\ b.r.textures = o.r.textures
      /\ b.r.resourceList = o.r.resourceList /\ b.r.texArgs = o.r.texArgs
      /\ b.r.residencyMode /\ b.r.posed /\ b.r.aimed = o.r.aimed
      /\ b.r.counts = g.load /\ b.r.compressed = g.compressed
      /\ b.r.usePrefixSum => b.r.buckets = b.r.counts
  BY <1>4 DEF Renderer
<1> HIDE DEF h
<1> QED
  BY <1>1, <1>3, <1>7, <1>8, <1>9

\* The textures of a scene that are made.
NewTextures(s) ==
  {<<"texture", s.load, i>> : i \in {j \in DOMAIN s.images : s.images[j] /\ j <= MaxTextures}}

\* What an upload releases first: everything owned, but the UVs beside a view.
Emptied(ren) == Textures(ren) \cup Owned(ren, IF ren.residencyMode THEN {} ELSE Kinds)

LEMMA UploadEffect ==
  ASSUME NEW o, o.r \in Renderer, o.h \in Heap, Emptied(o.r) \subseteq o.h.live,
         NEW s \in Scene,
         NEW u, u = UploadScene(o, s)
  PROVE  /\ u.r \in Renderer /\ u.h \in Heap
         /\ u.h = [live |-> (o.h.live \ Emptied(o.r)) \cup Resources(KindsOf(s), s.load)
                              \cup NewTextures(s), twice |-> o.h.twice]
         /\ u.r.slot = [k \in Kinds |-> IF k \in KindsOf(s) THEN <<k, s.load>> ELSE None]
         /\ Textures(u.r) = NewTextures(s)
         /\ u.r.resourceList = NewTextures(s) /\ u.r.texArgs = NewTextures(s)
         /\ ~u.r.residencyMode /\ u.r.aimed = o.r.aimed
         /\ u.r.counts = s.load /\ u.r.compressed = s.compressed
         /\ u.r.buckets = u.r.counts
<1>1. s.load \in Nat /\ s.compressed \in BOOLEAN /\ s.uvs \in BOOLEAN
      /\ s.images \in Seq(BOOLEAN)
  BY DEF Scene
<1>2. KindsOf(s) = Geometry \cup IF s.uvs THEN {"uvs"} ELSE {}
  BY DEF KindsOf, Kinds
<1>3. DOMAIN o.r.slot = Kinds
  BY DEF Renderer
<1> DEFINE e == Empty(o)
           slots == [k \in Kinds |-> IF k \in KindsOf(s) THEN <<k, s.load>> ELSE None]
           ren == [e.r EXCEPT !.slot = slots, !.compressed = s.compressed, !.counts = s.load,
                              !.buckets = s.load, !.posed = FALSE]
           h == Get(e.h, Resources(KindsOf(s), s.load))
           new == [i \in DOMAIN s.images |->
                     IF s.images[i] /\ i <= MaxTextures THEN <<"texture", s.load, i>> ELSE None]
           ok == {new[i] : i \in DOMAIN new} \ {None}
<1>4. e.h = [live |-> o.h.live \ Emptied(o.r), twice |-> o.h.twice] /\ e.h \in Heap
  <2>1. e.h = Release(o.h, Emptied(o.r))
    BY <1>3 DEF Empty, Emptied
  <2> QED
    BY <2>1, ReleaseAlive
<1>5. e.r = [o.r EXCEPT !.slot = NewRenderer.slot, !.residencyMode = FALSE,
                     !.textures = <<>>, !.resourceList = {}, !.texArgs = {}]
  BY DEF Empty
<1>6. /\ e.r \in Renderer /\ DOMAIN e.r.slot = Kinds
      /\ e.r.textures = <<>> /\ e.r.resourceList = {} /\ e.r.texArgs = {}
      /\ ~e.r.residencyMode /\ e.r.aimed = o.r.aimed
  <2>1. NewRenderer.slot \in [Kinds -> Resource \cup {None}] /\ DOMAIN NewRenderer.slot = Kinds
    BY DEF NewRenderer
  <2>2. <<>> \in Seq(Resource \cup {None})
    OBVIOUS
  <2> QED
    BY <1>5, <2>1, <2>2 DEF Renderer
<1>7. u = UploadTextures([r |-> ren, h |-> h], s)
  BY <1>2, <1>6 DEF UploadScene
<1>8. slots \in [Kinds -> Resource \cup {None}]
  BY <1>1 DEF Resource
<1>9. /\ ren \in Renderer /\ ren.slot = slots /\ Textures(ren) = {}
      /\ ren.resourceList = {} /\ ren.texArgs = {}
      /\ ~ren.residencyMode /\ ren.aimed = o.r.aimed
      /\ ren.counts = s.load /\ ren.compressed = s.compressed /\ ren.buckets = s.load
  <2>1. ren \in Renderer
    BY <1>1, <1>6, <1>8 DEF Renderer
  <2>2. ren.textures = <<>>
    BY <1>6 DEF Renderer
  <2>3. Textures(ren) = {}
    BY <2>2 DEF Textures
  <2> QED
    BY <1>6, <2>1, <2>3 DEF Renderer
<1>10. /\ h \in Heap
       /\ h = [live |-> (o.h.live \ Emptied(o.r)) \cup Resources(KindsOf(s), s.load),
                twice |-> o.h.twice]
  <2>1. Resources(KindsOf(s), s.load) \in SUBSET Resource
    BY <1>1 DEF Resources, Resource, KindsOf, Kinds
  <2> QED
    BY <1>4, <2>1, GetAlive
<1>11. ok = NewTextures(s) /\ ok \in SUBSET Resource /\ new \in Seq(Resource \cup {None})
  <2>1. \A i \in DOMAIN s.images : i \in Nat /\ <<"texture", s.load, i>> \in Resource
    BY <1>1 DEF Resource
  <2>2. \A i \in DOMAIN s.images : <<"texture", s.load, i>> # None
    BY <2>1, NoneAssumption
  <2>3. ok = NewTextures(s)
    BY <2>2 DEF NewTextures
  <2>4. Len(s.images) \in Nat /\ new \in [1..Len(s.images) -> Resource \cup {None}]
    BY <1>1, <2>1
  <2>5. new \in Seq(Resource \cup {None})
    BY <2>4, SeqDef
  <2> QED
    BY <2>1, <2>3, <2>5 DEF NewTextures
<1> HIDE DEF e, slots, ren, h, new, ok
<1>12. CASE s.images = <<>>
  <2>1. u.r = ren /\ u.h = h
    BY <1>7, <1>12 DEF UploadTextures
  <2>2. NewTextures(s) = {}
    BY <1>12 DEF NewTextures
  <2> QED
    BY <1>9, <1>10, <2>1, <2>2 DEF slots
<1>13. CASE s.images # <<>>
  <2> DEFINE o2 == [r |-> ren, h |-> h]
  <2>0. UploadTextures(o2, s) =
          [r |-> [o2.r EXCEPT !.textures = new, !.resourceList = ok, !.texArgs = ok],
           h |-> Get(Release(o2.h, Textures(o2.r)), ok)]
    <3> HIDE DEF o2
    <3> QED
      BY <1>13, Zenon DEF UploadTextures, new, ok
  <2>1. /\ u.r = [ren EXCEPT !.textures = new, !.resourceList = ok, !.texArgs = ok]
        /\ u.h = Get(Release(h, {}), ok)
    BY <1>7, <1>9, <2>0
  <2>2. u.h = [live |-> h.live \cup ok, twice |-> h.twice] /\ u.h \in Heap
    <3>1. Release(h, {}) = h
      <4>1. h = [live |-> h.live, twice |-> h.twice]
        BY <1>10
      <4>2. Release(h, {}) = [live |-> h.live \ {}, twice |-> h.twice]
        BY <1>10, ReleaseAlive
      <4>3. h.live \ {} = h.live
        OBVIOUS
      <4> QED
        BY <4>1, <4>2, <4>3
    <3>2. h \in Heap /\ ok \in SUBSET Resource /\ u.h = Get(h, ok)
      BY <1>10, <1>11, <2>1, <3>1
    <3> QED
      BY <3>2, GetAlive
  <2>3. /\ u.r \in Renderer /\ u.r.textures = new /\ u.r.resourceList = ok /\ u.r.texArgs = ok
        /\ u.r.slot = slots /\ ~u.r.residencyMode /\ u.r.aimed = o.r.aimed
        /\ u.r.counts = s.load /\ u.r.compressed = s.compressed /\ u.r.buckets = s.load
    BY <1>9, <1>11, <2>1 DEF Renderer
  <2>4. Textures(u.r) = ok
    BY <2>3 DEF Textures, ok
  <2> QED
    BY <1>10, <1>11, <2>2, <2>3, <2>4 DEF slots
<1> QED
  BY <1>12, <1>13

-----------------------------------------------------------------------------
(* Each operation keeps the balance.                                       *)

\* Binding a registry's view.
LEMMA BindKeeps ==
  ASSUME NEW o, o.r \in Renderer, o.h \in Heap, o = [r |-> o.r, h |-> o.h],
         NEW g \in Registry, NEW s \in Scene \cup {None}, NEW n \in Nat,
         LoadsApart(g, s, n), HeapOK(o.r, o.h, g, s, n), RendererOK(o.r, s, n),
         NEW b, b = BindFrameView(o, g)
  PROVE  /\ b.r \in Renderer /\ b.h \in Heap
         /\ HeapOK(b.r, b.h, g, s, n) /\ RendererOK(b.r, s, n)
         /\ b.r.residencyMode /\ ShowsRegistry(b.r, g) /\ b.r.aimed = o.r.aimed
<1>1. /\ b.r \in Renderer /\ b.h \in Heap
      /\ b.h = [live |-> IF o.r.residencyMode THEN o.h.live
                         ELSE o.h.live \ Owned(o.r, Geometry), twice |-> o.h.twice]
      /\ b.r.slot = [k \in Kinds |-> IF k \in Geometry THEN <<k, g.load>> ELSE o.r.slot[k]]
      /\ b.r.textures = o.r.textures
      /\ b.r.resourceList = o.r.resourceList /\ b.r.texArgs = o.r.texArgs
      /\ b.r.residencyMode /\ b.r.posed /\ b.r.aimed = o.r.aimed
      /\ b.r.counts = g.load /\ b.r.compressed = g.compressed
      /\ b.r.usePrefixSum => b.r.buckets = b.r.counts
  <2>1. Owns(o.r) \subseteq o.h.live
    BY DEF HeapOK
  <2> QED
    BY <2>1, BindEffect
<1>2. g # None /\ g.load \in 1..n
  BY NoneAssumption DEF LoadsApart
<1>3. Textures(b.r) = Textures(o.r)
  BY <1>1 DEF Textures
<1>4. "uvs" \in Kinds /\ "uvs" \notin Geometry /\ Geometry \subseteq Kinds
  BY DEF Kinds, Geometry
<1>5. Owned(b.r, {"uvs"}) = Owned(o.r, {"uvs"})
  <2>1. b.r.slot["uvs"] = o.r.slot["uvs"]
    BY <1>1, <1>4
  <2> QED
    BY <2>1 DEF Owned
<1>6. Owns(b.r) = Textures(o.r) \cup Owned(o.r, {"uvs"})
  BY <1>1, <1>3, <1>5 DEF Owns
<1>7. Owned(o.r, Geometry) \cap Owns(b.r) = {}
  <2>1. \A x \in Owned(o.r, Geometry) : x[1] \in Geometry
    BY <1>4 DEF RendererOK, Kept, Owned
  <2>2. \A x \in Owned(o.r, {"uvs"}) : x[1] = "uvs"
    BY <1>4 DEF RendererOK, Kept, Owned
  <2>3. \A x \in Textures(o.r) : x[1] = "texture"
    BY DEF RendererOK, Kept
  <2> QED
    BY <1>6, <2>1, <2>2, <2>3 DEF Geometry
<1>8. RendererOK(b.r, s, n)
  <2>1. \A k \in Kinds : b.r.slot[k] = None \/ b.r.slot[k] \in {k} \X (1..n)
    BY <1>1, <1>2 DEF RendererOK, Kept
  <2> QED
    BY <1>1, <1>3, <2>1 DEF RendererOK, Kept
<1>9. ShowsRegistry(b.r, g)
  BY <1>1, <1>2, <1>4 DEF ShowsRegistry
<1>10. HeapOK(b.r, b.h, g, s, n)
  <2>1. CASE o.r.residencyMode
    <3>1. Owns(b.r) = Owns(o.r) /\ b.h.live = o.h.live /\ b.h.twice = o.h.twice
      BY <1>1, <1>6, <2>1 DEF Owns
    <3> QED
      BY <3>1 DEF HeapOK
  <2>2. CASE ~o.r.residencyMode
    <3>1. /\ b.h.live = o.h.live \ Owned(o.r, Geometry) /\ b.h.twice = o.h.twice
          /\ Owns(o.r) = Owns(b.r) \cup Owned(o.r, Geometry)
      BY <1>1, <1>6, <2>2 DEF Owns, Owned, Kinds
    <3>2. /\ Owns(o.r) \cap GeometryOf(g) = {}
          /\ Owns(o.r) \cap Direct(s) = {}
      BY OwnedApart
    <3> QED
      BY <1>7, <3>1, <3>2 DEF HeapOK
  <2> QED
    BY <2>1, <2>2
<1> QED
  BY <1>1, <1>8, <1>9, <1>10

\* Destroying the renderer; who owns what of the rest does not matter.
LEMMA DestroyKeeps ==
  ASSUME NEW o, o.r \in Renderer, o.h \in Heap,
         NEW g \in Registry \cup {None}, NEW s \in Scene \cup {None}, NEW n \in Nat,
         LoadsApart(g, s, n), HeapOK(o.r, o.h, g, s, n), RendererOK(o.r, s, n),
         NEW d, d = Destroy(o)
  PROVE  /\ d.r = NewRenderer /\ d.r \in Renderer /\ d.h \in Heap
         /\ HeapOK(d.r, d.h, g, s, n)
<1>1. /\ d.r = NewRenderer /\ d.h \in Heap
      /\ d.h = [live |-> o.h.live \ Owns(o.r), twice |-> o.h.twice]
  BY DestroyEffect DEF HeapOK
<1>2. d.h.live = o.h.live \ Owns(o.r) /\ d.h.twice = o.h.twice
  BY <1>1
<1>3. Owns(o.r) \cap GeometryOf(g) = {} /\ Owns(o.r) \cap Direct(s) = {}
  BY OwnedApart
<1>4. Owns(d.r) = {} /\ d.r \in Renderer
  BY <1>1, NewIsBare
<1> QED
  BY <1>1, <1>2, <1>3, <1>4 DEF HeapOK

\* A scene is uploaded that nobody shows yet, the renderer holding another or none;
\* what the upload adopts is the renderer's from then on.
Moved(s) == [s EXCEPT !.data = FALSE]

LEMMA UploadKeeps ==
  ASSUME NEW o, o.r \in Renderer, o.h \in Heap,
         NEW g \in Registry \cup {None}, NEW s \in Scene, NEW n \in Nat,
         LoadsApart(g, s, n), HeapOK(o.r, o.h, g, s, n), Kept(o.r, n),
         Owns(o.r) \cap GeometryOf(g) = {},
         NEW u, u = UploadScene(o, s)
  PROVE  /\ u.r \in Renderer /\ u.h \in Heap /\ Moved(s) \in Scene
         /\ LoadsApart(g, Moved(s), n)
         /\ HeapOK(u.r, u.h, g, Moved(s), n) /\ RendererOK(u.r, Moved(s), n)
         /\ ~u.r.residencyMode /\ u.r.aimed = o.r.aimed
<1> DEFINE m == Moved(s)
<1>0. /\ m \in Scene /\ m # None /\ s # None /\ ~m.data /\ m.load = s.load /\ m.uvs = s.uvs
      /\ m.compressed = s.compressed /\ s.load \in 1..n
  BY NoneAssumption DEF Moved, Scene, LoadsApart
<1>1. LoadsApart(g, m, n)
  BY <1>0 DEF LoadsApart
<1>2. Emptied(o.r) \subseteq Owns(o.r)
  BY DEF Emptied, Owns, Owned
<1>3. /\ u.r \in Renderer /\ u.h \in Heap
      /\ u.h = [live |-> (o.h.live \ Emptied(o.r)) \cup Resources(KindsOf(s), s.load)
                           \cup NewTextures(s), twice |-> o.h.twice]
      /\ u.r.slot = [k \in Kinds |-> IF k \in KindsOf(s) THEN <<k, s.load>> ELSE None]
      /\ Textures(u.r) = NewTextures(s)
      /\ u.r.resourceList = NewTextures(s) /\ u.r.texArgs = NewTextures(s)
      /\ ~u.r.residencyMode /\ u.r.aimed = o.r.aimed
      /\ u.r.counts = s.load /\ u.r.compressed = s.compressed
      /\ u.r.buckets = u.r.counts
  <2>1. Emptied(o.r) \subseteq o.h.live
    BY <1>2 DEF HeapOK
  <2> QED
    BY <2>1, UploadEffect
<1>4. KindsOf(s) \subseteq Kinds /\ {"vertices", "indices"} \subseteq KindsOf(s)
  BY DEF KindsOf, Kinds, Geometry
<1>5. Resources(KindsOf(s), s.load) \subseteq Resource
  BY <1>0, <1>4 DEF Resources, Resource
<1>6. Owned(u.r, Kinds) = Resources(KindsOf(s), s.load)
  <2>1. \A k \in KindsOf(s) : <<k, s.load>> # None
    BY <1>5, NoneAssumption DEF Resources
  <2> QED
    BY <1>3, <1>4, <2>1 DEF Owned, Resources
<1>7. Owns(u.r) = Resources(KindsOf(s), s.load) \cup NewTextures(s)
  BY <1>3, <1>6 DEF Owns
<1>8. /\ NewTextures(s) \subseteq {"texture"} \X Nat \X Nat
      /\ \A t \in NewTextures(s) : t[2] = s.load
  <2>1. s.images \in Seq(BOOLEAN) /\ s.load \in Nat
    BY DEF Scene
  <2>2. \A i \in DOMAIN s.images : i \in Nat
    BY <2>1
  <2> QED
    BY <2>1, <2>2 DEF NewTextures
<1>9. ShowsScene(u.r, m)
  <2>1. KindsOf(m) = KindsOf(s)
    BY <1>0 DEF KindsOf
  <2> HIDE DEF m
  <2> QED
    BY <1>0, <1>3, <1>8, <2>1 DEF ShowsScene
<1>10. RendererOK(u.r, m, n)
  <2>1. \A k \in Kinds : u.r.slot[k] = None \/ u.r.slot[k] \in {k} \X (1..n)
    BY <1>0, <1>3
  <2>2. Kept(u.r, n)
    BY <1>3, <1>8, <2>1 DEF Kept
  <2> QED
    BY <1>3, <1>9, <2>2 DEF RendererOK
<1>11. Direct(m) = {} /\ Direct(s) \subseteq Resources(KindsOf(s), s.load)
  BY <1>0, <1>4 DEF Direct, Resources
<1>12. \A x \in Owns(o.r) : x \in Emptied(o.r) \/ x \in {<<"uvs", j>> : j \in 1..n}
  <2>1. \A x \in Owned(o.r, {"uvs"}) : x \in {<<"uvs", j>> : j \in 1..n}
    BY DEF Owned, Kept, Kinds
  <2> QED
    BY <2>1 DEF Owns, Emptied
<1>13. HeapOK(u.r, u.h, g, m, n)
  <2>1. /\ u.h.twice = {}
        /\ u.h.live = (o.h.live \ Emptied(o.r)) \cup Owns(u.r)
    BY <1>3, <1>7 DEF HeapOK
  <2>2. GeometryOf(g) \subseteq u.h.live
    BY <1>2, <2>1 DEF HeapOK
  <2>3. u.h.live \subseteq Owns(u.r) \cup GeometryOf(g) \cup {<<"uvs", j>> : j \in 1..n}
    BY <1>7, <1>11, <1>12, <2>1 DEF HeapOK
  <2> QED
    BY <1>11, <2>1, <2>2, <2>3 DEF HeapOK
<1> QED
  BY <1>0, <1>1, <1>3, <1>10, <1>13

\* Another load: what the registry makes is its own, ...
LEMMA RegisterKeeps ==
  ASSUME NEW ren \in Renderer, NEW h \in Heap, NEW s \in Scene \cup {None}, NEW n \in Nat,
         LoadsApart(None, s, n), HeapOK(ren, h, None, s, n), RendererOK(ren, s, n),
         NEW c \in BOOLEAN, NEW g, g = [load |-> n + 1, compressed |-> c],
         NEW h2, h2 = Get(h, Resources(Geometry, n + 1))
  PROVE  /\ g \in Registry /\ g # None /\ h2 \in Heap
         /\ LoadsApart(g, s, n + 1) /\ HeapOK(ren, h2, g, s, n + 1)
         /\ RendererOK(ren, s, n + 1)
<1>1. g \in Registry /\ g # None /\ g.load = n + 1
  <2>1. g \in Registry
    BY DEF Registry
  <2> QED
    BY <2>1, NoneAssumption
<1>2. GeometryOf(g) = Resources(Geometry, n + 1) /\ GeometryOf(None) = {}
  BY <1>1 DEF GeometryOf
<1>3. h2 \in Heap /\ h2.live = h.live \cup GeometryOf(g) /\ h2.twice = h.twice
  <2>1. Resources(Geometry, n + 1) \in SUBSET Resource
    BY DEF Resources, Resource, Kinds
  <2>2. h2 = [live |-> h.live \cup Resources(Geometry, n + 1), twice |-> h.twice] /\ h2 \in Heap
    BY <2>1, GetAlive
  <2> QED
    BY <1>2, <2>2
<1>4. LoadsApart(g, s, n + 1)
  BY <1>1 DEF LoadsApart
<1>5. {<<"uvs", j>> : j \in 1..n} \subseteq {<<"uvs", j>> : j \in 1..(n + 1)}
  OBVIOUS
<1>6. HeapOK(ren, h2, g, s, n + 1)
  BY <1>2, <1>3, <1>5 DEF HeapOK
<1>7. RendererOK(ren, s, n + 1)
  <2>1. \A k \in Kinds : ren.slot[k] = None \/ ren.slot[k] \in {k} \X (1..(n + 1))
    BY DEF RendererOK, Kept
  <2> QED
    BY <2>1 DEF RendererOK, Kept
<1> QED
  BY <1>1, <1>3, <1>4, <1>6, <1>7

\* ... and what the loader makes is the new scene's, while the old one's goes.
LEMMA LoadKeeps ==
  ASSUME NEW ren \in Renderer, NEW h \in Heap, NEW g \in Registry \cup {None},
         NEW old \in Scene \cup {None}, NEW n \in Nat,
         LoadsApart(g, old, n), HeapOK(ren, h, g, old, n), RendererOK(ren, old, n),
         NEW s \in Scene, s.load = n + 1,
         NEW h2, h2 = Release(Get(h, Direct(s)), Direct(old))
  PROVE  /\ h2 \in Heap /\ LoadsApart(g, s, n + 1)
         /\ HeapOK(ren, h2, g, s, n + 1) /\ Kept(ren, n + 1)
         /\ Owns(ren) \cap GeometryOf(g) = {}
<1>1. /\ Owns(ren) \cap GeometryOf(g) = {}
      /\ Owns(ren) \cap Direct(old) = {}
      /\ GeometryOf(g) \cap Direct(old) = {}
  BY OwnedApart
<1>2. s # None
  BY NoneAssumption
<1>3. LoadsApart(g, s, n + 1)
  BY <1>2 DEF LoadsApart
<1>4. Direct(s) \in SUBSET Resource /\ \A x \in Direct(s) : x[2] = n + 1
  BY DEF Direct, Resources, Resource, Kinds, Geometry
<1>5. Direct(s) \cap Direct(old) = {}
  <2>1. \A x \in Direct(old) : x[2] # n + 1
    BY DEF Direct, Resources, LoadsApart
  <2> QED
    BY <1>4, <2>1
<1>6. /\ h2 \in Heap /\ h2.twice = h.twice
      /\ h2.live = (h.live \cup Direct(s)) \ Direct(old)
  <2> DEFINE k == Get(h, Direct(s))
  <2>1. k \in Heap /\ k = [live |-> h.live \cup Direct(s), twice |-> h.twice]
    BY <1>4, GetAlive
  <2>2. k.live = h.live \cup Direct(s) /\ k.twice = h.twice
    BY <2>1
  <2>3. h2 = Release(k, Direct(old))
    OBVIOUS
  <2> HIDE DEF k
  <2>4. Direct(old) \subseteq k.live
    BY <2>2 DEF HeapOK
  <2>5. /\ Release(k, Direct(old)) \in Heap
        /\ Release(k, Direct(old)) = [live |-> k.live \ Direct(old), twice |-> k.twice]
    BY <2>1, <2>4, ReleaseAlive
  <2>6. h2 \in Heap /\ h2.live = k.live \ Direct(old) /\ h2.twice = k.twice
    BY <2>3, <2>5
  <2> QED
    BY <2>2, <2>6
<1>7. {<<"uvs", j>> : j \in 1..n} \subseteq {<<"uvs", j>> : j \in 1..(n + 1)}
  OBVIOUS
<1>8. HeapOK(ren, h2, g, s, n + 1)
  BY <1>1, <1>5, <1>6, <1>7 DEF HeapOK
<1>9. Kept(ren, n + 1)
  <2>1. \A k \in Kinds : ren.slot[k] = None \/ ren.slot[k] \in {k} \X (1..(n + 1))
    BY DEF RendererOK, Kept
  <2> QED
    BY <2>1 DEF RendererOK, Kept
<1> QED
  BY <1>1, <1>3, <1>6, <1>8, <1>9

\* The registry goes: the renderer may point into it, but owns none of it.
LEMMA ResetKeeps ==
  ASSUME NEW ren \in Renderer, NEW h \in Heap, NEW g \in Registry \cup {None},
         NEW s \in Scene \cup {None}, NEW n \in Nat,
         LoadsApart(g, s, n), HeapOK(ren, h, g, s, n), RendererOK(ren, s, n),
         NEW h2, h2 = Release(h, GeometryOf(g))
  PROVE  h2 \in Heap /\ LoadsApart(None, s, n) /\ HeapOK(ren, h2, None, s, n)
<1>1. /\ Owns(ren) \cap GeometryOf(g) = {}
      /\ GeometryOf(g) \cap Direct(s) = {}
  BY OwnedApart
<1>2. h2 \in Heap /\ h2.live = h.live \ GeometryOf(g) /\ h2.twice = h.twice
  <2>1. h2 = [live |-> h.live \ GeometryOf(g), twice |-> h.twice] /\ h2 \in Heap
    BY ReleaseAlive DEF HeapOK
  <2> QED
    BY <2>1
<1>3. GeometryOf(None) = {}
  BY DEF GeometryOf
<1> QED
  BY <1>1, <1>2, <1>3 DEF HeapOK, LoadsApart

\* What setCamera and setUsePrefixSum write.
LEMMA CameraEffect ==
  ASSUME NEW ren \in Renderer, NEW y, y = SetCamera(ren)
  PROVE  /\ y \in Renderer
         /\ y.slot = ren.slot /\ y.textures = ren.textures /\ y.resourceList = ren.resourceList
         /\ y.texArgs = ren.texArgs /\ y.residencyMode = ren.residencyMode
         /\ y.compressed = ren.compressed /\ y.counts = ren.counts
         /\ y.usePrefixSum = ren.usePrefixSum /\ y.buckets = ren.buckets
         /\ y.aimed /\ (ren.slot["worldView"] # None /\ ~ren.residencyMode => y.posed)
         /\ (ren.posed => y.posed)
<1> DEFINE p == ren.posed \/ (ren.slot["worldView"] # None /\ ~ren.residencyMode)
<1>1. p \in BOOLEAN
  OBVIOUS
<1>2. y = [ren EXCEPT !.aimed = TRUE, !.posed = p]
  BY DEF SetCamera, Renderer
<1>3. p <=> ren.posed \/ (ren.slot["worldView"] # None /\ ~ren.residencyMode)
  OBVIOUS
<1> HIDE DEF p
<1>4. y \in Renderer
  BY <1>1, <1>2 DEF Renderer
<1>5. /\ y.slot = ren.slot /\ y.textures = ren.textures /\ y.resourceList = ren.resourceList
      /\ y.texArgs = ren.texArgs /\ y.residencyMode = ren.residencyMode
      /\ y.compressed = ren.compressed /\ y.counts = ren.counts
      /\ y.usePrefixSum = ren.usePrefixSum /\ y.buckets = ren.buckets
      /\ y.aimed = TRUE /\ y.posed = p
  BY <1>2 DEF Renderer
<1> QED
  BY <1>3, <1>4, <1>5

LEMMA PrefixEffect ==
  ASSUME NEW ren \in Renderer, NEW on \in BOOLEAN, NEW y, y = SetUsePrefixSum(ren, on),
         ren.usePrefixSum => ren.buckets = ren.counts
  PROVE  /\ y \in Renderer
         /\ y.slot = ren.slot /\ y.textures = ren.textures /\ y.resourceList = ren.resourceList
         /\ y.texArgs = ren.texArgs /\ y.residencyMode = ren.residencyMode
         /\ y.compressed = ren.compressed /\ y.counts = ren.counts
         /\ y.aimed = ren.aimed /\ y.posed = ren.posed
         /\ y.usePrefixSum => y.buckets = y.counts
<1> DEFINE b == IF on /\ ~ren.usePrefixSum THEN ren.counts ELSE ren.buckets
<1>1. b \in Nat \cup {None}
  BY DEF Renderer
<1>2. y = [ren EXCEPT !.usePrefixSum = on, !.buckets = b]
  BY DEF SetUsePrefixSum, Renderer
<1>3. on => b = ren.counts
  OBVIOUS
<1> HIDE DEF b
<1>4. y \in Renderer
  BY <1>1, <1>2 DEF Renderer
<1>5. /\ y.slot = ren.slot /\ y.textures = ren.textures /\ y.resourceList = ren.resourceList
      /\ y.texArgs = ren.texArgs /\ y.residencyMode = ren.residencyMode
      /\ y.compressed = ren.compressed /\ y.counts = ren.counts
      /\ y.aimed = ren.aimed /\ y.posed = ren.posed
      /\ y.usePrefixSum = on /\ y.buckets = b
  BY <1>2 DEF Renderer
<1> QED
  BY <1>3, <1>4, <1>5

\* The camera and the prefix switch leave what is held and shown as it is.
LEMMA AimKeeps ==
  ASSUME NEW ren \in Renderer, NEW on \in BOOLEAN, NEW s \in Scene \cup {None}, NEW n \in Nat,
         RendererOK(ren, s, n),
         NEW y \in {SetCamera(SetUsePrefixSum(ren, on)), SetUsePrefixSum(SetCamera(ren), on)}
  PROVE  /\ y \in Renderer /\ RendererOK(y, s, n) /\ Owns(y) = Owns(ren)
         /\ y.residencyMode = ren.residencyMode /\ y.slot = ren.slot
         /\ \A g : ShowsRegistry(ren, g) => ShowsRegistry(y, g)
         /\ y.aimed /\ (ren.slot["worldView"] # None /\ ~ren.residencyMode => y.posed)
<1>1. /\ y \in Renderer
      /\ y.slot = ren.slot /\ y.textures = ren.textures /\ y.resourceList = ren.resourceList
      /\ y.texArgs = ren.texArgs /\ y.residencyMode = ren.residencyMode
      /\ y.compressed = ren.compressed /\ y.counts = ren.counts
      /\ y.aimed /\ (ren.slot["worldView"] # None /\ ~ren.residencyMode => y.posed)
      /\ (ren.posed => y.posed)
      /\ (y.usePrefixSum => y.buckets = y.counts)
  <2>0. ren.usePrefixSum => ren.buckets = ren.counts
    BY DEF RendererOK
  <2>1. CASE y = SetCamera(SetUsePrefixSum(ren, on))
    BY <2>0, <2>1, PrefixEffect, CameraEffect
  <2>2. CASE y = SetUsePrefixSum(SetCamera(ren), on)
    BY <2>0, <2>2, PrefixEffect, CameraEffect
  <2> QED
    BY <2>1, <2>2
<1>2. Textures(y) = Textures(ren)
  BY <1>1 DEF Textures
<1>3. Owns(y) = Owns(ren)
  BY <1>1, <1>2 DEF Owns, Owned
<1>4. Kept(y, n)
  BY <1>1, <1>2 DEF RendererOK, Kept
<1>5. Bare(ren) => Bare(y)
  BY <1>1, <1>2 DEF Bare
<1>6. ShowsScene(ren, s) => ShowsScene(y, s)
  BY <1>1, <1>2 DEF ShowsScene
<1>7. \A g : ShowsRegistry(ren, g) => ShowsRegistry(y, g)
  BY <1>1 DEF ShowsRegistry
<1> QED
  BY <1>1, <1>3, <1>4, <1>5, <1>6, <1>7 DEF RendererOK

-----------------------------------------------------------------------------
(* The steps.                                                              *)

LEMMA StateFacts ==
  ASSUME TypeOK
  PROVE  /\ O.r = r /\ O.h = heap /\ O = [r |-> O.r, h |-> O.h]
         /\ args.compressed \in BOOLEAN /\ args.prefixSum \in BOOLEAN
         /\ args.glb \in File \cup {None}
         /\ settings.compressed \in BOOLEAN /\ settings.prefix \in BOOLEAN
         /\ RegistryHolds = GeometryOf(registry)
<1>1. settings.compressed \in BOOLEAN /\ settings.prefix \in BOOLEAN
  BY DEF TypeOK
<1>2. args.compressed \in BOOLEAN /\ args.prefixSum \in BOOLEAN /\ args.glb \in File \cup {None}
  BY DEF TypeOK, Args
<1> QED
  BY <1>1, <1>2 DEF O, RegistryHolds, GeometryOf

LEMMA InitInv == Init => Inv
<1> SUFFICES ASSUME Init PROVE Inv
  OBVIOUS
<1>1. args \in Args
  BY CmdLinesAssumption DEF Init
<1>2. pc \in {"done", "scene"} /\ scene = None /\ registry = None /\ r = NewRenderer
      /\ heap = [live |-> {}, twice |-> {}] /\ loads = 0
  BY DEF Init
<1>3. settings \in [compressed : BOOLEAN, prefix : BOOLEAN]
  BY DEF Init
<1>4. TypeOK
  <2>1. heap \in Heap
    BY <1>2 DEF Heap
  <2>2. path \in File \cup {None} /\ events \in Nat /\ count \in Int
    BY DEF Init
  <2>3. applied \in BOOLEAN /\ menu \in BOOLEAN /\ resize \in BOOLEAN /\ quit \in BOOLEAN
    BY Zenon DEF Init
  <2> QED
    BY <1>1, <1>2, <1>3, <2>1, <2>2, <2>3, NewIsBare DEF TypeOK
<1>5. PhaseInv
  BY <1>2 DEF PhaseInv, Batch, Window
<1>6. HeapOK(r, heap, registry, scene, loads)
  BY <1>2, NewIsBare DEF HeapOK, GeometryOf, Direct
<1>7. ShowInv
  BY <1>2, <1>6, NewIsBare DEF ShowInv, LoadsApart
<1>8. DrawInv
  BY <1>2 DEF DrawInv
<1> QED
  BY <1>4, <1>5, <1>7, <1>8 DEF Inv

\* A scene that is made of a file or without one.
LEMMA SceneIsTyped ==
  ASSUME TypeOK, NEW f \in File \cup {None}, NEW d \in BOOLEAN, NEW c \in BOOLEAN
  PROVE  SceneOf(f, d, c) \in Scene /\ SceneOf(f, d, c).load = loads + 1
         /\ SceneOf(f, d, c).data
<1>1. (IF f = None THEN <<>> ELSE Files[f].images) \in Seq(BOOLEAN)
  <2>1. CASE f = None
    <3>1. <<>> \in Seq(BOOLEAN)
      OBVIOUS
    <3> QED
      BY <2>1, <3>1
  <2>2. CASE f # None
    BY <2>2, FilesAssumption
  <2> QED
    BY <2>1, <2>2
<1>2. (f # None /\ Files[f].uvs) \in BOOLEAN
  BY FilesAssumption DEF File
<1> QED
  BY <1>1, <1>2 DEF SceneOf, Scene, TypeOK

LEMMA BuildSceneStep == Inv /\ BuildScene => Inv'
<1> SUFFICES ASSUME Inv, BuildScene PROVE Inv'
  OBVIOUS
<1>0. TypeOK /\ PhaseInv /\ ShowInv
  BY DEF Inv
<1>1. /\ pc = "scene" /\ ~Streaming /\ scene = None /\ registry = None /\ r = NewRenderer
      /\ UNCHANGED <<args, settings, applied, path, registry, r, events, count, menu, resize, quit>>
  BY <1>0 DEF BuildScene, PhaseInv
<1>2. Streaming' = Streaming
  BY <1>1 DEF Streaming
<1>3. CASE UNCHANGED <<scene, heap, loads>> /\ pc' = "crashed"
  <2>1. TypeOK'
    BY <1>0, <1>1, <1>3 DEF TypeOK, Batch, Window
  <2>2. PhaseInv'
    BY <1>1, <1>3 DEF PhaseInv, Batch, Window
  <2>3. ShowInv'
    BY <1>0, <1>1, <1>3 DEF ShowInv
  <2>4. DrawInv'
    BY <1>3 DEF DrawInv
  <2> QED
    BY <2>1, <2>2, <2>3, <2>4 DEF Inv
<1>4. CASE /\ scene' = SceneOf(args.glb, args.glb # None /\ args.directGpuLoad,
                               args.compressed \/ (args.glb = None /\ args.zorah > 0))
           /\ heap' = Get(heap, Direct(scene'))
           /\ loads' = loads + 1
           /\ pc' = IF args.interactive THEN "app" ELSE "renderer"
  <2>1. /\ scene' \in Scene /\ scene'.load = loads + 1
        /\ r \in Renderer /\ heap \in Heap /\ loads \in Nat
    <3>1. args.glb \in File \cup {None} /\ (args.glb # None /\ args.directGpuLoad) \in BOOLEAN
          /\ (args.compressed \/ (args.glb = None /\ args.zorah > 0)) \in BOOLEAN
      BY <1>0, StateFacts
    <3> QED
      BY <1>0, <1>4, <3>1, SceneIsTyped DEF TypeOK
  <2>2. heap' = Release(Get(heap, Direct(scene')), Direct(scene))
    <3>1. Direct(scene') \in SUBSET Resource
      BY <2>1 DEF Direct, Resources, Resource, Kinds, Geometry
    <3>2. Direct(scene) = {} /\ heap' \in Heap
      BY <1>1, <1>4, <2>1, <3>1, GetAlive DEF Direct
    <3>3. Release(heap', {}) = [live |-> heap'.live \ {}, twice |-> heap'.twice]
      BY <3>2, ReleaseAlive
    <3>4. heap' = [live |-> heap'.live \ {}, twice |-> heap'.twice]
      BY <3>2 DEF Heap
    <3> QED
      BY <1>4, <3>2, <3>3, <3>4
  <2>3. /\ heap' \in Heap /\ LoadsApart(registry, scene', loads + 1)
        /\ HeapOK(r, heap', registry, scene', loads + 1)
    BY <1>0, <1>1, <2>1, <2>2, LoadKeeps DEF ShowInv
  <2>4. TypeOK'
    BY <1>0, <1>1, <1>4, <2>1, <2>3 DEF TypeOK, Batch, Window
  <2>5. PhaseInv'
    BY <1>1, <1>2, <1>4, <2>1, NoneAssumption DEF PhaseInv, Batch, Window
  <2>6. ShowInv'
    BY <1>1, <1>4, <2>3, NewIsBare DEF ShowInv
  <2>7. DrawInv'
    BY <1>4 DEF DrawInv
  <2> QED
    BY <2>4, <2>5, <2>6, <2>7 DEF Inv
<1> QED
  BY <1>3, <1>4 DEF BuildScene

\* Steps that move neither buffers nor scenes.
LEMMA QuietSteps ==
  Inv /\ (SkipScene \/ SyntheticFrame \/ Stats \/ NextFrame \/ Close \/ Idle \/ NoRebuild
          \/ Switch \/ AskForPools \/ Encode) => Inv'
<1> SUFFICES ASSUME Inv,
                    SkipScene \/ SyntheticFrame \/ Stats \/ NextFrame \/ Close \/ Idle
                      \/ NoRebuild \/ Switch \/ AskForPools \/ Encode
             PROVE  Inv'
  OBVIOUS
<1>0. TypeOK /\ PhaseInv /\ ShowInv /\ DrawInv
  BY DEF Inv
<1>1. UNCHANGED <<args, path, applied, scene, registry, r, heap, loads>>
  BY DEF SkipScene, SyntheticFrame, Stats, NextFrame, Close, Idle, NoRebuild, Switch,
     AskForPools, Encode, appVars
<1>2. /\ pc \notin {"register", "renew"}
      /\ pc' \in {"app", "smoke", "renderer", "synthetic", "stats", "poll", "rebuild", "bind",
                 "top", "measure"}
      /\ pc' \in {"app", "smoke", "renderer"} => pc = "scene" /\ Streaming
      /\ pc' \in {"app", "poll", "rebuild", "bind", "top"} => args.interactive
      /\ pc' \in {"smoke", "renderer", "synthetic", "stats", "measure"} => ~args.interactive
      /\ pc' = "measure" => pc = "encode"
      /\ pc' = "rebuild" => pc = "panels"
      /\ pc' = "bind" => pc = "rebuild" /\ menu' = menu
  BY <1>0 DEF SkipScene, SyntheticFrame, Stats, NextFrame, Close, Idle, NoRebuild, Switch,
     AskForPools, Encode, appVars, PhaseInv, Batch, Window
<1>3. Streaming' = Streaming
  BY <1>1 DEF Streaming
<1>4. settings' \in [compressed : BOOLEAN, prefix : BOOLEAN]
  BY <1>0 DEF TypeOK, SkipScene, SyntheticFrame, Stats, NextFrame, Close, Idle, NoRebuild, Switch,
     AskForPools, Encode, appVars
<1>5. events' \in Nat /\ count' \in Int
  <2>1. CASE Stats
    <3>1. args.frames \in Int /\ args.warmup \in Int
      BY <1>0 DEF TypeOK, Args
    <3> QED
      BY <1>0, <2>1, <3>1 DEF TypeOK, Stats, TotalFrames, WarmupFrames
  <2>2. CASE ~Stats
    BY <1>0, <2>2 DEF TypeOK, SkipScene, SyntheticFrame, NextFrame, Close, Idle, NoRebuild,
       Switch, AskForPools, Encode, appVars, UserDoes
  <2> QED
    BY <2>1, <2>2
<1>6. menu' \in BOOLEAN /\ resize' \in BOOLEAN /\ quit' \in BOOLEAN
  <2>1. menu \in BOOLEAN /\ resize \in BOOLEAN /\ quit \in BOOLEAN
    BY <1>0 DEF TypeOK
  <2>2. menu' \in {menu, FALSE} /\ resize' \in {resize, TRUE} /\ quit' \in {quit, TRUE}
    BY DEF SkipScene, SyntheticFrame, Stats, NextFrame, Close, Idle, NoRebuild, Switch,
       AskForPools, Encode, appVars
  <2> QED
    BY <2>1, <2>2, Zenon
<1>7. TypeOK'
  <2>1. pc' \in Batch \cup Window \cup {"scene", "encode", "crashed", "done"}
    BY <1>2 DEF Batch, Window
  <2> QED
    BY <1>0, <1>1, <1>4, <1>5, <1>6, <2>1 DEF TypeOK
<1>8. PhaseInv'
  BY <1>0, <1>1, <1>2, <1>3 DEF PhaseInv, Batch, Window
<1>9. ShowInv'
  BY <1>0, <1>1, <1>2 DEF ShowInv
<1>10. DrawInv'
  <2>1. Placed' = Placed
    BY <1>1 DEF Placed
  <2> QED
    BY <1>0, <1>2, <2>1 DEF DrawInv
<1> QED
  BY <1>7, <1>8, <1>9, <1>10 DEF Inv

\* Registers(args.compressed) where there is no registry.
LEMMA RegistersState ==
  ASSUME TypeOK, ShowInv, registry = None, Registers(args.compressed)
  PROVE  /\ registry' \in Registry /\ registry' # None /\ heap' \in Heap /\ loads' \in Nat
         /\ LoadsApart(registry', scene, loads') /\ HeapOK(r, heap', registry', scene, loads')
         /\ RendererOK(r, scene, loads')
<1>1. /\ registry' = [load |-> loads + 1, compressed |-> args.compressed]
      /\ heap' = Get(heap, Resources(Geometry, loads + 1))
      /\ loads' = loads + 1
  BY DEF Registers
<1>2. /\ r \in Renderer /\ heap \in Heap /\ scene \in Scene \cup {None} /\ loads \in Nat
      /\ args.compressed \in BOOLEAN
  BY StateFacts DEF TypeOK
<1>3. LoadsApart(None, scene, loads) /\ HeapOK(r, heap, None, scene, loads)
      /\ RendererOK(r, scene, loads)
  BY DEF ShowInv
<1> QED
  BY <1>1, <1>2, <1>3, RegisterKeeps

\* Steps that make a registry, or fail to.
LEMMA RegisteringSteps ==
  Inv /\ (Smoke \/ (MakeRenderer /\ Streaming) \/ (OpenApp /\ ResidencyPath # None) \/ Reregister)
    => Inv'
<1> SUFFICES ASSUME Inv,
                    Smoke \/ (MakeRenderer /\ Streaming) \/ (OpenApp /\ ResidencyPath # None)
                      \/ Reregister
             PROVE  Inv'
  OBVIOUS
<1>0. TypeOK /\ PhaseInv /\ ShowInv /\ DrawInv
  BY DEF Inv
<1>1. /\ UNCHANGED <<args, settings, applied, scene, r, events, count, menu, resize, quit>>
      /\ registry = None /\ (pc # "register" => r = NewRenderer)
  BY <1>0 DEF Smoke, MakeRenderer, OpenApp, Reregister, PhaseInv
<1>2. /\ path' \in File \cup {None}
      /\ Registers(args.compressed) \/ Fails
  <2>1. ResidencyPath \in File \cup {None}
    BY <1>0, StateFacts DEF ResidencyPath
  <2> QED
    BY <1>0, <2>1 DEF Smoke, MakeRenderer, OpenApp, Reregister, TypeOK
<1>3. /\ pc' \in {"synthetic", "crashed", "warmup", "top", "renew"}
      /\ pc' = "synthetic" => ~args.interactive
      /\ pc' = "warmup" => ~args.interactive /\ Streaming /\ Registers(args.compressed)
      /\ pc' \in {"top", "renew"} => args.interactive
      /\ pc' # "renew" => r = NewRenderer
  BY <1>0, <1>1 DEF Smoke, MakeRenderer, OpenApp, Reregister, PhaseInv, Batch, Window
<1>4. Streaming' = Streaming
  BY <1>1 DEF Streaming
<1>5. /\ registry' \in Registry \cup {None} /\ heap' \in Heap /\ loads' \in Nat
      /\ LoadsApart(registry', scene, loads') /\ HeapOK(r, heap', registry', scene, loads')
      /\ RendererOK(r, scene, loads')
      /\ Registers(args.compressed) => registry' # None
  <2>1. CASE Registers(args.compressed)
    BY <1>0, <1>1, <2>1, RegistersState
  <2>2. CASE ~Registers(args.compressed)
    <3>1. UNCHANGED <<registry, heap, loads>>
      BY <1>2, <2>2 DEF Fails
    <3> QED
      BY <1>0, <2>2, <3>1 DEF ShowInv, TypeOK
  <2> QED
    BY <2>1, <2>2
<1>6. TypeOK'
  BY <1>0, <1>1, <1>2, <1>3, <1>5 DEF TypeOK, Batch, Window
<1>7. PhaseInv'
  BY <1>1, <1>3, <1>4, <1>5 DEF PhaseInv, Batch, Window
<1>8. ShowInv'
  BY <1>1, <1>3, <1>5, NewIsBare DEF ShowInv
<1>9. DrawInv'
  BY <1>3 DEF DrawInv
<1> QED
  BY <1>6, <1>7, <1>8, <1>9 DEF Inv

\* An upload of the scene that is there.
LEMMA UploadState ==
  ASSUME TypeOK, ShowInv, scene # None, Becomes(UploadScene(O, scene)),
         scene' = [scene EXCEPT !.data = FALSE]
  PROVE  /\ r' \in Renderer /\ heap' \in Heap /\ scene' \in Scene
         /\ LoadsApart(registry, scene', loads) /\ HeapOK(r', heap', registry, scene', loads)
         /\ RendererOK(r', scene', loads) /\ ~r'.residencyMode
<1>1. /\ O.r = r /\ O.h = heap /\ r \in Renderer /\ heap \in Heap
      /\ registry \in Registry \cup {None} /\ scene \in Scene /\ loads \in Nat
  BY StateFacts DEF TypeOK
<1>2. /\ LoadsApart(registry, scene, loads) /\ HeapOK(r, heap, registry, scene, loads)
      /\ RendererOK(r, scene, loads)
  BY DEF ShowInv
<1>3. Owns(r) \cap GeometryOf(registry) = {} /\ Kept(r, loads)
  BY <1>1, <1>2, OwnedApart DEF RendererOK
<1>4. scene' = Moved(scene)
  BY DEF Moved
<1> DEFINE u == UploadScene(O, scene)
<1>5. r' = u.r /\ heap' = u.h
  BY DEF Becomes
<1> HIDE DEF u
<1>6. /\ u.r \in Renderer /\ u.h \in Heap /\ Moved(scene) \in Scene
      /\ LoadsApart(registry, Moved(scene), loads)
      /\ HeapOK(u.r, u.h, registry, Moved(scene), loads)
      /\ RendererOK(u.r, Moved(scene), loads) /\ ~u.r.residencyMode
  BY <1>1, <1>2, <1>3, UploadKeeps DEF u
<1> QED
  BY <1>4, <1>5, <1>6

\* A file that is loaded in place of what was there.
LEMMA LoadsFileState ==
  ASSUME TypeOK, ShowInv, NEW f \in File, LoadsFile(f)
  PROVE  /\ r' \in Renderer /\ heap' \in Heap /\ scene' \in Scene /\ loads' = loads + 1
         /\ LoadsApart(registry, scene', loads') /\ HeapOK(r', heap', registry, scene', loads')
         /\ RendererOK(r', scene', loads') /\ ~r'.residencyMode
<1> DEFINE s == SceneOf(f, TRUE, settings.compressed)
           h == Release(Get(heap, Direct(s)), Direct(scene))
           o == [O EXCEPT !.h = h]
           u == UploadScene(o, s)
<1>1. /\ O.r = r /\ O = [r |-> r, h |-> heap] /\ r \in Renderer /\ heap \in Heap
      /\ registry \in Registry \cup {None} /\ scene \in Scene \cup {None} /\ loads \in Nat
      /\ settings.compressed \in BOOLEAN
  BY StateFacts DEF TypeOK
<1>2. /\ LoadsApart(registry, scene, loads) /\ HeapOK(r, heap, registry, scene, loads)
      /\ RendererOK(r, scene, loads)
  BY DEF ShowInv
<1>3. s \in Scene /\ s.load = loads + 1
  BY <1>1, SceneIsTyped
<1>4. r' = u.r /\ heap' = u.h /\ scene' = Moved(s) /\ loads' = loads + 1
  BY DEF LoadsFile, Becomes, Moved
<1>5. o.r = r /\ o.h = h
  BY <1>1
<1> HIDE DEF s
<1>6. /\ h \in Heap /\ LoadsApart(registry, s, loads + 1)
      /\ HeapOK(r, h, registry, s, loads + 1) /\ Kept(r, loads + 1)
      /\ Owns(r) \cap GeometryOf(registry) = {}
  BY <1>1, <1>2, <1>3, LoadKeeps
<1>7. loads + 1 \in Nat
  BY <1>1
<1> HIDE DEF h, o
<1>8. /\ u.r \in Renderer /\ u.h \in Heap /\ Moved(s) \in Scene
      /\ LoadsApart(registry, Moved(s), loads + 1)
      /\ HeapOK(u.r, u.h, registry, Moved(s), loads + 1)
      /\ RendererOK(u.r, Moved(s), loads + 1) /\ ~u.r.residencyMode
  BY <1>1, <1>3, <1>5, <1>6, <1>7, UploadKeeps
<1> QED
  BY <1>4, <1>8

\* The first upload of main, or of the viewer when it has no registry.
LEMMA UploadingSteps ==
  Inv /\ ((MakeRenderer /\ ~Streaming) \/ (OpenApp /\ ResidencyPath = None)) => Inv'
<1> SUFFICES ASSUME Inv, (MakeRenderer /\ ~Streaming) \/ (OpenApp /\ ResidencyPath = None)
             PROVE  Inv'
  OBVIOUS
<1>0. TypeOK /\ PhaseInv /\ ShowInv /\ DrawInv
  BY DEF Inv
<1>1. /\ UNCHANGED <<args, settings, applied, registry, loads, events, count, menu, resize, quit>>
      /\ registry = None /\ r = NewRenderer
      /\ pc' \in {"measure", "crashed", "top"}
      /\ pc' = "measure" => ~args.interactive /\ ~Streaming
      /\ pc' = "top" => args.interactive
  BY <1>0 DEF MakeRenderer, OpenApp, PhaseInv, Batch, Window
<1>2. path' \in File \cup {None}
  BY <1>0, StateFacts DEF MakeRenderer, OpenApp, TypeOK
<1>3. \/ UNCHANGED <<scene, r, heap>>
      \/ /\ scene # None /\ Becomes(UploadScene(O, scene))
         /\ scene' = [scene EXCEPT !.data = FALSE]
  BY <1>0 DEF MakeRenderer, OpenApp, PhaseInv
<1>4. Streaming' = Streaming
  BY <1>1 DEF Streaming
<1>5. /\ r' \in Renderer /\ heap' \in Heap /\ scene' \in Scene \cup {None}
      /\ LoadsApart(registry, scene', loads) /\ HeapOK(r', heap', registry, scene', loads)
      /\ RendererOK(r', scene', loads) /\ ~r'.residencyMode
  <2>1. CASE UNCHANGED <<scene, r, heap>>
    BY <1>0, <1>1, <2>1, NewIsBare DEF TypeOK, ShowInv
  <2>2. CASE ~UNCHANGED <<scene, r, heap>>
    BY <1>0, <1>3, <2>2, UploadState
  <2> QED
    BY <2>1, <2>2
<1>6. TypeOK'
  BY <1>0, <1>1, <1>2, <1>5 DEF TypeOK, Batch, Window
<1>7. PhaseInv'
  BY <1>1, <1>4 DEF PhaseInv, Batch, Window
<1>8. ShowInv'
  BY <1>1, <1>5 DEF ShowInv
<1>9. DrawInv'
  BY <1>1 DEF DrawInv
<1> QED
  BY <1>6, <1>7, <1>8, <1>9 DEF Inv

\* A file dropped, picked or loaded again.
LEMMA FileSteps == ASSUME NEW f \in File PROVE Inv /\ (Drop(f) \/ Pick(f) \/ Reload) => Inv'
<1> SUFFICES ASSUME Inv, Drop(f) \/ Pick(f) \/ Reload PROVE Inv'
  OBVIOUS
<1>0. TypeOK /\ PhaseInv /\ ShowInv /\ DrawInv
  BY DEF Inv
<1>1. /\ UNCHANGED <<args, settings, registry, count, resize, quit>>
      /\ pc \in {"poll", "panels"} /\ pc' \in {"poll", "camera", "rebuild"} /\ args.interactive
      /\ applied' \in {applied, settings.compressed} /\ events' \in {events, events + 1}
      /\ pc' = "rebuild" => pc = "panels"
      /\ menu' \in {menu, loads' # loads} /\ (pc' = "rebuild" => menu' = (loads' # loads))
  BY <1>0 DEF Drop, Pick, Reload, LoadGLBFromPath, UserDoes, PhaseInv, Window
<1>2. (\E g \in File : LoadsFile(g) /\ path' = g) \/ UNCHANGED <<scene, path, r, heap, loads>>
  <2>1. path # None => path \in File
    BY <1>0 DEF TypeOK
  <2> QED
    BY <2>1 DEF Drop, Pick, Reload, LoadGLBFromPath, KeepsScene, LoadsFile
<1> DEFINE Settled ==
      /\ r' \in Renderer /\ heap' \in Heap /\ scene' \in Scene \cup {None} /\ loads' \in Nat
      /\ path' \in File \cup {None}
      /\ LoadsApart(registry, scene', loads') /\ HeapOK(r', heap', registry, scene', loads')
      /\ RendererOK(r', scene', loads') /\ (r'.residencyMode => UNCHANGED r)
      /\ loads' = loads => UNCHANGED r
<1>3. Settled
  <2>1. CASE UNCHANGED <<scene, path, r, heap, loads>>
    BY <1>0, <2>1 DEF TypeOK, ShowInv
  <2>2. ASSUME NEW g \in File, LoadsFile(g), path' = g
        PROVE  Settled
    BY <1>0, <2>2, LoadsFileState DEF TypeOK
  <2> QED
    BY <1>2, <2>1, <2>2
<1>4. TypeOK'
  <2>1. applied' \in BOOLEAN /\ menu' \in BOOLEAN
    <3>1. applied \in BOOLEAN /\ menu \in BOOLEAN /\ settings.compressed \in BOOLEAN
      BY <1>0, StateFacts DEF TypeOK
    <3> QED
      BY <1>1, <3>1, Zenon
  <2>2. events' \in Nat /\ pc' \in Window
    BY <1>0, <1>1 DEF TypeOK, Window
  <2> QED
    BY <1>0, <1>1, <1>3, <2>1, <2>2 DEF TypeOK
<1>5. PhaseInv'
  BY <1>1 DEF PhaseInv, Batch, Window
<1>6. ShowInv'
  BY <1>0, <1>1, <1>3 DEF ShowInv
<1>7. DrawInv'
  <2>1. pc' = "rebuild" /\ ~menu' => Placed'
    BY <1>0, <1>1, <1>3 DEF DrawInv, Placed
  <2> QED
    BY <1>1, <2>1 DEF DrawInv
<1> QED
  BY <1>4, <1>5, <1>6, <1>7 DEF Inv

\* The renderer of the present state is destroyed.
LEMMA DestroyState ==
  ASSUME TypeOK, ShowInv, Becomes(Destroy(O))
  PROVE  /\ r' = NewRenderer /\ r' \in Renderer /\ heap' \in Heap
         /\ HeapOK(r', heap', registry, scene, loads)
<1>1. /\ O.r = r /\ O.h = heap /\ r \in Renderer /\ heap \in Heap
      /\ registry \in Registry \cup {None} /\ scene \in Scene \cup {None} /\ loads \in Nat
  BY StateFacts DEF TypeOK
<1>2. /\ LoadsApart(registry, scene, loads) /\ HeapOK(r, heap, registry, scene, loads)
      /\ RendererOK(r, scene, loads)
  BY DEF ShowInv
<1> DEFINE d == Destroy(O)
<1>3. r' = d.r /\ heap' = d.h
  BY DEF Becomes
<1> HIDE DEF d
<1>4. /\ d.r = NewRenderer /\ d.r \in Renderer /\ d.h \in Heap
      /\ HeapOK(d.r, d.h, registry, scene, loads)
  BY <1>1, <1>2, DestroyKeeps DEF d
<1> QED
  BY <1>3, <1>4

LEMMA RebuildingSteps == Inv /\ (Resize \/ Renew) => Inv'
<1> SUFFICES ASSUME Inv, Resize \/ Renew PROVE Inv'
  OBVIOUS
<1>0. TypeOK /\ PhaseInv /\ ShowInv /\ DrawInv
  BY DEF Inv
<1>1. /\ UNCHANGED <<args, settings, applied, path, loads, count, resize, quit, scene, registry>>
      /\ Becomes(Destroy(O)) /\ args.interactive
      /\ pc' \in {"crashed", "poll", "bind"} /\ (pc' = "bind" => menu')
      /\ events' \in {events, events + 1} /\ menu' \in {menu, TRUE}
  BY <1>0 DEF Resize, Renew, RebuildRenderer, UserDoes, PhaseInv, Window
<1>2. /\ r' = NewRenderer /\ r' \in Renderer /\ heap' \in Heap
      /\ HeapOK(r', heap', registry, scene, loads)
  BY <1>0, <1>1, DestroyState
<1>3. TypeOK'
  <2>1. menu' \in BOOLEAN
    <3>1. menu \in BOOLEAN
      BY <1>0 DEF TypeOK
    <3> QED
      BY <1>1, <3>1, Zenon
  <2> QED
    BY <1>0, <1>1, <1>2, <2>1 DEF TypeOK, Window
<1>4. PhaseInv'
  BY <1>1 DEF PhaseInv, Batch, Window
<1>5. ShowInv'
  BY <1>0, <1>1, <1>2, NewIsBare DEF ShowInv
<1>6. DrawInv'
  BY <1>1 DEF DrawInv
<1> QED
  BY <1>3, <1>4, <1>5, <1>6 DEF Inv

\* The end of main, in either order.
LEMMA ReturnStep == Inv /\ Return => Inv'
<1> SUFFICES ASSUME Inv, Return PROVE Inv'
  OBVIOUS
<1>0. TypeOK /\ PhaseInv /\ ShowInv /\ DrawInv
  BY DEF Inv
<1>1. /\ O.r = r /\ O.h = heap /\ O = [r |-> r, h |-> heap] /\ r \in Renderer /\ heap \in Heap
      /\ registry \in Registry \cup {None} /\ scene \in Scene \cup {None} /\ loads \in Nat
      /\ RegistryHolds = GeometryOf(registry)
  BY <1>0, StateFacts DEF TypeOK
<1>2. /\ LoadsApart(registry, scene, loads) /\ HeapOK(r, heap, registry, scene, loads)
      /\ RendererOK(r, scene, loads)
  BY <1>0 DEF ShowInv
<1> DEFINE o == [O EXCEPT !.h = Release(@, GeometryOf(registry))]
           d == Destroy(O)
           e == Destroy(o)
<1>3. ASSUME NEW h \in Heap, HeapOK(NewRenderer, h, None, scene, loads),
             heap' = Release(h, Direct(scene)), r' = NewRenderer
      PROVE  heap' \in Heap /\ HeapOK(r', heap', None, None, loads)
  <2>1. heap' \in Heap /\ heap' = [live |-> h.live \ Direct(scene), twice |-> h.twice]
    BY <1>3, ReleaseAlive DEF HeapOK
  <2>2. heap'.live = h.live \ Direct(scene) /\ heap'.twice = h.twice
    BY <2>1
  <2>3. GeometryOf(None) = {} /\ Direct(None) = {} /\ Owns(r') = {} /\ Owns(NewRenderer) = {}
    BY <1>3, NewIsBare DEF GeometryOf, Direct
  <2> QED
    BY <1>3, <2>1, <2>2, <2>3 DEF HeapOK
<1>4. ASSUME args.interactive
      PROVE  heap' \in Heap /\ HeapOK(r', heap', None, None, loads)
  <2>1. r' = d.r /\ heap' = Release(Release(d.h, GeometryOf(registry)), Direct(scene))
    BY <1>1, <1>4 DEF Return, Becomes
  <2> HIDE DEF d
  <2>2. /\ d.r = NewRenderer /\ d.r \in Renderer /\ d.h \in Heap
        /\ HeapOK(d.r, d.h, registry, scene, loads)
    BY <1>1, <1>2, DestroyKeeps DEF d
  <2> DEFINE h == Release(d.h, GeometryOf(registry))
  <2>3. h \in Heap /\ HeapOK(d.r, h, None, scene, loads)
    <3>1. RendererOK(d.r, scene, loads)
      BY <2>2, NewIsBare
    <3> QED
      BY <1>1, <1>2, <2>2, <3>1, ResetKeeps
  <2> HIDE DEF h
  <2>4. heap' = Release(h, Direct(scene))
    BY <2>1 DEF h
  <2> QED
    BY <1>3, <2>1, <2>2, <2>3, <2>4
<1>5. ASSUME ~args.interactive
      PROVE  heap' \in Heap /\ HeapOK(r', heap', None, None, loads)
  <2>1. r' = e.r /\ heap' = Release(e.h, Direct(scene))
    BY <1>1, <1>5 DEF Return, Becomes
  <2>2. o.r = r /\ o.h = Release(heap, GeometryOf(registry))
    BY <1>1
  <2> HIDE DEF e, o
  <2>3. o.h \in Heap /\ LoadsApart(None, scene, loads) /\ HeapOK(r, o.h, None, scene, loads)
    BY <1>1, <1>2, <2>2, ResetKeeps
  <2>4. /\ e.r = NewRenderer /\ e.h \in Heap /\ HeapOK(e.r, e.h, None, scene, loads)
    BY <1>1, <1>2, <2>2, <2>3, DestroyKeeps DEF e
  <2> QED
    BY <1>3, <2>1, <2>4
<1>6. r' = NewRenderer /\ heap' \in Heap /\ HeapOK(r', heap', None, None, loads)
  <2>1. r' = NewRenderer
    <3>1. d.r = NewRenderer /\ e.r = NewRenderer
      BY DEF Destroy
    <3>2. r' = d.r \/ r' = e.r
      BY <1>1 DEF Return, Becomes
    <3> QED
      BY <3>1, <3>2
  <2> QED
    BY <1>3, <1>4, <1>5, <2>1
<1>7. /\ registry' = None /\ scene' = None /\ pc' = "done"
      /\ UNCHANGED appVars
  BY DEF Return
<1>8. TypeOK'
  BY <1>0, <1>6, <1>7, NewIsBare DEF TypeOK, appVars
<1>9. PhaseInv'
  BY <1>7 DEF PhaseInv, Batch, Window
<1>10. ShowInv'
  BY <1>6, <1>7, NewIsBare DEF ShowInv, LoadsApart, appVars
<1>11. DrawInv'
  BY <1>7 DEF DrawInv
<1> QED
  BY <1>8, <1>9, <1>10, <1>11 DEF Inv

\* The registry's view is bound, after the camera has moved or not.
LEMMA BindState ==
  ASSUME TypeOK, registry # None, NEW ren \in Renderer, NEW o, o = [r |-> ren, h |-> heap],
         LoadsApart(registry, scene, loads), HeapOK(ren, heap, registry, scene, loads),
         RendererOK(ren, scene, loads), Becomes(BindFrameView(o, registry))
  PROVE  /\ r' \in Renderer /\ heap' \in Heap
         /\ HeapOK(r', heap', registry, scene, loads) /\ RendererOK(r', scene, loads)
         /\ r'.residencyMode /\ ShowsRegistry(r', registry) /\ r'.aimed = ren.aimed
<1>1. /\ o.r = ren /\ o.h = heap /\ heap \in Heap /\ o = [r |-> o.r, h |-> o.h]
      /\ registry \in Registry /\ scene \in Scene \cup {None} /\ loads \in Nat
  BY DEF TypeOK
<1> DEFINE b == BindFrameView(o, registry)
<1>2. r' = b.r /\ heap' = b.h
  BY DEF Becomes
<1> HIDE DEF b
<1>3. /\ b.r \in Renderer /\ b.h \in Heap
      /\ HeapOK(b.r, b.h, registry, scene, loads) /\ RendererOK(b.r, scene, loads)
      /\ b.r.residencyMode /\ ShowsRegistry(b.r, registry) /\ b.r.aimed = o.r.aimed
  BY <1>1, BindKeeps DEF b
<1> QED
  BY <1>1, <1>2, <1>3

LEMMA BindingSteps == Inv /\ (WarmUp \/ RenderFrame \/ Bind) => Inv'
<1> SUFFICES ASSUME Inv, WarmUp \/ RenderFrame \/ Bind PROVE Inv'
  OBVIOUS
<1>0. TypeOK /\ PhaseInv /\ ShowInv /\ DrawInv
  BY DEF Inv
<1>1. /\ UNCHANGED <<args, settings, applied, path, loads, events, menu, resize, quit, scene, registry>>
      /\ pc \in {"warmup", "measure", "bind"} /\ pc' \in {"warmup", "measure", "encode"}
      /\ pc' = "encode" => ~WarmUp
      /\ pc' \in {"warmup", "measure"} => WarmUp
      /\ pc = "bind" <=> Bind
  BY DEF WarmUp, RenderFrame, Bind, appVars
<1>2. Streaming' = Streaming
  BY <1>1 DEF Streaming
<1>3. /\ r \in Renderer /\ heap \in Heap /\ O = [r |-> r, h |-> heap] /\ loads \in Nat
      /\ scene \in Scene \cup {None} /\ args.prefixSum \in BOOLEAN
  BY <1>0, StateFacts DEF TypeOK
<1>4. /\ LoadsApart(registry, scene, loads) /\ HeapOK(r, heap, registry, scene, loads)
      /\ RendererOK(r, scene, loads)
      /\ r.residencyMode => ShowsRegistry(r, registry)
  BY <1>0, <1>1 DEF ShowInv
<1>5. CASE WarmUp
  <2>1. /\ r' \in Renderer /\ heap' \in Heap
        /\ HeapOK(r', heap', registry, scene, loads) /\ RendererOK(r', scene, loads)
        /\ r'.residencyMode => ShowsRegistry(r', registry)
    <3>1. registry # None
      BY <1>0, <1>5 DEF WarmUp, PhaseInv
    <3>2. CASE UNCHANGED <<r, heap>>
      BY <1>3, <1>4, <3>2
    <3>3. CASE Becomes(BindFrameView(O, registry))
      BY <1>0, <1>3, <1>4, <3>1, <3>3, BindState
    <3> QED
      BY <1>5, <3>2, <3>3 DEF WarmUp
  <2>2. TypeOK'
    <3>1. count' \in Int
      BY <1>0, <1>5 DEF TypeOK, WarmUp
    <3> QED
      BY <1>0, <1>1, <2>1, <3>1 DEF TypeOK, Batch
  <2>3. PhaseInv'
    BY <1>0, <1>1, <1>2, <1>5 DEF PhaseInv, WarmUp, Batch, Window
  <2>4. ShowInv'
    BY <1>0, <1>1, <2>1 DEF ShowInv
  <2>5. DrawInv'
    BY <1>1, <1>5 DEF DrawInv
  <2> QED
    BY <2>2, <2>3, <2>4, <2>5 DEF Inv
<1>6. CASE RenderFrame
  <2> DEFINE ren == SetCamera(SetUsePrefixSum(r, args.prefixSum))
  <2>1. /\ ren \in Renderer /\ RendererOK(ren, scene, loads) /\ Owns(ren) = Owns(r)
        /\ ren.residencyMode = r.residencyMode /\ ren.slot = r.slot
        /\ \A g : ShowsRegistry(r, g) => ShowsRegistry(ren, g)
        /\ ren.aimed /\ (r.slot["worldView"] # None /\ ~r.residencyMode => ren.posed)
    BY <1>3, <1>4, AimKeeps
  <2>2. HeapOK(ren, heap, registry, scene, loads)
    BY <1>4, <2>1 DEF HeapOK
  <2>3. /\ pc = "measure" /\ pc' = "encode" /\ count' = count + 1
        /\ IF Streaming THEN Becomes(BindFrameView([O EXCEPT !.r = ren], registry))
           ELSE r' = ren /\ UNCHANGED heap
        /\ registry # None <=> Streaming
        /\ ~args.interactive
    BY <1>0, <1>6 DEF RenderFrame, PhaseInv, Batch
  <2>4. [O EXCEPT !.r = ren] = [r |-> ren, h |-> heap]
    BY <1>3
  <2> HIDE DEF ren
  <2>5. /\ r' \in Renderer /\ heap' \in Heap
        /\ HeapOK(r', heap', registry, scene, loads) /\ RendererOK(r', scene, loads)
        /\ r'.residencyMode => ShowsRegistry(r', registry)
        /\ registry # None => r'.residencyMode
        /\ Placed'
    <3>1. CASE Streaming
      <4>1. Becomes(BindFrameView([r |-> ren, h |-> heap], registry)) /\ registry # None
        BY <2>3, <2>4, <3>1
      <4>2. /\ r' \in Renderer /\ heap' \in Heap
            /\ HeapOK(r', heap', registry, scene, loads) /\ RendererOK(r', scene, loads)
            /\ r'.residencyMode /\ ShowsRegistry(r', registry) /\ r'.aimed = ren.aimed
        BY <1>0, <1>4, <2>1, <2>2, <4>1, BindState
      <4> QED
        BY <2>1, <4>2 DEF Placed
    <3>2. CASE ~Streaming
      BY <1>3, <1>4, <2>1, <2>2, <2>3, <3>2 DEF Placed
    <3> QED
      BY <3>1, <3>2
  <2>6. TypeOK'
    BY <1>0, <1>1, <2>3, <2>5 DEF TypeOK
  <2>7. PhaseInv'
    BY <1>1, <1>2, <2>3 DEF PhaseInv, Batch, Window
  <2>8. ShowInv'
    BY <1>1, <1>4, <2>3, <2>5 DEF ShowInv
  <2>9. DrawInv'
    BY <1>1, <2>3, <2>5 DEF DrawInv
  <2> QED
    BY <2>6, <2>7, <2>8, <2>9 DEF Inv
<1>7. CASE Bind
  <2>1. pc = "bind" /\ pc' = "encode" /\ UNCHANGED count /\ args.interactive
    BY <1>0, <1>7 DEF Bind, PhaseInv, Window, appVars
  <2>2. /\ r' \in Renderer /\ heap' \in Heap
        /\ HeapOK(r', heap', registry, scene, loads) /\ RendererOK(r', scene, loads)
        /\ r'.residencyMode => ShowsRegistry(r', registry)
        /\ registry # None => r'.residencyMode
        /\ Placed => Placed'
    <3>1. CASE registry = None
      BY <1>3, <1>4, <1>7, <3>1 DEF Bind, Placed
    <3>2. CASE registry # None
      <4>1. Becomes(BindFrameView(O, registry))
        BY <1>7, <3>2 DEF Bind
      <4>2. /\ r' \in Renderer /\ heap' \in Heap
            /\ HeapOK(r', heap', registry, scene, loads) /\ RendererOK(r', scene, loads)
            /\ r'.residencyMode /\ ShowsRegistry(r', registry) /\ r'.aimed = r.aimed
        BY <1>0, <1>3, <1>4, <3>2, <4>1, BindState
      <4> QED
        BY <4>2 DEF Placed
    <3> QED
      BY <3>1, <3>2
  <2>3. TypeOK'
    BY <1>0, <1>1, <2>1, <2>2 DEF TypeOK
  <2>4. PhaseInv'
    BY <1>1, <2>1 DEF PhaseInv, Batch, Window
  <2>5. ShowInv'
    BY <1>1, <1>4, <2>1, <2>2 DEF ShowInv
  <2>6. DrawInv'
    BY <1>0, <1>1, <2>1, <2>2 DEF DrawInv
  <2> QED
    BY <2>3, <2>4, <2>5, <2>6 DEF Inv
<1> QED
  BY <1>5, <1>6, <1>7

LEMMA ResetStep == Inv /\ ResetRegistry => Inv'
<1> SUFFICES ASSUME Inv, ResetRegistry PROVE Inv'
  OBVIOUS
<1>0. TypeOK /\ PhaseInv /\ ShowInv /\ DrawInv
  BY DEF Inv
<1>1. /\ UNCHANGED <<args, settings, applied, path, loads, events, count, menu, quit, scene, r>>
      /\ heap' = Release(heap, GeometryOf(registry)) /\ registry' = None
      /\ resize' = FALSE /\ pc' = "register" /\ args.interactive
  BY <1>0, StateFacts DEF ResetRegistry, PhaseInv, Window
<1>2. heap' \in Heap /\ LoadsApart(None, scene, loads) /\ HeapOK(r, heap', None, scene, loads)
  <2>1. /\ r \in Renderer /\ heap \in Heap /\ registry \in Registry \cup {None}
        /\ scene \in Scene \cup {None} /\ loads \in Nat
    BY <1>0 DEF TypeOK
  <2> QED
    BY <1>0, <1>1, <2>1, ResetKeeps DEF ShowInv
<1>3. TypeOK'
  BY <1>0, <1>1, <1>2 DEF TypeOK, Window
<1>4. PhaseInv'
  BY <1>1 DEF PhaseInv, Batch, Window
<1>5. ShowInv'
  BY <1>0, <1>1, <1>2 DEF ShowInv
<1>6. DrawInv'
  BY <1>1 DEF DrawInv
<1> QED
  BY <1>3, <1>4, <1>5, <1>6 DEF Inv

LEMMA AimStep == Inv /\ Aim => Inv'
<1> SUFFICES ASSUME Inv, Aim PROVE Inv'
  OBVIOUS
<1>0. TypeOK /\ PhaseInv /\ ShowInv /\ DrawInv
  BY DEF Inv
<1>1. /\ UNCHANGED <<args, settings, applied, path, loads, events, count, menu, resize, quit,
                     scene, registry, heap>>
      /\ r' = SetUsePrefixSum(SetCamera(r), settings.prefix)
      /\ pc = "camera" /\ pc' \in {"panels", "top"} /\ args.interactive
  BY <1>0 DEF Aim, appVars, PhaseInv, Window
<1>2. /\ r' \in Renderer /\ RendererOK(r', scene, loads) /\ Owns(r') = Owns(r)
      /\ r'.residencyMode = r.residencyMode /\ r'.slot = r.slot
      /\ \A g : ShowsRegistry(r, g) => ShowsRegistry(r', g)
      /\ r'.aimed /\ (r.slot["worldView"] # None /\ ~r.residencyMode => r'.posed)
  <2>1. /\ r \in Renderer /\ scene \in Scene \cup {None} /\ loads \in Nat
        /\ settings.prefix \in BOOLEAN /\ RendererOK(r, scene, loads)
    BY <1>0, StateFacts DEF TypeOK, ShowInv
  <2> QED
    BY <1>1, <2>1, AimKeeps
<1>3. TypeOK'
  BY <1>0, <1>1, <1>2 DEF TypeOK, Window
<1>4. PhaseInv'
  BY <1>1 DEF PhaseInv, Batch, Window
<1>5. ShowInv'
  BY <1>0, <1>1, <1>2 DEF ShowInv, HeapOK
<1>6. DrawInv'
  BY <1>1, <1>2 DEF DrawInv, Placed
<1> QED
  BY <1>3, <1>4, <1>5, <1>6 DEF Inv

THEOREM Invariance == Spec => []Inv
<1>1. Inv /\ [Next]_vars => Inv'
  <2> SUFFICES ASSUME Inv, Next \/ UNCHANGED vars PROVE Inv'
    OBVIOUS
  <2>1. CASE Main
    <3>1. CASE BuildScene
      BY <3>1, BuildSceneStep
    <3>2. CASE SkipScene \/ SyntheticFrame \/ Stats
      BY <3>2, QuietSteps
    <3>3. CASE Smoke
      BY <3>3, RegisteringSteps
    <3>4. CASE MakeRenderer
      BY <3>4, RegisteringSteps, UploadingSteps
    <3>5. CASE WarmUp \/ RenderFrame
      BY <3>5, BindingSteps
    <3>6. CASE Return
      BY <3>6, ReturnStep
    <3> QED
      BY <2>1, <3>1, <3>2, <3>3, <3>4, <3>5, <3>6 DEF Main
  <2>2. CASE Viewer
    <3>1. CASE OpenApp
      BY <3>1, RegisteringSteps, UploadingSteps
    <3>2. CASE NextFrame \/ Close \/ Idle \/ NoRebuild \/ Switch \/ AskForPools
      BY <3>2, QuietSteps
    <3>3. CASE Resize \/ Renew
      BY <3>3, RebuildingSteps
    <3>4. CASE \E f \in File : Drop(f) \/ Pick(f)
      BY <3>4, FileSteps
    <3>5. CASE Reload
      <4>1. CASE File = {}
        <5>1. path = None
          BY <4>1 DEF Inv, TypeOK
        <5>2. UNCHANGED <<args, settings, path, scene, registry, r, heap, loads, events, count,
                          menu, resize, quit>>
              /\ pc = "poll" /\ pc' = "camera" /\ applied' = settings.compressed
          BY <3>5, <5>1 DEF Reload, KeepsScene
        <5>3. applied' \in BOOLEAN /\ args.interactive
          BY <5>2, StateFacts DEF Inv, PhaseInv, Window
        <5>4. TypeOK'
          BY <5>2, <5>3 DEF Inv, TypeOK, Window
        <5> QED
          BY <5>2, <5>3, <5>4 DEF Inv, PhaseInv, ShowInv, DrawInv, Batch, Window
      <4>2. CASE File # {}
        BY <3>5, <4>2, FileSteps
      <4> QED
        BY <4>1, <4>2
    <3>6. CASE Reregister
      BY <3>6, RegisteringSteps
    <3>7. CASE ResetRegistry
      BY <3>7, ResetStep
    <3>8. CASE Aim
      BY <3>8, AimStep
    <3>9. CASE Bind
      BY <3>9, BindingSteps
    <3> QED
      BY <2>2, <3>1, <3>2, <3>3, <3>4, <3>5, <3>6, <3>7, <3>8, <3>9 DEF Viewer
  <2>3. CASE Encode
    BY <2>3, QuietSteps
  <2>4. CASE UNCHANGED vars
    <3>1. UNCHANGED <<args, settings, applied, path, loads, events, count, menu, resize, quit,
                      pc, scene, registry, r, heap>>
      BY <2>4 DEF vars, appVars
    <3>2. TypeOK' /\ PhaseInv'
      BY <3>1 DEF Inv, TypeOK, PhaseInv, Streaming
    <3>3. ShowInv' /\ DrawInv'
      BY <3>1 DEF Inv, ShowInv, DrawInv, Placed
    <3> QED
      BY <3>2, <3>3 DEF Inv
  <2> QED
    BY <2>1, <2>2, <2>3, <2>4 DEF Next
<1> QED
  BY <1>1, InitInv, PTL DEF Spec

-----------------------------------------------------------------------------
(* The properties.                                                         *)

\* All variables keep the types of the program's.
THEOREM TypeCorrect == Spec => []TypeOK
<1>1. Inv => TypeOK
  BY DEF Inv
<1> QED
  BY <1>1, Invariance, PTL

\* No device resource is released twice or used after its release
\* (MetalRastRenderer.cpp:67-76, :543-578).
THEOREM HeldIsAlive == Spec => []HeldAlive
<1>1. Inv => HeldAlive
  <2> SUFFICES ASSUME Inv PROVE HeldAlive
    OBVIOUS
  <2>1. /\ heap.twice = {} /\ Owns(r) \subseteq heap.live
        /\ GeometryOf(registry) \subseteq heap.live
        /\ r.resourceList = Textures(r) /\ r.texArgs = Textures(r) /\ DOMAIN r.slot = Kinds
    BY DEF Inv, TypeOK, Renderer, ShowInv, HeapOK, RendererOK, Kept
  <2>2. pc \notin {"register", "renew"} => Owned(r, Kinds) \subseteq Owns(r) \cup GeometryOf(registry)
    <3>1. CASE ~r.residencyMode
      BY <3>1 DEF Owns
    <3>2. ASSUME r.residencyMode, pc \notin {"register", "renew"}
          PROVE  Owned(r, Kinds) \subseteq Owns(r) \cup GeometryOf(registry)
      <4>1. registry # None /\ \A k \in Geometry : r.slot[k] = <<k, registry.load>>
        BY <3>2 DEF Inv, ShowInv, ShowsRegistry
      <4>2. \A k \in Geometry : r.slot[k] \in GeometryOf(registry)
        BY <4>1 DEF GeometryOf, Resources
      <4> QED
        BY <3>2, <4>2 DEF Owns, Owned, Kinds
    <3> QED
      BY <3>1, <3>2
  <2> QED
    BY <2>1, <2>2 DEF HeldAlive, RendererHolds, Owns
<1> QED
  BY <1>1, Invariance, PTL

\* But for the UVs of a scene dropped on a registry nothing is lost, and after the
\* program's end nothing else is left (MetalRastRenderer.cpp:114-122, :560-572).
THEOREM NothingIsLost == Spec => []NothingLost
<1>1. Inv => NothingLost
  <2> SUFFICES ASSUME Inv PROVE NothingLost
    OBVIOUS
  <2>1. DOMAIN r.slot = Kinds /\ RegistryHolds = GeometryOf(registry)
    BY StateFacts DEF Inv, TypeOK, Renderer
  <2>2. Owns(r) \subseteq RendererHolds
    BY <2>1 DEF Owns, RendererHolds, Owned, Kinds
  <2> QED
    BY <2>1, <2>2 DEF NothingLost, Inv, ShowInv, HeapOK
<1> QED
  BY <1>1, Invariance, PTL

\* Every frame is drawn from one load (MetalRastRenderer.cpp:542-587,
\* ui/InteractiveApp.cpp:413-438).
THEOREM FramesOfOneLoad == Spec => []DrawsOneLoad
<1>1. Inv => DrawsOneLoad
  <2> SUFFICES ASSUME Inv, pc = "encode", r.slot["drawCalls"] # None PROVE DrawsOneLoad
    BY DEF DrawsOneLoad
  <2>0. "drawCalls" \in Kinds /\ "drawCalls" \in Geometry /\ "uvs" \in Kinds
        /\ "uvs" \notin Geometry /\ Geometry \subseteq Kinds
    BY DEF Kinds, Geometry
  <2>1. r.usePrefixSum => r.buckets = r.counts
    BY DEF Inv, ShowInv, RendererOK
  <2>2. CASE registry # None
    <3>1. ShowsRegistry(r, registry)
      BY <2>2 DEF Inv, ShowInv, DrawInv
    <3> QED
      BY <2>1, <2>2, <3>1 DEF DrawsOneLoad, ShowsRegistry
  <2>3. CASE registry = None
    <3>1. ShowsScene(r, scene)
      <4>1. ~r.residencyMode
        BY <2>3 DEF Inv, ShowInv, ShowsRegistry
      <4>2. ~Bare(r)
        BY <2>0 DEF Bare
      <4> QED
        BY <4>1, <4>2 DEF Inv, ShowInv, RendererOK
    <3>2. \A k \in Geometry : r.slot[k] = <<k, scene.load>>
      BY <2>0, <3>1 DEF ShowsScene, KindsOf
    <3>3. r.slot["uvs"] = IF scene.uvs THEN <<"uvs", scene.load>> ELSE None
      BY <2>0, <3>1 DEF ShowsScene, KindsOf
    <3> QED
      BY <2>1, <2>3, <3>1, <3>2, <3>3 DEF DrawsOneLoad, ShowsScene
  <2> QED
    BY <2>2, <2>3
<1> QED
  BY <1>1, Invariance, PTL

\* Every frame but the one a menu brought has camera and instances in place
\* (MetalRastRenderer.cpp:903-934).
THEOREM FramesArePosed == Spec => []PosedBeforeDrawn
<1>1. Inv => PosedBeforeDrawn
  <2> SUFFICES ASSUME Inv, pc = "encode", r.slot["drawCalls"] # None, ~menu
               PROVE  r.aimed /\ r.posed
    BY DEF PosedBeforeDrawn
  <2>1. Placed
    BY DEF Inv, DrawInv
  <2>2. CASE r.residencyMode
    BY <2>1, <2>2 DEF Placed, Inv, ShowInv, RendererOK
  <2>3. CASE ~r.residencyMode
    <3>1. r.slot["worldView"] # None
      <4>1. "drawCalls" \in Kinds /\ "worldView" \in Geometry /\ "worldView" \in Kinds
        BY DEF Kinds, Geometry
      <4>2. ShowsScene(r, scene)
        BY <2>3, <4>1 DEF Inv, ShowInv, RendererOK, Bare
      <4>3. r.slot["worldView"] = <<"worldView", scene.load>> /\ scene \in Scene
        BY <4>1, <4>2 DEF ShowsScene, KindsOf, Inv, TypeOK
      <4>4. <<"worldView", scene.load>> \in Resource
        BY <4>1, <4>3 DEF Resource, Scene
      <4> QED
        BY <4>3, <4>4, NoneAssumption
    <3> QED
      BY <2>1, <2>3, <3>1 DEF Placed
  <2> QED
    BY <2>2, <2>3
<1> QED
  BY <1>1, Invariance, PTL

\* The viewer dies of a second upload only (ui/InteractiveApp.cpp:209-211).
THEOREM OneWayToDie == Spec => DiesOnlyOfReupload
<1> DEFINE A == (pc' = "crashed" /\ pc \notin {"scene", "smoke", "renderer", "app"})
                  => pc \in {"poll", "renew"} /\ r' = NewRenderer /\ scene # None /\ ~scene.data
<1>1. ASSUME Next, pc' = "crashed", pc \notin {"scene", "smoke", "renderer", "app"}
      PROVE  pc \in {"poll", "renew"} /\ r' = NewRenderer /\ scene # None /\ ~scene.data
  <2>1. CASE Resize \/ Renew
    BY <1>1, <2>1 DEF Resize, Renew, RebuildRenderer, Becomes, Destroy
  <2>2. CASE ~(Resize \/ Renew)
    <3>1. pc' # "crashed" \/ (pc' = pc /\ pc # "crashed")
      BY <1>1, <2>2 DEF Next, Main, Viewer, BuildScene, SkipScene, Smoke, SyntheticFrame,
         MakeRenderer, WarmUp, RenderFrame, Stats, Return, OpenApp, NextFrame, Close, Reload,
         Aim, Drop, Pick, Switch, AskForPools, Idle, ResetRegistry, Reregister, NoRebuild, Bind,
         Encode, LoadGLBFromPath, KeepsScene
    <3> QED
      BY <1>1, <3>1
  <2> QED
    BY <2>1, <2>2
<1>2. [Next]_vars => [A]_vars
  BY <1>1
<1> HIDE DEF A
<1>3. Spec => [][A]_vars
  BY <1>2, PTL DEF Spec
<1> QED
  BY <1>3 DEF DiesOnlyOfReupload, A
=============================================================================
