------------------------------ MODULE Session ------------------------------
(***************************************************************************)
(* One run of the program: main (src/src/main.cpp) decides how the scene   *)
(* comes in, and either renders a number of frames or hands over to the    *)
(* viewer (ui/InteractiveApp.cpp), whose user drops files, resizes the     *)
(* window and rebuilds the registry while the renderer                     *)
(* (MetalRastRenderer.cpp) owns the buffers of a scene or borrows those of *)
(* a registry.  Everything here is one thread; the choices are the command *)
(* line's, the user's, the device's and those of the files.                *)
(*                                                                         *)
(* A device resource is <<kind, load>>, a texture <<"texture", load, i>>,  *)
(* where loads are numbered; the index chunks are one buffer.  SceneLoad   *)
(* and Residency say what is in them.                                      *)
(***************************************************************************)
EXTENDS Integers, Sequences, FiniteSets, SequencesExt

CONSTANTS
  Files,        \* per file: images (which of them upload), uvs, large
  CmdLines,     \* command lines: sequences of <<option, value>>
  MaxLoads,     \* bound on successful loads
  MaxEvents,    \* bound on what the user does
  WarmUps,      \* iterations of the residency warm-up, 200
  MaxTextures,  \* kMaxTextures
  None

File == DOMAIN Files
ASSUME FilesAssumption ==
  \A f \in File : /\ Files[f].images \in Seq(BOOLEAN)
                  /\ Files[f].uvs \in BOOLEAN /\ Files[f].large \in BOOLEAN
ASSUME BoundsAssumption ==
  MaxLoads \in Nat /\ MaxEvents \in Nat /\ WarmUps \in Nat /\ MaxTextures \in Nat

VARIABLES
  args,         \* the parsed command line
  pc,
  settings,     \* the panels' switches: compressed, prefix
  applied,      \* the compression last acted upon
  path,         \* lastLoadedPath
  scene,        \* scene_: draw calls stay, vertex and index data are moved out
  registry,     \* residency_: its load and format
  r,            \* the renderer
  heap,         \* resources alive, and those released when they were not
  loads, events, count,
  menu,         \* this frame's scene came from a menu
  resize,       \* requestResidencyResize
  quit          \* the window should close

appVars == <<args, settings, applied, path, loads, events, count, menu, resize, quit>>
vars == <<appVars, pc, scene, registry, r, heap>>

Geometry == {"vertices", "indices", "drawCalls", "worldView", "modelMatrices"}
Kinds == Geometry \cup {"uvs"}
Resource == (Kinds \X Nat) \cup ({"texture"} \X Nat \X Nat)
Resources(kinds, load) == {<<k, load>> : k \in kinds}
Get(h, resources) == [h EXCEPT !.live = @ \cup resources]
Release(h, resources) ==
  [live |-> h.live \ resources, twice |-> h.twice \cup (resources \ h.live)]

-----------------------------------------------------------------------------
(* The renderer.                                                           *)

NewRenderer ==
  [slot |-> [k \in Kinds |-> None],
   textures |-> <<>>,                  \* textures_
   resourceList |-> {}, texArgs |-> {},  \* what resolve may sample
   residencyMode |-> FALSE,            \* Geometry is borrowed
   compressed |-> TRUE,                \* what the pipelines decode
   counts |-> None,                    \* the load that numDrawCalls_ ... count
   usePrefixSum |-> TRUE, buckets |-> None,
   aimed |-> FALSE, posed |-> FALSE]   \* camera and worldView are written

Owned(ren, kinds) == {ren.slot[k] : k \in kinds} \ {None}
Textures(ren) == {ren.textures[i] : i \in DOMAIN ren.textures} \ {None}

\* Mutant: the destructor takes what it borrows for its own.
DestroyAll(o) ==
  [r |-> NewRenderer, h |-> Release(o.h, Owned(o.r, DOMAIN o.r.slot) \cup Textures(o.r))]
\* ~MetalRastRenderer: borrowed buffers are not released.
Destroy(o) ==
  [r |-> NewRenderer,
   h |-> Release(o.h, Textures(o.r) \cup
                      Owned(o.r, IF o.r.residencyMode THEN {"uvs"} ELSE DOMAIN o.r.slot))]

\* Mutant: the first view takes the place of an uploaded scene's buffers.
BindOver(o, view) ==
  [r |-> [o.r EXCEPT !.slot = [k \in DOMAIN @ |-> IF k \in Geometry THEN <<k, view.load>> ELSE @[k]],
                     !.residencyMode = TRUE, !.compressed = view.compressed,
                     !.counts = view.load, !.posed = TRUE,
                     !.buckets = IF o.r.usePrefixSum THEN view.load ELSE None],
   h |-> o.h]
\* prepareFrame fills the registry's buffers anew, bindFrameView borrows them.
\* An uploaded scene's are released the first time, its UVs and textures stay.
BindFrameView(o, view) ==
  BindOver([o EXCEPT !.h = IF o.r.residencyMode THEN @ ELSE Release(@, Owned(o.r, Geometry))],
           view)

\* Off to on: the table was skipped while it was off.
SetUsePrefixSum(ren, on) ==
  [ren EXCEPT !.usePrefixSum = on,
              !.buckets = IF on /\ ~ren.usePrefixSum THEN ren.counts ELSE @]

\* Mutant: written once for all scenes.
SetCameraOnce(ren) ==
  IF ren.aimed THEN ren
  ELSE [ren EXCEPT !.aimed = TRUE,
                   !.posed = ren.slot["worldView"] # None /\ ~ren.residencyMode]
\* The registry poses its own instances.
SetCamera(ren) ==
  [ren EXCEPT !.aimed = TRUE,
              !.posed = @ \/ (ren.slot["worldView"] # None /\ ~ren.residencyMode)]

UploadTextures(o, s) ==
  LET new == [i \in DOMAIN s.images |->
                IF s.images[i] /\ i <= MaxTextures THEN <<"texture", s.load, i>> ELSE None]
      ok == {new[i] : i \in DOMAIN new} \ {None} IN
  IF s.images = <<>> THEN o
  ELSE [r |-> [o.r EXCEPT !.textures = new, !.resourceList = ok, !.texArgs = ok],
        h |-> Get(Release(o.h, Textures(o.r)), ok)]

\* Mutant: textures go only when others come.
EmptyKeepingTextures(o) ==
  [r |-> [o.r EXCEPT !.slot = NewRenderer.slot, !.residencyMode = FALSE],
   h |-> Release(o.h, Owned(o.r, IF o.r.residencyMode THEN {} ELSE DOMAIN o.r.slot))]
\* uploadScene lets go of what was there, of the UVs too when in residency mode.
Empty(o) ==
  [r |-> [o.r EXCEPT !.slot = NewRenderer.slot, !.residencyMode = FALSE,
                     !.textures = <<>>, !.resourceList = {}, !.texArgs = {}],
   h |-> Release(o.h, Textures(o.r) \cup
                      Owned(o.r, IF o.r.residencyMode THEN {} ELSE DOMAIN o.r.slot))]

\* What a scene holds until it is uploaded.
Direct(s) ==
  IF s # None /\ s.data /\ s.direct THEN Resources({"vertices", "indices"}, s.load) ELSE {}

\* uploadScene when nothing is thrown: buffers adopted or made, worldView not yet
\* written.
UploadScene(o, s) ==
  LET kinds == Geometry \cup IF s.uvs THEN {"uvs"} ELSE {}
      emptied == Empty(o) IN
  UploadTextures(
    [r |-> [emptied.r EXCEPT !.slot = [k \in DOMAIN @ |-> IF k \in kinds THEN <<k, s.load>> ELSE None],
                             !.compressed = s.compressed, !.counts = s.load,
                             !.buckets = s.load, !.posed = FALSE],
     h |-> Get(emptied.h, Resources(kinds, s.load))], s)

O == [r |-> r, h |-> heap]
Becomes(o) == r' = o.r /\ heap' = o.h

-----------------------------------------------------------------------------
(* main.                                                                   *)

AtLeast(low, n) == IF n < low THEN low ELSE n
Defaults ==
  [help |-> FALSE, interactive |-> FALSE, glb |-> None, zorah |-> 0, residency |-> "auto",
   headless |-> 0, frames |-> 1, warmup |-> 4, benchmark |-> FALSE, compressed |-> TRUE,
   directGpuLoad |-> TRUE, prefixSum |-> TRUE]

\* parseArgs, an option at a time: later ones win.
Parse(a, option) ==
  LET name == option[1]
      value == option[2] IN
  IF name = "headless"
  THEN [a EXCEPT !.headless = AtLeast(1, value), !.residency = "on"]
  ELSE [a EXCEPT ![name] = IF name \in {"frames", "zorah"} THEN AtLeast(1, value)
                           ELSE IF name = "warmup" THEN AtLeast(0, value) ELSE value]

\* What a command line can say, whatever its options.
Args ==
  [help : BOOLEAN, interactive : BOOLEAN, glb : File \cup {None}, zorah : Nat,
   residency : {"auto", "on", "off"}, headless : Nat, frames : Nat \ {0}, warmup : Nat,
   benchmark : BOOLEAN, compressed : BOOLEAN, directGpuLoad : BOOLEAN, prefixSum : BOOLEAN]
ASSUME CmdLinesAssumption == \A line \in CmdLines : FoldLeft(Parse, Defaults, line) \in Args

Scene ==
  [load : Nat, data : BOOLEAN, direct : BOOLEAN, compressed : BOOLEAN, uvs : BOOLEAN,
   images : Seq(BOOLEAN)]
Registry == [load : Nat, compressed : BOOLEAN]
ASSUME NoneAssumption ==
  None \notin Resource /\ None \notin Scene /\ None \notin Registry

\* useResidency.
Streaming ==
  /\ args.glb # None \/ args.zorah > 0
  /\ \/ args.residency = "on"
     \/ args.residency = "auto" /\ args.interactive /\ args.glb # None /\ Files[args.glb].large
ResidencyPath == IF Streaming THEN args.glb ELSE None

Init ==
  /\ \E line \in CmdLines : args = FoldLeft(Parse, Defaults, line)
  /\ pc = IF args.help THEN "done" ELSE "scene"
  /\ settings = [compressed |-> TRUE, prefix |-> TRUE] /\ applied = TRUE
  /\ path = None /\ scene = None /\ registry = None
  /\ r = NewRenderer /\ heap = [live |-> {}, twice |-> {}]
  /\ loads = 0 /\ events = 0 /\ count = 0
  /\ menu = FALSE /\ resize = FALSE /\ quit = FALSE

SceneOf(f, direct, compressed) ==
  [load |-> loads + 1, data |-> TRUE, direct |-> direct, compressed |-> compressed,
   uvs |-> f # None /\ Files[f].uvs, images |-> IF f = None THEN <<>> ELSE Files[f].images]

\* buildDemoScene: a file that cannot be loaded ends the program.
BuildScene ==
  /\ pc = "scene" /\ ~Streaming
  /\ \/ /\ scene' = SceneOf(args.glb, args.glb # None /\ args.directGpuLoad,
                            args.compressed \/ (args.glb = None /\ args.zorah > 0))
        /\ heap' = Get(heap, Direct(scene'))
        /\ loads' = loads + 1
        /\ pc' = IF args.interactive THEN "app" ELSE "renderer"
     \/ /\ args.glb # None
        /\ pc' = "crashed"
        /\ UNCHANGED <<scene, heap, loads>>
  /\ UNCHANGED <<args, settings, applied, path, registry, r, events, count, menu, resize, quit>>

SkipScene ==
  /\ pc = "scene" /\ Streaming
  /\ pc' = IF args.interactive THEN "app" ELSE IF args.headless > 0 THEN "smoke" ELSE "renderer"
  /\ UNCHANGED <<appVars, scene, registry, r, heap>>

\* A manager is made and the file, or the generated scene, registered with it.
Registers(compressed) ==
  /\ registry' = [load |-> loads + 1, compressed |-> compressed]
  /\ heap' = Get(heap, Resources(Geometry, loads + 1))
  /\ loads' = loads + 1
Fails == UNCHANGED <<registry, heap, loads>>

\* --residency-headless: frames without a renderer.  The file is loaded even when
\* the scene is generated and there is none.
Smoke ==
  /\ pc = "smoke"
  /\ \/ args.glb # None /\ Registers(args.compressed) /\ pc' = "synthetic"
     \/ Fails /\ pc' = "crashed"
  /\ UNCHANGED <<args, settings, applied, path, scene, r, events, count, menu, resize, quit>>

SyntheticFrame ==
  /\ pc = "synthetic" /\ count < args.headless
  /\ count' = count + 1
  /\ UNCHANGED <<args, settings, applied, path, loads, events, menu, resize, quit,
                 pc, scene, registry, r, heap>>

\* The renderer, and the registry or the upload.  A scene in host memory needs
\* buffers the device may not have.
MakeRenderer ==
  /\ pc = "renderer"
  /\ IF Streaming
     THEN /\ \/ Registers(args.compressed) /\ pc' = "warmup"
             \/ args.glb # None /\ Fails /\ pc' = "crashed"
          /\ UNCHANGED <<scene, r>>
     ELSE /\ \/ /\ Becomes(UploadScene(O, scene))
                /\ scene' = [scene EXCEPT !.data = FALSE]
                /\ pc' = "measure"
             \/ ~scene.direct /\ pc' = "crashed" /\ UNCHANGED <<scene, r, heap>>
          /\ UNCHANGED <<registry, loads>>
  /\ UNCHANGED <<args, settings, applied, path, events, count, menu, resize, quit>>

\* Mutant: until everything is resident, however long it takes.
WarmUpForever ==
  /\ pc = "warmup"
  /\ Becomes(BindFrameView(O, registry))
  /\ \/ pc' = "measure" /\ count' = 0
     \/ count' = (count + 1) % WarmUps /\ UNCHANGED pc
  /\ UNCHANGED <<args, settings, applied, path, loads, events, menu, resize, quit, scene, registry>>
\* Until everything seen is resident, or the iterations are used up.
WarmUp ==
  /\ pc = "warmup"
  /\ IF count = WarmUps THEN UNCHANGED <<r, heap>> ELSE Becomes(BindFrameView(O, registry))
  /\ \/ pc' = "measure" /\ count' = 0
     \/ count < WarmUps /\ count' = count + 1 /\ UNCHANGED pc
  /\ UNCHANGED <<args, settings, applied, path, loads, events, menu, resize, quit, scene, registry>>

TotalFrames == IF args.benchmark THEN args.frames ELSE 1
WarmupFrames ==
  IF ~args.benchmark THEN 0
  ELSE IF args.warmup < TotalFrames - 1 THEN args.warmup ELSE TotalFrames - 1

RenderFrame ==
  LET ren == SetCamera(SetUsePrefixSum(r, args.prefixSum)) IN
  /\ pc = "measure" /\ count < TotalFrames
  /\ IF Streaming THEN Becomes(BindFrameView([O EXCEPT !.r = ren], registry))
     ELSE r' = ren /\ UNCHANGED heap
  /\ count' = count + 1
  /\ pc' = "encode"
  /\ UNCHANGED <<args, settings, applied, path, loads, events, menu, resize, quit, scene, registry>>

\* Over the times that are left.
Stats ==
  /\ pc = "measure" /\ count = TotalFrames
  /\ pc' = "stats"
  /\ count' = TotalFrames - WarmupFrames
  /\ UNCHANGED <<args, settings, applied, path, loads, events, menu, resize, quit,
                 scene, registry, r, heap>>

RegistryHolds == IF registry = None THEN {} ELSE Resources(Geometry, registry.load)

\* The end of main: manager, renderer and scene go in this order; the viewer lets
\* go of its renderer first.
Return ==
  /\ \/ pc = "stats"
     \/ pc = "synthetic" /\ count = args.headless
     \/ pc = "top" /\ quit
  /\ LET first == IF args.interactive THEN Destroy(O)
                  ELSE Destroy([O EXCEPT !.h = Release(@, RegistryHolds)])
         second == IF args.interactive THEN Release(first.h, RegistryHolds) ELSE first.h IN
     Becomes([r |-> first.r, h |-> Release(second, Direct(scene))])
  /\ registry' = None /\ scene' = None
  /\ pc' = "done"
  /\ UNCHANGED appVars

-----------------------------------------------------------------------------
(* The viewer.                                                             *)

\* The constructor.  Only a registry's failure is caught; a registry without a file
\* leaves the window empty.
OpenApp ==
  /\ pc = "app"
  /\ IF ResidencyPath # None
     THEN /\ \/ Registers(args.compressed) /\ path' = ResidencyPath
             \/ Fails /\ UNCHANGED path
          /\ pc' = "top"
          /\ UNCHANGED <<scene, r>>
     ELSE /\ \/ scene = None /\ pc' = "top" /\ UNCHANGED <<scene, r, heap>>
             \/ /\ scene # None /\ pc' = "top"
                /\ Becomes(UploadScene(O, scene))
                /\ scene' = [scene EXCEPT !.data = FALSE]
             \/ /\ scene # None /\ ~scene.direct
                /\ pc' = "crashed"
                /\ UNCHANGED <<scene, r, heap>>
          /\ path' = args.glb
          /\ UNCHANGED <<registry, loads>>
  /\ UNCHANGED <<args, settings, applied, events, count, menu, resize, quit>>

\* while (!shouldClose)
NextFrame ==
  /\ pc = "top" /\ ~quit
  /\ pc' = "poll"
  /\ UNCHANGED <<appVars, scene, registry, r, heap>>

\* loadGLB, directly into buffers of the device, and the upload that adopts them.
LoadsFile(f) ==
  LET s == SceneOf(f, TRUE, settings.compressed)
      h == Release(Get(heap, Direct(s)), Direct(scene)) IN
  /\ loads < MaxLoads
  /\ Becomes(UploadScene([O EXCEPT !.h = h], s))
  /\ scene' = [s EXCEPT !.data = FALSE]
  /\ path' = f
  /\ loads' = loads + 1
KeepsScene == UNCHANGED <<scene, path, r, heap, loads>>

\* Mutant: what loadGLB throws is not caught.
LoadUncaught(f, then) ==
  \/ LoadsFile(f) /\ pc' = then
  \/ KeepsScene /\ pc' = "crashed"
\* loadGLBFromPath: a file that cannot be loaded leaves all as it was.
LoadGLBFromPath(f, then) ==
  /\ LoadsFile(f) \/ KeepsScene
  /\ pc' = then

UserDoes == events < MaxEvents /\ events' = events + 1

\* rebuildRenderer: the old renderer goes when the new one is there.  Vertices and
\* indices went with the first upload: a second one throws, and nobody catches it.
RebuildRenderer(then) ==
  /\ Becomes(Destroy(O))
  /\ pc' = IF scene # None /\ ~scene.data THEN "crashed" ELSE then

Resize ==
  /\ pc = "poll"
  /\ UserDoes
  /\ RebuildRenderer("poll")
  /\ UNCHANGED <<args, settings, applied, path, loads, count, menu, resize, quit, scene, registry>>

Drop(f) ==
  /\ pc = "poll"
  /\ UserDoes
  /\ LoadGLBFromPath(f, "poll")
  /\ UNCHANGED <<args, settings, applied, count, menu, resize, quit, registry>>

Close ==
  /\ pc = "poll"
  /\ quit' = TRUE
  /\ UNCHANGED <<args, settings, applied, path, loads, events, count, menu, resize,
                 pc, scene, registry, r, heap>>

\* Switched since the last frame: the file is loaded again, if there is one.
Reload ==
  /\ pc = "poll"
  /\ IF settings.compressed # applied /\ path # None
     THEN LoadGLBFromPath(path, "camera")
     ELSE KeepsScene /\ pc' = "camera"
  /\ applied' = settings.compressed
  /\ UNCHANGED <<args, settings, events, count, menu, resize, quit, registry>>

Aim ==
  /\ pc = "camera"
  /\ r' = SetUsePrefixSum(SetCamera(r), settings.prefix)
  /\ pc' \in {"panels", "top"}     \* without a drawable the frame is skipped
  /\ UNCHANGED <<appVars, scene, registry, heap>>

\* What the panels can do to the rest.
Switch ==
  /\ pc = "panels"
  /\ UserDoes
  /\ \E name \in DOMAIN settings : settings' = [settings EXCEPT ![name] = ~@]
  /\ pc' = "rebuild"
  /\ UNCHANGED <<args, applied, path, loads, count, menu, resize, quit, scene, registry, r, heap>>

Pick(f) ==
  /\ pc = "panels"
  /\ UserDoes
  /\ LoadGLBFromPath(f, "rebuild")
  /\ menu' = (loads' # loads)
  /\ UNCHANGED <<args, settings, applied, count, resize, quit, registry>>

AskForPools ==
  /\ pc = "panels" /\ registry # None
  /\ UserDoes
  /\ resize' = TRUE /\ pc' = "rebuild"
  /\ UNCHANGED <<args, settings, applied, path, loads, count, menu, quit, scene, registry, r, heap>>

Idle ==
  /\ pc = "panels"
  /\ pc' = "rebuild"
  /\ UNCHANGED <<appVars, scene, registry, r, heap>>

\* The panel's request: the registry goes, the renderer still points into it, ...
ResetRegistry ==
  /\ pc = "rebuild" /\ resize
  /\ heap' = Release(heap, RegistryHolds)
  /\ registry' = None
  /\ resize' = FALSE
  /\ pc' = "register"
  /\ UNCHANGED <<args, settings, applied, path, loads, events, count, menu, quit, scene, r>>

\* ... another one is made, or is not ...
Reregister ==
  /\ pc = "register"
  /\ (loads < MaxLoads /\ Registers(args.compressed)) \/ Fails
  /\ pc' = "renew"
  /\ UNCHANGED <<args, settings, applied, path, events, count, menu, resize, quit, scene, r>>

\* ... and a renderer that no longer does.
Renew ==
  /\ pc = "renew"
  /\ RebuildRenderer("bind")
  /\ menu' = TRUE
  /\ UNCHANGED <<args, settings, applied, path, loads, events, count, resize, quit, scene, registry>>

NoRebuild ==
  /\ pc = "rebuild" /\ ~resize
  /\ pc' = "bind"
  /\ UNCHANGED <<appVars, scene, registry, r, heap>>

Bind ==
  /\ pc = "bind"
  /\ IF registry = None THEN UNCHANGED <<r, heap>> ELSE Becomes(BindFrameView(O, registry))
  /\ pc' = "encode"
  /\ UNCHANGED <<appVars, scene, registry>>

\* encodeRender and the wait for the device.
Encode ==
  /\ pc = "encode"
  /\ pc' = IF args.interactive THEN "top" ELSE "measure"
  /\ menu' = FALSE
  /\ UNCHANGED <<args, settings, applied, path, loads, events, count, resize, quit,
                 scene, registry, r, heap>>

Main == BuildScene \/ SkipScene \/ Smoke \/ SyntheticFrame \/ MakeRenderer \/ WarmUp
          \/ RenderFrame \/ Stats \/ Return

Viewer == \/ OpenApp \/ NextFrame \/ Resize \/ Close \/ Reload \/ Aim
          \/ \E f \in File : Drop(f) \/ Pick(f)
          \/ Switch \/ AskForPools \/ Idle
          \/ ResetRegistry \/ Reregister \/ Renew \/ NoRebuild \/ Bind

Next == Main \/ Viewer \/ Encode

\* The main thread runs; nothing makes the user close the window.
Spec == Init /\ [][Next]_vars /\ WF_vars(Main \/ Encode)

-----------------------------------------------------------------------------
(* Properties.                                                             *)

RendererHolds == Owned(r, DOMAIN r.slot) \cup Textures(r)

\* No resource is released twice, and what the renderer binds is alive, what its
\* argument buffer names included; only while the registry is exchanged does it
\* point into the old one (MetalRastRenderer.cpp:67-76, :543-578).
HeldAlive ==
  /\ heap.twice = {}
  /\ pc \notin {"register", "renew"} =>
       RendererHolds \cup r.resourceList \cup r.texArgs \subseteq heap.live

\* Whatever is alive, someone will release: but for the UVs of a scene dropped on a
\* registry (README), nothing is lost, through uploads, views and rebuilds
\* (MetalRastRenderer.cpp:114-122, :560-572, Mesh.h:94-99).
NothingLost ==
  heap.live \subseteq RendererHolds \cup RegistryHolds \cup Direct(scene)
                        \cup {<<"uvs", n>> : n \in 1..loads}

\* A frame is drawn from one load: the registry's when there is one and the scene's
\* else, with the counts, the decoding, the prefix table and, for a scene, the
\* textures and UVs of that load (MetalRastRenderer.cpp:542-587,
\* ui/InteractiveApp.cpp:413-438).
DrawsOneLoad ==
  LET source == IF registry # None THEN registry ELSE scene IN
  (pc = "encode" /\ r.slot["drawCalls"] # None) =>
    /\ \A k \in Geometry : r.slot[k] = <<k, source.load>>
    /\ r.counts = source.load /\ r.compressed = source.compressed
    /\ r.usePrefixSum => r.buckets = source.load
    /\ registry = None =>
         /\ r.slot["uvs"] = IF scene.uvs THEN <<"uvs", scene.load>> ELSE None
         /\ \A t \in Textures(r) : t[2] = scene.load

\* A frame is drawn with camera and instances in place, but for the frame in which
\* a menu brought the scene (MetalRastRenderer.cpp:903-934).
PosedBeforeDrawn ==
  (pc = "encode" /\ r.slot["drawCalls"] # None /\ ~menu) => r.aimed /\ r.posed

\* The viewer, once open, dies of one thing only: a second upload of a scene whose
\* data have been moved out; no file it is given ends it
\* (ui/InteractiveApp.cpp:209-211, :224-243, :422-432).
DiesOnlyOfReupload ==
  [][(pc' = "crashed" /\ pc \notin {"scene", "smoke", "renderer", "app"})
       => pc \in {"poll", "renew"} /\ r' = NewRenderer /\ scene # None /\ ~scene.data]_vars

\* Without a window the program comes to an end, whether or not everything seen
\* ever becomes resident, and has at least one frame to take its statistics from
\* (main.cpp:606-607, :613-635, :783-812).
BatchEnds ==
  (pc = "scene" /\ ~args.interactive) ~> (pc = "crashed" \/ (pc = "done" /\ count > 0))
=============================================================================
