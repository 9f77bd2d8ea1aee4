---------------------------- MODULE RegistryLoad ----------------------------
(***************************************************************************)
(* How ResidencyManager's workers use buffer views (src/src/MeshRegistry-  *)
(* .cpp): unlike loadGLB, which counts every use before it starts, each    *)
(* load counts itself in, decodes, reads and counts itself out, and the    *)
(* load that takes a count to zero frees the block without the view's      *)
(* mutex.                                                                  *)
(***************************************************************************)
EXTENDS BufferViews

CONSTANTS
  Mesh,             \* registered meshes
  PosView, IdxView, \* functions from Mesh to View: its accessors' views
  MaxLoads          \* bound on the loads started

VARIABLES
  owned,        \* bvDecoded_ names the block that buffer_view.data names
  loads

vars == <<viewVars, threadVars, owned, loads>>

Init ==
  /\ InitViews
  /\ users = [v \in View |-> 0]
  /\ owned = [v \in View |-> FALSE]
  /\ loads = 0

LoadSteps(m) ==
  <<<<"count", PosView[m]>>, <<"count", IdxView[m]>>,
    <<"ensure", PosView[m]>>, <<"ensure", IdxView[m]>>,
    <<"read", PosView[m]>>, <<"read", IdxView[m]>>,
    <<"drop", PosView[m]>>, <<"drop", IdxView[m]>>>>

\* A worker has popped mesh m and has its pool slots (module Residency).
StartLoad(t, m) ==
  /\ job[t] = <<>> /\ loads < MaxLoads
  /\ Begin(t, LoadSteps(m))
  /\ loads' = loads + 1
  /\ UNCHANGED <<viewVars, owned>>

CountUser(t) ==
  /\ Doing(t, "count", "start")
  /\ users' = [users EXCEPT ![V(t)] = @ + 1]
  /\ Advance(t)
  /\ UNCHANGED <<data, heap, mutex, owned, loads>>

\* A block is remembered in bvDecoded_ too.
DecodeView(t) ==
  /\ Doing(t, "ensure", "decode")
  /\ data[V(t)] # "null" \/ V(t) \notin Broken
  /\ Decode(t)
  /\ owned' = [owned EXCEPT ![V(t)] = @ \/ data[V(t)] = "null"]
  /\ UNCHANGED loads

\* The load fails and gives both views back.
DecodeFails(t) ==
  /\ Doing(t, "ensure", "decode")
  /\ data[V(t)] = "null" /\ V(t) \in Broken
  /\ mutex' = [mutex EXCEPT ![V(t)] = None]
  /\ at' = [at EXCEPT ![t] = 7]
  /\ sub' = [sub EXCEPT ![t] = "start"]
  /\ UNCHANGED <<job, data, heap, users, owned, loads>>

DropView(t) ==
  /\ Doing(t, "drop", "start")
  /\ users' = [users EXCEPT ![V(t)] = @ - 1]
  /\ IF users[V(t)] = 1 THEN Goto(t, "free") ELSE Advance(t)
  /\ UNCHANGED <<data, heap, mutex, owned, loads>>

FreeView(t) ==
  /\ Doing(t, "drop", "free")
  /\ IF data[V(t)] # "null" /\ V(t) \in Compressed /\ owned[V(t)]
     THEN /\ data' = [data EXCEPT ![V(t)] = "freed"]
          /\ heap' = [heap EXCEPT ![V(t)] = @ - 1]
          /\ Goto(t, "clear")
     ELSE Advance(t) /\ UNCHANGED <<data, heap>>
  /\ UNCHANGED <<users, mutex, owned, loads>>

ClearView(t) ==
  /\ Doing(t, "drop", "clear")
  /\ data' = [data EXCEPT ![V(t)] = "null"]
  /\ Goto(t, "disown")
  /\ UNCHANGED <<heap, users, mutex, owned, loads>>

DisownView(t) ==
  /\ Doing(t, "drop", "disown")
  /\ owned' = [owned EXCEPT ![V(t)] = FALSE]
  /\ Advance(t)
  /\ UNCHANGED <<viewVars, loads>>

Next == \E t \in Thread :
  \/ \E m \in Mesh : StartLoad(t, m)
  \/ CountUser(t) \/ DecodeView(t) \/ DecodeFails(t)
  \/ DropView(t) \/ FreeView(t) \/ ClearView(t) \/ DisownView(t)
  \/ (Check(t) \/ Lock(t) \/ Read(t) \/ Return(t)) /\ UNCHANGED <<owned, loads>>

Spec == Init /\ [][Next]_vars

-----------------------------------------------------------------------------
\* "each load task increments user count, frees when count returns to 0"
\* (MeshRegistry.cpp:720-721): while a load that counted itself in reads a
\* view, the view is decoded and not freed.
CountedReadsDecoded ==
  \A t \in Thread, v \in Compressed \ Broken : Reading(t, v) => data[v] = "decoded"
=============================================================================
