---------------------------- MODULE MCSceneLoad ----------------------------
(* A small file: mesh 1 hangs at two nodes and, one of them being a root of  *)
(* two scenes, is drawn three times; its second primitive has lines, mesh 3  *)
(* no node.  Views are shared, UVs lie in a position view, view vd does not  *)
(* decode, the last primitive is past the cap.                               *)
EXTENDS SceneLoad

CONSTANTS va, vb, vc, vd

MCScenes == <<<<1>>, <<3>>>>
MCChildren == <<<<2, 3>>, <<>>, <<>>>>
MCMeshOf == <<1, 2, 1>>
MCPrimitives == <<
  [mesh |-> 1, type |-> "triangles", verts |-> 3, pos |-> va, idx |-> vc, uv |-> va,
   index |-> <<0, 1, 2>>, range |-> <<>>],
  [mesh |-> 1, type |-> "lines", verts |-> 2, pos |-> va, idx |-> vc, index |-> <<0, 1>>, range |-> <<>>],
  [mesh |-> 1, type |-> "triangles", verts |-> 6, pos |-> va, idx |-> vc,
   index |-> <<4, 5, 4, 2, 3, 5>>, range |-> <<2, 5>>],
  [mesh |-> 2, type |-> "triangles", verts |-> 2, pos |-> vb, idx |-> vd,
   index |-> <<1, 0, 1>>, range |-> <<>>],
  [mesh |-> 2, type |-> "triangles", verts |-> 1, pos |-> vb, idx |-> vc,
   index |-> <<0, 0, 0>>, range |-> <<>>],
  [mesh |-> 3, type |-> "triangles", verts |-> 1, pos |-> vb, idx |-> vb,
   index |-> <<0, 0, 0>>, range |-> <<>>]>>

Instanced(mesh, n) == [verts |-> mesh.verts, index |-> mesh.index, instances |-> n]
Demo == <<Instanced(MakeUVSphere(2, 3), 1), Instanced(MakeGroundPlane(1), 1)>>
Zorah == LET share == ZorahShare(5, 4) IN
  [k \in DOMAIN share |-> Instanced(MakeGroundPlane(k), share[k])]

Opt(packed, registry, direct, cap, copies, generated) ==
  [packed |-> packed, registry |-> registry, direct |-> direct, cap |-> cap, copies |-> copies,
   generated |-> generated]
\* The caps let a raw scene fill more than one buffer, fill one exactly (the word
\* behind it is then too much), and hold a mesh that fits none.
MCOptions == {
  Opt(TRUE, FALSE, FALSE, 30, 2, <<>>),
  Opt(FALSE, FALSE, FALSE, 11, 1, <<>>),
  Opt(TRUE, FALSE, TRUE, 30, 1, <<>>),
  Opt(FALSE, FALSE, TRUE, 30, 1, <<>>),
  Opt(TRUE, TRUE, FALSE, 30, 1, <<>>),
  Opt(TRUE, TRUE, FALSE, 30, 1, Zorah),
  Opt(TRUE, FALSE, FALSE, 40, 1, Demo),
  Opt(FALSE, FALSE, FALSE, 40, 1, Demo),
  Opt(FALSE, FALSE, FALSE, 42, 1, Demo),
  Opt(FALSE, FALSE, FALSE, 32, 1, Zorah)}
=============================================================================
