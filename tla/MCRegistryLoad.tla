--------------------------- MODULE MCRegistryLoad ---------------------------
(* Two meshes whose positions share a view.                                  *)
EXTENDS RegistryLoad, TLC

CONSTANTS m1, m2, p, i, j
MCPosView == m1 :> p @@ m2 :> p
MCIdxView == m1 :> i @@ m2 :> j
=============================================================================
