--------------------------- MODULE MCTextureCache ---------------------------
(* Three images, the first and the last with one key.                        *)
EXTENDS TextureCache, TLC

CONSTANTS k1, k2
MCKeyOf == <<k1, k2, k1>>
MCDimsOf == <<64, 64, 128>>
Symmetry == Permutations(Pid)
=============================================================================
