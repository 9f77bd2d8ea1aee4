----------------------------- MODULE DecodeOnce -----------------------------
(***************************************************************************)
(* What streaming decompression promises of a buffer view: it is decoded   *)
(* at most once, read only while it is decoded, and given back only when   *)
(* nobody reads it and nobody will.                                        *)
(***************************************************************************)
CONSTANTS View, Reader

VARIABLES
  stage,        \* "raw", or "absent", "decoded", "gone" for a compressed view
  readers       \* who is reading it

vars == <<stage, readers>>

Init ==
  /\ stage \in [View -> {"raw", "absent", "gone"}]
  /\ readers = [v \in View |-> {}]

Decode(v) ==
  /\ stage[v] = "absent"
  /\ stage' = [stage EXCEPT ![v] = "decoded"]

\* Readers come and go while the bytes are there; a step of a reader may end
\* one reading and begin another, and the decoder may read at once.
ReadersMove ==
  /\ readers' \in [View -> SUBSET Reader]
  /\ \A v \in View : readers'[v] # {} => stage'[v] \in {"raw", "decoded"}

GiveBack(v) ==
  /\ stage[v] = "decoded" /\ readers[v] = {}
  /\ stage' = [stage EXCEPT ![v] = "gone"]

Next == ReadersMove /\ \/ UNCHANGED stage
                       \/ \E v \in View : Decode(v) \/ GiveBack(v)

Spec == Init /\ [][Next]_vars
=============================================================================
