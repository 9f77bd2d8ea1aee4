---------------------------- MODULE MCResidency ----------------------------
(* The runs without liveness may treat the workers as interchangeable.       *)
EXTENDS Residency, TLC

Symmetry == Permutations(Worker)
=============================================================================
