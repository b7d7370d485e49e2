------------------------- MODULE MCCanvasLifecycle -------------------------
(* Instances of CanvasLifecycle for TLC. *)
EXTENDS CanvasLifecycle, TLC

CONSTANTS s1, s2, w1, w2

Symmetry == Permutations(Servers) \cup Permutations(Writes)
=============================================================================
