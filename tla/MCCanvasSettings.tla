-------------------------- MODULE MCCanvasSettings --------------------------
(* Instances of CanvasSettings.                                            *)
EXTENDS CanvasSettings, TLC

CONSTANTS s1, s2

Symmetry == Permutations(Servers)
=============================================================================
