------------------------------- MODULE MCPacer -------------------------------
(* Instances of Pacer for TLC.                                             *)
EXTENDS Pacer, TLC

Symmetry == Permutations(Callers)
=============================================================================
