---------------------------- MODULE MCBodyReplay ----------------------------
(* Instances of BodyReplay for TLC.                                        *)
EXTENDS BodyReplay, TLC

\* Bodies are interchangeable.
Symmetry == Permutations(Bodies)
=============================================================================
