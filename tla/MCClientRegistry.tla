--------------------------- MODULE MCClientRegistry ---------------------------
(* Instances of ClientRegistry for TLC.                                    *)
EXTENDS ClientRegistry, TLC

\* A credential's clientState objects: one in use and one to follow it.
MCStates == {Anon} \cup (Keys \X {1, 2})

MCOwner == [s \in States |-> IF s = Anon THEN Anon ELSE s[1]]
\* Requests, bots and bearers are interchangeable.
Symmetry == Permutations(Requests) \cup Permutations(Bots) \cup Permutations(Bearers)
=============================================================================
