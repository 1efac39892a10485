------------------------- MODULE MCPersonaVersions -------------------------
(* Instances of PersonaVersions.                                           *)
EXTENDS PersonaVersions, TLC

CONSTANTS p1, p2, w1, w2, w3, v1, v2

MCTarget == [w \in Writers |-> p1]
Symmetry == Permutations(Writers) \cup  Permutations(Values)
=============================================================================
