--------------------------- MODULE MCServerStart ---------------------------
(* Instances of ServerStart.                                               *)
EXTENDS ServerStart, TLC

CONSTANTS s1, s2, s3
MCPresets == <<"creative", "technical">>
MCRoles == <<"coordinator", "analyst">>
Symmetry == Permutations(Servers)
=============================================================================
