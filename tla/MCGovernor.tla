----------------------------- MODULE MCGovernor -----------------------------
(* Instances of Governor: two families, one of them with two jobs.         *)
EXTENDS Governor, TLC

MCFamilyOf == [j \in Jobs |-> IF j = "j3" THEN "f2" ELSE "f1"]

\* A district that is not one of the city's is treated as "build".
MCDistrictOf == [j \in Jobs |-> IF j = "j2" THEN "viz"
                                ELSE IF j = "j1" THEN "harbour" ELSE "build"]

CallerSymmetry == Permutations(Calls) \cup Permutations(Workers)
=============================================================================
