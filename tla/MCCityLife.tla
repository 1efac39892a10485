----------------------------- MODULE MCCityLife -----------------------------
(* Instances of CityLife.                                                  *)
EXTENDS CityLife, TLC

CONSTANTS m1, m2, m3, m4, m5, t1, t2, f1, f2

Symmetry == Permutations(Members) \cup Permutations(Ticks) \cup Permutations(Families)
=============================================================================
