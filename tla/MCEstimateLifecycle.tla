------------------------- MODULE MCEstimateLifecycle -------------------------
(* The estimate lifecycle on small instances: model values and their symmetry. *)
EXTENDS EstimateLifecycle, TLC

CONSTANTS s1, s2, c1, c2, l1, l2, p1, p2, contentA, contentB

Symmetry == Permutations({l1, l2}) \cup Permutations({c1, c2}) \cup Permutations({s1, s2})
SymmetryPos == Permutations({p1, p2}) \cup Permutations({s1, s2})
=============================================================================
