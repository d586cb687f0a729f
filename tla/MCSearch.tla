------------------------------ MODULE MCSearch ------------------------------
(* Instances of Search: interchangeable calls, two interchangeable queries. *)
EXTENDS Search, TLC

CONSTANTS s1, s2, s3, q1, q2

ThreeSearchers == {s1, s2, s3}
MCQuery == {q1, q2}
SearchSymmetry == Permutations(ThreeSearchers) \cup Permutations(MCQuery)
=============================================================================
