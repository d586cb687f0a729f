---------------------------- MODULE MCJsonlCache ----------------------------
(* Model values for JsonlCache: the keys are interchangeable.               *)
EXTENDS JsonlCache, TLC

CONSTANTS k1, k2

MCKey == {k1, k2}
KeySymmetry == Permutations(MCKey)
=============================================================================
