---------------------------- MODULE MCLlmClient -----------------------------
(* Two schemas that share a key; two texts both accept, one only the older  *)
(* schema accepts and one neither accepts; interchangeable callers.          *)
EXTENDS LlmClient, TLC

CONSTANTS c1, c2, c3, k1, loose, strict, good, fine, old, junk

ThreeCallers == {c1, c2, c3}
CallerSymmetry == Permutations(ThreeCallers)

\* "old" is what an earlier, looser schema took; "junk" fits nothing.
MCAccepts == {<<loose, good>>, <<loose, fine>>, <<loose, old>>,
              <<strict, good>>, <<strict, fine>>}

=============================================================================
