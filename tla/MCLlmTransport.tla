--------------------------- MODULE MCLlmTransport ----------------------------
(* Two callers share a single thread, or two, so that one can hang it and    *)
(* leave the other in the line.                                              *)
EXTENDS LlmTransport

CONSTANTS c1, c2

TwoCallers == {c1, c2}
=============================================================================
