--------------------------- MODULE MCLLMTransport ---------------------------
(***************************************************************************)
(* Small instances of LLMTransport for TLC.                                *)
(***************************************************************************)
EXTENDS LLMTransport, TLC

Symmetry == Permutations(Requests)
=============================================================================
