---------------------------- MODULE MCEditApply -----------------------------
(***************************************************************************)
(* Small instances of EditApply for TLC.                                   *)
(***************************************************************************)
EXTENDS EditApply, TLC

OnlyFast == {"fast"}
Either == BOOLEAN
Off == {FALSE}

Symmetry == Permutations(Edits)
=============================================================================
