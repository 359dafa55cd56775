---------------------------- MODULE MCLineDiffs ----------------------------
EXTENDS LineDiffs, TLC
Symmetry == Permutations(Chars)
=============================================================================
