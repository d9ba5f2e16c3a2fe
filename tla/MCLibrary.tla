----------------------------- MODULE MCLibrary -----------------------------
(* The library with two curated packs that are alike and one of the        *)
(* learner's own.                                                          *)
EXTENDS Library, TLC

Symmetry == Permutations(GlobalPacks)
=============================================================================
