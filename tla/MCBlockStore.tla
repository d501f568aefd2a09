---------------------------- MODULE MCBlockStore ----------------------------
(* BlockStore for TLC: one file of two chunks.                             *)
EXTENDS BlockStore, TLC

CONSTANT f1

MCFileKeys == {<<f1, 0>>, <<f1, 1>>}
Symmetry == Permutations(Data) \cup Permutations(Zdbs)

=============================================================================
