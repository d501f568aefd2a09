----------------------------- MODULE MCMessages -----------------------------
(* Messages for TLC.                                                       *)
EXTENDS Messages, TLC

Symmetry == Permutations(Users)

=============================================================================
