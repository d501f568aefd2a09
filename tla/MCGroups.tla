------------------------------ MODULE MCGroups ------------------------------
(* Groups for TLC.                                                         *)
EXTENDS Groups, TLC

UserSymmetry == Permutations(Users)
=============================================================================
