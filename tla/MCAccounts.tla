----------------------------- MODULE MCAccounts -----------------------------
(* Accounts for TLC.                                                       *)
EXTENDS Accounts, TLC

Symmetry == Permutations(Tokens) \cup Permutations(Secrets) \cup Permutations(Peers)
=============================================================================
