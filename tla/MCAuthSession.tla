---------------------------- MODULE MCAuthSession ----------------------------
(* AuthSession for TLC: two users behind one address, one of whom also     *)
(* calls without an address.                                               *)
EXTENDS AuthSession, TLC

CONSTANTS u1, u2, i1

MCPrincipals == {<<u1, i1>>, <<u2, i1>>, <<u1, NoIp>>}

Symmetry == Permutations(Sids)

=============================================================================
