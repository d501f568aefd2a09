------------------------------ MODULE MCGateway ------------------------------
(* Gateway for TLC: alice writes to bob, and bob to himself.               *)
EXTENDS Gateway, TLC

CONSTANTS alice, bob, m1, m2, m3

MCFrom == (m1 :> alice) @@ (m2 :> alice) @@ (m3 :> bob)
MCTo == (m1 :> bob) @@ (m2 :> bob) @@ (m3 :> bob)
MCFrom2 == (m1 :> alice) @@ (m2 :> bob)
MCTo2 == (m1 :> bob) @@ (m2 :> bob)

ChanSymmetry == Permutations(Chans)

=============================================================================
