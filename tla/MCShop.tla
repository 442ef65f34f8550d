------------------------------- MODULE MCShop -------------------------------
(* Instances of Shop for TLC: a product of each of two farmers, one of     *)
(* them all but sold out.                                                  *)
EXTENDS Shop, TLC

CONSTANTS u1, u2, pA, pB, fA, fB
MCProducts == {pA, pB}
MCFarmers == {fA, fB}
MCFarmerOf == (pA :> fA) @@ (pB :> fB)
MCStock == (pA :> 1) @@ (pB :> 2)
MCSymmetry == Permutations({u1, u2})
=============================================================================
