------------------------------- MODULE MCKyc -------------------------------
(* Instances of Kyc for TLC.                                               *)
EXTENDS Kyc, TLC

CONSTANTS u1, u2, d1

OneLogin == d1 :> u1

(* Another user's client that names the same browser.                      *)
Shared == {[user |-> u2, device |-> d1, mode |-> "FULL"]}

Symmetry == Permutations(Tabs) \cup Permutations(Cards)
=============================================================================
