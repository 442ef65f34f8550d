---------------------------- MODULE MCCredits ----------------------------
(* Instances of Credits for TLC.                                           *)
EXTENDS CreditRefinement, TLC

CONSTANTS c1, c2, c3, l1, l2, b1, p1, p2

Offer(l, b) == [lender |-> l, borrower |-> b]

(* Two offers to the same farmer, and a third one by another lender.       *)
Twice  == c1 :> Offer(l1, b1) @@ c2 :> Offer(l1, b1)
Thrice == Twice @@ c3 :> Offer(l2, b1)

Symmetry == Permutations(Procs) \cup Permutations(Offers)
============================================================================
