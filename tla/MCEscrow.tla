----------------------------- MODULE MCEscrow -----------------------------
(* Instances of Escrow for TLC.                                            *)
EXTENDS EscrowRefinement, TLC

CONSTANTS o1, o2, f1, f2, p1, p2, p3

Buy(farmers, credit, card) ==
    [farmers |-> farmers, credit |-> credit, card |-> card, fee |-> 1, whole |-> TRUE]

(* Goods for 20 and a fee of 1: paid by card, with credit, or both.        *)
ByCard   == Buy({f1}, 0, 21)
ByCredit == Buy({f1}, 21, 0)
Shared   == Buy({f1, f2}, 10, 11)
(* All but 1 on credit: what arrives by card does not exceed the fee.      *)
AlmostByCredit == Buy({f1}, 20, 1)

(* In part on credit, and what exceeds the fee is not in whole cents.      *)
OddByCredit == [Buy({f1}, 10, 11) EXCEPT !.whole = FALSE]

Mixed == {ByCard, ByCredit, AlmostByCredit, OddByCredit}
SharedAndCredit == {Shared, ByCredit}

ProcSymmetry == Permutations(Procs)
=============================================================================
