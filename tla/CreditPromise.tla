--------------------------- MODULE CreditPromise ---------------------------
(***************************************************************************)
(* What a credit offer promises its two parties: the lender's money is     *)
(* held, and then it goes one way only, back to the lender or on to the    *)
(* farmer; what went on is counted in the loan, once.                      *)
(***************************************************************************)
EXTENDS Naturals

CONSTANT Offers

VARIABLES
    place,  \* where the money of an offer is
    lent    \* how often the loan counts it

vars == <<place, lent>>

Init ==
    /\ place = [c \in Offers |-> "card"]
    /\ lent = [c \in Offers |-> 0]

Move(c, from, to) ==
    /\ place[c] = from
    /\ place' = [place EXCEPT ![c] = to]
    /\ UNCHANGED lent

Charge(c) == Move(c, "card", "platform")
Return(c) == Move(c, "platform", "returned")
Transfer(c) == Move(c, "platform", "farmer")

Lend(c) ==
    /\ place[c] = "farmer" /\ lent[c] = 0
    /\ lent' = [lent EXCEPT ![c] = 1]
    /\ UNCHANGED place

Next == \E c \in Offers : Charge(c) \/ Return(c) \/ Transfer(c) \/ Lend(c)

Spec == Init /\ [][Next]_vars
============================================================================
