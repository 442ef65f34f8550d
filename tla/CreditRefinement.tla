-------------------------- MODULE CreditRefinement --------------------------
(***************************************************************************)
(* Credits keeps CreditPromise as long as requests do not overlap and none *)
(* dies.  The money is where Stripe says; the rows follow.                 *)
(***************************************************************************)
EXTENDS Credits

Place(c) ==
    CASE refunded[c] -> "returned"
      [] ~refunded[c] /\ transfers[c] > 0 -> "farmer"
      [] ~refunded[c] /\ transfers[c] = 0 /\ charged[c] -> "platform"
      [] ~refunded[c] /\ transfers[c] = 0 /\ ~charged[c] -> "card"

Promise == INSTANCE CreditPromise WITH
    place <- [c \in Offers |-> Place(c)],
    lent  <- [c \in Offers |-> Len(granted[c])]

(* Every behaviour of the handlers, one request at a time, is one of the   *)
(* promise: an offer is charged once, refunded or transferred and never    *)
(* both, transferred once, and counted in the loan once and only then.     *)
KeepsOfferPromise == Promise!Spec
=============================================================================
