------------------------- MODULE CheckoutRefinement -------------------------
(***************************************************************************)
(* As long as checkouts and edits do not overlap, the nine or more steps   *)
(* of a checkout are one Sale, made at the commit.                         *)
(***************************************************************************)
EXTENDS Checkout

(* Only then does an order have a price.                                   *)
ASSUME ProductsAssumption == IsFiniteSet(Products)

Promise == INSTANCE Sale WITH
    Loans   <- Buyers \X Farmers,
    Wanted  <- [r \in Requests |-> [x \in Products |-> Quantity(r, x)]],
    Account <- [r \in Requests |-> IF WithLoan(r) THEN Loan(r) ELSE <<>>],
    sales   <- orders

(* Every behaviour of the checkout, one request at a time, is one of Sale: *)
(* what was read before the transaction is what the transaction acts on.   *)
KeepsSale == Promise!Spec
=============================================================================
