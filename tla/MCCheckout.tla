----------------------------- MODULE MCCheckout -----------------------------
(* Instances of Checkout for TLC.                                          *)
EXTENDS CheckoutRefinement, TLC

CONSTANTS r1, r2, r3, b1, f1, f2, x1, x2

Want(x, n) == [product |-> x, quantity |-> n]
Order(items, useCredit) == [buyer |-> b1, items |-> items, useCredit |-> useCredit]

(* Two carts with the same products in opposite order, and a third one     *)
(* that takes two of the second product, as two items.                     *)
CrossingCarts ==
    r1 :> Order(<<Want(x1, 1), Want(x2, 1)>>, TRUE) @@
    r2 :> Order(<<Want(x2, 2), Want(x1, 1)>>, TRUE)
ThreeCarts ==
    CrossingCarts @@ r3 :> Order(<<Want(x2, 1), Want(x2, 1)>>, FALSE)
(* One after the other: the second finds too little of its second product  *)
(* only when it takes it, unless an edit form brings back what was sold.   *)
TwoCarts ==
    r1 :> Order(<<Want(x1, 2), Want(x2, 1)>>, TRUE) @@
    r2 :> Order(<<Want(x1, 1), Want(x2, 1), Want(x2, 1)>>, TRUE)
OneSeller == x1 :> f1 @@ x2 :> f1
Scarce == x1 :> 2 @@ x2 :> 2
EnoughForTwo == x1 :> 2 @@ x2 :> 3
=============================================================================
