-------------------------------- MODULE Sale --------------------------------
(***************************************************************************)
(* What the checkout promises: a sale happens at once.  All items are in   *)
(* stock and leave it together, at the prices of that moment, paid by the  *)
(* loan as far as it reaches if the buyer likes, and by card for the rest. *)
(***************************************************************************)
EXTENDS Integers, FiniteSetsExt

CONSTANTS
    Requests, Products, Loans, Prices,
    Wanted,         \* how many of each product a request wants
    Account,        \* the loan a request may use
    MaxStock,       \* bound: units in stock
    MaxCredit,      \* bound: credit of a loan
    Gross(_)        \* a subtotal with its tax

VARIABLES
    stock,   \* units left
    price,
    total,   \* credit of a loan
    used,    \* how much of it was spent
    sales    \* what a request bought

vars == <<stock, price, total, used, sales>>

NoSale == [subtotal |-> 0, credit |-> 0, card |-> 0, placed |-> FALSE]

Init ==
    /\ stock \in [Products -> Nat]
    /\ price \in [Products -> Prices]
    /\ total = [l \in Loans |-> 0]
    /\ used = [l \in Loans |-> 0]
    /\ sales = [r \in Requests |-> NoSale]

Cost(r) == SumFunctionOnSet([x \in Products |-> price[x] * Wanted[r][x]], Products)

Left(l) == total[l] - used[l]

Sell(r, credit) ==
    /\ sales[r] = NoSale
    /\ \A x \in Products : Wanted[r][x] <= stock[x]
    /\ stock' = [x \in Products |-> stock[x] - Wanted[r][x]]
    /\ used' = IF credit = 0 THEN used ELSE [used EXCEPT ![Account[r]] = @ + credit]
    /\ sales' = [sales EXCEPT ![r] =
           [subtotal |-> Cost(r), credit |-> credit, card |-> Gross(Cost(r)) - credit,
            placed |-> TRUE]]
    /\ UNCHANGED <<price, total>>

(* The farmer changes what is on sale, a lender what can be borrowed.      *)
Edit(x, n, p) ==
    /\ stock' = [stock EXCEPT ![x] = n]
    /\ price' = [price EXCEPT ![x] = p]
    /\ UNCHANGED <<total, used, sales>>

Grant(l, n) ==
    /\ n >= total[l] /\ total' = [total EXCEPT ![l] = n]
    /\ UNCHANGED <<stock, price, used, sales>>

Next ==
    \/ \E r \in Requests :
          \/ Sell(r, 0)
          \/ Account[r] \in Loans /\ Sell(r, Min({Left(Account[r]), Gross(Cost(r))}))
    \/ \E x \in Products, n \in 0..MaxStock, p \in Prices : Edit(x, n, p)
    \/ \E l \in Loans : \E n \in 0..MaxCredit : Grant(l, n)

Spec == Init /\ [][Next]_vars
=============================================================================
