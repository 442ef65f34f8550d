------------------------------ MODULE Checkout ------------------------------
(***************************************************************************)
(* POST /orders, Order() of orders.service.ts, cut at its awaits: read the *)
(* stock, the loan and the prices, create the payment intent, and then, in *)
(* one database transaction, take the stock item by item and write the     *)
(* order.  Around it what changes the rows it reads: the farmer's edits of *)
(* products.service.ts and the credit that acceptCredit adds to a loan.    *)
(* Amounts are cents.  A row written in an open transaction stays locked   *)
(* until its end; the row's next writer waits, readers see the old value.  *)
(***************************************************************************)
EXTENDS Integers, Sequences, FiniteSetsExt

CONSTANTS
    Requests,   \* calls of POST /orders, each becomes one order or none
    Buyers, Farmers, Products,
    Nobody,     \* no request
    Carts,      \* what each request orders
    Owner,      \* the farmer of each product
    Opening,    \* stock of each product when it is listed
    Prices,     \* bound: prices a farmer may ask
    Changes,    \* bound: what an edit may add to the stock
    Grants,     \* bound: credit an accepted offer may add to a loan
    MaxStock,   \* bound: units a farmer lists of a product
    MaxCredit,  \* bound: credit of a loan
    Overlap,    \* TRUE when requests are served at the same time
    Faults      \* TRUE when Stripe may refuse and a request may die midway

Item == [product : Products, quantity : Nat \ {0}]
Cart == [buyer : Buyers, items : Seq(Item), useCredit : BOOLEAN]

ASSUME CartsAssumption ==
    /\ Carts \in [Requests -> Cart]
    /\ Owner \in [Products -> Farmers]
    /\ Opening \in [Products -> Nat]
    /\ Nobody \notin Requests
ASSUME BoundsAssumption ==
    /\ Prices \subseteq Nat /\ Changes \subseteq Int /\ Grants \subseteq Nat
    /\ MaxStock \in Nat /\ MaxCredit \in Nat
    /\ \A x \in Products : Opening[x] <= MaxStock
    /\ Overlap \in BOOLEAN /\ Faults \in BOOLEAN

VARIABLES
    shelf,    \* the Product rows that exist
    stock,    \* Product.stockAvailable
    price,    \* Product.price
    total,    \* Loan.totalCredit of a buyer and a farmer, 0 without a row
    used,     \* Loan.totalUsed
    orders,   \* the order a request committed
    told,     \* the farmers an ORDER_CREATED notification was written to
    intents,  \* Stripe: the amount of the payment intent of a request, 0 without
    held,     \* the open transaction that wrote a Product row and what it took
    page,     \* the stock a farmer's page lists, Closed for what it does not list
    form,     \* the stock an open edit form shows, Closed without a form
    req       \* where each request is, with its locals

products == <<shelf, stock, price>>
loans == <<total, used>>
vars == <<products, loans, orders, told, intents, held, page, form, req>>

-----------------------------------------------------------------------------
NoOrder == [subtotal |-> 0, credit |-> 0, card |-> 0, placed |-> FALSE]
Free == [by |-> Nobody, units |-> 0]
Closed == -1

(* (x * 0.05).toFixed(2), which rounds half a cent up or, where the binary *)
(* fraction falls short, down; the model rounds up.                        *)
Tax(subtotal) == (subtotal + 10) \div 20
Gross(subtotal) == subtotal + Tax(subtotal)

Items(r) == Carts[r].items
At(r, i) == Items(r)[i]
Loan(r) == <<Carts[r].buyer, Owner[At(r, 1).product]>>
WithLoan(r) == Carts[r].useCredit /\ Items(r) # <<>>

(* A request is at an item of the cart, or past the last one.              *)
Busy(r, pc) == req[r].pc = pc
Done(r) == req[r].k > Len(Items(r))
Here(r) == At(r, req[r].k)
Active(r) == ~Busy(r, "idle") /\ ~Busy(r, "placed") /\ ~Busy(r, "refused")
Goto(r, pc) == req' = [req EXCEPT ![r] = [req[r] EXCEPT !.pc = pc, !.k = 1]]
More(r, amount) == req' = [req EXCEPT ![r] = [req[r] EXCEPT !.k = @ + 1, !.sum = @ + amount]]
Refuse(r) == req' = [req EXCEPT ![r].pc = "refused"]

Alone == Overlap \/ \A r \in Requests : ~Active(r)

Init ==
    /\ shelf = Products
    /\ stock = Opening
    /\ price \in [Products -> Prices]
    /\ total = [l \in Buyers \X Farmers |-> 0]
    /\ used = [l \in Buyers \X Farmers |-> 0]
    /\ orders = [r \in Requests |-> NoOrder]
    /\ told = [r \in Requests |-> {}]
    /\ intents = [r \in Requests |-> 0]
    /\ held = [x \in Products |-> Free]
    /\ page = [x \in Products |-> Closed]
    /\ form = [x \in Products |-> Closed]
    /\ req = [r \in Requests |->
                 [pc |-> "idle", k |-> 1, sum |-> 0, available |-> 0, credit |-> 0, card |-> 0]]

-----------------------------------------------------------------------------
(* Before the transaction: nothing that is read here is protected later.   *)

Receive(r) ==
    /\ Alone /\ Busy(r, "idle")
    /\ Goto(r, "check")
    /\ UNCHANGED <<products, loans, orders, told, intents, held, page, form>>

CheckStock(r) ==
    /\ Busy(r, "check") /\ ~Done(r)
    /\ LET i == Here(r) IN
       IF i.product \in shelf /\ stock[i.product] >= i.quantity
       THEN More(r, 0) ELSE Refuse(r)
    /\ UNCHANGED <<products, loans, orders, told, intents, held, page, form>>

(* Fault: what was used of the loan is forgotten.                          *)
ReadLoanGranted(r) ==
    /\ Busy(r, "check") /\ Done(r)
    /\ req' = [req EXCEPT ![r] = [req[r] EXCEPT !.pc = "quote", !.k = 1,
           !.available = IF WithLoan(r) THEN total[Loan(r)] ELSE 0]]
    /\ UNCHANGED <<products, loans, orders, told, intents, held, page, form>>

(* Only the first item decides whose loan it is.                           *)
ReadLoan(r) ==
    /\ Busy(r, "check") /\ Done(r)
    /\ req' = [req EXCEPT ![r] = [req[r] EXCEPT !.pc = "quote", !.k = 1,
           !.available = IF WithLoan(r) THEN total[Loan(r)] - used[Loan(r)] ELSE 0]]
    /\ UNCHANGED <<products, loans, orders, told, intents, held, page, form>>

(* A product that was deleted since then has no price to read.             *)
ReadPrice(r) ==
    /\ Busy(r, "quote") /\ ~Done(r)
    /\ LET i == Here(r) IN
       IF i.product \in shelf THEN More(r, price[i.product] * i.quantity) ELSE Refuse(r)
    /\ UNCHANGED <<products, loans, orders, told, intents, held, page, form>>

(* An overdrawn loan leaves less than nothing available.                   *)
CreditFor(r) == IF WithLoan(r) THEN Min({req[r].available, Gross(req[r].sum)}) ELSE 0

(* Fault: the tax is left out of the amount for the card.                  *)
CreateIntentUntaxed(r) ==
    /\ Busy(r, "quote") /\ Done(r)
    /\ LET credit == CreditFor(r)
           card == Gross(req[r].sum) - Tax(req[r].sum) - credit IN
       /\ intents' = [intents EXCEPT ![r] = card]
       /\ req' = [req EXCEPT ![r] = [req[r] EXCEPT !.pc = "reserve", !.k = 1, !.sum = 0,
                                                   !.credit = credit, !.card = card]]
    /\ UNCHANGED <<products, loans, orders, told, held, page, form>>

(* Fault: the loan is charged with the payment intent and not the order.   *)
CreateIntentSpends(r) ==
    /\ Busy(r, "quote") /\ Done(r)
    /\ LET credit == CreditFor(r)
           card == Gross(req[r].sum) - credit IN
       /\ intents' = [intents EXCEPT ![r] = card]
       /\ used' = IF credit > 0 THEN [used EXCEPT ![Loan(r)] = @ + credit] ELSE used
       /\ req' = [req EXCEPT ![r] = [req[r] EXCEPT !.pc = "reserve", !.k = 1, !.sum = 0,
                                                   !.credit = credit, !.card = card]]
    /\ UNCHANGED <<products, total, orders, told, held, page, form>>

CreateIntent(r) ==
    /\ Busy(r, "quote") /\ Done(r)
    /\ LET credit == CreditFor(r)
           card == Gross(req[r].sum) - credit IN
       /\ intents' = [intents EXCEPT ![r] = card]
       /\ req' = [req EXCEPT ![r] = [req[r] EXCEPT !.pc = "reserve", !.k = 1, !.sum = 0,
                                                   !.credit = credit, !.card = card]]
    /\ UNCHANGED <<products, loans, orders, told, held, page, form>>

(* Stripe fails to create it.                                              *)
IntentRefused(r) ==
    /\ Faults /\ Busy(r, "quote") /\ Done(r)
    /\ CreditFor(r) < Gross(req[r].sum)
    /\ Refuse(r)
    /\ UNCHANGED <<products, loans, orders, told, intents, held, page, form>>

-----------------------------------------------------------------------------
(* The transaction.                                                        *)

Release(r) == held' = [x \in Products |-> IF held[x].by = r THEN Free ELSE held[x]]

(* Fault: the stock read before the transaction is trusted.                *)
ReserveUnchecked(r) ==
    /\ Busy(r, "reserve") /\ ~Done(r)
    /\ LET i == Here(r)
           x == i.product IN
       /\ held[x].by \in {Nobody, r}
       /\ held' = [held EXCEPT ![x] = [by |-> r, units |-> held[x].units + i.quantity]]
       /\ More(r, price[x] * i.quantity)
    /\ UNCHANGED <<products, loans, orders, told, intents, page, form>>

(* Fault: without stock the transaction returns instead of throwing.       *)
ReserveKeeps(r) ==
    /\ Busy(r, "reserve") /\ ~Done(r)
    /\ LET i == Here(r)
           x == i.product IN
       /\ held[x].by \in {Nobody, r}
       /\ IF x \in shelf /\ stock[x] - held[x].units >= i.quantity
          THEN /\ held' = [held EXCEPT ![x] = [by |-> r, units |-> held[x].units + i.quantity]]
               /\ More(r, price[x] * i.quantity)
               /\ UNCHANGED stock
          ELSE /\ stock' = [y \in Products |->
                               IF held[y].by = r THEN stock[y] - held[y].units ELSE stock[y]]
               /\ Release(r) /\ Refuse(r)
    /\ UNCHANGED <<shelf, price, loans, orders, told, intents, page, form>>

(* Fault: the transaction is tried again until there is enough stock.      *)
ReserveRetries(r) ==
    /\ Busy(r, "reserve") /\ ~Done(r)
    /\ LET i == Here(r)
           x == i.product IN
       /\ held[x].by \in {Nobody, r}
       /\ IF x \in shelf /\ stock[x] - held[x].units >= i.quantity
          THEN /\ held' = [held EXCEPT ![x] = [by |-> r, units |-> held[x].units + i.quantity]]
               /\ More(r, price[x] * i.quantity)
          ELSE Release(r) /\ req' = [req EXCEPT ![r].k = 1, ![r].sum = 0]
    /\ UNCHANGED <<products, loans, orders, told, intents, page, form>>

(* updateMany takes the units if that many are left, and waits for the row *)
(* while another transaction holds it.  The price is read anew.            *)
Reserve(r) ==
    /\ Busy(r, "reserve") /\ ~Done(r)
    /\ LET i == Here(r)
           x == i.product IN
       /\ held[x].by \in {Nobody, r}
       /\ IF x \in shelf /\ stock[x] - held[x].units >= i.quantity
          THEN /\ held' = [held EXCEPT ![x] = [by |-> r, units |-> held[x].units + i.quantity]]
               /\ More(r, price[x] * i.quantity)
          ELSE Release(r) /\ Refuse(r)
    /\ UNCHANGED <<products, loans, orders, told, intents, page, form>>

Waits(r) == Busy(r, "reserve") /\ ~Done(r)
Blocker(r) == held[Here(r).product].by

(* Postgres aborts a transaction of a cycle of waiting ones.               *)
BreakDeadlock(r) ==
    /\ \E S \in SUBSET Requests :
          /\ r \in S
          /\ \A s \in S : Waits(s) /\ Blocker(s) \in S \ {s}
          /\ \A s, t \in S : Blocker(s) = Blocker(t) => s = t
    /\ Release(r) /\ Refuse(r)
    /\ UNCHANGED <<products, loans, orders, told, intents, page, form>>

(* Fault: the seller is told of orders that are paid only.                 *)
NotifyPaid(r) ==
    /\ Busy(r, "reserve") /\ Done(r)
    /\ told' = [told EXCEPT ![r] =
           IF Items(r) = <<>> \/ req[r].card > 0
           THEN @ ELSE @ \cup {Owner[At(r, Len(Items(r))).product]}]
    /\ req' = [req EXCEPT ![r].pc = "commit"]
    /\ UNCHANGED <<products, loans, orders, intents, held, page, form>>

(* The order, its items, the loan, the escrow and its ledger are written,  *)
(* not yet visible; the notification is written by the service's own       *)
(* client, to the owner of the last item, and stays whatever comes.        *)
Notify(r) ==
    /\ Busy(r, "reserve") /\ Done(r)
    /\ told' = [told EXCEPT ![r] =
           IF Items(r) = <<>> THEN @ ELSE @ \cup {Owner[At(r, Len(Items(r))).product]}]
    /\ req' = [req EXCEPT ![r].pc = "commit"]
    /\ UNCHANGED <<products, loans, orders, intents, held, page, form>>

Commit(r) ==
    /\ Busy(r, "commit")
    /\ stock' = [x \in Products |->
                    IF held[x].by = r THEN stock[x] - held[x].units ELSE stock[x]]
    /\ IF req[r].credit > 0
       THEN used' = [used EXCEPT ![Loan(r)] = @ + req[r].credit]
       ELSE UNCHANGED used
    /\ orders' = [orders EXCEPT ![r] =
           [subtotal |-> req[r].sum, credit |-> req[r].credit, card |-> req[r].card,
            placed |-> TRUE]]
    /\ Release(r)
    /\ req' = [req EXCEPT ![r].pc = "placed"]
    /\ UNCHANGED <<shelf, price, total, told, intents, page, form>>

(* A request dies between two steps; an open transaction rolls back.       *)
Abort(r) ==
    /\ Faults /\ Active(r)
    /\ Release(r) /\ Refuse(r)
    /\ UNCHANGED <<products, loans, orders, told, intents, page, form>>

-----------------------------------------------------------------------------
(* The farmer's side: one statement each, which waits for a locked row.    *)

Unlocked(x) == x \in shelf /\ held[x].by = Nobody

(* PATCH /products/:id with a price only.                                  *)
EditPrice(x, p) ==
    /\ Alone /\ Unlocked(x)
    /\ price' = [price EXCEPT ![x] = p]
    /\ UNCHANGED <<shelf, stock, loans, orders, told, intents, held, page, form, req>>

(* A farmer loads the page of the products, first and after every change,  *)
(* which is a request of its own.  (Not without changes to make.)          *)
GetMyProducts(f) ==
    /\ Alone /\ Changes # {}
    /\ page' = [x \in Products |->
           IF Owner[x] # f THEN page[x] ELSE IF x \in shelf THEN stock[x] ELSE Closed]
    /\ UNCHANGED <<products, loans, orders, told, intents, held, form, req>>

(* A product's edit form starts from what the page lists and sends that    *)
(* back with the farmer's change, whatever was sold meanwhile, and with a  *)
(* price.  It lies over the page: one is open at a time.                   *)
OpenForm(x) ==
    /\ Alone /\ page[x] # Closed
    /\ \A y \in Products : Owner[y] = Owner[x] => form[y] = Closed
    /\ form' = [form EXCEPT ![x] = page[x]]
    /\ UNCHANGED <<products, loans, orders, told, intents, held, page, req>>

CloseForm(x) ==
    /\ Alone /\ form[x] # Closed
    /\ form' = [form EXCEPT ![x] = Closed]
    /\ UNCHANGED <<products, loans, orders, told, intents, held, page, req>>

SaveForm(x, change, p) ==
    /\ Alone /\ Unlocked(x) /\ form[x] # Closed
    /\ form[x] + change \in 0..MaxStock
    /\ stock' = [stock EXCEPT ![x] = form[x] + change]
    /\ price' = [price EXCEPT ![x] = p]
    /\ form' = [form EXCEPT ![x] = Closed]
    /\ UNCHANGED <<shelf, loans, orders, told, intents, held, page, req>>

(* DELETE /products/:id fails while an order item refers to the product.   *)
Ordered(x) ==
    \E r \in Requests : orders[r].placed /\ \E i \in 1..Len(Items(r)) : At(r, i).product = x

Remove(x) ==
    /\ Alone /\ Unlocked(x) /\ ~Ordered(x)
    /\ shelf' = shelf \ {x}
    /\ UNCHANGED <<stock, price, loans, orders, told, intents, held, page, form, req>>

(* acceptCredit() raises the loan, see Credits.                            *)
Grant(l, amount) ==
    /\ Alone /\ total[l] + amount <= MaxCredit
    /\ total' = [total EXCEPT ![l] = @ + amount]
    /\ UNCHANGED <<products, used, orders, told, intents, held, page, form, req>>

-----------------------------------------------------------------------------
Step(r) ==
    \/ CheckStock(r) \/ ReadLoan(r) \/ ReadPrice(r) \/ CreateIntent(r) \/ IntentRefused(r)
    \/ Reserve(r) \/ BreakDeadlock(r) \/ Notify(r) \/ Commit(r)

Next ==
    \/ \E r \in Requests : Receive(r) \/ Step(r) \/ Abort(r)
    \/ \E f \in Farmers : GetMyProducts(f)
    \/ \E x \in Products : OpenForm(x) \/ CloseForm(x) \/ Remove(x)
    \/ \E x \in Products, p \in Prices : EditPrice(x, p)
    \/ \E x \in Products, change \in Changes, p \in Prices : SaveForm(x, change, p)
    \/ \E l \in Buyers \X Farmers, amount \in Grants : Grant(l, amount)

Spec == Init /\ [][Next]_vars

(* A handler goes on unless it waits for a row, and Postgres sees to it    *)
(* that no cycle of transactions waits for ever.                           *)
FairSpec == Spec /\ \A r \in Requests : WF_vars(Step(r))

-----------------------------------------------------------------------------
(* Type invariant; in particular the stock is never negative.              *)
Stages == {"idle", "check", "quote", "reserve", "commit", "placed", "refused"}

TypeOK ==
    /\ shelf \subseteq Products
    /\ stock \in [Products -> Nat]
    /\ price \in [Products -> Prices]
    /\ total \in [Buyers \X Farmers -> Nat] /\ used \in [Buyers \X Farmers -> Nat]
    /\ orders \in [Requests -> [subtotal : Nat, credit : Int, card : Nat, placed : BOOLEAN]]
    /\ told \in [Requests -> SUBSET Farmers]
    /\ intents \in [Requests -> Nat]
    /\ held \in [Products -> [by : Requests \cup {Nobody}, units : Nat]]
    /\ page \in [Products -> Nat \cup {Closed}]
    /\ form \in [Products -> Nat \cup {Closed}]
    /\ req \in [Requests -> [pc : Stages, k : Nat \ {0}, sum : Nat, available : Int,
                             credit : Int, card : Nat]]

-----------------------------------------------------------------------------
(* What holds however requests interleave, wait for each other or die.     *)

Placed == {r \in Requests : orders[r].placed}
Units(r) == [i \in 1..Len(Items(r)) |-> At(r, i).quantity]
Quantity(r, x) ==
    SumFunctionOnSet(Units(r), {i \in 1..Len(Items(r)) : At(r, i).product = x})
Sold(x) == SumFunctionOnSet([r \in Requests |-> Quantity(r, x)], Placed)

(* What is left and what was sold add up to what the farmer put on sale:   *)
(* nothing is sold twice, and a checkout that fails after it took some of  *)
(* its items gives them back.  (Of products whose stock no form changes: a *)
(* form writes the stock of the page's load, whatever was sold since.)     *)
StockIsConserved == \A x \in Products : stock[x] + Sold(x) = Opening[x]

(* A loan is charged for the orders that exist, whether or not requests    *)
(* read it at the same time, were refused or died.                         *)
LoanIsSpentByOrders ==
    \A l \in Buyers \X Farmers :
        used[l] = SumFunctionOnSet([r \in Requests |-> orders[r].credit],
                                   {r \in Placed : orders[r].credit > 0 /\ Loan(r) = l})

Owners(r) == {Owner[At(r, i).product] : i \in 1..Len(Items(r))}

(* A farmer whose products alone were ordered is told of the order.        *)
SellersAreTold == \A r \in Placed, f \in Farmers : Owners(r) = {f} => f \in told[r]

-----------------------------------------------------------------------------
(* What holds as long as checkouts and edits do not overlap.               *)

(* The loan never pays more than was granted.                              *)
CreditWithinLoan == \A l \in Buyers \X Farmers : used[l] <= total[l]

(* Loan and card together pay what the order's items cost with the tax:    *)
(* the prices of the quote are those the items are sold at.                *)
PaidInFull ==
    \A r \in Placed :
        /\ orders[r].credit >= 0
        /\ orders[r].credit + orders[r].card = Gross(orders[r].subtotal)
        /\ orders[r].card = intents[r]

-----------------------------------------------------------------------------
(* Liveness, under FairSpec: every checkout is answered, also when two of  *)
(* them want the same products in opposite order.                          *)
CheckoutEnds == \A r \in Requests : Active(r) ~> ~Active(r)
=============================================================================
