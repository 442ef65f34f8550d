-------------------------------- MODULE Shop --------------------------------
(***************************************************************************)
(* The retailer's cart and the pages that order from it.  The cart lives   *)
(* in each tab of the browser and, per user, in its local storage; "order" *)
(* copies one farmer's part of it into the tab's session storage, where    *)
(* the checkout page finds it.                                             *)
(***************************************************************************)
EXTENDS Integers, Sequences, FiniteSets, Functions

CONSTANTS
    Users,      \* retailers who share the browser
    Tabs,       \* tabs of the browser
    Products,   \* products of the market
    Farmers,    \* their owners
    FarmerOf,   \* farmer of a product
    Stock,      \* stock the market showed
    NoOne,      \* nobody signed in, and no group to order
    MaxQty,     \* bound: pieces in a cart
    MaxOrders,  \* bound: orders made
    Faults      \* TRUE when answers may be lost

ASSUME ShopAssumption ==
    /\ FarmerOf \in [Products -> Farmers] /\ Stock \in [Products -> Nat]
    /\ MaxQty \in Nat /\ MaxOrders \in Nat /\ Faults \in BOOLEAN

VARIABLES
    session,    \* user of the browser's cookie
    storage,    \* local storage: a cart per user
    tab,        \* React's state and the session storage of a tab
    orders,     \* orders made by the pages
    wanted      \* history: the cart each user made

vars == <<session, storage, tab, orders, wanted>>

Cart == [Products -> 0 .. MaxQty]
Empty == [p \in Products |-> 0]
Group == [farmer : Farmers, items : Cart]
NoGroup == [farmer |-> NoOne, items |-> Empty]
NoCall == [pc |-> "idle", farmer |-> NoOne, items |-> Empty, heard |-> "gone", order |-> 0]
Call == [pc : {"idle", "sent", "made", "refused"}, farmer : Farmers \cup {NoOne}, items : Cart,
         heard : {"page", "app", "gone"}, order : 0 .. MaxOrders]
NoPay == [pc |-> "idle", order |-> 0]
Pay == [pc : {"idle", "asked", "left", "succeeded", "processing"}, order : 0 .. MaxOrders]
Tab == [user : Users \cup {NoOne}, hydrated : BOOLEAN, items : Cart, flush : BOOLEAN,
        group : Group \cup {NoGroup}, page : {"auth", "market", "checkout", "success"}, step : 0 .. 3,
        list : Group \cup {NoGroup}, call : Call, order : 0 .. MaxOrders, pay : Pay]
Order == [items : Cart, status : {"unpaid", "processing", "paid", "covered"}]

-----------------------------------------------------------------------------
InStock(p) == Stock[p] > 0
InCart(items) == {p \in Products : items[p] > 0}
GroupedByFarmer(items, f) == [p \in Products |-> IF FarmerOf[p] = f THEN items[p] ELSE 0]
Without(items, f) == [p \in Products |-> IF FarmerOf[p] = f THEN 0 ELSE items[p]]

HasRoom(items) == SumFunction(items) < MaxQty
OrdersOpen == Cardinality({t \in Tabs : tab[t].call.pc = "sent"}) + Len(orders)

(* The checkout page takes its group when it is mounted, and only then.    *)
Market(r) == [r EXCEPT !.page = "market", !.step = 0, !.list = NoGroup, !.order = 0]
Mount(r) ==
    IF r.group = NoGroup THEN Market(r)
    ELSE [r EXCEPT !.page = "checkout", !.step = 1, !.list = r.group, !.order = 0]
Unheard(r, who) == [r EXCEPT !.call.heard = IF r.call.heard = "page" THEN who ELSE @]

(* A tab just loaded: its session is not known yet, and no answer to what  *)
(* it asked before is heard.                                               *)
Loaded(r) ==
    [r EXCEPT !.user = NoOne, !.hydrated = FALSE, !.items = Empty, !.flush = FALSE, !.call.heard = "gone",
        !.pay = IF @.pc \in {"asked", "left"} THEN [@ EXCEPT !.pc = "left"] ELSE NoPay]

Set(t, r) == tab' = [tab EXCEPT ![t] = r]

Init ==
    /\ session = NoOne
    /\ storage = [u \in Users |-> Empty] /\ wanted = storage
    /\ tab = [t \in Tabs |->
                [user |-> NoOne, hydrated |-> FALSE, items |-> Empty, flush |-> FALSE, group |-> NoGroup,
                 page |-> "auth", step |-> 0, list |-> NoGroup, call |-> NoCall, order |-> 0, pay |-> NoPay]]
    /\ orders = <<>>

-----------------------------------------------------------------------------
(* Coming and going.                                                       *)
SignIn(t, u) ==
    /\ session = NoOne
    /\ session' = u
    /\ Set(t, Loaded(Market(tab[t])))
    /\ UNCHANGED <<storage, orders, wanted>>

SignOut ==
    /\ session # NoOne
    /\ session' = NoOne
    /\ UNCHANGED <<storage, tab, orders, wanted>>

(* The layout sends whoever is not signed in away; the success page reads  *)
(* its order from the address.                                             *)
Reload(t) ==
    /\ Set(t, Loaded(IF session = NoOne THEN [Market(tab[t]) EXCEPT !.page = "auth"]
                     ELSE IF tab[t].page = "checkout" THEN Mount(tab[t])
                     ELSE IF tab[t].page = "success" THEN tab[t]
                     ELSE Market(tab[t])))
    /\ UNCHANGED <<session, storage, orders, wanted>>

(* Fault: the cart is written before it was read.                          *)
SeeSessionUnread(t) ==
    LET r == tab[t] IN
    /\ r.user # session
    /\ storage' = IF session # NoOne THEN [storage EXCEPT ![session] = r.items] ELSE storage
    /\ Set(t, [r EXCEPT !.user = session, !.hydrated = session # NoOne, !.flush = TRUE,
                  !.items = IF session = NoOne THEN Empty ELSE storage'[session]])
    /\ UNCHANGED <<session, orders, wanted>>

(* The tab learns who is signed in.  Both effects of that render run: the  *)
(* first reads the new user's cart, the second writes what was rendered.   *)
SeeSession(t) ==
    LET r == tab[t] IN
    /\ r.user # session
    /\ storage' = IF r.hydrated /\ session # NoOne THEN [storage EXCEPT ![session] = r.items] ELSE storage
    /\ Set(t, [r EXCEPT !.user = session, !.hydrated = session # NoOne, !.flush = TRUE,
                  !.items = IF session = NoOne THEN Empty ELSE storage[session]])
    /\ UNCHANGED <<session, orders, wanted>>

Writes(r) == IF r.hydrated THEN [storage EXCEPT ![r.user] = r.items] ELSE storage

(* The effects of the render after that.                                   *)
Flush(t) ==
    /\ tab[t].flush
    /\ storage' = Writes(tab[t])
    /\ Set(t, [tab[t] EXCEPT !.flush = FALSE])
    /\ UNCHANGED <<session, orders, wanted>>

-----------------------------------------------------------------------------
(* The cart.  A click is rendered, and its effects run, before the next.   *)
Wants(r, items) ==
    IF r.hydrated
    THEN [wanted EXCEPT ![r.user] = [p \in Products |-> wanted[r.user][p] + items[p] - r.items[p]]]
    ELSE wanted
Changed(t, items) ==
    LET r == [tab[t] EXCEPT !.items = items] IN
    /\ Set(t, r)
    /\ storage' = Writes(r)
    /\ wanted' = Wants(tab[t], items)
    /\ UNCHANGED <<session, orders>>

AddItem(t, p) ==
    /\ tab[t].page = "market" /\ InStock(p) /\ HasRoom(tab[t].items)
    /\ Changed(t, [tab[t].items EXCEPT ![p] = @ + 1])

UpdateQty(t, p) ==
    /\ tab[t].items[p] > 0
    /\ \/ Changed(t, [tab[t].items EXCEPT ![p] = @ - 1])
       \/ /\ tab[t].items[p] < Stock[p] /\ HasRoom(tab[t].items)
          /\ Changed(t, [tab[t].items EXCEPT ![p] = @ + 1])

RemoveItem(t, p) ==
    /\ tab[t].items[p] > 0
    /\ Changed(t, [tab[t].items EXCEPT ![p] = 0])

ClearFarmerCart(t, f) ==
    /\ InCart(GroupedByFarmer(tab[t].items, f)) # {}
    /\ Changed(t, Without(tab[t].items, f))

(* Fault: the whole cart goes into the farmer's group.                     *)
HandleOrderAll(t, f) ==
    /\ InCart(GroupedByFarmer(tab[t].items, f)) # {}
    /\ LET r == [tab[t] EXCEPT !.group = [farmer |-> f, items |-> tab[t].items]]
       IN Set(t, IF r.page = "checkout" THEN r ELSE Mount(r))
    /\ UNCHANGED <<session, storage, orders, wanted>>

(* A checkout page that is already there is not mounted again.             *)
HandleOrder(t, f) ==
    /\ InCart(GroupedByFarmer(tab[t].items, f)) # {}
    /\ LET r == [tab[t] EXCEPT !.group = [farmer |-> f, items |-> GroupedByFarmer(tab[t].items, f)]]
       IN Set(t, IF r.page = "checkout" THEN r ELSE Mount(r))
    /\ UNCHANGED <<session, storage, orders, wanted>>

-----------------------------------------------------------------------------
(* The checkout page.                                                      *)
OnlyTab == UNCHANGED <<session, storage, orders, wanted>>

OpenCheckout(t) == tab[t].page \in {"market", "success"} /\ Set(t, Mount(tab[t])) /\ OnlyTab
Leave(t) == tab[t].page \in {"checkout", "success"} /\ Set(t, Unheard(Market(tab[t]), "app")) /\ OnlyTab

(* The page's own copy is edited; without items it shows a spinner.        *)
ChangeItems(t, p) ==
    /\ tab[t].step = 1
    /\ LET q == tab[t].list.items[p] IN
       /\ q > 0
       /\ \E n \in {0} \cup (IF q > 1 THEN {q - 1} ELSE {}) \cup (IF q < Stock[p] THEN {q + 1} ELSE {}) :
             (n < q \/ HasRoom(tab[t].list.items)) /\ Set(t, [tab[t] EXCEPT !.list.items[p] = n])
    /\ OnlyTab

CanProceed(items) == InCart(items) # {} /\ \A p \in Products : items[p] <= Stock[p]
OnNext(t) ==
    /\ tab[t].step = 1 /\ CanProceed(tab[t].list.items)
    /\ Set(t, [tab[t] EXCEPT !.step = 2])
    /\ OnlyTab
OnBack(t) ==
    /\ tab[t].step = 2
    /\ Set(t, [tab[t] EXCEPT !.step = 1])
    /\ OnlyTab

(* A form filled in, and a button that waits for its answer.               *)
HandleSubmit(r) == r.step = 2 /\ r.call.pc = "idle"

(* Refused when nobody is signed in.  Bound: one order under way per tab.  *)
HandleConfirmOrder(t) ==
    /\ HandleSubmit(tab[t]) /\ OrdersOpen < MaxOrders
    /\ Set(t, [tab[t] EXCEPT !.call = [pc |-> IF session = NoOne THEN "refused" ELSE "sent",
                  farmer |-> tab[t].list.farmer, items |-> tab[t].list.items, heard |-> "page", order |-> 0]])
    /\ OnlyTab

(* The farmer's credit covers the order, or leaves something to pay.       *)
AfterCredit == {"unpaid", "covered"}

(* The backend orders or refuses.                                          *)
MakeOrder(t) ==
    /\ tab[t].call.pc = "sent"
    /\ \/ /\ \E status \in AfterCredit :
                orders' = Append(orders, [items |-> tab[t].call.items, status |-> status])
          /\ Set(t, [tab[t] EXCEPT !.call.pc = "made", !.call.order = Len(orders) + 1])
       \/ Set(t, [tab[t] EXCEPT !.call.pc = "refused"]) /\ UNCHANGED orders
    /\ UNCHANGED <<session, storage, wanted>>

(* The cart loses the farmer's part, unless the tab was loaded anew; the   *)
(* page, if it is still there, goes on to the payment.                     *)
Confirmed(t) ==
    LET r == tab[t]
        items == IF r.call.heard = "gone" THEN r.items ELSE Without(r.items, r.call.farmer)
        done == [r EXCEPT !.items = items, !.call = NoCall]
    IN
    /\ r.call.pc = "made"
    /\ Set(t, IF r.call.heard = "page" THEN [done EXCEPT !.step = 3, !.order = r.call.order] ELSE done)
    /\ storage' = IF r.call.heard = "gone" THEN storage ELSE Writes(done)
    /\ wanted' = Wants(r, items)
    /\ UNCHANGED <<session, orders>>

(* Refused, or made and the answer lost: the page shows an error.          *)
ConfirmFails(t) ==
    /\ tab[t].call.pc = "refused" \/ (Faults /\ tab[t].call.pc = "made")
    /\ Set(t, [tab[t] EXCEPT !.call = NoCall])
    /\ OnlyTab

-----------------------------------------------------------------------------
(* Payment.  The form asks Stripe and waits, with the rest of the page and *)
(* the drawer alive; whatever answers then has the callbacks of the page   *)
(* that asked, which remove the group stored by now and leave the page     *)
(* shown by now.                                                           *)
Succeeded(r, n) ==
    [Unheard(r, "app") EXCEPT !.group = NoGroup, !.page = "success", !.step = 0, !.list = NoGroup, !.order = n]
Status(n, status) == orders' = [orders EXCEPT ![n].status = status]

HandleCreditSuccess(t) ==
    /\ tab[t].step = 3 /\ orders[tab[t].order].status = "covered"
    /\ Set(t, Succeeded(tab[t], tab[t].order))
    /\ OnlyTab

(* Bound: one payment under way per tab.                                   *)
HandlePayment(t) ==
    /\ tab[t].step = 3 /\ orders[tab[t].order].status # "covered" /\ tab[t].pay.pc = "idle"
    /\ Set(t, [tab[t] EXCEPT !.pay = [pc |-> "asked", order |-> tab[t].order]])
    /\ OnlyTab

(* Stripe takes a payment once, and an error is only shown.  A tab loaded  *)
(* anew does not hear of it.                                               *)
Answer(t, pc) == Set(t, [tab[t] EXCEPT !.pay = IF @.pc = "left" THEN NoPay ELSE [@ EXCEPT !.pc = pc]])
ConfirmCardPayment(t) ==
    LET n == tab[t].pay.order IN
    /\ tab[t].pay.pc \in {"asked", "left"}
    /\ \/ orders[n].status = "unpaid" /\ Status(n, "paid") /\ Answer(t, "succeeded")
       \/ orders[n].status = "unpaid" /\ Status(n, "processing") /\ Answer(t, "processing")
       \/ UNCHANGED orders /\ Set(t, [tab[t] EXCEPT !.pay = NoPay])
    /\ UNCHANGED <<session, storage, wanted>>

(* Fault: a payment that did not fail has succeeded.                       *)
HandleAnswerUnchecked(t) ==
    LET r == [tab[t] EXCEPT !.pay = NoPay] IN
    /\ \/ tab[t].pay.pc \in {"succeeded", "processing"} /\ Set(t, Succeeded(r, tab[t].pay.order))
       \/ Faults /\ tab[t].pay.pc \in {"succeeded", "processing"} /\ Set(t, r)
    /\ OnlyTab

(* Without an answer, or with another than "succeeded", the form stays.    *)
HandleAnswer(t) ==
    LET r == [tab[t] EXCEPT !.pay = NoPay] IN
    /\ \/ tab[t].pay.pc = "succeeded" /\ Set(t, Succeeded(r, tab[t].pay.order))
       \/ tab[t].pay.pc = "processing" /\ Set(t, r)
       \/ Faults /\ tab[t].pay.pc = "succeeded" /\ Set(t, r)
    /\ OnlyTab

(* A bank that took its time.                                              *)
Settle(n) ==
    /\ orders[n].status = "processing"
    /\ \E status \in {"paid", "unpaid"} : Status(n, status)
    /\ UNCHANGED <<session, storage, tab, wanted>>

-----------------------------------------------------------------------------
ChangeCart(t) ==
    \/ \E p \in Products : AddItem(t, p) \/ UpdateQty(t, p) \/ RemoveItem(t, p)
    \/ \E f \in Farmers : ClearFarmerCart(t, f) \/ HandleOrder(t, f)
Checkout(t) ==
    \/ OpenCheckout(t) \/ Leave(t) \/ OnNext(t) \/ OnBack(t)
    \/ \E p \in Products : ChangeItems(t, p)
    \/ HandleConfirmOrder(t) \/ MakeOrder(t) \/ Confirmed(t) \/ ConfirmFails(t)
    \/ HandleCreditSuccess(t) \/ HandlePayment(t) \/ ConfirmCardPayment(t) \/ HandleAnswer(t)
Next ==
    \/ \E t \in Tabs :
          \/ \E u \in Users : SignIn(t, u)
          \/ Reload(t) \/ SeeSession(t) \/ Flush(t) \/ ChangeCart(t) \/ Checkout(t)
    \/ SignOut \/ \E n \in DOMAIN orders : Settle(n)
Spec == Init /\ [][Next]_vars

-----------------------------------------------------------------------------
TypeOK ==
    /\ session \in Users \cup {NoOne}
    /\ storage \in [Users -> Cart] /\ wanted \in [Users -> [Products -> Int]]
    /\ tab \in [Tabs -> Tab] /\ orders \in Seq(Order)

(* In a browser of one tab the stored cart is the one its user made since  *)
(* the first click that was rendered with it, however the tab was reloaded *)
(* and whoever used it in between (the effects of useCart).                *)
CartIsStored ==
    (\A t, u \in Tabs : t = u) =>
        /\ storage = wanted
        /\ \A t \in Tabs : tab[t].hydrated => tab[t].items = storage[tab[t].user]

(* An order holds products of one farmer, as the backend takes for         *)
(* granted, some of each and no more than the market showed: the drawer    *)
(* groups the cart and the first step holds back what exceeds the stock.   *)
OrdersAreFit ==
    \A n \in DOMAIN orders :
        /\ CanProceed(orders[n].items)
        /\ \E f \in Farmers : Without(orders[n].items, f) = Empty

(* "Order confirmed" is said of an order that is paid or covered, wherever *)
(* the tab was when the answer came and however often the page is loaded   *)
(* again, and nothing is left in that tab to be ordered once more          *)
(* (handlePayment, the callbacks of its page, the success page).           *)
SuccessIsPaid ==
    \A t \in Tabs : tab[t].page = "success" =>
        /\ tab[t].order # 0 /\ orders[tab[t].order].status \in {"paid", "covered"}
        /\ tab[t].group = NoGroup
=============================================================================
