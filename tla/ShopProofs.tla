----------------------------- MODULE ShopProofs -----------------------------
(***************************************************************************)
(* What holds of carts and orders for any tabs, users and products.  The   *)
(* pages' bounds on pieces and orders are sums and are left to TLC: here a *)
(* cart holds any number of each product.                                  *)
(***************************************************************************)
EXTENDS Shop, TLAPS

Pieces == [Products -> Nat]
SomeGroup == [farmer : Farmers \cup {NoOne}, items : Pieces]
SomeCall == [pc : {"idle", "sent", "made", "refused"}, farmer : Farmers \cup {NoOne}, items : Pieces,
             heard : {"page", "app", "gone"}, order : Nat]
SomePay == [pc : {"idle", "asked", "left", "succeeded", "processing"}, order : Nat]
SomeTab == [user : Users \cup {NoOne}, hydrated : BOOLEAN, items : Pieces, flush : BOOLEAN,
            group : SomeGroup, page : {"auth", "market", "checkout", "success"}, step : {0, 1, 2, 3},
            list : SomeGroup, call : SomeCall, order : Nat, pay : SomePay]
SomeOrder == [items : Pieces, status : {"unpaid", "processing", "paid", "covered"}]

Shape ==
    /\ session \in Users \cup {NoOne}
    /\ storage \in [Users -> Pieces] /\ wanted \in [Users -> [Products -> Int]]
    /\ tab \in [Tabs -> SomeTab] /\ orders \in Seq(SomeOrder)

(* What a tab may order, and what its pages and its call know of orders.   *)
OfOneFarmer(items) == \A p, q \in InCart(items) : FarmerOf[p] = FarmerOf[q]
Fit(r) ==
    /\ r.hydrated => r.user \in Users
    /\ OfOneFarmer(r.group.items) /\ OfOneFarmer(r.list.items)
    /\ r.step # 0 => r.page = "checkout"
    /\ r.page = "success" => r.group = NoGroup
    /\ r.step = 2 => CanProceed(r.list.items)
    /\ r.step = 3 => r.call.pc = "idle"
    /\ r.call.pc = "sent" => CanProceed(r.call.items) /\ OfOneFarmer(r.call.items)
    /\ r.call.pc # "idle" /\ r.call.heard = "page" => r.page = "checkout"
Counted(r) ==
    /\ r.call.pc = "made" => r.call.order \in DOMAIN orders
    /\ r.step = 3 => r.order \in DOMAIN orders
    /\ r.page = "success" => r.order \in DOMAIN orders /\ orders[r.order].status \in {"paid", "covered"}
    /\ r.pay.pc # "idle" => r.pay.order \in DOMAIN orders
    /\ r.pay.pc = "succeeded" => orders[r.pay.order].status = "paid"
Ordered(n) == CanProceed(orders[n].items) /\ OfOneFarmer(orders[n].items)

IInv ==
    /\ Shape
    /\ \A t \in Tabs : Fit(tab[t]) /\ Counted(tab[t])
    /\ \A n \in DOMAIN orders : Ordered(n)

-----------------------------------------------------------------------------
LEMMA EmptyFacts == Empty \in Pieces /\ InCart(Empty) = {} /\ OfOneFarmer(Empty)
BY DEF Empty, Pieces, InCart, OfOneFarmer

LEMMA NoGroupFacts == NoGroup \in SomeGroup /\ NoGroup.items = Empty
BY EmptyFacts DEF NoGroup, SomeGroup

LEMMA NoCallFacts == NoCall \in SomeCall /\ NoCall.pc = "idle"
BY EmptyFacts DEF NoCall, SomeCall

LEMMA NoPayFacts == NoPay \in SomePay /\ NoPay.pc = "idle"
BY DEF NoPay, SomePay

LEMMA InitInv == Init => IInv
<1>. SUFFICES ASSUME Init PROVE IInv
  OBVIOUS
<1>1. \A t \in Tabs : /\ tab[t] \in SomeTab /\ tab[t].group = NoGroup /\ tab[t].list = NoGroup /\ tab[t].step = 0
                      /\ tab[t].call = NoCall /\ tab[t].page = "auth" /\ ~tab[t].hydrated /\ tab[t].pay = NoPay
  BY EmptyFacts, NoGroupFacts, NoCallFacts, NoPayFacts DEF Init, SomeTab
<1>2. Shape
  <2>1. Empty \in [Products -> Int]
    BY DEF Empty
  <2>2. storage \in [Users -> Pieces] /\ wanted \in [Users -> [Products -> Int]]
    BY <2>1, EmptyFacts DEF Init
  <2>3. tab \in [Tabs -> SomeTab]
    BY <1>1 DEF Init
  <2>4. orders \in Seq(SomeOrder)
    BY DEF Init
  <2>. QED
    BY <2>2, <2>3, <2>4 DEF Init, Shape
<1>3. \A t \in Tabs : Fit(tab[t]) /\ Counted(tab[t])
  BY <1>1, EmptyFacts, NoGroupFacts, NoCallFacts, NoPayFacts DEF Fit, Counted
<1>4. DOMAIN orders = {}
  BY DEF Init
<1>. QED
  BY <1>2, <1>3, <1>4 DEF IInv

-----------------------------------------------------------------------------
(* Where the pages take a tab.                                             *)
LEMMA MarketFacts ==
    ASSUME NEW r \in SomeTab
    PROVE  /\ Market(r) \in SomeTab /\ Market(r).page = "market" /\ Market(r).step = 0 /\ Market(r).list = NoGroup
           /\ Market(r).order = 0 /\ Market(r).group = r.group /\ Market(r).call = r.call /\ Market(r).items = r.items
           /\ Market(r).hydrated = r.hydrated /\ Market(r).user = r.user /\ Market(r).flush = r.flush
           /\ Market(r).pay = r.pay
<1>1. Market(r) \in SomeTab
  BY NoGroupFacts DEF Market, SomeTab
<1>2. /\ Market(r).page = "market" /\ Market(r).step = 0 /\ Market(r).list = NoGroup
      /\ Market(r).order = 0 /\ Market(r).group = r.group /\ Market(r).call = r.call
  BY DEF Market, SomeTab
<1>3. /\ Market(r).items = r.items /\ Market(r).hydrated = r.hydrated /\ Market(r).user = r.user
      /\ Market(r).flush = r.flush /\ Market(r).pay = r.pay
  BY DEF Market, SomeTab
<1>. QED
  BY <1>1, <1>2, <1>3

LEMMA MountFacts ==
    ASSUME NEW r \in SomeTab
    PROVE  /\ Mount(r) \in SomeTab /\ Mount(r).page \in {"market", "checkout"} /\ Mount(r).step \in {0, 1}
           /\ Mount(r).list = r.group /\ Mount(r).order = 0 /\ Mount(r).group = r.group /\ Mount(r).call = r.call
           /\ Mount(r).items = r.items /\ Mount(r).hydrated = r.hydrated /\ Mount(r).user = r.user
           /\ Mount(r).flush = r.flush /\ Mount(r).pay = r.pay /\ (Mount(r).step # 0 => Mount(r).page = "checkout")
<1>1. CASE r.group = NoGroup
  BY <1>1, MarketFacts DEF Mount
<1>2. CASE r.group # NoGroup
  <2>1. Mount(r) \in SomeTab
    BY <1>2 DEF Mount, SomeTab
  <2>. QED
    BY <1>2, <2>1 DEF Mount, SomeTab
<1>. QED
  BY <1>1, <1>2

LEMMA UnheardFacts ==
    ASSUME NEW r \in SomeTab, NEW who \in {"app", "gone"}
    PROVE  /\ Unheard(r, who) \in SomeTab /\ Unheard(r, who).call.heard # "page"
           /\ Unheard(r, who).call.pc = r.call.pc /\ Unheard(r, who).call.items = r.call.items
           /\ Unheard(r, who).call.order = r.call.order /\ Unheard(r, who).page = r.page
           /\ Unheard(r, who).step = r.step /\ Unheard(r, who).list = r.list /\ Unheard(r, who).group = r.group
           /\ Unheard(r, who).order = r.order /\ Unheard(r, who).hydrated = r.hydrated
           /\ Unheard(r, who).user = r.user /\ Unheard(r, who).items = r.items
           /\ Unheard(r, who).pay = r.pay
BY DEF Unheard, SomeTab, SomeCall

LEMMA LoadedFacts ==
    ASSUME NEW r \in SomeTab
    PROVE  /\ Loaded(r) \in SomeTab /\ Loaded(r).call.heard = "gone" /\ ~Loaded(r).hydrated
           /\ Loaded(r).call.pc = r.call.pc /\ Loaded(r).call.items = r.call.items
           /\ Loaded(r).call.order = r.call.order /\ Loaded(r).page = r.page /\ Loaded(r).step = r.step
           /\ Loaded(r).list = r.list /\ Loaded(r).group = r.group /\ Loaded(r).order = r.order
           /\ Loaded(r).pay.pc # "idle" =>
                 Loaded(r).pay.pc = "left" /\ r.pay.pc # "idle" /\ Loaded(r).pay.order = r.pay.order
<1>. DEFINE p == IF r.pay.pc \in {"asked", "left"} THEN [r.pay EXCEPT !.pc = "left"] ELSE NoPay
            c == [r.call EXCEPT !.heard = "gone"]
<1>1. /\ p \in SomePay
      /\ p.pc # "idle" => p.pc = "left" /\ r.pay.pc # "idle" /\ p.order = r.pay.order
  BY NoPayFacts DEF SomeTab, SomePay
<1>2. c \in SomeCall /\ c.heard = "gone" /\ c.pc = r.call.pc /\ c.items = r.call.items /\ c.order = r.call.order
  BY DEF SomeTab, SomeCall
<1>3. Loaded(r) = [r EXCEPT !.user = NoOne, !.hydrated = FALSE, !.items = Empty, !.flush = FALSE,
                      !.call = c, !.pay = p]
  BY DEF Loaded
<1>. HIDE DEF p, c
<1>. QED
  BY <1>1, <1>2, <1>3, EmptyFacts DEF SomeTab

LEMMA Parts ==
    ASSUME NEW r \in SomeTab
    PROVE  /\ r.group \in SomeGroup /\ r.list \in SomeGroup /\ r.call \in SomeCall /\ r.items \in Pieces
           /\ r.pay \in SomePay
           /\ r.list.items \in Pieces /\ r.call.items \in Pieces /\ r.step \in {0, 1, 2, 3}
BY DEF SomeTab, SomeGroup, SomeCall

LEMMA Here ==
    ASSUME IInv, NEW t \in Tabs
    PROVE  tab[t] \in SomeTab /\ Fit(tab[t]) /\ Counted(tab[t])
BY DEF IInv, Shape

(* A step that makes and pays no order.                                    *)
Elsewhere ==
    /\ session' \in Users \cup {NoOne} /\ storage' \in [Users -> Pieces]
    /\ wanted' \in [Users -> [Products -> Int]] /\ orders' = orders

LEMMA Untouched == ASSUME IInv, OnlyTab PROVE Elsewhere
BY DEF IInv, Shape, OnlyTab, Elsewhere

LEMMA TabStep ==
    ASSUME IInv, NEW t \in Tabs, NEW r \in SomeTab, Set(t, r), Elsewhere, Fit(r), Counted(r)
    PROVE  IInv'
<1>1. tab'[t] = r /\ \A u \in Tabs \ {t} : tab'[u] = tab[u]
  BY DEF Set, IInv, Shape
<1>2. tab' \in [Tabs -> SomeTab]
  BY DEF Set, IInv, Shape
<1>3. Shape'
  BY <1>2 DEF Elsewhere, IInv, Shape
<1>4. \A u \in Tabs : Fit(tab[u])' /\ Counted(tab[u])'
  BY <1>1 DEF Elsewhere, IInv, Fit, Counted
<1>. QED
  BY <1>3, <1>4 DEF Elsewhere, IInv, Ordered

(* Only the session, the cart and its effects change.                      *)
LEMMA CartStep ==
    ASSUME IInv, NEW t \in Tabs, NEW r \in SomeTab, Set(t, r), Elsewhere, r.hydrated => r.user \in Users,
           r.group = tab[t].group, r.list = tab[t].list, r.step = tab[t].step, r.call = tab[t].call,
           r.page = tab[t].page, r.order = tab[t].order /\ r.pay = tab[t].pay
    PROVE  IInv'
<1>1. Fit(r) /\ Counted(r)
  BY Here DEF Fit, Counted
<1>. QED
  BY <1>1, TabStep

-----------------------------------------------------------------------------
(* Coming, going and the cart.                                             *)
LEMMA SignInStep == ASSUME IInv, NEW t \in Tabs, NEW u \in Users, SignIn(t, u) PROVE IInv'
<1>. DEFINE m == Market(tab[t])
            r == Loaded(m)
<1>1. /\ m \in SomeTab /\ m.page = "market" /\ m.step = 0 /\ m.list = NoGroup /\ m.group = tab[t].group
      /\ m.call = tab[t].call /\ m.order = 0 /\ m.pay = tab[t].pay
  BY Here, MarketFacts
<1>2. Set(t, r)
  BY DEF SignIn
<1>. HIDE DEF m
<1>3. /\ r \in SomeTab /\ r.page = "market" /\ r.step = 0 /\ r.list = NoGroup /\ r.group = tab[t].group
      /\ r.call.heard = "gone" /\ r.call.pc = tab[t].call.pc /\ r.call.items = tab[t].call.items
      /\ r.call.order = tab[t].call.order /\ r.order = 0 /\ ~r.hydrated
      /\ r.pay.pc # "idle" => r.pay.pc = "left" /\ tab[t].pay.pc # "idle" /\ r.pay.order = tab[t].pay.order
  BY <1>1, LoadedFacts
<1>. HIDE DEF r
<1>4. Fit(r) /\ Counted(r)
  BY <1>3, Here, NoGroupFacts, EmptyFacts DEF Fit, Counted
<1>5. Elsewhere
  BY DEF SignIn, IInv, Shape, Elsewhere
<1>. QED
  BY <1>2, <1>3, <1>4, <1>5, TabStep

(* What loading a tab anew shows.                                          *)
LEMMA ReloadStep == ASSUME IInv, NEW t \in Tabs, Reload(t) PROVE IInv'
<1>1. PICK m : /\ Set(t, Loaded(m)) /\ m \in SomeTab /\ m.step \in {0, 1} /\ m.pay = tab[t].pay
               /\ (m.page = "success" => tab[t].page = "success" /\ m.order = tab[t].order)
               /\ (m.step # 0 => m.page = "checkout")
               /\ m.list \in {NoGroup, tab[t].group, tab[t].list} /\ m.group = tab[t].group /\ m.call = tab[t].call
  <2>1. CASE session = NoOne
    <3>. DEFINE m == Market(tab[t])
                n == [m EXCEPT !.page = "auth"]
    <3>1. /\ m \in SomeTab /\ m.step = 0 /\ m.list = NoGroup /\ m.group = tab[t].group /\ m.call = tab[t].call
          /\ m.pay = tab[t].pay
      BY Here, MarketFacts
    <3>2. Set(t, Loaded(n))
      BY <2>1 DEF Reload
    <3>. HIDE DEF m
    <3>3. /\ n \in SomeTab /\ n.step = 0 /\ n.list = NoGroup /\ n.group = tab[t].group /\ n.call = tab[t].call
          /\ n.page = "auth" /\ n.pay = tab[t].pay
      BY <3>1 DEF SomeTab
    <3>. HIDE DEF n
    <3>. QED
      BY <3>2, <3>3
  <2>2. CASE session # NoOne /\ tab[t].page = "checkout"
    <3>1. Set(t, Loaded(Mount(tab[t])))
      BY <2>2 DEF Reload
    <3>. QED
      BY <3>1, Here, MountFacts
  <2>3. CASE session # NoOne /\ tab[t].page = "success"
    <3>1. Set(t, Loaded(tab[t])) /\ tab[t].step = 0
      BY <2>3, Here, Parts DEF Reload, Fit
    <3>. QED
      BY <2>3, <3>1, Here
  <2>4. CASE session # NoOne /\ tab[t].page \notin {"checkout", "success"}
    <3>1. Set(t, Loaded(Market(tab[t])))
      BY <2>4 DEF Reload
    <3>. QED
      BY <3>1, Here, MarketFacts
  <2>. QED
    BY <2>1, <2>2, <2>3, <2>4
<1>. DEFINE r == Loaded(m)
<1>2. /\ r \in SomeTab /\ r.page = m.page /\ r.step = m.step /\ r.list = m.list /\ r.group = tab[t].group
      /\ r.call.heard = "gone" /\ r.call.pc = tab[t].call.pc /\ r.call.items = tab[t].call.items
      /\ r.call.order = tab[t].call.order /\ ~r.hydrated /\ r.order = m.order
      /\ r.pay.pc # "idle" => r.pay.pc = "left" /\ tab[t].pay.pc # "idle" /\ r.pay.order = tab[t].pay.order
  BY <1>1, LoadedFacts
<1>. HIDE DEF r
<1>3. Fit(r)
  BY <1>1, <1>2, Here, NoGroupFacts, EmptyFacts DEF Fit
<1>4. Counted(r)
  BY <1>1, <1>2, Here DEF Counted
<1>5. Elsewhere
  BY DEF Reload, IInv, Shape, Elsewhere
<1>6. Set(t, r)
  BY <1>1 DEF r
<1>. QED
  BY <1>2, <1>3, <1>4, <1>5, <1>6, TabStep

LEMMA SeeSessionStep == ASSUME IInv, NEW t \in Tabs, SeeSession(t) PROVE IInv'
<1>. DEFINE items == IF session = NoOne THEN Empty ELSE storage[session]
            r == [tab[t] EXCEPT !.user = session, !.hydrated = session # NoOne, !.flush = TRUE, !.items = items]
<1>1. Set(t, r)
  BY DEF SeeSession
<1>2. items \in Pieces /\ session \in Users \cup {NoOne}
  BY EmptyFacts DEF IInv, Shape
<1>3. tab[t] \in SomeTab /\ tab[t].items \in Pieces
  BY Here, Parts
<1>. HIDE DEF items
<1>4. /\ r \in SomeTab /\ r.group = tab[t].group /\ r.list = tab[t].list /\ r.step = tab[t].step
      /\ r.call = tab[t].call /\ r.page = tab[t].page /\ r.order = tab[t].order /\ r.pay = tab[t].pay
  BY <1>2, <1>3 DEF SomeTab
<1>5. r.hydrated => r.user \in Users
  BY <1>2, <1>3 DEF SomeTab
<1>. HIDE DEF r
<1>6. Elsewhere
  <2>1. storage' \in [Users -> Pieces]
    BY <1>2, <1>3 DEF SeeSession, IInv, Shape
  <2>. QED
    BY <2>1 DEF SeeSession, IInv, Shape, Elsewhere
<1>. QED
  BY <1>1, <1>4, <1>5, <1>6, CartStep

LEMMA WritesFacts ==
    ASSUME IInv, NEW r \in SomeTab, r.hydrated => r.user \in Users
    PROVE  Writes(r) \in [Users -> Pieces]
BY Parts DEF Writes, IInv, Shape

LEMMA WantsFacts ==
    ASSUME IInv, NEW t \in Tabs, NEW items \in Pieces
    PROVE  Wants(tab[t], items) \in [Users -> [Products -> Int]]
<1>1. tab[t].items \in Pieces /\ (tab[t].hydrated => tab[t].user \in Users)
  BY Here, Parts DEF Fit
<1>2. CASE ~tab[t].hydrated
  BY <1>2 DEF Wants, IInv, Shape
<1>3. CASE tab[t].hydrated
  <2>. DEFINE u == tab[t].user
  <2>1. wanted[u] \in [Products -> Int]
    BY <1>1, <1>3 DEF IInv, Shape
  <2>2. [p \in Products |-> wanted[u][p] + items[p] - tab[t].items[p]] \in [Products -> Int]
    BY <1>1, <2>1 DEF Pieces
  <2>. QED
    BY <1>3, <2>2 DEF Wants, IInv, Shape
<1>. QED
  BY <1>2, <1>3

LEMMA FlushStep == ASSUME IInv, NEW t \in Tabs, Flush(t) PROVE IInv'
<1>. DEFINE r == [tab[t] EXCEPT !.flush = FALSE]
<1>1. tab[t] \in SomeTab /\ (tab[t].hydrated => tab[t].user \in Users)
  BY Here DEF Fit
<1>2. /\ r \in SomeTab /\ r.group = tab[t].group /\ r.list = tab[t].list /\ r.step = tab[t].step
      /\ r.call = tab[t].call /\ r.page = tab[t].page /\ r.order = tab[t].order /\ r.pay = tab[t].pay
      /\ r.hydrated = tab[t].hydrated /\ r.user = tab[t].user
  BY <1>1 DEF SomeTab
<1>3. Set(t, r)
  BY DEF Flush
<1>. HIDE DEF r
<1>4. Elsewhere
  BY <1>1, WritesFacts DEF Flush, IInv, Shape, Elsewhere
<1>. QED
  BY <1>1, <1>2, <1>3, <1>4, CartStep

LEMMA ChangedStep ==
    ASSUME IInv, NEW t \in Tabs, NEW items \in Pieces, Changed(t, items)
    PROVE  IInv'
<1>. DEFINE r == [tab[t] EXCEPT !.items = items]
<1>1. tab[t] \in SomeTab /\ (tab[t].hydrated => tab[t].user \in Users)
  BY Here DEF Fit
<1>2. /\ r \in SomeTab /\ r.group = tab[t].group /\ r.list = tab[t].list /\ r.step = tab[t].step
      /\ r.call = tab[t].call /\ r.page = tab[t].page /\ r.order = tab[t].order /\ r.pay = tab[t].pay
      /\ r.hydrated = tab[t].hydrated /\ r.user = tab[t].user
  BY <1>1 DEF SomeTab
<1>3. Set(t, r) /\ storage' = Writes(r) /\ wanted' = Wants(tab[t], items) /\ UNCHANGED <<session, orders>>
  BY DEF Changed
<1>. HIDE DEF r
<1>4. Elsewhere
  BY <1>1, <1>2, <1>3, WritesFacts, WantsFacts DEF IInv, Shape, Elsewhere
<1>. QED
  BY <1>1, <1>2, <1>3, <1>4, CartStep

LEMMA GroupFacts ==
    ASSUME NEW items \in Pieces, NEW f
    PROVE  /\ GroupedByFarmer(items, f) \in Pieces /\ OfOneFarmer(GroupedByFarmer(items, f))
           /\ Without(items, f) \in Pieces
<1>1. GroupedByFarmer(items, f) \in Pieces /\ Without(items, f) \in Pieces
  BY DEF GroupedByFarmer, Without, Pieces
<1>2. \A p \in InCart(GroupedByFarmer(items, f)) : FarmerOf[p] = f
  BY DEF GroupedByFarmer, InCart
<1>. QED
  BY <1>1, <1>2 DEF OfOneFarmer

LEMMA ChangeCartSteps == ASSUME IInv, NEW t \in Tabs, ChangeCart(t) PROVE IInv'
<1>0. tab[t] \in SomeTab /\ tab[t].items \in Pieces /\ Fit(tab[t]) /\ Counted(tab[t])
  BY Here, Parts
<1>1. ASSUME NEW p \in Products, AddItem(t, p) \/ UpdateQty(t, p) \/ RemoveItem(t, p)
      PROVE  IInv'
  <2>1. PICK items \in Pieces : Changed(t, items)
    <3>1. tab[t].items[p] \in Nat
      BY <1>0 DEF Pieces
    <3>2. /\ [tab[t].items EXCEPT ![p] = @ + 1] \in Pieces
          /\ tab[t].items[p] > 0 => [tab[t].items EXCEPT ![p] = @ - 1] \in Pieces
          /\ [tab[t].items EXCEPT ![p] = 0] \in Pieces
      BY <1>0, <3>1 DEF Pieces
    <3>. QED
      BY <1>1, <3>2 DEF AddItem, UpdateQty, RemoveItem
  <2>. QED
    BY <2>1, ChangedStep
<1>2. ASSUME NEW f \in Farmers, ClearFarmerCart(t, f) PROVE IInv'
  BY <1>0, <1>2, GroupFacts, ChangedStep DEF ClearFarmerCart
<1>3. ASSUME NEW f \in Farmers, HandleOrder(t, f) PROVE IInv'
  <2>. DEFINE g == [farmer |-> f, items |-> GroupedByFarmer(tab[t].items, f)]
              r == [tab[t] EXCEPT !.group = g]
  <2>1. g \in SomeGroup /\ OfOneFarmer(g.items)
    BY <1>0, GroupFacts DEF SomeGroup
  <2>2. Set(t, IF r.page = "checkout" THEN r ELSE Mount(r)) /\ Elsewhere
    BY <1>3, Untouched DEF HandleOrder, OnlyTab
  <2>. HIDE DEF g
  <2>3. /\ r \in SomeTab /\ r.group = g /\ r.list = tab[t].list /\ r.step = tab[t].step
        /\ r.call = tab[t].call /\ r.page = tab[t].page /\ r.order = tab[t].order /\ r.pay = tab[t].pay
        /\ r.hydrated = tab[t].hydrated /\ r.user = tab[t].user
    BY <1>0, <2>1 DEF SomeTab
  <2>. HIDE DEF r
  <2>5. CASE r.page = "checkout"
    <3>1. Fit(r) /\ Counted(r)
      BY <1>0, <2>1, <2>3, <2>5 DEF Fit, Counted
    <3>. QED
      BY <2>2, <2>3, <2>5, <3>1, TabStep
  <2>6. CASE r.page # "checkout"
    <3>. DEFINE m == Mount(r)
    <3>1. /\ m \in SomeTab /\ m.page # "success" /\ m.step \in {0, 1} /\ m.list = r.group
          /\ (m.step # 0 => m.page = "checkout")
          /\ m.group = r.group /\ m.call = r.call /\ m.hydrated = r.hydrated /\ m.user = r.user /\ m.pay = r.pay
      BY <2>3, MountFacts
    <3>2. Set(t, m)
      BY <2>2, <2>6
    <3>. HIDE DEF m
    <3>3. Fit(m) /\ Counted(m)
      BY <1>0, <2>1, <2>3, <2>6, <3>1 DEF Fit, Counted
    <3>. QED
      BY <2>2, <3>1, <3>2, <3>3, TabStep
  <2>. QED
    BY <2>5, <2>6
<1>. QED
  BY <1>1, <1>2, <1>3 DEF ChangeCart

-----------------------------------------------------------------------------
(* The checkout page.                                                      *)
LEMMA PageSteps ==
    ASSUME IInv, NEW t \in Tabs,
           OpenCheckout(t) \/ Leave(t) \/ OnNext(t) \/ OnBack(t) \/ \E p \in Products : ChangeItems(t, p)
    PROVE  IInv'
<1>0. tab[t] \in SomeTab /\ tab[t].list \in SomeGroup /\ tab[t].list.items \in Pieces
      /\ Fit(tab[t]) /\ Counted(tab[t])
  BY Here, Parts
<1>1. Elsewhere
  BY Untouched DEF OpenCheckout, Leave, OnNext, OnBack, ChangeItems, OnlyTab
<1>2. CASE OpenCheckout(t)
  <2>. DEFINE m == Mount(tab[t])
  <2>1. /\ m \in SomeTab /\ m.page # "success" /\ m.step \in {0, 1} /\ m.list = tab[t].group
        /\ (m.step # 0 => m.page = "checkout")
        /\ m.group = tab[t].group /\ m.call = tab[t].call /\ m.hydrated = tab[t].hydrated /\ m.user = tab[t].user
        /\ m.pay = tab[t].pay
    BY <1>0, MountFacts
  <2>2. Set(t, m) /\ tab[t].page # "checkout"
    BY <1>2 DEF OpenCheckout
  <2>. HIDE DEF m
  <2>3. Fit(m) /\ Counted(m)
    BY <1>0, <2>1, <2>2 DEF Fit, Counted
  <2>. QED
    BY <1>1, <2>1, <2>2, <2>3, TabStep
<1>3. CASE Leave(t)
  <2>. DEFINE m == Market(tab[t])
              r == Unheard(m, "app")
  <2>1. /\ m \in SomeTab /\ m.page = "market" /\ m.step = 0 /\ m.list = NoGroup
        /\ m.group = tab[t].group /\ m.call = tab[t].call /\ m.hydrated = tab[t].hydrated /\ m.user = tab[t].user
        /\ m.pay = tab[t].pay
    BY <1>0, MarketFacts
  <2>2. Set(t, r)
    BY <1>3 DEF Leave
  <2>. HIDE DEF m
  <2>3. /\ r \in SomeTab /\ r.page = "market" /\ r.step = 0 /\ r.list = NoGroup /\ r.group = tab[t].group
        /\ r.call.pc = tab[t].call.pc /\ r.call.items = tab[t].call.items /\ r.call.order = tab[t].call.order
        /\ r.call.heard # "page" /\ r.hydrated = tab[t].hydrated /\ r.user = tab[t].user /\ r.pay = tab[t].pay
    BY <2>1, UnheardFacts
  <2>. HIDE DEF r
  <2>4. Fit(r) /\ Counted(r)
    BY <1>0, <2>3, NoGroupFacts, EmptyFacts DEF Fit, Counted
  <2>. QED
    BY <1>1, <2>2, <2>3, <2>4, TabStep
<1>4. CASE OnNext(t) \/ OnBack(t)
  <2>1. PICK n \in {1, 2} : /\ Set(t, [tab[t] EXCEPT !.step = n]) /\ tab[t].step \in {1, 2}
                            /\ n = 2 => CanProceed(tab[t].list.items)
    BY <1>4 DEF OnNext, OnBack
  <2>. DEFINE r == [tab[t] EXCEPT !.step = n]
  <2>2. /\ r \in SomeTab /\ r.step = n /\ r.list = tab[t].list /\ r.group = tab[t].group /\ r.page = tab[t].page
        /\ r.call = tab[t].call /\ r.order = tab[t].order /\ r.pay = tab[t].pay /\ r.hydrated = tab[t].hydrated /\ r.user = tab[t].user
    BY <1>0 DEF SomeTab
  <2>. HIDE DEF r
  <2>3. Fit(r) /\ Counted(r)
    BY <1>0, <2>1, <2>2 DEF Fit, Counted
  <2>4. Set(t, r)
    BY <2>1 DEF r
  <2>. QED
    BY <1>1, <2>2, <2>3, <2>4, TabStep
<1>5. CASE \E p \in Products : ChangeItems(t, p)
  <2>1. PICK p \in Products, n \in Nat :
          tab[t].step = 1 /\ tab[t].list.items[p] > 0 /\ Set(t, [tab[t] EXCEPT !.list.items[p] = n])
    <3>1. PICK p \in Products : ChangeItems(t, p)
      BY <1>5
    <3>2. tab[t].list.items[p] \in Nat
      BY <1>0 DEF Pieces
    <3>. DEFINE q == tab[t].list.items[p]
    <3>3. PICK n \in {0} \cup (IF q > 1 THEN {q - 1} ELSE {}) \cup (IF q < Stock[p] THEN {q + 1} ELSE {}) :
             Set(t, [tab[t] EXCEPT !.list.items[p] = n])
      BY <3>1 DEF ChangeItems
    <3>4. n \in Nat
      BY <3>2
    <3>5. tab[t].step = 1 /\ q > 0
      BY <3>1 DEF ChangeItems
    <3>. QED
      BY <3>3, <3>4, <3>5
  <2>. DEFINE items == [tab[t].list.items EXCEPT ![p] = n]
              list == [tab[t].list EXCEPT !.items = items]
              r == [tab[t] EXCEPT !.list = list]
  <2>2. items \in Pieces /\ InCart(items) \subseteq InCart(tab[t].list.items)
    <3>1. items \in Pieces
      BY <1>0 DEF Pieces
    <3>. QED
      BY <1>0, <2>1, <3>1 DEF Pieces, InCart
  <2>3. Set(t, r)
    BY <2>1
  <2>. HIDE DEF items
  <2>4. list \in SomeGroup /\ list.items = items
    BY <1>0, <2>2 DEF SomeGroup
  <2>. HIDE DEF list
  <2>5. /\ r \in SomeTab /\ r.list = list /\ r.step = 1 /\ r.group = tab[t].group /\ r.page = tab[t].page
        /\ r.call = tab[t].call /\ r.order = tab[t].order /\ r.pay = tab[t].pay /\ r.hydrated = tab[t].hydrated /\ r.user = tab[t].user
    BY <1>0, <2>1, <2>4 DEF SomeTab
  <2>. HIDE DEF r
  <2>6. OfOneFarmer(r.list.items)
    BY <1>0, <2>2, <2>4, <2>5 DEF Fit, OfOneFarmer
  <2>7. Fit(r) /\ Counted(r)
    BY <1>0, <2>1, <2>5, <2>6 DEF Fit, Counted
  <2>. QED
    BY <1>1, <2>3, <2>5, <2>7, TabStep
<1>. QED
  BY <1>2, <1>3, <1>4, <1>5

(* The call that makes an order.                                           *)
LEMMA CallTab ==
    ASSUME IInv, NEW t \in Tabs, NEW c \in SomeCall
    PROVE  LET r == [tab[t] EXCEPT !.call = c] IN
           /\ r \in SomeTab /\ r.call = c /\ r.list = tab[t].list /\ r.group = tab[t].group /\ r.page = tab[t].page
           /\ r.step = tab[t].step /\ r.order = tab[t].order /\ r.pay = tab[t].pay /\ r.hydrated = tab[t].hydrated /\ r.user = tab[t].user
<1>1. tab[t] \in SomeTab
  BY Here
<1>. QED
  BY <1>1 DEF SomeTab

LEMMA HandleConfirmOrderStep == ASSUME IInv, NEW t \in Tabs, HandleConfirmOrder(t) PROVE IInv'
<1>0. tab[t] \in SomeTab /\ tab[t].list \in SomeGroup /\ Fit(tab[t]) /\ Counted(tab[t])
  BY Here, Parts
<1>. DEFINE c == [pc |-> IF session = NoOne THEN "refused" ELSE "sent",
                  farmer |-> tab[t].list.farmer, items |-> tab[t].list.items, heard |-> "page", order |-> 0]
            r == [tab[t] EXCEPT !.call = c]
<1>1. c \in SomeCall /\ c.items = tab[t].list.items /\ c.pc \in {"sent", "refused"}
  BY <1>0 DEF SomeGroup, SomeCall
<1>2. Set(t, r) /\ Elsewhere /\ tab[t].step = 2
  BY Untouched DEF HandleConfirmOrder, HandleSubmit, OnlyTab
<1>. HIDE DEF c
<1>3. /\ r \in SomeTab /\ r.call = c /\ r.list = tab[t].list /\ r.group = tab[t].group /\ r.page = tab[t].page
      /\ r.step = 2 /\ r.order = tab[t].order /\ r.pay = tab[t].pay /\ r.hydrated = tab[t].hydrated /\ r.user = tab[t].user
  BY <1>1, <1>2, CallTab
<1>. HIDE DEF r
<1>4. Counted(r)
  BY <1>0, <1>1, <1>3 DEF Counted
<1>5. tab[t].page = "checkout"
  BY <1>0, <1>2 DEF Fit
<1>6. Fit(r)
  BY <1>0, <1>1, <1>2, <1>3, <1>5 DEF Fit
<1>. QED
  BY <1>2, <1>3, <1>4, <1>6, TabStep

(* Orders are added, or paid for; what is paid stays paid.                 *)
Grows ==
    /\ UNCHANGED <<session, storage, wanted>>
    /\ orders' \in Seq(SomeOrder) /\ DOMAIN orders \subseteq DOMAIN orders'
    /\ \A n \in DOMAIN orders : orders[n].status \in {"paid", "covered"} => orders'[n].status = orders[n].status
    /\ \A n \in DOMAIN orders' : Ordered(n)'

LEMMA GrowStep ==
    ASSUME IInv, Grows, NEW t \in Tabs, NEW r \in SomeTab, Set(t, r), Fit(r), Counted(tab[t])'
    PROVE  IInv'
<1>1. tab'[t] = r /\ \A u \in Tabs \ {t} : tab'[u] = tab[u]
  BY DEF Set, IInv, Shape
<1>2. Shape'
  BY DEF Grows, Set, IInv, Shape
<1>3. \A u \in Tabs : Fit(tab[u])'
  BY <1>1 DEF IInv, Fit
<1>4. \A u \in Tabs : Counted(tab[u])'
  BY <1>1 DEF Grows, IInv, Counted
<1>. QED
  BY <1>2, <1>3, <1>4 DEF Grows, IInv

(* A status that changes, but not from paid or covered.                    *)
LEMMA StatusFacts ==
    ASSUME IInv, NEW n \in DOMAIN orders, orders[n].status \in {"unpaid", "processing"},
           NEW status \in {"unpaid", "processing", "paid"}, Status(n, status), UNCHANGED <<session, storage, wanted>>
    PROVE  Grows /\ orders'[n].status = status
<1>0. orders \in Seq(SomeOrder) /\ \A i \in DOMAIN orders : orders[i] \in SomeOrder
  BY DEF IInv, Shape
<1>. DEFINE o == [orders[n] EXCEPT !.status = status]
<1>1. o \in SomeOrder /\ o.items = orders[n].items /\ o.status = status
  BY <1>0 DEF SomeOrder
<1>2. orders' = [orders EXCEPT ![n] = o]
  BY DEF Status
<1>. HIDE DEF o
<1>3. orders' \in Seq(SomeOrder) /\ DOMAIN orders' = DOMAIN orders
  BY <1>0, <1>1, <1>2
<1>4. orders'[n] = o /\ \A i \in DOMAIN orders \ {n} : orders'[i] = orders[i]
  BY <1>0, <1>2
<1>5. \A i \in DOMAIN orders' : Ordered(i)'
  BY <1>1, <1>3, <1>4 DEF IInv, Ordered
<1>. QED
  BY <1>1, <1>3, <1>4, <1>5 DEF Grows

LEMMA MakeOrderStep == ASSUME IInv, NEW t \in Tabs, MakeOrder(t) PROVE IInv'
<1>0. /\ tab[t] \in SomeTab /\ tab[t].call \in SomeCall /\ tab[t].call.items \in Pieces
      /\ Fit(tab[t]) /\ Counted(tab[t]) /\ tab[t].call.pc = "sent"
  BY Here, Parts DEF MakeOrder
<1>1. CASE Set(t, [tab[t] EXCEPT !.call.pc = "refused"]) /\ UNCHANGED orders
  <2>. DEFINE c == [tab[t].call EXCEPT !.pc = "refused"]
              r == [tab[t] EXCEPT !.call = c]
  <2>1. c \in SomeCall /\ c.pc = "refused" /\ c.heard = tab[t].call.heard
    BY <1>0 DEF SomeCall
  <2>2. Set(t, r) /\ Elsewhere
    BY <1>1, Untouched DEF MakeOrder, OnlyTab
  <2>. HIDE DEF c
  <2>3. /\ r \in SomeTab /\ r.call = c /\ r.list = tab[t].list /\ r.group = tab[t].group /\ r.page = tab[t].page
        /\ r.step = tab[t].step /\ r.order = tab[t].order /\ r.pay = tab[t].pay /\ r.hydrated = tab[t].hydrated /\ r.user = tab[t].user
    BY <2>1, CallTab
  <2>. HIDE DEF r
  <2>4. Fit(r) /\ Counted(r)
    BY <1>0, <2>1, <2>3 DEF Fit, Counted
  <2>. QED
    BY <2>2, <2>3, <2>4, TabStep
<1>2. CASE ~(Set(t, [tab[t] EXCEPT !.call.pc = "refused"]) /\ UNCHANGED orders)
  <2>1. PICK status \in AfterCredit :
          /\ orders' = Append(orders, [items |-> tab[t].call.items, status |-> status])
          /\ Set(t, [tab[t] EXCEPT !.call.pc = "made", !.call.order = Len(orders) + 1])
    BY <1>2 DEF MakeOrder
  <2>. DEFINE c == [tab[t].call EXCEPT !.pc = "made", !.order = Len(orders) + 1]
              r == [tab[t] EXCEPT !.call = c]
              o == [items |-> tab[t].call.items, status |-> status]
  <2>2. orders \in Seq(SomeOrder) /\ Len(orders) \in Nat
    BY DEF IInv, Shape
  <2>3. c \in SomeCall /\ c.pc = "made" /\ c.order = Len(orders) + 1 /\ c.heard = tab[t].call.heard
    <3>1. \A n \in Nat : LET d == [tab[t].call EXCEPT !.pc = "made", !.order = n] IN
             d \in SomeCall /\ d.pc = "made" /\ d.order = n /\ d.heard = tab[t].call.heard
      BY <1>0 DEF SomeCall
    <3>2. Len(orders) + 1 \in Nat
      BY <2>2
    <3>. QED
      BY <3>1, <3>2
  <2>4. Set(t, r)
    BY <2>1
  <2>. HIDE DEF c
  <2>5. /\ r \in SomeTab /\ r.call = c /\ r.list = tab[t].list /\ r.group = tab[t].group /\ r.page = tab[t].page
        /\ r.step = tab[t].step /\ r.order = tab[t].order /\ r.pay = tab[t].pay /\ r.hydrated = tab[t].hydrated /\ r.user = tab[t].user
    BY <2>3, CallTab
  <2>. HIDE DEF r
  <2>6. o \in SomeOrder /\ o.items = tab[t].call.items
    BY <1>0, <2>1 DEF SomeOrder, AfterCredit
  <2>7. orders' = Append(orders, o)
    BY <2>1
  <2>. HIDE DEF o
  <2>8. /\ orders' \in Seq(SomeOrder) /\ DOMAIN orders' = 1 .. Len(orders) + 1 /\ DOMAIN orders = 1 .. Len(orders)
        /\ orders'[Len(orders) + 1] = o /\ \A n \in DOMAIN orders : orders'[n] = orders[n]
    BY <2>2, <2>6, <2>7
  <2>9. \A n \in DOMAIN orders' : Ordered(n)'
    <3>1. CanProceed(o.items) /\ OfOneFarmer(o.items)
      BY <1>0, <2>6 DEF Fit
    <3>2. \A n \in DOMAIN orders' : n \in DOMAIN orders \/ n = Len(orders) + 1
      BY <2>2, <2>8
    <3>. QED
      BY <2>8, <3>1, <3>2 DEF IInv, Ordered
  <2>10. Grows
    <3>1. DOMAIN orders \subseteq DOMAIN orders'
      BY <2>2, <2>8
    <3>. QED
      BY <2>8, <2>9, <3>1 DEF Grows, MakeOrder
  <2>11. Fit(r)
    BY <1>0, <2>3, <2>5 DEF Fit
  <2>12. Counted(tab[t])'
    <3>1. tab'[t] = r
      BY <2>4 DEF Set, IInv, Shape
    <3>2. Len(orders) + 1 \in DOMAIN orders'
      BY <2>2, <2>8
    <3>. QED
      BY <1>0, <2>3, <2>5, <2>8, <2>10, <3>1, <3>2 DEF Counted, Fit, Grows
  <2>. QED
    BY <2>4, <2>5, <2>10, <2>11, <2>12, GrowStep
<1>. QED
  BY <1>1, <1>2

LEMMA ConfirmFailsStep == ASSUME IInv, NEW t \in Tabs, ConfirmFails(t) PROVE IInv'
<1>. DEFINE r == [tab[t] EXCEPT !.call = NoCall]
<1>1. Set(t, r) /\ Elsewhere
  BY Untouched DEF ConfirmFails, OnlyTab
<1>2. /\ r \in SomeTab /\ r.call = NoCall /\ r.list = tab[t].list /\ r.group = tab[t].group /\ r.page = tab[t].page
      /\ r.step = tab[t].step /\ r.order = tab[t].order /\ r.pay = tab[t].pay /\ r.hydrated = tab[t].hydrated /\ r.user = tab[t].user
  BY NoCallFacts, CallTab
<1>. HIDE DEF r
<1>3. Fit(r) /\ Counted(r)
  BY <1>2, Here, NoCallFacts DEF Fit, Counted
<1>. QED
  BY <1>1, <1>2, <1>3, TabStep

LEMMA ConfirmedStep == ASSUME IInv, NEW t \in Tabs, Confirmed(t) PROVE IInv'
<1>. DEFINE items == IF tab[t].call.heard = "gone" THEN tab[t].items ELSE Without(tab[t].items, tab[t].call.farmer)
            done == [tab[t] EXCEPT !.items = items, !.call = NoCall]
            on == [done EXCEPT !.step = 3, !.order = tab[t].call.order]
<1>0. /\ tab[t] \in SomeTab /\ tab[t].items \in Pieces /\ tab[t].call \in SomeCall
      /\ Fit(tab[t]) /\ Counted(tab[t])
  BY Here, Parts
<1>1. items \in Pieces
  BY <1>0, GroupFacts
<1>2. /\ tab[t].call.pc = "made" /\ Set(t, IF tab[t].call.heard = "page" THEN on ELSE done)
      /\ storage' = IF tab[t].call.heard = "gone" THEN storage ELSE Writes(done)
      /\ wanted' = Wants(tab[t], items) /\ UNCHANGED <<session, orders>>
  BY DEF Confirmed
<1>. HIDE DEF items
<1>3. /\ done \in SomeTab /\ done.call = NoCall /\ done.list = tab[t].list /\ done.group = tab[t].group
      /\ done.page = tab[t].page /\ done.step = tab[t].step /\ done.order = tab[t].order /\ done.pay = tab[t].pay
      /\ done.hydrated = tab[t].hydrated /\ done.user = tab[t].user
  BY <1>0, <1>1, NoCallFacts DEF SomeTab
<1>. HIDE DEF done
<1>4. Elsewhere
  <2>1. Writes(done) \in [Users -> Pieces]
    BY <1>0, <1>3, WritesFacts DEF Fit
  <2>2. storage' \in [Users -> Pieces]
    BY <1>2, <2>1 DEF IInv, Shape
  <2>3. wanted' \in [Users -> [Products -> Int]]
    BY <1>1, <1>2, WantsFacts
  <2>. QED
    BY <1>2, <2>2, <2>3 DEF IInv, Shape, Elsewhere
<1>5. CASE tab[t].call.heard # "page"
  <2>1. Fit(done) /\ Counted(done)
    BY <1>0, <1>3, NoCallFacts DEF Fit, Counted
  <2>. QED
    BY <1>2, <1>3, <1>4, <1>5, <2>1, TabStep
<1>6. CASE tab[t].call.heard = "page"
  <2>1. tab[t].call.order \in Nat /\ tab[t].call.order \in DOMAIN orders /\ tab[t].page = "checkout"
    BY <1>0, <1>2, <1>6 DEF Counted, Fit, SomeCall
  <2>2. /\ on \in SomeTab /\ on.call = NoCall /\ on.list = tab[t].list /\ on.group = tab[t].group
        /\ on.page = "checkout" /\ on.step = 3 /\ on.order = tab[t].call.order
        /\ on.hydrated = tab[t].hydrated /\ on.user = tab[t].user /\ on.pay = tab[t].pay
    BY <1>3, <2>1 DEF SomeTab
  <2>3. Set(t, on)
    BY <1>2, <1>6
  <2>. HIDE DEF on
  <2>4. Fit(on) /\ Counted(on)
    BY <1>0, <2>1, <2>2, NoCallFacts DEF Fit, Counted
  <2>. QED
    BY <1>4, <2>2, <2>3, <2>4, TabStep
<1>. QED
  BY <1>5, <1>6

-----------------------------------------------------------------------------
(* Payment.                                                                *)
LEMMA SucceededFacts ==
    ASSUME NEW r \in SomeTab, Fit(r), NEW n \in Nat
    PROVE  LET s == Succeeded(r, n) IN
           /\ s \in SomeTab /\ s.page = "success" /\ s.step = 0 /\ s.order = n /\ s.pay = r.pay
           /\ s.call.pc = r.call.pc /\ s.call.order = r.call.order
           /\ s.items = r.items /\ s.hydrated = r.hydrated /\ s.user = r.user /\ Fit(s)
<1>. DEFINE u == Unheard(r, "app")
            s == Succeeded(r, n)
<1>1. /\ u \in SomeTab /\ u.call.heard # "page" /\ u.call.pc = r.call.pc /\ u.call.items = r.call.items
      /\ u.call.order = r.call.order /\ u.hydrated = r.hydrated /\ u.user = r.user /\ u.items = r.items
      /\ u.pay = r.pay
  BY UnheardFacts
<1>2. s = [u EXCEPT !.group = NoGroup, !.page = "success", !.step = 0, !.list = NoGroup, !.order = n]
  BY DEF Succeeded
<1>. HIDE DEF u, s
<1>3. s \in SomeTab
  BY <1>1, <1>2, NoGroupFacts DEF SomeTab
<1>4. /\ s.page = "success" /\ s.step = 0 /\ s.order = n /\ s.call = u.call /\ s.pay = u.pay
      /\ s.group = NoGroup /\ s.list = NoGroup /\ s.hydrated = u.hydrated /\ s.user = u.user /\ s.items = u.items
  BY <1>1, <1>2 DEF SomeTab
<1>5. Fit(s)
  BY <1>1, <1>4, NoGroupFacts, EmptyFacts DEF Fit
<1>. QED
  BY <1>1, <1>3, <1>4, <1>5 DEF s

LEMMA PayTab ==
    ASSUME IInv, NEW t \in Tabs, NEW p \in SomePay
    PROVE  LET r == [tab[t] EXCEPT !.pay = p] IN
           /\ r \in SomeTab /\ r.pay = p /\ r.list = tab[t].list /\ r.group = tab[t].group /\ r.page = tab[t].page
           /\ r.step = tab[t].step /\ r.order = tab[t].order /\ r.call = tab[t].call /\ Fit(r)
           /\ r.items = tab[t].items /\ r.hydrated = tab[t].hydrated /\ r.user = tab[t].user
<1>. DEFINE r == [tab[t] EXCEPT !.pay = p]
<1>1. tab[t] \in SomeTab /\ Fit(tab[t])
  BY Here
<1>2. /\ r \in SomeTab /\ r.pay = p /\ r.list = tab[t].list /\ r.group = tab[t].group /\ r.page = tab[t].page
      /\ r.step = tab[t].step /\ r.order = tab[t].order /\ r.call = tab[t].call
      /\ r.items = tab[t].items /\ r.hydrated = tab[t].hydrated /\ r.user = tab[t].user
  BY <1>1 DEF SomeTab
<1>. HIDE DEF r
<1>3. Fit(r)
  BY <1>1, <1>2 DEF Fit
<1>. QED
  BY <1>2, <1>3 DEF r

LEMMA HandleCreditSuccessStep == ASSUME IInv, NEW t \in Tabs, HandleCreditSuccess(t) PROVE IInv'
<1>. DEFINE n == tab[t].order
            r == Succeeded(tab[t], n)
<1>0. tab[t] \in SomeTab /\ Fit(tab[t]) /\ Counted(tab[t]) /\ tab[t].step = 3
  BY Here DEF HandleCreditSuccess
<1>1. n \in DOMAIN orders /\ n \in Nat
  BY <1>0 DEF Counted, SomeTab
<1>2. Set(t, r) /\ orders[n].status = "covered" /\ Elsewhere
  BY Untouched DEF HandleCreditSuccess, OnlyTab
<1>3. /\ r \in SomeTab /\ r.page = "success" /\ r.step = 0 /\ r.order = n /\ r.pay = tab[t].pay
      /\ r.call.pc = tab[t].call.pc /\ r.call.order = tab[t].call.order /\ Fit(r)
  BY <1>0, <1>1, SucceededFacts
<1>. HIDE DEF r
<1>4. Counted(r)
  BY <1>0, <1>1, <1>2, <1>3 DEF Counted
<1>. QED
  BY <1>2, <1>3, <1>4, TabStep

LEMMA HandlePaymentStep == ASSUME IInv, NEW t \in Tabs, HandlePayment(t) PROVE IInv'
<1>. DEFINE p == [pc |-> "asked", order |-> tab[t].order]
            r == [tab[t] EXCEPT !.pay = p]
<1>0. tab[t] \in SomeTab /\ Counted(tab[t]) /\ tab[t].step = 3
  BY Here DEF HandlePayment
<1>1. p \in SomePay /\ p.pc = "asked" /\ p.order = tab[t].order
  BY <1>0 DEF SomePay, SomeTab
<1>2. Set(t, r) /\ Elsewhere
  BY Untouched DEF HandlePayment, OnlyTab
<1>. HIDE DEF p
<1>3. /\ r \in SomeTab /\ r.pay = p /\ r.page = tab[t].page /\ r.step = tab[t].step /\ r.order = tab[t].order
      /\ r.call = tab[t].call /\ Fit(r)
  BY <1>1, PayTab
<1>. HIDE DEF r
<1>4. Counted(r)
  BY <1>0, <1>1, <1>3 DEF Counted
<1>. QED
  BY <1>2, <1>3, <1>4, TabStep

(* What Stripe takes is paid before its answer says so.                    *)
LEMMA ConfirmCardPaymentStep == ASSUME IInv, NEW t \in Tabs, ConfirmCardPayment(t) PROVE IInv'
<1>. DEFINE n == tab[t].pay.order
<1>0. /\ tab[t] \in SomeTab /\ Counted(tab[t]) /\ tab[t].pay \in SomePay
      /\ n \in DOMAIN orders /\ UNCHANGED <<session, storage, wanted>>
  BY Here, Parts DEF ConfirmCardPayment, Counted
<1>1. CASE UNCHANGED orders /\ Set(t, [tab[t] EXCEPT !.pay = NoPay])
  <2>. DEFINE r == [tab[t] EXCEPT !.pay = NoPay]
  <2>1. /\ r \in SomeTab /\ r.pay = NoPay /\ r.page = tab[t].page /\ r.step = tab[t].step
        /\ r.order = tab[t].order /\ r.call = tab[t].call /\ Fit(r)
    BY NoPayFacts, PayTab
  <2>2. Set(t, r) /\ Elsewhere
    BY <1>0, <1>1, Untouched DEF OnlyTab
  <2>. HIDE DEF r
  <2>3. Counted(r)
    BY <1>0, <2>1, NoPayFacts DEF Counted
  <2>. QED
    BY <2>1, <2>2, <2>3, TabStep
<1>2. CASE ~(UNCHANGED orders /\ Set(t, [tab[t] EXCEPT !.pay = NoPay]))
  <2>1. PICK status \in {"paid", "processing"}, pc \in {"succeeded", "processing"} :
          /\ orders[n].status = "unpaid" /\ Status(n, status) /\ Answer(t, pc)
          /\ pc = "succeeded" => status = "paid"
    BY <1>2 DEF ConfirmCardPayment
  <2>2. Grows /\ orders'[n].status = status
    BY <1>0, <2>1, StatusFacts
  <2>. DEFINE p == IF tab[t].pay.pc = "left" THEN NoPay ELSE [tab[t].pay EXCEPT !.pc = pc]
              r == [tab[t] EXCEPT !.pay = p]
  <2>3. p \in SomePay /\ (p.pc # "idle" => p.order = n) /\ (p.pc = "succeeded" => status = "paid")
    BY <1>0, <2>1, NoPayFacts DEF SomePay
  <2>4. Set(t, r)
    BY <2>1 DEF Answer
  <2>. HIDE DEF p
  <2>5. /\ r \in SomeTab /\ r.pay = p /\ r.page = tab[t].page /\ r.step = tab[t].step
        /\ r.order = tab[t].order /\ r.call = tab[t].call /\ Fit(r)
    BY <2>3, PayTab
  <2>. HIDE DEF r
  <2>6. tab'[t] = r
    BY <2>4 DEF Set, IInv, Shape
  <2>7. Counted(tab[t])'
    BY <1>0, <2>2, <2>3, <2>5, <2>6 DEF Counted, Grows
  <2>. QED
    BY <2>2, <2>4, <2>5, <2>7, GrowStep
<1>. QED
  BY <1>1, <1>2

LEMMA HandleAnswerStep == ASSUME IInv, NEW t \in Tabs, HandleAnswer(t) PROVE IInv'
<1>. DEFINE n == tab[t].pay.order
            r == [tab[t] EXCEPT !.pay = NoPay]
            s == Succeeded(r, n)
<1>0. tab[t] \in SomeTab /\ Counted(tab[t]) /\ n \in Nat /\ Elsewhere
  BY Here, Parts, Untouched DEF HandleAnswer, OnlyTab, SomePay
<1>1. /\ r \in SomeTab /\ r.pay = NoPay /\ r.page = tab[t].page /\ r.step = tab[t].step
      /\ r.order = tab[t].order /\ r.call = tab[t].call /\ Fit(r)
  BY NoPayFacts, PayTab
<1>2. \/ tab[t].pay.pc = "succeeded" /\ Set(t, s)
      \/ Set(t, r)
  BY DEF HandleAnswer
<1>. HIDE DEF r
<1>3. /\ s \in SomeTab /\ s.page = "success" /\ s.step = 0 /\ s.order = n /\ s.pay = r.pay
      /\ s.call.pc = r.call.pc /\ s.call.order = r.call.order /\ Fit(s)
  BY <1>0, <1>1, SucceededFacts
<1>. HIDE DEF s
<1>4. Counted(r)
  BY <1>0, <1>1, NoPayFacts DEF Counted
<1>5. ASSUME tab[t].pay.pc = "succeeded" PROVE Counted(s)
  BY <1>0, <1>1, <1>3, <1>5, NoPayFacts DEF Counted
<1>. QED
  BY <1>0, <1>1, <1>2, <1>3, <1>4, <1>5, TabStep

LEMMA SettleStep == ASSUME IInv, NEW n \in DOMAIN orders, Settle(n) PROVE IInv'
<1>1. PICK status \in {"paid", "unpaid"} : Status(n, status)
  BY DEF Settle
<1>2. orders[n].status = "processing" /\ UNCHANGED <<session, storage, tab, wanted>>
  BY DEF Settle
<1>3. Grows
  BY <1>1, <1>2, StatusFacts
<1>4. Shape'
  BY <1>2, <1>3 DEF Grows, IInv, Shape
<1>5. \A t \in Tabs : Fit(tab[t])' /\ Counted(tab[t])'
  BY <1>2, <1>3 DEF Grows, IInv, Fit, Counted
<1>. QED
  BY <1>3, <1>4, <1>5 DEF Grows, IInv

LEMMA SignOutStep == ASSUME IInv, SignOut PROVE IInv'
<1>1. Shape'
  BY DEF SignOut, IInv, Shape
<1>2. \A t \in Tabs : Fit(tab[t])' /\ Counted(tab[t])'
  BY DEF SignOut, IInv, Fit, Counted
<1>. QED
  BY <1>1, <1>2 DEF SignOut, IInv, Ordered

LEMMA StepInv == IInv /\ [Next]_vars => IInv'
<1>. SUFFICES ASSUME IInv, [Next]_vars PROVE IInv'
  OBVIOUS
<1>1. ASSUME NEW t \in Tabs, NEW u \in Users, SignIn(t, u) PROVE IInv'
  BY <1>1, SignInStep
<1>2. ASSUME NEW t \in Tabs, Reload(t) \/ SeeSession(t) \/ Flush(t) \/ ChangeCart(t) PROVE IInv'
  BY <1>2, ReloadStep, SeeSessionStep, FlushStep, ChangeCartSteps
<1>3. ASSUME NEW t \in Tabs, Checkout(t) PROVE IInv'
  BY <1>3, PageSteps, HandleConfirmOrderStep, MakeOrderStep, ConfirmedStep, ConfirmFailsStep,
     HandleCreditSuccessStep, HandlePaymentStep, ConfirmCardPaymentStep, HandleAnswerStep DEF Checkout
<1>4. CASE SignOut \/ \E n \in DOMAIN orders : Settle(n)
  BY <1>4, SignOutStep, SettleStep
<1>5. CASE UNCHANGED vars
  <2>1. UNCHANGED <<session, storage, tab, orders, wanted>>
    BY <1>5 DEF vars
  <2>2. Shape'
    BY <2>1 DEF IInv, Shape
  <2>3. \A t \in Tabs : Fit(tab[t])' /\ Counted(tab[t])'
    BY <2>1 DEF IInv, Fit, Counted
  <2>. QED
    BY <2>1, <2>2, <2>3 DEF IInv, Ordered
<1>. QED
  BY <1>1, <1>2, <1>3, <1>4, <1>5 DEF Next

-----------------------------------------------------------------------------
(* A browser of one tab: what is rendered for a user is what is stored for *)
(* that user, and nobody else has signed in since.                         *)
Sole == \A t, u \in Tabs : t = u
Stored(t) ==
    tab[t].hydrated => tab[t].items = storage[tab[t].user] /\ session \in {tab[t].user, NoOne}
Carts == Sole => storage = wanted /\ \A t \in Tabs : Stored(t)
CInv == IInv /\ Carts

LEMMA InitCarts == Init => Carts
BY DEF Init, Carts, Stored

(* A step of the tab that leaves its cart alone.                           *)
KeepsCart(t) ==
    /\ UNCHANGED <<storage, wanted, session>>
    /\ tab'[t].items = tab[t].items /\ tab'[t].hydrated = tab[t].hydrated /\ tab'[t].user = tab[t].user

LEMMA KeepsStep == ASSUME CInv, NEW t \in Tabs, KeepsCart(t) PROVE Carts'
BY DEF CInv, Carts, KeepsCart, Stored, Sole

(* A step that changes it, and its effects.                                *)
LEMMA WriteStep ==
    ASSUME CInv, NEW t \in Tabs, NEW items \in Pieces,
           tab'[t].items = items, tab'[t].hydrated = tab[t].hydrated, tab'[t].user = tab[t].user,
           storage' = IF tab[t].hydrated THEN [storage EXCEPT ![tab[t].user] = items] ELSE storage,
           wanted' = Wants(tab[t], items), session' = session
    PROVE  Carts'
<1>. SUFFICES ASSUME Sole PROVE storage' = wanted' /\ \A u \in Tabs : Stored(u)'
  BY DEF Carts, Sole
<1>0. /\ storage = wanted /\ Stored(t) /\ storage \in [Users -> Pieces] /\ Fit(tab[t])
  BY Here DEF CInv, Carts, IInv, Shape
<1>1. CASE ~tab[t].hydrated
  BY <1>0, <1>1 DEF Wants, Stored, Sole
<1>2. CASE tab[t].hydrated
  <2>. DEFINE u == tab[t].user
              delta == [p \in Products |-> wanted[u][p] + items[p] - tab[t].items[p]]
  <2>1. u \in Users /\ wanted[u] = tab[t].items /\ wanted[u] \in Pieces
    BY <1>0, <1>2 DEF Stored, Fit
  <2>2. \A p \in Products : wanted[u][p] + items[p] - tab[t].items[p] = items[p]
    <3>1. \A p \in Products : wanted[u][p] \in Nat /\ items[p] \in Nat /\ tab[t].items[p] = wanted[u][p]
      BY <2>1 DEF Pieces
    <3>. QED
      BY <3>1
  <2>3. delta = items
    BY <2>2 DEF Pieces
  <2>4. wanted' = [wanted EXCEPT ![u] = items]
    BY <1>2, <2>3 DEF Wants
  <2>5. storage' = [storage EXCEPT ![u] = items]
    BY <1>2
  <2>6. storage' = wanted' /\ storage'[u] = items
    BY <1>0, <2>1, <2>4, <2>5
  <2>. QED
    BY <1>0, <1>2, <2>6 DEF Stored, Sole
<1>. QED
  BY <1>1, <1>2

LEMMA Moved ==
    ASSUME CInv, NEW t \in Tabs, NEW r, Set(t, r), UNCHANGED <<storage, wanted, session>>,
           r.items = tab[t].items, r.hydrated = tab[t].hydrated, r.user = tab[t].user
    PROVE  Carts'
<1>1. tab'[t] = r
  BY DEF Set, CInv, IInv, Shape
<1>. QED
  BY <1>1, KeepsStep DEF KeepsCart

LEMMA CheckoutKeeps ==
    ASSUME CInv, NEW t \in Tabs, Checkout(t), ~Confirmed(t)
    PROVE  Carts'
<1>0. tab[t] \in SomeTab /\ tab[t].call \in SomeCall /\ tab[t].list \in SomeGroup
  BY Here, Parts DEF CInv
<1>1. CASE OpenCheckout(t)
  <2>1. Set(t, Mount(tab[t])) /\ UNCHANGED <<storage, wanted, session>>
    BY <1>1 DEF OpenCheckout, OnlyTab
  <2>. QED
    BY <1>0, <2>1, MountFacts, Moved
<1>2. CASE Leave(t)
  <2>1. Set(t, Unheard(Market(tab[t]), "app")) /\ UNCHANGED <<storage, wanted, session>>
    BY <1>2 DEF Leave, OnlyTab
  <2>2. LET m == Market(tab[t]) IN
        m \in SomeTab /\ m.items = tab[t].items /\ m.hydrated = tab[t].hydrated /\ m.user = tab[t].user
    BY <1>0, MarketFacts
  <2>. QED
    BY <2>1, <2>2, UnheardFacts, Moved
<1>3. CASE HandleCreditSuccess(t) \/ HandlePayment(t) \/ ConfirmCardPayment(t) \/ HandleAnswer(t)
  <2>0. tab[t].pay \in SomePay /\ Fit(tab[t]) /\ IInv
    BY Here, Parts DEF CInv
  <2>1. ASSUME NEW p \in SomePay, Set(t, [tab[t] EXCEPT !.pay = p]), UNCHANGED <<storage, wanted, session>>
        PROVE  Carts'
    BY <2>0, <2>1, PayTab, Moved
  <2>2. ASSUME NEW r \in SomeTab, NEW n \in Nat, Fit(r), Set(t, Succeeded(r, n)),
               r.items = tab[t].items, r.hydrated = tab[t].hydrated, r.user = tab[t].user,
               UNCHANGED <<storage, wanted, session>>
        PROVE  Carts'
    BY <2>2, SucceededFacts, Moved
  <2>3. tab[t].order \in Nat /\ tab[t].pay.order \in Nat
    BY <1>0, <2>0 DEF SomeTab, SomePay
  <2>4. CASE HandleCreditSuccess(t)
    BY <1>0, <2>0, <2>2, <2>3, <2>4 DEF HandleCreditSuccess, OnlyTab
  <2>5. CASE HandlePayment(t)
    <3>1. [pc |-> "asked", order |-> tab[t].order] \in SomePay
      BY <2>3 DEF SomePay
    <3>. QED
      BY <2>1, <2>5, <3>1 DEF HandlePayment, OnlyTab
  <2>6. CASE ConfirmCardPayment(t)
    <3>1. \A pc \in {"succeeded", "processing"} :
             (IF tab[t].pay.pc = "left" THEN NoPay ELSE [tab[t].pay EXCEPT !.pc = pc]) \in SomePay
      BY <2>0, NoPayFacts DEF SomePay
    <3>. QED
      BY <2>1, <2>6, <3>1, NoPayFacts DEF ConfirmCardPayment, Answer
  <2>7. CASE HandleAnswer(t)
    <3>. DEFINE r == [tab[t] EXCEPT !.pay = NoPay]
    <3>1. /\ r \in SomeTab /\ Fit(r)
          /\ r.items = tab[t].items /\ r.hydrated = tab[t].hydrated /\ r.user = tab[t].user
      BY <2>0, NoPayFacts, PayTab
    <3>2. /\ Set(t, Succeeded(r, tab[t].pay.order)) \/ Set(t, [tab[t] EXCEPT !.pay = NoPay])
          /\ UNCHANGED <<storage, wanted, session>>
      BY <2>7 DEF HandleAnswer, OnlyTab
    <3>. HIDE DEF r
    <3>. QED
      BY <2>1, <2>2, <2>3, <3>1, <3>2, NoPayFacts
  <2>. QED
    BY <1>3, <2>4, <2>5, <2>6, <2>7
<1>4. CASE OnNext(t) \/ OnBack(t)
  <2>1. PICK n \in {1, 2} : Set(t, [tab[t] EXCEPT !.step = n]) /\ UNCHANGED <<storage, wanted, session>>
    BY <1>4 DEF OnNext, OnBack, OnlyTab
  <2>2. LET m == [tab[t] EXCEPT !.step = n] IN
        m.items = tab[t].items /\ m.hydrated = tab[t].hydrated /\ m.user = tab[t].user
    BY <1>0 DEF SomeTab
  <2>. QED
    BY <2>1, <2>2, Moved
<1>5. CASE \E p \in Products : ChangeItems(t, p)
  <2>1. PICK l : Set(t, [tab[t] EXCEPT !.list = l]) /\ UNCHANGED <<storage, wanted, session>>
    <3>0. PICK p \in Products : ChangeItems(t, p)
      BY <1>5
    <3>1. PICK n : Set(t, [tab[t] EXCEPT !.list.items[p] = n]) /\ UNCHANGED <<storage, wanted, session>>
      BY <3>0 DEF ChangeItems, OnlyTab
    <3>2. Set(t, [tab[t] EXCEPT !.list = [tab[t].list EXCEPT !.items = [tab[t].list.items EXCEPT ![p] = n]]])
      BY <3>1
    <3>. QED
      BY <3>1, <3>2
  <2>2. LET m == [tab[t] EXCEPT !.list = l] IN
        m.items = tab[t].items /\ m.hydrated = tab[t].hydrated /\ m.user = tab[t].user
    BY <1>0 DEF SomeTab
  <2>. QED
    BY <2>1, <2>2, Moved
<1>6. CASE HandleConfirmOrder(t) \/ MakeOrder(t) \/ ConfirmFails(t)
  <2>1. PICK c : Set(t, [tab[t] EXCEPT !.call = c]) /\ UNCHANGED <<storage, wanted, session>>
    <3>1. CASE HandleConfirmOrder(t) \/ ConfirmFails(t)
      BY <3>1 DEF HandleConfirmOrder, ConfirmFails, OnlyTab
    <3>2. CASE MakeOrder(t)
      <4>1. \/ Set(t, [tab[t] EXCEPT !.call.pc = "made", !.call.order = Len(orders) + 1])
            \/ Set(t, [tab[t] EXCEPT !.call.pc = "refused"])
        BY <3>2 DEF MakeOrder
      <4>2. UNCHANGED <<storage, wanted, session>>
        BY <3>2 DEF MakeOrder
      <4>3. \/ Set(t, [tab[t] EXCEPT !.call = [@ EXCEPT !.pc = "made", !.order = Len(orders) + 1]])
            \/ Set(t, [tab[t] EXCEPT !.call = [@ EXCEPT !.pc = "refused"]])
        BY <4>1
      <4>. QED
        BY <4>2, <4>3
    <3>. QED
      BY <1>6, <3>1, <3>2
  <2>2. LET m == [tab[t] EXCEPT !.call = c] IN
        m.items = tab[t].items /\ m.hydrated = tab[t].hydrated /\ m.user = tab[t].user
    BY <1>0 DEF SomeTab
  <2>. QED
    BY <2>1, <2>2, Moved
<1>. QED
  BY <1>1, <1>2, <1>3, <1>4, <1>5, <1>6 DEF Checkout

LEMMA WritesSteps ==
    ASSUME CInv, NEW t \in Tabs, ChangeCart(t) \/ Confirmed(t) \/ Flush(t)
    PROVE  Carts'
<1>0. tab[t] \in SomeTab /\ tab[t].items \in Pieces /\ Fit(tab[t]) /\ IInv
  BY Here, Parts DEF CInv
<1>1. ASSUME NEW items \in Pieces, Changed(t, items) PROVE Carts'
  <2>. DEFINE r == [tab[t] EXCEPT !.items = items]
  <2>1. r.items = items /\ r.hydrated = tab[t].hydrated /\ r.user = tab[t].user
    BY <1>0 DEF SomeTab
  <2>2. Set(t, r) /\ storage' = Writes(r) /\ wanted' = Wants(tab[t], items) /\ session' = session
    BY <1>1 DEF Changed
  <2>. HIDE DEF r
  <2>3. tab'[t] = r
    BY <2>2 DEF Set, CInv, IInv, Shape
  <2>. QED
    BY <2>1, <2>2, <2>3, WriteStep DEF Writes
<1>2. CASE ChangeCart(t)
  <2>1. ASSUME NEW p \in Products, AddItem(t, p) \/ UpdateQty(t, p) \/ RemoveItem(t, p)
        PROVE  \E items \in Pieces : Changed(t, items)
    <3>1. tab[t].items[p] \in Nat
      BY <1>0 DEF Pieces
    <3>2. /\ [tab[t].items EXCEPT ![p] = @ + 1] \in Pieces
          /\ tab[t].items[p] > 0 => [tab[t].items EXCEPT ![p] = @ - 1] \in Pieces
          /\ [tab[t].items EXCEPT ![p] = 0] \in Pieces
      BY <1>0, <3>1 DEF Pieces
    <3>. QED
      BY <2>1, <3>2 DEF AddItem, UpdateQty, RemoveItem
  <2>2. ASSUME NEW f \in Farmers, ClearFarmerCart(t, f) PROVE Carts'
    BY <1>0, <1>1, <2>2, GroupFacts DEF ClearFarmerCart
  <2>3. ASSUME NEW f \in Farmers, HandleOrder(t, f) PROVE Carts'
    <3>. DEFINE g == [farmer |-> f, items |-> GroupedByFarmer(tab[t].items, f)]
                r == [tab[t] EXCEPT !.group = g]
    <3>1. g \in SomeGroup
      BY <1>0, GroupFacts DEF SomeGroup
    <3>2. Set(t, IF r.page = "checkout" THEN r ELSE Mount(r)) /\ UNCHANGED <<storage, wanted, session>>
      BY <2>3 DEF HandleOrder
    <3>. HIDE DEF g
    <3>3. r \in SomeTab /\ r.items = tab[t].items /\ r.hydrated = tab[t].hydrated /\ r.user = tab[t].user
      BY <1>0, <3>1 DEF SomeTab
    <3>. HIDE DEF r
    <3>4. Set(t, r) \/ Set(t, Mount(r))
      BY <3>2
    <3>. QED
      BY <3>2, <3>3, <3>4, MountFacts, Moved
  <2>. QED
    BY <1>1, <1>2, <2>1, <2>2, <2>3 DEF ChangeCart
<1>3. CASE Flush(t)
  <2>. DEFINE r == [tab[t] EXCEPT !.flush = FALSE]
  <2>1. r.items = tab[t].items /\ r.hydrated = tab[t].hydrated /\ r.user = tab[t].user
    BY <1>0 DEF SomeTab
  <2>2. Set(t, r) /\ storage' = Writes(tab[t]) /\ wanted' = wanted /\ session' = session
    BY <1>3 DEF Flush
  <2>. HIDE DEF r
  <2>3. Sole => storage' = storage
    BY <1>0, <2>2 DEF Writes, CInv, Carts, Stored, Fit, IInv, Shape
  <2>4. tab'[t] = r
    BY <2>2 DEF Set, CInv, IInv, Shape
  <2>. QED
    BY <2>1, <2>2, <2>3, <2>4 DEF CInv, Carts, Stored, Sole
<1>4. CASE Confirmed(t)
  <2>. DEFINE items == IF tab[t].call.heard = "gone" THEN tab[t].items ELSE Without(tab[t].items, tab[t].call.farmer)
              done == [tab[t] EXCEPT !.items = items, !.call = NoCall]
              on == [done EXCEPT !.step = 3, !.order = tab[t].call.order]
  <2>1. items \in Pieces
    BY <1>0, GroupFacts
  <2>2. /\ Set(t, IF tab[t].call.heard = "page" THEN on ELSE done)
        /\ storage' = IF tab[t].call.heard = "gone" THEN storage ELSE Writes(done)
        /\ wanted' = Wants(tab[t], items) /\ session' = session
    BY <1>4 DEF Confirmed
  <2>3. tab[t].call.heard = "gone" => items = tab[t].items
    OBVIOUS
  <2>. HIDE DEF items
  <2>4. /\ done \in SomeTab /\ done.items = items /\ done.hydrated = tab[t].hydrated /\ done.user = tab[t].user
    BY <1>0, <2>1, NoCallFacts DEF SomeTab
  <2>. HIDE DEF done
  <2>5. on.items = items /\ on.hydrated = tab[t].hydrated /\ on.user = tab[t].user
    BY <2>4 DEF SomeTab
  <2>. HIDE DEF on
  <2>6. tab'[t].items = items /\ tab'[t].hydrated = tab[t].hydrated /\ tab'[t].user = tab[t].user
    <3>1. tab'[t] \in {on, done}
      BY <2>2 DEF Set, CInv, IInv, Shape
    <3>. QED
      BY <2>4, <2>5, <3>1
  <2>7. CASE tab[t].call.heard # "gone"
    <3>1. storage' = IF tab[t].hydrated THEN [storage EXCEPT ![tab[t].user] = items] ELSE storage
      BY <2>2, <2>4, <2>7 DEF Writes
    <3>. QED
      BY <2>1, <2>2, <2>6, <3>1, WriteStep
  <2>8. CASE tab[t].call.heard = "gone" /\ Sole
    <3>1. storage' = IF tab[t].hydrated THEN [storage EXCEPT ![tab[t].user] = items] ELSE storage
      BY <1>0, <2>2, <2>3, <2>8 DEF CInv, Carts, Stored, Fit, IInv, Shape
    <3>. QED
      BY <2>1, <2>2, <2>6, <3>1, WriteStep
  <2>. QED
    BY <2>7, <2>8 DEF Carts, Sole
<1>. QED
  BY <1>2, <1>3, <1>4

LEMMA StepCarts == CInv /\ [Next]_vars => CInv'
<1>. SUFFICES ASSUME CInv, [Next]_vars PROVE Carts'
  BY StepInv DEF CInv
<1>1. ASSUME NEW t \in Tabs, NEW u \in Users, SignIn(t, u) PROVE Carts'
  <2>1. ~tab'[t].hydrated
    <3>1. tab'[t] = Loaded(Market(tab[t]))
      BY <1>1 DEF SignIn, Set, CInv, IInv, Shape
    <3>. QED
      BY <3>1, Here, MarketFacts, LoadedFacts DEF CInv
  <2>. QED
    BY <1>1, <2>1 DEF SignIn, CInv, Carts, Stored, Sole
<1>2. ASSUME NEW t \in Tabs, Reload(t) PROVE Carts'
  <2>1. PICK m \in SomeTab : tab'[t] = Loaded(m)
    <3>. DEFINE m == Market(tab[t])
    <3>1. tab[t] \in SomeTab /\ m \in SomeTab /\ Mount(tab[t]) \in SomeTab
      BY Here, MarketFacts, MountFacts DEF CInv
    <3>2. [m EXCEPT !.page = "auth"] \in SomeTab
      <4>. HIDE DEF m
      <4>. QED
        BY <3>1 DEF SomeTab
    <3>3. tab'[t] = Loaded(IF session = NoOne THEN [m EXCEPT !.page = "auth"]
                           ELSE IF tab[t].page = "checkout" THEN Mount(tab[t])
                           ELSE IF tab[t].page = "success" THEN tab[t] ELSE m)
      BY <1>2 DEF Reload, Set, CInv, IInv, Shape
    <3>. HIDE DEF m
    <3>. QED
      BY <3>1, <3>2, <3>3
  <2>2. ~tab'[t].hydrated
    BY <2>1, LoadedFacts
  <2>. QED
    BY <1>2, <2>2 DEF Reload, CInv, Carts, Stored, Sole
<1>3. ASSUME NEW t \in Tabs, SeeSession(t) PROVE Carts'
  <2>. SUFFICES ASSUME Sole PROVE storage' = wanted' /\ Stored(t)'
    BY DEF Carts, Sole
  <2>1. Stored(t) /\ storage = wanted /\ tab[t] \in SomeTab
    BY Here DEF CInv, Carts
  <2>2. storage' = storage
    BY <1>3, <2>1 DEF SeeSession, Stored
  <2>. DEFINE items == IF session = NoOne THEN Empty ELSE storage[session]
              r == [tab[t] EXCEPT !.user = session, !.hydrated = session # NoOne, !.flush = TRUE, !.items = items]
  <2>3. tab'[t] = r
    BY <1>3 DEF SeeSession, Set, CInv, IInv, Shape
  <2>4. r.user = session /\ (r.hydrated => session # NoOne) /\ r.items = items
    BY <2>1 DEF SomeTab
  <2>. HIDE DEF r
  <2>. QED
    BY <1>3, <2>1, <2>2, <2>3, <2>4 DEF SeeSession, Stored
<1>4. ASSUME NEW t \in Tabs, Flush(t) \/ ChangeCart(t) \/ Checkout(t) PROVE Carts'
  BY <1>4, WritesSteps, CheckoutKeeps
<1>5. CASE SignOut
  BY <1>5 DEF SignOut, CInv, Carts, Stored, Sole
<1>6. CASE \E n \in DOMAIN orders : Settle(n)
  BY <1>6 DEF Settle, CInv, Carts, Stored, Sole
<1>7. CASE UNCHANGED vars
  BY <1>7 DEF vars, CInv, Carts, Stored, Sole
<1>. QED
  BY <1>1, <1>2, <1>3, <1>4, <1>5, <1>6, <1>7 DEF Next

-----------------------------------------------------------------------------
(* What may be ordered, is under way and was paid for is an invariant of   *)
(* any number of tabs, users and products, and so is where a sole tab's    *)
(* cart is stored (useCart, the checkout pages).                           *)
THEOREM Invariance == Spec => []CInv
<1>1. Init => CInv
  BY InitInv, InitCarts DEF CInv
<1>. QED
  BY <1>1, StepCarts, PTL DEF Spec

(* In a browser of one tab the cart a user made is stored and shown (the   *)
(* effects of useCart).                                                    *)
THEOREM CartsAreStored == Spec => []CartIsStored
<1>1. CInv => CartIsStored
  BY DEF CInv, Carts, Stored, Sole, CartIsStored
<1>. QED
  BY <1>1, Invariance, PTL

(* Every order is one farmer's and within the stock shown, from whatever   *)
(* tab (handleOrder of the drawer, Step1ConfirmOrder).                     *)
THEOREM Orders == Spec => []OrdersAreFit
<1>1. CInv => OrdersAreFit
  <2>. SUFFICES ASSUME IInv, NEW n \in DOMAIN orders
       PROVE  CanProceed(orders[n].items) /\ \E f \in Farmers : Without(orders[n].items, f) = Empty
    BY DEF CInv, OrdersAreFit
  <2>. DEFINE items == orders[n].items
  <2>1. CanProceed(items) /\ OfOneFarmer(items) /\ items \in Pieces
    <3>1. orders[n] \in SomeOrder
      BY DEF IInv, Shape
    <3>. QED
      BY <3>1 DEF IInv, Ordered, SomeOrder
  <2>. HIDE DEF items
  <2>2. PICK p \in InCart(items) : TRUE
    BY <2>1 DEF CanProceed
  <2>3. FarmerOf[p] \in Farmers
    BY ShopAssumption DEF InCart
  <2>4. \A q \in Products : FarmerOf[q] # FarmerOf[p] => items[q] = 0
    <3>1. \A q \in Products : items[q] \in Nat
      BY <2>1 DEF Pieces
    <3>. QED
      BY <2>1, <3>1 DEF OfOneFarmer, InCart
  <2>5. Without(items, FarmerOf[p]) = Empty
    BY <2>4 DEF Without, Empty
  <2>. QED
    BY <2>1, <2>3, <2>5 DEF items
<1>. QED
  BY <1>1, Invariance, PTL

(* A page that says "confirmed" says it of an order paid or covered, and   *)
(* leaves nothing to order in its tab, whenever the answer came and        *)
(* whatever the tab did in between (handlePayment and its callbacks).      *)
THEOREM Successes == Spec => []SuccessIsPaid
<1>1. CInv => SuccessIsPaid
  BY DEF CInv, IInv, Shape, Fit, Counted, SuccessIsPaid
<1>. QED
  BY <1>1, Invariance, PTL
=============================================================================
