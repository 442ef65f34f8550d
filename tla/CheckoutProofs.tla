--------------------------- MODULE CheckoutProofs ---------------------------
(***************************************************************************)
(* Proofs about Checkout, for any carts, products, prices and loans, with  *)
(* requests that die midway.  The theorems before Credit hold with overlap *)
(* and waiting, and so does Loans; Stock does without changes of stock by  *)
(* the farmer.  Credit, FullyPaid and Implements are about                 *)
(* one request at a time.  Sums are folds over finite sets: their lemmas   *)
(* rest on a smallest set on which a claim about a sum would be false.     *)
(***************************************************************************)
EXTENDS CheckoutRefinement, FiniteSetTheorems, TLAPS

-----------------------------------------------------------------------------
(* The inductive invariant.                                                *)

(* The units an open transaction took are there, and a free row has none.  *)
Taken(x) ==
    /\ held[x].by = Nobody => held[x].units = 0
    /\ held[x].units <= stock[x]

(* A single seller was told before the commit.                             *)
Announced(r) ==
    Busy(r, "commit") \/ orders[r].placed =>
        \A f \in Farmers : Owners(r) = {f} => f \in told[r]

(* Credit is taken from a loan there is.                                   *)
Credited(r) == req[r].credit > 0 => WithLoan(r)

IInv ==
    /\ TypeOK
    /\ \A x \in Products : Taken(x)
    /\ \A r \in Requests : Announced(r) /\ Credited(r)

-----------------------------------------------------------------------------
(* The arithmetic of a quote.                                              *)

LEMMA Product == ASSUME NEW m \in Nat, NEW n \in Nat PROVE m * n \in Nat
OBVIOUS

LEMMA GrossType == ASSUME NEW s \in Nat PROVE Tax(s) \in Nat /\ Gross(s) \in Nat
<1>1. (s + 10) \div 20 \in Nat
  OBVIOUS
<1>. QED
  BY <1>1 DEF Tax, Gross

LEMMA MinOfTwo ==
    ASSUME NEW m \in Int, NEW n \in Int
    PROVE  Min({m, n}) \in Int /\ Min({m, n}) <= m /\ Min({m, n}) <= n
<1>1. \E x \in {m, n} : \A y \in {m, n} : x <= y
  <2>1. CASE m <= n
    BY <2>1
  <2>2. CASE ~(m <= n)
    BY <2>2
  <2>. QED
    BY <2>1, <2>2
<1>2. Min({m, n}) \in {m, n} /\ \A y \in {m, n} : Min({m, n}) <= y
  BY <1>1 DEF Min
<1>. QED
  BY <1>2

ReqType == [pc : Stages, k : Nat \ {0}, sum : Nat, available : Int, credit : Int, card : Nat]

LEMMA ItemType ==
    ASSUME NEW r \in Requests, NEW k \in Nat \ {0}, k <= Len(Items(r))
    PROVE  At(r, k) \in Item
BY CartsAssumption DEF Cart, Items, At

LEMMA HereType ==
    ASSUME TypeOK, NEW r \in Requests, ~Done(r)
    PROVE  Here(r).product \in Products /\ Here(r).quantity \in Nat
<1>1. req[r].k \in Nat \ {0}
  BY DEF TypeOK
<1>2. Len(Items(r)) \in Nat
  BY CartsAssumption DEF Cart, Items
<1>. QED
  BY <1>1, <1>2, ItemType DEF Done, Here, Item

(* The loan a request asks for.                                            *)
LEMMA LoanType ==
    ASSUME NEW r \in Requests, WithLoan(r)
    PROVE  Loan(r) \in Buyers \X Farmers
<1>1. Items(r) \in Seq(Item) /\ Items(r) # <<>>
  BY CartsAssumption DEF Cart, Items, WithLoan
<1>2. At(r, 1) \in Item
  BY <1>1, ItemType
<1>. QED
  BY <1>2, CartsAssumption DEF Cart, Loan, Item

LEMMA CreditType ==
    ASSUME TypeOK, NEW r \in Requests
    PROVE  /\ CreditFor(r) \in Int
           /\ Gross(req[r].sum) - CreditFor(r) \in Nat
           /\ WithLoan(r) => CreditFor(r) <= req[r].available
           /\ CreditFor(r) > 0 => WithLoan(r)
<1>1. req[r].sum \in Nat /\ req[r].available \in Int
  BY DEF TypeOK
<1>2. Gross(req[r].sum) \in Nat
  BY <1>1, GrossType
<1>3. CASE WithLoan(r)
  <2>. DEFINE g == Gross(req[r].sum)
  <2>. DEFINE a == req[r].available
  <2>1. g \in Nat /\ a \in Int
    BY <1>1, <1>2
  <2>2. CreditFor(r) = Min({a, g})
    BY <1>3 DEF CreditFor
  <2>. HIDE DEF g, a
  <2>3. CreditFor(r) \in Int /\ CreditFor(r) <= a /\ CreditFor(r) <= g
    <3>1. Min({a, g}) \in Int /\ Min({a, g}) <= a /\ Min({a, g}) <= g
      BY <2>1, MinOfTwo
    <3>. QED
      BY <2>2, <3>1
  <2>4. g - CreditFor(r) \in Nat
    BY <2>1, <2>3
  <2>. QED
    BY <1>3, <2>3, <2>4 DEF g, a
<1>4. CASE ~WithLoan(r)
  <2>1. CreditFor(r) = 0
    BY <1>4 DEF CreditFor
  <2>. QED
    BY <2>1, <1>2, <1>4
<1>. QED
  BY <1>3, <1>4

-----------------------------------------------------------------------------
(* How requests move on.                                                   *)

LEMMA Amend ==
    ASSUME NEW q \in ReqType
    PROVE  /\ \A pc \in Stages : [q EXCEPT !.pc = pc] \in ReqType
           /\ \A pc \in Stages : [q EXCEPT !.pc = pc, !.k = 1] \in ReqType
           /\ \A n \in Nat : [q EXCEPT !.k = q.k + 1, !.sum = q.sum + n] \in ReqType
<1>1. q.k + 1 \in Nat \ {0} /\ q.sum \in Nat /\ 1 \in Nat \ {0}
  BY DEF ReqType
<1>2. \A n \in Nat : q.sum + n \in Nat
  BY <1>1
<1>. QED
  BY <1>1, <1>2 DEF ReqType

LEMMA AmendQuote ==
    ASSUME NEW q \in ReqType, NEW a \in Int
    PROVE  [q EXCEPT !.pc = "quote", !.k = 1, !.available = a] \in ReqType
<1>1. 1 \in Nat \ {0} /\ "quote" \in Stages
  BY DEF Stages
<1>. QED
  BY <1>1 DEF ReqType

LEMMA AmendReserve ==
    ASSUME NEW q \in ReqType, NEW c \in Int, NEW d \in Nat
    PROVE  [q EXCEPT !.pc = "reserve", !.k = 1, !.sum = 0, !.credit = c, !.card = d] \in ReqType
<1>1. 1 \in Nat \ {0} /\ "reserve" \in Stages
  BY DEF Stages
<1>. QED
  BY <1>1 DEF ReqType

(* What a step does to its request, and that it leaves the others alone.   *)
LEMMA MoveType ==
    ASSUME TypeOK, NEW r \in Requests
    PROVE  /\ req \in [Requests -> ReqType]
           /\ \A pc \in Stages : Goto(r, pc) => req' \in [Requests -> ReqType]
           /\ \A n \in Nat : More(r, n) => req' \in [Requests -> ReqType]
           /\ Refuse(r) => req' \in [Requests -> ReqType]
<1>1. req \in [Requests -> ReqType] /\ req[r] \in ReqType
  BY DEF TypeOK, ReqType
<1>2. "refused" \in Stages
  BY DEF Stages
<1>3. ASSUME NEW pc \in Stages, Goto(r, pc) PROVE req' \in [Requests -> ReqType]
  <2>1. [req[r] EXCEPT !.pc = pc, !.k = 1] \in ReqType
    BY <1>1, Amend
  <2>. QED
    BY <1>1, <1>3, <2>1 DEF Goto
<1>4. ASSUME NEW n \in Nat, More(r, n) PROVE req' \in [Requests -> ReqType]
  <2>1. [req[r] EXCEPT !.k = req[r].k + 1, !.sum = req[r].sum + n] \in ReqType
    BY <1>1, Amend
  <2>. QED
    BY <1>1, <1>4, <2>1 DEF More
<1>5. ASSUME Refuse(r) PROVE req' \in [Requests -> ReqType]
  <2>1. [req[r] EXCEPT !.pc = "refused"] \in ReqType
    BY <1>1, <1>2, Amend
  <2>. QED
    BY <1>1, <1>5, <2>1 DEF Refuse
<1>. QED
  BY <1>1, <1>3, <1>4, <1>5

(* Releasing the rows of a transaction leaves the others theirs.           *)
HeldType == [by : Requests \cup {Nobody}, units : Nat]

LEMMA ReleaseType ==
    ASSUME TypeOK, NEW r \in Requests, Release(r)
    PROVE  /\ held' \in [Products -> HeldType]
           /\ \A x \in Products :
                 held'[x] = held[x] \/ (held'[x].by = Nobody /\ held'[x].units = 0)
<1>1. held \in [Products -> HeldType]
  BY DEF TypeOK, HeldType
<1>2. Free \in HeldType /\ Free.by = Nobody /\ Free.units = 0
  BY DEF Free, HeldType
<1>. HIDE DEF HeldType
<1>. QED
  BY <1>1, <1>2 DEF Release

-----------------------------------------------------------------------------
(* Steps that write no rows keep what the rows need.                       *)

LEMMA TakenKept ==
    ASSUME TypeOK, \A x \in Products : Taken(x), stock' = stock,
           \A x \in Products :
               held'[x] = held[x] \/ (held'[x].by = Nobody /\ held'[x].units = 0)
    PROVE  \A x \in Products : Taken(x)'
<1>. SUFFICES ASSUME NEW x \in Products PROVE Taken(x)'
  OBVIOUS
<1>1. stock[x] \in Nat
  BY DEF TypeOK
<1>. QED
  BY <1>1 DEF Taken

(* No request comes to its commit or to credit without a loan.             *)
Tame(r) == (Busy(r, "commit")' => Busy(r, "commit")) /\ (Credited(r) => Credited(r)')

LEMMA AnnouncedKept ==
    ASSUME \A r \in Requests : Announced(r), orders' = orders, told' = told,
           \A r \in Requests : Tame(r)
    PROVE  \A r \in Requests : Announced(r)'
BY DEF Announced, Owners, Items, At, Tame

LEMMA OnlyRequests ==
    ASSUME IInv, UNCHANGED <<products, loans, orders, told, page, form>>,
           req' \in [Requests -> ReqType], intents' \in [Requests -> Nat],
           held' \in [Products -> HeldType],
           \A x \in Products :
               held'[x] = held[x] \/ (held'[x].by = Nobody /\ held'[x].units = 0),
           \A r \in Requests : Tame(r)
    PROVE  IInv'
<1>1. TypeOK'
  BY DEF IInv, TypeOK, products, loans, ReqType, HeldType
<1>2. \A x \in Products : Taken(x)'
  BY TakenKept DEF IInv, products
<1>3. \A r \in Requests : Announced(r)' /\ Credited(r)'
  BY AnnouncedKept DEF IInv, Tame
<1>. QED
  BY <1>1, <1>2, <1>3 DEF IInv

(* Only Notify takes a request to its commit, only CreateIntent to credit. *)
LEMMA StaysTame ==
    ASSUME NEW s \in Requests, req'[s].credit = req[s].credit,
           req'[s].pc = req[s].pc \/ req'[s].pc # "commit"
    PROVE  Tame(s)
BY DEF Tame, Busy, Credited, WithLoan, Items

LEMMA MovesAlone ==
    ASSUME TypeOK, NEW r \in Requests
    PROVE  /\ \A pc \in Stages \ {"commit"} : Goto(r, pc) => \A s \in Requests : Tame(s)
           /\ \A n \in Nat : More(r, n) => \A s \in Requests : Tame(s)
           /\ Refuse(r) => \A s \in Requests : Tame(s)
<1>1. req \in [Requests -> ReqType] /\ req[r] \in ReqType
  BY MoveType
<1>2. ASSUME NEW pc \in Stages \ {"commit"}, Goto(r, pc), NEW s \in Requests
      PROVE Tame(s)
  <2>1. /\ req'[s].pc = IF s = r THEN pc ELSE req[s].pc
        /\ req'[s].credit = req[s].credit
    BY <1>1, <1>2 DEF Goto, ReqType
  <2>. QED
    BY <2>1, StaysTame
<1>3. ASSUME NEW n \in Nat, More(r, n), NEW s \in Requests
      PROVE Tame(s)
  <2>1. req'[s].pc = req[s].pc /\ req'[s].credit = req[s].credit
    BY <1>1, <1>3 DEF More, ReqType
  <2>. QED
    BY <2>1, StaysTame
<1>4. ASSUME Refuse(r), NEW s \in Requests PROVE Tame(s)
  <2>1. /\ req'[s].pc = IF s = r THEN "refused" ELSE req[s].pc
        /\ req'[s].credit = req[s].credit
    BY <1>1, <1>4 DEF Refuse, ReqType
  <2>. QED
    BY <2>1, StaysTame
<1>. QED
  BY <1>2, <1>3, <1>4

LEMMA HeldSame ==
    ASSUME TypeOK, held' = held
    PROVE  /\ held' \in [Products -> HeldType]
           /\ \A x \in Products :
                 held'[x] = held[x] \/ (held'[x].by = Nobody /\ held'[x].units = 0)
BY DEF TypeOK, HeldType

-----------------------------------------------------------------------------
(* One lemma for the steps before the transaction and those that end it    *)
(* without a commit.                                                       *)

LEMMA QuoteSteps ==
    ASSUME IInv, NEW r \in Requests,
           \/ Receive(r) \/ CheckStock(r) \/ ReadLoan(r) \/ ReadPrice(r)
           \/ CreateIntent(r) \/ IntentRefused(r) \/ BreakDeadlock(r) \/ Abort(r)
    PROVE  IInv'
<1>. USE DEF products, loans
<1>0. TypeOK /\ intents \in [Requests -> Nat] /\ 0 \in Nat
  BY DEF IInv, TypeOK
<1>1. CASE Receive(r)
  <2>1. "check" \in Stages \ {"commit"} /\ Goto(r, "check")
    BY <1>1 DEF Stages, Receive
  <2>. QED
    BY <1>0, <1>1, <2>1, MoveType, MovesAlone, HeldSame, OnlyRequests DEF Receive
<1>2. CASE CheckStock(r)
  <2>1. More(r, 0) \/ Refuse(r)
    BY <1>2 DEF CheckStock
  <2>. QED
    BY <1>0, <1>2, <2>1, MoveType, MovesAlone, HeldSame, OnlyRequests DEF CheckStock
<1>3. CASE ReadLoan(r)
  <2>. DEFINE a == IF WithLoan(r) THEN total[Loan(r)] - used[Loan(r)] ELSE 0
  <2>1. a \in Int
    BY LoanType DEF IInv, TypeOK
  <2>. HIDE DEF a
  <2>2. req \in [Requests -> ReqType] /\ req[r] \in ReqType
    BY <1>0, MoveType
  <2>3. [req[r] EXCEPT !.pc = "quote", !.k = 1, !.available = a] \in ReqType
    BY <2>1, <2>2, AmendQuote
  <2>4. req' = [req EXCEPT ![r] =
                  [req[r] EXCEPT !.pc = "quote", !.k = 1, !.available = a]]
    BY <1>3 DEF ReadLoan, a
  <2>5. req' \in [Requests -> ReqType]
    BY <2>2, <2>3, <2>4
  <2>6. req'[r].pc = "quote" /\ req'[r].credit = req[r].credit
    BY <2>2, <2>4 DEF ReqType
  <2>7. ASSUME NEW s \in Requests PROVE Tame(s)
    <3>1. s # r => req'[s] = req[s]
      BY <2>2, <2>4
    <3>. QED
      BY <2>6, <3>1, StaysTame
  <2>. QED
    BY <1>0, <1>3, <2>5, <2>7, HeldSame, OnlyRequests DEF ReadLoan
<1>4. CASE ReadPrice(r)
  <2>1. \E n \in Nat : More(r, n) \/ Refuse(r)
    <3>1. CASE Refuse(r)
      BY <3>1
    <3>2. CASE More(r, price[Here(r).product] * Here(r).quantity)
      <4>1. Here(r).product \in Products /\ Here(r).quantity \in Nat
        BY <1>0, <1>4, HereType DEF ReadPrice
      <4>2. price[Here(r).product] \in Nat
        BY <1>0, <4>1, BoundsAssumption DEF TypeOK
      <4>3. price[Here(r).product] * Here(r).quantity \in Nat
        BY <4>1, <4>2, Product
      <4>. QED
        BY <3>2, <4>3
    <3>. QED
      BY <1>4, <3>1, <3>2 DEF ReadPrice
  <2>. QED
    BY <1>0, <1>4, <2>1, MoveType, MovesAlone, HeldSame, OnlyRequests DEF ReadPrice
<1>5. CASE CreateIntent(r)
  <2>. DEFINE credit == CreditFor(r)
  <2>. DEFINE card == Gross(req[r].sum) - credit
  <2>1. credit \in Int /\ card \in Nat
    BY <1>0, CreditType
  <2>2. /\ intents' = [intents EXCEPT ![r] = card]
        /\ req' = [req EXCEPT ![r] = [req[r] EXCEPT !.pc = "reserve", !.k = 1, !.sum = 0,
                                                    !.credit = credit, !.card = card]]
    BY <1>5 DEF CreateIntent
  <2>. HIDE DEF credit, card
  <2>3. req \in [Requests -> ReqType] /\ req[r] \in ReqType
    BY <1>0, MoveType
  <2>4. [req[r] EXCEPT !.pc = "reserve", !.k = 1, !.sum = 0,
                       !.credit = credit, !.card = card] \in ReqType
    BY <2>1, <2>3, AmendReserve
  <2>5. req' \in [Requests -> ReqType]
    BY <2>2, <2>3, <2>4
  <2>6. req'[r].pc = "reserve" /\ req'[r].credit = credit
    BY <2>2, <2>3 DEF ReqType
  <2>7. ASSUME NEW s \in Requests PROVE Tame(s)
    <3>1. CASE s = r
      <4>1. credit > 0 => WithLoan(r)
        BY <1>0, CreditType DEF credit
      <4>. QED
        BY <2>6, <3>1, <4>1 DEF Tame, Busy, Credited, WithLoan, Items
    <3>2. CASE s # r
      <4>1. req'[s] = req[s]
        BY <2>2, <2>3, <3>2
      <4>. QED
        BY <4>1, StaysTame
    <3>. QED
      BY <3>1, <3>2
  <2>8. intents' \in [Requests -> Nat]
    BY <1>0, <2>1, <2>2
  <2>. QED
    BY <1>0, <1>5, <2>5, <2>7, <2>8, HeldSame, OnlyRequests DEF CreateIntent
<1>6. CASE IntentRefused(r)
  <2>1. Refuse(r)
    BY <1>6 DEF IntentRefused
  <2>. QED
    BY <1>0, <1>6, <2>1, MoveType, MovesAlone, HeldSame, OnlyRequests DEF IntentRefused
<1>7. CASE BreakDeadlock(r)
  <2>1. Refuse(r) /\ Release(r)
    BY <1>7 DEF BreakDeadlock
  <2>. QED
    BY <1>0, <1>7, <2>1, MoveType, MovesAlone, ReleaseType, OnlyRequests DEF BreakDeadlock
<1>8. CASE Abort(r)
  <2>1. Refuse(r) /\ Release(r)
    BY <1>8 DEF Abort
  <2>. QED
    BY <1>0, <1>8, <2>1, MoveType, MovesAlone, ReleaseType, OnlyRequests DEF Abort
<1>. QED
  BY <1>1, <1>2, <1>3, <1>4, <1>5, <1>6, <1>7, <1>8

-----------------------------------------------------------------------------
(* The transaction.                                                        *)

LEMMA ReserveStep ==
    ASSUME IInv, NEW r \in Requests, Reserve(r)
    PROVE  IInv'
<1>. DEFINE i == Here(r)
<1>. DEFINE x == i.product
<1>1. TypeOK /\ x \in Products /\ i.quantity \in Nat
  BY HereType DEF IInv, Reserve
<1>2. UNCHANGED <<products, loans, orders, told, intents, page, form>>
  BY DEF Reserve
<1>3. CASE Release(r) /\ Refuse(r)
  <2>1. intents' \in [Requests -> Nat]
    BY <1>1, <1>2 DEF TypeOK
  <2>. QED
    BY <1>1, <1>2, <1>3, <2>1, MoveType, MovesAlone, ReleaseType, OnlyRequests
<1>4. CASE /\ x \in shelf /\ stock[x] - held[x].units >= i.quantity
           /\ held' = [held EXCEPT ![x] = [by |-> r, units |-> held[x].units + i.quantity]]
           /\ More(r, price[x] * i.quantity)
  <2>1. price[x] * i.quantity \in Nat
    <3>1. price[x] \in Nat
      BY <1>1, BoundsAssumption DEF TypeOK
    <3>. QED
      BY <1>1, <3>1, Product
  <2>2. req' \in [Requests -> ReqType] /\ \A s \in Requests : Tame(s)
    <3>. HIDE DEF x, i
    <3>. QED
      BY <1>1, <1>4, <2>1, MoveType, MovesAlone
  <2>3. held \in [Products -> HeldType] /\ held[x].units \in Nat /\ stock[x] \in Nat
    BY <1>1 DEF TypeOK, HeldType
  <2>4. held[x].units + i.quantity \in Nat /\ held[x].units + i.quantity <= stock[x]
    <3>. HIDE DEF x, i
    <3>. QED
      BY <1>1, <1>4, <2>3
  <2>. HIDE DEF x, i
  <2>5. held' \in [Products -> HeldType]
    BY <1>1, <1>4, <2>3, <2>4 DEF HeldType
  <2>6. TypeOK'
    BY <1>1, <1>2, <2>2, <2>5 DEF TypeOK, products, loans, ReqType, HeldType
  <2>7. \A y \in Products : Taken(y)'
    <3>. SUFFICES ASSUME NEW y \in Products PROVE Taken(y)'
      OBVIOUS
    <3>0. Taken(y) /\ stock' = stock
      BY <1>2 DEF IInv, products
    <3>1. CASE y = x
      <4>1. held'[y].by = r /\ held'[y].units = held[x].units + i.quantity
        BY <1>1, <1>4, <2>3, <3>1
      <4>. QED
        BY <3>0, <3>1, <4>1, <2>4, CartsAssumption DEF Taken
    <3>2. CASE y # x
      <4>1. held'[y] = held[y]
        BY <1>1, <1>4, <2>3, <3>2
      <4>. QED
        BY <3>0, <4>1 DEF Taken
    <3>. QED
      BY <3>1, <3>2
  <2>8. \A s \in Requests : Announced(s)' /\ Credited(s)'
    BY <1>2, <2>2, AnnouncedKept DEF IInv, Tame
  <2>. QED
    BY <2>6, <2>7, <2>8 DEF IInv
<1>. QED
  BY <1>3, <1>4 DEF Reserve

(* The last item's owner is the only seller, if there is only one.         *)
LEMMA OnlySeller ==
    ASSUME NEW r \in Requests, NEW f \in Farmers, Owners(r) = {f}
    PROVE  Items(r) # <<>> /\ Owner[At(r, Len(Items(r))).product] = f
<1>1. Items(r) \in Seq(Item)
  BY CartsAssumption DEF Cart, Items
<1>2. \E k \in 1..Len(Items(r)) : Owner[At(r, k).product] = f
  BY DEF Owners
<1>3. Items(r) # <<>> /\ Len(Items(r)) \in 1..Len(Items(r))
  BY <1>1, <1>2
<1>4. Owner[At(r, Len(Items(r))).product] \in Owners(r)
  BY <1>3 DEF Owners
<1>. QED
  BY <1>3, <1>4

LEMMA NotifyStep ==
    ASSUME IInv, NEW r \in Requests, Notify(r)
    PROVE  IInv'
<1>. DEFINE seller == Owner[At(r, Len(Items(r))).product]
<1>0. TypeOK
  BY DEF IInv
<1>1. UNCHANGED <<products, loans, orders, intents, held, page, form>>
  BY DEF Notify
<1>2. /\ told' = [told EXCEPT ![r] = IF Items(r) = <<>> THEN told[r] ELSE told[r] \cup {seller}]
      /\ req' = [req EXCEPT ![r] = [req[r] EXCEPT !.pc = "commit"]]
  BY DEF Notify
<1>3. Items(r) # <<>> => seller \in Farmers
  <2>. SUFFICES ASSUME Items(r) # <<>> PROVE seller \in Farmers
    OBVIOUS
  <2>1. Items(r) \in Seq(Item) /\ Items(r) # <<>>
    BY CartsAssumption DEF Cart, Items
  <2>2. Len(Items(r)) \in Nat \ {0}
    BY <2>1
  <2>3. At(r, Len(Items(r))) \in Item
    BY <2>2, ItemType
  <2>. QED
    BY <2>3, CartsAssumption DEF Item
<1>4. told \in [Requests -> SUBSET Farmers]
  BY <1>0 DEF TypeOK
<1>5. told' \in [Requests -> SUBSET Farmers]
  <2>. HIDE DEF seller
  <2>. QED
    BY <1>2, <1>3, <1>4
<1>6. req' \in [Requests -> ReqType]
  <2>1. req \in [Requests -> ReqType] /\ req[r] \in ReqType /\ "commit" \in Stages
    BY <1>0, MoveType DEF Stages
  <2>2. [req[r] EXCEPT !.pc = "commit"] \in ReqType
    BY <2>1, Amend
  <2>. QED
    BY <1>2, <2>1, <2>2
<1>7. TypeOK'
  BY <1>0, <1>1, <1>5, <1>6 DEF TypeOK, products, loans, ReqType
<1>8. \A x \in Products : Taken(x)'
  BY <1>1 DEF IInv, Taken, products
<1>9. ASSUME NEW s \in Requests PROVE Announced(s)'
  <2>1. CASE s = r
    <3>. SUFFICES ASSUME NEW f \in Farmers, Owners(s) = {f} PROVE f \in told'[s]
      BY DEF Announced, Owners, Items, At
    <3>1. Items(r) # <<>> /\ seller = f
      BY <2>1, OnlySeller
    <3>. HIDE DEF seller
    <3>. QED
      BY <2>1, <1>2, <1>4, <3>1
  <2>2. CASE s # r
    <3>1. Announced(s) /\ told'[s] = told[s] /\ req'[s] = req[s]
      BY <2>2, <1>0, <1>2, <1>4, MoveType DEF IInv
    <3>. QED
      BY <1>1, <3>1 DEF Announced, Busy, Owners, Items, At
  <2>. QED
    BY <2>1, <2>2
<1>10. ASSUME NEW s \in Requests PROVE Credited(s)'
  <2>1. Credited(s) /\ req \in [Requests -> ReqType]
    BY <1>0, MoveType DEF IInv
  <2>2. req'[s].credit = req[s].credit
    BY <1>2, <2>1 DEF ReqType
  <2>. QED
    BY <2>1, <2>2 DEF Credited, WithLoan, Items
<1>. QED
  BY <1>7, <1>8, <1>9, <1>10 DEF IInv

LEMMA CommitStep ==
    ASSUME IInv, NEW r \in Requests, Commit(r)
    PROVE  IInv'
<1>0. /\ TypeOK /\ Release(r) /\ Credited(r)
      /\ UNCHANGED <<shelf, price, total, told, intents, page, form>>
  BY DEF IInv, Commit
<1>1. req \in [Requests -> ReqType] /\ req[r] \in ReqType /\ "placed" \in Stages
  BY <1>0, MoveType DEF Stages
<1>2. held \in [Products -> HeldType] /\ stock \in [Products -> Nat]
  BY <1>0 DEF TypeOK, HeldType
<1>3. stock' = [x \in Products |-> IF held[x].by = r THEN stock[x] - held[x].units ELSE stock[x]]
  BY DEF Commit
<1>4. ASSUME NEW x \in Products
      PROVE  stock'[x] \in Nat /\ (held[x].by # r => stock'[x] = stock[x])
  <2>1. held[x].units \in Nat /\ stock[x] \in Nat /\ held[x].units <= stock[x]
    BY <1>2 DEF IInv, Taken, HeldType
  <2>2. stock[x] - held[x].units \in Nat
    BY <2>1
  <2>. QED
    BY <1>3, <2>1, <2>2
<1>5. stock' \in [Products -> Nat]
  BY <1>3, <1>4
<1>6. used' \in [Buyers \X Farmers -> Nat]
  <2>1. used \in [Buyers \X Farmers -> Nat]
    BY <1>0 DEF TypeOK
  <2>2. CASE req[r].credit > 0
    <3>1. Loan(r) \in Buyers \X Farmers
      BY <1>0, <2>2, LoanType DEF Credited
    <3>2. used' = [used EXCEPT ![Loan(r)] = used[Loan(r)] + req[r].credit]
      BY <2>2 DEF Commit
    <3>3. used[Loan(r)] + req[r].credit \in Nat
      BY <1>1, <2>1, <2>2, <3>1 DEF ReqType
    <3>. QED
      BY <2>1, <3>2, <3>3
  <2>3. CASE ~(req[r].credit > 0)
    BY <2>1, <2>3 DEF Commit
  <2>. QED
    BY <2>2, <2>3
<1>. DEFINE order == [subtotal |-> req[r].sum, credit |-> req[r].credit, card |-> req[r].card,
                      placed |-> TRUE]
<1>. DEFINE OrderType == [subtotal : Nat, credit : Int, card : Nat, placed : BOOLEAN]
<1>7. orders' = [orders EXCEPT ![r] = order] /\ orders \in [Requests -> OrderType]
  BY <1>0 DEF Commit, TypeOK
<1>8. order \in OrderType /\ order.placed
  BY <1>1 DEF ReqType
<1>. HIDE DEF order, OrderType
<1>9. orders' \in [Requests -> OrderType] /\ orders'[r].placed
  BY <1>7, <1>8
<1>10. req' \in [Requests -> ReqType]
  <2>1. [req[r] EXCEPT !.pc = "placed"] \in ReqType
    BY <1>1, Amend
  <2>. QED
    BY <1>1, <2>1 DEF Commit
<1>11. held' \in [Products -> HeldType] /\ \A x \in Products :
          held'[x] = held[x] \/ (held'[x].by = Nobody /\ held'[x].units = 0)
  BY <1>0, ReleaseType
<1>12. TypeOK'
  BY <1>0, <1>5, <1>6, <1>9, <1>10, <1>11 DEF TypeOK, ReqType, HeldType, OrderType
<1>13. ASSUME NEW x \in Products PROVE Taken(x)'
  <2>1. CASE held[x].by = r
    <3>1. held'[x] = Free
      BY <1>0, <2>1 DEF Release
    <3>. QED
      BY <3>1, <1>4 DEF Taken, Free
  <2>2. CASE held[x].by # r
    <3>1. held'[x] = held[x] /\ stock'[x] = stock[x] /\ Taken(x)
      BY <1>0, <1>4, <2>2 DEF Release, IInv
    <3>. QED
      BY <3>1 DEF Taken
  <2>. QED
    BY <2>1, <2>2
<1>14. ASSUME NEW s \in Requests PROVE Announced(s)'
  <2>1. Announced(s) /\ Announced(r) /\ Busy(r, "commit")
    BY DEF IInv, Commit
  <2>2. CASE s = r
    BY <1>0, <2>1, <2>2 DEF Announced, Owners, Items, At
  <2>3. CASE s # r
    <3>1. orders'[s] = orders[s] /\ req'[s] = req[s]
      BY <1>1, <1>7, <2>3 DEF Commit
    <3>. QED
      BY <1>0, <2>1, <3>1 DEF Announced, Busy, Owners, Items, At
  <2>. QED
    BY <2>2, <2>3
<1>15. ASSUME NEW s \in Requests PROVE Credited(s)'
  <2>1. req' = [req EXCEPT ![r] = [req[r] EXCEPT !.pc = "placed"]]
    BY DEF Commit
  <2>2. req'[s].credit = req[s].credit
    BY <1>1, <2>1 DEF ReqType
  <2>. QED
    BY <2>2 DEF IInv, Credited, WithLoan, Items
<1>. QED
  BY <1>12, <1>13, <1>14, <1>15 DEF IInv

-----------------------------------------------------------------------------
(* The farmers.                                                            *)

(* Steps that leave the requests and what they wrote alone.                *)
LEMMA FarmerKeeps ==
    ASSUME IInv, UNCHANGED <<used, orders, told, intents, held, req>>, TypeOK',
           \A x \in Products : stock'[x] = stock[x] \/ held[x].by = Nobody
    PROVE  IInv'
<1>1. ASSUME NEW x \in Products PROVE Taken(x)'
  <2>1. Taken(x) /\ stock'[x] \in Nat
    BY DEF IInv, TypeOK
  <2>2. CASE stock'[x] = stock[x]
    BY <2>1, <2>2 DEF Taken
  <2>3. CASE held[x].by = Nobody
    BY <2>1, <2>3 DEF Taken
  <2>. QED
    BY <2>2, <2>3
<1>2. ASSUME NEW r \in Requests PROVE Announced(r)' /\ Credited(r)'
  BY DEF IInv, Announced, Busy, Owners, Items, At, Credited, WithLoan
<1>. QED
  BY <1>1, <1>2 DEF IInv

LEMMA FarmerSteps ==
    ASSUME IInv,
           \/ \E f \in Farmers : GetMyProducts(f)
           \/ \E x \in Products : OpenForm(x) \/ CloseForm(x) \/ Remove(x)
           \/ \E x \in Products, p \in Prices : EditPrice(x, p)
           \/ \E x \in Products, change \in Changes, p \in Prices : SaveForm(x, change, p)
           \/ \E l \in Buyers \X Farmers, amount \in Grants : Grant(l, amount)
    PROVE  IInv'
<1>. USE DEF products, loans
<1>0. TypeOK
  BY DEF IInv
<1>1. CASE \E f \in Farmers : GetMyProducts(f)
  <2>1. PICK f \in Farmers : GetMyProducts(f)
    BY <1>1
  <2>2. page' \in [Products -> Nat \cup {Closed}]
    BY <1>0, <2>1 DEF TypeOK, GetMyProducts
  <2>3. TypeOK'
    BY <1>0, <2>1, <2>2 DEF TypeOK, GetMyProducts
  <2>. QED
    BY <2>1, <2>3, FarmerKeeps DEF GetMyProducts
<1>6. CASE \E x \in Products : OpenForm(x) \/ CloseForm(x)
  <2>1. PICK x \in Products : OpenForm(x) \/ CloseForm(x)
    BY <1>6
  <2>2. PICK n \in Nat \cup {Closed} : form' = [form EXCEPT ![x] = n]
    BY <1>0, <2>1 DEF TypeOK, OpenForm, CloseForm
  <2>3. form' \in [Products -> Nat \cup {Closed}]
    BY <1>0, <2>2 DEF TypeOK
  <2>4. TypeOK'
    BY <1>0, <2>1, <2>3 DEF TypeOK, OpenForm, CloseForm
  <2>. QED
    BY <2>1, <2>4, FarmerKeeps DEF OpenForm, CloseForm
<1>2. CASE \E x \in Products : Remove(x)
  <2>1. TypeOK'
    BY <1>0, <1>2 DEF TypeOK, Remove
  <2>. QED
    BY <1>2, <2>1, FarmerKeeps DEF Remove
<1>3. CASE \E x \in Products, p \in Prices : EditPrice(x, p)
  <2>1. TypeOK'
    BY <1>0, <1>3 DEF TypeOK, EditPrice
  <2>. QED
    BY <1>3, <2>1, FarmerKeeps DEF EditPrice
<1>4. CASE \E x \in Products, change \in Changes, p \in Prices : SaveForm(x, change, p)
  <2>1. PICK x \in Products, change \in Changes, p \in Prices : SaveForm(x, change, p)
    BY <1>4
  <2>2. form[x] \in Nat /\ change \in Int
    BY <1>0, <2>1, BoundsAssumption DEF TypeOK, SaveForm
  <2>3. form[x] + change \in Nat
    BY <2>1, <2>2, BoundsAssumption DEF SaveForm
  <2>4. /\ stock' = [stock EXCEPT ![x] = form[x] + change]
        /\ form' = [form EXCEPT ![x] = Closed]
        /\ price' = [price EXCEPT ![x] = p]
        /\ held[x].by = Nobody
        /\ UNCHANGED <<shelf, loans, orders, told, intents, held, page, req>>
    BY <2>1 DEF SaveForm, Unlocked
  <2>5. stock' \in [Products -> Nat]
        /\ form' \in [Products -> Nat \cup {Closed}] /\ price' \in [Products -> Prices]
    BY <1>0, <2>3, <2>4 DEF TypeOK
  <2>6. TypeOK'
    BY <1>0, <2>4, <2>5 DEF TypeOK
  <2>7. \A y \in Products : stock'[y] = stock[y] \/ held[y].by = Nobody
    BY <1>0, <2>4 DEF TypeOK
  <2>. QED
    BY <2>4, <2>6, <2>7, FarmerKeeps
<1>5. CASE \E l \in Buyers \X Farmers, amount \in Grants : Grant(l, amount)
  <2>1. PICK l \in Buyers \X Farmers, amount \in Grants : Grant(l, amount)
    BY <1>5
  <2>2. total[l] + amount \in Nat
    BY <1>0, BoundsAssumption DEF TypeOK
  <2>3. total' \in [Buyers \X Farmers -> Nat]
    BY <1>0, <2>1, <2>2 DEF TypeOK, Grant
  <2>4. TypeOK'
    BY <1>0, <2>1, <2>3 DEF TypeOK, Grant
  <2>. QED
    BY <2>1, <2>4, FarmerKeeps DEF Grant
<1>. QED
  BY <1>1, <1>2, <1>3, <1>4, <1>5, <1>6

-----------------------------------------------------------------------------
LEMMA Initial == ASSUME Init PROVE IInv
<1>1. TypeOK
  <2>1. /\ NoOrder \in [subtotal : Nat, credit : Int, card : Nat, placed : BOOLEAN]
        /\ Free \in HeldType
        /\ [pc |-> "idle", k |-> 1, sum |-> 0, available |-> 0, credit |-> 0, card |-> 0]
              \in ReqType
    BY DEF NoOrder, Free, HeldType, ReqType, Stages
  <2>. QED
    BY <2>1, CartsAssumption DEF Init, TypeOK, HeldType, ReqType
<1>2. \A x \in Products : Taken(x)
  BY <1>1 DEF Init, Taken, Free, TypeOK
<1>3. \A r \in Requests : Announced(r) /\ Credited(r)
  BY DEF Init, Announced, Credited, Busy, NoOrder
<1>. QED
  BY <1>1, <1>2, <1>3 DEF IInv

LEMMA Stutter == ASSUME IInv, UNCHANGED vars PROVE IInv'
BY DEF IInv, TypeOK, Taken, Announced, Credited, Busy, Owners, Items, At, WithLoan,
       vars, products, loans

LEMMA Inductive == ASSUME IInv, [Next]_vars PROVE IInv'
<1>1. CASE \E r \in Requests : Receive(r) \/ Step(r) \/ Abort(r)
  BY <1>1, QuoteSteps, ReserveStep, NotifyStep, CommitStep DEF Step
<1>2. CASE UNCHANGED vars
  BY <1>2, Stutter
<1>. QED
  BY <1>1, <1>2, FarmerSteps DEF Next

(* No interleaving, fault or edit breaks the invariant.                    *)
THEOREM Invariance == Spec => []IInv
<1>1. Init => IInv
  BY Initial
<1>2. IInv /\ [Next]_vars => IInv'
  BY Inductive
<1>. QED
  BY <1>1, <1>2, PTL DEF Spec

(* Every variable keeps its type: in particular no checkout, however it    *)
(* overlaps others and the farmer's edits, takes stock below zero.         *)
THEOREM TypeCorrect == Spec => []TypeOK
<1>1. IInv => TypeOK
  BY DEF IInv
<1>. QED
  BY <1>1, Invariance, PTL

(* An order of one farmer's products is never committed without that       *)
(* farmer having been told, although the notification is written outside   *)
(* of the transaction.                                                     *)
THEOREM Sellers == Spec => []SellersAreTold
<1>1. IInv => SellersAreTold
  BY DEF IInv, Announced, SellersAreTold, Placed
<1>. QED
  BY <1>1, Invariance, PTL

-----------------------------------------------------------------------------
(* Without overlap.  A request's claim on a loan is what it may still take *)
(* from it: between the read of the loan and the commit no one else takes. *)

Solo == \A r, s \in Requests : Active(r) /\ Active(s) => r = s

Claim(r) ==
    /\ Busy(r, "quote") /\ WithLoan(r) =>
           req[r].available <= total[Loan(r)] - used[Loan(r)]
    /\ (Busy(r, "reserve") \/ Busy(r, "commit")) /\ req[r].credit > 0 =>
           used[Loan(r)] + req[r].credit <= total[Loan(r)]

SoloInv ==
    /\ IInv
    /\ Solo
    /\ \A r \in Requests : Claim(r)
    /\ CreditWithinLoan

(* While one request runs the others neither run nor claim.                *)
LEMMA OnlyOneRuns ==
    ASSUME NEW r \in Requests, Claim(r)',
           \A s \in Requests \ {r} : req'[s] = req[s] /\ ~Active(s)
    PROVE  Solo' /\ \A s \in Requests : Claim(s)'
<1>1. \A s \in Requests \ {r} : ~Active(s)'
  BY DEF Active, Busy
<1>2. ASSUME NEW s \in Requests PROVE Claim(s)'
  <2>1. CASE s = r
    BY <2>1
  <2>2. CASE s # r
    <3>1. ~Busy(s, "quote")' /\ ~Busy(s, "reserve")' /\ ~Busy(s, "commit")'
      BY <2>2 DEF Active, Busy
    <3>. QED
      BY <3>1 DEF Claim, Busy
  <2>. QED
    BY <2>1, <2>2
<1>. QED
  BY <1>1, <1>2 DEF Solo

(* What a step does to the claim of its request.                           *)
LEMMA ClaimEnds ==
    ASSUME NEW r \in Requests, req'[r].pc \notin {"quote", "reserve", "commit"}
    PROVE  Claim(r)'
BY DEF Claim, Busy

LEMMA ClaimStays ==
    ASSUME NEW r \in Requests, Claim(r), UNCHANGED loans,
           req'[r].credit = req[r].credit, req'[r].available = req[r].available,
           req'[r].pc = "quote" => req[r].pc = "quote",
           req'[r].pc \in {"reserve", "commit"} => req[r].pc \in {"reserve", "commit"}
    PROVE  Claim(r)'
BY DEF Claim, Busy, loans, Loan, WithLoan, Items, At

LEMMA MoveClaim ==
    ASSUME TypeOK, NEW r \in Requests, Claim(r), UNCHANGED loans,
           Refuse(r) \/ \E n \in Nat : More(r, n)
    PROVE  Claim(r)'
<1>1. req \in [Requests -> ReqType] /\ req[r] \in ReqType
  BY MoveType
<1>2. CASE Refuse(r)
  <2>1. req'[r].pc = "refused"
    BY <1>1, <1>2 DEF Refuse, ReqType
  <2>. QED
    BY <2>1, ClaimEnds
<1>3. CASE \E n \in Nat : More(r, n)
  <2>1. /\ req'[r].pc = req[r].pc /\ req'[r].credit = req[r].credit
        /\ req'[r].available = req[r].available
    BY <1>1, <1>3 DEF More, ReqType
  <2>. QED
    BY <2>1, ClaimStays
<1>. QED
  BY <1>2, <1>3

(* Only the request of a step moves, and while it runs it runs alone.      *)
LEMMA RunsAlone ==
    ASSUME SoloInv, Overlap = FALSE, NEW r \in Requests, Receive(r) \/ Step(r) \/ Abort(r)
    PROVE  \A s \in Requests \ {r} : req'[s] = req[s] /\ ~Active(s)
<1>1. req \in [Requests -> ReqType]
  BY MoveType DEF SoloInv, IInv
<1>2. \A s \in Requests \ {r} : req'[s] = req[s]
  BY <1>1 DEF Receive, Step, Abort, CheckStock, ReadLoan, ReadPrice, CreateIntent, IntentRefused,
              Reserve, BreakDeadlock, Notify, Commit, Goto, More, Refuse
<1>3. Receive(r) => \A s \in Requests \ {r} : ~Active(s)
  BY DEF Receive, Alone
<1>4. Step(r) \/ Abort(r) => Active(r)
  <2>1. BreakDeadlock(r) => Busy(r, "reserve")
    BY DEF BreakDeadlock, Waits
  <2>. QED
    BY <2>1 DEF Step, Abort, CheckStock, ReadLoan, ReadPrice, CreateIntent, IntentRefused,
                Reserve, Notify, Commit, Active, Busy
<1>. QED
  BY <1>2, <1>3, <1>4 DEF SoloInv, Solo

LEMMA QuoteClaims ==
    ASSUME TypeOK, NEW r \in Requests, Claim(r),
           \/ Receive(r) \/ CheckStock(r) \/ ReadLoan(r) \/ ReadPrice(r) \/ CreateIntent(r)
    PROVE  Claim(r)'
<1>0. req \in [Requests -> ReqType] /\ req[r] \in ReqType
  BY MoveType
<1>1. CASE Receive(r)
  <2>1. req'[r].pc = "check"
    BY <1>0, <1>1 DEF Receive, Goto, ReqType
  <2>. QED
    BY <2>1, ClaimEnds
<1>2. CASE CheckStock(r)
  BY <1>2, MoveClaim DEF CheckStock
<1>3. CASE ReadLoan(r)
  <2>. DEFINE a == IF WithLoan(r) THEN total[Loan(r)] - used[Loan(r)] ELSE 0
  <2>1. /\ req' = [req EXCEPT ![r] =
                     [req[r] EXCEPT !.pc = "quote", !.k = 1, !.available = a]]
        /\ UNCHANGED <<total, used>>
    BY <1>3 DEF ReadLoan, loans
  <2>2. WithLoan(r) => a \in Int /\ a <= total[Loan(r)] - used[Loan(r)]
    BY LoanType DEF TypeOK
  <2>. HIDE DEF a
  <2>3. req'[r].pc = "quote" /\ req'[r].available = a
    BY <1>0, <2>1 DEF ReqType
  <2>. QED
    BY <2>1, <2>2, <2>3 DEF Claim, Busy, Loan, WithLoan, Items, At
<1>4. CASE ReadPrice(r)
  <2>1. Here(r).product \in Products /\ Here(r).quantity \in Nat
    BY <1>4, HereType DEF ReadPrice
  <2>2. price[Here(r).product] \in Nat
    BY <2>1, BoundsAssumption DEF TypeOK
  <2>3. price[Here(r).product] * Here(r).quantity \in Nat
    BY <2>1, <2>2, Product
  <2>. QED
    BY <1>4, <2>3, MoveClaim DEF ReadPrice
<1>5. CASE CreateIntent(r)
  <2>. DEFINE credit == CreditFor(r)
  <2>. DEFINE card == Gross(req[r].sum) - credit
  <2>1. /\ req' = [req EXCEPT ![r] = [req[r] EXCEPT !.pc = "reserve", !.k = 1, !.sum = 0,
                                                    !.credit = credit, !.card = card]]
        /\ UNCHANGED <<total, used>> /\ req[r].pc = "quote"
    BY <1>5 DEF CreateIntent, loans, Busy
  <2>2. credit > 0 => used[Loan(r)] + credit <= total[Loan(r)]
    <3>. SUFFICES ASSUME credit > 0 PROVE used[Loan(r)] + credit <= total[Loan(r)]
      OBVIOUS
    <3>1. /\ credit \in Int /\ WithLoan(r) /\ credit <= req[r].available
          /\ req[r].available \in Int
      BY <1>0, CreditType DEF ReqType
    <3>2. req[r].available <= total[Loan(r)] - used[Loan(r)]
      BY <2>1, <3>1 DEF Claim, Busy
    <3>3. total[Loan(r)] \in Nat /\ used[Loan(r)] \in Nat
      BY <3>1, LoanType DEF TypeOK
    <3>. HIDE DEF credit
    <3>. QED
      BY <3>1, <3>2, <3>3
  <2>. HIDE DEF credit, card
  <2>3. req'[r].pc = "reserve" /\ req'[r].credit = credit
    BY <1>0, <2>1 DEF ReqType
  <2>. QED
    BY <2>1, <2>2, <2>3 DEF Claim, Busy, Loan, Items, At
<1>. QED
  BY <1>1, <1>2, <1>3, <1>4, <1>5

LEMMA OtherClaims ==
    ASSUME TypeOK, NEW r \in Requests, Claim(r),
           \/ IntentRefused(r) \/ Reserve(r) \/ BreakDeadlock(r)
           \/ Notify(r) \/ Commit(r) \/ Abort(r)
    PROVE  Claim(r)'
<1>0. req \in [Requests -> ReqType] /\ req[r] \in ReqType
  BY MoveType
<1>1. CASE Reserve(r)
  <2>1. Here(r).product \in Products /\ Here(r).quantity \in Nat
    BY <1>1, HereType DEF Reserve
  <2>2. price[Here(r).product] \in Nat
    BY <2>1, BoundsAssumption DEF TypeOK
  <2>3. price[Here(r).product] * Here(r).quantity \in Nat
    BY <2>1, <2>2, Product
  <2>. QED
    BY <1>1, <2>3, MoveClaim DEF Reserve
<1>2. CASE IntentRefused(r) \/ BreakDeadlock(r) \/ Abort(r)
  BY <1>2, MoveClaim DEF IntentRefused, BreakDeadlock, Abort
<1>3. CASE Notify(r)
  <2>1. /\ req' = [req EXCEPT ![r] = [req[r] EXCEPT !.pc = "commit"]]
        /\ UNCHANGED loans /\ req[r].pc = "reserve"
    BY <1>3 DEF Notify, Busy
  <2>2. /\ req'[r].pc = "commit" /\ req'[r].credit = req[r].credit
        /\ req'[r].available = req[r].available
    BY <1>0, <2>1 DEF ReqType
  <2>. QED
    BY <2>1, <2>2, ClaimStays
<1>4. CASE Commit(r)
  <2>1. req' = [req EXCEPT ![r] = [req[r] EXCEPT !.pc = "placed"]]
    BY <1>4 DEF Commit
  <2>2. req'[r].pc = "placed"
    BY <1>0, <2>1 DEF ReqType
  <2>. QED
    BY <2>2, ClaimEnds
<1>. QED
  BY <1>1, <1>2, <1>3, <1>4

LEMMA CommitWithinLoan ==
    ASSUME SoloInv, NEW r \in Requests, Commit(r)
    PROVE  CreditWithinLoan'
<1>1. total' = total /\ used \in [Buyers \X Farmers -> Nat]
  BY DEF Commit, SoloInv, IInv, TypeOK
<1>2. CASE req[r].credit > 0
  <2>1. Loan(r) \in Buyers \X Farmers
    BY <1>2, LoanType DEF SoloInv, IInv, Credited
  <2>2. used[Loan(r)] + req[r].credit <= total[Loan(r)]
    BY <1>2 DEF SoloInv, Claim, Commit
  <2>3. used' = [used EXCEPT ![Loan(r)] = used[Loan(r)] + req[r].credit]
    BY <1>2 DEF Commit
  <2>. QED
    BY <1>1, <2>1, <2>2, <2>3 DEF SoloInv, CreditWithinLoan
<1>3. CASE ~(req[r].credit > 0)
  BY <1>1, <1>3 DEF Commit, SoloInv, CreditWithinLoan
<1>. QED
  BY <1>2, <1>3

(* Accepted offers only raise what a claim may take.                       *)
LEMMA LoansGrow ==
    ASSUME SoloInv, IInv', UNCHANGED <<used, req>>,
           \A l \in Buyers \X Farmers : total'[l] >= total[l]
    PROVE  SoloInv'
<1>1. /\ total \in [Buyers \X Farmers -> Nat] /\ total' \in [Buyers \X Farmers -> Nat]
      /\ used \in [Buyers \X Farmers -> Nat] /\ req \in [Requests -> ReqType]
  BY DEF SoloInv, IInv, TypeOK, ReqType
<1>2. ASSUME NEW r \in Requests PROVE Claim(r)'
  <2>. DEFINE l == Loan(r)
  <2>1. Claim(r) /\ Credited(r) /\ req[r].available \in Int /\ req[r].credit \in Int
    BY <1>1 DEF SoloInv, IInv, ReqType
  <2>2. WithLoan(r) =>
           total[l] \in Nat /\ total'[l] \in Nat /\ used[l] \in Nat /\ total'[l] >= total[l]
    BY <1>1, LoanType
  <2>3. Loan(r)' = l /\ WithLoan(r)' = WithLoan(r)
    BY DEF Loan, WithLoan, Items, At
  <2>. HIDE DEF l
  <2>4. Busy(r, "quote") /\ WithLoan(r) => req[r].available <= total'[l] - used[l]
    BY <2>1, <2>2 DEF Claim, l
  <2>5. (Busy(r, "reserve") \/ Busy(r, "commit")) /\ req[r].credit > 0 =>
            used[l] + req[r].credit <= total'[l]
    BY <2>1, <2>2 DEF Claim, Credited, l
  <2>. QED
    BY <2>3, <2>4, <2>5 DEF Claim, Busy
<1>3. CreditWithinLoan'
  <2>1. ASSUME NEW l \in Buyers \X Farmers PROVE used'[l] <= total'[l]
    <3>1. total[l] \in Nat /\ total'[l] \in Nat /\ used[l] \in Nat
      BY <1>1
    <3>2. used[l] <= total[l] /\ total'[l] >= total[l]
      BY DEF SoloInv, CreditWithinLoan
    <3>. QED
      BY <3>1, <3>2
  <2>. QED
    BY <2>1 DEF CreditWithinLoan
<1>4. Solo'
  BY DEF SoloInv, Solo, Active, Busy
<1>. QED
  BY <1>2, <1>3, <1>4 DEF SoloInv

LEMMA SoloInductive ==
    ASSUME Overlap = FALSE, SoloInv, [Next]_vars
    PROVE  SoloInv'
<1>0. IInv' /\ TypeOK
  BY Inductive DEF SoloInv, IInv
<1>1. CASE \E r \in Requests : Receive(r) \/ Step(r) \/ Abort(r)
  <2>1. PICK r \in Requests : Receive(r) \/ Step(r) \/ Abort(r)
    BY <1>1
  <2>2. Claim(r)'
    BY <1>0, <2>1, QuoteClaims, OtherClaims DEF SoloInv, Step
  <2>3. Solo' /\ \A s \in Requests : Claim(s)'
    BY <2>1, <2>2, RunsAlone, OnlyOneRuns
  <2>4. CreditWithinLoan'
    <3>1. CASE Commit(r)
      BY <3>1, CommitWithinLoan
    <3>2. CASE ~Commit(r)
      <4>1. UNCHANGED <<total, used>>
        BY <2>1, <3>2 DEF Receive, Step, Abort, CheckStock, ReadLoan, ReadPrice, CreateIntent,
                          IntentRefused, Reserve, BreakDeadlock, Notify, loans
      <4>. QED
        BY <4>1 DEF SoloInv, CreditWithinLoan
    <3>. QED
      BY <3>1, <3>2
  <2>. QED
    BY <1>0, <2>3, <2>4 DEF SoloInv
<1>2. CASE \E l \in Buyers \X Farmers, amount \in Grants : Grant(l, amount)
  <2>1. PICK l \in Buyers \X Farmers, amount \in Grants : Grant(l, amount)
    BY <1>2
  <2>2. total \in [Buyers \X Farmers -> Nat] /\ amount \in Nat
    BY <1>0, BoundsAssumption DEF TypeOK
  <2>3. total' = [total EXCEPT ![l] = total[l] + amount] /\ UNCHANGED <<used, req>>
    BY <2>1 DEF Grant
  <2>4. \A m \in Buyers \X Farmers : total'[m] >= total[m]
    BY <2>2, <2>3
  <2>. QED
    BY <1>0, <2>3, <2>4, LoansGrow
<1>3. CASE UNCHANGED <<total, used, req>>
  <2>1. \A m \in Buyers \X Farmers : total'[m] >= total[m]
    BY <1>0, <1>3 DEF TypeOK
  <2>. QED
    BY <1>0, <1>3, <2>1, LoansGrow
<1>4. \/ \E f \in Farmers : GetMyProducts(f)
      \/ \E x \in Products : OpenForm(x) \/ CloseForm(x) \/ Remove(x)
      \/ \E x \in Products, p \in Prices : EditPrice(x, p)
      \/ \E x \in Products, change \in Changes, p \in Prices : SaveForm(x, change, p)
      \/ UNCHANGED vars
      => UNCHANGED <<total, used, req>>
  BY DEF GetMyProducts, OpenForm, CloseForm, Remove, EditPrice, SaveForm, vars, loans
<1>. QED
  BY <1>1, <1>2, <1>3, <1>4 DEF Next

(* When requests are served one after the other the loan never pays more   *)
(* than was granted, although it is read before and charged within the     *)
(* transaction, requests die in between, and offers are accepted.          *)
THEOREM Credit == ASSUME Overlap = FALSE PROVE Spec => []CreditWithinLoan
<1>1. Init => SoloInv
  <2>1. ASSUME Init PROVE Solo /\ (\A r \in Requests : Claim(r)) /\ CreditWithinLoan
    BY <2>1 DEF Init, Solo, Claim, Active, Busy, CreditWithinLoan
  <2>. QED
    BY <2>1, Initial DEF SoloInv
<1>2. SoloInv /\ [Next]_vars => SoloInv'
  BY SoloInductive
<1>3. SoloInv => CreditWithinLoan
  BY DEF SoloInv
<1>. QED
  BY <1>1, <1>2, <1>3, PTL DEF Spec

-----------------------------------------------------------------------------
(* Sums.  What SumFunctionOnSet computes is shown by its smallest          *)
(* counterexample: inclusion is well-founded on the subsets of a finite    *)
(* set, so a set of counterexamples has a least one, and the definition    *)
(* unfolded once shows it is none.                                         *)

(* The element SumFunctionOnSet adds first, and the function it recurses   *)
(* by: the sum of every subset.                                            *)
Some(S) == CHOOSE x \in S : TRUE
IsTally(f, S, g) ==
    g = [T \in SUBSET S |-> IF T = {} THEN 0 ELSE f[Some(T)] + g[T \ {Some(T)}]]
Tally(f, S) == CHOOSE g : IsTally(f, S, g)

LEMMA SumIsTally == ASSUME NEW f, NEW S PROVE SumFunctionOnSet(f, S) = Tally(f, S)[S]
BY DEF SumFunctionOnSet, FoldFunctionOnSet, MapThenFoldSet, Tally, IsTally, Some

LEMMA SomeIn == ASSUME NEW S, S # {} PROVE Some(S) \in S
BY DEF Some

(* Of the finite sets with a property, some have no smaller one with it.   *)
LEMMA Smallest ==
    ASSUME NEW S, IsFiniteSet(S), NEW Bad, Bad \subseteq SUBSET S, Bad # {}
    PROVE  \E T \in Bad : \A U \in Bad : ~(U \subseteq T /\ U # T)
<1>1. IsWellFoundedOn(StrictSubsetOrdering(S), FiniteSubsetsOf(S))
  BY FS_StrictSubsetOrderingWellFounded
<1>2. FiniteSubsetsOf(S) = SUBSET S
  BY FS_FiniteSubsetsOfFinite
<1>3. \E T \in Bad : \A U \in Bad : <<U, T>> \notin StrictSubsetOrdering(S)
  BY <1>1, <1>2, WFMin
<1>. QED
  BY <1>3 DEF StrictSubsetOrdering

(* Two tallies agree where both are defined.                               *)
LEMMA TalliesAgree ==
    ASSUME NEW S, IsFiniteSet(S), NEW R, IsFiniteSet(R), NEW f, NEW g, NEW h,
           IsTally(f, S, g), IsTally(f, R, h), NEW T \in SUBSET (S \cap R)
    PROVE  g[T] = h[T]
<1>. DEFINE Bad == {U \in SUBSET (S \cap R) : g[U] # h[U]}
<1>. SUFFICES ASSUME Bad # {} PROVE FALSE
  OBVIOUS
<1>1. Bad \subseteq SUBSET S /\ IsFiniteSet(S)
  OBVIOUS
<1>2. PICK U \in Bad : \A V \in Bad : ~(V \subseteq U /\ V # U)
  <2>. HIDE DEF Bad
  <2>. QED
    BY <1>1, Smallest
<1>3. U \subseteq S /\ U \subseteq R
  OBVIOUS
<1>4. g[U] = IF U = {} THEN 0 ELSE f[Some(U)] + g[U \ {Some(U)}]
  BY <1>3 DEF IsTally
<1>5. h[U] = IF U = {} THEN 0 ELSE f[Some(U)] + h[U \ {Some(U)}]
  BY <1>3 DEF IsTally
<1>6. U # {} => Some(U) \in U
  BY SomeIn
<1>7. U # {} => g[U \ {Some(U)}] = h[U \ {Some(U)}]
  BY <1>2, <1>3, <1>6
<1>. QED
  BY <1>2, <1>4, <1>5, <1>7

(* Every finite set has a tally.                                           *)
LEMMA TallyExists ==
    ASSUME NEW S, IsFiniteSet(S), NEW f
    PROVE  IsTally(f, S, Tally(f, S))
<1>. DEFINE Bad == {T \in SUBSET S : ~IsTally(f, T, Tally(f, T))}
<1>. SUFFICES ASSUME Bad # {} PROVE FALSE
  OBVIOUS
<1>1. Bad \subseteq SUBSET S
  OBVIOUS
<1>2. PICK T \in Bad : \A V \in Bad : ~(V \subseteq T /\ V # T)
  <2>. HIDE DEF Bad
  <2>. QED
    BY <1>1, Smallest
<1>3. \A V \in SUBSET T : V # T => IsTally(f, V, Tally(f, V))
  BY <1>2
<1>. DEFINE rest == Tally(f, T \ {Some(T)})[T \ {Some(T)}]
<1>. DEFINE g == [V \in SUBSET T |->
                    IF V # T THEN Tally(f, V)[V] ELSE IF T = {} THEN 0 ELSE f[Some(T)] + rest]
<1>4. \A V \in SUBSET T : IsFiniteSet(V)
  BY FS_Subset
<1>5. ASSUME NEW V \in SUBSET T
      PROVE  g[V] = IF V = {} THEN 0 ELSE f[Some(V)] + g[V \ {Some(V)}]
  <2>. DEFINE W == V \ {Some(V)}
  <2>1. V # {} => Some(V) \in V
    BY SomeIn
  <2>2. V # {} => W \in SUBSET T /\ W # T /\ W \subseteq V /\ W # V
    BY <2>1
  <2>3. V # {} => g[W] = Tally(f, W)[W]
    BY <2>2
  <2>4. CASE V = T
    BY <2>3, <2>4
  <2>5. CASE V # T
    <3>1. g[V] = Tally(f, V)[V] /\ IsTally(f, V, Tally(f, V))
      BY <1>3, <2>5
    <3>2. Tally(f, V)[V] = IF V = {} THEN 0 ELSE f[Some(V)] + Tally(f, V)[W]
      BY <3>1 DEF IsTally
    <3>3. V # {} => Tally(f, V)[W] = Tally(f, W)[W]
      BY <1>3, <1>4, <2>2, <3>1, TalliesAgree
    <3>. QED
      BY <2>3, <3>1, <3>2, <3>3
  <2>. QED
    BY <2>4, <2>5
<1>6. g = [V \in SUBSET T |-> IF V = {} THEN 0 ELSE f[Some(V)] + g[V \ {Some(V)}]]
  <2>1. g = [V \in SUBSET T |-> g[V]]
    OBVIOUS
  <2>. HIDE DEF g
  <2>. QED
    BY <1>5, <2>1
<1>7. IsTally(f, T, g)
  <2>. HIDE DEF g
  <2>. QED
    BY <1>6 DEF IsTally
<1>8. IsTally(f, T, Tally(f, T))
  <2>. HIDE DEF g
  <2>. QED
    BY <1>7 DEF Tally
<1>. QED
  BY <1>2, <1>8

(* What a sum is: nothing, or one of the values and the sum of the others. *)
LEMMA SumUnfolds ==
    ASSUME NEW S, IsFiniteSet(S), NEW f
    PROVE  SumFunctionOnSet(f, S) =
               IF S = {} THEN 0
               ELSE f[Some(S)] + SumFunctionOnSet(f, S \ {Some(S)})
<1>. DEFINE R == S \ {Some(S)}
<1>1. IsTally(f, S, Tally(f, S)) /\ IsTally(f, R, Tally(f, R)) /\ IsFiniteSet(R)
  BY FS_Subset, TallyExists
<1>2. Tally(f, S)[R] = Tally(f, R)[R]
  BY <1>1, TalliesAgree
<1>3. Tally(f, S)[S] = IF S = {} THEN 0 ELSE f[Some(S)] + Tally(f, S)[R]
  BY <1>1 DEF IsTally
<1>. QED
  BY <1>2, <1>3, SumIsTally

LEMMA SumEmpty == ASSUME NEW f PROVE SumFunctionOnSet(f, {}) = 0
BY SumUnfolds, FS_EmptySet

LEMMA SumType ==
    ASSUME NEW S, IsFiniteSet(S), NEW f, \A x \in S : f[x] \in Int
    PROVE  SumFunctionOnSet(f, S) \in Int
<1>. DEFINE Bad == {T \in SUBSET S : SumFunctionOnSet(f, T) \notin Int}
<1>. SUFFICES ASSUME Bad # {} PROVE FALSE
  OBVIOUS
<1>1. Bad \subseteq SUBSET S
  OBVIOUS
<1>2. PICK T \in Bad : \A V \in Bad : ~(V \subseteq T /\ V # T)
  <2>. HIDE DEF Bad
  <2>. QED
    BY <1>1, Smallest
<1>3. IsFiniteSet(T)
  BY FS_Subset
<1>4. T # {} => Some(T) \in T
  BY SomeIn
<1>5. T # {} => SumFunctionOnSet(f, T \ {Some(T)}) \in Int
  BY <1>2, <1>4
<1>6. T # {} => f[Some(T)] \in Int
  BY <1>4
<1>7. SumFunctionOnSet(f, T) = IF T = {} THEN 0
                               ELSE f[Some(T)] + SumFunctionOnSet(f, T \ {Some(T)})
  BY <1>3, SumUnfolds
<1>. QED
  BY <1>2, <1>5, <1>6, <1>7

(* The order of the elements does not matter: any may be taken out.        *)
LEMMA SumRemoves ==
    ASSUME NEW S, IsFiniteSet(S), NEW f, \A x \in S : f[x] \in Int, NEW a \in S
    PROVE  SumFunctionOnSet(f, S) = f[a] + SumFunctionOnSet(f, S \ {a})
<1>. DEFINE Sum(T) == SumFunctionOnSet(f, T)
<1>. DEFINE Bad == {T \in SUBSET S : \E x \in T : Sum(T) # f[x] + Sum(T \ {x})}
<1>. SUFFICES ASSUME Bad # {} PROVE FALSE
  OBVIOUS
<1>1. Bad \subseteq SUBSET S
  OBVIOUS
<1>2. PICK T \in Bad : \A V \in Bad : ~(V \subseteq T /\ V # T)
  <2>. HIDE DEF Bad
  <2>. QED
    BY <1>1, Smallest
<1>3. PICK x \in T : Sum(T) # f[x] + Sum(T \ {x})
  OBVIOUS
<1>. DEFINE y == Some(T)
<1>4. y \in T
  BY SomeIn
<1>5. \A V \in SUBSET T : IsFiniteSet(V)
  BY FS_Subset
<1>6. Sum(T) = f[y] + Sum(T \ {y})
  BY <1>4, <1>5, SumUnfolds
<1>. HIDE DEF y
<1>7. x # y
  BY <1>3, <1>6
<1>8. Sum(T \ {y}) = f[x] + Sum((T \ {y}) \ {x})
  <2>1. T \ {y} \notin Bad
    BY <1>2, <1>4
  <2>. QED
    BY <2>1, <1>7
<1>9. Sum(T \ {x}) = f[y] + Sum((T \ {x}) \ {y})
  <2>1. T \ {x} \notin Bad
    BY <1>2
  <2>. QED
    BY <2>1, <1>4, <1>7
<1>10. (T \ {x}) \ {y} = (T \ {y}) \ {x}
  OBVIOUS
<1>11. f[x] \in Int /\ f[y] \in Int
  BY <1>4
<1>12. Sum((T \ {y}) \ {x}) \in Int
  <2>1. IsFiniteSet((T \ {y}) \ {x}) /\ \A z \in (T \ {y}) \ {x} : f[z] \in Int
    BY <1>5
  <2>. QED
    BY <2>1, SumType
<1>13. Sum(T \ {x}) = f[y] + Sum((T \ {y}) \ {x})
  BY <1>9, <1>10
<1>14. Sum(T) = f[x] + Sum(T \ {x})
  <2>. DEFINE rest == Sum((T \ {y}) \ {x})
  <2>1. rest \in Int
    BY <1>12
  <2>2. Sum(T \ {x}) = f[y] + rest /\ Sum(T \ {y}) = f[x] + rest
    BY <1>8, <1>13
  <2>. HIDE DEF Sum, rest
  <2>. QED
    BY <1>6, <1>11, <2>1, <2>2
<1>. QED
  BY <1>3, <1>14

(* Adding an element adds its value.                                       *)
LEMMA SumAdds ==
    ASSUME NEW S, IsFiniteSet(S), NEW f, NEW a, a \notin S,
           \A x \in S \cup {a} : f[x] \in Int
    PROVE  SumFunctionOnSet(f, S \cup {a}) = SumFunctionOnSet(f, S) + f[a]
<1>1. IsFiniteSet(S \cup {a}) /\ a \in S \cup {a} /\ (S \cup {a}) \ {a} = S
  BY FS_AddElement
<1>2. SumFunctionOnSet(f, S \cup {a}) = f[a] + SumFunctionOnSet(f, S)
  BY <1>1, SumRemoves
<1>3. SumFunctionOnSet(f, S) \in Int /\ f[a] \in Int
  BY SumType
<1>. QED
  BY <1>2, <1>3

(* A sum depends on the values at its set only.                            *)
LEMMA SumSame ==
    ASSUME NEW S, IsFiniteSet(S), NEW f, NEW g, \A x \in S : f[x] = g[x]
    PROVE  SumFunctionOnSet(f, S) = SumFunctionOnSet(g, S)
<1>. DEFINE Bad == {T \in SUBSET S : SumFunctionOnSet(f, T) # SumFunctionOnSet(g, T)}
<1>. SUFFICES ASSUME Bad # {} PROVE FALSE
  OBVIOUS
<1>1. Bad \subseteq SUBSET S
  OBVIOUS
<1>2. PICK T \in Bad : \A V \in Bad : ~(V \subseteq T /\ V # T)
  <2>. HIDE DEF Bad
  <2>. QED
    BY <1>1, Smallest
<1>3. IsFiniteSet(T)
  BY FS_Subset
<1>4. T # {} => Some(T) \in T
  BY SomeIn
<1>5. T # {} => SumFunctionOnSet(f, T \ {Some(T)}) = SumFunctionOnSet(g, T \ {Some(T)})
  BY <1>2, <1>4
<1>6. SumFunctionOnSet(f, T) = IF T = {} THEN 0
                               ELSE f[Some(T)] + SumFunctionOnSet(f, T \ {Some(T)})
  BY <1>3, SumUnfolds
<1>7. SumFunctionOnSet(g, T) = IF T = {} THEN 0
                               ELSE g[Some(T)] + SumFunctionOnSet(g, T \ {Some(T)})
  BY <1>3, SumUnfolds
<1>. QED
  BY <1>2, <1>4, <1>5, <1>6, <1>7

(* Raising one of the values raises the sum by as much.                    *)
LEMMA SumRaised ==
    ASSUME NEW S, IsFiniteSet(S), NEW f, NEW g, NEW a \in S, NEW d \in Int,
           \A x \in S : f[x] \in Int, g[a] = f[a] + d, \A x \in S \ {a} : g[x] = f[x]
    PROVE  SumFunctionOnSet(g, S) = SumFunctionOnSet(f, S) + d
<1>1. IsFiniteSet(S \ {a})
  BY FS_Subset
<1>2. SumFunctionOnSet(g, S \ {a}) = SumFunctionOnSet(f, S \ {a})
  BY <1>1, SumSame
<1>3. \A x \in S : g[x] \in Int
  OBVIOUS
<1>4. /\ SumFunctionOnSet(f, S) = f[a] + SumFunctionOnSet(f, S \ {a})
      /\ SumFunctionOnSet(g, S) = g[a] + SumFunctionOnSet(g, S \ {a})
  BY <1>3, SumRemoves
<1>5. SumFunctionOnSet(f, S \ {a}) \in Int /\ f[a] \in Int
  BY <1>1, SumType
<1>. QED
  BY <1>2, <1>4, <1>5

LEMMA SumNat ==
    ASSUME NEW S, IsFiniteSet(S), NEW f, \A x \in S : f[x] \in Nat
    PROVE  SumFunctionOnSet(f, S) \in Nat
<1>. DEFINE Bad == {T \in SUBSET S : SumFunctionOnSet(f, T) \notin Nat}
<1>. SUFFICES ASSUME Bad # {} PROVE FALSE
  OBVIOUS
<1>1. Bad \subseteq SUBSET S
  OBVIOUS
<1>2. PICK T \in Bad : \A V \in Bad : ~(V \subseteq T /\ V # T)
  <2>. HIDE DEF Bad
  <2>. QED
    BY <1>1, Smallest
<1>3. IsFiniteSet(T)
  BY FS_Subset
<1>4. T # {} => Some(T) \in T
  BY SomeIn
<1>5. T # {} => SumFunctionOnSet(f, T \ {Some(T)}) \in Nat
  BY <1>2, <1>4
<1>6. T # {} => f[Some(T)] \in Nat
  BY <1>4
<1>7. SumFunctionOnSet(f, T) = IF T = {} THEN 0
                               ELSE f[Some(T)] + SumFunctionOnSet(f, T \ {Some(T)})
  BY <1>3, SumUnfolds
<1>. QED
  BY <1>2, <1>5, <1>6, <1>7

-----------------------------------------------------------------------------
(* What an open transaction took is what its cart says so far, and what    *)
(* was placed stays: stock and loans add up, whatever overlaps.            *)

InTx(r) == Busy(r, "reserve") \/ Busy(r, "commit")

(* The items of a product before an item of the cart.                      *)
Before(r, x, k) == {i \in 1..Len(Items(r)) : i < k /\ At(r, i).product = x}

Booked(r) ==
    /\ orders[r].placed => Busy(r, "placed")
    /\ Busy(r, "commit") => Done(r)
    /\ IF InTx(r)
       THEN \A x \in Products :
               SumFunctionOnSet(Units(r), Before(r, x, req[r].k)) =
                   IF held[x].by = r THEN held[x].units ELSE 0
       ELSE \A x \in Products : held[x].by # r

LInv ==
    /\ IsFiniteSet(Placed)
    /\ \A r \in Requests : Booked(r)
    /\ LoanIsSpentByOrders

LEMMA LenType == ASSUME NEW r \in Requests PROVE Len(Items(r)) \in Nat /\ Items(r) \in Seq(Item)
BY CartsAssumption DEF Cart, Items

LEMMA UnitsType ==
    ASSUME NEW r \in Requests, NEW T, T \subseteq 1..Len(Items(r))
    PROVE  /\ IsFiniteSet(T)
           /\ \A i \in T : Units(r)[i] = At(r, i).quantity /\ Units(r)[i] \in Nat
<1>1. Len(Items(r)) \in Nat
  BY LenType
<1>2. IsFiniteSet(1..Len(Items(r)))
  BY <1>1, FS_Interval
<1>3. IsFiniteSet(T)
  BY <1>2, FS_Subset
<1>4. ASSUME NEW i \in T PROVE At(r, i).quantity \in Nat
  <2>1. At(r, i) \in Item
    BY <1>1, ItemType
  <2>. QED
    BY <2>1 DEF Item
<1>. QED
  BY <1>3, <1>4 DEF Units

(* The first items of a cart, and one more.                                *)
LEMMA BeforeFirst == ASSUME NEW r \in Requests, NEW x PROVE Before(r, x, 1) = {}
BY LenType DEF Before

LEMMA BeforeLast ==
    ASSUME NEW r \in Requests, NEW x, NEW k \in Nat, k > Len(Items(r))
    PROVE  SumFunctionOnSet(Units(r), Before(r, x, k)) = Quantity(r, x)
<1>1. Before(r, x, k) = {i \in 1..Len(Items(r)) : At(r, i).product = x}
  BY LenType DEF Before
<1>. QED
  BY <1>1 DEF Quantity

LEMMA BeforeNext ==
    ASSUME NEW r \in Requests, NEW x, NEW k \in Nat \ {0}, k <= Len(Items(r))
    PROVE  SumFunctionOnSet(Units(r), Before(r, x, k + 1)) =
               SumFunctionOnSet(Units(r), Before(r, x, k))
                 + (IF At(r, k).product = x THEN At(r, k).quantity ELSE 0)
<1>. DEFINE S == Before(r, x, k)
<1>0. Len(Items(r)) \in Nat /\ k \in 1..Len(Items(r)) /\ k \notin S
  BY LenType DEF Before
<1>1. S \subseteq 1..Len(Items(r)) /\ S \cup {k} \subseteq 1..Len(Items(r))
  BY <1>0 DEF Before
<1>2. /\ IsFiniteSet(S)
      /\ \A i \in S \cup {k} : Units(r)[i] = At(r, i).quantity /\ Units(r)[i] \in Nat
  BY <1>1, UnitsType
<1>3. SumFunctionOnSet(Units(r), S) \in Int
  BY <1>2, SumType
<1>4. CASE At(r, k).product = x
  <2>1. Before(r, x, k + 1) = S \cup {k}
    BY <1>0, <1>4 DEF Before
  <2>2. SumFunctionOnSet(Units(r), S \cup {k}) = SumFunctionOnSet(Units(r), S) + Units(r)[k]
    <3>1. k \notin S /\ IsFiniteSet(S) /\ \A i \in S \cup {k} : Units(r)[i] \in Int
      BY <1>0, <1>2
    <3>. HIDE DEF S
    <3>. QED
      BY <3>1, SumAdds
  <2>. QED
    BY <1>2, <1>4, <2>1, <2>2
<1>5. CASE At(r, k).product # x
  <2>1. Before(r, x, k + 1) = S
    BY <1>0, <1>5 DEF Before
  <2>. QED
    BY <1>3, <1>5, <2>1
<1>. QED
  BY <1>4, <1>5

LEMMA QuantityType == ASSUME NEW r \in Requests, NEW x PROVE Quantity(r, x) \in Nat
<1>1. {i \in 1..Len(Items(r)) : At(r, i).product = x} \subseteq 1..Len(Items(r))
  OBVIOUS
<1>. QED
  BY <1>1, UnitsType, SumNat DEF Quantity

(* How the requests move.                                                  *)
LEMMA Effects ==
    ASSUME TypeOK, NEW r \in Requests
    PROVE  /\ Refuse(r) => req'[r].pc = "refused"
           /\ \A pc : Goto(r, pc) => req'[r].pc = pc /\ req'[r].k = 1 /\ req'[r].sum = req[r].sum
           /\ \A n : More(r, n) =>
                 /\ req'[r].pc = req[r].pc
                 /\ req'[r].k = req[r].k + 1
                 /\ req'[r].sum = req[r].sum + n
                 /\ req'[r].available = req[r].available
                 /\ req'[r].credit = req[r].credit
                 /\ req'[r].card = req[r].card
<1>1. req \in [Requests -> ReqType] /\ req[r] \in ReqType
  BY MoveType
<1>2. Refuse(r) => req'[r].pc = "refused"
  BY <1>1 DEF Refuse, ReqType
<1>3. \A pc : Goto(r, pc) => req'[r].pc = pc /\ req'[r].k = 1 /\ req'[r].sum = req[r].sum
  BY <1>1 DEF Goto, ReqType
<1>4. ASSUME NEW n, More(r, n)
      PROVE  /\ req'[r].pc = req[r].pc
             /\ req'[r].k = req[r].k + 1
             /\ req'[r].sum = req[r].sum + n
             /\ req'[r].available = req[r].available
             /\ req'[r].credit = req[r].credit
             /\ req'[r].card = req[r].card
  BY <1>1, <1>4 DEF More, ReqType
<1>. QED
  BY <1>2, <1>3, <1>4

LEMMA OthersStay ==
    ASSUME TypeOK, NEW r \in Requests, Receive(r) \/ Step(r) \/ Abort(r)
    PROVE  \A s \in Requests \ {r} : req'[s] = req[s]
<1>1. req \in [Requests -> ReqType]
  BY MoveType
<1>. QED
  BY <1>1 DEF Receive, Step, Abort, CheckStock, ReadLoan, ReadPrice, CreateIntent, IntentRefused,
              Reserve, BreakDeadlock, Notify, Commit, Goto, More, Refuse

(* A transaction does not touch what another one holds.                    *)
LEMMA OthersKeep ==
    ASSUME TypeOK, NEW r \in Requests, Receive(r) \/ Step(r) \/ Abort(r)
    PROVE  \A s \in Requests \ {r}, x \in Products :
               held'[x] = held[x] \/ (held[x].by # s /\ held'[x].by # s)
<1>1. held \in [Products -> HeldType]
  BY DEF TypeOK, HeldType
<1>2. Free.by \notin Requests
  BY CartsAssumption DEF Free
<1>3. Release(r) => \A s \in Requests \ {r}, x \in Products :
          held'[x] = held[x] \/ (held[x].by # s /\ held'[x].by # s)
  BY <1>1, <1>2 DEF Release
<1>4. CASE Reserve(r)
  <2>1. CASE Release(r)
    BY <1>3, <2>1
  <2>2. CASE ~Release(r)
    <3>. DEFINE x == Here(r).product
    <3>. DEFINE n == held[x].units + Here(r).quantity
    <3>1. held[x].by \in {Nobody, r} /\ held' = [held EXCEPT ![x] = [by |-> r, units |-> n]]
      BY <1>4, <2>2 DEF Reserve
    <3>2. x \in Products
      BY <1>4, HereType DEF Reserve
    <3>. HIDE DEF x, n
    <3>. QED
      BY <1>1, <3>1, <3>2, CartsAssumption
  <2>. QED
    BY <2>1, <2>2
<1>5. CASE BreakDeadlock(r) \/ Commit(r) \/ Abort(r)
  BY <1>3, <1>5 DEF BreakDeadlock, Commit, Abort
<1>6. CASE \/ Receive(r) \/ CheckStock(r) \/ ReadLoan(r) \/ ReadPrice(r) \/ CreateIntent(r)
           \/ IntentRefused(r) \/ Notify(r)
  BY <1>6 DEF Receive, CheckStock, ReadLoan, ReadPrice, CreateIntent, IntentRefused, Notify
<1>. QED
  BY <1>4, <1>5, <1>6 DEF Step

LEMMA OthersBooked ==
    ASSUME NEW s \in Requests, Booked(s), req'[s] = req[s], orders'[s] = orders[s],
           \A x \in Products : held'[x] = held[x] \/ (held[x].by # s /\ held'[x].by # s)
    PROVE  Booked(s)'
<1>1. /\ InTx(s)' = InTx(s) /\ Done(s)' = Done(s)
      /\ \A x \in Products : Before(s, x, req[s].k)' = Before(s, x, req[s].k)
      /\ Units(s)' = Units(s)
  BY DEF InTx, Busy, Done, Before, Units, Items, At
<1>2. \A x \in Products :
          (IF held'[x].by = s THEN held'[x].units ELSE 0) =
              IF held[x].by = s THEN held[x].units ELSE 0
  OBVIOUS
<1>3. CASE InTx(s)
  BY <1>1, <1>2, <1>3 DEF Booked, Busy
<1>4. CASE ~InTx(s)
  BY <1>1, <1>2, <1>4 DEF Booked, Busy
<1>. QED
  BY <1>3, <1>4

(* A request that is in no transaction holds nothing.                      *)
LEMMA OutBooked ==
    ASSUME NEW r \in Requests, req'[r].pc \notin {"reserve", "commit"},
           orders'[r].placed => req'[r].pc = "placed",
           \A x \in Products : held'[x].by # r
    PROVE  Booked(r)'
BY DEF Booked, InTx, Busy

LEMMA ReleasedAll ==
    ASSUME TypeOK, NEW r \in Requests, Release(r)
    PROVE  \A x \in Products : held'[x].by # r
BY CartsAssumption DEF Release, Free

LEMMA QuoteBooked ==
    ASSUME IInv, NEW r \in Requests, Booked(r),
           \/ Receive(r) \/ CheckStock(r) \/ ReadLoan(r) \/ ReadPrice(r) \/ IntentRefused(r)
    PROVE  Booked(r)'
<1>0. TypeOK /\ req \in [Requests -> ReqType] /\ req[r] \in ReqType
  BY MoveType DEF IInv
<1>1. orders' = orders /\ held' = held
  BY DEF Receive, CheckStock, ReadLoan, ReadPrice, IntentRefused
<1>2. req[r].pc \in {"idle", "check", "quote"}
  BY DEF Receive, CheckStock, ReadLoan, ReadPrice, IntentRefused, Busy
<1>3. req'[r].pc \in {"check", "quote", "refused"}
  <2>1. CASE Receive(r)
    BY <1>0, <2>1, Effects DEF Receive
  <2>2. CASE CheckStock(r) \/ ReadPrice(r) \/ IntentRefused(r)
    <3>1. req[r].pc \in {"check", "quote"} /\ (Refuse(r) \/ \E n : More(r, n))
      BY <2>2 DEF CheckStock, ReadPrice, IntentRefused, Busy
    <3>. QED
      BY <1>0, <3>1, Effects
  <2>3. CASE ReadLoan(r)
    BY <1>0, <2>3 DEF ReadLoan, ReqType
  <2>. QED
    BY <2>1, <2>2, <2>3
<1>. QED
  BY <1>1, <1>2, <1>3, OutBooked DEF Booked, InTx, Busy

LEMMA IntentBooked ==
    ASSUME IInv, NEW r \in Requests, Booked(r), CreateIntent(r)
    PROVE  Booked(r)'
<1>0. TypeOK /\ req \in [Requests -> ReqType] /\ req[r] \in ReqType
  BY MoveType DEF IInv
<1>1. orders' = orders /\ held' = held /\ req[r].pc = "quote"
  BY DEF CreateIntent, Busy
<1>2. req'[r].pc = "reserve" /\ req'[r].k = 1
  BY <1>0 DEF CreateIntent, ReqType
<1>3. ~orders[r].placed /\ \A x \in Products : held[x].by # r
  BY <1>1 DEF Booked, InTx, Busy
<1>4. ASSUME NEW x \in Products
      PROVE  SumFunctionOnSet(Units(r), Before(r, x, 1)) = 0
  BY BeforeFirst, SumEmpty
<1>5. Units(r)' = Units(r) /\ \A x \in Products : Before(r, x, req[r].k)' = Before(r, x, 1)
  BY <1>2 DEF Units, Before, Items, At
<1>. QED
  BY <1>1, <1>2, <1>3, <1>4, <1>5 DEF Booked, InTx, Busy

LEMMA EndsBooked ==
    ASSUME IInv, NEW r \in Requests, Booked(r), BreakDeadlock(r) \/ Abort(r) \/ Commit(r)
    PROVE  Booked(r)'
<1>0. TypeOK /\ req \in [Requests -> ReqType] /\ req[r] \in ReqType /\ Release(r)
  BY MoveType DEF IInv, BreakDeadlock, Abort, Commit
<1>1. \A x \in Products : held'[x].by # r
  BY <1>0, ReleasedAll
<1>2. CASE BreakDeadlock(r) \/ Abort(r)
  <2>1. req'[r].pc = "refused" /\ orders' = orders
    BY <1>0, <1>2, Effects DEF BreakDeadlock, Abort
  <2>2. ~Busy(r, "placed")
    <3>1. BreakDeadlock(r) => Busy(r, "reserve")
      BY DEF BreakDeadlock, Waits
    <3>. QED
      BY <1>2, <3>1 DEF Abort, Active, Busy
  <2>. QED
    BY <1>1, <2>1, <2>2, OutBooked DEF Booked
<1>3. CASE Commit(r)
  <2>1. req'[r].pc = "placed"
    BY <1>0, <1>3 DEF Commit, ReqType
  <2>. QED
    BY <1>1, <2>1, OutBooked
<1>. QED
  BY <1>2, <1>3

LEMMA NotifyBooked ==
    ASSUME IInv, NEW r \in Requests, Booked(r), Notify(r)
    PROVE  Booked(r)'
<1>0. TypeOK /\ req \in [Requests -> ReqType] /\ req[r] \in ReqType
  BY MoveType DEF IInv
<1>1. orders' = orders /\ held' = held /\ req[r].pc = "reserve" /\ Done(r)
  BY DEF Notify, Busy
<1>2. req'[r].pc = "commit" /\ req'[r].k = req[r].k
  BY <1>0 DEF Notify, ReqType
<1>3. /\ Done(r)' = Done(r) /\ Units(r)' = Units(r)
      /\ \A x \in Products : Before(r, x, req[r].k)' = Before(r, x, req[r].k)
  BY <1>2 DEF Done, Before, Units, Items, At
<1>. QED
  BY <1>1, <1>2, <1>3 DEF Booked, InTx, Busy

LEMMA ReserveBooked ==
    ASSUME IInv, NEW r \in Requests, Booked(r), Reserve(r)
    PROVE  Booked(r)'
<1>. DEFINE y == Here(r).product
<1>. DEFINE q == Here(r).quantity
<1>. DEFINE k == req[r].k
<1>0. TypeOK /\ req \in [Requests -> ReqType] /\ req[r] \in ReqType
  BY MoveType DEF IInv
<1>1. orders' = orders /\ req[r].pc = "reserve" /\ ~Done(r)
  BY DEF Reserve, Busy
<1>2. y \in Products /\ q \in Nat
  BY <1>0, <1>1, HereType
<1>3. CASE Release(r) /\ Refuse(r)
  <2>1. req'[r].pc = "refused" /\ \A x \in Products : held'[x].by # r
    BY <1>0, <1>3, Effects, ReleasedAll
  <2>. QED
    BY <1>1, <2>1, OutBooked DEF Booked, Busy
<1>4. CASE /\ held' = [held EXCEPT ![y] = [by |-> r, units |-> held[y].units + q]]
           /\ More(r, price[y] * q)
  <2>1. req'[r].pc = "reserve" /\ req'[r].k = k + 1
    BY <1>0, <1>1, <1>4, Effects
  <2>2. k \in Nat \ {0} /\ k <= Len(Items(r)) /\ At(r, k).product = y /\ At(r, k).quantity = q
    BY <1>0, <1>1, LenType DEF ReqType, Done, Here
  <2>3. held \in [Products -> HeldType] /\ held[y].by \in {Nobody, r} /\ held[y].units \in Nat
    BY <1>0, <1>2 DEF TypeOK, HeldType, Reserve
  <2>4. held[y].by = Nobody => held[y].units = 0
    BY <1>2 DEF IInv, Taken
  <2>5. Nobody # r
    BY CartsAssumption
  <2>6. /\ held'[y].by = r /\ held'[y].units = held[y].units + q
        /\ \A x \in Products \ {y} : held'[x] = held[x]
    BY <1>2, <1>4, <2>3
  <2>7. ASSUME NEW x \in Products
        PROVE  SumFunctionOnSet(Units(r), Before(r, x, k + 1)) =
                   IF held'[x].by = r THEN held'[x].units ELSE 0
    <3>1. SumFunctionOnSet(Units(r), Before(r, x, k + 1)) =
              SumFunctionOnSet(Units(r), Before(r, x, k)) + (IF y = x THEN q ELSE 0)
      BY <2>2, BeforeNext
    <3>2. SumFunctionOnSet(Units(r), Before(r, x, k)) =
              IF held[x].by = r THEN held[x].units ELSE 0
      BY <1>1 DEF Booked, InTx, Busy
    <3>3. held[x].units \in Nat
      BY <2>3 DEF HeldType
    <3>. HIDE DEF y, q, k
    <3>4. CASE x = y
      BY <1>2, <2>3, <2>4, <2>5, <2>6, <3>1, <3>2, <3>4
    <3>5. CASE x # y
      BY <2>6, <3>1, <3>2, <3>3, <3>5
    <3>. QED
      BY <3>4, <3>5
  <2>8. Units(r)' = Units(r) /\ \A x \in Products : Before(r, x, req[r].k)' = Before(r, x, k + 1)
    BY <2>1 DEF Units, Before, Items, At
  <2>. HIDE DEF k
  <2>. QED
    BY <1>1, <2>1, <2>7, <2>8 DEF Booked, InTx, Busy
<1>. QED
  BY <1>3, <1>4 DEF Reserve

LEMMA StepBooked ==
    ASSUME IInv, \A s \in Requests : Booked(s), NEW r \in Requests,
           Receive(r) \/ Step(r) \/ Abort(r)
    PROVE  \A s \in Requests : Booked(s)'
<1>0. TypeOK /\ Booked(r)
  BY DEF IInv
<1>1. Booked(r)'
  BY <1>0, QuoteBooked, IntentBooked, EndsBooked, NotifyBooked, ReserveBooked DEF Step
<1>2. ASSUME NEW s \in Requests \ {r} PROVE orders'[s] = orders[s]
  <2>1. CASE Commit(r)
    BY <1>0, <2>1 DEF Commit, TypeOK
  <2>2. CASE ~Commit(r)
    BY <2>2 DEF Receive, Step, Abort, CheckStock, ReadLoan, ReadPrice, CreateIntent,
                IntentRefused, Reserve, BreakDeadlock, Notify
  <2>. QED
    BY <2>1, <2>2
<1>3. ASSUME NEW s \in Requests \ {r} PROVE Booked(s)'
  BY <1>0, <1>2, OthersStay, OthersKeep, OthersBooked
<1>. QED
  BY <1>1, <1>3

(* The loans.                                                              *)
Spent(l) == {r \in Placed : orders[r].credit > 0 /\ Loan(r) = l}
Credits == [r \in Requests |-> orders[r].credit]

LEMMA SameOrders ==
    ASSUME IsFiniteSet(Placed), LoanIsSpentByOrders, UNCHANGED <<used, orders>>
    PROVE  IsFiniteSet(Placed)' /\ LoanIsSpentByOrders'
<1>1. Placed' = Placed /\ \A r \in Requests : Loan(r)' = Loan(r)
  BY DEF Placed, Loan, Items, At
<1>2. \A l \in Buyers \X Farmers : Spent(l)' = Spent(l)
  BY <1>1 DEF Spent, Placed
<1>3. Credits' = Credits
  BY DEF Credits
<1>4. \A l \in Buyers \X Farmers : used'[l] = SumFunctionOnSet(Credits', Spent(l)')
  BY <1>2, <1>3 DEF LoanIsSpentByOrders, Spent, Credits
<1>. QED
  BY <1>1, <1>4 DEF LoanIsSpentByOrders, Spent, Credits

LEMMA CommitPlaces ==
    ASSUME IInv, NEW r \in Requests, Booked(r), Commit(r)
    PROVE  /\ r \notin Placed /\ Placed' = Placed \cup {r}
           /\ \A s \in Requests \ {r} : orders'[s] = orders[s]
           /\ orders'[r].credit = req[r].credit
<1>1. orders \in [Requests -> [subtotal : Nat, credit : Int, card : Nat, placed : BOOLEAN]]
  BY DEF IInv, TypeOK
<1>2. orders' = [orders EXCEPT ![r] =
          [subtotal |-> req[r].sum, credit |-> req[r].credit, card |-> req[r].card,
           placed |-> TRUE]]
  BY DEF Commit
<1>3. orders'[r].placed /\ orders'[r].credit = req[r].credit
  BY <1>1, <1>2
<1>4. \A s \in Requests \ {r} : orders'[s] = orders[s]
  BY <1>1, <1>2
<1>5. ~orders[r].placed
  BY DEF Commit, Booked, Busy
<1>. QED
  BY <1>3, <1>4, <1>5 DEF Placed

LEMMA CommitSpends ==
    ASSUME IInv, LInv, NEW r \in Requests, Commit(r)
    PROVE  IsFiniteSet(Placed)' /\ LoanIsSpentByOrders'
<1>1. /\ r \notin Placed /\ Placed' = Placed \cup {r}
      /\ \A s \in Requests \ {r} : orders'[s] = orders[s]
      /\ orders'[r].credit = req[r].credit
  BY CommitPlaces DEF LInv
<1>2. IsFiniteSet(Placed) /\ IsFiniteSet(Placed')
  BY <1>1, FS_AddElement DEF LInv
<1>3. /\ orders \in [Requests -> [subtotal : Nat, credit : Int, card : Nat, placed : BOOLEAN]]
      /\ used \in [Buyers \X Farmers -> Nat] /\ req[r].credit \in Int
  BY MoveType DEF IInv, TypeOK, ReqType
<1>4. ASSUME NEW l \in Buyers \X Farmers
      PROVE  used'[l] = SumFunctionOnSet(Credits', Spent(l)')
  <2>. DEFINE S == Spent(l)
  <2>1. /\ S \subseteq Placed /\ IsFiniteSet(S) /\ r \notin S
        /\ S \subseteq Requests
    BY <1>1, <1>2, FS_Subset DEF Spent, Placed
  <2>2. \A s \in S : Credits[s] = orders[s].credit /\ Credits'[s] = Credits[s]
    BY <1>1, <2>1 DEF Credits
  <2>3. \A s \in S : Credits[s] \in Int
    BY <1>3, <2>1, <2>2
  <2>4. used[l] = SumFunctionOnSet(Credits, S)
    BY DEF LInv, LoanIsSpentByOrders, Spent, Credits
  <2>5. SumFunctionOnSet(Credits', S) = SumFunctionOnSet(Credits, S)
    BY <2>1, <2>2, SumSame
  <2>6. Credits'[r] = req[r].credit
    BY <1>1 DEF Credits
  <2>7. Spent(l)' = IF req[r].credit > 0 /\ Loan(r) = l THEN S \cup {r} ELSE S
    <3>1. Loan(r)' = Loan(r) /\ \A s \in Requests : Loan(s)' = Loan(s)
      BY DEF Loan, Items, At
    <3>2. \A s \in Placed \cup {r} :
              s \in Spent(l)' <=> IF s = r THEN req[r].credit > 0 /\ Loan(r) = l ELSE s \in S
      BY <1>1, <2>1, <3>1 DEF Spent, Placed
    <3>3. Spent(l)' \subseteq Placed \cup {r}
      BY <1>1 DEF Spent
    <3>. QED
      BY <2>1, <3>2, <3>3
  <2>8. CASE req[r].credit > 0 /\ Loan(r) = l
    <3>1. used' = [used EXCEPT ![l] = used[l] + req[r].credit]
      BY <2>8 DEF Commit
    <3>2. \A s \in S \cup {r} : Credits'[s] \in Int
      BY <1>3, <2>2, <2>3, <2>6
    <3>3. SumFunctionOnSet(Credits', S \cup {r}) = SumFunctionOnSet(Credits', S) + Credits'[r]
      <4>. HIDE DEF S
      <4>. QED
        BY <2>1, <3>2, SumAdds
    <3>. HIDE DEF S
    <3>. QED
      BY <1>3, <2>4, <2>5, <2>6, <2>7, <2>8, <3>1, <3>3
  <2>9. CASE ~(req[r].credit > 0 /\ Loan(r) = l)
    <3>1. used'[l] = used[l]
      <4>1. CASE req[r].credit > 0
        <5>1. used' = [used EXCEPT ![Loan(r)] = used[Loan(r)] + req[r].credit] /\ Loan(r) # l
          BY <2>9, <4>1 DEF Commit
        <5>. QED
          BY <1>3, <5>1
      <4>2. CASE ~(req[r].credit > 0)
        BY <4>2 DEF Commit
      <4>. QED
        BY <4>1, <4>2
    <3>. QED
      BY <2>4, <2>5, <2>7, <2>9, <3>1
  <2>. QED
    BY <2>8, <2>9
<1>. QED
  BY <1>2, <1>4 DEF LoanIsSpentByOrders, Spent, Credits

LEMMA LedgerInductive ==
    ASSUME IInv, LInv, [Next]_vars
    PROVE  LInv'
<1>0. TypeOK /\ IsFiniteSet(Placed) /\ LoanIsSpentByOrders /\ \A s \in Requests : Booked(s)
  BY DEF IInv, LInv
<1>1. CASE \E r \in Requests : Receive(r) \/ Step(r) \/ Abort(r)
  <2>1. PICK r \in Requests : Receive(r) \/ Step(r) \/ Abort(r)
    BY <1>1
  <2>2. \A s \in Requests : Booked(s)'
    BY <1>0, <2>1, StepBooked
  <2>3. CASE Commit(r)
    BY <2>2, <2>3, CommitSpends DEF LInv
  <2>4. CASE ~Commit(r)
    <3>1. UNCHANGED <<used, orders>>
      BY <2>1, <2>4 DEF Receive, Step, Abort, CheckStock, ReadLoan, ReadPrice, CreateIntent,
                        IntentRefused, Reserve, BreakDeadlock, Notify, loans
    <3>2. IsFiniteSet(Placed)' /\ LoanIsSpentByOrders'
      BY <1>0, <3>1, SameOrders
    <3>. QED
      BY <2>2, <3>2 DEF LInv
  <2>. QED
    BY <2>3, <2>4
<1>2. CASE UNCHANGED <<used, orders, held, req>>
  <2>1. IsFiniteSet(Placed)' /\ LoanIsSpentByOrders'
    BY <1>0, <1>2, SameOrders
  <2>2. \A s \in Requests : Booked(s)'
    BY <1>0, <1>2, OthersBooked
  <2>. QED
    BY <2>1, <2>2 DEF LInv
<1>3. \/ \E f \in Farmers : GetMyProducts(f)
      \/ \E x \in Products : OpenForm(x) \/ CloseForm(x) \/ Remove(x)
      \/ \E x \in Products, p \in Prices : EditPrice(x, p)
      \/ \E x \in Products, change \in Changes, p \in Prices : SaveForm(x, change, p)
      \/ \E l \in Buyers \X Farmers, amount \in Grants : Grant(l, amount)
      \/ UNCHANGED vars
      => UNCHANGED <<used, orders, held, req>>
  BY DEF GetMyProducts, OpenForm, CloseForm, Remove, EditPrice, SaveForm, Grant, vars, loans
<1>. QED
  BY <1>1, <1>2, <1>3 DEF Next

LEMMA LedgerInitial == ASSUME Init PROVE LInv
<1>1. Placed = {}
  BY DEF Init, Placed, NoOrder
<1>2. ASSUME NEW l \in Buyers \X Farmers PROVE used[l] = SumFunctionOnSet(Credits, Spent(l))
  <2>1. used[l] = 0 /\ Spent(l) = {}
    BY <1>1 DEF Init, Spent
  <2>. QED
    BY <2>1, SumEmpty
<1>3. ASSUME NEW r \in Requests PROVE Booked(r)
  BY CartsAssumption DEF Init, Booked, InTx, Busy, NoOrder, Free
<1>. QED
  BY <1>1, <1>2, <1>3, FS_EmptySet DEF LInv, LoanIsSpentByOrders, Spent, Credits

(* Whatever overlaps, waits or dies: an open transaction holds what its    *)
(* cart says up to the item it is at, and nothing else is held.            *)
THEOREM LedgerInvariance == Spec => [](IInv /\ LInv)
<1>1. Init => IInv /\ LInv
  BY Initial, LedgerInitial
<1>2. IInv /\ LInv /\ [Next]_vars => (IInv /\ LInv)'
  BY Inductive, LedgerInductive
<1>. QED
  BY <1>1, <1>2, PTL DEF Spec

(* A loan is charged for the orders that exist and for no others, however  *)
(* many requests read it at the same time, are refused or die.             *)
THEOREM Loans == Spec => []LoanIsSpentByOrders
<1>1. LInv => LoanIsSpentByOrders
  BY DEF LInv
<1>. QED
  BY <1>1, LedgerInvariance, PTL

-----------------------------------------------------------------------------
(* Without changes by the farmer stock adds up.  With them it does not: a  *)
(* form writes the stock the page listed when it was loaded, and so brings *)
(* back what was sold since.                                               *)

CInv ==
    /\ \A x \in Products : page[x] = Closed /\ form[x] = Closed
    /\ StockIsConserved

LEMMA SoldType == ASSUME IsFiniteSet(Placed), NEW x PROVE Sold(x) \in Nat
<1>1. \A r \in Placed : [s \in Requests |-> Quantity(s, x)][r] \in Nat
  BY QuantityType DEF Placed
<1>. QED
  BY <1>1, SumNat DEF Sold

LEMMA SoldMore ==
    ASSUME IInv, LInv, NEW r \in Requests, Commit(r), NEW x
    PROVE  Sold(x)' = Sold(x) + Quantity(r, x)
<1>. DEFINE f == [s \in Requests |-> Quantity(s, x)]
<1>1. r \notin Placed /\ Placed' = Placed \cup {r} /\ IsFiniteSet(Placed)
  BY CommitPlaces DEF LInv
<1>2. \A s \in Placed \cup {r} : f[s] \in Int
  BY QuantityType DEF Placed
<1>3. \A s \in Requests : Quantity(s, x)' = Quantity(s, x)
  BY DEF Quantity, Units, Items, At
<1>4. Sold(x) = SumFunctionOnSet(f, Placed) /\ Sold(x)' = SumFunctionOnSet(f, Placed')
  BY <1>3 DEF Sold
<1>5. f[r] = Quantity(r, x)
  OBVIOUS
<1>. HIDE DEF f
<1>6. SumFunctionOnSet(f, Placed \cup {r}) = SumFunctionOnSet(f, Placed) + f[r]
  BY <1>1, <1>2, SumAdds
<1>. QED
  BY <1>1, <1>4, <1>5, <1>6

(* What a commit takes of each product is what its cart says.              *)
LEMMA CommitTakes ==
    ASSUME IInv, LInv, NEW r \in Requests, Commit(r), NEW x \in Products
    PROVE  stock'[x] = stock[x] - Quantity(r, x) /\ Quantity(r, x) <= stock[x]
<1>1. TypeOK /\ Taken(x) /\ Booked(r) /\ Busy(r, "commit") /\ req[r] \in ReqType
  BY MoveType DEF IInv, LInv, Commit
<1>2. req[r].k \in Nat /\ req[r].k > Len(Items(r))
  BY <1>1 DEF Booked, Done, ReqType
<1>3. Quantity(r, x) = IF held[x].by = r THEN held[x].units ELSE 0
  <2>1. SumFunctionOnSet(Units(r), Before(r, x, req[r].k)) =
            IF held[x].by = r THEN held[x].units ELSE 0
    BY <1>1 DEF Booked, InTx
  <2>. QED
    BY <1>2, <2>1, BeforeLast
<1>4. stock[x] \in Nat /\ held[x].units <= stock[x]
  BY <1>1 DEF TypeOK, Taken
<1>5. stock'[x] = IF held[x].by = r THEN stock[x] - held[x].units ELSE stock[x]
  BY DEF Commit
<1>. QED
  BY <1>3, <1>4, <1>5

LEMMA CommitConserves ==
    ASSUME IInv, LInv, CInv, NEW r \in Requests, Commit(r)
    PROVE  StockIsConserved'
<1>. SUFFICES ASSUME NEW x \in Products PROVE stock'[x] + Sold(x)' = Opening[x]
  BY DEF StockIsConserved
<1>1. stock'[x] = stock[x] - Quantity(r, x)
  BY CommitTakes
<1>2. Sold(x)' = Sold(x) + Quantity(r, x)
  BY SoldMore
<1>3. stock[x] + Sold(x) = Opening[x] /\ Opening[x] \in Nat
  BY CartsAssumption DEF CInv, StockIsConserved
<1>4. stock[x] \in Nat /\ Sold(x) \in Nat /\ Quantity(r, x) \in Nat
  BY SoldType, QuantityType DEF IInv, TypeOK, LInv
<1>. QED
  BY <1>1, <1>2, <1>3, <1>4

LEMMA SameSold ==
    ASSUME UNCHANGED orders, NEW x
    PROVE  Sold(x)' = Sold(x)
<1>1. Placed' = Placed /\ \A s \in Requests : Quantity(s, x)' = Quantity(s, x)
  BY DEF Placed, Quantity, Units, Items, At
<1>. QED
  BY <1>1 DEF Sold

LEMMA ConservedInductive ==
    ASSUME Changes = {}, IInv, LInv, CInv, [Next]_vars
    PROVE  CInv'
<1>1. ASSUME UNCHANGED <<stock, orders>>, UNCHANGED <<page, form>> PROVE CInv'
  <2>1. \A x \in Products : stock'[x] + Sold(x)' = Opening[x]
    BY <1>1, SameSold DEF CInv, StockIsConserved
  <2>. QED
    BY <1>1, <2>1 DEF CInv, StockIsConserved
<1>2. CASE \E r \in Requests : Commit(r)
  <2>1. UNCHANGED <<page, form>>
    BY <1>2 DEF Commit
  <2>. QED
    BY <1>2, <2>1, CommitConserves DEF CInv
<1>3. CASE \E r \in Requests : (Receive(r) \/ Step(r) \/ Abort(r)) /\ ~Commit(r)
  <2>1. UNCHANGED <<stock, orders>> /\ UNCHANGED <<page, form>>
    BY <1>3 DEF Receive, Step, Abort, CheckStock, ReadLoan, ReadPrice, CreateIntent,
                IntentRefused, Reserve, BreakDeadlock, Notify, products
  <2>. QED
    BY <1>1, <2>1
<1>4. CASE \/ \E x \in Products : Remove(x)
           \/ \E x \in Products, p \in Prices : EditPrice(x, p)
           \/ \E l \in Buyers \X Farmers, amount \in Grants : Grant(l, amount)
           \/ UNCHANGED vars
  <2>1. UNCHANGED <<stock, orders>> /\ UNCHANGED <<page, form>>
    BY <1>4 DEF Remove, EditPrice, Grant, vars, products
  <2>. QED
    BY <1>1, <2>1
<1>5. \A x \in Products : ~OpenForm(x) /\ ~CloseForm(x)
  BY DEF CInv, OpenForm, CloseForm
<1>6. \A f \in Farmers : ~GetMyProducts(f)
  BY DEF GetMyProducts
<1>. QED
  BY <1>2, <1>3, <1>4, <1>5, <1>6 DEF Next

LEMMA ConservedInitial == ASSUME Init PROVE CInv
<1>1. Placed = {}
  BY DEF Init, Placed, NoOrder
<1>2. ASSUME NEW x \in Products PROVE stock[x] + Sold(x) = Opening[x]
  <2>1. Sold(x) = 0
    BY <1>1, SumEmpty DEF Sold
  <2>2. stock[x] = Opening[x] /\ stock[x] \in Nat
    BY CartsAssumption DEF Init
  <2>. QED
    BY <2>1, <2>2
<1>. QED
  BY <1>2 DEF Init, CInv, StockIsConserved

(* No unit is sold twice and none is lost, for any carts that cross, wait  *)
(* for each other or die midway, as long as the farmer changes no stock.   *)
THEOREM Stock == ASSUME Changes = {} PROVE Spec => []StockIsConserved
<1>1. Init => IInv /\ LInv /\ CInv
  BY Initial, LedgerInitial, ConservedInitial
<1>2. IInv /\ LInv /\ CInv /\ [Next]_vars => (IInv /\ LInv /\ CInv)'
  BY Inductive, LedgerInductive, ConservedInductive
<1>3. CInv => StockIsConserved
  BY DEF CInv
<1>. QED
  BY <1>1, <1>2, <1>3, PTL DEF Spec

-----------------------------------------------------------------------------
(* One request at a time, what the quote read is what the commit finds:    *)
(* prices, loan and stock stay as they are while a checkout is under way.  *)

Cents(r) == [i \in 1..Len(Items(r)) |-> price[At(r, i).product] * At(r, i).quantity]
Worth(r, k) == SumFunctionOnSet(Cents(r), {i \in 1..Len(Items(r)) : i < k})
Bill(r) == Gross(SumFunctionOnSet(Cents(r), 1..Len(Items(r))))
Rest(r) == IF WithLoan(r) THEN total[Loan(r)] - used[Loan(r)] ELSE 0
Share(r) == IF WithLoan(r) THEN Min({Rest(r), Bill(r)}) ELSE 0

Paid(r) ==
    /\ orders[r].credit >= 0
    /\ orders[r].credit + orders[r].card = Gross(orders[r].subtotal)
    /\ orders[r].card = intents[r]

Priced(r) ==
    /\ Busy(r, "idle") \/ Busy(r, "check") => req[r].sum = 0
    /\ Busy(r, "quote") => req[r].sum = Worth(r, req[r].k) /\ req[r].available = Rest(r)
    /\ InTx(r) =>
          /\ req[r].sum = Worth(r, req[r].k)
          /\ req[r].credit = Share(r)
          /\ req[r].card = Bill(r) - Share(r)
          /\ intents[r] = req[r].card
    /\ IF orders[r].placed THEN Paid(r) ELSE orders[r] = NoOrder

PInv ==
    /\ \A r \in Requests : Priced(r)
    /\ \A x \in Products : stock[x] <= MaxStock

SerialInv == SoloInv /\ LInv /\ PInv

LEMMA CentsType ==
    ASSUME TypeOK, NEW r \in Requests, NEW T, T \subseteq 1..Len(Items(r))
    PROVE  /\ IsFiniteSet(T)
           /\ \A i \in T : /\ At(r, i).product \in Products
                           /\ Cents(r)[i] = price[At(r, i).product] * At(r, i).quantity
                           /\ Cents(r)[i] \in Nat
<1>1. IsFiniteSet(T)
  BY UnitsType
<1>2. ASSUME NEW i \in T
      PROVE  /\ At(r, i).product \in Products
             /\ Cents(r)[i] = price[At(r, i).product] * At(r, i).quantity
             /\ Cents(r)[i] \in Nat
  <2>1. i \in Nat \ {0} /\ i <= Len(Items(r)) /\ i \in 1..Len(Items(r))
    BY LenType
  <2>2. At(r, i).product \in Products /\ At(r, i).quantity \in Nat
    BY <2>1, ItemType DEF Item
  <2>3. price[At(r, i).product] \in Nat
    BY <2>2, BoundsAssumption DEF TypeOK
  <2>4. price[At(r, i).product] * At(r, i).quantity \in Nat
    BY <2>2, <2>3, Product
  <2>. QED
    BY <2>1, <2>2, <2>4 DEF Cents
<1>. QED
  BY <1>1, <1>2

LEMMA WorthFirst == ASSUME NEW r \in Requests PROVE Worth(r, 1) = 0
<1>1. {i \in 1..Len(Items(r)) : i < 1} = {}
  BY LenType
<1>. QED
  BY <1>1, SumEmpty DEF Worth

LEMMA WorthNext ==
    ASSUME TypeOK, NEW r \in Requests, NEW k \in Nat \ {0}, k <= Len(Items(r))
    PROVE  Worth(r, k + 1) = Worth(r, k) + price[At(r, k).product] * At(r, k).quantity
<1>. DEFINE S == {i \in 1..Len(Items(r)) : i < k}
<1>0. Len(Items(r)) \in Nat /\ k \in 1..Len(Items(r)) /\ k \notin S
  BY LenType
<1>1. {i \in 1..Len(Items(r)) : i < k + 1} = S \cup {k}
  BY <1>0
<1>2. S \cup {k} \subseteq 1..Len(Items(r)) /\ S \subseteq S \cup {k} /\ k \in S \cup {k}
  BY <1>0
<1>3. /\ \A i \in S \cup {k} : Cents(r)[i] \in Int
      /\ Cents(r)[k] = price[At(r, k).product] * At(r, k).quantity
      /\ IsFiniteSet(S \cup {k})
  <2>. DEFINE T == S \cup {k}
  <2>1. T \subseteq 1..Len(Items(r)) /\ k \in T
    BY <1>2
  <2>. HIDE DEF T
  <2>2. /\ IsFiniteSet(T)
        /\ \A i \in T : /\ Cents(r)[i] = price[At(r, i).product] * At(r, i).quantity
                       /\ Cents(r)[i] \in Nat
    BY <2>1, CentsType
  <2>3. /\ \A i \in T : Cents(r)[i] \in Int
        /\ Cents(r)[k] = price[At(r, k).product] * At(r, k).quantity
    BY <2>1, <2>2
  <2>. QED
    BY <2>2, <2>3 DEF T
<1>4. IsFiniteSet(S)
  BY <1>2, <1>3, FS_Subset
<1>. HIDE DEF S
<1>5. SumFunctionOnSet(Cents(r), S \cup {k}) = SumFunctionOnSet(Cents(r), S) + Cents(r)[k]
  BY <1>0, <1>3, <1>4, SumAdds
<1>. QED
  BY <1>1, <1>3, <1>5 DEF Worth, S

LEMMA WorthAll ==
    ASSUME TypeOK, NEW r \in Requests
    PROVE  /\ \A k \in Nat : k > Len(Items(r)) => Gross(Worth(r, k)) = Bill(r)
           /\ Bill(r) \in Nat
<1>1. ASSUME NEW k \in Nat, k > Len(Items(r)) PROVE Gross(Worth(r, k)) = Bill(r)
  <2>1. {i \in 1..Len(Items(r)) : i < k} = 1..Len(Items(r))
    BY <1>1, LenType
  <2>. QED
    BY <2>1 DEF Worth, Bill
<1>2. SumFunctionOnSet(Cents(r), 1..Len(Items(r))) \in Nat
  BY CentsType, SumNat
<1>. QED
  BY <1>1, <1>2, GrossType DEF Bill

LEMMA ShareType ==
    ASSUME TypeOK, CreditWithinLoan, NEW r \in Requests
    PROVE  /\ Share(r) \in Nat /\ Share(r) <= Bill(r)
           /\ Share(r) > 0 => WithLoan(r)
           /\ Rest(r) \in Nat
<1>. DEFINE b == Bill(r)
<1>. DEFINE a == Rest(r)
<1>1. b \in Nat
  BY WorthAll
<1>2. a \in Nat
  <2>1. CASE WithLoan(r)
    <3>1. Loan(r) \in Buyers \X Farmers
      BY <2>1, LoanType
    <3>2. total[Loan(r)] \in Nat /\ used[Loan(r)] \in Nat /\ used[Loan(r)] <= total[Loan(r)]
      BY <3>1 DEF TypeOK, CreditWithinLoan
    <3>. QED
      BY <2>1, <3>2 DEF Rest
  <2>. QED
    BY <2>1 DEF Rest
<1>3. Share(r) = IF WithLoan(r) THEN Min({a, b}) ELSE 0
  BY DEF Share
<1>. HIDE DEF a, b
<1>4. Min({a, b}) \in {a, b} /\ Min({a, b}) <= b
  <2>1. Min({a, b}) <= b
    BY <1>1, <1>2, MinOfTwo
  <2>2. \E x \in {a, b} : \A y \in {a, b} : x <= y
    <3>1. a <= b \/ b <= a
      BY <1>1, <1>2
    <3>. QED
      BY <1>1, <1>2, <3>1
  <2>. QED
    BY <2>1, <2>2 DEF Min
<1>5. Share(r) \in Nat /\ Share(r) <= b /\ (Share(r) > 0 => WithLoan(r))
  BY <1>1, <1>2, <1>3, <1>4
<1>. QED
  BY <1>2, <1>5 DEF a, b

(* Nothing a quote depends on changes.                                     *)
LEMMA SameTerms ==
    ASSUME UNCHANGED <<price, total, used>>, NEW r \in Requests
    PROVE  /\ \A k : Worth(r, k)' = Worth(r, k)
           /\ Bill(r)' = Bill(r) /\ Rest(r)' = Rest(r) /\ Share(r)' = Share(r)
<1>1. Items(r)' = Items(r) /\ WithLoan(r)' = WithLoan(r) /\ Loan(r)' = Loan(r)
  BY DEF Items, WithLoan, Loan, At
<1>2. Cents(r)' = Cents(r)
  BY DEF Cents, Items, At
<1>3. ASSUME NEW k PROVE Worth(r, k)' = Worth(r, k)
  BY <1>1, <1>2 DEF Worth
<1>4. Bill(r)' = Bill(r)
  BY <1>1, <1>2 DEF Bill, Gross, Tax
<1>5. Rest(r)' = Rest(r)
  BY <1>1 DEF Rest
<1>. QED
  BY <1>1, <1>3, <1>4, <1>5 DEF Share

(* A request that does not run has nothing but its order to keep.          *)
LEMMA RestingPriced ==
    ASSUME NEW s \in Requests, Priced(s), ~Active(s),
           req'[s] = req[s], orders'[s] = orders[s], intents'[s] = intents[s]
    PROVE  Priced(s)'
<1>1. ~Busy(s, "quote")' /\ ~InTx(s)' /\ ~Busy(s, "check")'
  BY DEF Active, InTx, Busy
<1>. QED
  BY <1>1 DEF Priced, Paid, Busy, Gross, Tax, NoOrder

LEMMA RefusedPriced ==
    ASSUME NEW r \in Requests, Priced(r), req'[r].pc = "refused",
           orders'[r] = orders[r], intents'[r] = intents[r]
    PROVE  Priced(r)'
BY DEF Priced, Paid, InTx, Busy, Gross, Tax, NoOrder

LEMMA QuotePriced ==
    ASSUME TypeOK, NEW r \in Requests, Priced(r), Booked(r),
           Receive(r) \/ CheckStock(r) \/ ReadLoan(r) \/ ReadPrice(r) \/ IntentRefused(r)
    PROVE  Priced(r)'
<1>0. req \in [Requests -> ReqType] /\ req[r] \in ReqType
  BY MoveType
<1>1. UNCHANGED <<price, total, used, orders, intents>>
  BY DEF Receive, CheckStock, ReadLoan, ReadPrice, IntentRefused, products, loans
<1>2. ~orders[r].placed /\ orders[r] = NoOrder
  BY DEF Receive, CheckStock, ReadLoan, ReadPrice, IntentRefused, Busy, Booked, Priced
<1>3. ~orders'[r].placed /\ orders'[r] = NoOrder'
  BY <1>1, <1>2 DEF NoOrder
<1>4. CASE Refuse(r)
  <2>1. req'[r].pc = "refused"
    BY <1>4, Effects
  <2>. QED
    BY <1>1, <2>1, RefusedPriced
<1>5. CASE Receive(r)
  <2>1. req'[r].pc = "check" /\ req'[r].sum = req[r].sum /\ req[r].sum = 0
    BY <1>5, Effects DEF Receive, Priced
  <2>. QED
    BY <1>3, <2>1 DEF Priced, InTx, Busy
<1>6. CASE CheckStock(r) /\ ~Refuse(r)
  <2>1. More(r, 0) /\ req[r].pc = "check" /\ req[r].sum = 0
    BY <1>6 DEF CheckStock, Priced, Busy
  <2>2. req'[r].pc = "check" /\ req'[r].sum = 0 + 0
    BY <2>1, Effects
  <2>. QED
    BY <1>3, <2>2 DEF Priced, InTx, Busy
<1>7. CASE ReadLoan(r)
  <2>1. req[r].sum = 0
    BY <1>7 DEF ReadLoan, Priced
  <2>2. /\ req'[r].pc = "quote" /\ req'[r].k = 1 /\ req'[r].sum = 0
        /\ req'[r].available = Rest(r)
    BY <1>0, <1>7, <2>1 DEF ReadLoan, ReqType, Rest
  <2>3. Worth(r, req[r].k)' = 0 /\ Rest(r)' = Rest(r)
    BY <1>1, <2>2, WorthFirst, SameTerms
  <2>. QED
    BY <1>3, <2>2, <2>3 DEF Priced, InTx, Busy
<1>8. CASE ReadPrice(r) /\ ~Refuse(r)
  <2>. DEFINE k == req[r].k
  <2>. DEFINE n == price[Here(r).product] * Here(r).quantity
  <2>1. /\ More(r, n) /\ req[r].pc = "quote"
        /\ req[r].sum = Worth(r, k) /\ req[r].available = Rest(r)
    BY <1>8 DEF ReadPrice, Priced, Busy
  <2>2. k \in Nat \ {0} /\ k <= Len(Items(r))
    BY <1>0, <1>8, LenType DEF ReadPrice, Done, ReqType
  <2>3. Worth(r, k + 1) = Worth(r, k) + n
    BY <2>2, WorthNext DEF Here
  <2>4. /\ req'[r].pc = "quote" /\ req'[r].k = k + 1 /\ req'[r].sum = Worth(r, k) + n
        /\ req'[r].available = Rest(r)
    BY <2>1, Effects
  <2>5. Worth(r, req[r].k)' = Worth(r, k + 1) /\ Rest(r)' = Rest(r)
    BY <1>1, <2>4, SameTerms
  <2>. HIDE DEF k, n
  <2>. QED
    BY <1>3, <2>3, <2>4, <2>5 DEF Priced, InTx, Busy
<1>9. IntentRefused(r) => Refuse(r)
  BY DEF IntentRefused
<1>. QED
  BY <1>4, <1>5, <1>6, <1>7, <1>8, <1>9

LEMMA CreditIsShare ==
    ASSUME TypeOK, NEW r \in Requests, Priced(r), Busy(r, "quote"), Done(r)
    PROVE  CreditFor(r) = Share(r) /\ Gross(req[r].sum) = Bill(r)
<1>1. req[r] \in ReqType
  BY MoveType
<1>2. req[r].k \in Nat /\ req[r].k > Len(Items(r))
  BY <1>1 DEF Done, ReqType
<1>3. Gross(req[r].sum) = Bill(r) /\ req[r].available = Rest(r)
  BY <1>2, WorthAll DEF Priced
<1>. QED
  BY <1>3 DEF CreditFor, Share

LEMMA IntentPriced ==
    ASSUME TypeOK, NEW r \in Requests, Priced(r), Booked(r), CreateIntent(r)
    PROVE  Priced(r)'
<1>0. /\ req \in [Requests -> ReqType] /\ req[r] \in ReqType
      /\ intents \in [Requests -> Nat]
  BY MoveType DEF TypeOK
<1>1. UNCHANGED <<price, total, used, orders>> /\ req[r].pc = "quote"
  BY DEF CreateIntent, products, loans, Busy
<1>2. ~orders'[r].placed /\ orders'[r] = NoOrder'
  BY <1>1 DEF Booked, Busy, Priced, NoOrder
<1>. DEFINE credit == CreditFor(r)
<1>. DEFINE card == Gross(req[r].sum) - credit
<1>3. credit = Share(r) /\ card = Bill(r) - Share(r)
  BY CreditIsShare DEF CreateIntent
<1>4. /\ intents' = [intents EXCEPT ![r] = card]
      /\ req' = [req EXCEPT ![r] = [req[r] EXCEPT !.pc = "reserve", !.k = 1, !.sum = 0,
                                                  !.credit = credit, !.card = card]]
  BY DEF CreateIntent
<1>. HIDE DEF credit, card
<1>5. /\ req'[r].pc = "reserve" /\ req'[r].k = 1 /\ req'[r].sum = 0
      /\ req'[r].credit = credit /\ req'[r].card = card /\ intents'[r] = card
  BY <1>0, <1>4 DEF ReqType
<1>6. Worth(r, req[r].k)' = 0 /\ Bill(r)' = Bill(r) /\ Share(r)' = Share(r)
  BY <1>1, <1>5, WorthFirst, SameTerms
<1>. QED
  BY <1>2, <1>3, <1>5, <1>6 DEF Priced, InTx, Busy

LEMMA TxPriced ==
    ASSUME TypeOK, NEW r \in Requests, Priced(r), Booked(r), Reserve(r) \/ Notify(r)
    PROVE  Priced(r)'
<1>0. req \in [Requests -> ReqType] /\ req[r] \in ReqType
  BY MoveType
<1>1. UNCHANGED <<price, total, used, orders, intents>> /\ req[r].pc = "reserve"
  BY DEF Reserve, Notify, products, loans, Busy
<1>2. ~orders'[r].placed /\ orders'[r] = NoOrder'
  BY <1>1 DEF Booked, Busy, Priced, NoOrder
<1>3. /\ req[r].sum = Worth(r, req[r].k) /\ req[r].credit = Share(r)
      /\ req[r].card = Bill(r) - Share(r) /\ intents[r] = req[r].card
  BY <1>1 DEF Priced, InTx, Busy
<1>4. Bill(r)' = Bill(r) /\ Share(r)' = Share(r)
  BY <1>1, SameTerms
<1>5. CASE Reserve(r) /\ Refuse(r)
  <2>1. req'[r].pc = "refused"
    BY <1>5, Effects
  <2>. QED
    BY <1>1, <2>1, RefusedPriced
<1>6. CASE Reserve(r) /\ ~Refuse(r)
  <2>. DEFINE k == req[r].k
  <2>. DEFINE n == price[Here(r).product] * Here(r).quantity
  <2>1. More(r, n)
    BY <1>6 DEF Reserve
  <2>2. k \in Nat \ {0} /\ k <= Len(Items(r))
    BY <1>0, <1>6, LenType DEF Reserve, Done, ReqType
  <2>3. Worth(r, k + 1) = Worth(r, k) + n
    BY <2>2, WorthNext DEF Here
  <2>4. /\ req'[r].pc = "reserve" /\ req'[r].k = k + 1 /\ req'[r].sum = Worth(r, k) + n
        /\ req'[r].credit = req[r].credit /\ req'[r].card = req[r].card
    BY <1>1, <1>3, <2>1, Effects
  <2>5. Worth(r, req[r].k)' = Worth(r, k + 1)
    BY <1>1, <2>4, SameTerms
  <2>. HIDE DEF k, n
  <2>. QED
    BY <1>1, <1>2, <1>3, <1>4, <2>3, <2>4, <2>5 DEF Priced, InTx, Busy
<1>7. CASE Notify(r)
  <2>1. req' = [req EXCEPT ![r] = [req[r] EXCEPT !.pc = "commit"]]
    BY <1>7 DEF Notify
  <2>2. /\ req'[r].pc = "commit" /\ req'[r].k = req[r].k /\ req'[r].sum = req[r].sum
        /\ req'[r].credit = req[r].credit /\ req'[r].card = req[r].card
    BY <1>0, <2>1 DEF ReqType
  <2>3. Worth(r, req[r].k)' = Worth(r, req[r].k)
    BY <1>1, <2>2, SameTerms
  <2>. QED
    BY <1>1, <1>2, <1>3, <1>4, <2>2, <2>3 DEF Priced, InTx, Busy
<1>. QED
  BY <1>5, <1>6, <1>7

LEMMA CommitPriced ==
    ASSUME TypeOK, CreditWithinLoan, NEW r \in Requests, Priced(r), Booked(r), Commit(r)
    PROVE  Priced(r)'
<1>0. /\ req \in [Requests -> ReqType] /\ req[r] \in ReqType
      /\ orders \in [Requests -> [subtotal : Nat, credit : Int, card : Nat, placed : BOOLEAN]]
  BY MoveType DEF TypeOK
<1>1. req[r].pc = "commit" /\ Done(r) /\ intents' = intents
  BY DEF Commit, Booked, Busy
<1>2. /\ req[r].sum = Worth(r, req[r].k) /\ req[r].credit = Share(r)
      /\ req[r].card = Bill(r) - Share(r) /\ intents[r] = req[r].card
  BY <1>1 DEF Priced, InTx, Busy
<1>3. Gross(req[r].sum) = Bill(r)
  BY <1>0, <1>1, <1>2, WorthAll DEF Done, ReqType
<1>4. Share(r) \in Nat /\ Bill(r) \in Nat
  BY ShareType, WorthAll
<1>5. /\ orders'[r].subtotal = req[r].sum /\ orders'[r].credit = req[r].credit
      /\ orders'[r].card = req[r].card /\ orders'[r].placed
  BY <1>0 DEF Commit
<1>6. Paid(r)'
  <2>1. Gross(orders[r].subtotal)' = Bill(r)
    BY <1>3, <1>5 DEF Gross, Tax
  <2>. QED
    BY <1>1, <1>2, <1>4, <1>5, <2>1 DEF Paid
<1>7. req'[r].pc = "placed"
  BY <1>0 DEF Commit, ReqType
<1>. QED
  BY <1>5, <1>6, <1>7 DEF Priced, InTx, Busy

LEMMA StepPriced ==
    ASSUME Overlap = FALSE, SerialInv, NEW r \in Requests, Receive(r) \/ Step(r) \/ Abort(r)
    PROVE  \A s \in Requests : Priced(s)'
<1>0. TypeOK /\ CreditWithinLoan /\ Priced(r) /\ Booked(r)
  BY DEF SerialInv, SoloInv, IInv, LInv, PInv
<1>1. CASE BreakDeadlock(r) \/ Abort(r)
  <2>1. Refuse(r) /\ UNCHANGED <<orders, intents>>
    BY <1>1 DEF BreakDeadlock, Abort
  <2>. QED
    <3>1. req'[r].pc = "refused"
      BY <1>0, <2>1, Effects
    <3>2. Priced(r)'
      BY <1>0, <2>1, <3>1, RefusedPriced
    <3>3. ASSUME NEW s \in Requests \ {r} PROVE Priced(s)'
      <4>1. req'[s] = req[s] /\ ~Active(s)
        BY RunsAlone DEF SerialInv
      <4>. QED
        BY <2>1, <4>1, RestingPriced DEF SerialInv, PInv
    <3>. QED
      BY <3>2, <3>3
<1>2. CASE ~(BreakDeadlock(r) \/ Abort(r))
  <2>1. Priced(r)'
    BY <1>0, <1>2, QuotePriced, IntentPriced, TxPriced, CommitPriced DEF Step
  <2>2. ASSUME NEW s \in Requests \ {r} PROVE Priced(s)'
    <3>1. req'[s] = req[s] /\ ~Active(s)
      BY RunsAlone DEF SerialInv
    <3>2. orders'[s] = orders[s] /\ intents'[s] = intents[s]
      <4>1. CASE Commit(r)
        BY <1>0, <4>1 DEF Commit, TypeOK
      <4>2. CASE CreateIntent(r)
        BY <1>0, <4>2 DEF CreateIntent, TypeOK
      <4>3. CASE ~Commit(r) /\ ~CreateIntent(r)
        BY <1>2, <4>3 DEF Receive, Step, CheckStock, ReadLoan, ReadPrice, IntentRefused,
                          Reserve, Notify
      <4>. QED
        BY <4>1, <4>2, <4>3
    <3>. QED
      BY <3>1, <3>2, RestingPriced DEF SerialInv, PInv
  <2>. QED
    BY <2>1, <2>2
<1>. QED
  BY <1>1, <1>2

LEMMA PricedInductive ==
    ASSUME Overlap = FALSE, SerialInv, [Next]_vars
    PROVE  PInv'
<1>0. TypeOK /\ \A x \in Products : stock[x] <= MaxStock
  BY DEF SerialInv, SoloInv, IInv, PInv
<1>1. CASE \E r \in Requests : Receive(r) \/ Step(r) \/ Abort(r)
  <2>1. PICK r \in Requests : Receive(r) \/ Step(r) \/ Abort(r)
    BY <1>1
  <2>2. ASSUME NEW x \in Products PROVE stock'[x] <= MaxStock
    <3>1. CASE Commit(r)
      <4>1. stock'[x] = stock[x] - Quantity(r, x) /\ Quantity(r, x) \in Nat
        BY <3>1, CommitTakes, QuantityType DEF SerialInv, SoloInv
      <4>2. stock[x] \in Nat /\ MaxStock \in Nat /\ stock[x] <= MaxStock
        BY <1>0, BoundsAssumption DEF TypeOK
      <4>. QED
        BY <4>1, <4>2
    <3>2. CASE ~Commit(r)
      BY <1>0, <2>1, <3>2 DEF Receive, Step, Abort, CheckStock, ReadLoan, ReadPrice, CreateIntent,
         IntentRefused, Reserve, BreakDeadlock, Notify, products
    <3>. QED
      BY <3>1, <3>2
  <2>. QED
    BY <2>1, <2>2, StepPriced DEF PInv
<1>2. CASE UNCHANGED <<price, total, used, orders, intents, stock, req>>
  <2>1. ASSUME NEW r \in Requests PROVE Priced(r)'
    <3>1. Priced(r)
      BY DEF SerialInv, PInv
    <3>. QED
      BY <1>2, <3>1, SameTerms DEF Priced, Paid, InTx, Busy, Gross, Tax, NoOrder
  <2>. QED
    BY <1>0, <1>2, <2>1 DEF PInv
<1>3. CASE /\ UNCHANGED <<req, orders, intents>> /\ \A r \in Requests : ~Active(r)
           /\ \A x \in Products : stock'[x] <= MaxStock
  BY <1>3, RestingPriced DEF SerialInv, PInv
<1>4. CASE \E x \in Products, p \in Prices : EditPrice(x, p)
  BY <1>0, <1>3, <1>4 DEF EditPrice, Alone
<1>5. CASE \E l \in Buyers \X Farmers, amount \in Grants : Grant(l, amount)
  BY <1>0, <1>3, <1>5 DEF Grant, Alone, products
<1>6. CASE \E x \in Products, change \in Changes, p \in Prices : SaveForm(x, change, p)
  <2>1. PICK x \in Products, change \in Changes, p \in Prices : SaveForm(x, change, p)
    BY <1>6
  <2>2. \A r \in Requests : ~Active(r)
    BY <2>1 DEF SaveForm, Alone
  <2>3. form[x] + change <= MaxStock /\ stock' = [stock EXCEPT ![x] = form[x] + change]
    BY <2>1, BoundsAssumption DEF SaveForm
  <2>4. \A y \in Products : stock'[y] <= MaxStock
    BY <1>0, <2>3 DEF TypeOK
  <2>. QED
    BY <1>3, <2>1, <2>2, <2>4 DEF SaveForm
<1>7. \/ \E f \in Farmers : GetMyProducts(f)
      \/ \E x \in Products : OpenForm(x) \/ CloseForm(x) \/ Remove(x)
      \/ UNCHANGED vars
      => UNCHANGED <<price, total, used, orders, intents, stock, req>>
  BY DEF GetMyProducts, OpenForm, CloseForm, Remove, vars, products, loans
<1>. QED
  BY <1>1, <1>2, <1>4, <1>5, <1>6, <1>7 DEF Next

LEMMA PricedInitial == ASSUME Init PROVE PInv
<1>1. \A r \in Requests : Priced(r)
  BY DEF Init, Priced, InTx, Busy, NoOrder
<1>2. \A x \in Products : stock[x] <= MaxStock
  BY BoundsAssumption DEF Init
<1>. QED
  BY <1>1, <1>2 DEF PInv

LEMMA SoloInitial == ASSUME Init PROVE SoloInv
<1>1. Solo /\ (\A r \in Requests : Claim(r)) /\ CreditWithinLoan
  BY DEF Init, Solo, Claim, Active, Busy, CreditWithinLoan
<1>. QED
  BY <1>1, Initial DEF SoloInv

LEMMA SerialInductive ==
    ASSUME Overlap = FALSE, SerialInv, [Next]_vars
    PROVE  SerialInv'
<1>1. SoloInv'
  BY SoloInductive DEF SerialInv
<1>2. LInv'
  BY LedgerInductive DEF SerialInv, SoloInv
<1>. QED
  BY <1>1, <1>2, PricedInductive DEF SerialInv

THEOREM SerialInvariance == ASSUME Overlap = FALSE PROVE Spec => []SerialInv
<1>1. Init => SerialInv
  BY SoloInitial, LedgerInitial, PricedInitial DEF SerialInv
<1>2. SerialInv /\ [Next]_vars => SerialInv'
  BY SerialInductive
<1>. QED
  BY <1>1, <1>2, PTL DEF Spec

(* One checkout at a time, loan and card together pay what the order's     *)
(* items cost with the tax, and the card is charged that amount: the       *)
(* quote's prices are those of the commit.                                 *)
THEOREM FullyPaid == ASSUME Overlap = FALSE PROVE Spec => []PaidInFull
<1>1. SerialInv => PaidInFull
  BY DEF SerialInv, PInv, Priced, Paid, PaidInFull, Placed
<1>. QED
  BY <1>1, SerialInvariance, PTL

-----------------------------------------------------------------------------
(* The refinement of Sale.  An order is priced item by item and a sale     *)
(* product by product; both add up to the same.                            *)

Part(r, x, T) == SumFunctionOnSet(Units(r), {i \in T : At(r, i).product = x})
ByItem(p, r) == [i \in 1..Len(Items(r)) |-> p[At(r, i).product] * At(r, i).quantity]
ByProduct(p, r, T) == [x \in Products |-> p[x] * Part(r, x, T)]

LEMMA PartType ==
    ASSUME NEW r \in Requests, NEW x, NEW T, T \subseteq 1..Len(Items(r))
    PROVE  Part(r, x, T) \in Nat
<1>1. {i \in T : At(r, i).product = x} \subseteq 1..Len(Items(r))
  OBVIOUS
<1>. QED
  BY <1>1, UnitsType, SumNat DEF Part

LEMMA PartMore ==
    ASSUME NEW r \in Requests, NEW x, NEW T \in SUBSET (1..Len(Items(r))), NEW a \in T
    PROVE  Part(r, x, T) =
               Part(r, x, T \ {a}) + (IF At(r, a).product = x THEN At(r, a).quantity ELSE 0)
<1>. DEFINE S == {i \in T : At(r, i).product = x}
<1>. DEFINE R == {i \in T \ {a} : At(r, i).product = x}
<1>1. S \subseteq 1..Len(Items(r))
  OBVIOUS
<1>2. Part(r, x, T) = SumFunctionOnSet(Units(r), S) /\ Part(r, x, T \ {a}) = SumFunctionOnSet(Units(r), R)
  BY DEF Part
<1>3. Part(r, x, T \ {a}) \in Nat
  BY PartType
<1>4. CASE At(r, a).product = x
  <2>1. a \in S /\ R = S \ {a}
    BY <1>4
  <2>2. IsFiniteSet(S) /\ \A i \in S : Units(r)[i] = At(r, i).quantity /\ Units(r)[i] \in Int
    <3>. HIDE DEF S
    <3>1. /\ IsFiniteSet(S)
          /\ \A i \in S : Units(r)[i] = At(r, i).quantity /\ Units(r)[i] \in Nat
      BY <1>1, UnitsType
    <3>. QED
      BY <3>1
  <2>. HIDE DEF S, R
  <2>3. SumFunctionOnSet(Units(r), S) = Units(r)[a] + SumFunctionOnSet(Units(r), S \ {a})
    BY <2>1, <2>2, SumRemoves
  <2>. QED
    BY <1>2, <1>3, <1>4, <2>1, <2>2, <2>3
<1>5. CASE At(r, a).product # x
  <2>1. S = R
    BY <1>5
  <2>. HIDE DEF S, R
  <2>. QED
    BY <1>2, <1>3, <1>5, <2>1
<1>. QED
  BY <1>4, <1>5

LEMMA SumZero ==
    ASSUME NEW S, IsFiniteSet(S), NEW f, \A x \in S : f[x] = 0
    PROVE  SumFunctionOnSet(f, S) = 0
<1>. DEFINE Bad == {T \in SUBSET S : SumFunctionOnSet(f, T) # 0}
<1>. SUFFICES ASSUME Bad # {} PROVE FALSE
  OBVIOUS
<1>1. Bad \subseteq SUBSET S
  OBVIOUS
<1>2. PICK T \in Bad : \A V \in Bad : ~(V \subseteq T /\ V # T)
  <2>. HIDE DEF Bad
  <2>. QED
    BY <1>1, Smallest
<1>3. IsFiniteSet(T)
  BY FS_Subset
<1>4. T # {} => Some(T) \in T
  BY SomeIn
<1>5. T # {} => SumFunctionOnSet(f, T \ {Some(T)}) = 0 /\ f[Some(T)] = 0
  BY <1>2, <1>4
<1>6. SumFunctionOnSet(f, T) = IF T = {} THEN 0
                               ELSE f[Some(T)] + SumFunctionOnSet(f, T \ {Some(T)})
  BY <1>3, SumUnfolds
<1>. QED
  BY <1>2, <1>5, <1>6

LEMMA Distribute ==
    ASSUME NEW m \in Nat, NEW a \in Nat, NEW b \in Nat
    PROVE  m * (a + b) = m * a + m * b
OBVIOUS

(* The prices of a set of items add up item by item and product by product.*)
SameSum(p, r, T) ==
    SumFunctionOnSet(ByItem(p, r), T) = SumFunctionOnSet(ByProduct(p, r, T), Products)

LEMMA ExchangeNone ==
    ASSUME NEW p, \A x \in Products : p[x] \in Nat, NEW r \in Requests
    PROVE  SameSum(p, r, {})
<1>1. ASSUME NEW x \in Products PROVE ByProduct(p, r, {})[x] = 0
  <2>1. {i \in {} : At(r, i).product = x} = {}
    OBVIOUS
  <2>2. Part(r, x, {}) = 0
    BY <2>1, SumEmpty DEF Part
  <2>. QED
    BY <2>2 DEF ByProduct
<1>2. SumFunctionOnSet(ByProduct(p, r, {}), Products) = 0
  BY <1>1, ProductsAssumption, SumZero
<1>. QED
  BY <1>2, SumEmpty DEF SameSum

LEMMA ExchangeMore ==
    ASSUME NEW p, \A x \in Products : p[x] \in Nat, NEW r \in Requests,
           NEW T, T \subseteq 1..Len(Items(r)), NEW a \in T, SameSum(p, r, T \ {a})
    PROVE  SameSum(p, r, T)
<1>. DEFINE R == T \ {a}
<1>. DEFINE y == At(r, a).product
<1>. DEFINE q == At(r, a).quantity
<1>. DEFINE d == p[y] * q
<1>. DEFINE f == ByProduct(p, r, R)
<1>. DEFINE g == ByProduct(p, r, T)
<1>1. IsFiniteSet(T) /\ R \subseteq 1..Len(Items(r))
  BY UnitsType
<1>2. \A i \in T : At(r, i).product \in Products /\ At(r, i).quantity \in Nat
  <2>. SUFFICES ASSUME NEW i \in T PROVE At(r, i) \in Item
    BY DEF Item
  <2>1. i \in Nat \ {0} /\ i <= Len(Items(r))
    BY LenType
  <2>. QED
    BY <2>1, ItemType
<1>3. ASSUME NEW i \in T
      PROVE  /\ ByItem(p, r)[i] = p[At(r, i).product] * At(r, i).quantity
             /\ ByItem(p, r)[i] \in Nat
  <2>1. p[At(r, i).product] * At(r, i).quantity \in Nat
    BY <1>2, Product
  <2>. QED
    BY <2>1 DEF ByItem
<1>4. y \in Products /\ q \in Nat /\ d \in Nat /\ ByItem(p, r)[a] = d
  BY <1>2, <1>3
<1>5. SumFunctionOnSet(ByItem(p, r), T) = d + SumFunctionOnSet(ByItem(p, r), R)
  <2>1. \A i \in T : ByItem(p, r)[i] \in Int
    BY <1>3
  <2>2. SumFunctionOnSet(ByItem(p, r), T) =
            ByItem(p, r)[a] + SumFunctionOnSet(ByItem(p, r), T \ {a})
    BY <1>1, <2>1, SumRemoves
  <2>. QED
    BY <1>4, <2>2
<1>6. ASSUME NEW x \in Products
      PROVE  /\ Part(r, x, R) \in Nat
             /\ Part(r, x, T) = Part(r, x, R) + (IF y = x THEN q ELSE 0)
             /\ f[x] = p[x] * Part(r, x, R) /\ g[x] = p[x] * Part(r, x, T)
  <2>1. Part(r, x, R) \in Nat
    BY <1>1, PartType
  <2>2. Part(r, x, T) = Part(r, x, R) + (IF y = x THEN q ELSE 0)
    BY PartMore
  <2>. QED
    BY <2>1, <2>2 DEF ByProduct
<1>. HIDE DEF f, g, q, y
<1>7. \A x \in Products : f[x] \in Int
  <2>. SUFFICES ASSUME NEW x \in Products PROVE f[x] \in Int
    OBVIOUS
  <2>1. p[x] * Part(r, x, R) \in Nat
    BY <1>6, Product
  <2>. QED
    BY <1>6, <2>1
<1>8. g[y] = f[y] + d
  <2>. DEFINE m == p[y]
  <2>. DEFINE u == Part(r, y, R)
  <2>1. m \in Nat /\ u \in Nat /\ q \in Nat /\ Part(r, y, T) = u + q
    BY <1>4, <1>6
  <2>2. f[y] = m * u /\ g[y] = m * Part(r, y, T) /\ d = m * q
    BY <1>4, <1>6
  <2>. HIDE DEF m, u, d
  <2>3. m * (u + q) = m * u + m * q
    BY <2>1, Distribute
  <2>. QED
    BY <2>1, <2>2, <2>3
<1>9. \A x \in Products \ {y} : g[x] = f[x]
  <2>. SUFFICES ASSUME NEW x \in Products, x # y PROVE g[x] = f[x]
    OBVIOUS
  <2>1. Part(r, x, T) = Part(r, x, R) + 0 /\ Part(r, x, R) \in Nat
    BY <1>6
  <2>2. Part(r, x, T) = Part(r, x, R)
    BY <2>1
  <2>. QED
    BY <1>6, <2>2
<1>10. SumFunctionOnSet(g, Products) = SumFunctionOnSet(f, Products) + d
  <2>1. d \in Int
    BY <1>4
  <2>. HIDE DEF d
  <2>. QED
    BY <1>4, <1>7, <1>8, <1>9, <2>1, ProductsAssumption, SumRaised
<1>11. SumFunctionOnSet(f, Products) \in Int
  BY <1>7, ProductsAssumption, SumType
<1>12. SumFunctionOnSet(ByItem(p, r), R) = SumFunctionOnSet(f, Products)
  BY DEF SameSum, f
<1>13. SumFunctionOnSet(ByItem(p, r), T) = SumFunctionOnSet(g, Products)
  <2>. HIDE DEF d, R
  <2>. QED
    BY <1>4, <1>5, <1>10, <1>11, <1>12
<1>. QED
  BY <1>13 DEF SameSum, g

LEMMA Exchange ==
    ASSUME NEW p, NEW r \in Requests
    PROVE  (\A x \in Products : p[x] \in Nat) => SameSum(p, r, 1..Len(Items(r)))
<1>1. SUFFICES ASSUME \A x \in Products : p[x] \in Nat PROVE SameSum(p, r, 1..Len(Items(r)))
  OBVIOUS
<1>. DEFINE All == 1..Len(Items(r))
<1>. DEFINE Bad == {T \in SUBSET All : ~SameSum(p, r, T)}
<1>2. SUFFICES ASSUME Bad # {} PROVE FALSE
  OBVIOUS
<1>3. IsFiniteSet(All) /\ Bad \subseteq SUBSET All
  BY UnitsType
<1>4. PICK T \in Bad : \A U \in Bad : ~(U \subseteq T /\ U # T)
  <2>. HIDE DEF Bad, All
  <2>. QED
    BY <1>2, <1>3, Smallest
<1>5. T # {}
  BY <1>1, ExchangeNone
<1>6. PICK a \in T : TRUE
  BY <1>5
<1>7. T \subseteq All /\ SameSum(p, r, T \ {a})
  BY <1>4
<1>8. SameSum(p, r, T)
  BY <1>1, <1>7, ExchangeMore
<1>. QED
  BY <1>8

(* What a sale costs is what the items of the order cost.                  *)
LEMMA CostIsWorth ==
    ASSUME TypeOK, NEW r \in Requests
    PROVE  Promise!Cost(r) = SumFunctionOnSet(Cents(r), 1..Len(Items(r)))
<1>1. \A x \in Products : Part(r, x, 1..Len(Items(r))) = Quantity(r, x)
  BY DEF Part, Quantity
<1>2. ByProduct(price, r, 1..Len(Items(r))) = [x \in Products |-> price[x] * Quantity(r, x)]
  BY <1>1 DEF ByProduct
<1>3. [x \in Products |->
           price[x] * [s \in Requests |-> [z \in Products |-> Quantity(s, z)]][r][x]]
        = [x \in Products |-> price[x] * Quantity(r, x)]
  OBVIOUS
<1>4. Promise!Cost(r) = SumFunctionOnSet([x \in Products |-> price[x] * Quantity(r, x)], Products)
  <2>1. \A f : Promise!SumFunctionOnSet(f, Products) = SumFunctionOnSet(f, Products)
    BY DEF Promise!SumFunctionOnSet, Promise!FoldFunctionOnSet, Promise!MapThenFoldSet,
           SumFunctionOnSet, FoldFunctionOnSet, MapThenFoldSet
  <2>. QED
    BY <1>3, <2>1 DEF Promise!Cost
<1>5. SameSum(price, r, 1..Len(Items(r)))
  BY Exchange, BoundsAssumption DEF TypeOK
<1>6. Cents(r) = ByItem(price, r)
  BY DEF Cents, ByItem
<1>. QED
  BY <1>2, <1>4, <1>5, <1>6 DEF SameSum

LEMMA PromisedInit == ASSUME Init PROVE Promise!Init
BY CartsAssumption DEF Init, NoOrder, Promise!Init, Promise!NoSale

LEMMA CommitSells ==
    ASSUME SerialInv, NEW r \in Requests, Commit(r)
    PROVE  Promise!Next
<1>. DEFINE c == Share(r)
<1>0. /\ TypeOK /\ IInv /\ LInv /\ CreditWithinLoan /\ Priced(r) /\ Booked(r)
      /\ req[r] \in ReqType /\ Busy(r, "commit")
  BY MoveType DEF SerialInv, SoloInv, IInv, LInv, PInv, Commit
<1>1. /\ req[r].sum = Worth(r, req[r].k) /\ req[r].credit = c /\ req[r].card = Bill(r) - c
      /\ orders[r] = NoOrder
  BY <1>0 DEF Priced, InTx, Booked, Busy
<1>2. req[r].sum = Promise!Cost(r) /\ Bill(r) = Gross(Promise!Cost(r))
  <2>1. {i \in 1..Len(Items(r)) : i < req[r].k} = 1..Len(Items(r))
    <3>1. req[r].k \in Nat /\ req[r].k > Len(Items(r))
      BY <1>0 DEF Booked, Done, ReqType
    <3>. QED
      BY <3>1, LenType
  <2>. QED
    BY <1>0, <1>1, <2>1, CostIsWorth DEF Worth, Bill
<1>3. /\ c \in Nat /\ (c > 0 => WithLoan(r)) /\ Bill(r) \in Nat
  BY <1>0, ShareType, WorthAll
<1>. HIDE DEF c
<1>4. /\ \A x \in Products : Quantity(r, x) <= stock[x]
      /\ stock' = [x \in Products |-> stock[x] - Quantity(r, x)]
  <2>1. \A x \in Products : stock'[x] = stock[x] - Quantity(r, x) /\ Quantity(r, x) <= stock[x]
    BY <1>0, CommitTakes
  <2>2. stock' = [x \in Products |-> stock'[x]]
    BY DEF Commit
  <2>. QED
    BY <2>1, <2>2
<1>5. UNCHANGED <<price, total>>
  BY DEF Commit
<1>6. orders' = [orders EXCEPT ![r] =
          [subtotal |-> Promise!Cost(r), credit |-> c, card |-> Gross(Promise!Cost(r)) - c,
           placed |-> TRUE]]
  BY <1>1, <1>2 DEF Commit
<1>7. CASE c = 0
  <2>1. used' = used
    BY <1>1, <1>7 DEF Commit
  <2>2. Promise!Sell(r, 0)
    BY <1>1, <1>4, <1>5, <1>6, <1>7, <2>1 DEF Promise!Sell, Promise!NoSale, NoOrder
  <2>. QED
    BY <2>2 DEF Promise!Next
<1>8. CASE c # 0
  <2>1. c > 0 /\ WithLoan(r) /\ Loan(r) \in Buyers \X Farmers
    BY <1>3, <1>8, LoanType
  <2>2. used' = [used EXCEPT ![Loan(r)] = used[Loan(r)] + c]
    BY <1>1, <2>1 DEF Commit
  <2>3. Promise!Sell(r, c)
    BY <1>1, <1>4, <1>5, <1>6, <1>8, <2>1, <2>2 DEF Promise!Sell, Promise!NoSale, NoOrder
  <2>4. c = Promise!Min({Promise!Left(Loan(r)), Gross(Promise!Cost(r))})
    <3>1. c = Min({total[Loan(r)] - used[Loan(r)], Gross(Promise!Cost(r))})
      BY <1>2, <2>1 DEF c, Share, Rest
    <3>. QED
      BY <3>1 DEF Promise!Min, Min, Promise!Left
  <2>. QED
    BY <2>1, <2>3, <2>4 DEF Promise!Next
<1>. QED
  BY <1>7, <1>8

LEMMA SaveEdits ==
    ASSUME SerialInv, NEW x \in Products, NEW change \in Changes, NEW p \in Prices,
           SaveForm(x, change, p)
    PROVE  Promise!Next
<1>. DEFINE n == form[x] + change
<1>1. /\ stock' = [stock EXCEPT ![x] = n]
      /\ price' = [price EXCEPT ![x] = p]
      /\ n \in 0..MaxStock
      /\ UNCHANGED <<total, used, orders>>
  BY DEF SaveForm, loans
<1>. HIDE DEF n
<1>2. Promise!Edit(x, n, p)
  BY <1>1 DEF Promise!Edit
<1>. QED
  BY <1>1, <1>2 DEF Promise!Next

LEMMA PriceEdits ==
    ASSUME SerialInv, NEW x \in Products, NEW p \in Prices, EditPrice(x, p)
    PROVE  Promise!Next
<1>1. /\ stock \in [Products -> Nat] /\ MaxStock \in Nat /\ stock[x] <= MaxStock
  BY BoundsAssumption DEF SerialInv, SoloInv, IInv, TypeOK, PInv
<1>2. stock[x] \in 0..MaxStock
  BY <1>1
<1>3. /\ stock' = [stock EXCEPT ![x] = stock[x]]
      /\ price' = [price EXCEPT ![x] = p]
      /\ UNCHANGED <<total, used, orders>>
  BY <1>1 DEF EditPrice, loans
<1>4. Promise!Edit(x, stock[x], p)
  BY <1>3 DEF Promise!Edit
<1>. QED
  BY <1>2, <1>4 DEF Promise!Next

LEMMA GrantsGrant ==
    ASSUME SerialInv, NEW l \in Buyers \X Farmers, NEW amount \in Grants, Grant(l, amount)
    PROVE  Promise!Next
<1>1. total[l] \in Nat /\ amount \in Nat /\ MaxCredit \in Nat
  BY BoundsAssumption DEF SerialInv, SoloInv, IInv, TypeOK
<1>2. /\ total[l] + amount <= MaxCredit
      /\ total' = [total EXCEPT ![l] = total[l] + amount]
      /\ UNCHANGED <<stock, price, used, orders>>
  BY DEF Grant, products
<1>3. total[l] + amount \in 0..MaxCredit /\ total[l] + amount >= total[l]
  BY <1>1, <1>2
<1>4. Promise!Grant(l, total[l] + amount)
  BY <1>2, <1>3 DEF Promise!Grant
<1>. QED
  BY <1>3, <1>4 DEF Promise!Next

LEMMA PromisedStep ==
    ASSUME SerialInv, [Next]_vars
    PROVE  [Promise!Next]_(Promise!vars)
<1>1. CASE UNCHANGED <<stock, price, total, used, orders>>
  BY <1>1 DEF Promise!vars
<1>2. CASE \E r \in Requests : Receive(r) \/ Step(r) \/ Abort(r)
  <2>1. PICK r \in Requests : Receive(r) \/ Step(r) \/ Abort(r)
    BY <1>2
  <2>2. CASE Commit(r)
    BY <2>2, CommitSells
  <2>3. CASE ~Commit(r)
    BY <1>1, <2>1, <2>3 DEF Receive, Step, Abort, CheckStock, ReadLoan, ReadPrice, CreateIntent,
       IntentRefused, Reserve, BreakDeadlock, Notify, products, loans
  <2>. QED
    BY <2>2, <2>3
<1>3. CASE \/ \E x \in Products, p \in Prices : EditPrice(x, p)
           \/ \E x \in Products, change \in Changes, p \in Prices : SaveForm(x, change, p)
           \/ \E l \in Buyers \X Farmers, amount \in Grants : Grant(l, amount)
  BY <1>3, PriceEdits, SaveEdits, GrantsGrant
<1>4. \/ \E f \in Farmers : GetMyProducts(f)
      \/ \E x \in Products : OpenForm(x) \/ CloseForm(x) \/ Remove(x)
      \/ UNCHANGED vars
      => UNCHANGED <<stock, price, total, used, orders>>
  BY DEF GetMyProducts, OpenForm, CloseForm, Remove, vars, products, loans
<1>. QED
  BY <1>1, <1>2, <1>3, <1>4 DEF Next

(* One checkout at a time, the many steps of POST /orders are one Sale:    *)
(* all items leave the stock together, at one price, paid by the loan as   *)
(* far as it reaches and by card for the rest; a request that is refused   *)
(* or dies midway leaves no trace.                                         *)
THEOREM Implements == ASSUME Overlap = FALSE PROVE Spec => KeepsSale
<1>1. Init => Promise!Init
  BY PromisedInit
<1>2. SerialInv /\ [Next]_vars => [Promise!Next]_(Promise!vars)
  BY PromisedStep
<1>3. Spec => []SerialInv
  BY SerialInvariance
<1>. QED
  BY <1>1, <1>2, <1>3, PTL DEF Spec, KeepsSale, Promise!Spec
=============================================================================
