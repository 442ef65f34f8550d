----------------------------- MODULE OrderPages -----------------------------
(***************************************************************************)
(* What the pages of admin, farmer and retailer show of an order and do to *)
(* it.  A page asks, shows the answer that comes, however old, and offers  *)
(* its buttons from what it shows; the order moves on meanwhile, from other *)
(* pages, the webhook and other browsers.  The handlers of the backend are *)
(* one step each here; what happens when they overlap is Escrow's subject. *)
(***************************************************************************)
EXTENDS Naturals, FiniteSets, Sequences, SequencesExt

CONSTANTS
    Pages,      \* open pages of the browsers that watch the order
    None,
    MaxBlocks,  \* bound: times the order is blocked
    MaxAsked,   \* bound: answers a page waits for at once
    Faults      \* TRUE when requests and answers may be lost

ASSUME OrderPagesAssumption ==
    /\ MaxBlocks \in Nat /\ MaxAsked \in Nat /\ MaxAsked > 0
    /\ Faults \in BOOLEAN

LedgerSteps == <<"INITIATED", "LOCKED", "DELIVERED", "RELEASED">>
EscrowState == {"INITIATED", "LOCKED", "DELIVERED", "RELEASED", "BLOCKED"}
Details == {"adminOrder", "farmerOrder", "retailerOrder"}
Lists == {"adminOrders", "farmerOrders", "retailerOrders"}
Kinds == Details \cup Lists \cup {"escrows"}

VARIABLES
    order,      \* status, ledger entries and proof of the order's transaction
    page        \* the pages

vars == <<order, page>>

Entry == [previousStatus : EscrowState, currentStatus : EscrowState]
Order == [status : EscrowState, ledger : Seq(Entry), proof : BOOLEAN]
(* An answer that lists no order, and one that has not come yet.           *)
Missing == [status |-> None, ledger |-> <<>>, proof |-> FALSE]
Pending == [status |-> "?", ledger |-> <<>>, proof |-> FALSE]
Filters == EscrowState \cup {"All"}
Page == [kind : Kinds, pc : {"idle", "block", "unblock", "reload", "upload", "release"},
         loading : BOOLEAN, shown : Order \cup {Missing}, filter : Filters,
         asked : Seq([filter : Filters, got : Order \cup {Missing, Pending}]), step : 0 .. 3]

-----------------------------------------------------------------------------
Asking(f) == [filter |-> f, got |-> Pending]
NewPage(k) == [kind |-> k, pc |-> "idle", loading |-> TRUE, shown |-> Missing, filter |-> "All",
               asked |-> <<Asking("All")>>, step |-> 0]

(* A purchase wholly on credit starts LOCKED, with one entry.              *)
Created(status) ==
    [status |-> status, proof |-> FALSE,
     ledger |-> <<[previousStatus |-> "INITIATED", currentStatus |-> status]>>]

Init ==
    /\ order \in {Created("INITIATED"), Created("LOCKED")}
    /\ page \in [Pages -> {NewPage(k) : k \in Kinds}]

-----------------------------------------------------------------------------
(* The backend.                                                            *)
LastBlock(ledger) ==
    CHOOSE i \in DOMAIN ledger :
        /\ ledger[i].currentStatus = "BLOCKED"
        /\ \A j \in DOMAIN ledger : ledger[j].currentStatus = "BLOCKED" => j <= i
(* Bound: the blocks so far and the ones under way.                        *)
MayBlock ==
    Cardinality({i \in DOMAIN order.ledger : order.ledger[i].currentStatus = "BLOCKED"})
        + Cardinality({p \in Pages : page[p].pc = "block"}) < MaxBlocks

Moved(next) ==
    [order EXCEPT !.status = next,
        !.ledger = Append(@, [previousStatus |-> order.status, currentStatus |-> next])]
Transition(expected, next) == order.status = expected /\ order' = Moved(next)

Lock == Transition("INITIATED", "LOCKED")

(* The proof is stored before the order is delivered.                      *)
VerifyProofOfDelivery ==
    /\ order.status = "LOCKED"
    /\ order' = [Moved("DELIVERED") EXCEPT !.proof = TRUE]

ReleaseFunds == Transition("DELIVERED", "RELEASED")

(* Fault: a blocked order is blocked again.                                *)
BlockOrderTwice == order' = Moved("BLOCKED")

BlockOrder == order.status # "BLOCKED" /\ order' = Moved("BLOCKED")

UnblockOrder ==
    /\ order.status = "BLOCKED"
    /\ order' = Moved(order.ledger[LastBlock(order.ledger)].previousStatus)

(* A listing leaves the ledger and the other statuses out.                 *)
Row == [order EXCEPT !.ledger = <<>>, !.proof = FALSE]
Listed(f) == IF f \in {"All", order.status} THEN Row ELSE Missing
RetailerFindAll(f) == Listed(f)
FarmerFindAll(f) == Listed(f)
AdminFindAll(f) == Listed(f)
FarmerEscrows == Listed("LOCKED")
FindOne == order
AdminFindOne == order

Answer(kind, f) ==
    CASE kind = "adminOrder" -> AdminFindOne
      [] kind \in {"farmerOrder", "retailerOrder"} -> FindOne
      [] kind = "adminOrders" -> AdminFindAll(f)
      [] kind = "farmerOrders" -> FarmerFindAll(f)
      [] kind = "retailerOrders" -> RetailerFindAll(f)
      [] kind = "escrows" -> FarmerEscrows

-----------------------------------------------------------------------------
(* What a page with this order shows.  The banner of a blocked order says  *)
(* what it was before, which is where unblocking will take it.             *)
IsBlocked(s) == s.status = "BLOCKED"
CurrentStep(s) == CHOOSE i \in DOMAIN LedgerSteps : LedgerSteps[i] = s.status
Done(s) == IF IsBlocked(s) THEN {} ELSE 1 .. CurrentStep(s)
Dated(s) == {i \in DOMAIN LedgerSteps : \E e \in ToSet(s.ledger) : e.currentStatus = LedgerSteps[i]}

(* Fault: the first time the order was blocked.                            *)
BeforeFirstBlock(s) ==
    IF ~IsBlocked(s) THEN None
    ELSE s.ledger[CHOOSE i \in DOMAIN s.ledger :
            /\ s.ledger[i].currentStatus = "BLOCKED"
            /\ \A j \in 1 .. i - 1 : s.ledger[j].currentStatus # "BLOCKED"].previousStatus

BeforeBlock(s) == IF IsBlocked(s) THEN s.ledger[LastBlock(s.ledger)].previousStatus ELSE None

AdminOrderPage(s) ==
    [done |-> Done(s), dated |-> Dated(s), before |-> BeforeBlock(s), pod |-> s.status = "RELEASED"]
(* Farmer and retailer are shown the proof itself.                         *)
RetailerOrderPage(s) == [AdminOrderPage(s) EXCEPT !.pod = @ /\ s.proof]
FarmerOrderPage(s) == [AdminOrderPage(s) EXCEPT !.pod = @ /\ s.proof]

Shows(p) ==
    CASE page[p].kind = "adminOrder" -> AdminOrderPage(page[p].shown)
      [] page[p].kind = "retailerOrder" -> RetailerOrderPage(page[p].shown)
      [] page[p].kind = "farmerOrder" -> FarmerOrderPage(page[p].shown)

BlockButton(p) ==
    /\ page[p].kind \in {"adminOrder", "adminOrders"}
    /\ page[p].shown # Missing /\ page[p].pc = "idle" /\ ~page[p].loading
    /\ Len(page[p].asked) < MaxAsked
StatusOptions(kind) ==
    IF kind = "adminOrders" THEN Filters ELSE Filters \ {"BLOCKED"}

-----------------------------------------------------------------------------
Set(p, r) == page' = [page EXCEPT ![p] = r]
Idle(p) == [page[p] EXCEPT !.pc = "idle"]
Asks(p) == [page[p] EXCEPT !.asked = Append(@, Asking(page[p].filter)), !.loading = TRUE]

(* The server reads; the answer may come late or after a younger one.      *)
Serve(p, i) ==
    /\ page[p].asked[i].got = Pending
    /\ Set(p, [page[p] EXCEPT !.asked[i].got = Answer(page[p].kind, page[p].asked[i].filter)])
    /\ UNCHANGED order

Arrived(p, i) ==
    [page[p] EXCEPT !.asked = RemoveAt(@, i), !.loading = FALSE,
        !.pc = IF @ = "reload" THEN "idle" ELSE @]

Show(p, i) ==
    /\ page[p].asked[i].got # Pending
    /\ Set(p, [Arrived(p, i) EXCEPT !.shown = page[p].asked[i].got])
    /\ UNCHANGED order

(* The page of escrows then shows an error alone, others what they had.    *)
FetchFails(p, i) ==
    /\ Faults
    /\ Set(p, [Arrived(p, i) EXCEPT !.shown = IF page[p].kind = "escrows" THEN Missing ELSE @])
    /\ UNCHANGED order

UpdateParam(p, f) ==
    /\ page[p].kind \in Lists /\ f \in StatusOptions(page[p].kind) \ {page[p].filter}
    /\ Len(page[p].asked) + (IF page[p].pc = "idle" THEN 0 ELSE 1) < MaxAsked
    /\ Set(p, [page[p] EXCEPT !.filter = f, !.asked = Append(@, Asking(f)), !.loading = TRUE])
    /\ UNCHANGED order

-----------------------------------------------------------------------------
(* Blocking and unblocking, from a row or from the order's own page.       *)
HandleBlock(p) ==
    /\ BlockButton(p) /\ ~IsBlocked(page[p].shown) /\ MayBlock
    /\ Set(p, [page[p] EXCEPT !.pc = "block"])
    /\ UNCHANGED order

HandleUnblock(p) ==
    /\ BlockButton(p) /\ IsBlocked(page[p].shown)
    /\ Set(p, [page[p] EXCEPT !.pc = "unblock"])
    /\ UNCHANGED order

(* The list starts a fetch and is done; the order's page waits for it.     *)
Reloaded(p) ==
    IF page[p].kind = "adminOrders" THEN [Asks(p) EXCEPT !.pc = "idle"]
    ELSE [Asks(p) EXCEPT !.pc = "reload", !.loading = page[p].loading]

Called(p, pc, Op) ==
    /\ page[p].pc = pc
    /\ \/ Op /\ Set(p, Reloaded(p))
       \/ Op /\ Faults /\ Set(p, Idle(p))

(* Fault: the buttons come back only after a success.                      *)
BlockRefusedHangs(p) ==
    /\ page[p].pc = "block" /\ IsBlocked(order)
    /\ UNCHANGED vars

BlockRefused(p) ==
    /\ page[p].pc = "block" /\ IsBlocked(order)
    /\ Set(p, Idle(p))
    /\ UNCHANGED order

UnblockRefused(p) ==
    /\ page[p].pc = "unblock" /\ ~IsBlocked(order)
    /\ Set(p, Idle(p))
    /\ UNCHANGED order

CallLost(p) ==
    /\ Faults /\ page[p].pc \in {"block", "unblock"}
    /\ Set(p, Idle(p))
    /\ UNCHANGED order

-----------------------------------------------------------------------------
(* The farmer's page of escrows and its dialog.                            *)
OpenModal(p) ==
    /\ page[p].kind = "escrows" /\ page[p].step = 0 /\ page[p].shown # Missing
    /\ ~page[p].loading
    /\ Set(p, [page[p] EXCEPT !.step = 1])
    /\ UNCHANGED order

HandleFile(p) ==
    /\ page[p].step = 1 /\ page[p].pc = "idle" /\ page[p].asked = <<>>
    /\ Set(p, [page[p] EXCEPT !.step = 2, !.pc = "upload"])
    /\ UNCHANGED order

(* The document matches, and the page goes on to the release by itself;    *)
(* or it does not, or the answer is an error or lost: another document.    *)
RunOcr(p) ==
    /\ page[p].pc = "upload"
    /\ \/ VerifyProofOfDelivery /\ Set(p, [page[p] EXCEPT !.step = 3, !.pc = "release"])
       \/ VerifyProofOfDelivery /\ Faults /\ Set(p, Idle(p))
       \/ Set(p, Idle(p)) /\ UNCHANGED order

UploadAgain(p) ==
    /\ page[p].step = 2 /\ page[p].pc = "idle"
    /\ Set(p, [page[p] EXCEPT !.step = 1])
    /\ UNCHANGED order

(* Success closes the dialog and loads the list again; an error stays.     *)
RunRelease(p) ==
    /\ page[p].pc = "release"
    /\ \/ ReleaseFunds /\ Set(p, [Asks(p) EXCEPT !.pc = "idle", !.step = 0])
       \/ ReleaseFunds /\ Faults /\ Set(p, Idle(p))
       \/ Set(p, Idle(p)) /\ UNCHANGED order

HandleClose(p) ==
    /\ page[p].step # 0 /\ page[p].pc = "idle"
    /\ Set(p, [page[p] EXCEPT !.step = 0])
    /\ UNCHANGED order

-----------------------------------------------------------------------------
Fetch(p, i) == Serve(p, i) \/ Show(p, i)
Answers(p) ==
    \/ Called(p, "block", BlockOrder) \/ Called(p, "unblock", UnblockOrder)
    \/ BlockRefused(p) \/ UnblockRefused(p) \/ RunOcr(p) \/ RunRelease(p)
AdminOrder(p) == HandleBlock(p) \/ HandleUnblock(p) \/ CallLost(p)
EscrowModal(p) == OpenModal(p) \/ HandleFile(p) \/ UploadAgain(p) \/ HandleClose(p)

(* The webhook, and the same handlers called from other browsers.          *)
Elsewhere ==
    /\ Lock \/ VerifyProofOfDelivery \/ ReleaseFunds \/ (BlockOrder /\ MayBlock) \/ UnblockOrder
    /\ UNCHANGED page

Next ==
    \/ \E p \in Pages :
          \/ \E i \in DOMAIN page[p].asked : Fetch(p, i) \/ FetchFails(p, i)
          \/ \E f \in Filters : UpdateParam(p, f)
          \/ Answers(p) \/ AdminOrder(p) \/ EscrowModal(p)
    \/ Elsewhere
Spec == Init /\ [][Next]_vars

(* Requests are answered and their answers arrive or fail.                 *)
Fairness ==
    \A p \in Pages :
        /\ \A i \in 1 .. MaxAsked : WF_vars(i \in DOMAIN page[p].asked /\ Fetch(p, i))
        /\ WF_vars(Answers(p))
FairSpec == Spec /\ Fairness

-----------------------------------------------------------------------------
TypeOK == order \in Order /\ page \in [Pages -> Page]

(* The history a page shows hangs together, however old the answer and     *)
(* however often the order was blocked: each step marked done has its date *)
(* and no other has (but the first, which an order on credit skips), a     *)
(* blocked order comes from a step, and where the page offers the proof of *)
(* delivery there is one (the timelines of the order pages).               *)
PageTellsHistory ==
    \A p \in Pages : page[p].kind \in Details /\ page[p].shown # Missing =>
        /\ ~IsBlocked(page[p].shown) => Shows(p).done \ {1} = Shows(p).dated \ {1}
        /\ IsBlocked(page[p].shown) => Shows(p).before \in ToSet(LedgerSteps)
        /\ page[p].shown.status = "RELEASED" => Shows(p).pod /\ page[p].shown.proof

(* What the banner promised is what unblocking does, unless the order was  *)
(* unblocked and blocked again since the page was loaded (unblockOrder and *)
(* the pages search the ledger each for themselves).                       *)
BannerIsKept ==
    [][\A p \in Pages :
        /\ page[p].kind \in Details /\ IsBlocked(page[p].shown)
        /\ page[p].shown.ledger = order.ledger /\ order'.status # "BLOCKED"
        => order'.status = Shows(p).before]_vars

(* No page is left loading or with its buttons disabled, whoever changed   *)
(* the order meanwhile and whatever was lost (the finally of the handlers). *)
PagesSettle ==
    \A p \in Pages :
        /\ page[p].pc # "idle" ~> page[p].pc = "idle"
        /\ page[p].loading ~> ~page[p].loading
=============================================================================
