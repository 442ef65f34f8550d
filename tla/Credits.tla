------------------------------ MODULE Credits ------------------------------
(***************************************************************************)
(* Credit offers: a retailer (the lender) saves a card at Stripe, offers   *)
(* credit to a farmer (the borrower) and is charged at once; the platform  *)
(* holds the money until the offer is cancelled or rejected, which refunds *)
(* the charge, or accepted, which transfers it and raises the loan.        *)
(* Every handler of credits.service.ts that changes state is here, cut at  *)
(* its awaits; one slot of req is one request the backend is serving.      *)
(***************************************************************************)
EXTENDS Integers, Sequences, Functions

CONSTANTS
    Offers,        \* offers that may be made
    Lenders,       \* retailers
    Borrowers,     \* farmers
    Procs,         \* slots for requests the backend serves at the same time
    Terms,         \* who offers credit to whom: offer -> lender and borrower
    Connected,     \* farmers with a Stripe account
    Faults,        \* TRUE when Stripe may refuse and a request may die midway
    MaxCustomers,  \* bound: Stripe customers created for a lender
    MaxTransfers   \* bound: Stripe transfers for an offer

ASSUME TermsAssumption == Terms \in [Offers -> [lender : Lenders, borrower : Borrowers]]
ASSUME BoundsAssumption ==
    /\ Connected \subseteq Borrowers
    /\ Faults \in BOOLEAN
    /\ MaxCustomers \in Nat /\ MaxTransfers \in Nat

CreditOfferStatus == {"PENDING", "ACCEPTED", "REJECTED", "CANCELLED"}
Lender(c) == Terms[c].lender
Borrower(c) == Terms[c].borrower

VARIABLES
    customer,    \* User.stripeCustomerId of a lender, 0 when null
    loans,       \* the offers' pairs of lender and borrower that have a Loan row
    status,      \* CreditOffer.status, "NONE" before the row exists
    refundId,    \* CreditOffer.refundId is set
    transferId,  \* CreditOffer.transferId: which transfer, 0 when null
    granted,     \* Loan.totalCredit: the increments each offer made to it, as
                 \* the transfers they stand for; the total is their sum
    notices,     \* notification types written about an offer
    customers,   \* Stripe: how many customers were created for a lender
    intents,     \* Stripe: customers of a lender with a setup intent
    cards,       \* Stripe: customers of a lender with a saved card
    charged,     \* Stripe: the charge of an offer succeeded
    refunded,    \* Stripe: the charge of an offer was refunded
    transfers,   \* Stripe: how many transfers were made for an offer
    disturbed,   \* history: offers two requests worked on at once, or one died over
    req          \* the request each slot is serving

rows   == <<customer, loans, status, refundId, transferId, granted, notices>>
wallet == <<customers, intents, cards>>
money  == <<charged, refunded, transfers>>
vars   == <<rows, wallet, money, disturbed, req>>

-----------------------------------------------------------------------------
(* Requests in flight, with the locals their handlers keep.                *)

Idle == [pc |-> "idle"]

SetupRequest == [pc : {"customer", "save", "intent"}, lender : Lenders, customer : Nat]

Stages ==
    [create |-> {"charge", "find", "insert", "tell"},
     cancel |-> {"refund", "close"},
     reject |-> {"refund", "close", "tell"},
     accept |-> {"transfer", "accept", "grant", "tell"}]

OfferRequest ==
    {r \in [pc : UNION {Stages[op] : op \in DOMAIN Stages}, op : DOMAIN Stages,
            offer : Offers, customer : Nat, found : BOOLEAN, transfer : Nat] :
        r.pc \in Stages[r.op]}

Closed == [cancel |-> "CANCELLED", reject |-> "REJECTED"]
NoticeOf == [create |-> "NEW_CREDIT_OFFER", accept |-> "CREDIT_OFFER_ACCEPTED",
             reject |-> "CREDIT_OFFER_REJECTED"]

Busy(p, pc) == req[p].pc = pc
Begin(p, pc, op, c) ==
    req' = [req EXCEPT ![p] = [pc |-> pc, op |-> op, offer |-> c,
                               customer |-> customer[Lender(c)], found |-> FALSE, transfer |-> 0]]
Goto(p, pc) == req' = [req EXCEPT ![p].pc = pc]
Reply(p) == req' = [req EXCEPT ![p] = Idle]

(* The requests that still decide something about an offer.                *)
Deciding(p, c) ==
    /\ req[p].pc \in {"charge", "find", "insert", "refund", "close", "transfer", "accept", "grant"}
    /\ req[p].offer = c

Creating(c) == \E q \in Procs : req[q].pc \in {"charge", "find", "insert"} /\ req[q].offer = c

-----------------------------------------------------------------------------
Init ==
    /\ customer = [l \in Lenders |-> 0]
    /\ loans = {}
    /\ status = [c \in Offers |-> "NONE"]
    /\ refundId = [c \in Offers |-> FALSE]
    /\ transferId = [c \in Offers |-> 0]
    /\ granted = [c \in Offers |-> <<>>]
    /\ notices = [c \in Offers |-> {}]
    /\ customers = [l \in Lenders |-> 0]
    /\ intents = [l \in Lenders |-> {}]
    /\ cards = [l \in Lenders |-> {}]
    /\ charged = [c \in Offers |-> FALSE]
    /\ refunded = [c \in Offers |-> FALSE]
    /\ transfers = [c \in Offers |-> 0]
    /\ disturbed = {}
    /\ req = [p \in Procs |-> Idle]

-----------------------------------------------------------------------------
(* POST /credits/setup-intent, createSetupIntent(), ensureStripeCustomer() *)

(* Fault: the saved customer is not looked at.                             *)
SetupForgets(p, l) ==
    /\ Busy(p, "idle")
    /\ req' = [req EXCEPT ![p] = [pc |-> "customer", lender |-> l, customer |-> 0]]
    /\ UNCHANGED <<rows, wallet, disturbed, money>>

SetupReceive(p, l) ==
    /\ Busy(p, "idle")
    /\ req' = [req EXCEPT ![p] =
           [pc |-> IF customer[l] = 0 THEN "customer" ELSE "intent",
            lender |-> l, customer |-> customer[l]]]
    /\ UNCHANGED <<rows, wallet, disturbed, money>>

SetupCustomer(p) ==
    /\ Busy(p, "customer")
    /\ LET l == req[p].lender IN
       /\ customers[l] < MaxCustomers
       /\ customers' = [customers EXCEPT ![l] = @ + 1]
       /\ req' = [req EXCEPT ![p] = [req[p] EXCEPT !.pc = "save", !.customer = customers[l] + 1]]
    /\ UNCHANGED <<rows, intents, cards, money, disturbed>>

SetupSave(p) ==
    /\ Busy(p, "save")
    /\ customer' = [customer EXCEPT ![req[p].lender] = req[p].customer]
    /\ Goto(p, "intent")
    /\ UNCHANGED <<loans, status, refundId, transferId, granted, notices, wallet, disturbed, money>>

SetupIntent(p) ==
    /\ Busy(p, "intent")
    /\ intents' = [intents EXCEPT ![req[p].lender] = @ \cup {req[p].customer}]
    /\ Reply(p)
    /\ UNCHANGED <<rows, customers, cards, money, disturbed>>

(* Stripe: the lender's page confirms the card with the client secret.     *)
ConfirmCard(l) ==
    /\ \E n \in intents[l] : cards' = [cards EXCEPT ![l] = @ \cup {n}]
    /\ UNCHANGED <<rows, customers, intents, money, disturbed, req>>

-----------------------------------------------------------------------------
(* POST /credits, createCredit(): c stands for this request's offer.       *)
CreateReceive(p, c) ==
    /\ Busy(p, "idle")
    /\ status[c] = "NONE" /\ ~charged[c] /\ ~Creating(c)
    /\ customer[Lender(c)] # 0
    /\ Begin(p, "charge", "create", c)
    /\ UNCHANGED <<rows, wallet, disturbed, money>>

(* The saved card of the customer read at the start is charged at once.    *)
CreateCharge(p) ==
    /\ Busy(p, "charge") /\ req[p].customer \in cards[Lender(req[p].offer)]
    /\ charged' = [charged EXCEPT ![req[p].offer] = TRUE]
    /\ Goto(p, "find")
    /\ UNCHANGED <<rows, wallet, disturbed, refunded, transfers>>

(* There is no saved card, or the card is declined.                        *)
CreateDeclined(p) ==
    /\ Busy(p, "charge")
    /\ req[p].customer \notin cards[Lender(req[p].offer)] \/ Faults
    /\ Reply(p)
    /\ UNCHANGED <<rows, wallet, disturbed, money>>

CreateFindLoan(p) ==
    /\ Busy(p, "find")
    /\ req' = [req EXCEPT ![p] =
           [req[p] EXCEPT !.pc = "insert", !.found = Terms[req[p].offer] \in loans]]
    /\ UNCHANGED <<rows, wallet, disturbed, money>>

(* A loan that someone else created since then makes the insert fail: the  *)
(* pair is unique, and the transaction rolls back after the charge.        *)
CreateInsert(p) ==
    /\ Busy(p, "insert")
    /\ LET r == req[p] IN
       IF ~r.found /\ Terms[r.offer] \in loans
       THEN Reply(p) /\ UNCHANGED <<loans, status>>
       ELSE /\ loans' = loans \cup {Terms[r.offer]}
            /\ status' = [status EXCEPT ![r.offer] = "PENDING"]
            /\ Goto(p, "tell")
    /\ UNCHANGED <<customer, refundId, transferId, granted, notices, wallet, disturbed, money>>

-----------------------------------------------------------------------------
(* POST /credits/:id/cancel and /reject: find a PENDING offer, refund its  *)
(* charge, then update the row where the id matches.                       *)

(* Fault: the query forgets that the offer must be PENDING.                *)
AnswerAny(p, c, op, pc) ==
    /\ Busy(p, "idle") /\ status[c] # "NONE"
    /\ Begin(p, pc, op, c)
    /\ disturbed' = IF \E q \in Procs : Deciding(q, c) THEN disturbed \cup {c} ELSE disturbed
    /\ UNCHANGED <<rows, wallet, money>>

AnswerReceive(p, c, op, pc) ==
    /\ Busy(p, "idle") /\ status[c] = "PENDING"
    /\ Begin(p, pc, op, c)
    /\ disturbed' = IF \E q \in Procs : Deciding(q, c) THEN disturbed \cup {c} ELSE disturbed
    /\ UNCHANGED <<rows, wallet, money>>

(* Fault: the answer is recorded although Stripe did not refund.           *)
RefundIgnored(p) ==
    /\ Busy(p, "refund")
    /\ Goto(p, "close")
    /\ refunded' = refunded \/ refunded' = [refunded EXCEPT ![req[p].offer] = TRUE]
    /\ UNCHANGED <<rows, wallet, disturbed, charged, transfers>>

(* Stripe refunds a charge in full once and refuses to do it again.        *)
Refund(p) ==
    /\ Busy(p, "refund")
    /\ LET c == req[p].offer IN
       IF refunded[c]
       THEN Reply(p) /\ UNCHANGED refunded
       ELSE refunded' = [refunded EXCEPT ![c] = TRUE] /\ Goto(p, "close")
    /\ UNCHANGED <<rows, wallet, disturbed, charged, transfers>>

Close(p) ==
    /\ Busy(p, "close")
    /\ LET r == req[p] IN
       /\ status' = [status EXCEPT ![r.offer] = Closed[r.op]]
       /\ refundId' = [refundId EXCEPT ![r.offer] = TRUE]
       /\ IF r.op = "reject" THEN Goto(p, "tell") ELSE Reply(p)
    /\ UNCHANGED <<customer, loans, transferId, granted, notices, wallet, disturbed, money>>

-----------------------------------------------------------------------------
(* POST /credits/:id/accept, acceptCredit().                               *)
AcceptReceive(p, c) ==
    /\ Borrower(c) \in Connected
    /\ AnswerReceive(p, c, "accept", "transfer")

(* No idempotency key: every call that reaches Stripe is a new transfer.   *)
AcceptTransfer(p) ==
    /\ Busy(p, "transfer")
    /\ LET c == req[p].offer IN
       /\ transfers[c] < MaxTransfers
       /\ transfers' = [transfers EXCEPT ![c] = @ + 1]
       /\ req' = [req EXCEPT ![p] = [req[p] EXCEPT !.pc = "accept", !.transfer = transfers[c] + 1]]
    /\ UNCHANGED <<rows, wallet, disturbed, charged, refunded>>

(* Stripe fails a refund or a transfer.                                    *)
Refused(p) ==
    /\ Faults /\ req[p].pc \in {"refund", "transfer"}
    /\ Reply(p)
    /\ UNCHANGED <<rows, wallet, disturbed, money>>

(* The two writes go through the client and not through the transaction    *)
(* they are written in, so each one commits by itself.                     *)
AcceptOffer(p) ==
    /\ Busy(p, "accept")
    /\ status' = [status EXCEPT ![req[p].offer] = "ACCEPTED"]
    /\ transferId' = [transferId EXCEPT ![req[p].offer] = req[p].transfer]
    /\ Goto(p, "grant")
    /\ UNCHANGED <<customer, loans, refundId, granted, notices, wallet, disturbed, money>>

(* Fault: a write whose answer is lost is retried although it committed.   *)
AcceptGrantRepeats(p) ==
    /\ Busy(p, "grant")
    /\ granted' = [granted EXCEPT ![req[p].offer] = Append(@, req[p].transfer)]
    /\ Goto(p, "tell") \/ UNCHANGED req
    /\ Len(granted[req[p].offer]) < 3
    /\ UNCHANGED <<customer, loans, status, refundId, transferId, notices, wallet, disturbed, money>>

(* Fault: the loan is not raised.                                          *)
AcceptGrantForgotten(p) ==
    /\ Busy(p, "grant")
    /\ Goto(p, "tell")
    /\ UNCHANGED <<rows, wallet, disturbed, money>>

AcceptGrant(p) ==
    /\ Busy(p, "grant")
    /\ granted' = [granted EXCEPT ![req[p].offer] = Append(@, req[p].transfer)]
    /\ Goto(p, "tell")
    /\ UNCHANGED <<customer, loans, status, refundId, transferId, notices, wallet, disturbed, money>>

-----------------------------------------------------------------------------
(* The notification is not awaited: it is written after the answer.        *)
Tell(p) ==
    /\ Busy(p, "tell")
    /\ notices' = [notices EXCEPT ![req[p].offer] = @ \cup {NoticeOf[req[p].op]}]
    /\ Reply(p)
    /\ UNCHANGED <<customer, loans, status, refundId, transferId, granted, wallet, disturbed, money>>

(* A request dies between two steps, maybe after it moved money and before *)
(* it wrote all of it down.                                                *)
Abort(p) ==
    /\ Faults /\ ~Busy(p, "idle")
    /\ Reply(p)
    /\ disturbed' = IF req[p].pc \in {"close", "accept", "grant"}
                    THEN disturbed \cup {req[p].offer} ELSE disturbed
    /\ UNCHANGED <<rows, wallet, money>>

Step(p) ==
    \/ SetupCustomer(p) \/ SetupSave(p) \/ SetupIntent(p)
    \/ CreateCharge(p) \/ CreateDeclined(p) \/ CreateFindLoan(p) \/ CreateInsert(p)
    \/ Refund(p) \/ Close(p)
    \/ AcceptTransfer(p) \/ AcceptOffer(p) \/ AcceptGrant(p)
    \/ Refused(p) \/ Tell(p)

Receive(p, c) ==
    \/ CreateReceive(p, c)
    \/ \E op \in {"cancel", "reject"} : AnswerReceive(p, c, op, "refund")
    \/ AcceptReceive(p, c)

Next ==
    \/ \E l \in Lenders : ConfirmCard(l) \/ \E p \in Procs : SetupReceive(p, l)
    \/ \E p \in Procs, c \in Offers : Receive(p, c)
    \/ \E p \in Procs : Step(p) \/ Abort(p)

Spec == Init /\ [][Next]_vars

-----------------------------------------------------------------------------
(* Type invariant.                                                         *)
TypeOK ==
    /\ customer \in [Lenders -> Nat]
    /\ loans \subseteq Range(Terms)
    /\ status \in [Offers -> CreditOfferStatus \cup {"NONE"}]
    /\ refundId \in [Offers -> BOOLEAN]
    /\ transferId \in [Offers -> Nat]
    /\ granted \in [Offers -> Seq(Nat)]
    /\ notices \in [Offers -> SUBSET Range(NoticeOf)]
    /\ customers \in [Lenders -> Nat]
    /\ intents \in [Lenders -> SUBSET Nat]
    /\ cards \in [Lenders -> SUBSET Nat]
    /\ charged \in [Offers -> BOOLEAN]
    /\ refunded \in [Offers -> BOOLEAN]
    /\ transfers \in [Offers -> Nat]
    /\ disturbed \subseteq Offers
    /\ req \in [Procs -> SetupRequest \cup OfferRequest \cup {Idle}]

-----------------------------------------------------------------------------
(* What holds however requests interleave, are repeated or die midway.     *)

(* An answered offer has its money where the answer says: a cancelled or   *)
(* rejected one was refunded, an accepted one names a transfer Stripe made *)
(* although the rows are updated by id, long after they were read.         *)
AnswersAreSettled ==
    \A c \in Offers :
        /\ status[c] \in {"CANCELLED", "REJECTED"} => refunded[c] /\ refundId[c]
        /\ status[c] = "ACCEPTED" => transferId[c] \in 1..transfers[c]

(* A loan never grants more than the farmer received: each increment of    *)
(* totalCredit stands for a transfer of its own, so neither overlapping    *)
(* accepts nor one that dies between its two writes grant money twice.     *)
CreditIsBacked ==
    \A c \in Offers : IsInjective(granted[c]) /\ Range(granted[c]) \subseteq 1..transfers[c]

(* No money goes back or on unless the lender's card was charged for it.   *)
MoneyComesFromCharge ==
    \A c \in Offers : refunded[c] \/ transfers[c] > 0 => charged[c]

(* A lender who is told of an acceptance has a loan that counts it, and a  *)
(* lender who is told of a rejection has the money back.                   *)
NoticesAreTrue ==
    \A c \in Offers :
        /\ "CREDIT_OFFER_ACCEPTED" \in notices[c] => granted[c] # <<>> /\ Terms[c] \in loans
        /\ "CREDIT_OFFER_REJECTED" \in notices[c] => refunded[c]

(* An offer that was not disturbed is settled to the cent, whatever        *)
(* overlaps or dies on other offers of the same lender and the same loan:  *)
(* once no request works on it, the charge was refunded exactly if it is   *)
(* cancelled or rejected, it was transferred once if it is accepted and    *)
(* else never, and the loan counts exactly that transfer.  cancelCredit,   *)
(* rejectCredit and acceptCredit owe this to the search for a PENDING      *)
(* offer alone: they take no lock and use no transaction.                  *)
UndisturbedIsSettled ==
    \A c \in Offers \ disturbed : (\A p \in Procs : ~Deciding(p, c)) =>
        /\ refunded[c] <=> status[c] \in {"CANCELLED", "REJECTED"}
        /\ transfers[c] = IF status[c] = "ACCEPTED" THEN 1 ELSE 0
        /\ Len(granted[c]) = transfers[c]

-----------------------------------------------------------------------------
(* What holds as long as requests do not overlap and none dies.            *)

Quiet == \A p \in Procs : Busy(p, "idle")

(* Between requests the three books agree: what Stripe was charged and has *)
(* refunded or transferred, the status of the offer, and the loan.         *)
BooksAgree ==
    Quiet => \A c \in Offers :
        /\ charged[c] <=> status[c] # "NONE"
        /\ refunded[c] <=> status[c] \in {"CANCELLED", "REJECTED"}
        /\ status[c] = "ACCEPTED" <=> Len(granted[c]) = 1
        /\ status[c] # "NONE" => Terms[c] \in loans

(* A lender who saved a card can make offers: the card belongs to the      *)
(* customer the user row names.                                            *)
CardIsFound == \A l \in Lenders : cards[l] # {} => customer[l] \in cards[l]

=============================================================================
