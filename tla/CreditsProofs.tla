---------------------------- MODULE CreditsProofs ----------------------------
(***************************************************************************)
(* Proofs about Credits, for any offers, lenders, farmers and number of    *)
(* request slots: with faults first, when requests may overlap and die     *)
(* midway; then, from "One request at a time", without, where the three    *)
(* books agree between requests and the handlers implement CreditPromise;  *)
(* from "The lender's card", with faults again but without overlap; and    *)
(* last, with overlap and faults, the offers that were not disturbed.      *)
(***************************************************************************)
EXTENDS CreditRefinement, TLAPS

-----------------------------------------------------------------------------
(* The inductive invariant.                                                *)

Paying == {"accept", "grant"}

(* What the outside world shows for a request that got this far: a status  *)
(* it read may be stale, but a charge, a refund, a transfer and a loan row *)
(* are never taken back.                                                   *)
Justified(p) ==
    LET r == req[p]
        c == r.offer
    IN  /\ r.pc \in {"find", "insert", "refund", "close", "transfer", "accept", "grant"} => charged[c]
        /\ r.pc \in {"refund", "close", "transfer", "accept", "grant"} => Terms[c] \in loans
        /\ r.pc = "close" => refunded[c]
        /\ r.pc \in Paying => r.transfer \in 1..transfers[c] /\ r.transfer \notin Range(granted[c])
        /\ r.pc = "tell" /\ r.op = "accept" => granted[c] # <<>> /\ Terms[c] \in loans
        /\ r.pc = "tell" /\ r.op = "reject" => refunded[c]

(* What the outside world shows for the rows of an offer.                  *)
Recorded(c) ==
    /\ status[c] # "NONE" => charged[c] /\ Terms[c] \in loans
    /\ status[c] \in {"CANCELLED", "REJECTED"} => refunded[c] /\ refundId[c]
    /\ status[c] = "ACCEPTED" => transferId[c] \in 1..transfers[c]
    /\ IsInjective(granted[c]) /\ Range(granted[c]) \subseteq 1..transfers[c]
    /\ refunded[c] \/ transfers[c] > 0 => charged[c]
    /\ "CREDIT_OFFER_ACCEPTED" \in notices[c] => granted[c] # <<>> /\ Terms[c] \in loans
    /\ "CREDIT_OFFER_REJECTED" \in notices[c] => refunded[c]

(* No two requests carry the same transfer.                                *)
OwnTransfer(p, q) ==
    /\ req[p].pc \in Paying /\ req[q].pc \in Paying
    /\ req[p].offer = req[q].offer
    => req[p].transfer # req[q].transfer

IInv ==
    /\ TypeOK
    /\ \A c \in Offers : Recorded(c)
    /\ \A p \in Procs : Justified(p)
    /\ \A p, q \in Procs : p # q => OwnTransfer(p, q)

-----------------------------------------------------------------------------
(* Requests.                                                               *)

Ops == {"create", "cancel", "reject", "accept"}
Pcs == {"charge", "find", "insert", "tell", "refund", "close", "transfer", "accept", "grant"}
Setups == {"customer", "save", "intent"}

LEMMA StagesFacts == DOMAIN Stages = Ops /\ UNION {Stages[op] : op \in DOMAIN Stages} = Pcs
<1>1. DOMAIN Stages = Ops
  BY DEF Stages, Ops
<1>2. \A x : x \in UNION {Stages[op] : op \in Ops} <=> x \in Pcs
  BY DEF Stages, Ops, Pcs
<1>. QED
  BY <1>1, <1>2

(* The fields of a request about an offer, one by one.                     *)
Fields == [pc : Pcs, op : Ops, offer : Offers, customer : Nat, found : BOOLEAN, transfer : Nat]

LEMMA RequestFields ==
    ASSUME NEW r
    PROVE  r \in OfferRequest <=> r \in Fields /\ r.pc \in Stages[r.op]
BY StagesFacts DEF OfferRequest, Fields

(* A request that is neither idle nor a setup is about an offer.           *)
LEMMA BusyIsRequest ==
    ASSUME TypeOK, NEW p \in Procs, req[p].pc \in Pcs
    PROVE  req[p] \in OfferRequest /\ req[p] \in Fields
<1>1. req[p] \in SetupRequest \cup OfferRequest \cup {Idle}
  BY DEF TypeOK
<1>2. req[p] \notin SetupRequest /\ req[p] # Idle
  BY DEF SetupRequest, Idle, Pcs
<1>. QED
  BY <1>1, <1>2, RequestFields

(* Which request may be where.                                             *)
LEMMA StageOf ==
    ASSUME NEW r \in OfferRequest
    PROVE  /\ r.pc \in {"charge", "find", "insert"} => r.op = "create"
           /\ r.pc \in {"refund", "close"} => r.op \in {"cancel", "reject"}
           /\ r.pc \in {"transfer", "accept", "grant"} => r.op = "accept"
           /\ r.pc = "tell" => r.op \in {"create", "reject", "accept"}
<1>1. r.op \in Ops /\ r.pc \in Stages[r.op]
  BY RequestFields DEF Fields
<1>. QED
  BY <1>1 DEF Ops, Stages

(* Amending the locals of a request leaves a request.                      *)
LEMMA Amend ==
    ASSUME NEW r \in OfferRequest, NEW pc \in Stages[r.op], NEW b \in BOOLEAN, NEW n \in Nat
    PROVE  /\ [r EXCEPT !.pc = pc] \in OfferRequest
           /\ [r EXCEPT !.pc = pc, !.found = b] \in OfferRequest
           /\ [r EXCEPT !.pc = pc, !.transfer = n] \in OfferRequest
<1>1. r \in Fields /\ pc \in Pcs
  BY RequestFields, StagesFacts DEF Fields
<1>2. [r EXCEPT !.pc = pc] \in Fields
  BY <1>1 DEF Fields
<1>3. [r EXCEPT !.pc = pc, !.found = b] \in Fields
  BY <1>1 DEF Fields
<1>4. [r EXCEPT !.pc = pc, !.transfer = n] \in Fields
  BY <1>1 DEF Fields
<1>. QED
  BY <1>1, <1>2, <1>3, <1>4, RequestFields DEF Fields

AnyRequest == SetupRequest \cup OfferRequest \cup {Idle}

LEMMA GotoType ==
    ASSUME TypeOK, NEW p \in Procs, req[p] \in OfferRequest, NEW pc \in Stages[req[p].op],
           Goto(p, pc)
    PROVE  req' \in [Procs -> AnyRequest]
BY Amend DEF TypeOK, Goto, AnyRequest

LEMMA ReplyType ==
    ASSUME TypeOK, NEW p \in Procs, Reply(p)
    PROVE  req' \in [Procs -> AnyRequest] /\ req'[p] = Idle
BY DEF TypeOK, Reply, AnyRequest

-----------------------------------------------------------------------------
(* Steps and the invariant.                                                *)

(* What no step takes back.                                                *)
Grows ==
    /\ loans \subseteq loans'
    /\ \A c \in Offers : /\ charged[c] => charged'[c]
                         /\ refunded[c] => refunded'[c]
                         /\ transfers[c] <= transfers'[c]

(* The rows of an offer that a step leaves alone stay justified.           *)
LEMMA RecordedKept ==
    ASSUME TypeOK, TypeOK', Grows, NEW c \in Offers, Recorded(c),
           status'[c] = status[c], refundId'[c] = refundId[c],
           transferId'[c] = transferId[c], granted'[c] = granted[c], notices'[c] = notices[c],
           refunded'[c] \/ transfers'[c] > 0 => charged'[c]
    PROVE  Recorded(c)'
<1>1. transfers[c] \in Nat /\ transfers'[c] \in Nat /\ transfers[c] <= transfers'[c] /\ transferId[c] \in Nat
  BY DEF TypeOK, Grows
<1>2. Range(granted[c]) \subseteq 1..transfers'[c]
  BY <1>1 DEF Recorded
<1>. QED
  BY <1>1, <1>2 DEF Recorded, Grows

(* A request that a step leaves alone stays justified.                     *)
LEMMA JustifiedKept ==
    ASSUME TypeOK, TypeOK', Grows, NEW p \in Procs, Justified(p), req'[p] = req[p],
           req[p].pc \in Pcs => granted'[req[p].offer] = granted[req[p].offer]
    PROVE  Justified(p)'
<1>1. CASE req[p].pc \notin Pcs
  BY <1>1 DEF Justified, Pcs, Paying
<1>2. CASE req[p].pc \in Pcs
  <2>1. PICK r \in OfferRequest : r = req[p]
    BY <1>2, BusyIsRequest
  <2>2. r.offer \in Offers /\ r.transfer \in Nat
    BY <2>1, RequestFields DEF Fields
  <2>3. transfers[r.offer] \in Nat /\ transfers'[r.offer] \in Nat /\ transfers[r.offer] <= transfers'[r.offer]
    BY <2>2 DEF TypeOK, Grows
  <2>. QED
    BY <1>2, <2>1, <2>2, <2>3 DEF Justified, Grows, Paying
<1>. QED
  BY <1>1, <1>2

(* The step of one request: the others only have to be left alone.         *)
LEMMA StepKept ==
    ASSUME IInv, TypeOK', Grows, NEW p \in Procs,
           \A q \in Procs \ {p} : req'[q] = req[q],
           granted' = granted,
           \A c \in Offers : Recorded(c)',
           Justified(p)',
           \A q \in Procs \ {p} : OwnTransfer(p, q)'
    PROVE  IInv'
<1>1. \A q \in Procs \ {p} : Justified(q)'
  BY JustifiedKept DEF IInv
<1>2. \A q \in Procs \ {p} : OwnTransfer(q, p)'
  BY DEF OwnTransfer
<1>3. \A q, s \in Procs \ {p} : q # s => OwnTransfer(q, s)'
  BY DEF IInv, OwnTransfer
<1>. QED
  BY <1>1, <1>2, <1>3 DEF IInv

(* A step that changes no row of an offer and nothing at Stripe.           *)
LEMMA LocalStep ==
    ASSUME IInv, TypeOK', NEW p \in Procs,
           \A q \in Procs \ {p} : req'[q] = req[q],
           UNCHANGED <<loans, status, refundId, transferId, granted, notices, money>>,
           Justified(p)', req'[p].pc \notin Paying
    PROVE  IInv'
<1>1. Grows
  BY DEF Grows, money, IInv, TypeOK
<1>2. \A c \in Offers : Recorded(c)'
  BY DEF IInv, Recorded, money
<1>. QED
  BY <1>1, <1>2, StepKept DEF OwnTransfer

LEMMA IdleJustified ==
    ASSUME NEW p \in Procs, req'[p] = Idle
    PROVE  Justified(p)' /\ req'[p].pc \notin Paying
BY DEF Justified, Idle, Paying


(* The rest of the type invariant when a step only moves a request on.     *)
LEMMA QuietType ==
    ASSUME TypeOK, UNCHANGED <<rows, wallet, money>>, disturbed' \subseteq Offers,
           req' \in [Procs -> AnyRequest]
    PROVE  TypeOK'
BY DEF TypeOK, rows, wallet, money, AnyRequest

(* A step that moves one request on and may disturb an offer.              *)
LEMMA DisturbingStep ==
    ASSUME IInv, NEW p \in Procs, UNCHANGED <<rows, wallet, money>>, disturbed' \subseteq Offers,
           req' \in [Procs -> AnyRequest], \A q \in Procs \ {p} : req'[q] = req[q],
           Justified(p)', req'[p].pc \notin Paying
    PROVE  IInv'
<1>1. TypeOK'
  BY QuietType DEF IInv
<1>2. UNCHANGED <<loans, status, refundId, transferId, granted, notices, money>>
  BY DEF rows
<1>. QED
  BY <1>1, <1>2, LocalStep

LEMMA QuietStep ==
    ASSUME IInv, NEW p \in Procs, UNCHANGED <<rows, wallet, disturbed, money>>,
           req' \in [Procs -> AnyRequest], \A q \in Procs \ {p} : req'[q] = req[q],
           Justified(p)', req'[p].pc \notin Paying
    PROVE  IInv'
<1>1. disturbed' \subseteq Offers
  BY DEF IInv, TypeOK
<1>. QED
  BY <1>1, DisturbingStep

LEMMA GotoOthers ==
    ASSUME TypeOK, NEW p \in Procs, NEW pc, Goto(p, pc)
    PROVE  /\ \A q \in Procs \ {p} : req'[q] = req[q]
           /\ req'[p] = [req[p] EXCEPT !.pc = pc]
BY DEF Goto, TypeOK

LEMMA ReplyStep ==
    ASSUME IInv, NEW p \in Procs, Reply(p), UNCHANGED <<rows, wallet, disturbed, money>>
    PROVE  IInv'
<1>1. TypeOK
  BY DEF IInv
<1>2. req' \in [Procs -> AnyRequest] /\ req'[p] = Idle
  BY <1>1, ReplyType
<1>3. \A q \in Procs \ {p} : req'[q] = req[q]
  BY <1>1 DEF Reply, TypeOK
<1>. QED
  BY <1>2, <1>3, QuietStep, IdleJustified

(* A request that dies over an offer had begun with it.                    *)
LEMMA AbortStep ==
    ASSUME IInv, NEW p \in Procs, Abort(p)
    PROVE  IInv'
<1>1. TypeOK
  BY DEF IInv
<1>2. Reply(p) /\ UNCHANGED <<rows, wallet, money>>
  BY DEF Abort
<1>3. disturbed' \subseteq Offers
  <2>1. CASE req[p].pc \in {"close", "accept", "grant"}
    <3>1. req[p] \in Fields
      BY <1>1, <2>1, BusyIsRequest DEF Pcs
    <3>. QED
      BY <1>1, <3>1 DEF Abort, Fields, TypeOK
  <2>2. CASE req[p].pc \notin {"close", "accept", "grant"}
    BY <1>1, <2>2 DEF Abort, TypeOK
  <2>. QED
    BY <2>1, <2>2
<1>4. req' \in [Procs -> AnyRequest] /\ req'[p] = Idle
  BY <1>1, <1>2, ReplyType
<1>5. \A q \in Procs \ {p} : req'[q] = req[q]
  BY <1>1, <1>2 DEF Reply, TypeOK
<1>. QED
  BY <1>2, <1>3, <1>4, <1>5, DisturbingStep, IdleJustified

-----------------------------------------------------------------------------
(* Setup.                                                                  *)

(* A request of a setup needs no justification.                            *)
LEMMA SetupJustified ==
    ASSUME NEW p \in Procs, req'[p].pc \in Setups
    PROVE  Justified(p)' /\ req'[p].pc \notin Paying
BY DEF Justified, Setups, Paying

LEMMA BusySetup ==
    ASSUME TypeOK, NEW p \in Procs, req[p].pc \in Setups
    PROVE  req[p] \in SetupRequest
<1>1. req[p] \in SetupRequest \cup OfferRequest \cup {Idle}
  BY DEF TypeOK
<1>2. req[p] \notin OfferRequest /\ req[p] # Idle
  BY RequestFields DEF Fields, Idle, Setups, Pcs
<1>. QED
  BY <1>1, <1>2

LEMMA SetupReceiveStep ==
    ASSUME IInv, NEW p \in Procs, NEW l \in Lenders, SetupReceive(p, l)
    PROVE  IInv'
<1> DEFINE pc == IF customer[l] = 0 THEN "customer" ELSE "intent"
           r == [pc |-> pc, lender |-> l, customer |-> customer[l]]
<1>1. TypeOK
  BY DEF IInv
<1>2. r \in SetupRequest /\ r.pc \in Setups
  BY <1>1 DEF TypeOK, SetupRequest, Setups
<1>3. req' = [req EXCEPT ![p] = r]
  BY DEF SetupReceive
<1>4. /\ req' \in [Procs -> AnyRequest] /\ req'[p] = r
      /\ \A q \in Procs \ {p} : req'[q] = req[q]
  BY <1>1, <1>2, <1>3 DEF TypeOK, AnyRequest
<1>5. UNCHANGED <<rows, wallet, disturbed, money>>
  BY DEF SetupReceive
<1>. QED
  BY <1>2, <1>4, <1>5, SetupJustified, QuietStep

LEMMA SetupCustomerStep ==
    ASSUME IInv, NEW p \in Procs, SetupCustomer(p)
    PROVE  IInv'
<1>1. TypeOK
  BY DEF IInv
<1>2. PICK r \in SetupRequest : r = req[p]
  BY <1>1, BusySetup DEF SetupCustomer, Busy, Setups
<1> DEFINE l == r.lender
           n == customers[l] + 1
<1>3. l \in Lenders /\ n \in Nat
  BY <1>1, <1>2 DEF SetupRequest, TypeOK
<1>4. [r EXCEPT !.pc = "save", !.customer = n] \in SetupRequest
  BY <1>2, <1>3 DEF SetupRequest
<1>5. req' = [req EXCEPT ![p] = [r EXCEPT !.pc = "save", !.customer = n]]
  BY <1>2 DEF SetupCustomer
<1>6. /\ req' \in [Procs -> AnyRequest]
      /\ req'[p] = [r EXCEPT !.pc = "save", !.customer = n]
      /\ \A q \in Procs \ {p} : req'[q] = req[q]
  BY <1>1, <1>4, <1>5 DEF TypeOK, AnyRequest
<1>7. req'[p].pc \in Setups
  BY <1>2, <1>6 DEF Setups, SetupRequest
<1>8. customers' \in [Lenders -> Nat]
  BY <1>1, <1>2, <1>3 DEF SetupCustomer, TypeOK
<1>9. TypeOK'
  BY <1>1, <1>6, <1>8 DEF SetupCustomer, TypeOK, rows, money, AnyRequest
<1>10. UNCHANGED <<loans, status, refundId, transferId, granted, notices, money>>
  BY DEF SetupCustomer, rows
<1>. QED
  BY <1>6, <1>7, <1>9, <1>10, SetupJustified, LocalStep

LEMMA SetupSaveStep ==
    ASSUME IInv, NEW p \in Procs, SetupSave(p)
    PROVE  IInv'
<1>1. TypeOK
  BY DEF IInv
<1>2. PICK r \in SetupRequest : r = req[p]
  BY <1>1, BusySetup DEF SetupSave, Busy, Setups
<1>3. r.lender \in Lenders /\ r.customer \in Nat
  BY <1>2 DEF SetupRequest
<1>4. [r EXCEPT !.pc = "intent"] \in SetupRequest
  BY <1>2 DEF SetupRequest
<1>5. req' = [req EXCEPT ![p] = [r EXCEPT !.pc = "intent"]]
  BY <1>1, <1>2 DEF SetupSave, Goto
<1>6. /\ req' \in [Procs -> AnyRequest]
      /\ req'[p] = [r EXCEPT !.pc = "intent"]
      /\ \A q \in Procs \ {p} : req'[q] = req[q]
  BY <1>1, <1>4, <1>5 DEF TypeOK, AnyRequest
<1>7. req'[p].pc \in Setups
  BY <1>2, <1>6 DEF Setups, SetupRequest
<1>8. customer' \in [Lenders -> Nat]
  BY <1>1, <1>2, <1>3 DEF SetupSave, TypeOK
<1>9. TypeOK'
  BY <1>1, <1>6, <1>8 DEF SetupSave, TypeOK, wallet, money, AnyRequest
<1>10. UNCHANGED <<loans, status, refundId, transferId, granted, notices, money>>
  BY DEF SetupSave
<1>. QED
  BY <1>6, <1>7, <1>9, <1>10, SetupJustified, LocalStep

LEMMA SetupIntentStep ==
    ASSUME IInv, NEW p \in Procs, SetupIntent(p)
    PROVE  IInv'
<1>1. TypeOK
  BY DEF IInv
<1>2. PICK r \in SetupRequest : r = req[p]
  BY <1>1, BusySetup DEF SetupIntent, Busy, Setups
<1>3. r.lender \in Lenders /\ r.customer \in Nat
  BY <1>2 DEF SetupRequest
<1>4. req' \in [Procs -> AnyRequest] /\ req'[p] = Idle
  BY <1>1, ReplyType DEF SetupIntent
<1>5. \A q \in Procs \ {p} : req'[q] = req[q]
  BY <1>1 DEF SetupIntent, Reply, TypeOK
<1>6. intents' \in [Lenders -> SUBSET Nat]
  BY <1>1, <1>2, <1>3 DEF SetupIntent, TypeOK
<1>7. TypeOK'
  BY <1>1, <1>4, <1>6 DEF SetupIntent, TypeOK, rows, money, AnyRequest
<1>8. UNCHANGED <<loans, status, refundId, transferId, granted, notices, money>>
  BY DEF SetupIntent, rows
<1>. QED
  BY <1>4, <1>5, <1>7, <1>8, IdleJustified, LocalStep

LEMMA ConfirmCardStep ==
    ASSUME IInv, NEW l \in Lenders, ConfirmCard(l)
    PROVE  IInv'
<1>1. TypeOK
  BY DEF IInv
<1>2. cards' \in [Lenders -> SUBSET Nat]
  BY <1>1 DEF ConfirmCard, TypeOK
<1>3. TypeOK'
  BY <1>1, <1>2 DEF ConfirmCard, TypeOK, rows, money
<1>4. UNCHANGED <<loans, status, refundId, transferId, granted, notices, money, req>>
  BY DEF ConfirmCard, rows
<1>. QED
  BY <1>3, <1>4 DEF IInv, Recorded, Justified, OwnTransfer, money

-----------------------------------------------------------------------------
(* Offers: beginning a request.                                            *)

LEMMA BeginType ==
    ASSUME TypeOK, NEW p \in Procs, NEW c \in Offers, NEW op \in Ops, NEW pc \in Stages[op],
           Begin(p, pc, op, c)
    PROVE  /\ req' \in [Procs -> AnyRequest]
           /\ req'[p].pc = pc /\ req'[p].offer = c /\ req'[p].op = op
           /\ \A q \in Procs \ {p} : req'[q] = req[q]
<1> DEFINE r == [pc |-> pc, op |-> op, offer |-> c, customer |-> customer[Lender(c)],
                 found |-> FALSE, transfer |-> 0]
<1>1. customer[Lender(c)] \in Nat
  BY TermsAssumption DEF TypeOK, Lender
<1>2. r \in Fields
  BY <1>1, StagesFacts DEF Fields
<1>3. r \in OfferRequest
  BY <1>2, RequestFields
<1>. QED
  BY <1>3 DEF Begin, TypeOK, AnyRequest

LEMMA CreateReceiveStep ==
    ASSUME IInv, NEW p \in Procs, NEW c \in Offers, CreateReceive(p, c)
    PROVE  IInv'
<1>1. TypeOK
  BY DEF IInv
<1>2. "create" \in Ops /\ "charge" \in Stages["create"]
  BY DEF Ops, Stages
<1>3. Begin(p, "charge", "create", c) /\ UNCHANGED <<rows, wallet, disturbed, money>>
  BY DEF CreateReceive
<1>4. /\ req' \in [Procs -> AnyRequest] /\ req'[p].pc = "charge"
      /\ \A q \in Procs \ {p} : req'[q] = req[q]
  BY <1>1, <1>2, <1>3, BeginType
<1>5. Justified(p)' /\ req'[p].pc \notin Paying
  BY <1>4 DEF Justified, Paying
<1>. QED
  BY <1>3, <1>4, <1>5, QuietStep

(* An answer begins with a PENDING offer: its charge succeeded.            *)
LEMMA AnswerReceiveStep ==
    ASSUME IInv, NEW p \in Procs, NEW c \in Offers, NEW op \in Ops, NEW pc \in Stages[op],
           pc \in {"refund", "transfer"}, AnswerReceive(p, c, op, pc)
    PROVE  IInv'
<1>1. TypeOK /\ Recorded(c)
  BY DEF IInv
<1>2. /\ Begin(p, pc, op, c) /\ UNCHANGED <<rows, wallet, money>>
      /\ disturbed' \subseteq Offers
  BY <1>1 DEF AnswerReceive, TypeOK
<1>3. /\ req' \in [Procs -> AnyRequest] /\ req'[p].pc = pc /\ req'[p].offer = c
      /\ \A q \in Procs \ {p} : req'[q] = req[q]
  BY <1>1, <1>2, BeginType
<1>4. charged'[c] /\ Terms[c] \in loans'
  BY <1>1, <1>2 DEF Recorded, AnswerReceive, rows, money
<1>5. Justified(p)' /\ req'[p].pc \notin Paying
  BY <1>3, <1>4 DEF Justified, Paying
<1>. QED
  BY <1>2, <1>3, <1>5, DisturbingStep

-----------------------------------------------------------------------------
(* Offers: creating one.                                                   *)

(* The request behind a step, its fields and where it may go.              *)
LEMMA Serving ==
    ASSUME IInv, NEW p \in Procs, req[p].pc \in Pcs
    PROVE  /\ TypeOK /\ Justified(p)
           /\ req[p] \in OfferRequest
           /\ req[p].offer \in Offers /\ req[p].transfer \in Nat
           /\ Recorded(req[p].offer)
           /\ req[p].pc \in {"charge", "find", "insert"} =>
                  {"charge", "find", "insert", "tell"} \subseteq Stages[req[p].op] /\ req[p].op = "create"
           /\ req[p].pc \in {"refund", "close"} =>
                  /\ "close" \in Stages[req[p].op] /\ req[p].op \in {"cancel", "reject"}
                  /\ req[p].op = "reject" => "tell" \in Stages[req[p].op]
           /\ req[p].pc \in {"transfer", "accept", "grant"} =>
                  {"accept", "grant", "tell"} \subseteq Stages[req[p].op] /\ req[p].op = "accept"
           /\ req[p].pc = "tell" => req[p].op \in {"create", "reject", "accept"}
<1>1. TypeOK /\ Justified(p)
  BY DEF IInv
<1>2. PICK r \in OfferRequest : r = req[p]
  BY <1>1, BusyIsRequest
<1>3. r.offer \in Offers /\ r.transfer \in Nat
  BY <1>2, RequestFields DEF Fields
<1>4. Recorded(r.offer)
  BY <1>3 DEF IInv
<1>5. /\ r.pc \in {"charge", "find", "insert"} => r.op = "create"
      /\ r.pc \in {"refund", "close"} => r.op \in {"cancel", "reject"}
      /\ r.pc \in {"transfer", "accept", "grant"} => r.op = "accept"
      /\ r.pc = "tell" => r.op \in {"create", "reject", "accept"}
  BY <1>2, StageOf
<1>6. /\ {"charge", "find", "insert", "tell"} \subseteq Stages["create"]
      /\ "close" \in Stages["cancel"] /\ {"close", "tell"} \subseteq Stages["reject"]
      /\ {"accept", "grant", "tell"} \subseteq Stages["accept"]
  BY DEF Stages
<1>. QED
  BY <1>1, <1>2, <1>3, <1>4, <1>5, <1>6

LEMMA CreateChargeStep ==
    ASSUME IInv, NEW p \in Procs, CreateCharge(p)
    PROVE  IInv'
<1>1. req[p].pc = "charge"
  BY DEF CreateCharge, Busy
<1>2. PICK r \in OfferRequest : r = req[p]
  BY <1>1, Serving DEF Pcs
<1>3. /\ TypeOK /\ r.offer \in Offers /\ "find" \in Stages[r.op] /\ r.op = "create"
  BY <1>1, <1>2, Serving DEF Pcs
<1>4. /\ Goto(p, "find") /\ charged' = [charged EXCEPT ![r.offer] = TRUE]
      /\ UNCHANGED <<rows, wallet, disturbed, refunded, transfers>>
  BY <1>2 DEF CreateCharge
<1>5. /\ req' \in [Procs -> AnyRequest]
      /\ req'[p] = [r EXCEPT !.pc = "find"]
      /\ \A q \in Procs \ {p} : req'[q] = req[q]
  BY <1>2, <1>3, <1>4, GotoType, GotoOthers
<1>6. TypeOK'
  BY <1>3, <1>4, <1>5 DEF TypeOK, AnyRequest, rows, wallet
<1>7. Grows /\ \A c \in Offers : charged[c] => charged'[c]
  BY <1>3, <1>4 DEF Grows, TypeOK, rows
<1>8. \A c \in Offers : Recorded(c)'
  <2>1. TAKE c \in Offers
  <2>2. Recorded(c)
    BY DEF IInv
  <2>3. refunded'[c] \/ transfers'[c] > 0 => charged'[c]
    BY <1>4, <1>7, <2>2 DEF Recorded
  <2>. QED
    BY <1>3, <1>4, <1>6, <1>7, <2>2, <2>3, RecordedKept DEF rows
<1>9. r \in Fields
  BY RequestFields
<1>10. req'[p].pc = "find" /\ req'[p].offer = r.offer
  BY <1>5, <1>9 DEF Fields
<1>11. Justified(p)'
  BY <1>3, <1>4, <1>10 DEF Justified, Paying, TypeOK
<1>12. \A q \in Procs \ {p} : OwnTransfer(p, q)'
  BY <1>10 DEF OwnTransfer, Paying
<1>. QED
  BY <1>4, <1>5, <1>6, <1>7, <1>8, <1>11, <1>12, StepKept DEF rows

LEMMA CreateFindLoanStep ==
    ASSUME IInv, NEW p \in Procs, CreateFindLoan(p)
    PROVE  IInv'
<1>1. req[p].pc = "find"
  BY DEF CreateFindLoan, Busy
<1>2. PICK r \in OfferRequest : r = req[p]
  BY <1>1, Serving DEF Pcs
<1>3. TypeOK /\ Justified(p) /\ "insert" \in Stages[r.op] /\ r.op = "create"
  BY <1>1, <1>2, Serving DEF Pcs
<1> DEFINE found == Terms[r.offer] \in loans
<1>4. PICK b \in BOOLEAN : b <=> found
  <2>1. CASE found
    BY <2>1, TRUE \in BOOLEAN
  <2>2. CASE ~found
    BY <2>2, FALSE \in BOOLEAN
  <2>. QED
    BY <2>1, <2>2
<1>5. b = found
  BY <1>4
<1> DEFINE new == [r EXCEPT !.pc = "insert", !.found = b]
<1>6. new \in OfferRequest
  BY <1>3, <1>4, Amend, 0 \in Nat
<1>7. r \in Fields
  BY RequestFields
<1>8. new.pc = "insert" /\ new.offer = r.offer
  BY <1>7 DEF Fields
<1>9. req' = [req EXCEPT ![p] = new] /\ UNCHANGED <<rows, wallet, disturbed, money>>
  BY <1>2, <1>5 DEF CreateFindLoan
<1>10. /\ req' \in [Procs -> AnyRequest] /\ req'[p] = new
      /\ \A q \in Procs \ {p} : req'[q] = req[q]
  BY <1>3, <1>6, <1>9 DEF TypeOK, AnyRequest
<1>11. charged'[r.offer]
  BY <1>1, <1>2, <1>3, <1>9 DEF Justified, money
<1>12. Justified(p)' /\ req'[p].pc \notin Paying
  BY <1>8, <1>10, <1>11 DEF Justified, Paying
<1>. QED
  BY <1>9, <1>10, <1>12, QuietStep

LEMMA CreateInsertStep ==
    ASSUME IInv, NEW p \in Procs, CreateInsert(p)
    PROVE  IInv'
<1>1. req[p].pc = "insert"
  BY DEF CreateInsert, Busy
<1>2. PICK r \in OfferRequest : r = req[p]
  BY <1>1, Serving DEF Pcs
<1>3. /\ TypeOK /\ Justified(p) /\ r.offer \in Offers
      /\ "tell" \in Stages[r.op] /\ r.op = "create"
  BY <1>1, <1>2, Serving DEF Pcs
<1>4. CASE ~r.found /\ Terms[r.offer] \in loans
  <2>1. Reply(p) /\ UNCHANGED <<rows, wallet, disturbed, money>>
    BY <1>2, <1>4 DEF CreateInsert, rows
  <2>. QED
    BY <2>1, ReplyStep
<1>5. CASE ~(~r.found /\ Terms[r.offer] \in loans)
  <2>1. /\ loans' = loans \cup {Terms[r.offer]}
        /\ status' = [status EXCEPT ![r.offer] = "PENDING"]
        /\ Goto(p, "tell")
        /\ UNCHANGED <<customer, refundId, transferId, granted, notices, wallet, disturbed, money>>
    BY <1>2, <1>5 DEF CreateInsert
  <2>2. /\ req' \in [Procs -> AnyRequest]
        /\ req'[p] = [r EXCEPT !.pc = "tell"]
        /\ \A q \in Procs \ {p} : req'[q] = req[q]
    BY <1>2, <1>3, <2>1, GotoType, GotoOthers
  <2>3. loans' \subseteq Range(Terms)
    BY <1>3, <2>1, TermsAssumption DEF TypeOK, Range
  <2>4. status' \in [Offers -> CreditOfferStatus \cup {"NONE"}]
    BY <1>3, <2>1 DEF TypeOK, CreditOfferStatus
  <2>5. TypeOK'
    BY <1>3, <2>1, <2>2, <2>3, <2>4 DEF TypeOK, AnyRequest, wallet, money
  <2>6. Grows
    BY <1>3, <2>1 DEF Grows, TypeOK, money
  <2>7. charged[r.offer]
    BY <1>1, <1>2, <1>3 DEF Justified
  <2>8. \A c \in Offers : Recorded(c)'
    <3>1. TAKE c \in Offers
    <3>2. Recorded(c)
      BY DEF IInv
    <3>3. CASE c = r.offer
      <4>1. status'[c] = "PENDING" /\ Terms[c] \in loans' /\ charged'[c]
        BY <1>3, <2>1, <2>7, <3>3 DEF TypeOK, money
      <4>. QED
        BY <2>1, <3>2, <4>1 DEF Recorded, money
    <3>4. CASE c # r.offer
      <4>1. status'[c] = status[c]
        BY <1>3, <2>1, <3>4 DEF TypeOK
      <4>2. refunded'[c] \/ transfers'[c] > 0 => charged'[c]
        BY <2>1, <3>2 DEF Recorded, money
      <4>. QED
        BY <1>3, <2>1, <2>5, <2>6, <3>2, <4>1, <4>2, RecordedKept
    <3>. QED
      BY <3>3, <3>4
  <2>9. r \in Fields
    BY RequestFields
  <2>10. req'[p].pc = "tell" /\ req'[p].op = "create"
    BY <1>3, <2>2, <2>9 DEF Fields
  <2>11. Justified(p)' /\ \A q \in Procs \ {p} : OwnTransfer(p, q)'
    BY <2>10 DEF Justified, OwnTransfer, Paying
  <2>. QED
    BY <2>1, <2>2, <2>5, <2>6, <2>8, <2>11, StepKept
<1>. QED
  BY <1>4, <1>5

-----------------------------------------------------------------------------
(* Offers: answering one.                                                  *)

LEMMA RefundStep ==
    ASSUME IInv, NEW p \in Procs, Refund(p)
    PROVE  IInv'
<1>1. req[p].pc = "refund"
  BY DEF Refund, Busy
<1>2. PICK r \in OfferRequest : r = req[p]
  BY <1>1, Serving DEF Pcs
<1>3. /\ TypeOK /\ Justified(p) /\ r.offer \in Offers /\ "close" \in Stages[r.op]
  BY <1>1, <1>2, Serving DEF Pcs
<1>4. CASE refunded[r.offer]
  <2>1. Reply(p) /\ UNCHANGED <<rows, wallet, disturbed, money>>
    BY <1>2, <1>4 DEF Refund, money
  <2>. QED
    BY <2>1, ReplyStep
<1>5. CASE ~refunded[r.offer]
  <2>1. /\ Goto(p, "close") /\ refunded' = [refunded EXCEPT ![r.offer] = TRUE]
        /\ UNCHANGED <<rows, wallet, disturbed, charged, transfers>>
    BY <1>2, <1>5 DEF Refund
  <2>2. /\ req' \in [Procs -> AnyRequest]
        /\ req'[p] = [r EXCEPT !.pc = "close"]
        /\ \A q \in Procs \ {p} : req'[q] = req[q]
    BY <1>2, <1>3, <2>1, GotoType, GotoOthers
  <2>3. TypeOK'
    BY <1>3, <2>1, <2>2 DEF TypeOK, AnyRequest, rows, wallet
  <2>4. Grows
    BY <1>3, <2>1 DEF Grows, TypeOK, rows
  <2>5. charged[r.offer] /\ Terms[r.offer] \in loans
    BY <1>1, <1>2, <1>3 DEF Justified
  <2>6. \A c \in Offers : Recorded(c)'
    <3>1. TAKE c \in Offers
    <3>2. Recorded(c)
      BY DEF IInv
    <3>3. refunded'[c] \/ transfers'[c] > 0 => charged'[c]
      BY <1>3, <2>1, <2>5, <3>2 DEF Recorded, TypeOK
    <3>. QED
      BY <1>3, <2>1, <2>3, <2>4, <3>2, <3>3, RecordedKept DEF rows
  <2>7. r \in Fields
    BY RequestFields
  <2>8. req'[p].pc = "close" /\ req'[p].offer = r.offer
    BY <2>2, <2>7 DEF Fields
  <2>9. refunded'[r.offer] /\ charged'[r.offer] /\ Terms[r.offer] \in loans'
    BY <1>3, <2>1, <2>5 DEF TypeOK, rows
  <2>10. Justified(p)' /\ \A q \in Procs \ {p} : OwnTransfer(p, q)'
    BY <2>8, <2>9 DEF Justified, OwnTransfer, Paying
  <2>. QED
    BY <2>1, <2>2, <2>3, <2>4, <2>6, <2>10, StepKept DEF rows
<1>. QED
  BY <1>4, <1>5

LEMMA CloseStep ==
    ASSUME IInv, NEW p \in Procs, Close(p)
    PROVE  IInv'
<1>1. req[p].pc = "close"
  BY DEF Close, Busy
<1>2. PICK r \in OfferRequest : r = req[p]
  BY <1>1, Serving DEF Pcs
<1>3. /\ TypeOK /\ Justified(p) /\ r.offer \in Offers /\ r.op \in {"cancel", "reject"}
      /\ r.op = "reject" => "tell" \in Stages[r.op]
  BY <1>1, <1>2, Serving DEF Pcs
<1>4. /\ status' = [status EXCEPT ![r.offer] = Closed[r.op]]
      /\ refundId' = [refundId EXCEPT ![r.offer] = TRUE]
      /\ UNCHANGED <<customer, loans, transferId, granted, notices, wallet, disturbed, money>>
  BY <1>2 DEF Close
<1>5. Closed[r.op] \in {"CANCELLED", "REJECTED"}
  BY <1>3 DEF Closed
<1>6. charged[r.offer] /\ Terms[r.offer] \in loans /\ refunded[r.offer]
  BY <1>1, <1>2, <1>3 DEF Justified
<1>7. /\ req' \in [Procs -> AnyRequest]
      /\ \A q \in Procs \ {p} : req'[q] = req[q]
      /\ Justified(p)' /\ req'[p].pc \notin Paying
  <2>1. CASE r.op = "reject"
    <3>1. Goto(p, "tell")
      BY <1>2, <2>1 DEF Close
    <3>2. /\ req' \in [Procs -> AnyRequest]
          /\ req'[p] = [r EXCEPT !.pc = "tell"]
          /\ \A q \in Procs \ {p} : req'[q] = req[q]
      BY <1>2, <1>3, <2>1, <3>1, GotoType, GotoOthers
    <3>3. r \in Fields
      BY RequestFields
    <3>4. req'[p].pc = "tell" /\ req'[p].offer = r.offer /\ req'[p].op = "reject"
      BY <2>1, <3>2, <3>3 DEF Fields
    <3>5. refunded'[r.offer]
      BY <1>4, <1>6 DEF money
    <3>. QED
      BY <3>2, <3>4, <3>5 DEF Justified, Paying
  <2>2. CASE r.op = "cancel"
    <3>1. Reply(p)
      BY <1>2, <2>2 DEF Close
    <3>2. req' \in [Procs -> AnyRequest] /\ req'[p] = Idle
      BY <1>3, <3>1, ReplyType
    <3>3. \A q \in Procs \ {p} : req'[q] = req[q]
      BY <1>3, <3>1 DEF Reply, TypeOK
    <3>. QED
      BY <3>2, <3>3, IdleJustified
  <2>. QED
    BY <1>3, <2>1, <2>2
<1>8. TypeOK'
  BY <1>3, <1>4, <1>5, <1>7 DEF TypeOK, CreditOfferStatus, AnyRequest, wallet, money
<1>9. Grows
  BY <1>3, <1>4 DEF Grows, TypeOK, money
<1>10. \A c \in Offers : Recorded(c)'
  <2>1. TAKE c \in Offers
  <2>2. Recorded(c)
    BY DEF IInv
  <2>3. CASE c = r.offer
    <3>1. /\ status'[c] \in {"CANCELLED", "REJECTED"} /\ refundId'[c]
          /\ charged'[c] /\ Terms[c] \in loans' /\ refunded'[c]
      BY <1>3, <1>4, <1>5, <1>6, <2>3 DEF TypeOK, money
    <3>. QED
      BY <1>4, <2>2, <3>1 DEF Recorded, money
  <2>4. CASE c # r.offer
    <3>1. status'[c] = status[c] /\ refundId'[c] = refundId[c]
      BY <1>3, <1>4, <2>4 DEF TypeOK
    <3>2. refunded'[c] \/ transfers'[c] > 0 => charged'[c]
      BY <1>4, <2>2 DEF Recorded, money
    <3>. QED
      BY <1>3, <1>4, <1>8, <1>9, <2>2, <3>1, <3>2, RecordedKept
  <2>. QED
    BY <2>3, <2>4
<1>11. \A q \in Procs \ {p} : OwnTransfer(p, q)'
  BY <1>7 DEF OwnTransfer
<1>. QED
  BY <1>4, <1>7, <1>8, <1>9, <1>10, <1>11, StepKept

LEMMA AcceptTransferStep ==
    ASSUME IInv, NEW p \in Procs, AcceptTransfer(p)
    PROVE  IInv'
<1>1. req[p].pc = "transfer"
  BY DEF AcceptTransfer, Busy
<1>2. PICK r \in OfferRequest : r = req[p]
  BY <1>1, Serving DEF Pcs
<1>3. TypeOK /\ Justified(p) /\ r.offer \in Offers /\ "accept" \in Stages[r.op]
  BY <1>1, <1>2, Serving DEF Pcs
<1>4. PICK n \in Nat : n = transfers[r.offer] + 1
  BY <1>3 DEF TypeOK
<1> DEFINE new == [r EXCEPT !.pc = "accept", !.transfer = n]
<1>5. new \in OfferRequest
  BY <1>3, <1>4, Amend, TRUE \in BOOLEAN
<1>6. r \in Fields
  BY RequestFields
<1>7. new.pc = "accept" /\ new.offer = r.offer /\ new.transfer = n
  BY <1>6 DEF Fields
<1>8. /\ transfers' = [transfers EXCEPT ![r.offer] = n]
      /\ req' = [req EXCEPT ![p] = new]
      /\ UNCHANGED <<rows, wallet, disturbed, charged, refunded>>
  BY <1>2, <1>3, <1>4 DEF AcceptTransfer, TypeOK
<1>9. /\ req' \in [Procs -> AnyRequest] /\ req'[p] = new
      /\ \A q \in Procs \ {p} : req'[q] = req[q]
  BY <1>3, <1>5, <1>8 DEF TypeOK, AnyRequest
<1>10. TypeOK'
  BY <1>3, <1>8, <1>9 DEF TypeOK, AnyRequest, rows, wallet
<1>11. Grows
  BY <1>3, <1>4, <1>8 DEF Grows, TypeOK, rows
<1>12. charged[r.offer] /\ Terms[r.offer] \in loans
  BY <1>1, <1>2, <1>3 DEF Justified
<1>13. \A c \in Offers : Recorded(c)'
  <2>1. TAKE c \in Offers
  <2>2. Recorded(c)
    BY DEF IInv
  <2>3. refunded'[c] \/ transfers'[c] > 0 => charged'[c]
    BY <1>3, <1>8, <1>12, <2>2 DEF Recorded, TypeOK
  <2>. QED
    BY <1>3, <1>8, <1>10, <1>11, <2>2, <2>3, RecordedKept DEF rows
<1>14. n \notin Range(granted[r.offer])
  <2>1. Range(granted[r.offer]) \subseteq 1..transfers[r.offer] /\ transfers[r.offer] \in Nat
    BY <1>3 DEF IInv, Recorded, TypeOK
  <2>. QED
    BY <1>4, <2>1
<1>15. n \in 1..transfers'[r.offer]
  BY <1>3, <1>4, <1>8 DEF TypeOK
<1>16. Justified(p)'
  BY <1>7, <1>8, <1>9, <1>12, <1>14, <1>15 DEF Justified, Paying, rows
<1>17. \A q \in Procs \ {p} : OwnTransfer(p, q)'
  <2>1. TAKE q \in Procs \ {p}
  <2>2. SUFFICES ASSUME req[q].pc \in Paying, req[q].offer = r.offer
                 PROVE  req[q].transfer # n
    BY <1>7, <1>9 DEF OwnTransfer
  <2>3. req[q].transfer \in 1..transfers[r.offer] /\ transfers[r.offer] \in Nat
    BY <1>3, <2>2 DEF IInv, Justified, TypeOK
  <2>. QED
    BY <1>4, <2>3
<1>. QED
  BY <1>8, <1>9, <1>10, <1>11, <1>13, <1>16, <1>17, StepKept DEF rows

LEMMA AcceptOfferStep ==
    ASSUME IInv, NEW p \in Procs, AcceptOffer(p)
    PROVE  IInv'
<1>1. req[p].pc = "accept"
  BY DEF AcceptOffer, Busy
<1>2. PICK r \in OfferRequest : r = req[p]
  BY <1>1, Serving DEF Pcs
<1>3. /\ TypeOK /\ Justified(p) /\ r.offer \in Offers /\ r.transfer \in Nat
      /\ "grant" \in Stages[r.op]
  BY <1>1, <1>2, Serving DEF Pcs
<1>4. /\ status' = [status EXCEPT ![r.offer] = "ACCEPTED"]
      /\ transferId' = [transferId EXCEPT ![r.offer] = r.transfer]
      /\ Goto(p, "grant")
      /\ UNCHANGED <<customer, loans, refundId, granted, notices, wallet, disturbed, money>>
  BY <1>2 DEF AcceptOffer
<1>5. /\ req' \in [Procs -> AnyRequest]
      /\ req'[p] = [r EXCEPT !.pc = "grant"]
      /\ \A q \in Procs \ {p} : req'[q] = req[q]
  BY <1>2, <1>3, <1>4, GotoType, GotoOthers
<1>6. TypeOK'
  BY <1>3, <1>4, <1>5 DEF TypeOK, CreditOfferStatus, AnyRequest, wallet, money
<1>7. Grows
  BY <1>3, <1>4 DEF Grows, TypeOK, money
<1>8. /\ charged[r.offer] /\ Terms[r.offer] \in loans
      /\ r.transfer \in 1..transfers[r.offer] /\ r.transfer \notin Range(granted[r.offer])
  BY <1>1, <1>2, <1>3 DEF Justified, Paying
<1>9. \A c \in Offers : Recorded(c)'
  <2>1. TAKE c \in Offers
  <2>2. Recorded(c)
    BY DEF IInv
  <2>3. CASE c = r.offer
    <3>1. /\ status'[c] = "ACCEPTED" /\ transferId'[c] \in 1..transfers'[c]
          /\ charged'[c] /\ Terms[c] \in loans'
      BY <1>3, <1>4, <1>8, <2>3 DEF TypeOK, money
    <3>. QED
      BY <1>4, <2>2, <3>1 DEF Recorded, money
  <2>4. CASE c # r.offer
    <3>1. status'[c] = status[c] /\ transferId'[c] = transferId[c]
      BY <1>3, <1>4, <2>4 DEF TypeOK
    <3>2. refunded'[c] \/ transfers'[c] > 0 => charged'[c]
      BY <1>4, <2>2 DEF Recorded, money
    <3>. QED
      BY <1>3, <1>4, <1>6, <1>7, <2>2, <3>1, <3>2, RecordedKept
  <2>. QED
    BY <2>3, <2>4
<1>10. r \in Fields
  BY RequestFields
<1>11. /\ req'[p].pc = "grant" /\ req'[p].offer = r.offer /\ req'[p].transfer = r.transfer
  BY <1>5, <1>10 DEF Fields
<1>12. Justified(p)'
  BY <1>4, <1>8, <1>11 DEF Justified, Paying, money
<1>13. \A q \in Procs \ {p} : OwnTransfer(p, q)'
  <2>1. TAKE q \in Procs \ {p}
  <2>2. OwnTransfer(p, q)
    BY DEF IInv
  <2>. QED
    BY <1>1, <1>2, <1>5, <1>11, <2>2 DEF OwnTransfer, Paying
<1>. QED
  BY <1>4, <1>5, <1>6, <1>7, <1>9, <1>12, <1>13, StepKept

(* Appending a number that is new to an injective sequence.                *)
LEMMA AppendNew ==
    ASSUME NEW s \in Seq(Nat), NEW n \in Nat, IsInjective(s), n \notin Range(s)
    PROVE  /\ Append(s, n) \in Seq(Nat) /\ Append(s, n) # <<>>
           /\ IsInjective(Append(s, n))
           /\ \A x : x \in Range(Append(s, n)) => x \in Range(s) \/ x = n
<1> DEFINE t == Append(s, n)
<1>1. /\ t \in Seq(Nat) /\ DOMAIN s = 1..Len(s) /\ Len(s) \in Nat
      /\ DOMAIN t = 1..(Len(s) + 1)
      /\ \A i \in 1..Len(s) : t[i] = s[i]
      /\ t[Len(s) + 1] = n
  OBVIOUS
<1>2. \A i \in DOMAIN t : i \in DOMAIN s \/ i = Len(s) + 1
  BY <1>1
<1>3. \A i \in DOMAIN s : s[i] # n
  BY DEF Range
<1>4. IsInjective(t)
  BY <1>1, <1>2, <1>3 DEF IsInjective
<1>5. \A x : x \in Range(t) => x \in Range(s) \/ x = n
  BY <1>1, <1>2 DEF Range
<1>6. t # <<>>
  BY <1>1
<1>. QED
  BY <1>1, <1>4, <1>5, <1>6

LEMMA AcceptGrantStep ==
    ASSUME IInv, NEW p \in Procs, AcceptGrant(p)
    PROVE  IInv'
<1>1. req[p].pc = "grant"
  BY DEF AcceptGrant, Busy
<1>2. PICK r \in OfferRequest : r = req[p]
  BY <1>1, Serving DEF Pcs
<1>3. PICK c \in Offers : c = r.offer
  BY <1>1, <1>2, Serving DEF Pcs
<1>4. PICK n \in Nat : n = r.transfer
  BY <1>1, <1>2, Serving DEF Pcs
<1>5. /\ TypeOK /\ Justified(p) /\ Recorded(c) /\ "tell" \in Stages[r.op] /\ r.op = "accept"
  BY <1>1, <1>2, <1>3, Serving DEF Pcs
<1>6. /\ granted' = [granted EXCEPT ![c] = Append(granted[c], n)]
      /\ Goto(p, "tell")
      /\ UNCHANGED <<customer, loans, status, refundId, transferId, notices, wallet, disturbed, money>>
  BY <1>2, <1>3, <1>4 DEF AcceptGrant
<1>7. /\ req' \in [Procs -> AnyRequest]
      /\ req'[p] = [r EXCEPT !.pc = "tell"]
      /\ \A q \in Procs \ {p} : req'[q] = req[q]
  BY <1>2, <1>5, <1>6, GotoType, GotoOthers
<1>8. charged[c] /\ Terms[c] \in loans /\ n \in 1..transfers[c] /\ n \notin Range(granted[c])
  BY <1>1, <1>2, <1>3, <1>4, <1>5 DEF Justified, Paying
<1>9. granted[c] \in Seq(Nat) /\ IsInjective(granted[c]) /\ Range(granted[c]) \subseteq 1..transfers[c]
  BY <1>5 DEF TypeOK, Recorded
<1>10. /\ granted'[c] \in Seq(Nat) /\ granted'[c] # <<>> /\ IsInjective(granted'[c])
       /\ \A x : x \in Range(granted'[c]) => x \in Range(granted[c]) \/ x = n
  BY <1>5, <1>6, <1>8, <1>9, AppendNew DEF TypeOK
<1>11. \A d \in Offers \ {c} : granted'[d] = granted[d]
  BY <1>5, <1>6 DEF TypeOK
<1>12. granted' \in [Offers -> Seq(Nat)]
  BY <1>5, <1>6, <1>8, <1>9, AppendNew DEF TypeOK
<1>13. TypeOK'
  BY <1>5, <1>6, <1>7, <1>12 DEF TypeOK, AnyRequest, wallet, money
<1>14. Grows
  BY <1>5, <1>6 DEF Grows, TypeOK, money
<1>15. \A d \in Offers : Recorded(d)'
  <2>1. TAKE d \in Offers
  <2>2. Recorded(d)
    BY DEF IInv
  <2>3. CASE d = c
    <3>1. Range(granted'[c]) \subseteq 1..transfers'[c]
      BY <1>6, <1>8, <1>9, <1>10 DEF money
    <3>. QED
      BY <1>6, <1>8, <1>10, <2>2, <2>3, <3>1 DEF Recorded, money
  <2>4. CASE d # c
    <3>1. refunded'[d] \/ transfers'[d] > 0 => charged'[d]
      BY <1>6, <2>2 DEF Recorded, money
    <3>. QED
      BY <1>5, <1>6, <1>11, <1>13, <1>14, <2>2, <2>4, <3>1, RecordedKept
  <2>. QED
    BY <2>3, <2>4
<1>16. r \in Fields
  BY RequestFields
<1>17. req'[p].pc = "tell" /\ req'[p].offer = c /\ req'[p].op = "accept"
  BY <1>3, <1>5, <1>7, <1>16 DEF Fields
<1>18. Justified(p)'
  BY <1>6, <1>8, <1>10, <1>17 DEF Justified, Paying
<1>19. \A q \in Procs \ {p} : Justified(q)'
  <2>1. TAKE q \in Procs \ {p}
  <2>2. Justified(q) /\ OwnTransfer(p, q) /\ req'[q] = req[q]
    BY <1>7 DEF IInv
  <2>3. CASE req[q].pc \in Pcs => granted'[req[q].offer] = granted[req[q].offer]
    BY <1>5, <1>13, <1>14, <2>2, <2>3, JustifiedKept
  <2>4. CASE req[q].pc \in Pcs /\ granted'[req[q].offer] # granted[req[q].offer]
    <3>1. PICK s \in OfferRequest : s = req[q]
      BY <2>4, Serving
    <3>2. s.offer = c
      BY <1>11, <2>4, <3>1, RequestFields DEF Fields
    <3>3. s.pc \in Paying => s.transfer \in 1..transfers'[c] /\ s.transfer \notin Range(granted'[c])
      BY <1>1, <1>2, <1>3, <1>4, <1>6, <1>10, <2>2, <3>1, <3>2 DEF Justified, OwnTransfer, Paying, money
    <3>. QED
      BY <1>6, <1>8, <1>10, <2>2, <3>1, <3>2, <3>3 DEF Justified, money
  <2>. QED
    BY <2>3, <2>4
<1>20. \A q, s \in Procs : q # s => OwnTransfer(q, s)'
  <2>1. SUFFICES ASSUME NEW q \in Procs, NEW s \in Procs, q # s
                 PROVE  OwnTransfer(q, s)'
    OBVIOUS
  <2>2. OwnTransfer(q, s)
    BY <2>1 DEF IInv
  <2>3. CASE q = p \/ s = p
    BY <1>17, <2>3 DEF OwnTransfer, Paying
  <2>4. CASE q # p /\ s # p
    BY <1>7, <2>2, <2>4 DEF OwnTransfer
  <2>. QED
    BY <2>3, <2>4
<1>. QED
  BY <1>13, <1>15, <1>18, <1>19, <1>20 DEF IInv

LEMMA TellStep ==
    ASSUME IInv, NEW p \in Procs, Tell(p)
    PROVE  IInv'
<1>1. req[p].pc = "tell"
  BY DEF Tell, Busy
<1>2. PICK r \in OfferRequest : r = req[p]
  BY <1>1, Serving DEF Pcs
<1>3. /\ TypeOK /\ Justified(p) /\ r.offer \in Offers /\ r.op \in {"create", "reject", "accept"}
  BY <1>1, <1>2, Serving DEF Pcs
<1>4. /\ notices' = [notices EXCEPT ![r.offer] = notices[r.offer] \cup {NoticeOf[r.op]}]
      /\ Reply(p)
      /\ UNCHANGED <<customer, loans, status, refundId, transferId, granted, wallet, disturbed, money>>
  BY <1>2 DEF Tell
<1>5. req' \in [Procs -> AnyRequest] /\ req'[p] = Idle
  BY <1>3, <1>4, ReplyType
<1>6. \A q \in Procs \ {p} : req'[q] = req[q]
  BY <1>3, <1>4 DEF Reply, TypeOK
<1>7. NoticeOf[r.op] \in Range(NoticeOf)
  BY <1>3 DEF NoticeOf, Range
<1>8. TypeOK'
  BY <1>3, <1>4, <1>5, <1>7 DEF TypeOK, AnyRequest, wallet, money
<1>9. Grows
  BY <1>3, <1>4 DEF Grows, TypeOK, money
<1>10. /\ NoticeOf[r.op] = "CREDIT_OFFER_ACCEPTED" => r.op = "accept"
       /\ NoticeOf[r.op] = "CREDIT_OFFER_REJECTED" => r.op = "reject"
  BY <1>3 DEF NoticeOf
<1>11. \A c \in Offers : Recorded(c)'
  <2>1. TAKE c \in Offers
  <2>2. Recorded(c)
    BY DEF IInv
  <2>3. CASE c = r.offer
    <3>1. /\ "CREDIT_OFFER_ACCEPTED" \in notices'[c] => granted[c] # <<>> /\ Terms[c] \in loans
          /\ "CREDIT_OFFER_REJECTED" \in notices'[c] => refunded[c]
      BY <1>1, <1>2, <1>3, <1>4, <1>10, <2>2, <2>3 DEF Recorded, Justified, TypeOK
    <3>. QED
      BY <1>4, <2>2, <3>1 DEF Recorded, money
  <2>4. CASE c # r.offer
    <3>1. notices'[c] = notices[c]
      BY <1>3, <1>4, <2>4 DEF TypeOK
    <3>2. refunded'[c] \/ transfers'[c] > 0 => charged'[c]
      BY <1>4, <2>2 DEF Recorded, money
    <3>. QED
      BY <1>3, <1>4, <1>8, <1>9, <2>2, <3>1, <3>2, RecordedKept
  <2>. QED
    BY <2>3, <2>4
<1>12. Justified(p)' /\ \A q \in Procs \ {p} : OwnTransfer(p, q)'
  BY <1>5, IdleJustified DEF OwnTransfer
<1>. QED
  BY <1>4, <1>6, <1>8, <1>9, <1>11, <1>12, StepKept

-----------------------------------------------------------------------------
(* The theorems.                                                           *)

LEMMA InitIInv == Init => IInv
<1> SUFFICES ASSUME Init PROVE IInv
  OBVIOUS
<1>1. \A c \in Offers : granted[c] = <<>> /\ IsInjective(granted[c]) /\ Range(granted[c]) = {}
  <2>1. TAKE c \in Offers
  <2>2. granted[c] = <<>> /\ DOMAIN granted[c] = {}
    BY DEF Init
  <2>. QED
    BY <2>2 DEF IsInjective, Range
<1>2. TypeOK
  BY DEF Init, TypeOK, CreditOfferStatus
<1>3. \A c \in Offers : Recorded(c)
  BY <1>1 DEF Init, Recorded
<1>4. \A p \in Procs : req[p].pc = "idle"
  BY DEF Init, Idle
<1>. QED
  BY <1>2, <1>3, <1>4 DEF IInv, Justified, OwnTransfer, Paying

LEMMA StepIInv ==
    ASSUME IInv, NEW p \in Procs, Step(p)
    PROVE  IInv'
<1>1. CASE CreateDeclined(p)
  BY <1>1, ReplyStep DEF CreateDeclined
<1>2. CASE Refused(p)
  BY <1>2, ReplyStep DEF Refused
<1>. QED
  BY <1>1, <1>2, SetupCustomerStep, SetupSaveStep, SetupIntentStep, CreateChargeStep,
     CreateFindLoanStep, CreateInsertStep, RefundStep, CloseStep, AcceptTransferStep,
     AcceptOfferStep, AcceptGrantStep, TellStep DEF Step

LEMMA ReceiveIInv ==
    ASSUME IInv, NEW p \in Procs, NEW c \in Offers, Receive(p, c)
    PROVE  IInv'
<1>1. CASE CreateReceive(p, c)
  BY <1>1, CreateReceiveStep
<1>2. ASSUME NEW op \in {"cancel", "reject"}, AnswerReceive(p, c, op, "refund")
      PROVE  IInv'
  <2>1. op \in Ops /\ "refund" \in Stages[op]
    BY DEF Ops, Stages
  <2>. QED
    BY <1>2, <2>1, AnswerReceiveStep
<1>3. CASE AcceptReceive(p, c)
  <2>1. "accept" \in Ops /\ "transfer" \in Stages["accept"]
    BY DEF Ops, Stages
  <2>. QED
    BY <1>3, <2>1, AnswerReceiveStep DEF AcceptReceive
<1>. QED
  BY <1>1, <1>2, <1>3 DEF Receive

(* No step loses the evidence for a row or for a request in flight.        *)
LEMMA NextIInv == IInv /\ [Next]_vars => IInv'
<1> SUFFICES ASSUME IInv, [Next]_vars PROVE IInv'
  OBVIOUS
<1>1. CASE UNCHANGED vars
  BY <1>1 DEF vars, rows, wallet, money, IInv, TypeOK, Recorded, Justified, OwnTransfer
<1>2. ASSUME NEW l \in Lenders, ConfirmCard(l) \/ \E p \in Procs : SetupReceive(p, l)
      PROVE  IInv'
  BY <1>2, ConfirmCardStep, SetupReceiveStep
<1>3. ASSUME NEW p \in Procs, NEW c \in Offers, Receive(p, c)
      PROVE  IInv'
  BY <1>3, ReceiveIInv
<1>4. ASSUME NEW p \in Procs, Step(p)
      PROVE  IInv'
  BY <1>4, StepIInv
<1>5. ASSUME NEW p \in Procs, Abort(p)
      PROVE  IInv'
  BY <1>5, AbortStep
<1>. QED
  BY <1>1, <1>2, <1>3, <1>4, <1>5 DEF Next

(* The evidence behind every row of an offer and every request in flight   *)
(* is an invariant, whatever overlaps or dies.                             *)
THEOREM Invariance == Spec => []IInv
BY InitIInv, NextIInv, PTL DEF Spec

(* The rows, Stripe's records and the requests keep their shape.           *)
THEOREM TypeCorrect == Spec => []TypeOK
<1>1. IInv => TypeOK
  BY DEF IInv
<1>. QED
  BY <1>1, Invariance, PTL

(* A cancelled or rejected offer was refunded, an accepted one transferred *)
THEOREM Answers == Spec => []AnswersAreSettled
<1>1. IInv => AnswersAreSettled
  BY DEF IInv, AnswersAreSettled, Recorded
<1>. QED
  BY <1>1, Invariance, PTL

(* The loan counts each transfer at most once and nothing else.            *)
THEOREM Backing == Spec => []CreditIsBacked
<1>1. IInv => CreditIsBacked
  BY DEF IInv, CreditIsBacked, Recorded
<1>. QED
  BY <1>1, Invariance, PTL

(* Only money the lender was charged is refunded or transferred.           *)
THEOREM Charges == Spec => []MoneyComesFromCharge
<1>1. IInv => MoneyComesFromCharge
  BY DEF IInv, MoneyComesFromCharge, Recorded
<1>. QED
  BY <1>1, Invariance, PTL

(* Lenders are told of acceptances and rejections that happened.           *)
THEOREM Notices == Spec => []NoticesAreTrue
<1>1. IInv => NoticesAreTrue
  BY DEF IInv, NoticesAreTrue, Recorded
<1>. QED
  BY <1>1, Invariance, PTL

-----------------------------------------------------------------------------
(* One request at a time, and nothing fails.                               *)
Serial == Faults = FALSE /\ \A p, q \in Procs : p = q

(* What the books say of an offer: where its money is, and its row.        *)
Open(c) == ~refunded[c] /\ transfers[c] = 0 /\ granted[c] = <<>>
Fresh(c) == status[c] = "NONE" /\ Open(c)
Pending(c) == status[c] = "PENDING" /\ charged[c] /\ Open(c)
Returned(c) == charged[c] /\ refunded[c] /\ transfers[c] = 0 /\ granted[c] = <<>>
Sent(c) == charged[c] /\ ~refunded[c] /\ transfers[c] = 1 /\ granted[c] = <<>>
Lent(c) ==
    /\ status[c] = "ACCEPTED"
    /\ charged[c] /\ ~refunded[c] /\ transfers[c] = 1 /\ Len(granted[c]) = 1

Settled(c) ==
    \/ Fresh(c) /\ ~charged[c]
    \/ Pending(c)
    \/ Returned(c) /\ status[c] \in {"CANCELLED", "REJECTED"}
    \/ Lent(c)

(* The offer a request works on is where the request has brought it.       *)
Worked(p) ==
    LET r == req[p]
        c == r.offer
    IN  /\ r.pc = "charge" => Fresh(c) /\ ~charged[c]
        /\ r.pc \in {"find", "insert"} => Fresh(c) /\ charged[c]
        /\ r.pc = "insert" => (r.found <=> Terms[c] \in loans)
        /\ r.pc \in {"refund", "transfer"} => Pending(c)
        /\ r.pc = "close" => Returned(c)
        /\ r.pc \in Paying => Sent(c)
        /\ r.pc = "grant" => status[c] = "ACCEPTED"

Working == {"charge", "find", "insert", "refund", "transfer", "close", "accept", "grant"}
Works(p, c) == req[p].pc \in Working /\ req[p].offer = c

(* Every offer that no request works on is settled.                        *)
SInv ==
    /\ IInv
    /\ \A p \in Procs : Worked(p)
    /\ \A c \in Offers : (\A p \in Procs : ~Works(p, c)) => Settled(c)

-----------------------------------------------------------------------------
LEMMA OfferSteps ==
    ASSUME Serial, SInv, NEW p \in Procs, NEW c \in Offers,
           IInv',
           \* the only request works on c afterwards, or c is settled
           Worked(p)',
           ~Works(p, c)' => Settled(c)',
           Works(p, c)' \/ ~(req'[p].pc \in Working),
           \* the books of the other offers are left alone
           \A d \in Offers \ {c} :
               /\ ~Works(p, d)
               /\ status'[d] = status[d] /\ charged'[d] = charged[d]
               /\ refunded'[d] = refunded[d] /\ transfers'[d] = transfers[d]
               /\ granted'[d] = granted[d]
    PROVE  SInv'
<1>1. Procs = {p}
  BY DEF Serial
<1>2. \A q \in Procs : Worked(q)'
  BY <1>1
<1>3. ASSUME NEW d \in Offers, \A q \in Procs : ~Works(q, d)'
      PROVE  Settled(d)'
  <2>1. CASE d = c
    BY <1>1, <1>3, <2>1
  <2>2. CASE d # c
    <3>1. Settled(d)
      BY <1>1, <2>2 DEF SInv
    <3>. QED
      BY <2>2, <3>1 DEF Settled, Fresh, Open, Pending, Returned, Lent
  <2>. QED
    BY <2>1, <2>2
<1>. QED
  BY <1>2, <1>3 DEF SInv

(* A step that works on no offer before or after and changes no books.     *)
LEMMA AsideStep ==
    ASSUME Serial, SInv, IInv', NEW p \in Procs,
           req[p].pc \notin Working, req'[p].pc \notin Working,
           UNCHANGED <<status, charged, refunded, transfers, granted>>
    PROVE  SInv'
<1>1. Procs = {p}
  BY DEF Serial
<1>2. Worked(p)'
  BY DEF Worked, Working, Paying
<1>3. \A c \in Offers : Settled(c)
  BY <1>1 DEF SInv, Works
<1>4. \A c \in Offers : Settled(c)'
  BY <1>3 DEF Settled, Fresh, Open, Pending, Returned, Lent
<1>. QED
  BY <1>1, <1>2, <1>4 DEF SInv

(* A request that gives up leaves its offer as it found it.                *)
LEMMA GiveUpStep ==
    ASSUME Serial, SInv, IInv', NEW p \in Procs, Reply(p),
           req[p].pc \in {"charge", "refund", "transfer"},
           UNCHANGED <<rows, wallet, disturbed, money>>
    PROVE  SInv'
<1>1. Procs = {p}
  BY DEF Serial
<1>2. TypeOK
  BY DEF SInv, IInv
<1>3. req'[p] = Idle
  BY <1>2 DEF Reply, TypeOK
<1>4. Worked(p)' /\ \A c \in Offers : ~Works(p, c)'
  BY <1>3 DEF Worked, Works, Working, Idle, Paying
<1>5. \A c \in Offers : Settled(c)
  <2>1. TAKE c \in Offers
  <2>2. CASE Works(p, c)
    BY <2>2 DEF SInv, Worked, Works, Settled
  <2>3. CASE ~Works(p, c)
    BY <1>1, <2>3 DEF SInv
  <2>. QED
    BY <2>2, <2>3
<1>6. \A c \in Offers : Settled(c)'
  BY <1>5 DEF Settled, Fresh, Open, Pending, Returned, Lent, rows, money
<1>. QED
  BY <1>1, <1>4, <1>6 DEF SInv

LEMMA SetupSerial ==
    ASSUME Serial, SInv, IInv', NEW p \in Procs,
           SetupCustomer(p) \/ SetupSave(p) \/ SetupIntent(p) \/ \E l \in Lenders : SetupReceive(p, l)
    PROVE  SInv'
<1>1. TypeOK
  BY DEF SInv, IInv
<1>2. req[p].pc \notin Working
  BY DEF SetupCustomer, SetupSave, SetupIntent, SetupReceive, Busy, Working
<1>3. UNCHANGED <<status, charged, refunded, transfers, granted>>
  BY DEF SetupCustomer, SetupSave, SetupIntent, SetupReceive, rows, money
<1>4. CASE SetupCustomer(p)
  <2>1. PICK r \in SetupRequest : r = req[p]
    BY <1>1, <1>4, BusySetup DEF SetupCustomer, Busy, Setups
  <2>2. req'[p] = [r EXCEPT !.pc = "save", !.customer = customers[r.lender] + 1]
    BY <1>1, <1>4, <2>1 DEF SetupCustomer, TypeOK
  <2>3. req'[p].pc = "save"
    BY <2>2 DEF SetupRequest
  <2>. QED
    BY <1>2, <1>3, <2>3, AsideStep DEF Working
<1>5. CASE SetupSave(p)
  <2>1. PICK r \in SetupRequest : r = req[p]
    BY <1>1, <1>5, BusySetup DEF SetupSave, Busy, Setups
  <2>2. req'[p] = [r EXCEPT !.pc = "intent"]
    BY <1>1, <1>5, <2>1 DEF SetupSave, Goto, TypeOK
  <2>3. req'[p].pc = "intent"
    BY <2>2 DEF SetupRequest
  <2>. QED
    BY <1>2, <1>3, <2>3, AsideStep DEF Working
<1>6. CASE SetupIntent(p)
  <2>1. req'[p].pc = "idle"
    BY <1>1, <1>6 DEF SetupIntent, Reply, TypeOK, Idle
  <2>. QED
    BY <1>2, <1>3, <2>1, AsideStep DEF Working
<1>7. CASE \E l \in Lenders : SetupReceive(p, l)
  <2>1. req'[p].pc \in {"customer", "intent"}
    BY <1>1, <1>7 DEF SetupReceive, TypeOK
  <2>. QED
    BY <1>2, <1>3, <2>1, AsideStep DEF Working
<1>. QED
  BY <1>4, <1>5, <1>6, <1>7

LEMMA TellSerial ==
    ASSUME Serial, SInv, IInv', NEW p \in Procs, Tell(p)
    PROVE  SInv'
<1>1. TypeOK
  BY DEF SInv, IInv
<1>2. req[p].pc \notin Working /\ req'[p].pc \notin Working
  BY <1>1 DEF Tell, Busy, Reply, TypeOK, Idle, Working
<1>. QED
  BY <1>2, AsideStep DEF Tell, money

(* An offer that no slot works on when a request for it begins.            *)
LEMMA BeginSerial ==
    ASSUME Serial, SInv, IInv', NEW p \in Procs, NEW c \in Offers,
           NEW op \in Ops, NEW pc \in Stages[op], pc \in {"charge", "refund", "transfer"},
           Busy(p, "idle"), Begin(p, pc, op, c), UNCHANGED <<rows, wallet, money>>,
           pc = "charge" => status[c] = "NONE",
           pc # "charge" => status[c] = "PENDING"
    PROVE  SInv'
<1>1. TypeOK
  BY DEF SInv, IInv
<1>2. Procs = {p}
  BY DEF Serial
<1>3. req'[p].pc = pc /\ req'[p].offer = c
  BY <1>1, BeginType
<1>4. \A d \in Offers : ~Works(p, d)
  BY DEF Busy, Works, Working
<1>5. Settled(c)
  BY <1>2, <1>4 DEF SInv
<1>6. IF pc = "charge" THEN Fresh(c) /\ ~charged[c] ELSE Pending(c)
  BY <1>5 DEF Settled, Fresh, Pending, Returned, Lent
<1>7. Worked(p)'
  BY <1>3, <1>6 DEF Worked, Paying, Fresh, Pending, Open, rows, money
<1>8. Works(p, c)'
  BY <1>3 DEF Works, Working
<1>. QED
  BY <1>4, <1>7, <1>8, OfferSteps DEF rows, money

LEMMA CreateReceiveSerial ==
    ASSUME Serial, SInv, IInv', NEW p \in Procs, NEW c \in Offers, CreateReceive(p, c)
    PROVE  SInv'
<1>1. "create" \in Ops /\ "charge" \in Stages["create"]
  BY DEF Ops, Stages
<1>. QED
  BY <1>1, BeginSerial DEF CreateReceive

LEMMA AnswerReceiveSerial ==
    ASSUME Serial, SInv, IInv', NEW p \in Procs, NEW c \in Offers,
           NEW op \in Ops, NEW pc \in Stages[op], pc \in {"refund", "transfer"},
           AnswerReceive(p, c, op, pc)
    PROVE  SInv'
BY BeginSerial DEF AnswerReceive

(* The request behind a working step, and the offer it works on.           *)
LEMMA Worker ==
    ASSUME Serial, SInv, NEW p \in Procs, req[p].pc \in Working
    PROVE  /\ IInv /\ TypeOK /\ Worked(p)
           /\ req[p] \in OfferRequest /\ req[p] \in Fields
           /\ req[p].offer \in Offers
           /\ \A d \in Offers \ {req[p].offer} : ~Works(p, d)
<1>1. IInv /\ TypeOK /\ Worked(p)
  BY DEF SInv, IInv
<1>2. req[p].pc \in Pcs
  BY DEF Working, Pcs
<1>3. req[p] \in OfferRequest /\ req[p] \in Fields
  BY <1>1, <1>2, BusyIsRequest
<1>4. req[p].offer \in Offers
  BY <1>3 DEF Fields
<1>. QED
  BY <1>1, <1>3, <1>4 DEF Works

LEMMA CreateChargeSerial ==
    ASSUME Serial, SInv, IInv', NEW p \in Procs, CreateCharge(p)
    PROVE  SInv'
<1>1. req[p].pc = "charge"
  BY DEF CreateCharge, Busy
<1>2. PICK r \in Fields : r = req[p]
  BY <1>1, Worker DEF Working
<1>3. PICK c \in Offers : c = r.offer
  BY <1>2 DEF Fields
<1>4. TypeOK /\ Worked(p) /\ \A d \in Offers \ {c} : ~Works(p, d)
  BY <1>1, <1>2, <1>3, Worker DEF Working
<1>5. /\ charged' = [charged EXCEPT ![c] = TRUE]
      /\ req'[p] = [r EXCEPT !.pc = "find"]
      /\ UNCHANGED <<rows, wallet, disturbed, refunded, transfers>>
  BY <1>2, <1>3, <1>4 DEF CreateCharge, Goto, TypeOK
<1>6. req'[p].pc = "find" /\ req'[p].offer = c
  BY <1>3, <1>5 DEF Fields
<1>7. Fresh(c)' /\ charged'[c]
  BY <1>1, <1>2, <1>3, <1>4, <1>5 DEF Worked, Fresh, Open, TypeOK, rows
<1>8. Worked(p)' /\ Works(p, c)'
  BY <1>6, <1>7 DEF Worked, Works, Working, Paying
<1>9. \A d \in Offers \ {c} : charged'[d] = charged[d]
  BY <1>4, <1>5 DEF TypeOK
<1>. QED
  BY <1>4, <1>5, <1>8, <1>9, OfferSteps DEF rows

LEMMA CreateFindLoanSerial ==
    ASSUME Serial, SInv, IInv', NEW p \in Procs, CreateFindLoan(p)
    PROVE  SInv'
<1>1. req[p].pc = "find"
  BY DEF CreateFindLoan, Busy
<1>2. PICK r \in Fields : r = req[p]
  BY <1>1, Worker DEF Working
<1>3. PICK c \in Offers : c = r.offer
  BY <1>2 DEF Fields
<1>4. TypeOK /\ Worked(p) /\ \A d \in Offers \ {c} : ~Works(p, d)
  BY <1>1, <1>2, <1>3, Worker DEF Working
<1>5. /\ req'[p] = [r EXCEPT !.pc = "insert", !.found = Terms[c] \in loans]
      /\ UNCHANGED <<rows, wallet, disturbed, money>>
  BY <1>2, <1>3, <1>4 DEF CreateFindLoan, TypeOK
<1>6. req'[p].pc = "insert" /\ req'[p].offer = c /\ (req'[p].found <=> Terms[c] \in loans)
  BY <1>3, <1>5 DEF Fields
<1>7. Fresh(c)' /\ charged'[c]
  BY <1>1, <1>2, <1>3, <1>4, <1>5 DEF Worked, Fresh, Open, rows, money
<1>8. Worked(p)' /\ Works(p, c)'
  BY <1>5, <1>6, <1>7 DEF Worked, Works, Working, Paying, rows
<1>. QED
  BY <1>4, <1>5, <1>8, OfferSteps DEF rows, money

LEMMA CreateInsertSerial ==
    ASSUME Serial, SInv, IInv', NEW p \in Procs, CreateInsert(p)
    PROVE  SInv'
<1>1. req[p].pc = "insert"
  BY DEF CreateInsert, Busy
<1>2. PICK r \in Fields : r = req[p]
  BY <1>1, Worker DEF Working
<1>3. PICK c \in Offers : c = r.offer
  BY <1>2 DEF Fields
<1>4. TypeOK /\ Worked(p) /\ \A d \in Offers \ {c} : ~Works(p, d)
  BY <1>1, <1>2, <1>3, Worker DEF Working
<1>5. r.found <=> Terms[c] \in loans
  BY <1>1, <1>2, <1>3, <1>4 DEF Worked
<1>6. /\ status' = [status EXCEPT ![c] = "PENDING"]
      /\ req'[p] = [r EXCEPT !.pc = "tell"]
      /\ UNCHANGED <<customer, refundId, transferId, granted, notices, wallet, disturbed, money>>
  BY <1>2, <1>3, <1>4, <1>5 DEF CreateInsert, Goto, TypeOK
<1>7. req'[p].pc = "tell"
  BY <1>6 DEF Fields
<1>8. Settled(c)'
  BY <1>1, <1>2, <1>3, <1>4, <1>6 DEF Worked, Fresh, Open, Settled, Pending, TypeOK, money
<1>9. Worked(p)' /\ req'[p].pc \notin Working
  BY <1>7 DEF Worked, Working, Paying
<1>10. \A d \in Offers \ {c} : status'[d] = status[d]
  BY <1>4, <1>6 DEF TypeOK
<1>. QED
  BY <1>4, <1>6, <1>8, <1>9, <1>10, OfferSteps DEF money

LEMMA RefundSerial ==
    ASSUME Serial, SInv, IInv', NEW p \in Procs, Refund(p)
    PROVE  SInv'
<1>1. req[p].pc = "refund"
  BY DEF Refund, Busy
<1>2. PICK r \in Fields : r = req[p]
  BY <1>1, Worker DEF Working
<1>3. PICK c \in Offers : c = r.offer
  BY <1>2 DEF Fields
<1>4. TypeOK /\ Worked(p) /\ \A d \in Offers \ {c} : ~Works(p, d)
  BY <1>1, <1>2, <1>3, Worker DEF Working
<1>5. Pending(c)
  BY <1>1, <1>2, <1>3, <1>4 DEF Worked
<1>6. /\ refunded' = [refunded EXCEPT ![c] = TRUE]
      /\ req'[p] = [r EXCEPT !.pc = "close"]
      /\ UNCHANGED <<rows, wallet, disturbed, charged, transfers>>
  BY <1>2, <1>3, <1>4, <1>5 DEF Refund, Goto, TypeOK, Pending, Open
<1>7. req'[p].pc = "close" /\ req'[p].offer = c
  BY <1>3, <1>6 DEF Fields
<1>8. Returned(c)'
  BY <1>4, <1>5, <1>6 DEF Returned, Pending, Open, TypeOK, rows
<1>9. Worked(p)' /\ Works(p, c)'
  BY <1>7, <1>8 DEF Worked, Works, Working, Paying
<1>10. \A d \in Offers \ {c} : refunded'[d] = refunded[d]
  BY <1>4, <1>6 DEF TypeOK
<1>. QED
  BY <1>4, <1>6, <1>9, <1>10, OfferSteps DEF rows

LEMMA CloseSerial ==
    ASSUME Serial, SInv, IInv', NEW p \in Procs, Close(p)
    PROVE  SInv'
<1>1. req[p].pc = "close"
  BY DEF Close, Busy
<1>2. PICK r \in OfferRequest : r = req[p]
  BY <1>1, Worker DEF Working
<1>3. r \in Fields /\ r.op \in {"cancel", "reject"}
  BY <1>1, <1>2, RequestFields, StageOf
<1>4. PICK c \in Offers : c = r.offer
  BY <1>3 DEF Fields
<1>5. TypeOK /\ Worked(p) /\ \A d \in Offers \ {c} : ~Works(p, d)
  BY <1>1, <1>2, <1>4, Worker DEF Working
<1>6. /\ status' = [status EXCEPT ![c] = Closed[r.op]]
      /\ UNCHANGED <<customer, loans, transferId, granted, notices, wallet, disturbed, money>>
      /\ Goto(p, "tell") \/ Reply(p)
  BY <1>2, <1>4 DEF Close
<1>7. Closed[r.op] \in {"CANCELLED", "REJECTED"}
  BY <1>3 DEF Closed
<1>8. req'[p].pc \in {"tell", "idle"}
  BY <1>2, <1>3, <1>5, <1>6 DEF Goto, Reply, Idle, TypeOK, Fields
<1>9. Settled(c)'
  BY <1>1, <1>2, <1>4, <1>5, <1>6, <1>7 DEF Worked, Returned, Settled, TypeOK, money
<1>10. Worked(p)' /\ req'[p].pc \notin Working
  BY <1>8 DEF Worked, Working, Paying
<1>11. \A d \in Offers \ {c} : status'[d] = status[d]
  BY <1>5, <1>6 DEF TypeOK
<1>. QED
  BY <1>5, <1>6, <1>9, <1>10, <1>11, OfferSteps DEF money

LEMMA AcceptTransferSerial ==
    ASSUME Serial, SInv, IInv', NEW p \in Procs, AcceptTransfer(p)
    PROVE  SInv'
<1>1. req[p].pc = "transfer"
  BY DEF AcceptTransfer, Busy
<1>2. PICK r \in Fields : r = req[p]
  BY <1>1, Worker DEF Working
<1>3. PICK c \in Offers : c = r.offer
  BY <1>2 DEF Fields
<1>4. TypeOK /\ Worked(p) /\ \A d \in Offers \ {c} : ~Works(p, d)
  BY <1>1, <1>2, <1>3, Worker DEF Working
<1>5. Pending(c)
  BY <1>1, <1>2, <1>3, <1>4 DEF Worked
<1>6. /\ transfers' = [transfers EXCEPT ![c] = 1]
      /\ req'[p] = [r EXCEPT !.pc = "accept", !.transfer = 1]
      /\ UNCHANGED <<rows, wallet, disturbed, charged, refunded>>
  BY <1>2, <1>3, <1>4, <1>5 DEF AcceptTransfer, TypeOK, Pending, Open
<1>7. req'[p].pc = "accept" /\ req'[p].offer = c
  BY <1>3, <1>6 DEF Fields
<1>8. Sent(c)'
  BY <1>4, <1>5, <1>6 DEF Sent, Pending, Open, TypeOK, rows
<1>9. Worked(p)' /\ Works(p, c)'
  BY <1>7, <1>8 DEF Worked, Works, Working, Paying
<1>10. \A d \in Offers \ {c} : transfers'[d] = transfers[d]
  BY <1>4, <1>6 DEF TypeOK
<1>. QED
  BY <1>4, <1>6, <1>9, <1>10, OfferSteps DEF rows

LEMMA AcceptOfferSerial ==
    ASSUME Serial, SInv, IInv', NEW p \in Procs, AcceptOffer(p)
    PROVE  SInv'
<1>1. req[p].pc = "accept"
  BY DEF AcceptOffer, Busy
<1>2. PICK r \in Fields : r = req[p]
  BY <1>1, Worker DEF Working
<1>3. PICK c \in Offers : c = r.offer
  BY <1>2 DEF Fields
<1>4. TypeOK /\ Worked(p) /\ \A d \in Offers \ {c} : ~Works(p, d)
  BY <1>1, <1>2, <1>3, Worker DEF Working
<1>5. /\ status' = [status EXCEPT ![c] = "ACCEPTED"]
      /\ req'[p] = [r EXCEPT !.pc = "grant"]
      /\ UNCHANGED <<customer, loans, refundId, granted, notices, wallet, disturbed, money>>
  BY <1>2, <1>3, <1>4 DEF AcceptOffer, Goto, TypeOK
<1>6. req'[p].pc = "grant" /\ req'[p].offer = c
  BY <1>3, <1>5 DEF Fields
<1>7. Sent(c)' /\ status'[c] = "ACCEPTED"
  BY <1>1, <1>2, <1>3, <1>4, <1>5 DEF Worked, Paying, Sent, TypeOK, money
<1>8. Worked(p)' /\ Works(p, c)'
  BY <1>6, <1>7 DEF Worked, Works, Working, Paying
<1>9. \A d \in Offers \ {c} : status'[d] = status[d]
  BY <1>4, <1>5 DEF TypeOK
<1>. QED
  BY <1>4, <1>5, <1>8, <1>9, OfferSteps DEF money

LEMMA AcceptGrantSerial ==
    ASSUME Serial, SInv, IInv', NEW p \in Procs, AcceptGrant(p)
    PROVE  SInv'
<1>1. req[p].pc = "grant"
  BY DEF AcceptGrant, Busy
<1>2. PICK r \in Fields : r = req[p]
  BY <1>1, Worker DEF Working
<1>3. PICK c \in Offers : c = r.offer
  BY <1>2 DEF Fields
<1>4. TypeOK /\ Worked(p) /\ \A d \in Offers \ {c} : ~Works(p, d)
  BY <1>1, <1>2, <1>3, Worker DEF Working
<1>5. /\ granted' = [granted EXCEPT ![c] = Append(granted[c], r.transfer)]
      /\ req'[p] = [r EXCEPT !.pc = "tell"]
      /\ UNCHANGED <<customer, loans, status, refundId, transferId, notices, wallet, disturbed, money>>
  BY <1>2, <1>3, <1>4 DEF AcceptGrant, Goto, TypeOK
<1>6. req'[p].pc = "tell"
  BY <1>5 DEF Fields
<1>7. Sent(c) /\ status[c] = "ACCEPTED"
  BY <1>1, <1>2, <1>3, <1>4 DEF Worked, Paying
<1>8. granted'[c] = Append(granted[c], r.transfer) /\ granted[c] \in Seq(Nat) /\ r.transfer \in Nat
  BY <1>4, <1>5 DEF TypeOK, Fields
<1>9. Len(granted'[c]) = 1
  BY <1>7, <1>8 DEF Sent
<1>10. Settled(c)'
  BY <1>5, <1>7, <1>9 DEF Sent, Settled, Lent, money
<1>11. Worked(p)' /\ req'[p].pc \notin Working
  BY <1>6 DEF Worked, Working, Paying
<1>12. \A d \in Offers \ {c} : granted'[d] = granted[d]
  BY <1>4, <1>5 DEF TypeOK
<1>. QED
  BY <1>4, <1>5, <1>10, <1>11, <1>12, OfferSteps DEF money

-----------------------------------------------------------------------------
LEMMA InitSInv == Init => SInv
<1> SUFFICES ASSUME Init PROVE SInv
  OBVIOUS
<1>1. IInv
  BY InitIInv
<1>2. \A p \in Procs : req[p].pc = "idle"
  BY DEF Init, Idle
<1>3. \A p \in Procs : Worked(p)
  BY <1>2 DEF Worked, Paying
<1>4. \A c \in Offers : Settled(c)
  BY DEF Init, Settled, Fresh, Open
<1>. QED
  BY <1>1, <1>3, <1>4 DEF SInv

LEMMA StepSInv ==
    ASSUME Serial, SInv, IInv', NEW p \in Procs, Step(p)
    PROVE  SInv'
<1>1. CASE CreateDeclined(p)
  BY <1>1, GiveUpStep DEF CreateDeclined, Busy
<1>2. CASE Refused(p)
  BY <1>2 DEF Refused, Serial
<1>. QED
  BY <1>1, <1>2, SetupSerial, CreateChargeSerial, CreateFindLoanSerial, CreateInsertSerial,
     RefundSerial, CloseSerial, AcceptTransferSerial, AcceptOfferSerial, AcceptGrantSerial,
     TellSerial DEF Step

LEMMA ReceiveSInv ==
    ASSUME Serial, SInv, IInv', NEW p \in Procs, NEW c \in Offers, Receive(p, c)
    PROVE  SInv'
<1>1. CASE CreateReceive(p, c)
  BY <1>1, CreateReceiveSerial
<1>2. ASSUME NEW op \in {"cancel", "reject"}, AnswerReceive(p, c, op, "refund")
      PROVE  SInv'
  <2>1. op \in Ops /\ "refund" \in Stages[op]
    BY DEF Ops, Stages
  <2>. QED
    BY <1>2, <2>1, AnswerReceiveSerial
<1>3. CASE AcceptReceive(p, c)
  <2>1. "accept" \in Ops /\ "transfer" \in Stages["accept"]
    BY DEF Ops, Stages
  <2>. QED
    BY <1>3, <2>1, AnswerReceiveSerial DEF AcceptReceive
<1>. QED
  BY <1>1, <1>2, <1>3 DEF Receive

LEMMA NextSInv ==
    ASSUME Serial
    PROVE  SInv /\ [Next]_vars => SInv'
<1> SUFFICES ASSUME SInv, [Next]_vars PROVE SInv'
  OBVIOUS
<1>1. IInv'
  BY NextIInv DEF SInv
<1>2. CASE UNCHANGED vars
  BY <1>1, <1>2 DEF vars, rows, wallet, money, SInv, Worked, Works, Settled, Fresh, Open,
     Pending, Returned, Sent, Lent
<1>3. ASSUME NEW l \in Lenders, ConfirmCard(l)
      PROVE  SInv'
  BY <1>1, <1>3 DEF ConfirmCard, rows, money, SInv, Worked, Works, Settled, Fresh, Open,
     Pending, Returned, Sent, Lent
<1>4. ASSUME NEW l \in Lenders, NEW p \in Procs, SetupReceive(p, l)
      PROVE  SInv'
  BY <1>1, <1>4, SetupSerial
<1>5. ASSUME NEW p \in Procs, NEW c \in Offers, Receive(p, c)
      PROVE  SInv'
  BY <1>1, <1>5, ReceiveSInv
<1>6. ASSUME NEW p \in Procs, Step(p)
      PROVE  SInv'
  BY <1>1, <1>6, StepSInv
<1>7. ASSUME NEW p \in Procs, Abort(p)
      PROVE  SInv'
  BY <1>7 DEF Abort, Serial
<1>. QED
  BY <1>2, <1>3, <1>4, <1>5, <1>6, <1>7 DEF Next

(* One request at a time, every offer is where its one request is.         *)
THEOREM SerialInvariance ==
    ASSUME Serial
    PROVE  Spec => []SInv
BY InitSInv, NextSInv, PTL DEF Spec

(* Between requests Stripe, the offers and the loans tell the same story.  *)
THEOREM Books ==
    ASSUME Serial
    PROVE  Spec => []BooksAgree
<1>1. SInv => BooksAgree
  <2>1. SUFFICES ASSUME SInv, Quiet, NEW c \in Offers
                 PROVE  /\ charged[c] <=> status[c] # "NONE"
                        /\ refunded[c] <=> status[c] \in {"CANCELLED", "REJECTED"}
                        /\ status[c] = "ACCEPTED" <=> Len(granted[c]) = 1
                        /\ status[c] # "NONE" => Terms[c] \in loans
    BY DEF BooksAgree
  <2>2. Settled(c)
    BY <2>1 DEF SInv, Quiet, Busy, Works, Working
  <2>3. Recorded(c)
    BY <2>1 DEF SInv, IInv
  <2>4. granted[c] = <<>> => Len(granted[c]) = 0
    OBVIOUS
  <2>5. status[c] # "NONE" => Terms[c] \in loans
    BY <2>3 DEF Recorded
  <2>6. CASE Fresh(c) /\ ~charged[c]
    BY <2>4, <2>5, <2>6 DEF Fresh, Open
  <2>7. CASE Pending(c)
    BY <2>4, <2>5, <2>7 DEF Pending, Open
  <2>8. CASE Returned(c) /\ status[c] \in {"CANCELLED", "REJECTED"}
    BY <2>4, <2>5, <2>8 DEF Returned
  <2>9. CASE Lent(c)
    BY <2>5, <2>9 DEF Lent
  <2>. QED
    BY <2>2, <2>6, <2>7, <2>8, <2>9 DEF Settled
<1>. QED
  BY <1>1, SerialInvariance, PTL


-----------------------------------------------------------------------------
(* The refinement.                                                         *)

places == [c \in Offers |-> Place(c)]
counts == [c \in Offers |-> Len(granted[c])]

LEMMA InitMaps == Init => Promise!Init
<1> SUFFICES ASSUME Init PROVE Promise!Init
  OBVIOUS
<1>1. \A c \in Offers : Place(c) = "card" /\ Len(granted[c]) = 0
  BY DEF Init, Place
<1>. QED
  BY <1>1 DEF Promise!Init

LEMMA Stutters ==
    ASSUME UNCHANGED <<money, granted>>
    PROVE  UNCHANGED Promise!vars
<1>1. \A c \in Offers : Place(c)' = Place(c) /\ Len(granted'[c]) = Len(granted[c])
  BY DEF money, Place
<1>. QED
  BY <1>1 DEF Promise!vars, money

(* The money of one offer moves and no loan is raised.                     *)
LEMMA Moves ==
    ASSUME NEW c \in Offers, NEW from, NEW to,
           Place(c) = from, Place(c)' = to,
           \A d \in Offers \ {c} : Place(d)' = Place(d),
           UNCHANGED granted
    PROVE  Promise!Move(c, from, to)
<1>1. places' = [places EXCEPT ![c] = to]
  BY DEF places
<1>2. places[c] = from
  BY DEF places
<1>. QED
  BY <1>1, <1>2 DEF Promise!Move, places

LEMMA ChargeMaps ==
    ASSUME Serial, SInv, NEW p \in Procs, CreateCharge(p)
    PROVE  Promise!Next
<1>1. req[p].pc = "charge"
  BY DEF CreateCharge, Busy
<1>2. PICK c \in Offers : c = req[p].offer
  BY <1>1, Worker DEF Working
<1>3. TypeOK /\ Fresh(c) /\ ~charged[c]
  BY <1>1, <1>2, Worker DEF Working, Worked
<1>4. charged' = [charged EXCEPT ![c] = TRUE] /\ UNCHANGED <<refunded, transfers, granted>>
  BY <1>2 DEF CreateCharge, rows
<1>5. Place(c) = "card"
  BY <1>3 DEF Place, Fresh, Open
<1>6. Place(c)' = "platform"
  BY <1>3, <1>4 DEF Place, Fresh, Open, TypeOK
<1>7. \A d \in Offers \ {c} : Place(d)' = Place(d)
  BY <1>3, <1>4 DEF Place, TypeOK
<1>8. Promise!Move(c, "card", "platform")
  BY <1>4, <1>5, <1>6, <1>7, Moves
<1>. QED
  BY <1>8 DEF Promise!Next, Promise!Charge

LEMMA RefundMaps ==
    ASSUME Serial, SInv, NEW p \in Procs, Refund(p)
    PROVE  Promise!Next
<1>1. req[p].pc = "refund"
  BY DEF Refund, Busy
<1>2. PICK c \in Offers : c = req[p].offer
  BY <1>1, Worker DEF Working
<1>3. TypeOK /\ Pending(c)
  BY <1>1, <1>2, Worker DEF Working, Worked
<1>4. refunded' = [refunded EXCEPT ![c] = TRUE] /\ UNCHANGED <<charged, transfers, granted>>
  BY <1>2, <1>3 DEF Refund, Pending, Open, rows
<1>5. Place(c) = "platform"
  BY <1>3 DEF Place, Pending, Open
<1>6. Place(c)' = "returned"
  BY <1>3, <1>4 DEF Place, TypeOK
<1>7. \A d \in Offers \ {c} : Place(d)' = Place(d)
  BY <1>3, <1>4 DEF Place, TypeOK
<1>8. Promise!Move(c, "platform", "returned")
  BY <1>4, <1>5, <1>6, <1>7, Moves
<1>. QED
  BY <1>8 DEF Promise!Next, Promise!Return

LEMMA TransferMaps ==
    ASSUME Serial, SInv, NEW p \in Procs, AcceptTransfer(p)
    PROVE  Promise!Next
<1>1. req[p].pc = "transfer"
  BY DEF AcceptTransfer, Busy
<1>2. PICK c \in Offers : c = req[p].offer
  BY <1>1, Worker DEF Working
<1>3. TypeOK /\ Pending(c)
  BY <1>1, <1>2, Worker DEF Working, Worked
<1>4. transfers' = [transfers EXCEPT ![c] = 1] /\ UNCHANGED <<charged, refunded, granted>>
  BY <1>2, <1>3 DEF AcceptTransfer, Pending, Open, rows, TypeOK
<1>5. Place(c) = "platform"
  BY <1>3 DEF Place, Pending, Open
<1>6. Place(c)' = "farmer"
  BY <1>3, <1>4 DEF Place, Pending, Open, TypeOK
<1>7. \A d \in Offers \ {c} : Place(d)' = Place(d)
  BY <1>3, <1>4 DEF Place, TypeOK
<1>8. Promise!Move(c, "platform", "farmer")
  BY <1>4, <1>5, <1>6, <1>7, Moves
<1>. QED
  BY <1>8 DEF Promise!Next, Promise!Transfer

LEMMA GrantMaps ==
    ASSUME Serial, SInv, NEW p \in Procs, AcceptGrant(p)
    PROVE  Promise!Next
<1>1. req[p].pc = "grant"
  BY DEF AcceptGrant, Busy
<1>2. PICK r \in Fields : r = req[p]
  BY <1>1, Worker DEF Working
<1>3. PICK c \in Offers : c = r.offer
  BY <1>2 DEF Fields
<1>4. TypeOK /\ Sent(c)
  BY <1>1, <1>2, <1>3, Worker DEF Working, Worked, Paying
<1>5. /\ granted' = [granted EXCEPT ![c] = Append(granted[c], r.transfer)]
      /\ UNCHANGED <<charged, refunded, transfers>>
  BY <1>2, <1>3 DEF AcceptGrant, money
<1>6. Place(c) = "farmer" /\ Len(granted[c]) = 0
  BY <1>4 DEF Place, Sent
<1>7. granted'[c] = Append(granted[c], r.transfer) /\ granted[c] \in Seq(Nat) /\ r.transfer \in Nat
  BY <1>4, <1>5 DEF TypeOK, Fields
<1>8. Len(granted'[c]) = 1
  BY <1>6, <1>7
<1>9. \A d \in Offers \ {c} : granted'[d] = granted[d]
  BY <1>4, <1>5 DEF TypeOK
<1>10. counts' = [counts EXCEPT ![c] = 1]
  BY <1>8, <1>9 DEF counts
<1>11. counts[c] = 0 /\ places[c] = "farmer"
  BY <1>6 DEF counts, places
<1>12. places' = places
  BY <1>5 DEF places, Place
<1>13. Promise!Lend(c)
  BY <1>10, <1>11, <1>12 DEF Promise!Lend, counts, places
<1>. QED
  BY <1>13 DEF Promise!Next

(* Every step of the handlers is a step of the promise or none.            *)
LEMMA NextMaps ==
    ASSUME Serial
    PROVE  SInv /\ [Next]_vars => [Promise!Next]_(Promise!vars)
<1> SUFFICES ASSUME SInv, [Next]_vars PROVE Promise!Next \/ UNCHANGED Promise!vars
  OBVIOUS
<1>1. CASE UNCHANGED <<money, granted>>
  BY <1>1, Stutters
<1>2. ASSUME NEW p \in Procs, NEW c \in Offers, Receive(p, c)
      PROVE  UNCHANGED <<money, granted>>
  BY <1>2 DEF Receive, CreateReceive, AnswerReceive, AcceptReceive, rows
<1>3. ASSUME NEW p \in Procs, Step(p), ~Promise!Next
      PROVE  UNCHANGED <<money, granted>>
  <2>1. ~CreateCharge(p) /\ ~Refund(p) /\ ~AcceptTransfer(p) /\ ~AcceptGrant(p)
    BY <1>3, ChargeMaps, RefundMaps, TransferMaps, GrantMaps
  <2>. QED
    BY <1>3, <2>1 DEF Step, SetupCustomer, SetupSave, SetupIntent, CreateDeclined, CreateFindLoan,
       CreateInsert, Close, AcceptOffer, Refused, Tell, rows, money
<1>4. ASSUME NEW p \in Procs, Abort(p)
      PROVE  UNCHANGED <<money, granted>>
  BY <1>4 DEF Abort, rows
<1>5. ASSUME NEW l \in Lenders, ConfirmCard(l) \/ \E p \in Procs : SetupReceive(p, l)
      PROVE  UNCHANGED <<money, granted>>
  BY <1>5 DEF ConfirmCard, SetupReceive, rows
<1>6. CASE UNCHANGED vars
  BY <1>1, <1>6 DEF vars, rows
<1>. QED
  BY <1>1, <1>2, <1>3, <1>4, <1>5, <1>6 DEF Next

(* One request at a time, the handlers of credit offers implement          *)
(* CreditPromise, for any offers, lenders and farmers.                     *)
THEOREM Implements ==
    ASSUME Serial
    PROVE  Spec => KeepsOfferPromise
<1>1. SInv /\ [Next]_vars => [Promise!Next]_(Promise!vars)
  BY NextMaps
<1>. QED
  BY <1>1, InitMaps, SerialInvariance, PTL DEF Spec, KeepsOfferPromise, Promise!Spec

-----------------------------------------------------------------------------
(* The lender's card, as long as requests do not overlap: they may still   *)
(* die midway and leave a Stripe customer that no row names.               *)

OneSlot == \A p, q \in Procs : p = q

(* Stripe confirms cards of the one customer that the row names.           *)
Wallet(l) ==
    /\ intents[l] \subseteq {customer[l]} /\ cards[l] \subseteq intents[l]
    /\ customer[l] = 0 => intents[l] = {}

(* A setup that creates a customer found none, and none appeared since.    *)
Opening(p) ==
    /\ req[p].pc \in {"customer", "save"} => customer[req[p].lender] = 0
    /\ req[p].pc = "save" => req[p].customer # 0
    /\ req[p].pc = "intent" =>
          req[p].customer = customer[req[p].lender] /\ customer[req[p].lender] # 0

WInv ==
    /\ \A l \in Lenders : Wallet(l)
    /\ \A p \in Procs : Opening(p)

LEMMA SetupReceiveWallet ==
    ASSUME OneSlot, TypeOK, WInv, NEW p \in Procs, NEW l \in Lenders, SetupReceive(p, l)
    PROVE  WInv'
<1>1. Procs = {p} /\ UNCHANGED <<customer, intents, cards>>
  BY DEF OneSlot, SetupReceive, rows, wallet
<1>2. req'[p] = [pc |-> IF customer[l] = 0 THEN "customer" ELSE "intent",
                 lender |-> l, customer |-> customer[l]]
  BY DEF SetupReceive, TypeOK
<1>3. Opening(p)'
  BY <1>1, <1>2 DEF Opening
<1>. QED
  BY <1>1, <1>3 DEF WInv, Wallet

LEMMA SetupWallet ==
    ASSUME OneSlot, TypeOK, WInv, NEW p \in Procs,
           SetupCustomer(p) \/ SetupSave(p) \/ SetupIntent(p)
    PROVE  WInv'
<1>1. PICK r \in SetupRequest : r = req[p]
  BY BusySetup DEF SetupCustomer, SetupSave, SetupIntent, Busy, Setups
<1>2. PICK l \in Lenders : l = r.lender
  BY <1>1 DEF SetupRequest
<1>3. Opening(p) /\ Procs = {p} /\ Wallet(l)
  BY DEF WInv, OneSlot
<1>4. CASE SetupCustomer(p)
  <2>1. PICK n \in Nat : n = customers[l] + 1 /\ n # 0
    BY DEF TypeOK
  <2>2. req'[p] = [r EXCEPT !.pc = "save", !.customer = n] /\ UNCHANGED <<customer, intents, cards>>
    BY <1>1, <1>2, <1>4, <2>1 DEF SetupCustomer, TypeOK, rows
  <2>3. req'[p].pc = "save" /\ req'[p].lender = l /\ req'[p].customer = n
    BY <1>1, <1>2, <2>2 DEF SetupRequest
  <2>4. customer[l] = 0
    BY <1>1, <1>2, <1>3, <1>4 DEF Opening, SetupCustomer, Busy
  <2>5. Opening(p)'
    BY <2>1, <2>2, <2>3, <2>4 DEF Opening
  <2>. QED
    BY <1>3, <2>2, <2>5 DEF WInv, Wallet
<1>5. CASE SetupSave(p)
  <2>1. customer[l] = 0 /\ r.customer # 0
    BY <1>1, <1>2, <1>3, <1>5 DEF Opening, SetupSave, Busy
  <2>2. /\ customer' = [customer EXCEPT ![l] = r.customer] /\ UNCHANGED <<intents, cards>>
        /\ req'[p] = [r EXCEPT !.pc = "intent"]
    BY <1>1, <1>2, <1>5 DEF SetupSave, Goto, wallet, TypeOK
  <2>3. req'[p].pc = "intent" /\ req'[p].lender = l /\ req'[p].customer = r.customer
    BY <1>1, <1>2, <2>2 DEF SetupRequest
  <2>4. customer'[l] = r.customer /\ \A k \in Lenders \ {l} : customer'[k] = customer[k]
    BY <2>2 DEF TypeOK
  <2>5. Opening(p)'
    BY <2>1, <2>3, <2>4 DEF Opening
  <2>6. Wallet(l)'
    BY <1>3, <2>1, <2>2, <2>4 DEF Wallet
  <2>. QED
    BY <1>3, <2>2, <2>4, <2>5, <2>6 DEF WInv, Wallet
<1>6. CASE SetupIntent(p)
  <2>1. r.customer = customer[l] /\ customer[l] # 0
    BY <1>1, <1>2, <1>3, <1>6 DEF Opening, SetupIntent, Busy
  <2>2. /\ intents' = [intents EXCEPT ![l] = intents[l] \cup {r.customer}]
        /\ UNCHANGED <<customer, cards>> /\ req'[p] = Idle
    BY <1>1, <1>2, <1>6 DEF SetupIntent, Reply, rows, TypeOK
  <2>3. intents'[l] = intents[l] \cup {r.customer} /\ \A k \in Lenders \ {l} : intents'[k] = intents[k]
    BY <2>2 DEF TypeOK
  <2>4. Opening(p)'
    BY <2>2 DEF Opening, Idle
  <2>5. Wallet(l)'
    BY <1>3, <2>1, <2>2, <2>3 DEF Wallet
  <2>. QED
    BY <1>3, <2>2, <2>3, <2>4, <2>5 DEF WInv, Wallet
<1>. QED
  BY <1>4, <1>5, <1>6

LEMMA ConfirmCardWallet ==
    ASSUME TypeOK, WInv, NEW l \in Lenders, ConfirmCard(l)
    PROVE  WInv'
<1>1. PICK n \in intents[l] : cards' = [cards EXCEPT ![l] = cards[l] \cup {n}]
  BY DEF ConfirmCard
<1>2. \A k \in Lenders : cards'[k] \subseteq cards[k] \cup intents[k]
  BY <1>1 DEF TypeOK
<1>3. UNCHANGED <<customer, intents, req>>
  BY DEF ConfirmCard, rows
<1>. QED
  BY <1>2, <1>3 DEF WInv, Wallet, Opening

(* The requests about offers leave the wallet alone.                       *)
LEMMA OfferWallet ==
    ASSUME OneSlot, WInv, NEW p \in Procs, UNCHANGED <<customer, intents, cards>>,
           req'[p].pc \notin Setups
    PROVE  WInv'
<1>1. Procs = {p}
  BY DEF OneSlot
<1>2. Opening(p)'
  BY DEF Opening, Setups
<1>. QED
  BY <1>1, <1>2 DEF WInv, Wallet

LEMMA OfferPc ==
    ASSUME TypeOK, NEW p \in Procs, req[p].pc \in Pcs,
           NEW pc \in Pcs, NEW b, NEW n,
           \/ Goto(p, pc) \/ Reply(p)
           \/ req' = [req EXCEPT ![p] = [req[p] EXCEPT !.pc = pc, !.found = b]]
           \/ req' = [req EXCEPT ![p] = [req[p] EXCEPT !.pc = pc, !.transfer = n]]
    PROVE  req'[p].pc \notin Setups
<1>1. PICK r \in Fields : r = req[p]
  BY BusyIsRequest
<1>2. CASE Reply(p)
  BY <1>2 DEF Reply, TypeOK, Idle, Setups
<1>3. CASE ~Reply(p)
  <2>1. \/ req'[p] = [r EXCEPT !.pc = pc]
        \/ req'[p] = [r EXCEPT !.pc = pc, !.found = b]
        \/ req'[p] = [r EXCEPT !.pc = pc, !.transfer = n]
    BY <1>1, <1>3 DEF Goto, TypeOK
  <2>2. req'[p].pc = pc
    BY <2>1 DEF Fields
  <2>. QED
    BY <2>2 DEF Pcs, Setups
<1>. QED
  BY <1>2, <1>3

LEMMA StepWallet ==
    ASSUME OneSlot, TypeOK, WInv, NEW p \in Procs, Step(p) \/ Abort(p)
    PROVE  WInv'
<1>1. CASE SetupCustomer(p) \/ SetupSave(p) \/ SetupIntent(p)
  BY <1>1, SetupWallet
<1>2. CASE Reply(p) /\ UNCHANGED <<customer, intents, cards>>
  <2>1. req'[p].pc \notin Setups
    BY <1>2 DEF Reply, TypeOK, Idle, Setups
  <2>. QED
    BY <1>2, <2>1, OfferWallet
<1>3. CASE CreateDeclined(p) \/ Refused(p) \/ Tell(p) \/ Abort(p)
  BY <1>2, <1>3 DEF CreateDeclined, Refused, Tell, Abort, rows, wallet
<1>4. CASE \/ CreateCharge(p) \/ CreateFindLoan(p) \/ CreateInsert(p) \/ Refund(p) \/ Close(p)
           \/ AcceptTransfer(p) \/ AcceptOffer(p) \/ AcceptGrant(p)
  <2>1. req[p].pc \in Pcs /\ UNCHANGED <<customer, intents, cards>>
    BY <1>4 DEF CreateCharge, CreateFindLoan, CreateInsert, Refund, Close, AcceptTransfer,
       AcceptOffer, AcceptGrant, Busy, Pcs, rows, wallet
  <2>2. \/ \E pc \in Pcs : Goto(p, pc)
        \/ Reply(p)
        \/ \E pc \in Pcs : \E b :
              req' = [req EXCEPT ![p] = [req[p] EXCEPT !.pc = pc, !.found = b]]
        \/ \E pc \in Pcs : \E n :
              req' = [req EXCEPT ![p] = [req[p] EXCEPT !.pc = pc, !.transfer = n]]
    <3>1. {"find", "insert", "tell", "close", "accept", "grant"} \subseteq Pcs
      BY DEF Pcs
    <3>2. CASE CreateFindLoan(p)
      BY <3>1, <3>2 DEF CreateFindLoan
    <3>3. CASE AcceptTransfer(p)
      BY <3>1, <3>3 DEF AcceptTransfer
    <3>4. CASE \/ CreateCharge(p) \/ CreateInsert(p) \/ Refund(p) \/ Close(p)
               \/ AcceptOffer(p) \/ AcceptGrant(p)
      BY <3>1, <3>4 DEF CreateCharge, CreateInsert, Refund, Close, AcceptOffer, AcceptGrant
    <3>. QED
      BY <1>4, <3>2, <3>3, <3>4
  <2>3. "find" \in Pcs
    BY DEF Pcs
  <2>4. req'[p].pc \notin Setups
    BY <2>1, <2>2, <2>3, OfferPc
  <2>. QED
    BY <2>1, <2>4, OfferWallet
<1>. QED
  BY <1>1, <1>3, <1>4 DEF Step

LEMMA ReceiveWallet ==
    ASSUME OneSlot, TypeOK, WInv, NEW p \in Procs, NEW c \in Offers, Receive(p, c)
    PROVE  WInv'
<1>1. \E pc \in {"charge", "refund", "transfer"}, op \in Ops : Begin(p, pc, op, c)
  BY DEF Receive, CreateReceive, AnswerReceive, AcceptReceive, Ops
<1>2. req'[p].pc \notin Setups
  BY <1>1 DEF Begin, TypeOK, Setups
<1>3. UNCHANGED <<customer, intents, cards>>
  BY DEF Receive, CreateReceive, AnswerReceive, AcceptReceive, rows, wallet
<1>. QED
  BY <1>2, <1>3, OfferWallet

LEMMA NextWallet ==
    ASSUME OneSlot
    PROVE  TypeOK /\ WInv /\ [Next]_vars => WInv'
<1> SUFFICES ASSUME TypeOK, WInv, [Next]_vars PROVE WInv'
  OBVIOUS
<1>1. CASE UNCHANGED vars
  BY <1>1 DEF WInv, Wallet, Opening, vars, rows, wallet
<1>2. CASE \E l \in Lenders : ConfirmCard(l) \/ \E p \in Procs : SetupReceive(p, l)
  BY <1>2, ConfirmCardWallet, SetupReceiveWallet
<1>3. CASE \E p \in Procs, c \in Offers : Receive(p, c)
  BY <1>3, ReceiveWallet
<1>4. CASE \E p \in Procs : Step(p) \/ Abort(p)
  BY <1>4, StepWallet
<1>. QED
  BY <1>1, <1>2, <1>3, <1>4 DEF Next

LEMMA InitWallet == Init => WInv
BY DEF Init, WInv, Wallet, Opening, Idle

(* One request at a time, a saved card belongs to the customer the user    *)
(* row names: what two overlapping setups break, dying ones do not.        *)
THEOREM Cards ==
    ASSUME OneSlot
    PROVE  Spec => []CardIsFound
<1>1. TypeOK /\ WInv /\ [Next]_vars => WInv'
  BY NextWallet
<1>2. Spec => []WInv
  BY <1>1, InitWallet, TypeCorrect, PTL DEF Spec
<1>3. WInv => CardIsFound
  BY DEF WInv, Wallet, CardIsFound
<1>. QED
  BY <1>2, <1>3, PTL

-----------------------------------------------------------------------------
(* Offers that were not disturbed, whatever overlaps or dies on others.    *)

(* The books of an offer that no request works on.                         *)
Calm(c) ==
    \/ Open(c) /\ status[c] \in {"NONE", "PENDING"}
    \/ /\ status[c] \in {"CANCELLED", "REJECTED"}
       /\ refunded[c] /\ transfers[c] = 0 /\ granted[c] = <<>>
    \/ status[c] = "ACCEPTED" /\ ~refunded[c] /\ transfers[c] = 1 /\ Len(granted[c]) = 1

(* The books of an offer that p alone works on.                            *)
Stand(p, c) ==
    /\ req[p].pc \in {"charge", "find", "insert"} => status[c] = "NONE" /\ Open(c)
    /\ req[p].pc \in {"refund", "transfer"} => status[c] = "PENDING" /\ Open(c)
    /\ req[p].pc = "close" => refunded[c] /\ transfers[c] = 0 /\ granted[c] = <<>>
    /\ req[p].pc \in Paying => ~refunded[c] /\ transfers[c] = 1 /\ granted[c] = <<>>
    /\ req[p].pc = "grant" => status[c] = "ACCEPTED"

UInv ==
    \A c \in Offers \ disturbed :
        /\ \A p, q \in Procs : Works(p, c) /\ Works(q, c) => p = q
        /\ \A p \in Procs : Works(p, c) => Stand(p, c)
        /\ (\A p \in Procs : ~Works(p, c)) => Calm(c)

Kept(c) ==
    /\ status'[c] = status[c] /\ refunded'[c] = refunded[c]
    /\ transfers'[c] = transfers[c] /\ granted'[c] = granted[c]

(* A step of p about c: whoever else works on c has disturbed it.          *)
LEMMA UndisturbedStep ==
    ASSUME UInv, NEW p \in Procs, NEW c \in Offers,
           \A q \in Procs \ {p} : req'[q] = req[q],
           disturbed \subseteq disturbed',
           req[p].pc \in Working => req[p].offer = c,
           req'[p].pc \in Working => req'[p].offer = c,
           c \in disturbed' \/ req[p].pc \in Working \/ (\A q \in Procs : ~Works(q, c)),
           c \notin disturbed' /\ req'[p].pc \in Working => Stand(p, c)',
           c \notin disturbed' /\ req'[p].pc \notin Working => Calm(c)',
           \A d \in Offers \ {c} : Kept(d)
    PROVE  UInv'
<1> SUFFICES ASSUME NEW d \in Offers \ disturbed'
             PROVE  /\ \A q, s \in Procs : Works(q, d)' /\ Works(s, d)' => q = s
                    /\ \A q \in Procs : Works(q, d)' => Stand(q, d)'
                    /\ (\A q \in Procs : ~Works(q, d)') => Calm(d)'
  BY DEF UInv
<1>1. d \in Offers \ disturbed
  OBVIOUS
<1>2. /\ \A q, s \in Procs : Works(q, d) /\ Works(s, d) => q = s
      /\ \A q \in Procs : Works(q, d) => Stand(q, d)
      /\ (\A q \in Procs : ~Works(q, d)) => Calm(d)
  BY <1>1 DEF UInv
<1>3. \A q \in Procs \ {p} : Works(q, d)' <=> Works(q, d)
  BY DEF Works
<1>4. CASE d = c
  <2>1. \A q \in Procs \ {p} : ~Works(q, c)
    BY <1>2, <1>4 DEF Works
  <2>2. Works(p, c)' <=> req'[p].pc \in Working
    BY DEF Works
  <2>. QED
    BY <1>3, <1>4, <2>1, <2>2
<1>5. CASE d # c
  <2>1. ~Works(p, d) /\ ~Works(p, d)'
    BY <1>5 DEF Works
  <2>2. Kept(d)
    BY <1>5
  <2>3. Calm(d) => Calm(d)'
    BY <2>2 DEF Calm, Open, Kept
  <2>4. \A q \in Procs \ {p} : Stand(q, d) => Stand(q, d)'
    BY <2>2 DEF Stand, Open, Kept
  <2>. QED
    BY <1>2, <1>3, <2>1, <2>3, <2>4
<1>. QED
  BY <1>4, <1>5

(* A step of a request that decides nothing, before or after.              *)
LEMMA UndisturbedAside ==
    ASSUME UInv, NEW p \in Procs,
           \A q \in Procs \ {p} : req'[q] = req[q],
           req[p].pc \notin Working, req'[p].pc \notin Working,
           UNCHANGED <<status, refunded, transfers, granted, disturbed>>
    PROVE  UInv'
<1>1. \A q \in Procs, c \in Offers : Works(q, c)' <=> Works(q, c)
  BY DEF Works
<1>2. \A q \in Procs, c \in Offers : Works(q, c) /\ Stand(q, c) => Stand(q, c)'
  BY DEF Works, Stand, Open
<1>3. \A c \in Offers : Calm(c) => Calm(c)'
  BY DEF Calm, Open
<1>. QED
  BY <1>1, <1>2, <1>3 DEF UInv

(* The request behind a step, and where its offer stands.                  *)
LEMMA Decider ==
    ASSUME IInv, UInv, NEW p \in Procs, req[p].pc \in Working
    PROVE  /\ TypeOK /\ req[p] \in OfferRequest /\ req[p] \in Fields
           /\ req[p].offer \in Offers
           /\ req[p].offer \notin disturbed => Stand(p, req[p].offer)
<1>1. TypeOK
  BY DEF IInv
<1>2. req[p].pc \in Pcs
  BY DEF Working, Pcs
<1>3. req[p] \in OfferRequest /\ req[p] \in Fields
  BY <1>1, <1>2, BusyIsRequest
<1>4. req[p].offer \in Offers
  BY <1>3 DEF Fields
<1>5. Works(p, req[p].offer)
  BY DEF Works
<1>. QED
  BY <1>1, <1>3, <1>4, <1>5 DEF UInv

(* A request that gives up before it moved money.                          *)
LEMMA UndisturbedGiveUp ==
    ASSUME IInv, UInv, NEW p \in Procs, Reply(p),
           req[p].pc \in {"charge", "find", "insert", "refund", "transfer"},
           UNCHANGED <<status, refunded, transfers, granted, disturbed>>
    PROVE  UInv'
<1>1. PICK c \in Offers : c = req[p].offer
  BY Decider DEF Working
<1>2. TypeOK /\ (c \notin disturbed => Stand(p, c))
  BY <1>1, Decider DEF Working
<1>3. req'[p].pc = "idle" /\ \A q \in Procs \ {p} : req'[q] = req[q]
  BY <1>2 DEF Reply, TypeOK, Idle
<1>4. c \notin disturbed => Calm(c)'
  BY <1>2 DEF Stand, Calm, Open, Paying
<1>5. \A d \in Offers \ {c} : Kept(d)
  BY DEF Kept
<1>6. req[p].pc \in Working /\ req'[p].pc \notin Working
  BY <1>3 DEF Working
<1>. QED
  BY <1>1, <1>3, <1>4, <1>5, <1>6, UndisturbedStep

LEMMA SetupUndisturbed ==
    ASSUME TypeOK, UInv, NEW p \in Procs,
           SetupCustomer(p) \/ SetupSave(p) \/ SetupIntent(p) \/ \E l \in Lenders : SetupReceive(p, l)
    PROVE  UInv'
<1>1. req[p].pc \notin Working /\ \A q \in Procs \ {p} : req'[q] = req[q]
  BY DEF SetupCustomer, SetupSave, SetupIntent, SetupReceive, Busy, Working, Goto, Reply, TypeOK
<1>2. UNCHANGED <<status, refunded, transfers, granted, disturbed>>
  BY DEF SetupCustomer, SetupSave, SetupIntent, SetupReceive, rows, money
<1>3. req'[p].pc \notin Working
  <2>1. CASE SetupCustomer(p)
    <3>1. PICK r \in SetupRequest : r = req[p]
      BY <2>1, BusySetup DEF SetupCustomer, Busy, Setups
    <3>2. req'[p] = [r EXCEPT !.pc = "save", !.customer = customers[r.lender] + 1]
      BY <2>1, <3>1 DEF SetupCustomer, TypeOK
    <3>. QED
      BY <3>2 DEF SetupRequest, Working
  <2>2. CASE SetupSave(p)
    <3>1. PICK r \in SetupRequest : r = req[p]
      BY <2>2, BusySetup DEF SetupSave, Busy, Setups
    <3>2. req'[p] = [r EXCEPT !.pc = "intent"]
      BY <2>2, <3>1 DEF SetupSave, Goto, TypeOK
    <3>. QED
      BY <3>2 DEF SetupRequest, Working
  <2>3. CASE SetupIntent(p)
    BY <2>3 DEF SetupIntent, Reply, TypeOK, Idle, Working
  <2>4. CASE \E l \in Lenders : SetupReceive(p, l)
    <3>1. req'[p].pc \in {"customer", "intent"}
      BY <2>4 DEF SetupReceive, TypeOK
    <3>. QED
      BY <3>1 DEF Working
  <2>. QED
    BY <2>1, <2>2, <2>3, <2>4
<1>. QED
  BY <1>1, <1>2, <1>3, UndisturbedAside

(* A request about to begin: nobody works on the offer, or it is disturbed.*)
LEMMA BeginUndisturbed ==
    ASSUME TypeOK, UInv, NEW p \in Procs, NEW c \in Offers,
           NEW op \in Ops, NEW pc \in Stages[op], pc \in {"charge", "refund", "transfer"},
           Busy(p, "idle"), Begin(p, pc, op, c), UNCHANGED <<rows, wallet, money>>,
           disturbed \subseteq disturbed',
           c \in disturbed' \/ (\A q \in Procs : ~Works(q, c)),
           pc = "charge" => status[c] = "NONE",
           pc # "charge" => status[c] = "PENDING"
    PROVE  UInv'
<1>1. req'[p].pc = pc /\ req'[p].offer = c /\ \A q \in Procs \ {p} : req'[q] = req[q]
  BY BeginType DEF Begin, TypeOK
<1>2. c \notin disturbed' => Calm(c)
  BY DEF UInv
<1>3. c \notin disturbed' => Stand(p, c)'
  BY <1>1, <1>2 DEF Stand, Calm, Open, Paying, rows, money
<1>4. \A d \in Offers \ {c} : Kept(d)
  BY DEF Kept, rows, money
<1>5. req[p].pc \notin Working /\ req'[p].pc \in Working
  BY <1>1 DEF Busy, Working
<1>. QED
  BY <1>1, <1>3, <1>4, <1>5, UndisturbedStep

(* Before the charge nobody but a creation works on an offer.              *)
LEMMA CreateReceiveUndisturbed ==
    ASSUME IInv, UInv, NEW p \in Procs, NEW c \in Offers, CreateReceive(p, c)
    PROVE  UInv'
<1>1. "create" \in Ops /\ "charge" \in Stages["create"]
  BY DEF Ops, Stages
<1>2. \A q \in Procs : ~Works(q, c)
  BY DEF IInv, Justified, Works, Working, CreateReceive, Creating
<1>. QED
  BY <1>1, <1>2, BeginUndisturbed DEF CreateReceive, IInv

LEMMA AnswerReceiveUndisturbed ==
    ASSUME IInv, UInv, NEW p \in Procs, NEW c \in Offers,
           NEW op \in Ops, NEW pc \in Stages[op], pc \in {"refund", "transfer"},
           AnswerReceive(p, c, op, pc)
    PROVE  UInv'
<1>1. disturbed \subseteq disturbed'
  BY DEF AnswerReceive
<1>2. c \in disturbed' \/ \A q \in Procs : ~Works(q, c)
  BY DEF AnswerReceive, Deciding, Works, Working
<1>. QED
  BY <1>1, <1>2, BeginUndisturbed DEF AnswerReceive, IInv

LEMMA CreateChargeUndisturbed ==
    ASSUME IInv, UInv, NEW p \in Procs, CreateCharge(p)
    PROVE  UInv'
<1>1. req[p].pc = "charge" /\ req[p].pc \in Working
  BY DEF CreateCharge, Busy, Working
<1>2. PICK r \in Fields : r = req[p]
  BY <1>1, Decider
<1>3. PICK c \in Offers : c = r.offer
  BY <1>2 DEF Fields
<1>4. TypeOK /\ (c \notin disturbed => Stand(p, c))
  BY <1>1, <1>2, <1>3, Decider
<1>5. /\ req'[p] = [r EXCEPT !.pc = "find"] /\ \A q \in Procs \ {p} : req'[q] = req[q]
      /\ UNCHANGED <<rows, disturbed, refunded, transfers>>
  BY <1>2, <1>4, GotoOthers DEF CreateCharge
<1>6. req'[p].pc = "find" /\ req'[p].offer = c /\ req'[p].pc \in Working
  BY <1>3, <1>5 DEF Fields, Working
<1>7. c \notin disturbed => Stand(p, c)'
  BY <1>1, <1>4, <1>5, <1>6 DEF Stand, Open, Paying, rows
<1>8. \A d \in Offers \ {c} : Kept(d)
  BY <1>5 DEF Kept, rows
<1>. QED
  BY <1>1, <1>2, <1>3, <1>5, <1>6, <1>7, <1>8, UndisturbedStep

LEMMA CreateFindLoanUndisturbed ==
    ASSUME IInv, UInv, NEW p \in Procs, CreateFindLoan(p)
    PROVE  UInv'
<1>1. req[p].pc = "find" /\ req[p].pc \in Working
  BY DEF CreateFindLoan, Busy, Working
<1>2. PICK r \in Fields : r = req[p]
  BY <1>1, Decider
<1>3. PICK c \in Offers : c = r.offer
  BY <1>2 DEF Fields
<1>4. TypeOK /\ (c \notin disturbed => Stand(p, c))
  BY <1>1, <1>2, <1>3, Decider
<1>5. /\ req'[p] = [r EXCEPT !.pc = "insert", !.found = Terms[c] \in loans]
      /\ \A q \in Procs \ {p} : req'[q] = req[q]
      /\ UNCHANGED <<rows, disturbed, money>>
  BY <1>2, <1>3, <1>4 DEF CreateFindLoan, TypeOK
<1>6. req'[p].pc = "insert" /\ req'[p].offer = c /\ req'[p].pc \in Working
  BY <1>3, <1>5 DEF Fields, Working
<1>7. c \notin disturbed => Stand(p, c)'
  BY <1>1, <1>4, <1>5, <1>6 DEF Stand, Open, Paying, rows, money
<1>8. \A d \in Offers \ {c} : Kept(d)
  BY <1>5 DEF Kept, rows, money
<1>. QED
  BY <1>1, <1>2, <1>3, <1>5, <1>6, <1>7, <1>8, UndisturbedStep

LEMMA CreateInsertUndisturbed ==
    ASSUME IInv, UInv, NEW p \in Procs, CreateInsert(p)
    PROVE  UInv'
<1>1. req[p].pc = "insert" /\ req[p].pc \in Working
  BY DEF CreateInsert, Busy, Working
<1>2. PICK r \in Fields : r = req[p]
  BY <1>1, Decider
<1>3. PICK c \in Offers : c = r.offer
  BY <1>2 DEF Fields
<1>4. TypeOK /\ (c \notin disturbed => Stand(p, c))
  BY <1>1, <1>2, <1>3, Decider
<1>5. CASE ~r.found /\ Terms[c] \in loans
  <2>1. Reply(p) /\ UNCHANGED <<status, refunded, transfers, granted, disturbed>>
    BY <1>2, <1>3, <1>5 DEF CreateInsert, money
  <2>. QED
    BY <1>1, <2>1, UndisturbedGiveUp
<1>6. CASE ~(~r.found /\ Terms[c] \in loans)
  <2>1. /\ status' = [status EXCEPT ![c] = "PENDING"]
        /\ Goto(p, "tell") /\ UNCHANGED <<granted, disturbed, money>>
    BY <1>2, <1>3, <1>6 DEF CreateInsert
  <2>2. req'[p] = [r EXCEPT !.pc = "tell"] /\ \A q \in Procs \ {p} : req'[q] = req[q]
    BY <1>2, <1>4, <2>1, GotoOthers
  <2>3. req'[p].pc \notin Working
    BY <2>2 DEF Fields, Working
  <2>4. c \notin disturbed => Calm(c)'
    BY <1>1, <1>4, <2>1 DEF Stand, Calm, Open, TypeOK, money
  <2>5. \A d \in Offers \ {c} : Kept(d)
    BY <1>4, <2>1 DEF Kept, TypeOK, money
  <2>. QED
    BY <1>1, <1>2, <1>3, <2>1, <2>2, <2>3, <2>4, <2>5, UndisturbedStep
<1>. QED
  BY <1>5, <1>6

LEMMA RefundUndisturbed ==
    ASSUME IInv, UInv, NEW p \in Procs, Refund(p)
    PROVE  UInv'
<1>1. req[p].pc = "refund" /\ req[p].pc \in Working
  BY DEF Refund, Busy, Working
<1>2. PICK r \in Fields : r = req[p]
  BY <1>1, Decider
<1>3. PICK c \in Offers : c = r.offer
  BY <1>2 DEF Fields
<1>4. TypeOK /\ (c \notin disturbed => Stand(p, c))
  BY <1>1, <1>2, <1>3, Decider
<1>5. CASE refunded[c]
  <2>1. Reply(p) /\ UNCHANGED <<status, refunded, transfers, granted, disturbed>>
    BY <1>2, <1>3, <1>5 DEF Refund, rows
  <2>. QED
    BY <1>1, <2>1, UndisturbedGiveUp
<1>6. CASE ~refunded[c]
  <2>1. /\ refunded' = [refunded EXCEPT ![c] = TRUE]
        /\ Goto(p, "close") /\ UNCHANGED <<rows, disturbed, transfers>>
    BY <1>2, <1>3, <1>6 DEF Refund
  <2>2. req'[p] = [r EXCEPT !.pc = "close"] /\ \A q \in Procs \ {p} : req'[q] = req[q]
    BY <1>2, <1>4, <2>1, GotoOthers
  <2>3. req'[p].pc = "close" /\ req'[p].offer = c /\ req'[p].pc \in Working
    BY <1>3, <2>2 DEF Fields, Working
  <2>4. c \notin disturbed => Stand(p, c)'
    BY <1>1, <1>4, <2>1, <2>3 DEF Stand, Open, Paying, TypeOK, rows
  <2>5. \A d \in Offers \ {c} : Kept(d)
    BY <1>4, <2>1 DEF Kept, TypeOK, rows
  <2>. QED
    BY <1>1, <1>2, <1>3, <2>1, <2>2, <2>3, <2>4, <2>5, UndisturbedStep
<1>. QED
  BY <1>5, <1>6

LEMMA CloseUndisturbed ==
    ASSUME IInv, UInv, NEW p \in Procs, Close(p)
    PROVE  UInv'
<1>1. req[p].pc = "close" /\ req[p].pc \in Working
  BY DEF Close, Busy, Working
<1>2. PICK r \in OfferRequest : r = req[p]
  BY <1>1, Decider
<1>3. r \in Fields /\ r.op \in {"cancel", "reject"}
  BY <1>1, <1>2, RequestFields, StageOf
<1>4. PICK c \in Offers : c = r.offer
  BY <1>3 DEF Fields
<1>5. TypeOK /\ (c \notin disturbed => Stand(p, c))
  BY <1>1, <1>2, <1>4, Decider
<1>6. /\ status' = [status EXCEPT ![c] = Closed[r.op]]
      /\ UNCHANGED <<granted, disturbed, money>>
      /\ Goto(p, "tell") \/ Reply(p)
  BY <1>2, <1>4 DEF Close
<1>7. Closed[r.op] \in {"CANCELLED", "REJECTED"}
  BY <1>3 DEF Closed
<1>8. req'[p].pc \in {"tell", "idle"} /\ \A q \in Procs \ {p} : req'[q] = req[q]
  BY <1>2, <1>3, <1>5, <1>6 DEF Goto, Reply, Idle, TypeOK, Fields
<1>9. req'[p].pc \notin Working
  BY <1>8 DEF Working
<1>10. c \notin disturbed => Calm(c)'
  BY <1>1, <1>5, <1>6, <1>7 DEF Stand, Calm, TypeOK, money
<1>11. \A d \in Offers \ {c} : Kept(d)
  BY <1>5, <1>6 DEF Kept, TypeOK, money
<1>. QED
  BY <1>1, <1>2, <1>4, <1>6, <1>8, <1>9, <1>10, <1>11, UndisturbedStep

LEMMA AcceptTransferUndisturbed ==
    ASSUME IInv, UInv, NEW p \in Procs, AcceptTransfer(p)
    PROVE  UInv'
<1>1. req[p].pc = "transfer" /\ req[p].pc \in Working
  BY DEF AcceptTransfer, Busy, Working
<1>2. PICK r \in Fields : r = req[p]
  BY <1>1, Decider
<1>3. PICK c \in Offers : c = r.offer
  BY <1>2 DEF Fields
<1>4. TypeOK /\ (c \notin disturbed => Stand(p, c))
  BY <1>1, <1>2, <1>3, Decider
<1>5. /\ transfers' = [transfers EXCEPT ![c] = transfers[c] + 1]
      /\ req'[p] = [r EXCEPT !.pc = "accept", !.transfer = transfers[c] + 1]
      /\ \A q \in Procs \ {p} : req'[q] = req[q]
      /\ UNCHANGED <<rows, disturbed, refunded>>
  BY <1>2, <1>3, <1>4 DEF AcceptTransfer, TypeOK
<1>6. req'[p].pc = "accept" /\ req'[p].offer = c /\ req'[p].pc \in Working
  BY <1>3, <1>5 DEF Fields, Working
<1>7. c \notin disturbed => Stand(p, c)'
  BY <1>1, <1>4, <1>5, <1>6 DEF Stand, Open, Paying, TypeOK, rows
<1>8. \A d \in Offers \ {c} : Kept(d)
  BY <1>4, <1>5 DEF Kept, TypeOK, rows
<1>. QED
  BY <1>1, <1>2, <1>3, <1>5, <1>6, <1>7, <1>8, UndisturbedStep

LEMMA AcceptOfferUndisturbed ==
    ASSUME IInv, UInv, NEW p \in Procs, AcceptOffer(p)
    PROVE  UInv'
<1>1. req[p].pc = "accept" /\ req[p].pc \in Working
  BY DEF AcceptOffer, Busy, Working
<1>2. PICK r \in Fields : r = req[p]
  BY <1>1, Decider
<1>3. PICK c \in Offers : c = r.offer
  BY <1>2 DEF Fields
<1>4. TypeOK /\ (c \notin disturbed => Stand(p, c))
  BY <1>1, <1>2, <1>3, Decider
<1>5. /\ status' = [status EXCEPT ![c] = "ACCEPTED"]
      /\ req'[p] = [r EXCEPT !.pc = "grant"] /\ \A q \in Procs \ {p} : req'[q] = req[q]
      /\ UNCHANGED <<granted, disturbed, money>>
  BY <1>2, <1>3, <1>4, GotoOthers DEF AcceptOffer
<1>6. req'[p].pc = "grant" /\ req'[p].offer = c /\ req'[p].pc \in Working
  BY <1>3, <1>5 DEF Fields, Working
<1>7. c \notin disturbed => Stand(p, c)'
  BY <1>1, <1>4, <1>5, <1>6 DEF Stand, Open, Paying, TypeOK, money
<1>8. \A d \in Offers \ {c} : Kept(d)
  BY <1>4, <1>5 DEF Kept, TypeOK, money
<1>. QED
  BY <1>1, <1>2, <1>3, <1>5, <1>6, <1>7, <1>8, UndisturbedStep

LEMMA AcceptGrantUndisturbed ==
    ASSUME IInv, UInv, NEW p \in Procs, AcceptGrant(p)
    PROVE  UInv'
<1>1. req[p].pc = "grant" /\ req[p].pc \in Working
  BY DEF AcceptGrant, Busy, Working
<1>2. PICK r \in Fields : r = req[p]
  BY <1>1, Decider
<1>3. PICK c \in Offers : c = r.offer
  BY <1>2 DEF Fields
<1>4. TypeOK /\ (c \notin disturbed => Stand(p, c))
  BY <1>1, <1>2, <1>3, Decider
<1>5. /\ granted' = [granted EXCEPT ![c] = Append(granted[c], r.transfer)]
      /\ req'[p] = [r EXCEPT !.pc = "tell"] /\ \A q \in Procs \ {p} : req'[q] = req[q]
      /\ UNCHANGED <<status, disturbed, money>>
  BY <1>2, <1>3, <1>4, GotoOthers DEF AcceptGrant
<1>6. req'[p].pc \notin Working
  BY <1>5 DEF Fields, Working
<1>7. granted'[c] = Append(granted[c], r.transfer) /\ granted[c] \in Seq(Nat) /\ r.transfer \in Nat
  BY <1>4, <1>5 DEF TypeOK, Fields
<1>8. granted[c] = <<>> => Len(granted'[c]) = 1
  BY <1>7
<1>9. c \notin disturbed => Calm(c)'
  BY <1>1, <1>4, <1>5, <1>8 DEF Stand, Calm, Paying, money
<1>10. \A d \in Offers \ {c} : Kept(d)
  BY <1>4, <1>5 DEF Kept, TypeOK, money
<1>. QED
  BY <1>1, <1>2, <1>3, <1>5, <1>6, <1>9, <1>10, UndisturbedStep

LEMMA TellUndisturbed ==
    ASSUME TypeOK, UInv, NEW p \in Procs, Tell(p)
    PROVE  UInv'
<1>1. req[p].pc \notin Working /\ req'[p].pc \notin Working /\ \A q \in Procs \ {p} : req'[q] = req[q]
  BY DEF Tell, Busy, Reply, TypeOK, Idle, Working
<1>. QED
  BY <1>1, UndisturbedAside DEF Tell, money

(* A death before the money moved changes nothing; a later one disturbs.   *)
LEMMA AbortUndisturbed ==
    ASSUME IInv, UInv, NEW p \in Procs, Abort(p)
    PROVE  UInv'
<1>1. TypeOK /\ Reply(p) /\ UNCHANGED <<status, refunded, transfers, granted>>
  BY DEF Abort, IInv, rows, money
<1>2. req'[p].pc = "idle" /\ \A q \in Procs \ {p} : req'[q] = req[q]
  BY <1>1 DEF Reply, TypeOK, Idle
<1>3. CASE req[p].pc \in {"close", "accept", "grant"}
  <2>1. PICK c \in Offers : c = req[p].offer
    BY <1>3, Decider DEF Working
  <2>2. disturbed' = disturbed \cup {c}
    BY <1>3, <2>1 DEF Abort
  <2>3. req'[p].pc \notin Working
    BY <1>2 DEF Working
  <2>4. \A d \in Offers \ {c} : Kept(d)
    BY <1>1 DEF Kept
  <2>. QED
    BY <1>2, <2>1, <2>2, <2>3, <2>4, UndisturbedStep
<1>4. CASE req[p].pc \notin {"close", "accept", "grant"}
  <2>1. disturbed' = disturbed
    BY <1>4 DEF Abort
  <2>2. CASE req[p].pc \in Working
    <3>1. req[p].pc \in {"charge", "find", "insert", "refund", "transfer"}
      BY <1>4, <2>2 DEF Working
    <3>. QED
      BY <1>1, <2>1, <3>1, UndisturbedGiveUp
  <2>3. CASE req[p].pc \notin Working
    <3>1. req'[p].pc \notin Working
      BY <1>2 DEF Working
    <3>. QED
      BY <1>1, <1>2, <2>1, <2>3, <3>1, UndisturbedAside
  <2>. QED
    BY <2>2, <2>3
<1>. QED
  BY <1>3, <1>4

-----------------------------------------------------------------------------
LEMMA InitUInv == Init => UInv
<1> SUFFICES ASSUME Init PROVE UInv
  OBVIOUS
<1>1. \A p \in Procs, c \in Offers : ~Works(p, c)
  BY DEF Init, Idle, Works, Working
<1>2. \A c \in Offers : Calm(c)
  BY DEF Init, Calm, Open
<1>. QED
  BY <1>1, <1>2 DEF UInv

LEMMA StepUInv ==
    ASSUME IInv, UInv, NEW p \in Procs, Step(p)
    PROVE  UInv'
<1>1. TypeOK
  BY DEF IInv
<1>2. CASE CreateDeclined(p)
  BY <1>2, UndisturbedGiveUp DEF CreateDeclined, Busy, rows, money
<1>3. CASE Refused(p)
  BY <1>3, UndisturbedGiveUp DEF Refused, rows, money
<1>. QED
  BY <1>1, <1>2, <1>3, SetupUndisturbed, CreateChargeUndisturbed, CreateFindLoanUndisturbed,
     CreateInsertUndisturbed, RefundUndisturbed, CloseUndisturbed, AcceptTransferUndisturbed,
     AcceptOfferUndisturbed, AcceptGrantUndisturbed, TellUndisturbed DEF Step

LEMMA ReceiveUInv ==
    ASSUME IInv, UInv, NEW p \in Procs, NEW c \in Offers, Receive(p, c)
    PROVE  UInv'
<1>1. CASE CreateReceive(p, c)
  BY <1>1, CreateReceiveUndisturbed
<1>2. ASSUME NEW op \in {"cancel", "reject"}, AnswerReceive(p, c, op, "refund")
      PROVE  UInv'
  <2>1. op \in Ops /\ "refund" \in Stages[op]
    BY DEF Ops, Stages
  <2>. QED
    BY <1>2, <2>1, AnswerReceiveUndisturbed
<1>3. CASE AcceptReceive(p, c)
  <2>1. "accept" \in Ops /\ "transfer" \in Stages["accept"]
    BY DEF Ops, Stages
  <2>. QED
    BY <1>3, <2>1, AnswerReceiveUndisturbed DEF AcceptReceive
<1>. QED
  BY <1>1, <1>2, <1>3 DEF Receive

LEMMA NextUInv == IInv /\ UInv /\ [Next]_vars => UInv'
<1> SUFFICES ASSUME IInv, UInv, [Next]_vars PROVE UInv'
  OBVIOUS
<1>1. TypeOK
  BY DEF IInv
<1>2. CASE UNCHANGED vars
  BY <1>2 DEF vars, rows, wallet, money, UInv, Works, Stand, Calm, Open
<1>3. ASSUME NEW l \in Lenders, ConfirmCard(l)
      PROVE  UInv'
  BY <1>3 DEF ConfirmCard, rows, money, UInv, Works, Stand, Calm, Open
<1>4. ASSUME NEW l \in Lenders, NEW p \in Procs, SetupReceive(p, l)
      PROVE  UInv'
  BY <1>1, <1>4, SetupUndisturbed
<1>5. ASSUME NEW p \in Procs, NEW c \in Offers, Receive(p, c)
      PROVE  UInv'
  BY <1>5, ReceiveUInv
<1>6. ASSUME NEW p \in Procs, Step(p)
      PROVE  UInv'
  BY <1>6, StepUInv
<1>7. ASSUME NEW p \in Procs, Abort(p)
      PROVE  UInv'
  BY <1>7, AbortUndisturbed
<1>. QED
  BY <1>2, <1>3, <1>4, <1>5, <1>6, <1>7 DEF Next

(* An offer that no two requests worked on and that none died over is      *)
(* settled to the cent, whatever overlaps and dies on other offers.        *)
THEOREM Undisturbed == Spec => []UndisturbedIsSettled
<1>1. IInv /\ UInv => UndisturbedIsSettled
  <2>1. SUFFICES ASSUME IInv, UInv, NEW c \in Offers \ disturbed, \A p \in Procs : ~Deciding(p, c)
                 PROVE  /\ refunded[c] <=> status[c] \in {"CANCELLED", "REJECTED"}
                        /\ transfers[c] = IF status[c] = "ACCEPTED" THEN 1 ELSE 0
                        /\ Len(granted[c]) = transfers[c]
    BY DEF UndisturbedIsSettled
  <2>2. \A p \in Procs : ~Works(p, c)
    BY <2>1 DEF Deciding, Works, Working
  <2>3. Calm(c)
    BY <2>1, <2>2 DEF UInv
  <2>4. granted[c] = <<>> => Len(granted[c]) = 0
    OBVIOUS
  <2>. QED
    BY <2>3, <2>4 DEF Calm, Open
<1>2. Spec => [](IInv /\ UInv)
  <2>1. Init => IInv /\ UInv
    BY InitIInv, InitUInv
  <2>2. IInv /\ UInv /\ [Next]_vars => (IInv /\ UInv)'
    BY NextIInv, NextUInv
  <2>. QED
    BY <2>1, <2>2, PTL DEF Spec
<1>. QED
  BY <1>1, <1>2, PTL

=============================================================================
