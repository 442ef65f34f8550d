------------------------------- MODULE Escrow -------------------------------
(***************************************************************************)
(* The escrow of an order: the Transaction row, its TransactionLedger, the *)
(* Stripe payment and transfers, and every handler of the backend that     *)
(* moves the escrow from one state to the next:                            *)
(*                                                                         *)
(*   the last database transaction of POST /orders   (orders.service)      *)
(*   POST /webhooks/stripe                           (stripe-webhooks)     *)
(*   POST /transactions/:id/proof-delivery, /release (transactions.service)*)
(*   block and unblock of an order by an admin       (orders.service)      *)
(*                                                                         *)
(* A handler is cut at its awaits.  What one database statement or one     *)
(* committed database transaction does is one step; a request in flight is *)
(* a record of what the handler holds in its local variables between two   *)
(* steps.  Postgres runs at READ COMMITTED, so a read inside a transaction *)
(* sees whatever is committed at that moment and is not protected later.   *)
(***************************************************************************)
EXTENDS Integers, FiniteSets, Sequences

CONSTANTS
    Orders,        \* orders that may be placed
    Farmers,       \* sellers
    Procs,         \* slots for requests the backend serves at the same time
    Purchases,     \* what a checkout may have computed, see Purchase
    Connected,     \* farmers with a Stripe account
    Profiled,      \* farmers with a trust profile
    Faults,        \* TRUE when Stripe may refuse and a request may die midway
    MaxBlocks,     \* bound: BLOCKED entries in the ledger of an order
    MaxTransfers,  \* bound: Stripe transfers for an order
    MaxStamp       \* bound: timestamps handed out for the ledger of an order

(* The farmers who own an item of the order, the loan credit applied, the  *)
(* amount left for the card, the platform's fee, in one unit of money, and *)
(* whether amount_received - Number(platformFee) * 100, computed in        *)
(* floating point, is a whole number of cents.  It is when the card paid   *)
(* all: the amount is then some 20 times the fee, and the subtraction      *)
(* rounds the fee's error away.  With credit it may not be: a fee of 1.10  *)
(* and 1.50 by card leave 39.99999999999999.                               *)
Purchase ==
    {b \in [farmers : SUBSET Farmers \ {{}}, credit : Nat, card : Nat, fee : Nat,
            whole : BOOLEAN] : b.credit = 0 => b.whole}

ASSUME PurchasesAssumption == Purchases \subseteq Purchase
ASSUME FarmersAssumption == Connected \subseteq Farmers /\ Profiled \subseteq Farmers
ASSUME BoundsAssumption ==
    /\ Faults \in BOOLEAN
    /\ MaxBlocks \in Nat /\ MaxTransfers \in Nat /\ MaxStamp \in Nat

EscrowState == {"INITIATED", "LOCKED", "DELIVERED", "RELEASED", "BLOCKED"}

VALID_TRANSITIONS ==
    [INITIATED |-> {"LOCKED", "BLOCKED"},
     LOCKED    |-> {"DELIVERED", "BLOCKED"},
     DELIVERED |-> {"RELEASED", "BLOCKED"},
     RELEASED  |-> {"BLOCKED"},
     BLOCKED   |-> {"INITIATED", "LOCKED", "DELIVERED", "RELEASED"}]

(* ledger.lock, ledger.deliver and ledger.release: the state each expects  *)
(* to find and the state it moves to.                                      *)
Expected == [lock |-> "INITIATED", deliver |-> "LOCKED", release |-> "DELIVERED"]
Target   == [lock |-> "LOCKED", deliver |-> "DELIVERED", release |-> "RELEASED"]

VARIABLES
    purchase,     \* what was bought, fixed once the order is placed
    status,       \* Transaction.status, "NONE" before the order exists
    orderStatus,  \* Order.status, a free string in the schema
    proof,        \* Transaction.proofOfDelivery is set
    transferId,   \* Transaction.transferId: which transfer, 0 when null
    ledger,       \* the TransactionLedger entries of the order, a set
    clock,        \* the last ledger timestamp handed out for the order
    trust,        \* trust score increments of a farmer, 20 points each
    notices,      \* TRUST_SCORE_UPDATED notifications of a farmer
    paid,         \* Stripe: the payment intent of the order succeeded
    acked,        \* Stripe: payment_intent.succeeded was answered with 2xx
    transfers,    \* Stripe: the farmers money was transferred to, in order
    req           \* the request each slot is serving

rows   == <<purchase, status, orderStatus, proof, transferId>>
audit  == <<ledger, clock>>
people == <<trust, notices>>
stripe == <<paid, acked, transfers>>
vars   == <<rows, audit, people, stripe, req>>

-----------------------------------------------------------------------------
(* Requests in flight.                                                     *)

Idle == [pc |-> "idle"]
NoFarmer == "none"

(* Where a request of each kind may stop between two steps.                *)
Stages ==
    [lock    |-> {"load", "create", "commit"},
     deliver |-> {"ocr", "upload", "load", "create", "commit"},
     release |-> {"recheck", "transfer", "load", "create", "notify", "commit"},
     block   |-> {"write"},
     unblock |-> {"write"}]

(* The locals a handler keeps: the farmer who called, the status it read,  *)
(* the timestamp of the ledger entry it wrote and the transfer it made.    *)
Request ==
    {r \in [pc : UNION {Stages[op] : op \in DOMAIN Stages}, op : DOMAIN Stages,
            order : Orders, farmer : Farmers \cup {NoFarmer},
            seen : EscrowState, stamp : Nat, transfer : Nat] :
        /\ r.pc \in Stages[r.op]
        /\ r.op \in {"deliver", "release"} => r.farmer \in Farmers}

Busy(p, pc) == req[p].pc = pc
Begin(p, pc, op, o, f, s) ==
    req' = [req EXCEPT ![p] = [pc |-> pc, op |-> op, order |-> o, farmer |-> f,
                               seen |-> s, stamp |-> 0, transfer |-> 0]]
Goto(p, pc) == req' = [req EXCEPT ![p].pc = pc]
Reply(p) == req' = [req EXCEPT ![p] = Idle]

Placed(o) == status[o] # "NONE"
Funded(o) == paid[o] \/ purchase[o].card = 0
OwnsItems(f, o) == f \in purchase[o].farmers

Entry(at, prev, cur) == [at |-> at, prev |-> prev, cur |-> cur]
BlockedEntries(o) == {e \in ledger[o] : e.cur = "BLOCKED"}
(* Fault: the reversal is forgotten, the oldest BLOCKED entry is taken.     *)
FirstBlocked(o) ==
    CHOOSE e \in BlockedEntries(o) : \A d \in BlockedEntries(o) : e.at <= d.at

(* ledgerEntries ordered by timestamp, reversed, first one that is BLOCKED *)
LastBlocked(o) ==
    CHOOSE e \in BlockedEntries(o) : \A d \in BlockedEntries(o) : d.at <= e.at

-----------------------------------------------------------------------------
Init ==
    /\ purchase \in [Orders -> Purchases]
    /\ status = [o \in Orders |-> "NONE"]
    /\ orderStatus = [o \in Orders |-> "NONE"]
    /\ proof = [o \in Orders |-> FALSE]
    /\ transferId = [o \in Orders |-> 0]
    /\ ledger = [o \in Orders |-> {}]
    /\ clock = [o \in Orders |-> 0]
    /\ trust = [f \in Farmers |-> 0]
    /\ notices = [f \in Farmers |-> 0]
    /\ paid = [o \in Orders |-> FALSE]
    /\ acked = [o \in Orders |-> FALSE]
    /\ transfers = [o \in Orders |-> <<>>]
    /\ req = [p \in Procs |-> Idle]

(* Order(): the order, its transaction and the first ledger entry commit   *)
(* together.  An order without anything left for the card starts LOCKED.   *)
PlaceOrder(o) ==
    /\ ~Placed(o)
    /\ LET first == IF purchase[o].card = 0 THEN "LOCKED" ELSE "INITIATED"
       IN  /\ status' = [status EXCEPT ![o] = first]
           /\ ledger' = [ledger EXCEPT ![o] = {Entry(0, "INITIATED", first)}]
    /\ orderStatus' = [orderStatus EXCEPT ![o] =
           IF purchase[o].credit > 0 /\ purchase[o].card = 0
           THEN "confirmed" ELSE "pending_payment"]
    /\ UNCHANGED <<purchase, proof, transferId, clock, people, stripe, req>>

(* Stripe: the buyer confirms the payment with the returned client secret. *)
CustomerPays(o) ==
    /\ Placed(o) /\ purchase[o].card > 0 /\ ~paid[o]
    /\ paid' = [paid EXCEPT ![o] = TRUE]
    /\ UNCHANGED <<rows, audit, people, acked, transfers, req>>

-----------------------------------------------------------------------------
(* TransactionLedgerService.transition(), shared by three handlers: load   *)
(* the record, check it, insert the ledger entry, update the record by id. *)

(* Fault: the error is swallowed and the webhook answers 2xx.               *)
LoadSwallowed(p) ==
    /\ Busy(p, "load")
    /\ LET r == req[p] IN
       IF status[r.order] = Expected[r.op]
       THEN /\ req' = [req EXCEPT ![p] = [r EXCEPT !.pc = "create", !.seen = status[r.order]]]
            /\ UNCHANGED acked
       ELSE /\ Reply(p)
            /\ acked' = [acked EXCEPT ![r.order] = @ \/ r.op = "lock"]
    /\ UNCHANGED <<rows, audit, people, paid, transfers>>

(* Steps 1 to 3 of the method: a failed check ends the whole request.      *)
Load(p) ==
    /\ Busy(p, "load")
    /\ LET r == req[p] IN
       IF /\ status[r.order] = Expected[r.op]
          /\ Target[r.op] \in VALID_TRANSITIONS[status[r.order]]
       THEN req' = [req EXCEPT ![p] = [r EXCEPT !.pc = "create", !.seen = status[r.order]]]
       ELSE Reply(p)
    /\ UNCHANGED <<rows, audit, people, stripe>>

(* Step 4, the insert: the entry gets its timestamp now and is visible to  *)
(* others at the commit.  Inside releaseFunds more statements follow.      *)
Create(p) ==
    /\ Busy(p, "create")
    /\ LET o == req[p].order IN
       /\ clock[o] < MaxStamp
       /\ clock' = [clock EXCEPT ![o] = @ + 1]
       /\ req' = [req EXCEPT ![p] =
              [req[p] EXCEPT !.pc = IF req[p].op = "release" THEN "notify" ELSE "commit",
                             !.stamp = clock[o] + 1]]
    /\ UNCHANGED <<rows, ledger, people, stripe>>

(* Fault: the update is made without its ledger entry.                      *)
AdvanceUnlogged(p) ==
    /\ status' = [status EXCEPT ![req[p].order] = Target[req[p].op]]
    /\ Reply(p)
    /\ UNCHANGED ledger

(* The row is updated where its id matches, whatever its status is by now. *)
Advance(p) ==
    LET r == req[p] IN
    /\ status' = [status EXCEPT ![r.order] = Target[r.op]]
    /\ ledger' = [ledger EXCEPT ![r.order] =
                     @ \cup {Entry(r.stamp, r.seen, Target[r.op])}]
    /\ Reply(p)

-----------------------------------------------------------------------------
(* Fault: any event of a payment intent is taken for a success.             *)
WebhookAnyEvent(p, o) ==
    /\ Busy(p, "idle") /\ Placed(o)
    /\ Begin(p, "load", "lock", o, NoFarmer, "INITIATED")
    /\ UNCHANGED <<rows, audit, people, stripe>>

(* Fault: the order is marked paid outside the transaction of the lock.     *)
WebhookPaidFirst(p, o) ==
    /\ Busy(p, "idle") /\ paid[o]
    /\ Begin(p, "load", "lock", o, NoFarmer, "INITIATED")
    /\ orderStatus' = [orderStatus EXCEPT ![o] = "paid"]
    /\ UNCHANGED <<purchase, status, proof, transferId, audit, people, stripe>>

(* POST /webhooks/stripe.  Stripe delivers the event again until a 2xx     *)
(* answer, and may deliver it again after one.                             *)
WebhookReceive(p, o) ==
    /\ Busy(p, "idle") /\ paid[o]
    /\ Begin(p, "load", "lock", o, NoFarmer, "INITIATED")
    /\ UNCHANGED <<rows, audit, people, stripe>>

WebhookCommit(p) ==
    /\ Busy(p, "commit") /\ req[p].op = "lock"
    /\ Advance(p)
    /\ orderStatus' = [orderStatus EXCEPT ![req[p].order] = "paid"]
    /\ acked' = [acked EXCEPT ![req[p].order] = TRUE]
    /\ UNCHANGED <<purchase, proof, transferId, clock, people, paid, transfers>>

-----------------------------------------------------------------------------
(* POST /transactions/:orderId/proof-delivery, verifyProofOfDelivery().    *)
ProofReceive(p, o, f) ==
    /\ Busy(p, "idle")
    /\ OwnsItems(f, o) /\ status[o] = "LOCKED"
    /\ Begin(p, "ocr", "deliver", o, f, status[o])
    /\ UNCHANGED <<rows, audit, people, stripe>>

(* Fault: the proof is not saved before the order is marked delivered.      *)
ProofUnrecorded(p) ==
    /\ Busy(p, "ocr")
    /\ Goto(p, "load") \/ Reply(p)
    /\ UNCHANGED <<rows, audit, people, stripe>>

(* The OCR service finds the order's id in the file, or it does not, or it *)
(* cannot be reached: the last two end the request alike.                  *)
ProofRead(p) ==
    /\ Busy(p, "ocr")
    /\ Goto(p, "upload") \/ Reply(p)
    /\ UNCHANGED <<rows, audit, people, stripe>>

ProofRecord(p) ==
    /\ Busy(p, "upload")
    /\ proof' = [proof EXCEPT ![req[p].order] = TRUE]
    /\ Goto(p, "load")
    /\ UNCHANGED <<purchase, status, orderStatus, transferId, audit, people, stripe>>

DeliverCommit(p) ==
    /\ Busy(p, "commit") /\ req[p].op = "deliver"
    /\ Advance(p)
    /\ UNCHANGED <<purchase, orderStatus, proof, transferId, clock, people, stripe>>

-----------------------------------------------------------------------------
(* POST /transactions/:orderId/release, releaseFunds().                    *)
ReleaseReceive(p, o, f) ==
    /\ Busy(p, "idle")
    /\ f \in Connected /\ OwnsItems(f, o) /\ status[o] = "DELIVERED"
    /\ Begin(p, "recheck", "release", o, f, status[o])
    /\ UNCHANGED <<rows, audit, people, stripe>>

(* The transaction is read once more before the money moves.               *)
ReleaseRecheck(p) ==
    /\ Busy(p, "recheck")
    /\ IF status[req[p].order] = "DELIVERED" THEN Goto(p, "transfer") ELSE Reply(p)
    /\ UNCHANGED <<rows, audit, people, stripe>>

(* Fault: the fee is converted to cents, the amount is not.                 *)
TransferAmountMixed(o) ==
    (IF paid[o] THEN purchase[o].card ELSE 0) - 100 * purchase[o].fee

(* amount_received, or 0 without a payment intent, minus the fee.          *)
TransferAmount(o) == (IF paid[o] THEN purchase[o].card ELSE 0) - purchase[o].fee

(* Stripe takes amounts of one unit or more, in whole cents.               *)
Transferable(o) == TransferAmount(o) > 0 /\ purchase[o].whole

(* No idempotency key: every call that reaches Stripe is a new transfer.   *)
ReleaseTransfer(p) ==
    /\ Busy(p, "transfer")
    /\ LET o == req[p].order IN
       /\ Transferable(o) /\ Len(transfers[o]) < MaxTransfers
       /\ transfers' = [transfers EXCEPT ![o] = Append(@, req[p].farmer)]
       /\ req' = [req EXCEPT ![p] = [req[p] EXCEPT !.pc = "load", !.transfer = Len(transfers[o]) + 1]]
    /\ UNCHANGED <<rows, audit, people, paid, acked>>

(* Fault: the handler goes on after Stripe refused the transfer.            *)
ReleaseUnpaid(p) ==
    /\ Busy(p, "transfer")
    /\ ~Transferable(req[p].order) \/ Faults
    /\ Goto(p, "load")
    /\ UNCHANGED <<rows, audit, people, stripe>>

(* Stripe refuses the amount, or fails for another reason.                 *)
ReleaseRefused(p) ==
    /\ Busy(p, "transfer")
    /\ ~Transferable(req[p].order) \/ Faults
    /\ Reply(p)
    /\ UNCHANGED <<rows, audit, people, stripe>>

(* updateTrustScore() finds the profile and the notification is written by *)
(* the service's own client: it stays even if the transaction rolls back.  *)
ReleaseNotify(p) ==
    /\ Busy(p, "notify") /\ req[p].farmer \in Profiled
    /\ notices' = [notices EXCEPT ![req[p].farmer] = @ + 1]
    /\ Goto(p, "commit")
    /\ UNCHANGED <<rows, audit, trust, stripe>>

(* updateTrustScore() throws for a farmer without a trust profile.         *)
ReleaseRollback(p) ==
    /\ Busy(p, "notify") /\ req[p].farmer \notin Profiled
    /\ Reply(p)
    /\ UNCHANGED <<rows, audit, people, stripe>>

ReleaseCommit(p) ==
    /\ Busy(p, "commit") /\ req[p].op = "release"
    /\ Advance(p)
    /\ transferId' = [transferId EXCEPT ![req[p].order] = req[p].transfer]
    /\ trust' = [trust EXCEPT ![req[p].farmer] = @ + 1]
    /\ UNCHANGED <<purchase, orderStatus, proof, clock, notices, stripe>>

-----------------------------------------------------------------------------
(* blockOrder() and unblockOrder(): read the order with its transaction,   *)
(* then write status and ledger entry in one batch.                        *)
BlockRead(p, o) ==
    /\ Busy(p, "idle")
    /\ Placed(o) /\ status[o] # "BLOCKED" /\ Cardinality(BlockedEntries(o)) < MaxBlocks
    /\ Begin(p, "write", "block", o, NoFarmer, status[o])
    /\ UNCHANGED <<rows, audit, people, stripe>>

UnblockRead(p, o) ==
    /\ Busy(p, "idle")
    /\ status[o] = "BLOCKED" /\ BlockedEntries(o) # {}
    /\ Begin(p, "write", "unblock", o, NoFarmer, LastBlocked(o).prev)
    /\ UNCHANGED <<rows, audit, people, stripe>>

(* The row is updated first, so the entry's timestamp is taken under lock. *)
AdminWrite(p, prev, next) ==
    LET o == req[p].order IN
    /\ clock[o] < MaxStamp
    /\ clock' = [clock EXCEPT ![o] = @ + 1]
    /\ status' = [status EXCEPT ![o] = next]
    /\ ledger' = [ledger EXCEPT ![o] = @ \cup {Entry(clock[o] + 1, prev, next)}]
    /\ Reply(p)
    /\ UNCHANGED <<purchase, orderStatus, proof, transferId, people, stripe>>

(* Fault: the status is updated without a ledger entry.                     *)
BlockUnlogged(p) ==
    /\ Busy(p, "write") /\ req[p].op = "block"
    /\ status' = [status EXCEPT ![req[p].order] = "BLOCKED"]
    /\ Reply(p)
    /\ UNCHANGED <<purchase, orderStatus, proof, transferId, audit, people, stripe>>

BlockWrite(p) ==
    /\ Busy(p, "write") /\ req[p].op = "block"
    /\ AdminWrite(p, req[p].seen, "BLOCKED")

UnblockWrite(p) ==
    /\ Busy(p, "write") /\ req[p].op = "unblock"
    /\ AdminWrite(p, "BLOCKED", req[p].seen)

-----------------------------------------------------------------------------
(* A request dies between two steps: the process restarts, the connection  *)
(* to the database is lost or an open transaction times out.               *)
Abort(p) ==
    /\ Faults /\ ~Busy(p, "idle")
    /\ Reply(p)
    /\ UNCHANGED <<rows, audit, people, stripe>>

Step(p) ==
    \/ Load(p) \/ Create(p) \/ WebhookCommit(p)
    \/ ProofRead(p) \/ ProofRecord(p) \/ DeliverCommit(p)
    \/ ReleaseRecheck(p) \/ ReleaseTransfer(p) \/ ReleaseRefused(p)
    \/ ReleaseNotify(p) \/ ReleaseRollback(p) \/ ReleaseCommit(p)
    \/ BlockWrite(p) \/ UnblockWrite(p)

Receive(p, o) ==
    \/ WebhookReceive(p, o)
    \/ \E f \in Farmers : ProofReceive(p, o, f) \/ ReleaseReceive(p, o, f)
    \/ BlockRead(p, o) \/ UnblockRead(p, o)

Next ==
    \/ \E o \in Orders : PlaceOrder(o) \/ CustomerPays(o)
    \/ \E p \in Procs, o \in Orders : Receive(p, o)
    \/ \E p \in Procs : Step(p) \/ Abort(p)

Spec == Init /\ [][Next]_vars

(* Every answer is eventually given, Stripe delivers an unacknowledged     *)
(* event again, and the farmer's page calls release as soon as the proof   *)
(* was accepted.  Nothing obliges anyone to pay, to upload or to block.    *)
Fairness ==
    /\ \A p \in Procs : WF_vars(Step(p))
    /\ \A o \in Orders :
          /\ SF_vars(\E p \in Procs : ~acked[o] /\ WebhookReceive(p, o))
          /\ SF_vars(\E p \in Procs, f \in Farmers : ReleaseReceive(p, o, f))

FairSpec == Spec /\ Fairness

-----------------------------------------------------------------------------
(* Type invariant: the shape of the rows, of Stripe's records and of the   *)
(* requests in flight.                                                     *)
TypeOK ==
    /\ purchase \in [Orders -> Purchases]
    /\ status \in [Orders -> EscrowState \cup {"NONE"}]
    /\ orderStatus \in [Orders -> {"NONE", "pending_payment", "confirmed", "paid"}]
    /\ proof \in [Orders -> BOOLEAN]
    /\ transferId \in [Orders -> Nat]
    /\ ledger \in [Orders -> SUBSET [at : Nat, prev : EscrowState, cur : EscrowState]]
    /\ clock \in [Orders -> Nat]
    /\ trust \in [Farmers -> Nat] /\ notices \in [Farmers -> Nat]
    /\ paid \in [Orders -> BOOLEAN] /\ acked \in [Orders -> BOOLEAN]
    /\ transfers \in [Orders -> Seq(Farmers)]
    /\ req \in [Procs -> Request \cup {Idle}]

(* What holds however requests interleave, are repeated or die midway.     *)

(* The escrow counts as holding money only if it does: an order is LOCKED, *)
(* DELIVERED or RELEASED only once its payment succeeded or credit covered *)
(* all of it, whatever blocks, unblocks and stale requests came between.   *)
EscrowIsFunded ==
    \A o \in Orders : status[o] \in {"LOCKED", "DELIVERED", "RELEASED"} => Funded(o)

(* No money leaves for a farmer before a proof of delivery was accepted    *)
(* for an order whose payment arrived: the chain of checks through         *)
(* verifyProofOfDelivery and releaseFunds cannot be bypassed by an unblock *)
(* or by a request that acts on a status it read long ago.                 *)
PayoutNeedsDelivery ==
    \A o \in Orders : transfers[o] # <<>> => proof[o] /\ Funded(o)

(* A RELEASED order names the transfer that paid for it, and that transfer *)
(* was made: releaseFunds records both in one transaction and only after   *)
(* Stripe answered.                                                        *)
ReleasedWasPaidOut ==
    \A o \in Orders : status[o] = "RELEASED" => transferId[o] \in 1..Len(transfers[o])

(* unblockOrder always finds a ledger entry to restore from, so its error  *)
(* "Cannot determine previous status" is never raised.                     *)
BlockedCanBeRestored ==
    \A o \in Orders : status[o] = "BLOCKED" => BlockedEntries(o) # {}

(* The order is marked paid exactly when the ledger shows the webhook's    *)
(* lock: the two tables are written in one transaction and never disagree. *)
PaidOrderIsInLedger ==
    \A o \in Orders :
        orderStatus[o] = "paid"
            <=> \E e \in ledger[o] : e.prev = "INITIATED" /\ e.cur = "LOCKED" /\ e.at > 0

-----------------------------------------------------------------------------
(* What holds as long as requests for one order do not overlap.            *)

Newest(entries) == CHOOSE e \in entries : \A d \in entries : d.at <= e.at
Before(o, e) == {d \in ledger[o] : d.at < e.at}

(* Read by timestamp, the ledger is the history of the order: each entry   *)
(* starts in the state the one before it left, the last one ends in the    *)
(* order's status.                                                         *)
HistoryTellsStatus ==
    \A o \in Orders : Placed(o) =>
        /\ Newest(ledger[o]).cur = status[o]
        /\ \A e \in ledger[o] : Before(o, e) # {} => Newest(Before(o, e)).cur = e.prev

-----------------------------------------------------------------------------
(* Liveness, under FairSpec.                                               *)

(* A payment that succeeded does not leave the order INITIATED: while the  *)
(* order is blocked the webhook fails, and Stripe's retries lock it after  *)
(* an unblock.                                                             *)
PaymentIsLocked == \A o \in Orders : paid[o] ~> status[o] # "INITIATED"

(* A delivered order is released, unless an admin stepped in, if its card  *)
(* payment exceeds the fee by a whole number of cents: releaseFunds called *)
(* once, right after the proof was accepted, finds every check passed.     *)
(* An order paid by card alone is always such an order, one paid in part   *)
(* on credit may not be, and then stays DELIVERED for good.                *)
FirstDeliveryIsReleased ==
    \A o \in Orders :
        status[o] = "DELIVERED" /\ purchase[o].card > purchase[o].fee /\ purchase[o].whole
            ~> status[o] = "RELEASED" \/ BlockedEntries(o) # {}
=============================================================================
