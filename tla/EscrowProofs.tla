---------------------------- MODULE EscrowProofs ----------------------------
(***************************************************************************)
(* Proofs about Escrow, for any set of orders, farmers and request slots,  *)
(* any purchases, and with faults: requests may overlap and die midway.    *)
(* From "The history of an order", requests do not overlap and may still   *)
(* die; from "The promise", nothing fails, and the handlers implement      *)
(* EscrowPromise.                                                          *)
(***************************************************************************)
EXTENDS EscrowRefinement, TLAPS

-----------------------------------------------------------------------------
(* Requests.                                                               *)

Ops == {"lock", "deliver", "release", "block", "unblock"}
Pcs == {"load", "create", "commit", "ocr", "upload", "recheck", "transfer",
        "notify", "write"}

LEMMA StagesFacts == DOMAIN Stages = Ops /\ UNION {Stages[op] : op \in DOMAIN Stages} = Pcs
<1>1. DOMAIN Stages = Ops
  BY DEF Stages, Ops
<1>2. \A x : x \in UNION {Stages[op] : op \in Ops} <=> x \in Pcs
  BY DEF Stages, Ops, Pcs
<1>. QED
  BY <1>1, <1>2

(* The fields of a request, one by one.                                    *)
Fields ==
    [pc : Pcs, op : Ops, order : Orders, farmer : Farmers \cup {NoFarmer},
     seen : EscrowState, stamp : Nat, transfer : Nat]

LEMMA RequestFields ==
    ASSUME NEW r
    PROVE  r \in Request <=>
               /\ r \in Fields
               /\ r.pc \in Stages[r.op]
               /\ r.op \in {"deliver", "release"} => r.farmer \in Farmers
BY StagesFacts DEF Request, Fields

LEMMA StageIsPc == ASSUME NEW op \in Ops, NEW pc \in Stages[op] PROVE pc \in Pcs
BY StagesFacts

(* A request that is not idle has the fields of a request.                 *)
LEMMA BusyIsRequest ==
    ASSUME TypeOK, NEW p \in Procs, req[p].pc # "idle"
    PROVE  req[p] \in Request
BY DEF TypeOK, Idle

(* The record Begin builds is a request.                                   *)
LEMMA BeginType ==
    ASSUME TypeOK, NEW p \in Procs, NEW o \in Orders, NEW f \in Farmers \cup {NoFarmer},
           NEW op \in Ops, NEW pc \in Stages[op], NEW s \in EscrowState,
           op \in {"deliver", "release"} => f \in Farmers,
           Begin(p, pc, op, o, f, s)
    PROVE  req' \in [Procs -> Request \cup {Idle}]
<1> DEFINE new == [pc |-> pc, op |-> op, order |-> o, farmer |-> f,
                   seen |-> s, stamp |-> 0, transfer |-> 0]
<1>1. new \in Fields
  BY StageIsPc DEF Fields
<1>2. new \in Request
  BY <1>1, RequestFields
<1>. QED
  BY <1>2 DEF TypeOK, Begin

(* Amending the locals of a request leaves a request.                      *)
LEMMA AmendPc ==
    ASSUME NEW r \in Request, NEW pc \in Stages[r.op]
    PROVE  [r EXCEPT !.pc = pc] \in Request
<1>1. r \in Fields /\ pc \in Pcs
  BY RequestFields, StageIsPc DEF Fields
<1>2. [r EXCEPT !.pc = pc] \in Fields
  BY <1>1 DEF Fields
<1>. QED
  BY <1>1, <1>2, RequestFields DEF Fields

LEMMA AmendSeen ==
    ASSUME NEW r \in Request, NEW pc \in Stages[r.op], NEW s \in EscrowState
    PROVE  [r EXCEPT !.pc = pc, !.seen = s] \in Request
<1>1. r \in Fields /\ pc \in Pcs
  BY RequestFields, StageIsPc DEF Fields
<1>2. [r EXCEPT !.pc = pc, !.seen = s] \in Fields
  BY <1>1 DEF Fields
<1>. QED
  BY <1>1, <1>2, RequestFields DEF Fields

LEMMA AmendStamp ==
    ASSUME NEW r \in Request, NEW pc \in Stages[r.op], NEW n \in Nat
    PROVE  [r EXCEPT !.pc = pc, !.stamp = n] \in Request
<1>1. r \in Fields /\ pc \in Pcs
  BY RequestFields, StageIsPc DEF Fields
<1>2. [r EXCEPT !.pc = pc, !.stamp = n] \in Fields
  BY <1>1 DEF Fields
<1>. QED
  BY <1>1, <1>2, RequestFields DEF Fields

LEMMA AmendTransfer ==
    ASSUME NEW r \in Request, NEW pc \in Stages[r.op], NEW n \in Nat
    PROVE  [r EXCEPT !.pc = pc, !.transfer = n] \in Request
<1>1. r \in Fields /\ pc \in Pcs
  BY RequestFields, StageIsPc DEF Fields
<1>2. [r EXCEPT !.pc = pc, !.transfer = n] \in Fields
  BY <1>1 DEF Fields
<1>. QED
  BY <1>1, <1>2, RequestFields DEF Fields

LEMMA GotoType ==
    ASSUME TypeOK, NEW p \in Procs, req[p] \in Request, NEW pc \in Stages[req[p].op],
           Goto(p, pc)
    PROVE  req' \in [Procs -> Request \cup {Idle}]
BY AmendPc DEF TypeOK, Goto

LEMMA ReplyType ==
    ASSUME TypeOK, NEW p \in Procs, Reply(p)
    PROVE  req' \in [Procs -> Request \cup {Idle}]
BY DEF TypeOK, Reply

-----------------------------------------------------------------------------
(* Type correctness.                                                       *)

(* A step that only moves a request on leaves the rest of TypeOK alone.     *)
LEMMA QuietType ==
    ASSUME TypeOK, UNCHANGED <<rows, audit, people, stripe>>,
           req' \in [Procs -> Request \cup {Idle}]
    PROVE  TypeOK'
BY DEF TypeOK, rows, audit, people, stripe

LEMMA InitType == Init => TypeOK
BY DEF Init, TypeOK, EscrowState

LEMMA PlaceOrderType ==
    ASSUME TypeOK, NEW o \in Orders, PlaceOrder(o)
    PROVE  TypeOK'
<1> DEFINE first == IF purchase[o].card = 0 THEN "LOCKED" ELSE "INITIATED"
<1>1. first \in EscrowState
  BY DEF EscrowState
<1>2. {Entry(0, "INITIATED", first)} \subseteq [at : Nat, prev : EscrowState, cur : EscrowState]
  BY <1>1 DEF Entry, EscrowState
<1>3. status' = [status EXCEPT ![o] = first] /\ ledger' = [ledger EXCEPT ![o] = {Entry(0, "INITIATED", first)}]
  BY DEF PlaceOrder
<1>. QED
  BY <1>1, <1>2, <1>3 DEF TypeOK, PlaceOrder, people, stripe

LEMMA CustomerPaysType ==
    ASSUME TypeOK, NEW o \in Orders, CustomerPays(o)
    PROVE  TypeOK'
BY DEF TypeOK, CustomerPays, rows, audit, people

(* A request in transition() knows its move.                               *)
LEMMA MoveRequest ==
    ASSUME NEW r \in Request, r.pc \in {"load", "create", "notify", "commit"}
    PROVE  /\ r.op \in {"lock", "deliver", "release"}
           /\ r.pc = "notify" => r.op = "release"
           /\ Expected[r.op] \in EscrowState /\ Target[r.op] \in EscrowState
           /\ "create" \in Stages[r.op] /\ "commit" \in Stages[r.op]
           /\ r.op = "release" => "notify" \in Stages[r.op]
<1>1. r.op \in Ops /\ r.pc \in Stages[r.op]
  BY RequestFields DEF Fields
<1>. QED
  BY <1>1 DEF Ops, Stages, Expected, Target, EscrowState

LEMMA LoadType ==
    ASSUME TypeOK, NEW p \in Procs, Load(p)
    PROVE  TypeOK'
<1> DEFINE r == req[p]
<1>1. r \in Request /\ r.pc = "load"
  BY BusyIsRequest DEF Load, Busy
<1>2. CASE status[r.order] = Expected[r.op] /\ Target[r.op] \in VALID_TRANSITIONS[status[r.order]]
  <2>1. req' = [req EXCEPT ![p] = [r EXCEPT !.pc = "create", !.seen = status[r.order]]]
    BY <1>2 DEF Load
  <2>2. status[r.order] \in EscrowState /\ "create" \in Stages[r.op]
    BY <1>1, <1>2, MoveRequest
  <2>3. [r EXCEPT !.pc = "create", !.seen = status[r.order]] \in Request
    BY <1>1, <2>2, AmendSeen
  <2>4. req' \in [Procs -> Request \cup {Idle}]
    BY <2>1, <2>3 DEF TypeOK
  <2>. QED
    BY <2>4, QuietType DEF Load
<1>3. CASE Reply(p)
  BY <1>3, ReplyType, QuietType DEF Load
<1>. QED
  BY <1>2, <1>3 DEF Load

LEMMA CreateType ==
    ASSUME TypeOK, NEW p \in Procs, Create(p)
    PROVE  TypeOK'
<1> DEFINE r == req[p]
           o == r.order
           pc == IF r.op = "release" THEN "notify" ELSE "commit"
<1>1. r \in Request /\ r.pc = "create" /\ o \in Orders
  BY BusyIsRequest, RequestFields DEF Create, Busy, Fields
<1>2. clock[o] + 1 \in Nat /\ pc \in Stages[r.op]
  BY <1>1, MoveRequest DEF TypeOK
<1>3. [r EXCEPT !.pc = pc, !.stamp = clock[o] + 1] \in Request
  BY <1>1, <1>2, AmendStamp
<1>4. req' = [req EXCEPT ![p] = [r EXCEPT !.pc = pc, !.stamp = clock[o] + 1]]
  BY DEF Create
<1>. QED
  BY <1>1, <1>2, <1>3, <1>4 DEF TypeOK, Create, rows, people, stripe

LEMMA AdvanceType ==
    ASSUME TypeOK, NEW p \in Procs, Busy(p, "commit"), Advance(p)
    PROVE  /\ req[p] \in Request /\ req[p].order \in Orders
           /\ status' \in [Orders -> EscrowState \cup {"NONE"}]
           /\ ledger' \in [Orders -> SUBSET [at : Nat, prev : EscrowState, cur : EscrowState]]
           /\ req' \in [Procs -> Request \cup {Idle}]
<1> DEFINE r == req[p]
<1>1. r \in Request /\ r.pc = "commit"
  BY BusyIsRequest DEF Busy
<1>2. r.order \in Orders /\ r.stamp \in Nat /\ r.seen \in EscrowState
  BY <1>1, RequestFields DEF Fields
<1>3. Target[r.op] \in EscrowState
  BY <1>1, MoveRequest
<1>4. Entry(r.stamp, r.seen, Target[r.op]) \in [at : Nat, prev : EscrowState, cur : EscrowState]
  BY <1>2, <1>3 DEF Entry
<1>5. req' \in [Procs -> Request \cup {Idle}]
  BY ReplyType DEF Advance
<1>. QED
  BY <1>1, <1>2, <1>3, <1>4, <1>5 DEF Advance, TypeOK

LEMMA WebhookReceiveType ==
    ASSUME TypeOK, NEW p \in Procs, NEW o \in Orders, WebhookReceive(p, o)
    PROVE  TypeOK'
<1>1. "INITIATED" \in EscrowState /\ "lock" \in Ops /\ "load" \in Stages["lock"]
  BY DEF EscrowState, Ops, Stages
<1>. QED
  BY <1>1, BeginType, QuietType DEF WebhookReceive

LEMMA ProofReceiveType ==
    ASSUME TypeOK, NEW p \in Procs, NEW o \in Orders, NEW f \in Farmers, ProofReceive(p, o, f)
    PROVE  TypeOK'
<1>1. status[o] \in EscrowState /\ "deliver" \in Ops /\ "ocr" \in Stages["deliver"]
  BY DEF ProofReceive, EscrowState, Ops, Stages
<1>. QED
  BY <1>1, BeginType, QuietType DEF ProofReceive

LEMMA ReleaseReceiveType ==
    ASSUME TypeOK, NEW p \in Procs, NEW o \in Orders, NEW f \in Farmers, ReleaseReceive(p, o, f)
    PROVE  TypeOK'
<1>1. status[o] \in EscrowState /\ "release" \in Ops /\ "recheck" \in Stages["release"]
  BY DEF ReleaseReceive, EscrowState, Ops, Stages
<1>. QED
  BY <1>1, BeginType, QuietType DEF ReleaseReceive

LEMMA BlockReadType ==
    ASSUME TypeOK, NEW p \in Procs, NEW o \in Orders, BlockRead(p, o)
    PROVE  TypeOK'
<1>1. status[o] \in EscrowState
  BY DEF BlockRead, Placed, TypeOK
<1>2. "block" \in Ops /\ "write" \in Stages["block"]
  BY DEF Ops, Stages
<1>. QED
  BY <1>1, <1>2, BeginType, QuietType DEF BlockRead

(* Which request may be where.                                             *)
LEMMA StageOf ==
    ASSUME NEW r \in Request
    PROVE  /\ r.pc = "ocr" => r.op = "deliver"
           /\ r.pc = "upload" => r.op = "deliver"
           /\ r.pc = "recheck" => r.op = "release"
           /\ r.pc = "transfer" => r.op = "release"
           /\ r.pc = "write" => r.op \in {"block", "unblock"}
           /\ r.op = "release" => r.pc # "write"
<1>1. r.op \in Ops /\ r.pc \in Stages[r.op]
  BY RequestFields DEF Fields
<1>. QED
  BY <1>1 DEF Ops, Stages

LEMMA ProofReadType ==
    ASSUME TypeOK, NEW p \in Procs, ProofRead(p)
    PROVE  TypeOK'
<1>1. req[p] \in Request /\ req[p].op = "deliver"
  BY BusyIsRequest, StageOf DEF ProofRead, Busy
<1>2. "upload" \in Stages[req[p].op]
  BY <1>1 DEF Stages
<1>3. CASE Goto(p, "upload")
  BY <1>1, <1>2, <1>3, GotoType, QuietType DEF ProofRead
<1>4. CASE Reply(p)
  BY <1>4, ReplyType, QuietType DEF ProofRead
<1>. QED
  BY <1>3, <1>4 DEF ProofRead

LEMMA ProofRecordType ==
    ASSUME TypeOK, NEW p \in Procs, ProofRecord(p)
    PROVE  TypeOK'
<1>1. req[p] \in Request /\ req[p].op = "deliver"
  BY BusyIsRequest, StageOf DEF ProofRecord, Busy
<1>2. "load" \in Stages[req[p].op]
  BY <1>1 DEF Stages
<1>3. req' \in [Procs -> Request \cup {Idle}]
  BY <1>1, <1>2, GotoType DEF ProofRecord
<1>. QED
  BY <1>3 DEF ProofRecord, TypeOK, audit, people, stripe

LEMMA ReleaseRecheckType ==
    ASSUME TypeOK, NEW p \in Procs, ReleaseRecheck(p)
    PROVE  TypeOK'
<1>1. req[p] \in Request /\ req[p].op = "release"
  BY BusyIsRequest, StageOf DEF ReleaseRecheck, Busy
<1>2. "transfer" \in Stages[req[p].op]
  BY <1>1 DEF Stages
<1>3. CASE Goto(p, "transfer")
  BY <1>1, <1>2, <1>3, GotoType, QuietType DEF ReleaseRecheck
<1>4. CASE Reply(p)
  BY <1>4, ReplyType, QuietType DEF ReleaseRecheck
<1>. QED
  BY <1>3, <1>4 DEF ReleaseRecheck

LEMMA ReleaseTransferType ==
    ASSUME TypeOK, NEW p \in Procs, ReleaseTransfer(p)
    PROVE  TypeOK'
<1> DEFINE r == req[p]
           o == r.order
<1>1. r \in Request /\ r.op = "release"
  BY BusyIsRequest, StageOf DEF ReleaseTransfer, Busy
<1>2. o \in Orders /\ r.farmer \in Farmers
  BY <1>1, RequestFields DEF Fields
<1>3. transfers[o] \in Seq(Farmers)
  BY <1>2 DEF TypeOK
<1>4. Append(transfers[o], r.farmer) \in Seq(Farmers) /\ Len(transfers[o]) + 1 \in Nat
  BY <1>2, <1>3
<1>5. "load" \in Stages[r.op]
  BY <1>1 DEF Stages
<1>6. [r EXCEPT !.pc = "load", !.transfer = Len(transfers[o]) + 1] \in Request
  BY <1>1, <1>4, <1>5, AmendTransfer
<1>7. /\ transfers' = [transfers EXCEPT ![o] = Append(transfers[o], r.farmer)]
      /\ req' = [req EXCEPT ![p] = [r EXCEPT !.pc = "load", !.transfer = Len(transfers[o]) + 1]]
  BY DEF ReleaseTransfer
<1>. QED
  BY <1>2, <1>4, <1>6, <1>7 DEF ReleaseTransfer, TypeOK, rows, audit, people

LEMMA ReleaseNotifyType ==
    ASSUME TypeOK, NEW p \in Procs, ReleaseNotify(p)
    PROVE  TypeOK'
<1>1. req[p] \in Request /\ "commit" \in Stages[req[p].op]
  BY BusyIsRequest, MoveRequest DEF ReleaseNotify, Busy
<1>2. req' \in [Procs -> Request \cup {Idle}]
  BY <1>1, GotoType DEF ReleaseNotify
<1>3. notices' \in [Farmers -> Nat]
  BY FarmersAssumption DEF ReleaseNotify, TypeOK
<1>. QED
  BY <1>2, <1>3 DEF ReleaseNotify, TypeOK, rows, audit, stripe

(* Requests that end without a trace: refused, rolled back or dead.        *)
LEMMA EndType ==
    ASSUME TypeOK, NEW p \in Procs, ReleaseRefused(p) \/ ReleaseRollback(p) \/ Abort(p)
    PROVE  TypeOK'
BY ReplyType, QuietType DEF ReleaseRefused, ReleaseRollback, Abort

LEMMA WebhookCommitType ==
    ASSUME TypeOK, NEW p \in Procs, WebhookCommit(p)
    PROVE  TypeOK'
BY AdvanceType DEF WebhookCommit, TypeOK, people

LEMMA DeliverCommitType ==
    ASSUME TypeOK, NEW p \in Procs, DeliverCommit(p)
    PROVE  TypeOK'
BY AdvanceType DEF DeliverCommit, TypeOK, people, stripe

LEMMA ReleaseCommitType ==
    ASSUME TypeOK, NEW p \in Procs, ReleaseCommit(p)
    PROVE  TypeOK'
<1>1. req[p] \in Request /\ req[p].transfer \in Nat /\ req[p].farmer \in Farmers
  BY BusyIsRequest, RequestFields DEF ReleaseCommit, Busy, Fields
<1>2. transferId' \in [Orders -> Nat]
  BY <1>1 DEF ReleaseCommit, TypeOK
<1>3. trust' \in [Farmers -> Nat]
  BY <1>1 DEF ReleaseCommit, TypeOK
<1>. QED
  BY <1>2, <1>3, AdvanceType DEF ReleaseCommit, TypeOK, stripe

(* A write of blockOrder or unblockOrder, and the request it belongs to.   *)
LEMMA AdminWriteType ==
    ASSUME TypeOK, NEW p \in Procs, req[p] \in Request,
           NEW prev \in EscrowState, NEW next \in EscrowState, AdminWrite(p, prev, next)
    PROVE  TypeOK'
<1> DEFINE o == req[p].order
<1>1. o \in Orders
  BY RequestFields DEF Fields
<1>2. clock[o] + 1 \in Nat
  BY <1>1 DEF TypeOK
<1>3. Entry(clock[o] + 1, prev, next) \in [at : Nat, prev : EscrowState, cur : EscrowState]
  BY <1>2 DEF Entry
<1>4. req' \in [Procs -> Request \cup {Idle}]
  BY ReplyType DEF AdminWrite
<1>. QED
  BY <1>1, <1>2, <1>3, <1>4 DEF AdminWrite, TypeOK, people, stripe

LEMMA AdminRequest ==
    ASSUME TypeOK, NEW p \in Procs, BlockWrite(p) \/ UnblockWrite(p)
    PROVE  /\ req[p] \in Request /\ req[p].order \in Orders /\ req[p].seen \in EscrowState
           /\ "BLOCKED" \in EscrowState
BY BusyIsRequest, RequestFields DEF BlockWrite, UnblockWrite, Busy, Fields, EscrowState

LEMMA AdminType ==
    ASSUME TypeOK, NEW p \in Procs, BlockWrite(p) \/ UnblockWrite(p)
    PROVE  TypeOK'
BY AdminRequest, AdminWriteType DEF BlockWrite, UnblockWrite

-----------------------------------------------------------------------------
(* The inductive invariant.  A status may be restored from the ledger or   *)
(* written by a request that read it long ago, so every place that keeps a *)
(* status must keep the evidence for it: the row, each BLOCKED entry and   *)
(* each request in flight.                                                 *)

(* The evidence behind a status of an order.                               *)
Evidence(o, s) ==
    /\ s \in {"LOCKED", "DELIVERED", "RELEASED"} => Funded(o)
    /\ s \in {"DELIVERED", "RELEASED"} => proof[o]
    /\ s = "RELEASED" => transferId[o] \in 1..Len(transfers[o])

(* unblockOrder takes the newest BLOCKED entry: one exists because each    *)
(* new BLOCKED entry gets a timestamp above all others.                    *)
NewestExists(o) ==
    BlockedEntries(o) # {} =>
        \E e \in BlockedEntries(o) : \A d \in BlockedEntries(o) : d.at <= e.at

RowSafe(o) ==
    /\ proof[o] => Funded(o)
    /\ transfers[o] # <<>> => proof[o]
    /\ Evidence(o, status[o])
    /\ status[o] = "BLOCKED" => BlockedEntries(o) # {}
    /\ \A e \in ledger[o] : e.at <= clock[o]
    /\ \A e \in BlockedEntries(o) : Evidence(o, e.prev)
    /\ NewestExists(o)

(* What a request knows of its order, from the checks it passed.           *)
Backed(r) ==
    /\ r.stamp <= clock[r.order]
    /\ r.op \in {"lock", "deliver", "release"} => Funded(r.order)
    /\ \/ r.op = "release"
       \/ r.op = "deliver" /\ r.pc \in {"load", "create", "commit"}
       => proof[r.order]
    /\ r.op = "release" /\ r.pc \in {"load", "create", "notify", "commit"}
       => r.transfer \in 1..Len(transfers[r.order])
    /\ r.pc = "write" => Evidence(r.order, r.seen)

IInv ==
    /\ TypeOK
    /\ \A o \in Orders : RowSafe(o)
    /\ \A p \in Procs : req[p] \in Request => Backed(req[p])

(* Evidence is never taken back: payments, proofs, transfers and the clock *)
(* only grow, and a transfer id names a transfer once it is set.           *)
Grows(o) ==
    /\ purchase'[o] = purchase[o]
    /\ paid[o] => paid'[o]
    /\ proof[o] => proof'[o]
    /\ Len(transfers[o]) <= Len(transfers'[o])
    /\ transferId'[o] = transferId[o] \/ transferId'[o] \in 1..Len(transfers'[o])
    /\ clock[o] <= clock'[o]

LEMMA EvidenceStable ==
    ASSUME TypeOK, TypeOK', NEW o \in Orders, NEW s, Grows(o), Evidence(o, s)
    PROVE  Evidence(o, s)'
<1>1. Funded(o) => Funded(o)'
  BY DEF Grows, Funded
<1>2. /\ Len(transfers[o]) \in Nat /\ Len(transfers'[o]) \in Nat
      /\ transferId[o] \in Nat /\ transferId'[o] \in Nat
  BY DEF TypeOK
<1>3. transferId[o] \in 1..Len(transfers[o]) => transferId'[o] \in 1..Len(transfers'[o])
  BY <1>2 DEF Grows
<1>. QED
  BY <1>1, <1>3 DEF Grows, Evidence

LEMMA BackedStable ==
    ASSUME TypeOK, TypeOK', NEW r \in Request, Grows(r.order), Backed(r)
    PROVE  Backed(r)'
<1>1. r.order \in Orders /\ r.stamp \in Nat /\ r.transfer \in Nat
  BY RequestFields DEF Fields
<1>2. Funded(r.order) => Funded(r.order)'
  BY DEF Grows, Funded
<1>3. /\ Len(transfers[r.order]) \in Nat /\ Len(transfers'[r.order]) \in Nat
      /\ clock[r.order] \in Nat /\ clock'[r.order] \in Nat
  BY <1>1 DEF TypeOK
<1>4. Evidence(r.order, r.seen) => Evidence(r.order, r.seen)'
  BY <1>1, EvidenceStable
<1>. QED
  BY <1>1, <1>2, <1>3, <1>4 DEF Grows, Backed

(* Only the request that takes the step needs to be looked at again.       *)
LEMMA OthersBacked ==
    ASSUME IInv, TypeOK', \A o \in Orders : Grows(o), NEW p \in Procs,
           \A q \in Procs \ {p} : req'[q] = req[q],
           (req[p] \in Request => Backed(req[p]))'
    PROVE  (\A q \in Procs : req[q] \in Request => Backed(req[q]))'
<1> SUFFICES ASSUME NEW q \in Procs, q # p, req[q] \in Request PROVE Backed(req[q])'
  OBVIOUS
<1>1. PICK r \in Request : r = req[q]
  OBVIOUS
<1>2. Backed(r) /\ r.order \in Orders
  BY <1>1, RequestFields DEF IInv, Fields
<1>3. Backed(r)'
  BY <1>2, BackedStable DEF IInv
<1>. QED
  BY <1>1, <1>3 DEF Backed

-----------------------------------------------------------------------------
(* Steps that move a request on and touch nothing else.                    *)

LEMMA RowStable ==
    ASSUME NEW o \in Orders, RowSafe(o),
           purchase'[o] = purchase[o], status'[o] = status[o], proof'[o] = proof[o],
           transferId'[o] = transferId[o], ledger'[o] = ledger[o], clock'[o] = clock[o],
           paid'[o] = paid[o], transfers'[o] = transfers[o]
    PROVE  RowSafe(o)'
BY DEF RowSafe, Evidence, NewestExists, BlockedEntries, Funded

LEMMA QuietStep ==
    ASSUME IInv, TypeOK', NEW p \in Procs, UNCHANGED <<rows, audit, people, stripe>>,
           \A q \in Procs \ {p} : req'[q] = req[q],
           (req[p] \in Request => Backed(req[p]))'
    PROVE  IInv'
<1>1. \A o \in Orders : RowSafe(o)'
  BY RowStable DEF IInv, rows, audit, stripe
<1>2. \A o \in Orders : Grows(o)
  BY DEF Grows, rows, audit, stripe, IInv, TypeOK
<1>3. (\A q \in Procs : req[q] \in Request => Backed(req[q]))'
  BY <1>2, OthersBacked
<1>. QED
  BY <1>1, <1>3 DEF IInv

LEMMA IdleIsNoRequest == Idle \notin Request
BY RequestFields DEF Idle, Fields, Pcs

(* Whoever replies has nothing left to be backed.                          *)
LEMMA ReplyBacked ==
    ASSUME TypeOK, NEW p \in Procs, Reply(p)
    PROVE  /\ \A q \in Procs \ {p} : req'[q] = req[q]
           /\ (req[p] \in Request => Backed(req[p]))'
BY IdleIsNoRequest DEF Reply, TypeOK

LEMMA EndStep ==
    ASSUME IInv, NEW p \in Procs, Reply(p), UNCHANGED <<rows, audit, people, stripe>>
    PROVE  IInv'
BY ReplyBacked, ReplyType, QuietType, QuietStep DEF IInv

LEMMA LoadStep ==
    ASSUME IInv, NEW p \in Procs, Load(p)
    PROVE  IInv'
<1> DEFINE r == req[p]
<1>1. r \in Request /\ Backed(r) /\ r.pc = "load" /\ TypeOK
  BY BusyIsRequest DEF Load, Busy, IInv
<1>2. CASE req' = [req EXCEPT ![p] = [r EXCEPT !.pc = "create", !.seen = status[r.order]]]
  <2>1. req'[p] = [r EXCEPT !.pc = "create", !.seen = status[r.order]]
    BY <1>1, <1>2 DEF TypeOK
  <2>2. /\ req'[p].pc = "create" /\ req'[p].op = r.op /\ req'[p].order = r.order
        /\ req'[p].stamp = r.stamp /\ req'[p].transfer = r.transfer
    BY <1>1, <2>1, RequestFields DEF Fields
  <2>3. Backed(req[p])'
    BY <1>1, <2>2 DEF Backed, Load, Funded, rows, audit, stripe
  <2>4. \A q \in Procs \ {p} : req'[q] = req[q]
    BY <1>1, <1>2 DEF TypeOK
  <2>. QED
    BY <2>3, <2>4, LoadType, QuietStep DEF IInv, Load
<1>3. CASE Reply(p)
  BY <1>3, EndStep DEF Load
<1>. QED
  BY <1>2, <1>3 DEF Load

(* A new request is backed by the check that let it in.                    *)
LEMMA BeginStep ==
    ASSUME IInv, TypeOK', NEW p \in Procs, NEW o \in Orders, NEW f, NEW pc, NEW op, NEW s,
           Begin(p, pc, op, o, f, s), UNCHANGED <<rows, audit, people, stripe>>,
           op \in {"lock", "deliver", "release"} => Funded(o),
           op = "release" => proof[o] /\ pc = "recheck",
           op = "deliver" => pc = "ocr",
           pc = "write" => Evidence(o, s)
    PROVE  IInv'
<1>1. req'[p] = [pc |-> pc, op |-> op, order |-> o, farmer |-> f,
                 seen |-> s, stamp |-> 0, transfer |-> 0]
  BY DEF Begin, IInv, TypeOK
<1>2. /\ req'[p].pc = pc /\ req'[p].op = op /\ req'[p].order = o
      /\ req'[p].seen = s /\ req'[p].stamp = 0
  BY <1>1
<1>3. 0 <= clock[o]
  BY DEF IInv, TypeOK
<1>4. Backed(req[p])'
  BY <1>2, <1>3 DEF Backed, Funded, Evidence, rows, audit, stripe
<1>5. \A q \in Procs \ {p} : req'[q] = req[q]
  BY DEF Begin, IInv, TypeOK
<1>. QED
  BY <1>4, <1>5, QuietStep

LEMMA WebhookReceiveStep ==
    ASSUME IInv, NEW p \in Procs, NEW o \in Orders, WebhookReceive(p, o)
    PROVE  IInv'
<1>1. TypeOK'
  BY WebhookReceiveType DEF IInv
<1>. QED
  BY <1>1, BeginStep DEF WebhookReceive, Funded

LEMMA ProofReceiveStep ==
    ASSUME IInv, NEW p \in Procs, NEW o \in Orders, NEW f \in Farmers, ProofReceive(p, o, f)
    PROVE  IInv'
<1>1. TypeOK'
  BY ProofReceiveType DEF IInv
<1>2. Funded(o)
  BY DEF ProofReceive, IInv, RowSafe, Evidence
<1>. QED
  BY <1>1, <1>2, BeginStep DEF ProofReceive

LEMMA ReleaseReceiveStep ==
    ASSUME IInv, NEW p \in Procs, NEW o \in Orders, NEW f \in Farmers, ReleaseReceive(p, o, f)
    PROVE  IInv'
<1>1. TypeOK'
  BY ReleaseReceiveType DEF IInv
<1>2. Funded(o) /\ proof[o]
  BY DEF ReleaseReceive, IInv, RowSafe, Evidence
<1>. QED
  BY <1>1, <1>2, BeginStep DEF ReleaseReceive

LEMMA BlockReadStep ==
    ASSUME IInv, NEW p \in Procs, NEW o \in Orders, BlockRead(p, o)
    PROVE  IInv'
<1>1. TypeOK'
  BY BlockReadType DEF IInv
<1>2. Evidence(o, status[o])
  BY DEF IInv, RowSafe
<1>. QED
  BY <1>1, <1>2, BeginStep DEF BlockRead

(* The restored status is the one the newest BLOCKED entry saved, and the  *)
(* evidence for it was kept with the entry.                                *)
LEMMA UnblockReadStep ==
    ASSUME IInv, NEW p \in Procs, NEW o \in Orders, UnblockRead(p, o)
    PROVE  IInv'
<1> DEFINE s == LastBlocked(o).prev
<1>1. LastBlocked(o) \in BlockedEntries(o)
  BY DEF UnblockRead, IInv, RowSafe, NewestExists, LastBlocked
<1>2. s \in EscrowState
  BY <1>1 DEF BlockedEntries, TypeOK, IInv
<1>3. Evidence(o, s)
  BY <1>1 DEF IInv, RowSafe
<1>4. TypeOK'
  <2>1. "unblock" \in Ops /\ "write" \in Stages["unblock"]
    BY DEF Ops, Stages
  <2>. QED
    BY <1>2, <2>1, BeginType, QuietType DEF UnblockRead, IInv
<1>. QED
  BY <1>2, <1>3, <1>4, BeginStep DEF UnblockRead

(* Inside a handler: the knowledge of the request carries over.            *)
LEMMA GotoStep ==
    ASSUME IInv, TypeOK', NEW p \in Procs, req[p] \in Request, NEW pc, Goto(p, pc),
           UNCHANGED <<rows, audit, people, stripe>>,
           pc # "write",
           req[p].op = "deliver" => pc = "upload",
           req[p].op = "release" => pc = "transfer"
    PROVE  IInv'
<1> DEFINE r == req[p]
<1>1. req'[p] = [r EXCEPT !.pc = pc]
  BY DEF Goto, IInv, TypeOK
<1>2. /\ req'[p].pc = pc /\ req'[p].op = r.op /\ req'[p].order = r.order
      /\ req'[p].seen = r.seen /\ req'[p].stamp = r.stamp /\ req'[p].transfer = r.transfer
  BY <1>1, RequestFields DEF Fields
<1>3. Backed(r)
  BY DEF IInv
<1>4. Backed(req[p])'
  BY <1>2, <1>3 DEF Backed, Funded, Evidence, rows, audit, stripe
<1>5. \A q \in Procs \ {p} : req'[q] = req[q]
  BY DEF Goto, IInv, TypeOK
<1>. QED
  BY <1>4, <1>5, QuietStep

LEMMA ProofReadStep ==
    ASSUME IInv, NEW p \in Procs, ProofRead(p)
    PROVE  IInv'
<1>1. CASE Reply(p)
  BY <1>1, EndStep DEF ProofRead
<1>2. CASE Goto(p, "upload")
  <2>1. req[p] \in Request /\ req[p].op = "deliver"
    BY BusyIsRequest, StageOf DEF ProofRead, Busy, IInv
  <2>2. TypeOK'
    BY ProofReadType DEF IInv
  <2>. QED
    BY <1>2, <2>1, <2>2, GotoStep DEF ProofRead
<1>. QED
  BY <1>1, <1>2 DEF ProofRead

LEMMA ReleaseRecheckStep ==
    ASSUME IInv, NEW p \in Procs, ReleaseRecheck(p)
    PROVE  IInv'
<1>1. CASE Reply(p)
  BY <1>1, EndStep DEF ReleaseRecheck
<1>2. CASE Goto(p, "transfer")
  <2>1. req[p] \in Request /\ req[p].op = "release"
    BY BusyIsRequest, StageOf DEF ReleaseRecheck, Busy, IInv
  <2>2. TypeOK'
    BY ReleaseRecheckType DEF IInv
  <2>. QED
    BY <1>2, <2>1, <2>2, GotoStep DEF ReleaseRecheck
<1>. QED
  BY <1>1, <1>2 DEF ReleaseRecheck

-----------------------------------------------------------------------------
(* Steps that change the rows of one order.                                *)

Same(o) ==
    /\ purchase'[o] = purchase[o] /\ status'[o] = status[o] /\ proof'[o] = proof[o]
    /\ transferId'[o] = transferId[o] /\ ledger'[o] = ledger[o] /\ clock'[o] = clock[o]
    /\ paid'[o] = paid[o] /\ transfers'[o] = transfers[o]

LEMMA SameGrows ==
    ASSUME TypeOK, NEW o \in Orders, Same(o)
    PROVE  Grows(o)
BY DEF Same, Grows, TypeOK

(* By the backend: the request p that does it is looked at again.          *)
LEMMA ChangeStep ==
    ASSUME IInv, TypeOK', NEW o \in Orders, \A x \in Orders \ {o} : Same(x),
           Grows(o), RowSafe(o)', NEW p \in Procs,
           \A q \in Procs \ {p} : req'[q] = req[q],
           (req[p] \in Request => Backed(req[p]))'
    PROVE  IInv'
<1>1. \A x \in Orders : Grows(x)
  BY SameGrows DEF IInv
<1>2. \A x \in Orders : RowSafe(x)'
  BY RowStable DEF IInv, Same
<1>3. (\A q \in Procs : req[q] \in Request => Backed(req[q]))'
  BY <1>1, OthersBacked
<1>. QED
  BY <1>2, <1>3 DEF IInv

(* From outside: no request changes.                                       *)
LEMMA ExternalStep ==
    ASSUME IInv, TypeOK', NEW o \in Orders, \A x \in Orders \ {o} : Same(x),
           Grows(o), RowSafe(o)', UNCHANGED req
    PROVE  IInv'
<1>1. \A x \in Orders : Grows(x)
  BY SameGrows DEF IInv
<1>2. \A x \in Orders : RowSafe(x)'
  BY RowStable DEF IInv, Same
<1>3. (\A q \in Procs : req[q] \in Request => Backed(req[q]))'
  <2> SUFFICES ASSUME NEW q \in Procs, (req[q] \in Request)' PROVE Backed(req[q])'
    OBVIOUS
  <2>1. PICK r \in Request : r = req[q]
    OBVIOUS
  <2>2. Backed(r) /\ r.order \in Orders
    BY <2>1, RequestFields DEF IInv, Fields
  <2>3. Backed(r)'
    BY <1>1, <2>2, BackedStable DEF IInv
  <2>. QED
    BY <2>1, <2>3 DEF Backed
<1>. QED
  BY <1>2, <1>3 DEF IInv

LEMMA PlaceOrderStep ==
    ASSUME IInv, NEW o \in Orders, PlaceOrder(o)
    PROVE  IInv'
<1> DEFINE first == IF purchase[o].card = 0 THEN "LOCKED" ELSE "INITIATED"
<1>1. TypeOK /\ TypeOK' /\ RowSafe(o)
  BY PlaceOrderType DEF IInv
<1>2. \A x \in Orders \ {o} : Same(x)
  BY <1>1 DEF PlaceOrder, Same, TypeOK, people, stripe
<1>3. Grows(o)
  BY <1>1 DEF PlaceOrder, Grows, TypeOK, people, stripe
<1>4. status'[o] = first /\ ledger'[o] = {Entry(0, "INITIATED", first)}
  BY <1>1 DEF PlaceOrder, TypeOK
<1>5. BlockedEntries(o)' = {}
  BY <1>4 DEF BlockedEntries, Entry
<1>6. \A e \in ledger'[o] : e.at <= clock'[o]
  BY <1>1, <1>4 DEF Entry, PlaceOrder, TypeOK
<1>7. Evidence(o, status[o])'
  BY <1>4 DEF Evidence, Funded, PlaceOrder, stripe
<1>8. RowSafe(o)'
  BY <1>1, <1>4, <1>5, <1>6, <1>7 DEF RowSafe, NewestExists, Funded, PlaceOrder, stripe
<1>. QED
  BY <1>1, <1>2, <1>3, <1>8, ExternalStep DEF PlaceOrder

LEMMA CustomerPaysStep ==
    ASSUME IInv, NEW o \in Orders, CustomerPays(o)
    PROVE  IInv'
<1>1. TypeOK /\ TypeOK' /\ RowSafe(o)
  BY CustomerPaysType DEF IInv
<1>2. \A x \in Orders \ {o} : Same(x)
  BY <1>1 DEF CustomerPays, Same, TypeOK, rows, audit
<1>3. Grows(o)
  BY <1>1 DEF CustomerPays, Grows, TypeOK, rows, audit
<1>4. Funded(o)'
  BY <1>1 DEF CustomerPays, Funded, TypeOK
<1>5. RowSafe(o)'
  BY <1>1, <1>4 DEF CustomerPays, RowSafe, Evidence, NewestExists, BlockedEntries, rows, audit
<1>. QED
  BY <1>1, <1>2, <1>3, <1>5, ExternalStep DEF CustomerPays

LEMMA CreateStep ==
    ASSUME IInv, NEW p \in Procs, Create(p)
    PROVE  IInv'
<1>0. PICK r \in Request : r = req[p]
  BY BusyIsRequest DEF IInv, Create, Busy
<1> DEFINE o == r.order
<1>1. TypeOK /\ TypeOK' /\ r = req[p] /\ r.pc = "create" /\ Backed(r) /\ o \in Orders
  BY CreateType, <1>0, RequestFields DEF IInv, Create, Busy, Fields
<1>2. clock[o] \in Nat /\ clock'[o] = clock[o] + 1
  BY <1>1 DEF Create, TypeOK
<1>3. \A x \in Orders \ {o} : Same(x)
  BY <1>1 DEF Create, Same, TypeOK, rows, stripe
<1>4. Grows(o)
  BY <1>1, <1>2 DEF Create, Grows, TypeOK, rows, stripe
<1>5. RowSafe(o)'
  <2>1. RowSafe(o)
    BY <1>1 DEF IInv
  <2>2. \A e \in ledger[o] : e.at \in Nat
    BY <1>1 DEF TypeOK
  <2>3. \A e \in ledger'[o] : e.at <= clock'[o]
    BY <1>2, <2>1, <2>2 DEF RowSafe, Create
  <2>. QED
    BY <2>1, <2>3 DEF Create, RowSafe, Evidence, NewestExists, BlockedEntries, Funded, rows, stripe
<1>6. req'[p] = [r EXCEPT !.pc = IF r.op = "release" THEN "notify" ELSE "commit",
                          !.stamp = clock[o] + 1]
  BY <1>1 DEF Create, TypeOK
<1>7. /\ req'[p].pc = (IF r.op = "release" THEN "notify" ELSE "commit")
      /\ req'[p].op = r.op /\ req'[p].order = r.order
      /\ req'[p].stamp = clock[o] + 1 /\ req'[p].transfer = r.transfer
  BY <1>1, <1>6, RequestFields DEF Fields
<1>8. Backed(req[p])'
  BY <1>1, <1>2, <1>7 DEF Backed, Create, Funded, rows, stripe
<1>9. \A q \in Procs \ {p} : req'[q] = req[q]
  BY <1>1 DEF Create, TypeOK
<1>. QED
  BY <1>1, <1>3, <1>4, <1>5, <1>8, <1>9, ChangeStep

LEMMA ProofRecordStep ==
    ASSUME IInv, NEW p \in Procs, ProofRecord(p)
    PROVE  IInv'
<1>0. PICK r \in Request : r = req[p]
  BY BusyIsRequest DEF IInv, ProofRecord, Busy
<1> DEFINE o == r.order
<1>a. r.pc = "upload" /\ r.op = "deliver"
  BY <1>0, StageOf DEF ProofRecord, Busy
<1>b. r.order \in Orders
  BY RequestFields DEF Fields
<1>1. /\ TypeOK /\ TypeOK' /\ r = req[p] /\ r.pc = "upload" /\ r.op = "deliver"
      /\ Backed(r) /\ o \in Orders
  BY <1>0, <1>a, <1>b, ProofRecordType DEF IInv
<1>2. proof'[o] = TRUE /\ Funded(o) /\ Funded(o)'
  BY <1>1 DEF ProofRecord, TypeOK, Backed, Funded, stripe
<1>3. \A x \in Orders \ {o} : Same(x)
  BY <1>1 DEF ProofRecord, Same, TypeOK, audit, stripe
<1>4. Grows(o)
  BY <1>1, <1>2 DEF ProofRecord, Grows, TypeOK, audit, stripe
<1>5. RowSafe(o)'
  BY <1>1, <1>2 DEF IInv, ProofRecord, RowSafe, Evidence, NewestExists, BlockedEntries, Funded, audit, stripe
<1>6. req'[p] = [r EXCEPT !.pc = "load"]
  BY <1>1 DEF ProofRecord, Goto, TypeOK
<1>7. /\ req'[p].pc = "load" /\ req'[p].op = r.op /\ req'[p].order = r.order
      /\ req'[p].stamp = r.stamp
  BY <1>1, <1>6, RequestFields DEF Fields
<1>8. Backed(req[p])'
  BY <1>1, <1>2, <1>7 DEF Backed, ProofRecord, Funded, audit, stripe
<1>9. \A q \in Procs \ {p} : req'[q] = req[q]
  BY <1>1 DEF ProofRecord, Goto, TypeOK
<1>. QED
  BY <1>1, <1>3, <1>4, <1>5, <1>8, <1>9, ChangeStep

LEMMA ReleaseTransferStep ==
    ASSUME IInv, NEW p \in Procs, ReleaseTransfer(p)
    PROVE  IInv'
<1>0. PICK r \in Request : r = req[p]
  BY BusyIsRequest DEF IInv, ReleaseTransfer, Busy
<1> DEFINE o == r.order
           n == Len(transfers[o])
<1>a. r.pc = "transfer" /\ r.op = "release"
  BY <1>0, StageOf DEF ReleaseTransfer, Busy
<1>b. r.order \in Orders
  BY RequestFields DEF Fields
<1>1. /\ TypeOK /\ TypeOK' /\ r = req[p] /\ r.pc = "transfer" /\ r.op = "release"
      /\ Backed(r) /\ o \in Orders
  BY <1>0, <1>a, <1>b, ReleaseTransferType DEF IInv
<1>2. transfers[o] \in Seq(Farmers) /\ r.farmer \in Farmers
  BY <1>1, RequestFields DEF TypeOK
<1>3. transfers'[o] = Append(transfers[o], r.farmer)
  BY <1>1 DEF ReleaseTransfer, TypeOK
<1>4. n \in Nat /\ Len(transfers'[o]) = n + 1
  BY <1>2, <1>3
<1>5. \A x \in Orders \ {o} : Same(x)
  BY <1>1 DEF ReleaseTransfer, Same, TypeOK, rows, audit
<1>6. Grows(o)
  BY <1>1, <1>4 DEF ReleaseTransfer, Grows, TypeOK, rows, audit
<1>7. RowSafe(o)'
  <2>1. RowSafe(o) /\ proof[o] /\ Funded(o)
    BY <1>1 DEF IInv, Backed
  <2>2. proof'[o] /\ Funded(o)' /\ transferId'[o] = transferId[o] /\ transferId[o] \in Nat
    BY <1>1, <2>1 DEF ReleaseTransfer, Funded, TypeOK, rows
  <2>3. \A s : Evidence(o, s) => Evidence(o, s)'
    BY <1>1, <1>6, EvidenceStable
  <2>. QED
    BY <2>1, <2>2, <2>3 DEF ReleaseTransfer, RowSafe, NewestExists, BlockedEntries, rows, audit
<1>8. req'[p] = [r EXCEPT !.pc = "load", !.transfer = n + 1]
  BY <1>1 DEF ReleaseTransfer, TypeOK
<1>9. /\ req'[p].pc = "load" /\ req'[p].op = r.op /\ req'[p].order = r.order
      /\ req'[p].stamp = r.stamp /\ req'[p].transfer = n + 1
  BY <1>1, <1>8, RequestFields DEF Fields
<1>10. Backed(req[p])'
  BY <1>1, <1>4, <1>9 DEF Backed, ReleaseTransfer, Funded, rows, audit
<1>11. \A q \in Procs \ {p} : req'[q] = req[q]
  BY <1>1 DEF ReleaseTransfer, TypeOK
<1>. QED
  BY <1>1, <1>5, <1>6, <1>7, <1>10, <1>11, ChangeStep

LEMMA ReleaseNotifyStep ==
    ASSUME IInv, NEW p \in Procs, ReleaseNotify(p)
    PROVE  IInv'
<1>0. PICK r \in Request : r = req[p]
  BY BusyIsRequest DEF IInv, ReleaseNotify, Busy
<1> DEFINE o == r.order
<1>a. r.pc = "notify" /\ r.op = "release"
  BY <1>0, MoveRequest DEF ReleaseNotify, Busy
<1>b. r.order \in Orders
  BY RequestFields DEF Fields
<1>1. /\ TypeOK /\ TypeOK' /\ r = req[p] /\ r.pc = "notify" /\ r.op = "release"
      /\ Backed(r) /\ o \in Orders
  BY <1>0, <1>a, <1>b, ReleaseNotifyType DEF IInv
<1>2. \A x \in Orders : Same(x)
  BY DEF ReleaseNotify, Same, rows, audit, stripe
<1>3. Grows(o) /\ RowSafe(o)'
  BY <1>1, <1>2, SameGrows, RowStable DEF IInv, Same
<1>4. req'[p] = [r EXCEPT !.pc = "commit"]
  BY <1>1 DEF ReleaseNotify, Goto, TypeOK
<1>5. /\ req'[p].pc = "commit" /\ req'[p].op = r.op /\ req'[p].order = r.order
      /\ req'[p].stamp = r.stamp /\ req'[p].transfer = r.transfer
  BY <1>1, <1>4, RequestFields DEF Fields
<1>6. Backed(req[p])'
  BY <1>1, <1>5 DEF Backed, ReleaseNotify, Funded, rows, audit, stripe
<1>7. \A q \in Procs \ {p} : req'[q] = req[q]
  BY <1>1 DEF ReleaseNotify, Goto, TypeOK
<1>. QED
  BY <1>1, <1>2, <1>3, <1>6, <1>7, ChangeStep

(* The commits of transition(): the status written without a condition on  *)
(* the row still has its evidence, because evidence is never taken back.   *)
LEMMA AdvanceStep ==
    ASSUME IInv, TypeOK', NEW p \in Procs, Busy(p, "commit"), Advance(p),
           UNCHANGED <<purchase, proof, clock, paid, transfers>>,
           IF req[p].op = "release"
           THEN transferId' = [transferId EXCEPT ![req[p].order] = req[p].transfer]
           ELSE UNCHANGED transferId
    PROVE  IInv'
<1>0. PICK r \in Request : r = req[p]
  BY BusyIsRequest DEF IInv, Busy
<1> DEFINE o == r.order
           e == Entry(r.stamp, r.seen, Target[r.op])
<1>1. r.pc = "commit" /\ r.op \in {"lock", "deliver", "release"}
  BY <1>0, MoveRequest DEF Busy
<1>2. o \in Orders /\ r.stamp \in Nat /\ r.transfer \in Nat
  BY RequestFields DEF Fields
<1>3. TypeOK /\ Backed(r) /\ RowSafe(o)
  BY <1>0, <1>2 DEF IInv
<1>4. status'[o] = Target[r.op] /\ ledger'[o] = ledger[o] \cup {e}
  BY <1>0, <1>2, <1>3 DEF Advance, TypeOK
<1>5. IF r.op = "release" THEN transferId'[o] = r.transfer ELSE transferId'[o] = transferId[o]
  BY <1>0, <1>2, <1>3 DEF TypeOK
<1>6. \A x \in Orders \ {o} : Same(x)
  BY <1>0, <1>2, <1>3 DEF Advance, Same, TypeOK
<1>7. Grows(o)
  BY <1>1, <1>2, <1>3, <1>5 DEF Grows, Backed, TypeOK
<1>8. \A s : Evidence(o, s) => Evidence(o, s)'
  BY <1>2, <1>3, <1>7, EvidenceStable
<1>9. Target[r.op] # "BLOCKED" /\ Evidence(o, Target[r.op])'
  BY <1>1, <1>3, <1>5 DEF Target, Evidence, Backed, Funded
<1>10. BlockedEntries(o)' = BlockedEntries(o)
  BY <1>4, <1>9 DEF BlockedEntries, Entry
<1>11. \A d \in ledger'[o] : d.at <= clock'[o]
  BY <1>3, <1>4 DEF Backed, RowSafe, Entry
<1>12. RowSafe(o)'
  BY <1>3, <1>4, <1>8, <1>9, <1>10, <1>11 DEF RowSafe, NewestExists, Funded
<1>13. \A q \in Procs \ {p} : req'[q] = req[q]
  BY <1>3, ReplyBacked DEF Advance
<1>14. (req[p] \in Request => Backed(req[p]))'
  BY <1>3, ReplyBacked DEF Advance
<1>. QED
  BY <1>2, <1>6, <1>7, <1>12, <1>13, <1>14, ChangeStep

LEMMA WebhookCommitStep ==
    ASSUME IInv, NEW p \in Procs, WebhookCommit(p)
    PROVE  IInv'
BY AdvanceStep, WebhookCommitType DEF IInv, WebhookCommit, people

LEMMA DeliverCommitStep ==
    ASSUME IInv, NEW p \in Procs, DeliverCommit(p)
    PROVE  IInv'
BY AdvanceStep, DeliverCommitType DEF IInv, DeliverCommit, people, stripe

LEMMA ReleaseCommitStep ==
    ASSUME IInv, NEW p \in Procs, ReleaseCommit(p)
    PROVE  IInv'
BY AdvanceStep, ReleaseCommitType DEF IInv, ReleaseCommit, stripe

(* blockOrder and unblockOrder: a new entry is newer than every other one, *)
(* and what it saves has its evidence.                                     *)
LEMMA AdminWriteStep ==
    ASSUME IInv, TypeOK', NEW p \in Procs, req[p] \in Request,
           NEW prev \in EscrowState, NEW next \in EscrowState, AdminWrite(p, prev, next),
           Evidence(req[p].order, next),
           next = "BLOCKED" => Evidence(req[p].order, prev)
    PROVE  IInv'
<1>0. PICK r \in Request : r = req[p]
  OBVIOUS
<1> DEFINE o == r.order
           e == Entry(clock[o] + 1, prev, next)
<1>1. o \in Orders
  BY RequestFields DEF Fields
<1>2. TypeOK /\ RowSafe(o)
  BY <1>1 DEF IInv
<1>3. /\ status'[o] = next /\ ledger'[o] = ledger[o] \cup {e}
      /\ clock'[o] = clock[o] + 1 /\ clock[o] \in Nat
  BY <1>0, <1>1, <1>2 DEF AdminWrite, TypeOK
<1>4. \A x \in Orders \ {o} : Same(x)
  BY <1>0, <1>1, <1>2 DEF AdminWrite, Same, TypeOK, stripe
<1>5. Grows(o)
  BY <1>1, <1>2, <1>3 DEF AdminWrite, Grows, TypeOK, stripe
<1>6. \A s : Evidence(o, s) => Evidence(o, s)'
  BY <1>1, <1>2, <1>5, EvidenceStable
<1>7. \A d \in ledger[o] : d.at \in Nat /\ d.at <= clock[o]
  BY <1>1, <1>2 DEF TypeOK, RowSafe
<1>8. \A d \in ledger'[o] : d.at <= clock'[o]
  BY <1>3, <1>7 DEF Entry
<1>9. \A d \in BlockedEntries(o)' : Evidence(o, d.prev)'
  BY <1>0, <1>2, <1>3, <1>6 DEF BlockedEntries, Entry, RowSafe
<1>10. NewestExists(o)' /\ (next = "BLOCKED" => BlockedEntries(o)' # {})
  <2>1. CASE next = "BLOCKED"
    <3>1. e \in BlockedEntries(o)' /\ \A d \in BlockedEntries(o)' : d.at <= e.at
      BY <1>3, <1>7, <2>1 DEF BlockedEntries, Entry
    <3>. QED
      BY <3>1 DEF NewestExists
  <2>2. CASE next # "BLOCKED"
    <3>1. BlockedEntries(o)' = BlockedEntries(o)
      BY <1>3, <2>2 DEF BlockedEntries, Entry
    <3>. QED
      BY <1>2, <2>2, <3>1 DEF NewestExists, RowSafe
  <2>. QED
    BY <2>1, <2>2
<1>11. RowSafe(o)'
  BY <1>0, <1>2, <1>3, <1>6, <1>8, <1>9, <1>10 DEF AdminWrite, RowSafe, Funded, stripe
<1>12. \A q \in Procs \ {p} : req'[q] = req[q]
  BY <1>2, ReplyBacked DEF AdminWrite
<1>13. (req[p] \in Request => Backed(req[p]))'
  BY <1>2, ReplyBacked DEF AdminWrite
<1>. QED
  BY <1>1, <1>4, <1>5, <1>11, <1>12, <1>13, ChangeStep

LEMMA AdminStep ==
    ASSUME IInv, NEW p \in Procs, BlockWrite(p) \/ UnblockWrite(p)
    PROVE  IInv'
<1>1. /\ TypeOK' /\ req[p] \in Request /\ req[p].seen \in EscrowState
      /\ "BLOCKED" \in EscrowState
  BY AdminType, AdminRequest DEF IInv
<1>2. Evidence(req[p].order, req[p].seen) /\ Evidence(req[p].order, "BLOCKED")
  BY <1>1 DEF IInv, Backed, Evidence, BlockWrite, UnblockWrite, Busy
<1>. QED
  BY <1>1, <1>2, AdminWriteStep DEF BlockWrite, UnblockWrite

-----------------------------------------------------------------------------
(* The invariant holds in every reachable state.                           *)

LEMMA InitIInv == Init => IInv
<1> SUFFICES ASSUME Init PROVE IInv
  OBVIOUS
<1>1. TypeOK
  BY InitType
<1>2. \A o \in Orders : RowSafe(o)
  BY DEF Init, RowSafe, Evidence, NewestExists, BlockedEntries, Funded
<1>3. \A p \in Procs : req[p] \notin Request
  BY IdleIsNoRequest DEF Init
<1>. QED
  BY <1>1, <1>2, <1>3 DEF IInv

LEMMA StepIInv ==
    ASSUME IInv, NEW p \in Procs, Step(p) \/ Abort(p)
    PROVE  IInv'
<1>1. CASE Load(p)
  BY <1>1, LoadStep
<1>2. CASE Create(p)
  BY <1>2, CreateStep
<1>3. CASE WebhookCommit(p)
  BY <1>3, WebhookCommitStep
<1>4. CASE ProofRead(p)
  BY <1>4, ProofReadStep
<1>5. CASE ProofRecord(p)
  BY <1>5, ProofRecordStep
<1>6. CASE DeliverCommit(p)
  BY <1>6, DeliverCommitStep
<1>7. CASE ReleaseRecheck(p)
  BY <1>7, ReleaseRecheckStep
<1>8. CASE ReleaseTransfer(p)
  BY <1>8, ReleaseTransferStep
<1>9. CASE ReleaseNotify(p)
  BY <1>9, ReleaseNotifyStep
<1>10. CASE ReleaseCommit(p)
  BY <1>10, ReleaseCommitStep
<1>11. CASE BlockWrite(p) \/ UnblockWrite(p)
  BY <1>11, AdminStep
<1>12. CASE ReleaseRefused(p) \/ ReleaseRollback(p) \/ Abort(p)
  BY <1>12, EndStep DEF ReleaseRefused, ReleaseRollback, Abort
<1>. QED
  BY <1>1, <1>2, <1>3, <1>4, <1>5, <1>6, <1>7, <1>8, <1>9, <1>10, <1>11, <1>12 DEF Step

LEMMA ReceiveIInv ==
    ASSUME IInv, NEW p \in Procs, NEW o \in Orders, Receive(p, o)
    PROVE  IInv'
<1>1. CASE WebhookReceive(p, o)
  BY <1>1, WebhookReceiveStep
<1>2. CASE \E f \in Farmers : ProofReceive(p, o, f) \/ ReleaseReceive(p, o, f)
  BY <1>2, ProofReceiveStep, ReleaseReceiveStep
<1>3. CASE BlockRead(p, o)
  BY <1>3, BlockReadStep
<1>4. CASE UnblockRead(p, o)
  BY <1>4, UnblockReadStep
<1>. QED
  BY <1>1, <1>2, <1>3, <1>4 DEF Receive

LEMMA StutterIInv == IInv /\ UNCHANGED vars => IInv'
<1> SUFFICES ASSUME IInv, UNCHANGED vars PROVE IInv'
  OBVIOUS
<1>1. TypeOK'
  BY DEF IInv, TypeOK, vars, rows, audit, people, stripe
<1>2. \A o \in Orders : RowSafe(o)'
  BY RowStable DEF IInv, vars, rows, audit, stripe
<1>3. (\A p \in Procs : req[p] \in Request => Backed(req[p]))'
  BY DEF IInv, Backed, Evidence, Funded, vars, rows, audit, people, stripe
<1>. QED
  BY <1>1, <1>2, <1>3 DEF IInv

(* IInv is an invariant: the evidence behind every status, entry and       *)
(* request of the escrow survives every step, overlap and fault.           *)
THEOREM Invariance == Spec => []IInv
<1>1. Init => IInv
  BY InitIInv
<1>2. IInv /\ [Next]_vars => IInv'
  <2> SUFFICES ASSUME IInv, Next PROVE IInv'
    BY StutterIInv
  <2>1. CASE \E o \in Orders : PlaceOrder(o) \/ CustomerPays(o)
    BY <2>1, PlaceOrderStep, CustomerPaysStep
  <2>2. CASE \E p \in Procs, o \in Orders : Receive(p, o)
    BY <2>2, ReceiveIInv
  <2>3. CASE \E p \in Procs : Step(p) \/ Abort(p)
    BY <2>3, StepIInv
  <2>. QED
    BY <2>1, <2>2, <2>3 DEF Next
<1>. QED
  BY <1>1, <1>2, PTL DEF Spec

(* Rows, Stripe's records and requests keep their shape.                   *)
THEOREM TypeCorrect == Spec => []TypeOK
<1>1. IInv => TypeOK
  BY DEF IInv
<1>. QED
  BY <1>1, Invariance, PTL

(* LOCKED, DELIVERED and RELEASED orders hold money that arrived.          *)
THEOREM Funding == Spec => []EscrowIsFunded
<1>1. IInv => EscrowIsFunded
  BY DEF IInv, RowSafe, Evidence, EscrowIsFunded
<1>. QED
  BY <1>1, Invariance, PTL

(* Farmers are paid for funded orders with an accepted proof of delivery.  *)
THEOREM Payouts == Spec => []PayoutNeedsDelivery
<1>1. IInv => PayoutNeedsDelivery
  BY DEF IInv, RowSafe, PayoutNeedsDelivery
<1>. QED
  BY <1>1, Invariance, PTL

(* A released order names a transfer that was made.                        *)
THEOREM Releases == Spec => []ReleasedWasPaidOut
<1>1. IInv => ReleasedWasPaidOut
  BY DEF IInv, RowSafe, Evidence, ReleasedWasPaidOut
<1>. QED
  BY <1>1, Invariance, PTL

(* A blocked order can always be unblocked.                                *)
THEOREM Blocks == Spec => []BlockedCanBeRestored
<1>1. IInv => BlockedCanBeRestored
  BY DEF IInv, RowSafe, BlockedCanBeRestored
<1>. QED
  BY <1>1, Invariance, PTL
-----------------------------------------------------------------------------
(* What a step does to the request that takes it, and what a commit does   *)
(* to its order.  The layers of invariants below share these facts.        *)

Only(p) == \A q \in Procs \ {p} : req'[q] = req[q]

(* The request is kept, but for the locals that a handler amends.          *)
Moves(p, pc) ==
    /\ req'[p].pc = pc /\ req'[p].op = req[p].op /\ req'[p].order = req[p].order
    /\ req'[p].farmer = req[p].farmer

Moving == {"lock", "deliver", "release"}

LEMMA ReplyEffect ==
    ASSUME TypeOK, NEW p \in Procs, Reply(p)
    PROVE  Only(p) /\ req'[p] = Idle /\ req'[p] \notin Request
BY IdleIsNoRequest DEF Reply, TypeOK, Only

LEMMA GotoEffect ==
    ASSUME TypeOK, NEW p \in Procs, req[p] \in Request, NEW pc, Goto(p, pc)
    PROVE  /\ Only(p) /\ Moves(p, pc)
           /\ req'[p].seen = req[p].seen /\ req'[p].stamp = req[p].stamp
<1>1. PICK r \in Fields : r = req[p]
  BY RequestFields
<1>2. req'[p] = [r EXCEPT !.pc = pc] /\ Only(p)
  BY <1>1 DEF Goto, TypeOK, Only
<1>. QED
  BY <1>1, <1>2 DEF Moves, Fields

LEMMA BeginEffect ==
    ASSUME TypeOK, NEW p \in Procs, NEW pc, NEW op, NEW o, NEW f, NEW s, Begin(p, pc, op, o, f, s)
    PROVE  /\ Only(p)
           /\ req'[p].pc = pc /\ req'[p].op = op /\ req'[p].order = o
           /\ req'[p].farmer = f /\ req'[p].seen = s
<1>1. Only(p) /\ req'[p] = [pc |-> pc, op |-> op, order |-> o, farmer |-> f,
                            seen |-> s, stamp |-> 0, transfer |-> 0]
  BY DEF Begin, TypeOK, Only
<1>. QED
  BY <1>1

(* The check of transition(): it fails and the request ends, or the status *)
(* is the one the move expects.                                            *)
LEMMA LoadEffect ==
    ASSUME TypeOK, NEW p \in Procs, Load(p)
    PROVE  /\ req[p] \in Request /\ req[p].pc = "load" /\ req[p].order \in Orders
           /\ req[p].op \in Moving
           /\ UNCHANGED <<rows, audit, people, stripe>>
           /\ \/ Reply(p) /\ status[req[p].order] # Expected[req[p].op]
              \/ /\ Only(p) /\ Moves(p, "create")
                 /\ status[req[p].order] = Expected[req[p].op]
                 /\ req'[p].seen = Expected[req[p].op]
<1>1. PICK r \in Fields : r = req[p] /\ r.pc = "load" /\ r \in Request
  BY BusyIsRequest, RequestFields DEF Load, Busy
<1>2. r.op \in Moving /\ r.order \in Orders
  BY <1>1, MoveRequest DEF Moving, Fields
<1>3. Target[r.op] \in VALID_TRANSITIONS[Expected[r.op]]
  BY <1>2 DEF Moving, Target, Expected, VALID_TRANSITIONS
<1>4. CASE status[r.order] # Expected[r.op]
  BY <1>1, <1>2, <1>4 DEF Load
<1>5. CASE status[r.order] = Expected[r.op]
  <2>1. req' = [req EXCEPT ![p] = [r EXCEPT !.pc = "create", !.seen = status[r.order]]]
    BY <1>1, <1>3, <1>5 DEF Load
  <2>2. Only(p) /\ req'[p] = [r EXCEPT !.pc = "create", !.seen = status[r.order]]
    BY <2>1 DEF Only, TypeOK
  <2>3. Moves(p, "create") /\ req'[p].seen = status[r.order]
    BY <1>1, <2>2 DEF Moves, Fields
  <2>. QED
    BY <1>1, <1>2, <1>5, <2>2, <2>3 DEF Load
<1>. QED
  BY <1>4, <1>5

LEMMA CreateEffect ==
    ASSUME TypeOK, NEW p \in Procs, Create(p)
    PROVE  /\ req[p] \in Request /\ req[p].pc = "create" /\ req[p].order \in Orders
           /\ req[p].op \in Moving
           /\ UNCHANGED <<rows, ledger, people, stripe>>
           /\ Only(p) /\ Moves(p, IF req[p].op = "release" THEN "notify" ELSE "commit")
           /\ req'[p].seen = req[p].seen /\ req'[p].stamp = clock[req[p].order] + 1
           /\ clock[req[p].order] \in Nat
<1> DEFINE o == req[p].order
           pc == IF req[p].op = "release" THEN "notify" ELSE "commit"
<1>1. PICK r \in Fields : r = req[p] /\ r.pc = "create" /\ r \in Request
  BY BusyIsRequest, RequestFields DEF Create, Busy
<1>2. r.op \in Moving /\ o \in Orders
  BY <1>1, MoveRequest DEF Moving, Fields
<1>3. PICK n \in Nat : n = clock[o] + 1 /\ clock[o] \in Nat
  BY <1>2 DEF TypeOK
<1>4. Only(p) /\ req'[p] = [r EXCEPT !.pc = pc, !.stamp = n]
  BY <1>1, <1>3 DEF Create, Only, TypeOK
<1>5. Moves(p, pc) /\ req'[p].seen = r.seen /\ req'[p].stamp = n
  BY <1>1, <1>4 DEF Moves, Fields
<1>. QED
  BY <1>1, <1>2, <1>3, <1>4, <1>5 DEF Create

LEMMA TransferEffect ==
    ASSUME TypeOK, NEW p \in Procs, ReleaseTransfer(p)
    PROVE  /\ req[p] \in Request /\ req[p].pc = "transfer" /\ req[p].order \in Orders
           /\ req[p].op = "release"
           /\ UNCHANGED <<rows, audit, people, paid, acked>>
           /\ Only(p) /\ Moves(p, "load")
           /\ Len(transfers[req[p].order]) \in Nat
           /\ Len(transfers'[req[p].order]) = Len(transfers[req[p].order]) + 1
           /\ \A x \in Orders \ {req[p].order} : transfers'[x] = transfers[x]
<1> DEFINE o == req[p].order
<1>1. PICK r \in Fields : r = req[p] /\ r.pc = "transfer" /\ r \in Request
  BY BusyIsRequest, RequestFields DEF ReleaseTransfer, Busy
<1>2. r.op = "release" /\ o \in Orders /\ r.farmer \in Farmers
  BY <1>1, StageOf, RequestFields DEF Fields
<1>3. transfers[o] \in Seq(Farmers) /\ transfers' = [transfers EXCEPT ![o] = Append(transfers[o], r.farmer)]
  BY <1>1, <1>2 DEF ReleaseTransfer, TypeOK
<1>4. transfers'[o] = Append(transfers[o], r.farmer) /\ \A x \in Orders \ {o} : transfers'[x] = transfers[x]
  BY <1>2, <1>3 DEF TypeOK
<1>5. Len(transfers[o]) \in Nat /\ Len(transfers'[o]) = Len(transfers[o]) + 1
  BY <1>2, <1>3, <1>4
<1>6. PICK n \in Nat : n = Len(transfers[o]) + 1
  BY <1>5
<1>7. Only(p) /\ req'[p] = [r EXCEPT !.pc = "load", !.transfer = n]
  BY <1>1, <1>6 DEF ReleaseTransfer, Only, TypeOK
<1>8. Moves(p, "load")
  BY <1>1, <1>7 DEF Moves, Fields
<1>. QED
  BY <1>1, <1>2, <1>4, <1>5, <1>7, <1>8 DEF ReleaseTransfer

(* Status and ledger of one order move, those of the others stay.          *)
Writes(o, e) ==
    /\ status'[o] = e.cur /\ ledger'[o] = ledger[o] \cup {e}
    /\ \A x \in Orders \ {o} : status'[x] = status[x] /\ ledger'[x] = ledger[x]

LEMMA CommitEffect ==
    ASSUME TypeOK, NEW p \in Procs, Busy(p, "commit"), Advance(p)
    PROVE  /\ req[p] \in Request /\ req[p].pc = "commit" /\ req[p].order \in Orders
           /\ req[p].op \in Moving
           /\ Reply(p)
           /\ Writes(req[p].order, Entry(req[p].stamp, req[p].seen, Target[req[p].op]))
<1>1. PICK r \in Fields : r = req[p] /\ r.pc = "commit" /\ r \in Request
  BY BusyIsRequest, RequestFields DEF Busy
<1>2. r.op \in Moving /\ r.order \in Orders
  BY <1>1, MoveRequest DEF Moving, Fields
<1>. QED
  BY <1>1, <1>2 DEF Advance, TypeOK, Writes, Entry

LEMMA AdminEffect ==
    ASSUME TypeOK, NEW p \in Procs, BlockWrite(p) \/ UnblockWrite(p)
    PROVE  /\ req[p] \in Request /\ req[p].pc = "write" /\ req[p].order \in Orders
           /\ Reply(p) /\ clock[req[p].order] \in Nat
           /\ \/ /\ req[p].op = "block"
                 /\ Writes(req[p].order, Entry(clock[req[p].order] + 1, req[p].seen, "BLOCKED"))
              \/ /\ req[p].op = "unblock"
                 /\ Writes(req[p].order, Entry(clock[req[p].order] + 1, "BLOCKED", req[p].seen))
           /\ UNCHANGED <<purchase, orderStatus, proof, transferId, people, stripe>>
<1>1. req[p] \in Request /\ req[p].order \in Orders /\ req[p].pc = "write"
  BY AdminRequest DEF BlockWrite, UnblockWrite, Busy
<1>2. CASE BlockWrite(p)
  BY <1>1, <1>2 DEF BlockWrite, AdminWrite, TypeOK, Writes, Entry
<1>3. CASE UnblockWrite(p)
  BY <1>1, <1>3 DEF UnblockWrite, AdminWrite, TypeOK, Writes, Entry
<1>. QED
  BY <1>2, <1>3

-----------------------------------------------------------------------------
(* The order marked paid.  A second invariant, of every behaviour: what a  *)
(* request that may commit has read, and that an order without a row has   *)
(* neither entries nor a payment.                                          *)

IsLock(e) == e.prev = "INITIATED" /\ e.cur = "LOCKED" /\ e.at > 0

Marked(o) ==
    /\ orderStatus[o] = "paid" <=> \E e \in ledger[o] : IsLock(e)
    /\ ~Placed(o) => ledger[o] = {} /\ ~paid[o]

Knows(r) ==
    /\ Placed(r.order)
    /\ r.pc \in {"create", "notify", "commit"} => r.seen = Expected[r.op]
    /\ r.pc \in {"notify", "commit"} => r.stamp > 0

MInv ==
    /\ \A o \in Orders : Marked(o)
    /\ \A p \in Procs : req[p] \in Request => Knows(req[p])

(* An order that was placed stays placed; only the stepping request counts.*)
Stays(o) == Placed(o) => Placed(o)'

LEMMA OthersKnow ==
    ASSUME MInv, NEW q \in Procs, req'[q] = req[q], \A o \in Orders : Stays(o)
    PROVE  (req[q] \in Request => Knows(req[q]))'
<1> SUFFICES ASSUME req[q] \in Request PROVE Knows(req[q])'
  OBVIOUS
<1>1. PICK r \in Request : r = req[q] /\ r.order \in Orders
  BY RequestFields DEF Fields
<1>2. Knows(r) /\ Stays(r.order)
  BY <1>1 DEF MInv
<1>3. req'[q] = r /\ Placed(r.order)'
  BY <1>1, <1>2 DEF Knows, Stays
<1>. QED
  BY <1>2, <1>3 DEF Knows, Placed

LEMMA MarkStep ==
    ASSUME TypeOK, MInv, NEW p \in Procs, Only(p), \A o \in Orders : Stays(o),
           \A o \in Orders : Marked(o)',
           (req[p] \in Request => Knows(req[p]))'
    PROVE  MInv'
BY OthersKnow DEF MInv, Only

(* Steps that leave status, ledger, payment and order status alone.        *)
LEMMA UnmarkedStep ==
    ASSUME TypeOK, MInv, NEW p \in Procs, Only(p),
           UNCHANGED <<status, orderStatus, ledger, paid>>,
           (req[p] \in Request => Knows(req[p]))'
    PROVE  MInv'
<1>1. \A o \in Orders : Stays(o) /\ Marked(o)'
  BY DEF MInv, Marked, Stays, Placed, IsLock
<1>. QED
  BY <1>1, MarkStep

LEMMA ReplyMarks ==
    ASSUME TypeOK, MInv, NEW p \in Procs, Reply(p),
           UNCHANGED <<status, orderStatus, ledger, paid>>
    PROVE  MInv'
BY ReplyEffect, UnmarkedStep

LEMMA BeginMarks ==
    ASSUME TypeOK, MInv, NEW p \in Procs, NEW pc, NEW op, NEW o \in Orders, NEW f, NEW s,
           Begin(p, pc, op, o, f, s), UNCHANGED <<rows, audit, people, stripe>>,
           Placed(o), pc \notin {"create", "notify", "commit"}
    PROVE  MInv'
<1>1. Only(p) /\ req'[p].pc = pc /\ req'[p].order = o
  BY BeginEffect
<1>2. (req[p] \in Request => Knows(req[p]))'
  BY <1>1 DEF Knows, Placed, rows
<1>. QED
  BY <1>1, <1>2, UnmarkedStep DEF rows, audit, stripe

LEMMA ReceiveMarks ==
    ASSUME TypeOK, MInv, NEW p \in Procs, NEW o \in Orders, Receive(p, o)
    PROVE  MInv'
<1>1. CASE WebhookReceive(p, o)
  <2>1. Placed(o)
    BY <1>1 DEF WebhookReceive, MInv, Marked
  <2>. QED
    BY <1>1, <2>1, BeginMarks DEF WebhookReceive
<1>2. ASSUME NEW f \in Farmers, ProofReceive(p, o, f) PROVE MInv'
  BY <1>2, BeginMarks DEF ProofReceive, Placed
<1>3. ASSUME NEW f \in Farmers, ReleaseReceive(p, o, f) PROVE MInv'
  BY <1>3, BeginMarks DEF ReleaseReceive, Placed
<1>4. CASE BlockRead(p, o)
  BY <1>4, BeginMarks DEF BlockRead
<1>5. CASE UnblockRead(p, o)
  BY <1>5, BeginMarks DEF UnblockRead, Placed
<1>. QED
  BY <1>1, <1>2, <1>3, <1>4, <1>5 DEF Receive

LEMMA GotoMarks ==
    ASSUME TypeOK, MInv, NEW p \in Procs, req[p] \in Request, NEW pc, Goto(p, pc),
           UNCHANGED <<status, orderStatus, ledger, paid>>,
           pc \notin {"create", "notify", "commit"} \/ req[p].pc = "notify"
    PROVE  MInv'
<1>1. /\ Only(p) /\ Moves(p, pc)
      /\ req'[p].seen = req[p].seen /\ req'[p].stamp = req[p].stamp
  BY GotoEffect
<1>2. Knows(req[p])
  BY DEF MInv
<1>3. (req[p] \in Request => Knows(req[p]))'
  BY <1>1, <1>2 DEF Knows, Placed, Moves
<1>. QED
  BY <1>1, <1>3, UnmarkedStep

LEMMA LoadMarks ==
    ASSUME TypeOK, MInv, NEW p \in Procs, Load(p)
    PROVE  MInv'
<1>1. UNCHANGED <<status, orderStatus, ledger, paid>>
  BY DEF Load, rows, audit, stripe
<1>2. CASE Reply(p)
  BY <1>1, <1>2, ReplyMarks
<1>3. CASE ~Reply(p)
  <2>1. Only(p) /\ Moves(p, "create") /\ req'[p].seen = Expected[req[p].op] /\ req[p] \in Request
    BY <1>3, LoadEffect
  <2>2. Knows(req[p])
    BY <2>1 DEF MInv
  <2>3. (req[p] \in Request => Knows(req[p]))'
    BY <1>1, <2>1, <2>2 DEF Knows, Placed, Moves
  <2>. QED
    BY <1>1, <2>1, <2>3, UnmarkedStep
<1>. QED
  BY <1>2, <1>3

LEMMA CreateMarks ==
    ASSUME TypeOK, MInv, NEW p \in Procs, Create(p)
    PROVE  MInv'
<1>1. PICK pc : Moves(p, pc)
  BY CreateEffect
<1>2. /\ Only(p) /\ req[p] \in Request /\ req[p].pc = "create" /\ req'[p].seen = req[p].seen
      /\ req'[p].stamp = clock[req[p].order] + 1 /\ clock[req[p].order] \in Nat
      /\ UNCHANGED <<status, orderStatus, ledger, paid>>
  BY CreateEffect DEF rows, stripe
<1>3. Knows(req[p])
  BY <1>2 DEF MInv
<1>4. (req[p] \in Request => Knows(req[p]))'
  BY <1>1, <1>2, <1>3 DEF Knows, Placed, Moves
<1>. QED
  BY <1>2, <1>4, UnmarkedStep

LEMMA TransferMarks ==
    ASSUME TypeOK, MInv, NEW p \in Procs, ReleaseTransfer(p)
    PROVE  MInv'
<1>1. /\ Only(p) /\ req[p] \in Request /\ Moves(p, "load")
      /\ UNCHANGED <<status, orderStatus, ledger, paid>>
  BY TransferEffect DEF rows, audit
<1>2. Knows(req[p])
  BY <1>1 DEF MInv
<1>3. (req[p] \in Request => Knows(req[p]))'
  BY <1>1, <1>2 DEF Knows, Placed, Moves
<1>. QED
  BY <1>1, <1>3, UnmarkedStep

(* A write to the ledger keeps order and ledger in step, if the order is   *)
(* marked paid exactly when the entry is the webhook's lock.               *)
LEMMA WriteMarks ==
    ASSUME TypeOK, MInv, NEW p \in Procs, NEW o \in Orders, NEW e, Reply(p), Writes(o, e),
           Placed(o), e.cur # "NONE", UNCHANGED paid,
           IF IsLock(e) THEN orderStatus' = [orderStatus EXCEPT ![o] = "paid"]
                        ELSE UNCHANGED orderStatus
    PROVE  MInv'
<1>1. \A x \in Orders : Stays(x)
  BY DEF Writes, Stays, Placed
<1>2. Marked(o)'
  BY DEF MInv, Marked, Writes, Placed, TypeOK
<1>3. \A x \in Orders \ {o} : Marked(x)'
  BY DEF MInv, Marked, Writes, Placed, TypeOK
<1>. QED
  BY <1>1, <1>2, <1>3, ReplyEffect, MarkStep

LEMMA CommitMarks ==
    ASSUME TypeOK, MInv, NEW p \in Procs,
           WebhookCommit(p) \/ DeliverCommit(p) \/ ReleaseCommit(p)
    PROVE  MInv'
<1> DEFINE r == req[p]
           e == Entry(r.stamp, r.seen, Target[r.op])
<1>1. Busy(p, "commit") /\ Advance(p) /\ UNCHANGED paid
  BY DEF WebhookCommit, DeliverCommit, ReleaseCommit, stripe
<1>2. /\ r \in Request /\ r.order \in Orders /\ r.op \in Moving /\ r.pc = "commit"
      /\ Reply(p) /\ Writes(r.order, e)
  BY <1>1, CommitEffect
<1>3. Knows(r)
  BY <1>2 DEF MInv
<1>4. e.cur = Target[r.op] /\ e.prev = r.seen /\ e.at = r.stamp
  BY DEF Entry
<1>5. CASE r.op = "lock"
  <2>1. IsLock(e) /\ e.cur # "NONE"
    BY <1>2, <1>3, <1>4, <1>5 DEF IsLock, Knows, Target, Expected
  <2>2. orderStatus' = [orderStatus EXCEPT ![r.order] = "paid"]
    BY <1>5 DEF WebhookCommit, DeliverCommit, ReleaseCommit
  <2>. QED
    BY <1>1, <1>2, <1>3, <2>1, <2>2, WriteMarks DEF Knows
<1>6. CASE r.op # "lock"
  <2>1. ~IsLock(e) /\ e.cur # "NONE"
    BY <1>2, <1>4, <1>6 DEF IsLock, Target, Moving
  <2>2. UNCHANGED orderStatus
    BY <1>6 DEF WebhookCommit, DeliverCommit, ReleaseCommit
  <2>. QED
    BY <1>1, <1>2, <1>3, <2>1, <2>2, WriteMarks DEF Knows
<1>. QED
  BY <1>5, <1>6

LEMMA AdminMarks ==
    ASSUME TypeOK, MInv, NEW p \in Procs, BlockWrite(p) \/ UnblockWrite(p)
    PROVE  MInv'
<1> DEFINE r == req[p]
           n == clock[r.order] + 1
<1>1. /\ r \in Request /\ r.order \in Orders /\ r.seen \in EscrowState /\ Reply(p)
      /\ UNCHANGED <<orderStatus, paid>>
      /\ \/ Writes(r.order, Entry(n, r.seen, "BLOCKED"))
         \/ Writes(r.order, Entry(n, "BLOCKED", r.seen))
  BY AdminEffect, AdminRequest DEF stripe
<1>2. Placed(r.order)
  BY <1>1 DEF MInv, Knows
<1>3. CASE Writes(r.order, Entry(n, r.seen, "BLOCKED"))
  <2>1. ~IsLock(Entry(n, r.seen, "BLOCKED")) /\ Entry(n, r.seen, "BLOCKED").cur # "NONE"
    BY DEF IsLock, Entry
  <2>. QED
    BY <1>1, <1>2, <1>3, <2>1, WriteMarks
<1>4. CASE Writes(r.order, Entry(n, "BLOCKED", r.seen))
  <2>1. ~IsLock(Entry(n, "BLOCKED", r.seen)) /\ Entry(n, "BLOCKED", r.seen).cur # "NONE"
    BY <1>1 DEF IsLock, Entry, EscrowState
  <2>. QED
    BY <1>1, <1>2, <1>4, <2>1, WriteMarks
<1>. QED
  BY <1>1, <1>3, <1>4

LEMMA StepMarks ==
    ASSUME TypeOK, MInv, NEW p \in Procs, Step(p) \/ Abort(p)
    PROVE  MInv'
<1>1. CASE Load(p)
  BY <1>1, LoadMarks
<1>2. CASE Create(p)
  BY <1>2, CreateMarks
<1>3. CASE ReleaseTransfer(p)
  BY <1>3, TransferMarks
<1>4. CASE WebhookCommit(p) \/ DeliverCommit(p) \/ ReleaseCommit(p)
  BY <1>4, CommitMarks
<1>5. CASE BlockWrite(p) \/ UnblockWrite(p)
  BY <1>5, AdminMarks
<1>6. CASE ReleaseRefused(p) \/ ReleaseRollback(p) \/ Abort(p)
  BY <1>6, ReplyMarks DEF ReleaseRefused, ReleaseRollback, Abort, rows, audit, stripe
<1>7. CASE ProofRead(p) \/ ProofRecord(p) \/ ReleaseRecheck(p) \/ ReleaseNotify(p)
  <2>1. req[p] \in Request
    BY <1>7, BusyIsRequest DEF ProofRead, ProofRecord, ReleaseRecheck, ReleaseNotify, Busy
  <2>2. UNCHANGED <<status, orderStatus, ledger, paid>>
    BY <1>7 DEF ProofRead, ProofRecord, ReleaseRecheck, ReleaseNotify, rows, audit, stripe
  <2>3. CASE Reply(p)
    BY <2>2, <2>3, ReplyMarks
  <2>4. CASE Goto(p, "upload") \/ Goto(p, "load") \/ Goto(p, "transfer")
    BY <2>1, <2>2, <2>4, GotoMarks
  <2>5. CASE ReleaseNotify(p)
    BY <2>1, <2>2, <2>5, GotoMarks DEF ReleaseNotify, Busy
  <2>. QED
    BY <1>7, <2>3, <2>4, <2>5 DEF ProofRead, ProofRecord, ReleaseRecheck
<1>. QED
  BY <1>1, <1>2, <1>3, <1>4, <1>5, <1>6, <1>7 DEF Step

LEMMA PlaceOrderMarks ==
    ASSUME TypeOK, MInv, NEW o \in Orders, PlaceOrder(o) \/ CustomerPays(o)
    PROVE  MInv'
<1>1. \A x \in Orders : Stays(x)
  BY DEF PlaceOrder, CustomerPays, Stays, Placed, TypeOK, rows
<1>2. \A x \in Orders : Marked(x)'
  <2>1. CASE CustomerPays(o)
    BY <2>1 DEF CustomerPays, MInv, Marked, Placed, TypeOK, rows, audit
  <2>2. CASE PlaceOrder(o)
    <3>1. Marked(o)'
      BY <2>2 DEF PlaceOrder, Marked, Placed, IsLock, Entry, TypeOK
    <3>2. \A x \in Orders \ {o} : Marked(x)'
      BY <2>2 DEF PlaceOrder, MInv, Marked, Placed, TypeOK, stripe
    <3>. QED
      BY <3>1, <3>2
  <2>. QED
    BY <2>1, <2>2
<1>3. UNCHANGED req
  BY DEF PlaceOrder, CustomerPays
<1>. QED
  BY <1>1, <1>2, <1>3, OthersKnow DEF MInv

LEMMA NextMarks == TypeOK /\ MInv /\ [Next]_vars => MInv'
<1> SUFFICES ASSUME TypeOK, MInv, [Next]_vars PROVE MInv'
  OBVIOUS
<1>1. CASE UNCHANGED vars
  BY <1>1 DEF MInv, Marked, Knows, Placed, vars, rows, audit, stripe
<1>2. CASE \E o \in Orders : PlaceOrder(o) \/ CustomerPays(o)
  BY <1>2, PlaceOrderMarks
<1>3. CASE \E p \in Procs, o \in Orders : Receive(p, o)
  BY <1>3, ReceiveMarks
<1>4. CASE \E p \in Procs : Step(p) \/ Abort(p)
  BY <1>4, StepMarks
<1>. QED
  BY <1>1, <1>2, <1>3, <1>4 DEF Next

LEMMA InitMarks == Init => MInv
<1> SUFFICES ASSUME Init PROVE MInv
  OBVIOUS
<1>1. \A p \in Procs : req[p] \notin Request
  BY IdleIsNoRequest DEF Init
<1>. QED
  BY <1>1 DEF Init, MInv, Marked, Placed

THEOREM MarkInvariance == Spec => []MInv
BY InitMarks, NextMarks, TypeCorrect, PTL DEF Spec

(* Order and ledger agree on the webhook's lock, however often Stripe      *)
(* delivers the event and whatever an admin writes in between.             *)
THEOREM PaidOrders == Spec => []PaidOrderIsInLedger
<1>1. MInv => PaidOrderIsInLedger
  BY DEF MInv, Marked, IsLock, PaidOrderIsInLedger
<1>. QED
  BY <1>1, MarkInvariance, PTL

-----------------------------------------------------------------------------
(* The history of an order, as long as requests do not overlap: they may   *)
(* still die midway and repeat.  What a request has read is then what the  *)
(* row still says, and its timestamp is above every entry.                 *)

OneSlot == \A p, q \in Procs : p = q

(* The entries of an order by timestamp: no two share one, the last ends   *)
(* in the status, each starts where the one before it ended.               *)
Chain(o) ==
    /\ \A d, e \in ledger[o] : d.at = e.at => d = e
    /\ \E e \in ledger[o] : (\A d \in ledger[o] : d.at <= e.at) /\ e.cur = status[o]
    /\ \A e \in ledger[o] : Before(o, e) # {} =>
          \E d \in Before(o, e) : (\A x \in Before(o, e) : x.at <= d.at) /\ d.cur = e.prev
    /\ \A e \in BlockedEntries(o) : e.prev # "BLOCKED"

Fits(r) ==
    /\ r.pc \in {"create", "notify", "commit"} => status[r.order] = r.seen
    /\ r.pc \in {"notify", "commit"} => \A e \in ledger[r.order] : e.at < r.stamp
    /\ r.op = "block" => status[r.order] = r.seen /\ r.seen # "BLOCKED"
    /\ r.op = "unblock" => status[r.order] = "BLOCKED" /\ r.seen = LastBlocked(r.order).prev

HInv ==
    /\ IInv /\ MInv
    /\ \A o \in Orders : Placed(o) => Chain(o)
    /\ \A p \in Procs : req[p] \in Request => Fits(req[p])

(* Status and ledger of an order decide its chain and what fits it.        *)
Keeps(o) == status'[o] = status[o] /\ ledger'[o] = ledger[o]

LEMMA ChainKept ==
    ASSUME NEW o \in Orders, Keeps(o), Placed(o) => Chain(o)
    PROVE  (Placed(o) => Chain(o))'
BY DEF Keeps, Chain, Placed, Before, BlockedEntries

(* Steps of the only slot that leave every status and ledger alone.        *)
LEMMA CalmStep ==
    ASSUME OneSlot, HInv, IInv', MInv', NEW p \in Procs, UNCHANGED <<status, ledger>>,
           (req[p] \in Request => Fits(req[p]))'
    PROVE  HInv'
<1>1. \A o \in Orders : Keeps(o)
  BY DEF Keeps
<1>2. (\A o \in Orders : Placed(o) => Chain(o))'
  BY <1>1, ChainKept DEF HInv
<1>3. Procs = {p}
  BY DEF OneSlot
<1>. QED
  BY <1>2, <1>3 DEF HInv

LEMMA ReplyHistory ==
    ASSUME OneSlot, HInv, IInv', MInv', NEW p \in Procs, Reply(p), UNCHANGED <<status, ledger>>
    PROVE  HInv'
BY ReplyEffect, CalmStep DEF HInv, IInv

LEMMA BeginHistory ==
    ASSUME OneSlot, HInv, IInv', MInv', NEW p \in Procs,
           NEW pc, NEW op, NEW o \in Orders, NEW f, NEW s,
           Begin(p, pc, op, o, f, s), UNCHANGED <<rows, audit, people, stripe>>,
           pc \notin {"create", "notify", "commit"},
           op = "block" => status[o] = s /\ s # "BLOCKED",
           op = "unblock" => status[o] = "BLOCKED" /\ s = LastBlocked(o).prev
    PROVE  HInv'
<1>1. req'[p].pc = pc /\ req'[p].op = op /\ req'[p].order = o /\ req'[p].seen = s
  BY BeginEffect DEF HInv, IInv
<1>2. UNCHANGED <<status, ledger>>
  BY DEF rows, audit
<1>3. (req[p] \in Request => Fits(req[p]))'
  BY <1>1, <1>2 DEF Fits, LastBlocked, BlockedEntries
<1>. QED
  BY <1>2, <1>3, CalmStep

LEMMA ReceiveHistory ==
    ASSUME OneSlot, HInv, IInv', MInv', NEW p \in Procs, NEW o \in Orders, Receive(p, o)
    PROVE  HInv'
<1>1. CASE WebhookReceive(p, o)
  BY <1>1, BeginHistory DEF WebhookReceive
<1>2. ASSUME NEW f \in Farmers, ProofReceive(p, o, f) PROVE HInv'
  BY <1>2, BeginHistory DEF ProofReceive
<1>3. ASSUME NEW f \in Farmers, ReleaseReceive(p, o, f) PROVE HInv'
  BY <1>3, BeginHistory DEF ReleaseReceive
<1>4. CASE BlockRead(p, o)
  BY <1>4, BeginHistory DEF BlockRead
<1>5. CASE UnblockRead(p, o)
  BY <1>5, BeginHistory DEF UnblockRead
<1>. QED
  BY <1>1, <1>2, <1>3, <1>4, <1>5 DEF Receive

LEMMA GotoHistory ==
    ASSUME OneSlot, HInv, IInv', MInv', NEW p \in Procs, req[p] \in Request, NEW pc,
           Goto(p, pc), UNCHANGED <<status, ledger>>,
           pc \notin {"create", "notify", "commit"} \/ req[p].pc = "notify"
    PROVE  HInv'
<1>1. Moves(p, pc) /\ req'[p].seen = req[p].seen /\ req'[p].stamp = req[p].stamp
  BY GotoEffect DEF HInv, IInv
<1>2. Fits(req[p])
  BY DEF HInv
<1>3. (req[p] \in Request => Fits(req[p]))'
  BY <1>1, <1>2 DEF Fits, Moves, LastBlocked, BlockedEntries
<1>. QED
  BY <1>3, CalmStep

LEMMA LoadHistory ==
    ASSUME OneSlot, HInv, IInv', MInv', NEW p \in Procs, Load(p)
    PROVE  HInv'
<1>1. TypeOK /\ UNCHANGED <<status, ledger>>
  BY DEF HInv, IInv, Load, rows, audit
<1>2. CASE Reply(p)
  BY <1>1, <1>2, ReplyHistory
<1>3. CASE ~Reply(p)
  <2>1. /\ Moves(p, "create") /\ req[p].op \in Moving
        /\ status[req[p].order] = Expected[req[p].op] /\ req'[p].seen = Expected[req[p].op]
    BY <1>1, <1>3, LoadEffect
  <2>2. (req[p] \in Request => Fits(req[p]))'
    BY <1>1, <2>1 DEF Fits, Moves, Moving
  <2>. QED
    BY <1>1, <2>2, CalmStep
<1>. QED
  BY <1>2, <1>3

(* The timestamp is taken: the clock is at or above every entry so far.    *)
LEMMA CreateHistory ==
    ASSUME OneSlot, HInv, IInv', MInv', NEW p \in Procs, Create(p)
    PROVE  HInv'
<1> DEFINE o == req[p].order
<1>1. PICK pc : Moves(p, pc) /\ pc \in {"notify", "commit"}
  BY CreateEffect DEF HInv, IInv
<1>2. /\ req[p] \in Request /\ req[p].pc = "create" /\ req[p].op \in Moving /\ o \in Orders
      /\ req'[p].seen = req[p].seen /\ req'[p].stamp = clock[o] + 1 /\ clock[o] \in Nat
      /\ UNCHANGED <<status, ledger>>
  BY CreateEffect DEF HInv, IInv, rows
<1>3. Fits(req[p]) /\ \A e \in ledger[o] : e.at <= clock[o] /\ e.at \in Nat
  BY <1>2 DEF HInv, IInv, RowSafe, TypeOK
<1>4. \A e \in ledger[o] : e.at < clock[o] + 1
  BY <1>2, <1>3
<1>5. (req[p] \in Request => Fits(req[p]))'
  BY <1>1, <1>2, <1>3, <1>4 DEF Fits, Moves, Moving
<1>. QED
  BY <1>2, <1>5, CalmStep

LEMMA TransferHistory ==
    ASSUME OneSlot, HInv, IInv', MInv', NEW p \in Procs, ReleaseTransfer(p)
    PROVE  HInv'
<1>1. /\ req[p] \in Request /\ req[p].op = "release" /\ Moves(p, "load")
      /\ UNCHANGED <<status, ledger>>
  BY TransferEffect DEF HInv, IInv, rows, audit
<1>2. (req[p] \in Request => Fits(req[p]))'
  BY <1>1 DEF Fits, Moves
<1>. QED
  BY <1>1, <1>2, CalmStep

(* An entry above all others that starts where the order is goes at the    *)
(* end of the chain.                                                       *)
LEMMA ChainGrows ==
    ASSUME TypeOK, NEW o \in Orders, Chain(o),
           NEW e \in [at : Nat, prev : EscrowState, cur : EscrowState], Writes(o, e),
           \A d \in ledger[o] : d.at < e.at,
           e.prev = status[o], e.cur = "BLOCKED" => e.prev # "BLOCKED"
    PROVE  Chain(o)'
<1>1. \A d \in ledger[o] : d.at \in Nat
  BY DEF TypeOK
<1>2. status'[o] = e.cur /\ ledger'[o] = ledger[o] \cup {e} /\ e.at \in Nat
  BY DEF Writes
<1>3. \A d, x \in ledger'[o] : d.at = x.at => d = x
  BY <1>1, <1>2 DEF Chain
<1>4. \A d \in ledger'[o] : d.at <= e.at
  BY <1>1, <1>2
<1>5. \A x \in BlockedEntries(o)' : x.prev # "BLOCKED"
  BY <1>2 DEF Chain, BlockedEntries
<1>6. Before(o, e)' = ledger[o]
  BY <1>1, <1>2 DEF Before
<1>7. \E d \in Before(o, e)' : (\A x \in Before(o, e)' : x.at <= d.at) /\ d.cur = e.prev
  BY <1>6 DEF Chain
<1>8. ASSUME NEW y \in ledger[o], Before(o, y)' # {}
      PROVE  \E d \in Before(o, y)' : (\A x \in Before(o, y)' : x.at <= d.at) /\ d.cur = y.prev
  <2>1. Before(o, y)' = Before(o, y)
    BY <1>1, <1>2 DEF Before
  <2>. QED
    BY <1>8, <2>1 DEF Chain
<1>9. \A y \in ledger'[o] : Before(o, y)' # {} =>
          \E d \in Before(o, y)' : (\A x \in Before(o, y)' : x.at <= d.at) /\ d.cur = y.prev
  BY <1>2, <1>7, <1>8
<1>. QED
  BY <1>2, <1>3, <1>4, <1>5, <1>9 DEF Chain

LEMMA WriteHistory ==
    ASSUME OneSlot, HInv, IInv', MInv', NEW p \in Procs, NEW o \in Orders, Placed(o), Reply(p),
           NEW e \in [at : Nat, prev : EscrowState, cur : EscrowState], Writes(o, e),
           \A d \in ledger[o] : d.at < e.at,
           e.prev = status[o], e.cur = "BLOCKED" => e.prev # "BLOCKED"
    PROVE  HInv'
<1>1. TypeOK
  BY DEF HInv, IInv
<1>2. Chain(o)'
  BY <1>1, ChainGrows DEF HInv
<1>3. \A x \in Orders \ {o} : Keeps(x)
  BY DEF Writes, Keeps
<1>4. (\A x \in Orders : Placed(x) => Chain(x))'
  BY <1>2, <1>3, ChainKept DEF HInv
<1>5. Procs = {p} /\ req'[p] \notin Request
  BY <1>1, ReplyEffect DEF OneSlot
<1>. QED
  BY <1>4, <1>5 DEF HInv

LEMMA CommitHistory ==
    ASSUME OneSlot, HInv, IInv', MInv', NEW p \in Procs, Busy(p, "commit"), Advance(p)
    PROVE  HInv'
<1> DEFINE r == req[p]
           e == Entry(r.stamp, r.seen, Target[r.op])
<1>1. TypeOK
  BY DEF HInv, IInv
<1>2. /\ r \in Request /\ r.order \in Orders /\ r.op \in Moving /\ r.pc = "commit"
      /\ Reply(p) /\ Writes(r.order, e)
  BY <1>1, CommitEffect
<1>3. Fits(r) /\ Knows(r)
  BY <1>2 DEF HInv, MInv
<1>4. /\ e \in [at : Nat, prev : EscrowState, cur : EscrowState]
      /\ e.at = r.stamp /\ e.prev = r.seen /\ e.cur = Target[r.op]
  BY <1>2, RequestFields, MoveRequest DEF Entry, Fields
<1>5. e.cur # "BLOCKED"
  BY <1>2, <1>4 DEF Target, Moving
<1>6. Placed(r.order) /\ e.prev = status[r.order] /\ \A d \in ledger[r.order] : d.at < e.at
  BY <1>2, <1>3, <1>4 DEF Fits, Knows
<1> HIDE DEF e
<1>. QED
  BY <1>2, <1>4, <1>5, <1>6, WriteHistory

LEMMA AdminHistory ==
    ASSUME OneSlot, HInv, IInv', MInv', NEW p \in Procs, BlockWrite(p) \/ UnblockWrite(p)
    PROVE  HInv'
<1> DEFINE r == req[p]
           o == r.order
           n == clock[o] + 1
<1>1. TypeOK
  BY DEF HInv, IInv
<1>2. /\ r \in Request /\ o \in Orders /\ r.seen \in EscrowState /\ "BLOCKED" \in EscrowState
      /\ Reply(p) /\ clock[o] \in Nat
      /\ \/ r.op = "block" /\ Writes(o, Entry(n, r.seen, "BLOCKED"))
         \/ r.op = "unblock" /\ Writes(o, Entry(n, "BLOCKED", r.seen))
  BY <1>1, AdminEffect, AdminRequest
<1>3. Fits(r) /\ Placed(o)
  BY <1>2 DEF HInv, MInv, Knows
<1>4. \A d \in ledger[o] : d.at < n
  <2>1. \A d \in ledger[o] : d.at <= clock[o] /\ d.at \in Nat
    BY <1>2 DEF HInv, IInv, RowSafe, TypeOK
  <2>. QED
    BY <1>2, <2>1
<1>5. CASE r.op = "block"
  <2>1. PICK e \in [at : Nat, prev : EscrowState, cur : EscrowState] :
            e = Entry(n, r.seen, "BLOCKED")
    BY <1>2 DEF Entry
  <2>2. e.at = n /\ e.prev = r.seen /\ e.cur = "BLOCKED" /\ Writes(o, e)
    BY <1>2, <1>5, <2>1 DEF Entry
  <2>3. e.prev = status[o] /\ e.prev # "BLOCKED"
    BY <1>3, <1>5, <2>2 DEF Fits
  <2>. QED
    BY <1>2, <1>3, <1>4, <2>2, <2>3, WriteHistory
<1>6. CASE r.op = "unblock"
  <2>1. PICK e \in [at : Nat, prev : EscrowState, cur : EscrowState] :
            e = Entry(n, "BLOCKED", r.seen)
    BY <1>2 DEF Entry
  <2>2. e.at = n /\ e.prev = "BLOCKED" /\ e.cur = r.seen /\ Writes(o, e)
    BY <1>2, <1>6, <2>1 DEF Entry
  <2>3. e.prev = status[o] /\ e.cur # "BLOCKED"
    <3>1. LastBlocked(o) \in BlockedEntries(o)
      BY <1>2, <1>3, <1>6 DEF Fits, HInv, IInv, RowSafe, NewestExists, LastBlocked
    <3>. QED
      BY <1>2, <1>3, <1>6, <2>2, <3>1 DEF Fits, HInv, Chain
  <2>. QED
    BY <1>2, <1>3, <1>4, <2>2, <2>3, WriteHistory
<1>. QED
  BY <1>2, <1>5, <1>6

LEMMA StepHistory ==
    ASSUME OneSlot, HInv, IInv', MInv', NEW p \in Procs, Step(p) \/ Abort(p)
    PROVE  HInv'
<1>1. CASE Load(p)
  BY <1>1, LoadHistory
<1>2. CASE Create(p)
  BY <1>2, CreateHistory
<1>3. CASE ReleaseTransfer(p)
  BY <1>3, TransferHistory
<1>4. CASE WebhookCommit(p) \/ DeliverCommit(p) \/ ReleaseCommit(p)
  BY <1>4, CommitHistory DEF WebhookCommit, DeliverCommit, ReleaseCommit
<1>5. CASE BlockWrite(p) \/ UnblockWrite(p)
  BY <1>5, AdminHistory
<1>6. CASE ReleaseRefused(p) \/ ReleaseRollback(p) \/ Abort(p)
  BY <1>6, ReplyHistory DEF ReleaseRefused, ReleaseRollback, Abort, rows, audit
<1>7. CASE ProofRead(p) \/ ProofRecord(p) \/ ReleaseRecheck(p) \/ ReleaseNotify(p)
  <2>1. req[p] \in Request
    BY <1>7, BusyIsRequest
       DEF ProofRead, ProofRecord, ReleaseRecheck, ReleaseNotify, Busy, HInv, IInv
  <2>2. UNCHANGED <<status, ledger>>
    BY <1>7 DEF ProofRead, ProofRecord, ReleaseRecheck, ReleaseNotify, rows, audit
  <2>3. CASE Reply(p)
    BY <2>2, <2>3, ReplyHistory
  <2>4. CASE Goto(p, "upload") \/ Goto(p, "load") \/ Goto(p, "transfer")
    BY <2>1, <2>2, <2>4, GotoHistory
  <2>5. CASE ReleaseNotify(p)
    BY <2>1, <2>2, <2>5, GotoHistory DEF ReleaseNotify, Busy
  <2>. QED
    BY <1>7, <2>3, <2>4, <2>5 DEF ProofRead, ProofRecord, ReleaseRecheck
<1>. QED
  BY <1>1, <1>2, <1>3, <1>4, <1>5, <1>6, <1>7 DEF Step

(* No request knows of an order before it is placed.                       *)
LEMMA OutsideHistory ==
    ASSUME HInv, IInv', MInv', NEW o \in Orders, PlaceOrder(o) \/ CustomerPays(o)
    PROVE  HInv'
<1>1. TypeOK /\ UNCHANGED req
  BY DEF HInv, IInv, PlaceOrder, CustomerPays
<1>2. \A x \in Orders : Placed(x) => Keeps(x)
  BY <1>1 DEF PlaceOrder, CustomerPays, Keeps, Placed, TypeOK, rows, audit
<1>3. ASSUME NEW x \in Orders, Placed(x)' PROVE Chain(x)'
  <2>1. CASE Placed(x)
    BY <1>2, <1>3, <2>1, ChainKept DEF HInv
  <2>2. CASE ~Placed(x)
    <3>1. x = o /\ PlaceOrder(o)
      BY <1>1, <1>3, <2>2 DEF PlaceOrder, CustomerPays, Placed, TypeOK, rows
    <3>2. PICK s \in {"LOCKED", "INITIATED"} :
              status'[o] = s /\ ledger'[o] = {Entry(0, "INITIATED", s)}
      BY <1>1, <3>1 DEF PlaceOrder, TypeOK
    <3>. QED
      BY <3>1, <3>2 DEF Chain, Before, BlockedEntries, Entry
  <2>. QED
    BY <2>1, <2>2
<1>4. ASSUME NEW p \in Procs, req[p] \in Request PROVE Fits(req[p])'
  <2>1. PICK r \in Request : r = req[p] /\ r.order \in Orders
    BY <1>4, RequestFields DEF Fields
  <2>2. Fits(r) /\ Keeps(r.order) /\ req'[p] = r
    BY <1>1, <1>2, <2>1 DEF HInv, MInv, Knows
  <2>. QED
    BY <2>2 DEF Fits, Keeps, LastBlocked, BlockedEntries
<1>. QED
  BY <1>1, <1>3, <1>4 DEF HInv

LEMMA NextHistory ==
    ASSUME OneSlot
    PROVE  HInv /\ IInv' /\ [Next]_vars => HInv'
<1> SUFFICES ASSUME HInv, IInv', [Next]_vars PROVE HInv'
  OBVIOUS
<1>1. MInv'
  BY NextMarks DEF HInv, IInv
<1>2. CASE UNCHANGED vars
  <2>1. \A o \in Orders : Keeps(o)
    BY <1>2 DEF Keeps, vars, rows, audit
  <2>2. (\A o \in Orders : Placed(o) => Chain(o))'
    BY <2>1, ChainKept DEF HInv
  <2>. QED
    BY <1>1, <1>2, <2>2 DEF HInv, Fits, LastBlocked, BlockedEntries, vars, rows, audit
<1>3. CASE \E o \in Orders : PlaceOrder(o) \/ CustomerPays(o)
  BY <1>1, <1>3, OutsideHistory
<1>4. CASE \E p \in Procs, o \in Orders : Receive(p, o)
  BY <1>1, <1>4, ReceiveHistory
<1>5. CASE \E p \in Procs : Step(p) \/ Abort(p)
  BY <1>1, <1>5, StepHistory
<1>. QED
  BY <1>2, <1>3, <1>4, <1>5 DEF Next

LEMMA InitHistory == Init => HInv
<1> SUFFICES ASSUME Init PROVE HInv
  OBVIOUS
<1>1. \A p \in Procs : req[p] \notin Request
  BY IdleIsNoRequest DEF Init
<1>. QED
  BY <1>1, InitIInv, InitMarks DEF Init, HInv, Placed

THEOREM HistoryInvariance ==
    ASSUME OneSlot
    PROVE  Spec => []HInv
BY InitHistory, NextHistory, Invariance, PTL DEF Spec

LEMMA NewestIs ==
    ASSUME NEW S, \A d \in S : d.at \in Nat, \A d, e \in S : d.at = e.at => d = e,
           NEW e \in S, \A d \in S : d.at <= e.at
    PROVE  Newest(S) = e
<1>1. Newest(S) \in S /\ \A d \in S : d.at <= Newest(S).at
  BY DEF Newest
<1>2. Newest(S).at = e.at
  BY <1>1
<1>. QED
  BY <1>1, <1>2

(* One request at a time, read by timestamp, the ledger is the history of  *)
(* the order, even when requests die midway: a timestamp that was taken    *)
(* and rolled back leaves no entry.                                        *)
THEOREM History ==
    ASSUME OneSlot
    PROVE  Spec => []HistoryTellsStatus
<1>1. HInv => HistoryTellsStatus
  <2> SUFFICES ASSUME HInv, NEW o \in Orders, Placed(o)
               PROVE  /\ Newest(ledger[o]).cur = status[o]
                      /\ \A e \in ledger[o] :
                            Before(o, e) # {} => Newest(Before(o, e)).cur = e.prev
    BY DEF HistoryTellsStatus
  <2>1. Chain(o) /\ \A d \in ledger[o] : d.at \in Nat
    BY DEF HInv, IInv, TypeOK
  <2>2. \A d, e \in ledger[o] : d.at = e.at => d = e
    BY <2>1 DEF Chain
  <2>3. PICK e \in ledger[o] : (\A d \in ledger[o] : d.at <= e.at) /\ e.cur = status[o]
    BY <2>1 DEF Chain
  <2>4. Newest(ledger[o]) = e
    BY <2>1, <2>2, <2>3, NewestIs
  <2>5. ASSUME NEW y \in ledger[o], Before(o, y) # {}
        PROVE  Newest(Before(o, y)).cur = y.prev
    <3>1. PICK d \in Before(o, y) : (\A x \in Before(o, y) : x.at <= d.at) /\ d.cur = y.prev
      BY <2>1, <2>5 DEF Chain
    <3>2. Before(o, y) \subseteq ledger[o]
      BY DEF Before
    <3>3. Newest(Before(o, y)) = d
      BY <2>1, <2>2, <3>1, <3>2, NewestIs
    <3>. QED
      BY <3>1, <3>3
  <2>. QED
    BY <2>3, <2>4, <2>5
<1>. QED
  BY <1>1, HistoryInvariance, PTL

-----------------------------------------------------------------------------
(* The promise, as long as requests do not overlap, nothing fails and      *)
(* every farmer has the trust profile that a release credits.              *)

Serial == OneSlot /\ Faults = FALSE /\ Farmers \subseteq Profiled

Paying == {"load", "create", "notify", "commit"}

(* The slot serves a release of the order whose transfer was made.         *)
Releasing(p, o) == req[p].pc \in Paying /\ req[p].op = "release" /\ req[p].order = o

(* Money left for the order at most once, and until the row says RELEASED  *)
(* the request that sent it is there to say so.                            *)
Money(o) ==
    /\ Len(transfers[o]) \in {0, 1}
    /\ Len(transfers[o]) = 1 =>
          \/ Held(o) = "RELEASED"
          \/ Held(o) = "DELIVERED" /\ \E p \in Procs : Releasing(p, o)

Settles(r) ==
    r.op = "release" =>
        /\ status[r.order] = "DELIVERED"
        /\ r.pc \in {"recheck", "transfer"} => Len(transfers[r.order]) = 0

SInv ==
    /\ HInv
    /\ \A o \in Orders : Money(o)
    /\ \A p \in Procs : req[p] \in Request => Settles(req[p])

LEMMA HeldKept == ASSUME NEW o \in Orders, Keeps(o) PROVE Held(o)' = Held(o)
BY DEF Keeps, Held, LastBlocked, BlockedEntries

(* What a blocked order is held in was the status of an order.             *)
LEMMA HeldIsStatus ==
    ASSUME HInv, NEW o \in Orders
    PROVE  Held(o) \in IF Placed(o) THEN EscrowState \ {"BLOCKED"} ELSE {"NONE"}
<1>1. CASE status[o] = "BLOCKED"
  <2>1. LastBlocked(o) \in BlockedEntries(o)
    BY <1>1 DEF HInv, IInv, RowSafe, NewestExists, LastBlocked
  <2>2. LastBlocked(o).prev # "BLOCKED"
    BY <1>1, <2>1 DEF HInv, Chain, Placed
  <2>3. LastBlocked(o) \in ledger[o] /\ ledger[o] \subseteq [at : Nat, prev : EscrowState, cur : EscrowState]
    BY <2>1 DEF HInv, IInv, TypeOK, BlockedEntries
  <2>. QED
    BY <1>1, <2>2, <2>3 DEF Held, Placed
<1>2. CASE status[o] # "BLOCKED"
  BY <1>2 DEF Held, HInv, IInv, TypeOK, Placed
<1>. QED
  BY <1>1, <1>2

(* The order a step works on is looked at again, the others are left.      *)
LEMMA PayStep ==
    ASSUME Serial, SInv, HInv', NEW p \in Procs, NEW o \in Orders,
           \A x \in Orders \ {o} : Keeps(x) /\ transfers'[x] = transfers[x] /\ ~Releasing(p, x),
           Money(o)', (req[p] \in Request => Settles(req[p]))'
    PROVE  SInv'
<1>1. Procs = {p}
  BY DEF Serial, OneSlot
<1>2. \A x \in Orders \ {o} : Money(x)'
  BY <1>1, HeldKept DEF SInv, Money
<1>. QED
  BY <1>1, <1>2 DEF SInv

(* Steps that leave statuses, ledgers and Stripe's transfers alone.        *)
LEMMA CalmPay ==
    ASSUME Serial, SInv, HInv', NEW p \in Procs, UNCHANGED <<status, ledger, transfers>>,
           \A o \in Orders : Releasing(p, o) => Releasing(p, o)',
           (req[p] \in Request => Settles(req[p]))'
    PROVE  SInv'
<1>1. Procs = {p}
  BY DEF Serial, OneSlot
<1>2. \A o \in Orders : Held(o)' = Held(o)
  BY HeldKept DEF Keeps
<1>3. \A o \in Orders : Money(o)'
  BY <1>1, <1>2 DEF SInv, Money
<1>. QED
  BY <1>1, <1>3 DEF SInv

LEMMA ReplyPay ==
    ASSUME Serial, SInv, HInv', NEW p \in Procs, Reply(p),
           UNCHANGED <<status, ledger, transfers>>,
           \A o \in Orders : ~Releasing(p, o)
    PROVE  SInv'
BY ReplyEffect, CalmPay DEF SInv, HInv, IInv

LEMMA BeginPay ==
    ASSUME Serial, SInv, HInv', NEW p \in Procs, Busy(p, "idle"),
           NEW pc, NEW op, NEW o \in Orders, NEW f, NEW s,
           Begin(p, pc, op, o, f, s), UNCHANGED <<rows, audit, people, stripe>>,
           op = "release" => status[o] = "DELIVERED"
    PROVE  SInv'
<1>1. req'[p].op = op /\ req'[p].order = o
  BY BeginEffect DEF SInv, HInv, IInv
<1>2. \A x \in Orders : ~Releasing(p, x)
  BY DEF Busy, Releasing, Paying
<1>3. Procs = {p}
  BY DEF Serial, OneSlot
<1>4. status[o] = "DELIVERED" => Len(transfers[o]) = 0
  BY <1>2, <1>3 DEF SInv, Money, Held
<1>5. (req[p] \in Request => Settles(req[p]))'
  BY <1>1, <1>4 DEF Settles, rows, stripe
<1>. QED
  BY <1>2, <1>5, CalmPay DEF rows, audit, stripe

LEMMA ReceivePay ==
    ASSUME Serial, SInv, HInv', NEW p \in Procs, NEW o \in Orders, Receive(p, o)
    PROVE  SInv'
<1>1. CASE WebhookReceive(p, o)
  BY <1>1, BeginPay DEF WebhookReceive
<1>2. ASSUME NEW f \in Farmers, ProofReceive(p, o, f) PROVE SInv'
  BY <1>2, BeginPay DEF ProofReceive
<1>3. ASSUME NEW f \in Farmers, ReleaseReceive(p, o, f) PROVE SInv'
  BY <1>3, BeginPay DEF ReleaseReceive
<1>4. CASE BlockRead(p, o)
  BY <1>4, BeginPay DEF BlockRead
<1>5. CASE UnblockRead(p, o)
  BY <1>5, BeginPay DEF UnblockRead
<1>. QED
  BY <1>1, <1>2, <1>3, <1>4, <1>5 DEF Receive

(* A request that goes on with the same order.                             *)
LEMMA MovePay ==
    ASSUME Serial, SInv, HInv', NEW p \in Procs, req[p] \in Request, NEW pc, Moves(p, pc),
           UNCHANGED <<status, ledger, transfers>>,
           req[p].pc \in Paying => pc \in Paying,
           pc \in {"recheck", "transfer"} => req[p].pc \in {"recheck", "transfer"}
    PROVE  SInv'
<1>1. Settles(req[p])
  BY DEF SInv
<1>2. (req[p] \in Request => Settles(req[p]))'
  BY <1>1 DEF Settles, Moves
<1>3. \A o \in Orders : Releasing(p, o) => Releasing(p, o)'
  BY DEF Releasing, Moves
<1>. QED
  BY <1>2, <1>3, CalmPay

(* A release finds its order DELIVERED, as it was when it began.           *)
LEMMA LoadPay ==
    ASSUME Serial, SInv, HInv', NEW p \in Procs, Load(p)
    PROVE  SInv'
<1>1. TypeOK /\ UNCHANGED <<status, ledger, transfers>>
  BY DEF SInv, HInv, IInv, Load, rows, audit, stripe
<1>2. req[p] \in Request /\ req[p].pc = "load" /\ Settles(req[p])
  BY <1>1, LoadEffect DEF SInv
<1>3. CASE status[req[p].order] = Expected[req[p].op]
  BY <1>1, <1>2, <1>3, LoadEffect, MovePay DEF Paying
<1>4. CASE status[req[p].order] # Expected[req[p].op]
  <2>1. Reply(p) /\ req[p].op # "release"
    BY <1>1, <1>2, <1>4, LoadEffect DEF Settles, Expected
  <2>. QED
    BY <1>1, <2>1, ReplyPay DEF Releasing
<1>. QED
  BY <1>3, <1>4

LEMMA CreatePay ==
    ASSUME Serial, SInv, HInv', NEW p \in Procs, Create(p)
    PROVE  SInv'
<1>1. TypeOK
  BY DEF SInv, HInv, IInv
<1>2. PICK pc \in {"notify", "commit"} : Moves(p, pc)
  BY <1>1, CreateEffect
<1>3. req[p] \in Request /\ UNCHANGED <<status, ledger, transfers>>
  BY <1>1, CreateEffect DEF rows, stripe
<1>. QED
  BY <1>2, <1>3, MovePay DEF Paying

LEMMA TransferPay ==
    ASSUME Serial, SInv, HInv', NEW p \in Procs, ReleaseTransfer(p)
    PROVE  SInv'
<1>1. TypeOK /\ Procs = {p}
  BY DEF SInv, HInv, IInv, Serial, OneSlot
<1>0. PICK o \in Orders : o = req[p].order
  BY <1>1, TransferEffect
<1>2. /\ req[p] \in Request /\ req[p].pc = "transfer" /\ req[p].op = "release"
      /\ UNCHANGED <<rows, audit>> /\ Moves(p, "load")
      /\ Len(transfers'[o]) = Len(transfers[o]) + 1
      /\ \A x \in Orders \ {o} : transfers'[x] = transfers[x]
  BY <1>0, <1>1, TransferEffect
<1>3. status[o] = "DELIVERED" /\ Len(transfers[o]) = 0
  BY <1>0, <1>2 DEF SInv, Settles
<1>4. UNCHANGED <<status, ledger>>
  BY <1>2 DEF rows, audit
<1>5. Releasing(p, o)' /\ req'[p].pc = "load" /\ req'[p].order = o
  BY <1>0, <1>2 DEF Releasing, Moves, Paying
<1>6. Money(o)'
  BY <1>2, <1>3, <1>4, <1>5 DEF Money, Held
<1>7. (req[p] \in Request => Settles(req[p]))'
  BY <1>3, <1>4, <1>5 DEF Settles
<1>8. \A x \in Orders : Keeps(x) /\ ~Releasing(p, x)
  BY <1>2, <1>4 DEF Keeps, Releasing, Paying
<1>. QED
  BY <1>2, <1>6, <1>7, <1>8, PayStep

(* The three commits move an order from the state its request read.        *)
LEMMA CommitHeld ==
    ASSUME HInv, NEW p \in Procs, Busy(p, "commit"), Advance(p), NEW o, o = req[p].order
    PROVE  /\ req[p] \in Request /\ o \in Orders /\ req[p].op \in Moving
           /\ status[o] = Expected[req[p].op] /\ Held(o) = Expected[req[p].op]
           /\ status'[o] = Target[req[p].op] /\ Held(o)' = Target[req[p].op]
           /\ status[o] # "BLOCKED" /\ status'[o] # "BLOCKED"
           /\ \A x \in Orders \ {o} : Keeps(x)
<1> DEFINE r == req[p]
<1>1. /\ r \in Request /\ r.pc = "commit" /\ o \in Orders /\ r.op \in Moving
      /\ Writes(o, Entry(r.stamp, r.seen, Target[r.op]))
  BY CommitEffect DEF HInv, IInv
<1>2. status[o] = r.seen /\ r.seen = Expected[r.op]
  BY <1>1 DEF HInv, MInv, Knows, Fits
<1>3. Expected[r.op] # "BLOCKED" /\ Target[r.op] # "BLOCKED"
  BY <1>1 DEF Moving, Expected, Target
<1>4. status'[o] = Target[r.op] /\ \A x \in Orders \ {o} : Keeps(x)
  BY <1>1 DEF Writes, Entry, Keeps
<1>. QED
  BY <1>1, <1>2, <1>3, <1>4 DEF Held

LEMMA CommitPay ==
    ASSUME Serial, SInv, HInv', NEW p \in Procs, Busy(p, "commit"), Advance(p), UNCHANGED transfers
    PROVE  SInv'
<1>1. Procs = {p} /\ TypeOK /\ HInv
  BY DEF Serial, OneSlot, SInv, HInv, IInv
<1>0. PICK o \in Orders : o = req[p].order
  BY <1>1, CommitEffect
<1>2. PICK op \in Moving :
          /\ op = req[p].op /\ Held(o) = Expected[op] /\ Held(o)' = Target[op]
          /\ \A x \in Orders \ {o} : Keeps(x)
  BY <1>0, <1>1, CommitHeld
<1>3. (req[p] \notin Request)'
  BY <1>1, ReplyEffect DEF Advance
<1>4. Money(o)'
  <2>1. CASE op = "release"
    BY <1>2, <2>1 DEF SInv, Money, Target
  <2>2. CASE op # "release"
    <3>1. ~Releasing(p, o) /\ Held(o) # "RELEASED"
      BY <1>2, <2>2 DEF Releasing, Expected, Moving
    <3>. QED
      BY <1>1, <1>2, <3>1 DEF SInv, Money
  <2>. QED
    BY <2>1, <2>2
<1>5. \A x \in Orders \ {o} : ~Releasing(p, x)
  BY <1>0 DEF Releasing
<1>. QED
  BY <1>2, <1>3, <1>4, <1>5, PayStep

(* A block saves what the order was held in, an unblock restores it.       *)
LEMMA AdminHeld ==
    ASSUME HInv, NEW p \in Procs, BlockWrite(p) \/ UnblockWrite(p), NEW o, o = req[p].order
    PROVE  /\ req[p] \in Request /\ o \in Orders /\ Placed(o)
           /\ Held(o)' = Held(o)
           /\ status'[o] = "BLOCKED" <=> status[o] # "BLOCKED"
           /\ \A x \in Orders \ {o} : Keeps(x)
<1> DEFINE r == req[p]
           n == clock[o] + 1
<1>1. TypeOK
  BY DEF HInv, IInv
<1>2. /\ r \in Request /\ o \in Orders /\ clock[o] \in Nat
      /\ \/ r.op = "block" /\ Writes(o, Entry(n, r.seen, "BLOCKED"))
         \/ r.op = "unblock" /\ Writes(o, Entry(n, "BLOCKED", r.seen))
  BY <1>1, AdminEffect
<1>3. Fits(r) /\ Placed(o) /\ \A x \in Orders \ {o} : Keeps(x)
  BY <1>2 DEF HInv, MInv, Knows, Writes, Keeps
<1>4. \A d \in ledger[o] : d.at \in Nat /\ d.at < n
  <2>1. \A d \in ledger[o] : d.at <= clock[o] /\ d.at \in Nat
    BY <1>2 DEF HInv, IInv, RowSafe, TypeOK
  <2>. QED
    BY <1>2, <2>1
<1>5. CASE r.op = "block"
  <2>1. PICK e : e = Entry(n, r.seen, "BLOCKED")
    OBVIOUS
  <2>2. Writes(o, e) /\ e.at = n /\ e.prev = r.seen /\ e.cur = "BLOCKED"
    BY <1>2, <1>5, <2>1 DEF Entry
  <2>3. BlockedEntries(o)' = BlockedEntries(o) \cup {e} /\ status'[o] = "BLOCKED"
    BY <2>2 DEF Writes, BlockedEntries
  <2>4. BlockedEntries(o) \subseteq ledger[o] /\ n \in Nat
    BY <1>2 DEF BlockedEntries
  <2>5. LastBlocked(o)' = e
    <3>1. /\ e \in BlockedEntries(o)'
          /\ \A d \in BlockedEntries(o)' : d.at \in Nat /\ d.at <= e.at
          /\ \A d \in BlockedEntries(o)' : e.at <= d.at => d = e
      BY <1>4, <2>2, <2>3, <2>4
    <3>. QED
      BY <3>1 DEF LastBlocked
  <2>. QED
    BY <1>2, <1>3, <1>5, <2>2, <2>3, <2>5 DEF Held, Fits
<1>6. CASE r.op = "unblock"
  <2>1. status'[o] = r.seen
    BY <1>2, <1>6 DEF Writes, Entry
  <2>2. status[o] = "BLOCKED" /\ Held(o) = r.seen /\ r.seen # "BLOCKED"
    BY <1>2, <1>3, <1>6, HeldIsStatus DEF Fits, Held
  <2>. QED
    BY <1>2, <1>3, <2>1, <2>2 DEF Held
<1>. QED
  BY <1>2, <1>5, <1>6

LEMMA AdminPay ==
    ASSUME Serial, SInv, HInv', NEW p \in Procs, BlockWrite(p) \/ UnblockWrite(p)
    PROVE  SInv'
<1>1. Procs = {p} /\ TypeOK /\ HInv
  BY DEF Serial, OneSlot, SInv, HInv, IInv
<1>0. PICK o \in Orders : o = req[p].order
  BY <1>1, AdminEffect
<1>2. Held(o)' = Held(o) /\ \A x \in Orders \ {o} : Keeps(x)
  BY <1>0, <1>1, AdminHeld
<1>3. (req[p] \notin Request)' /\ UNCHANGED transfers
  BY <1>1, AdminEffect, ReplyEffect DEF stripe
<1>4. \A x \in Orders : ~Releasing(p, x)
  BY DEF Releasing, Paying, BlockWrite, UnblockWrite, Busy
<1>5. Money(o)'
  BY <1>1, <1>2, <1>3, <1>4 DEF SInv, Money
<1>. QED
  BY <1>2, <1>3, <1>4, <1>5, PayStep

LEMMA StepPay ==
    ASSUME Serial, SInv, HInv', NEW p \in Procs, Step(p) \/ Abort(p)
    PROVE  SInv'
<1>0. TypeOK
  BY DEF SInv, HInv, IInv
<1>1. CASE Load(p)
  BY <1>1, LoadPay
<1>2. CASE Create(p)
  BY <1>2, CreatePay
<1>3. CASE ReleaseTransfer(p)
  BY <1>3, TransferPay
<1>4. CASE WebhookCommit(p) \/ DeliverCommit(p) \/ ReleaseCommit(p)
  BY <1>4, CommitPay DEF WebhookCommit, DeliverCommit, ReleaseCommit, stripe
<1>5. CASE BlockWrite(p) \/ UnblockWrite(p)
  BY <1>5, AdminPay
<1>6. CASE ReleaseRefused(p)
  BY <1>6, ReplyPay DEF ReleaseRefused, Busy, Releasing, Paying, rows, audit, stripe
<1>7. CASE ReleaseRollback(p) \/ Abort(p)
  <2>1. ~Abort(p)
    BY DEF Abort, Serial
  <2>2. req[p] \in Request /\ req[p].op = "release"
    BY <1>0, <1>7, <2>1, BusyIsRequest, MoveRequest DEF ReleaseRollback, Busy
  <2>3. req[p].farmer \in Profiled
    BY <2>2, RequestFields DEF Serial
  <2>. QED
    BY <1>7, <2>1, <2>3 DEF ReleaseRollback
<1>8. CASE ProofRead(p) \/ ProofRecord(p) \/ ReleaseRecheck(p) \/ ReleaseNotify(p)
  <2>1. req[p] \in Request
    BY <1>0, <1>8, BusyIsRequest DEF ProofRead, ProofRecord, ReleaseRecheck, ReleaseNotify, Busy
  <2>2. UNCHANGED <<status, ledger, transfers>>
    BY <1>8 DEF ProofRead, ProofRecord, ReleaseRecheck, ReleaseNotify, rows, audit, stripe
  <2>3. CASE ReleaseNotify(p) \/ ProofRecord(p)
    <3>1. PICK pc \in {"load", "commit"} : Goto(p, pc)
      BY <2>3 DEF ReleaseNotify, ProofRecord
    <3>. QED
      BY <1>0, <2>1, <2>2, <3>1, GotoEffect, MovePay DEF Paying
  <2>4. CASE ProofRead(p) \/ ReleaseRecheck(p)
    <3>1. req[p].pc \in {"ocr", "recheck"}
      BY <2>4 DEF ProofRead, ReleaseRecheck, Busy
    <3>2. CASE Reply(p)
      BY <2>2, <3>1, <3>2, ReplyPay DEF Releasing, Paying
    <3>3. CASE Goto(p, "upload")
      BY <1>0, <2>1, <2>2, <3>1, <3>3, GotoEffect, MovePay DEF Paying
    <3>4. CASE Goto(p, "transfer") /\ ReleaseRecheck(p)
      BY <1>0, <2>1, <2>2, <3>1, <3>4, GotoEffect, MovePay DEF Paying, ReleaseRecheck, Busy
    <3>. QED
      BY <2>4, <3>2, <3>3, <3>4 DEF ProofRead, ReleaseRecheck
  <2>. QED
    BY <1>8, <2>3, <2>4
<1>. QED
  BY <1>1, <1>2, <1>3, <1>4, <1>5, <1>6, <1>7, <1>8 DEF Step

LEMMA OutsidePay ==
    ASSUME SInv, HInv', NEW o \in Orders, PlaceOrder(o) \/ CustomerPays(o)
    PROVE  SInv'
<1>1. TypeOK /\ UNCHANGED <<req, transfers>>
  BY DEF SInv, HInv, IInv, PlaceOrder, CustomerPays, stripe
<1>2. \A x \in Orders : Placed(x) => Keeps(x)
  BY <1>1 DEF PlaceOrder, CustomerPays, Keeps, Placed, TypeOK, rows, audit
<1>3. ASSUME NEW x \in Orders PROVE Money(x)'
  <2>1. CASE Placed(x)
    BY <1>1, <1>2, <2>1, HeldKept DEF SInv, Money, Releasing
  <2>2. CASE ~Placed(x)
    <3>1. Len(transfers[x]) = 0
      BY <2>2 DEF SInv, Money, Held, Placed
    <3>. QED
      BY <1>1, <3>1 DEF Money
  <2>. QED
    BY <2>1, <2>2
<1>4. ASSUME NEW p \in Procs, req[p] \in Request PROVE Settles(req[p])'
  <2>1. PICK r \in Request : r = req[p] /\ r.order \in Orders
    BY <1>4, RequestFields DEF Fields
  <2>2. Settles(r) /\ Keeps(r.order) /\ req'[p] = r
    BY <1>1, <1>2, <2>1 DEF SInv, HInv, MInv, Knows
  <2>. QED
    BY <1>1, <2>2 DEF Settles, Keeps
<1>. QED
  BY <1>1, <1>3, <1>4 DEF SInv

LEMMA NextPay ==
    ASSUME Serial
    PROVE  SInv /\ HInv' /\ [Next]_vars => SInv'
<1> SUFFICES ASSUME SInv, HInv', [Next]_vars PROVE SInv'
  OBVIOUS
<1>1. CASE UNCHANGED vars
  <2>1. \A o \in Orders : Held(o)' = Held(o)
    BY <1>1, HeldKept DEF Keeps, vars, rows, audit
  <2>. QED
    BY <1>1, <2>1 DEF SInv, Money, Settles, Releasing, vars, rows, stripe
<1>2. CASE \E o \in Orders : PlaceOrder(o) \/ CustomerPays(o)
  BY <1>2, OutsidePay
<1>3. CASE \E p \in Procs, o \in Orders : Receive(p, o)
  BY <1>3, ReceivePay
<1>4. CASE \E p \in Procs : Step(p) \/ Abort(p)
  BY <1>4, StepPay
<1>. QED
  BY <1>1, <1>2, <1>3, <1>4 DEF Next

LEMMA InitPay == Init => SInv
<1> SUFFICES ASSUME Init PROVE SInv
  OBVIOUS
<1>1. \A p \in Procs : req[p] \notin Request
  BY IdleIsNoRequest DEF Init
<1>2. \A o \in Orders : Len(transfers[o]) = 0
  BY DEF Init
<1>. QED
  BY <1>1, <1>2, InitHistory DEF SInv, Money

THEOREM SerialInvariance ==
    ASSUME Serial
    PROVE  Spec => []SInv
<1>1. SInv /\ HInv' /\ [Next]_vars => SInv'
  BY NextPay
<1>2. Spec => []HInv
  BY HistoryInvariance DEF Serial
<1>. QED
  BY <1>1, <1>2, InitPay, PTL DEF Spec

-----------------------------------------------------------------------------
(* The refinement.                                                         *)

Phase(o) ==
    IF Held(o) = "DELIVERED" /\ transfers[o] # <<>> THEN "settled" ELSE PhaseOf[Held(o)]

phases == [o \in Orders |-> Phase(o)]
frosts == [o \in Orders |-> status[o] = "BLOCKED"]
counts == [o \in Orders |-> Len(transfers[o])]

LEMMA MappedTo ==
    /\ Promise!vars = <<phases, frosts, counts>>
    /\ Promise!vars' = <<phases', frosts', counts'>>
BY DEF Promise!vars, phases, frosts, counts, Phase

LEMMA NoTransfer ==
    ASSUME TypeOK, NEW o \in Orders
    PROVE  transfers[o] = <<>> <=> Len(transfers[o]) = 0
<1>1. transfers[o] \in Seq(Farmers)
  BY DEF TypeOK
<1>. QED
  BY <1>1

LEMMA InitMaps == Init => Promise!Init
<1> SUFFICES ASSUME Init PROVE Promise!Init
  OBVIOUS
<1>1. \A o \in Orders : Held(o) = "NONE" /\ PhaseOf["NONE"] = "none"
  BY DEF Init, Held, PhaseOf
<1>2. \A o \in Orders : status[o] # "BLOCKED" /\ Len(transfers[o]) = 0
  BY DEF Init
<1>. QED
  BY <1>1, <1>2 DEF Promise!Init

(* What the promise sees of an order is decided by these.                  *)
Unseen(o) == Keeps(o) /\ transfers'[o] = transfers[o]

LEMMA UnseenMaps ==
    ASSUME NEW o \in Orders, Unseen(o)
    PROVE  /\ Phase(o)' = Phase(o) /\ (status[o] = "BLOCKED")' = (status[o] = "BLOCKED")
           /\ Len(transfers[o])' = Len(transfers[o])
BY HeldKept DEF Unseen, Keeps, Phase

LEMMA Stutters ==
    ASSUME \A o \in Orders : Unseen(o)
    PROVE  UNCHANGED Promise!vars
<1>1. phases' = phases /\ frosts' = frosts /\ counts' = counts
  BY UnseenMaps DEF phases, frosts, counts
<1>. QED
  BY <1>1, MappedTo

(* An order that is not blocked goes from one phase to the next.           *)
LEMMA Advances ==
    ASSUME NEW o \in Orders, NEW from, NEW to,
           Phase(o) = from, Phase(o)' = to, status[o] # "BLOCKED", status'[o] # "BLOCKED",
           \A x \in Orders \ {o} : Unseen(x)
    PROVE  Promise!Advance(o, from, to)
<1>1. phases' = [phases EXCEPT ![o] = to] /\ phases[o] = from
  BY UnseenMaps DEF phases
<1>2. frosts' = frosts /\ ~frosts[o]
  BY UnseenMaps DEF frosts
<1>. QED
  BY <1>1, <1>2 DEF Promise!Advance, phases, frosts, Phase

LEMMA CountsKept ==
    ASSUME UNCHANGED transfers
    PROVE  counts' = counts
BY DEF counts

LEMMA PlaceOrderMaps ==
    ASSUME SInv, NEW o \in Orders, PlaceOrder(o)
    PROVE  Promise!Next
<1>1. TypeOK /\ UNCHANGED transfers /\ status[o] = "NONE"
  BY DEF SInv, HInv, IInv, PlaceOrder, Placed, stripe
<1>2. PICK s \in {"LOCKED", "INITIATED"} : status'[o] = s
  BY <1>1 DEF PlaceOrder, TypeOK
<1>3. \A x \in Orders \ {o} : Unseen(x)
  BY <1>1 DEF PlaceOrder, Unseen, Keeps, TypeOK
<1>4. Phase(o) = "none" /\ Phase(o)' = PhaseOf[s]
  BY <1>1, <1>2 DEF Phase, Held, PhaseOf
<1>5. PhaseOf[s] \in {"held", "awaiting"}
  BY DEF PhaseOf
<1>6. Promise!Advance(o, "none", PhaseOf[s])
  BY <1>1, <1>2, <1>3, <1>4, Advances
<1>7. counts' = counts
  BY <1>1, CountsKept
<1>. QED
  BY <1>5, <1>6, <1>7 DEF Promise!Next, Promise!Open, counts

LEMMA CommitMaps ==
    ASSUME Serial, SInv, NEW p \in Procs, Busy(p, "commit"), Advance(p), UNCHANGED transfers
    PROVE  Promise!Next \/ UNCHANGED Promise!vars
<1>1. HInv /\ TypeOK
  BY DEF SInv, HInv, IInv
<1>2. PICK o \in Orders : o = req[p].order
  BY <1>1, CommitEffect
<1>3. PICK op \in Moving :
          /\ op = req[p].op /\ Held(o) = Expected[op] /\ Held(o)' = Target[op]
          /\ status[o] # "BLOCKED" /\ status'[o] # "BLOCKED"
          /\ \A x \in Orders \ {o} : Keeps(x)
  BY <1>1, <1>2, CommitHeld
<1>4. \A x \in Orders \ {o} : Unseen(x)
  BY <1>3 DEF Unseen
<1>5. counts' = counts
  BY CountsKept
<1>6. op = "release" <=> transfers[o] # <<>>
  <2>1. Procs = {p} /\ req[p] \in Request /\ req[p].pc = "commit"
    BY <1>1, CommitEffect DEF Serial, OneSlot
  <2>2. op = "release" => Len(transfers[o]) # 0
    <3>1. Backed(req[p]) /\ Len(transfers[o]) \in Nat
      BY <1>1, <2>1 DEF HInv, IInv, TypeOK
    <3>. QED
      BY <1>2, <1>3, <2>1, <3>1 DEF Backed
  <2>3. op # "release" => Len(transfers[o]) = 0
    BY <1>2, <1>3, <2>1 DEF SInv, Money, Releasing, Moving, Expected
  <2>. QED
    BY <1>1, <2>2, <2>3, NoTransfer
<1>7. CASE op = "lock"
  <2>1. Phase(o) = "awaiting" /\ Phase(o)' = "held"
    BY <1>3, <1>7 DEF Phase, PhaseOf, Expected, Target
  <2>2. Promise!Advance(o, "awaiting", "held")
    BY <1>3, <1>4, <2>1, Advances
  <2>. QED
    BY <1>5, <2>2 DEF Promise!Next, Promise!Fund, counts
<1>8. CASE op = "deliver"
  <2>1. Phase(o) = "held" /\ Phase(o)' = "proven"
    BY <1>3, <1>6, <1>8 DEF Phase, PhaseOf, Expected, Target
  <2>2. Promise!Advance(o, "held", "proven")
    BY <1>3, <1>4, <2>1, Advances
  <2>. QED
    BY <1>5, <2>2 DEF Promise!Next, Promise!Prove, counts
<1>9. CASE op = "release"
  <2>1. Phase(o) = "settled" /\ Phase(o)' = "settled"
    BY <1>3, <1>6, <1>9 DEF Phase, PhaseOf, Expected, Target
  <2>2. phases' = phases /\ frosts' = frosts
    BY <1>3, <1>4, <2>1, UnseenMaps DEF phases, frosts
  <2>. QED
    BY <1>5, <2>2, MappedTo
<1>. QED
  BY <1>7, <1>8, <1>9 DEF Moving

LEMMA TransferMaps ==
    ASSUME Serial, SInv, NEW p \in Procs, ReleaseTransfer(p)
    PROVE  Promise!Next
<1>1. TypeOK
  BY DEF SInv, HInv, IInv
<1>2. PICK o \in Orders : o = req[p].order
  BY <1>1, TransferEffect
<1>3. /\ req[p] \in Request /\ req[p].pc = "transfer" /\ req[p].op = "release"
      /\ UNCHANGED <<status, ledger>>
      /\ Len(transfers'[o]) = Len(transfers[o]) + 1
      /\ \A x \in Orders \ {o} : transfers'[x] = transfers[x]
  BY <1>1, <1>2, TransferEffect DEF rows, audit
<1>4. status[o] = "DELIVERED" /\ Len(transfers[o]) = 0
  BY <1>2, <1>3 DEF SInv, Settles
<1>5. transfers[o] = <<>> /\ transfers'[o] # <<>> /\ Len(transfers'[o]) = 1
  <2>1. Len(transfers'[o]) = 1 /\ Len(<<>>) = 0
    BY <1>3, <1>4
  <2>. QED
    BY <1>1, <1>4, <2>1, NoTransfer
<1>6. Held(o) = "DELIVERED" /\ Held(o)' = "DELIVERED"
  BY <1>3, <1>4 DEF Held
<1>7. Phase(o) = "proven" /\ Phase(o)' = "settled"
  BY <1>5, <1>6 DEF Phase, PhaseOf
<1>8. \A x \in Orders \ {o} : Unseen(x)
  BY <1>3 DEF Unseen, Keeps
<1>9. Promise!Advance(o, "proven", "settled")
  BY <1>3, <1>4, <1>7, <1>8, Advances
<1>10. counts' = [counts EXCEPT ![o] = counts[o] + 1]
  BY <1>3 DEF counts
<1>11. Promise!Settle(o)
  BY <1>9, <1>10 DEF Promise!Settle, counts
<1>. QED
  BY <1>11 DEF Promise!Next

LEMMA AdminMaps ==
    ASSUME SInv, NEW p \in Procs, BlockWrite(p) \/ UnblockWrite(p)
    PROVE  Promise!Next
<1>1. HInv /\ TypeOK
  BY DEF SInv, HInv, IInv
<1>2. PICK o \in Orders : o = req[p].order
  BY <1>1, AdminEffect
<1>3. /\ Placed(o) /\ Held(o)' = Held(o) /\ UNCHANGED transfers
      /\ status'[o] = "BLOCKED" <=> status[o] # "BLOCKED"
      /\ \A x \in Orders \ {o} : Keeps(x)
  BY <1>1, <1>2, AdminHeld, AdminEffect DEF stripe
<1>4. \A x \in Orders \ {o} : Unseen(x)
  BY <1>3 DEF Unseen
<1>5. phases' = phases
  <2>1. Phase(o)' = Phase(o)
    BY <1>3 DEF Phase
  <2>. QED
    BY <1>4, <2>1, UnseenMaps DEF phases
<1>6. frosts' = [frosts EXCEPT ![o] = ~frosts[o]]
  <2>1. \A x \in Orders : frosts'[x] = (IF x = o THEN ~frosts[o] ELSE frosts[x])
    BY <1>3, <1>4, UnseenMaps DEF frosts
  <2>. QED
    BY <2>1 DEF frosts
<1>7. phases[o] # "none"
  <2>1. Held(o) \in EscrowState \ {"BLOCKED"}
    BY <1>1, <1>3, HeldIsStatus
  <2>. QED
    BY <2>1 DEF phases, Phase, PhaseOf, EscrowState
<1>8. counts' = counts
  BY <1>3, CountsKept
<1>9. Promise!Freeze(o)
  BY <1>5, <1>6, <1>7, <1>8 DEF Promise!Freeze, phases, frosts, counts, Phase
<1>. QED
  BY <1>9 DEF Promise!Next

(* Every other step is one the promise does not see.                       *)
LEMMA NextMaps ==
    ASSUME Serial
    PROVE  SInv /\ [Next]_vars => [Promise!Next]_(Promise!vars)
<1> SUFFICES ASSUME SInv, [Next]_vars PROVE Promise!Next \/ UNCHANGED Promise!vars
  OBVIOUS
<1>1. CASE UNCHANGED <<status, ledger, transfers>>
  BY <1>1, Stutters DEF Unseen, Keeps
<1>2. CASE UNCHANGED vars
  BY <1>1, <1>2 DEF vars, rows, audit, stripe
<1>3. ASSUME NEW o \in Orders, CustomerPays(o)
      PROVE  UNCHANGED <<status, ledger, transfers>>
  BY <1>3 DEF CustomerPays, rows, audit
<1>4. ASSUME NEW p \in Procs, NEW o \in Orders, Receive(p, o)
      PROVE  UNCHANGED <<status, ledger, transfers>>
  BY <1>4 DEF Receive, WebhookReceive, ProofReceive, ReleaseReceive, BlockRead, UnblockRead,
     rows, audit, stripe
<1>5. ASSUME NEW p \in Procs, Abort(p)
      PROVE  UNCHANGED <<status, ledger, transfers>>
  BY <1>5 DEF Abort, rows, audit, stripe
<1>6. ASSUME NEW p \in Procs, WebhookCommit(p) \/ DeliverCommit(p) \/ ReleaseCommit(p)
      PROVE  Promise!Next \/ UNCHANGED Promise!vars
  BY <1>6, CommitMaps DEF WebhookCommit, DeliverCommit, ReleaseCommit, stripe
<1>7. ASSUME NEW p \in Procs, Step(p), ~WebhookCommit(p), ~DeliverCommit(p), ~ReleaseCommit(p),
             ~ReleaseTransfer(p), ~BlockWrite(p), ~UnblockWrite(p)
      PROVE  UNCHANGED <<status, ledger, transfers>>
  BY <1>7 DEF Step, Load, Create, ProofRead, ProofRecord, ReleaseRecheck, ReleaseRefused,
     ReleaseNotify, ReleaseRollback, rows, audit, stripe
<1>8. ASSUME NEW p \in Procs, Step(p)
      PROVE  Promise!Next \/ UNCHANGED Promise!vars
  BY <1>1, <1>6, <1>7, <1>8, TransferMaps, AdminMaps
<1>. QED
  BY <1>1, <1>2, <1>3, <1>4, <1>5, <1>8, PlaceOrderMaps DEF Next

(* One request at a time and without failures, the escrow implements       *)
(* EscrowPromise, for any orders, farmers and purchases.                   *)
THEOREM Implements ==
    ASSUME Serial
    PROVE  Spec => KeepsPromise
<1>1. SInv /\ [Next]_vars => [Promise!Next]_(Promise!vars)
  BY NextMaps
<1>. QED
  BY <1>1, InitMaps, SerialInvariance, PTL DEF Spec, KeepsPromise, Promise!Spec
=============================================================================
