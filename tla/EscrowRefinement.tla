-------------------------- MODULE EscrowRefinement --------------------------
(***************************************************************************)
(* The escrow keeps EscrowPromise as long as the requests for an order do  *)
(* not overlap and none dies after it moved money.  A blocked order is in  *)
(* the phase its last BLOCKED ledger entry saved; an order is settled from *)
(* the moment Stripe accepted the transfer, before the row says RELEASED.  *)
(***************************************************************************)
EXTENDS Escrow

Held(o) == IF status[o] = "BLOCKED" THEN LastBlocked(o).prev ELSE status[o]

PhaseOf == [NONE |-> "none", INITIATED |-> "awaiting", LOCKED |-> "held",
            DELIVERED |-> "proven", RELEASED |-> "settled"]

Promise == INSTANCE EscrowPromise WITH
    phase   <- [o \in Orders |->
                   IF Held(o) = "DELIVERED" /\ transfers[o] # <<>>
                   THEN "settled" ELSE PhaseOf[Held(o)]],
    frozen  <- [o \in Orders |-> status[o] = "BLOCKED"],
    payouts <- [o \in Orders |-> Len(transfers[o])]

(* Every behaviour of the handlers, one request at a time, is one of the   *)
(* promise: paid out once, only after payment and proof, never while an    *)
(* admin holds the order, and resumed where the block found it.            *)
KeepsPromise == Promise!Spec
=============================================================================
