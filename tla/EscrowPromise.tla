--------------------------- MODULE EscrowPromise ---------------------------
(***************************************************************************)
(* What the escrow promises a buyer and the sellers, without ledgers,      *)
(* requests or Stripe: money is held from the payment to the proof of      *)
(* delivery, it is paid out once, and an order that is frozen goes on      *)
(* later exactly where it was.                                             *)
(***************************************************************************)
EXTENDS Naturals

CONSTANT Orders

VARIABLES
    phase,    \* how far the order got
    frozen,   \* an admin holds it
    payouts   \* how often its farmers were paid

vars == <<phase, frozen, payouts>>

Init ==
    /\ phase = [o \in Orders |-> "none"]
    /\ frozen = [o \in Orders |-> FALSE]
    /\ payouts = [o \in Orders |-> 0]

Advance(o, from, to) ==
    /\ phase[o] = from /\ ~frozen[o]
    /\ phase' = [phase EXCEPT ![o] = to]
    /\ UNCHANGED frozen

(* An order that credit covers in full is held from the start.             *)
Open(o) == (Advance(o, "none", "awaiting") \/ Advance(o, "none", "held")) /\ UNCHANGED payouts
Fund(o) == Advance(o, "awaiting", "held") /\ UNCHANGED payouts
Prove(o) == Advance(o, "held", "proven") /\ UNCHANGED payouts
Settle(o) ==
    /\ Advance(o, "proven", "settled")
    /\ payouts' = [payouts EXCEPT ![o] = @ + 1]

(* Freezing and unfreezing leave the phase alone.                          *)
Freeze(o) ==
    /\ phase[o] # "none"
    /\ frozen' = [frozen EXCEPT ![o] = ~@]
    /\ UNCHANGED <<phase, payouts>>

Next == \E o \in Orders : Open(o) \/ Fund(o) \/ Prove(o) \/ Settle(o) \/ Freeze(o)

Spec == Init /\ [][Next]_vars
=============================================================================
