\* One order of two farmers, one of them without a trust profile; three overlapping requests, faults anywhere.
SPECIFICATION Spec
CONSTANTS
    o1 = o1
    o2 = o2
    f1 = f1
    f2 = f2
    p1 = p1
    p2 = p2
    p3 = p3
    Orders = {o1}
    Farmers = {f1, f2}
    Procs = {p1, p2, p3}
    Purchases <- SharedAndCredit
    Connected = {f1, f2}
    Profiled = {f1}
    Faults = TRUE
    MaxBlocks = 1
    MaxTransfers = 2
    MaxStamp = 4
SYMMETRY ProcSymmetry
INVARIANTS
    EscrowIsFunded
    PayoutNeedsDelivery
    BlockedCanBeRestored
    ReleasedWasPaidOut
    PaidOrderIsInLedger
CHECK_DEADLOCK FALSE
