\* Two orders, one request at a time, nothing fails.
SPECIFICATION FairSpec
CONSTANTS
    o1 = o1
    o2 = o2
    f1 = f1
    f2 = f2
    p1 = p1
    p2 = p2
    p3 = p3
    Orders = {o1, o2}
    Farmers = {f1}
    Procs = {p1}
    Purchases <- Mixed
    Connected = {f1}
    Profiled = {f1}
    Faults = FALSE
    MaxBlocks = 2
    MaxTransfers = 2
    MaxStamp = 7
INVARIANTS
    HistoryTellsStatus
PROPERTIES
    KeepsPromise
    PaymentIsLocked
    FirstDeliveryIsReleased
CHECK_DEADLOCK FALSE
