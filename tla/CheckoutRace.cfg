\* Three overlapping checkouts, stock for two of them, a loan raised, faults anywhere.
SPECIFICATION FairSpec
CONSTANTS
    r1 = r1
    r2 = r2
    r3 = r3
    b1 = b1
    f1 = f1
    f2 = f2
    x1 = x1
    x2 = x2
    Nobody = Nobody
    Requests = {r1, r2, r3}
    Buyers = {b1}
    Farmers = {f1}
    Products = {x1, x2}
    Carts <- ThreeCarts
    Owner <- OneSeller
    Opening <- EnoughForTwo
    Prices = {20}
    Changes = {}
    Grants = {42}
    MaxStock = 3
    MaxCredit = 42
    Overlap = TRUE
    Faults = TRUE
INVARIANTS
    TypeOK
    StockIsConserved
    LoanIsSpentByOrders
    SellersAreTold
PROPERTIES
    CheckoutEnds
CHECK_DEADLOCK FALSE
