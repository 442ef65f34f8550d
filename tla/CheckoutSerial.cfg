\* Two checkouts, edits from a page that may be old, and a loan, one at a time, nothing fails.
SPECIFICATION Spec
CONSTANTS
    r1 = r1
    r2 = r2
    r3 = r3
    b1 = b1
    f1 = f1
    f2 = f2
    x1 = x1
    x2 = x2
    Nobody = Nobody
    Requests = {r1, r2}
    Buyers = {b1}
    Farmers = {f1}
    Products = {x1, x2}
    Carts <- TwoCarts
    Owner <- OneSeller
    Opening <- Scarce
    Prices = {20, 30}
    Changes = {0, 1}
    Grants = {42}
    MaxStock = 2
    MaxCredit = 84
    Overlap = FALSE
    Faults = FALSE
INVARIANTS
    CreditWithinLoan
    PaidInFull
PROPERTIES
    KeepsSale
CHECK_DEADLOCK FALSE
