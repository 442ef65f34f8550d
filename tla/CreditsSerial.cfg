\* Three offers of two lenders, one request at a time, nothing fails.
SPECIFICATION Spec
CONSTANTS
    c1 = c1
    c2 = c2
    c3 = c3
    l1 = l1
    l2 = l2
    b1 = b1
    p1 = p1
    p2 = p2
    Offers = {c1, c2, c3}
    Lenders = {l1, l2}
    Borrowers = {b1}
    Procs = {p1}
    Terms <- Thrice
    Connected = {b1}
    Faults = FALSE
    MaxCustomers = 2
    MaxTransfers = 2
INVARIANTS
    BooksAgree
    CardIsFound
PROPERTIES
    KeepsOfferPromise
CHECK_DEADLOCK FALSE
