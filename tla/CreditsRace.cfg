\* Two offers for one loan, two overlapping requests, faults anywhere.
SPECIFICATION Spec
CONSTANTS
    c1 = c1
    c2 = c2
    c3 = c3
    l1 = l1
    l2 = l2
    b1 = b1
    p1 = p1
    p2 = p2
    Offers = {c1, c2}
    Lenders = {l1}
    Borrowers = {b1}
    Procs = {p1, p2}
    Terms <- Twice
    Connected = {b1}
    Faults = TRUE
    MaxCustomers = 1
    MaxTransfers = 2
SYMMETRY Symmetry
INVARIANTS
    AnswersAreSettled
    CreditIsBacked
    NoticesAreTrue
    UndisturbedIsSettled
CHECK_DEADLOCK FALSE
