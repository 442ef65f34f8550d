\* One browser of one tab, used by two retailers in turn: answers may be lost.
SPECIFICATION Spec
CONSTANTS
    u1 = u1
    u2 = u2
    t1 = t1
    pA = pA
    pB = pB
    fA = fA
    fB = fB
    Users = {u1, u2}
    Tabs = {t1}
    Products <- MCProducts
    Farmers <- MCFarmers
    FarmerOf <- MCFarmerOf
    Stock <- MCStock
    NoOne = NoOne
    MaxQty = 2
    MaxOrders = 1
    Faults = TRUE
INVARIANTS
    CartIsStored
    OrdersAreFit
    SuccessIsPaid
SYMMETRY MCSymmetry
