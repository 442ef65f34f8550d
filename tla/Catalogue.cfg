\* Two tabs add and edit a product: calls may die.
SPECIFICATION Spec
CONSTANTS
    p1 = p1
    p2 = p2
    Pages = {p1, p2}
    Products = {a}
    Files = {f1}
    Copies = 2
    MaxPhotos = 2
    None = None
    Faults = TRUE
INVARIANTS
    StoresAgree
    SavedIsDone
SYMMETRY MCSymmetry
CHECK_DEADLOCK FALSE
