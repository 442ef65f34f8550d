\* One page of any kind on an order that is blocked at most twice; what other
\* pages do to the order happens elsewhere, at any time.
SPECIFICATION FairSpec
CONSTANTS
    Pages = {p1}
    None = None
    MaxBlocks = 2
    MaxAsked = 2
    Faults = TRUE
INVARIANTS
    PageTellsHistory
PROPERTIES
    BannerIsKept
    PagesSettle
CHECK_DEADLOCK FALSE
