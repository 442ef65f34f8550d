\* One e-mail address, two pages and two requests, any of which may die.
SPECIFICATION FairSpec
CONSTANTS
    People = {p1}
    Tabs = {t1, t2}
    Calls = {c1, c2}
    None = None
    Faults = TRUE
INVARIANTS
    RowsAgree
    ToldIsTrue
PROPERTIES
    FirstRequestSyncs
CHECK_DEADLOCK FALSE
