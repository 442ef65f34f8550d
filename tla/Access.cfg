\* An administrator's list with two toggles under way, and one browser of the
\* user that waits for two answers at once.
SPECIFICATION AccessFairSpec
CONSTANTS
    Screens = {p1}
    Calls = {c1, c2}
    Fetches = {f1, f2}
    Failures = TRUE
PROPERTIES
    ToggleAgrees
    DisabledIsSignedOut
CHECK_DEADLOCK FALSE
