\* One browser, two sessions, two phones, anything may be lost.
SPECIFICATION Spec
CONSTANTS
    u1 = u1
    u2 = u2
    d1 = d1
    Users = {u1, u2}
    Devices = {d1}
    Login <- OneLogin
    Requests <- Shared
    MaxSessions = 2
    Tabs = {t1, t2}
    Numbers = {n1}
    Cards = {c1, c2}
    Faces = {f1}
    None = None
    Faults = TRUE
SYMMETRY Symmetry
INVARIANTS
    ProfileIsEvidenced
    DeviceIsVetted
    DesktopUpdates
CHECK_DEADLOCK FALSE
