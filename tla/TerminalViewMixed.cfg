SPECIFICATION Spec
CONSTANTS
    s1 = s1
    s2 = s2
    k1 = k1
    k2 = k2
    Servers <- MCTwoServers
    Keys <- MCOneKey
    Unsaved = Unsaved
    None = None
    MAX_SESSIONS = 3
    MAX_CALLS = 3
    MAX_REBUILDS = 0
SYMMETRY MCSymmetry
CONSTRAINT MCOnePage
INVARIANTS
    PinConfirmed
CHECK_DEADLOCK FALSE
