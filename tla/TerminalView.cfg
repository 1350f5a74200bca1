SPECIFICATION FairSpec
CONSTANTS
    s1 = s1
    s2 = s2
    k1 = k1
    k2 = k2
    Servers <- MCServers
    Keys <- MCKeys
    Unsaved = Unsaved
    None = None
    MAX_SESSIONS = 2
    MAX_CALLS = 2
    MAX_REBUILDS = 1
INVARIANTS
    ConsentIsOwn
    PinApproved
PROPERTIES
    SessionsAsPromised
    NoneStranded
    Settles
CHECK_DEADLOCK FALSE
