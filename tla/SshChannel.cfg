SPECIFICATION FairSpec
CONSTANTS
    z1 = z1
    Pump = Pump
    Closer = Closer
    Lengths <- MCLengths
    Resizes <- MCResizes
    REMOTE_WINDOW = 3
    MAX_CHUNK = 2
    LOCAL_WINDOW = 3
    WINDOW_REFILL_AT = 1
    MAX_CREDIT = 3
INVARIANTS
    WindowKept
    InputInOrder
    OutputAccounted
    NothingAfterChannelClose
PROPERTIES
    ServerNotStarved
    WritesGoOn
CHECK_DEADLOCK FALSE
