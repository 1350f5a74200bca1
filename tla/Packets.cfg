SPECIFICATION FairSpec
CONSTANTS
    e1 = e1
    p1 = p1
    p2 = p2
    p3 = p3
    p4 = p4
    NewKeys = NewKeys
    Early <- MCEarly
    Late <- MCLate
    IVs = 3
    IV0 = 2
INVARIANTS
    IVsDistinct
    ServerInStep
PROPERTIES
    ServedInOrder
    CallsAnswered
CHECK_DEADLOCK FALSE
