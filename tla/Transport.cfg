SPECIFICATION FairSpec
CONSTANTS
    MAX_LINES = 2
    MAX_ASIDES = 2
INVARIANTS
    EndsForCause
    AnsweredOnce
PROPERTIES
    Settles
    Unwinds
CHECK_DEADLOCK FALSE
