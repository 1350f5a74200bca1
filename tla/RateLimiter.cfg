SPECIFICATION FairSpec
CONSTANTS
    LIMIT = 2
    WINDOW = 2
    Weights = {1, 2}
    Levels <- MCLevels
    DECAY = 4
    SLACK = 1
    None = None
    MAX_COUNT = 4
    MAX_STRIKES = 5
INVARIANTS
    BlockKept
    SpanBounded
PROPERTIES
    Evicted
    KeepsPromise
