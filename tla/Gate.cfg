SPECIFICATION GateFairSpec
CONSTANTS
    Addresses = {a1, a2}
    Slots = {s1, s2}
    HOME = a1
    ROTATING = {a2}
    LOGIN = 3
    OVER = 5
    WRONG = 2
    PROBE = 2
    THRESHOLD = 4
    ASKED = {"guess"}
    MAX_REQUESTS = 4
    MAX_MISHAPS = 1
INVARIANTS
    AccountBounded
PROPERTIES
    OwnerGetsIn
CHECK_DEADLOCK FALSE
