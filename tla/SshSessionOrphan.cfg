SPECIFICATION AnsweringSpec
CONSTANTS
    k1 = k1
    k2 = k2
    u1 = u1
    u2 = u2
    r1 = r1
    r2 = r2
    NoKey = NoKey
    Keys <- MCKeys
    Users <- MCUsers
    Owner = u1
    Reqs <- MCReqs
    HANDSHAKE_TIMEOUT = 1
    ALARM_INTERVAL = 2
    UNCLAIMED_TTL = 3
    HOSTKEY_TIMEOUT = 4
    IDLE_TIMEOUT = 5
    MAX_SESSION = 6
PROPERTIES
    BothHalvesDie
