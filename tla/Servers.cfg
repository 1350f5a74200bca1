SPECIFICATION Spec
CONSTANTS
    s1 = s1
    s2 = s2
    t1 = t1
    h1 = h1
    h2 = h2
    x1 = x1
    x2 = x2
    k1 = k1
    k2 = k2
    a1 = a1
    b1 = b1
    None = None
    Same = Same
    Ids <- MCIds
    Terminals <- MCTerminals
    Hosts <- MCHosts
    Secrets <- MCSecrets
    Keys <- MCKeys
    Addresses <- MCAddresses
    Blocked <- MCBlocked
    Entries <- MCEntries
    Edits <- MCEdits
    MAX_SERVERS = 1
SYMMETRY MCSymmetry
INVARIANTS
    CredentialFits
    PinBelongs
    LimitKept
CHECK_DEADLOCK FALSE
