SPECIFICATION Spec
CONSTANTS
    r1 = r1
    r2 = r2
    l1 = l1
    l2 = l2
    c1 = c1
    o1 = o1
    u0 = u0
    e0 = e0
    e1 = e1
    e2 = e2
    p1 = p1
    p2 = p2
    i1 = i1
    None = None
    Regs <- MCRegs
    Logins <- MCLogins
    Changes <- MCChanges
    Outs <- MCOuts
    Earlier <- MCEarlier
    EarlierEmail <- MCEarlierEmail
    Emails <- MCEmails
    Passwords <- MCPasswords
    Codes <- MCCodes
    Forms <- MCForms
    MAX_DEATHS = 1
    OPEN_REGISTRATION = FALSE
SYMMETRY MCSymmetry
INVARIANTS
    InviteHeld
    RefusedLeavesNothing
    KeyOpens
    ChangeSignsOut
CHECK_DEADLOCK FALSE
