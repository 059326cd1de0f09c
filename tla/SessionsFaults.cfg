SPECIFICATION SessionsSpec
CONSTANTS
    CustomerIDs = {c1, c2}
    AccountIDs = {n1, n2}
    Identities <- People
    AdminEmails = {"e1"}
    Passwords = {"p1", "p2"}
    Tokens = {k1, k2}
    Requests = {r1, r2}
    Lifetime = 1
    MaxTime = 1
    FaultKinds = {"lost", "unacked", "crash"}
    MaxFaults = 1
SYMMETRY Symmetry
CHECK_DEADLOCK FALSE
INVARIANTS
    SessionsTypeOK
    OwnAccountOnly
    ReviewedByAnAdmin
    IssuedIsUsable
PROPERTIES
    SessionEndsForGood
