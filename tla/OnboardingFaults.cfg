SPECIFICATION Spec
CONSTANTS
    CustomerIDs = {c1, c2, c3}
    AccountIDs = {n1, n2, n3}
    Identities <- People
    FaultKinds = {"lost", "unacked", "crash"}
    MaxFaults = 3
SYMMETRY Symmetry
CHECK_DEADLOCK FALSE
INVARIANTS
    OnePersonOneRow
    OneAccountPerApproval
    AcceptedIsComplete
