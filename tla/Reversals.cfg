SPECIFICATION Spec
CONSTANTS
    a1 = a1
    a2 = a2
    t1 = t1
    NoID = NoID
    AccountIDs = {a1, a2}
    Admins = {d1, d2}
    RequestIDs = {r1, r2}
    Transfers <- PaidTransfer
    Amounts = {1}
    Forms <- SomeForms
    OpeningBalance = 3
    MaxEvents = 2
SYMMETRY Symmetry
CHECK_DEADLOCK FALSE
INVARIANTS
    TypeOK
    UndoneOnce
    ReversalRestores
    DebitsAreCovered
