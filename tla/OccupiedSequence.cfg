SPECIFICATION Spec
CONSTANTS
    t1 = t1
    t2 = t2
    t3 = t3
    AccountIDs = {1, 2}
    Transfers <- Orders
    CashAmounts = {1}
    OpeningBalance = 3
    Processes = {p1, p2}
    Workloads <- CashOnly
    MaxEvents = 2
INVARIANTS
    OccupiedIsConflict
