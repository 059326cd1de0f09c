SPECIFICATION Spec
CONSTANTS
    a1 = a1
    a2 = a2
    a3 = a3
    AccountIDs = {a1, a2, a3}
    TransferIDs = {t1, t2}
    Workers = {w1}
    Commands <- Requests
    SeedBalances <- Seed
    OpeningDeposit = 1
    CashAmounts = {2}
    InitialCash = 2
    CalculateFee <- FlatFee
    ComplianceVerdicts <- ByAmount
    MinTransfer = 1
    MaxAttempts = 5
    BatchLimit = 2
    FaultKinds = {"lost", "unacked", "crash"}
    MaxFaults = 4
SYMMETRY Symmetry
INVARIANTS
    FailedMeansReleased
    ReceiptsHonoured
    CalmInv
PROPERTY
    ImplementsAtomicPayments
