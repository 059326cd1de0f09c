SPECIFICATION Spec
CONSTANTS
    a1 = a1
    a2 = a2
    a3 = a3
    AccountIDs = {a1, a2}
    TransferIDs = {t1}
    Workers = {w1}
    Commands <- Single
    SeedBalances <- Seed
    OpeningDeposit = 0
    CashAmounts = {5}
    InitialCash = 0
    CalculateFee <- NoFee
    ComplianceVerdicts <- AlwaysApproved
    MinTransfer = 1
    MaxAttempts = 5
    BatchLimit = 100
    FaultKinds = {"lost", "crash"}
    MaxFaults = 6
INVARIANT NoOverdraft
