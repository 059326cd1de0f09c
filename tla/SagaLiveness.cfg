SPECIFICATION FairSpec
CONSTANTS
    a1 = a1
    a2 = a2
    a3 = a3
    AccountIDs = {a1, a2}
    TransferIDs = {t1}
    Workers = {w1, w2}
    Commands <- Single
    SeedBalances <- Seed
    OpeningDeposit = 0
    CashAmounts = {2}
    InitialCash = 2
    CalculateFee <- FlatFee
    ComplianceVerdicts <- AnyVerdict
    MinTransfer = 1
    MaxAttempts = 2
    BatchLimit = 1
    FaultKinds = {"lost", "unacked", "crash"}
    MaxFaults = 3
PROPERTY
    SagaEndsUnlessPostedOnReleasedHold
