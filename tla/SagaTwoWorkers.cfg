SPECIFICATION Spec
CONSTANTS
    a1 = a1
    a2 = a2
    a3 = a3
    AccountIDs = {a1, a2}
    TransferIDs = {t1, t2}
    Workers = {w1, w2}
    Commands <- Competing
    SeedBalances <- Seed
    OpeningDeposit = 0
    CashAmounts = {2}
    InitialCash = 2
    CalculateFee <- FlatFee
    ComplianceVerdicts <- AnyVerdict
    MinTransfer = 1
    MaxAttempts = 2
    BatchLimit = 1
    FaultKinds = {"crash"}
    MaxFaults = 1
SYMMETRY Symmetry
INVARIANTS
    SagaInv
    PublishedOnce
PROPERTIES
    SagaMovesForward
    EffectsAreFinal
