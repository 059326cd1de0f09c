SPECIFICATION Spec
CONSTANTS
    Alphabet <- Characters
    MaxLen = 6
    MaxInt = 507
    Unit = 10
    minimumDepositAmount = 50
INVARIANTS
    DecimalsReadExactly
    OnlyExtraSigns
    RoundTrip
    FeeRoundsHalfUp
