\* The doc comment of carry-gate.ts, read of the book an admitted mint leaves.
CONSTANTS
    BackingOnlyPct = 0
    ReducePct = 25
    DrainingPct = 50
    HealthyPct = 75
    EasingMarginPct = 5
    MaxEaseSteps = 1
    TargetPerUnit = 20
    TargetBps = 300
    MinRunwayDays = 30
    ReopenMarginBps = 2
    NoObservation = NoObservation
    OpeningBalance = 20
    Amounts <- MCAmounts
    Carries <- MCCarries
    MaxSupply = 2
    MaxBalance = 44
    MaxLoss = 4
    FeePerUnit = 1
SPECIFICATION Spec
PROPERTY AdmittedMintLeavesRunway
