\* Default thresholds, hysteresis and runway; a 3% target worth 20 buffer units
\* per unit of supply, so that one buffer unit is five points of target.
CONSTANTS
    BackingOnlyPct = 0
    ReducePct = 25
    DrainingPct = 50
    HealthyPct = 75
    EasingMarginPct = 5
    MaxEaseSteps = 1
    TargetPerUnit = 20
    TargetBps = 300
    MinRunwayDays = 30
    ReopenMarginBps = 2
    NoObservation = NoObservation
    Coverages <- MCCoverages
    NotEased = NotEased
    OpeningBalance = 20
    Amounts <- MCAmounts
    Carries <- MCCarries
    MaxSupply = 2
    MaxBalance = 44
    MaxLoss = 4
    FeePerUnit = 1
SPECIFICATION FairCallersSpec
INVARIANTS CallersTypeOK LossConservation EasedPastTheEdge
PROPERTIES NoFlap RecoveryCompletes DeclineIsNotLost LadderFollowsPosture
           BufferAbsorbsFirst DiscretionaryKeepsTarget ReopensWithMargin
           EmptySupplyIsFinal FollowsPosture
