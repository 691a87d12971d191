\* The same policy with two rungs allowed per easing.
CONSTANTS
    BackingOnlyPct = 0
    ReducePct = 25
    DrainingPct = 50
    HealthyPct = 75
    EasingMarginPct = 5
    MaxEaseSteps = 2
    TargetPerUnit = 20
    TargetBps = 300
    MinRunwayDays = 30
    ReopenMarginBps = 0
    NoObservation = NoObservation
    Coverages <- MCCoverages
    NotEased = NotEased
SPECIFICATION LadderSpec
PROPERTY NoFlap
