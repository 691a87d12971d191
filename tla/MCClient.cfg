CONSTANTS
    Deltas <- MCDeltas
    Bands <- MCBands
    MaxProofs = 2
    Unpublished = Unpublished
    ThresholdPublished = {FALSE}
    Limit = 3
    Width <- MCWidth
    NoHash = NoHash
    Default = Default
    Garbage = Garbage
    Never = Never
    Users <- MCUsers
    Keepers <- MCKeepers
    Nonces = {0, 1}
    Amounts = {0, 1, 4}
    Notionals = {1, 4}
    Hashes <- MCHashes
    Signed <- MCSigned
    Oracles <- MCOracles
    Given <- MCGiven
    MaxRecords = 2
    MaxCommits = 1
    MaxHolding = 1
    MaxClock = 3
    Ttl = 1
    Cooldown = 1
    MaxVenueStateAge = 1
    Leads = {0, 1}
    Figures = {0, 1}
    NoProof = NoProof
    ConfigAddress = ConfigAddress
    MaxLog = 3
    PageLimits = {0, 2, 9}
    MaxPage = 3
    MaxSettled = 2
    StatusSources = {"auto", "chain", "api"}
SPECIFICATION FairClientSpec
INVARIANTS ClientTypeOK OneInstant
    ExecutedAsMeant FreshContextResolves ExitsSurviveRotation FoundAsStored
    CancellableReadsExpired StaleReadingIsListed
    UntouchedNeverFlagged AlterationIsFlagged RehashedBreaksTheLink
    StatsAreOfOneConfig ChainGapsAreNoted
PROPERTIES GreenMeansMeasuredInside ChainBreachNeedsAWideBand ApiDriftIsCaught
    CaughtFailuresLoseNothing
