CONSTANTS
    Width <- MCWidth
    NoHash = NoHash
    Default = Default
    Garbage = Garbage
    Never = Never
    Users <- MCUsers
    Keepers <- MCKeepers
    Nonces = {0, 1}
    Amounts = {0, 1, 4}
    Notionals = {1, 4}
    Hashes <- MCHashes
    Signed <- MCSigned
    Oracles <- MCOracles
    Given <- MCGiven
    MaxRecords = 2
    MaxCommits = 1
    MaxHolding = 1
    MaxClock = 3
    Ttl = 1
    Cooldown = 1
    MaxVenueStateAge = 1
    Leads = {0, 1}
SPECIFICATION SessionSpec
INVARIANT HaltedIssuanceIsListed
