\* What action.yml promises of every source, `auto` included.
CONSTANTS
    Deltas <- MCDeltas
    Bands <- MCBands
    MaxProofs = 2
    Unpublished = Unpublished
    ThresholdPublished = {FALSE}
    Limit = 3
SPECIFICATION FairSpec
PROPERTY DriftIsCaught
