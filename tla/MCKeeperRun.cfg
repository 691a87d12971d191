CONSTANTS
    Deltas <- MCDeltas
    Bands <- MCBands
    MaxProofs = 1
    ThresholdPublished = {FALSE, TRUE}
    Unpublished = Unpublished
    Limits <- MCLimits
SPECIFICATION FairSpec
INVARIANTS TypeOK CleanExitMeansNeverFlagged NothingStartsAfterCtrlC
PROPERTIES StopsWhenTold
CHECK_DEADLOCK FALSE
