\* What the help text of `keeper run` says of its exit code.
CONSTANTS
    Deltas <- MCDeltas
    Bands <- MCBands
    MaxProofs = 1
    ThresholdPublished = {FALSE, TRUE}
    Unpublished = Unpublished
    Limits <- MCLimits
SPECIFICATION Spec
INVARIANT AnyBreachExitsFour
CHECK_DEADLOCK FALSE
