CONSTANTS
    Runs = {r1, r2}
    Contexts = {c1, c2}
    ExplicitNonces = {7}
    MaxNow = 1
    None = None
SPECIFICATION Spec
SYMMETRY MCSymmetry
INVARIANTS TypeOK OnlyApprovedIsSent SentAsSimulated OneEscrowAtATime RefusedSentNothing
