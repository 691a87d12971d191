\* What the comment on runWriteFlow says of exit 0.
CONSTANTS
    Runs = {r1, r2}
    Contexts = {c1, c2}
    ExplicitNonces = {7}
    MaxNow = 1
    None = None
SPECIFICATION Spec
INVARIANT ExitZeroIsConfirmed
