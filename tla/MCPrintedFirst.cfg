\* What the header of write.ts says is shown before anything is sent.
CONSTANTS
    Runs = {r1, r2}
    Contexts = {c1, c2}
    ExplicitNonces = {7}
    MaxNow = 1
    None = None
SPECIFICATION Spec
INVARIANT PrintedBeforeSent
