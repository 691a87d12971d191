\* The page with both halves asked for, as `poyz status` does by default.
CONSTANTS
    MaxSettled = 1
    StatusSources = {"auto"}
SPECIFICATION StatusSpec
PROPERTY OneHalfLeavesTheOther
