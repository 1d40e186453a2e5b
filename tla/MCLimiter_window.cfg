SPECIFICATION Spec
CONSTANTS
    register = register
    Key = {register}
    Limit <- Limits
    Window = 4
    Second = 2
    Caller = {c1, c2, c3}
    Delay = 1
    MaxTime = 10
    MaxChecks = 5
SYMMETRY Threads
INVARIANTS
    TypeOK
    NeverOverLimit
    RefusedOnlyWhenBusy
    RetryAfterAlmostSuffices
CHECK_DEADLOCK FALSE
