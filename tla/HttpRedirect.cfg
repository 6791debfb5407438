CONSTANTS
    Task = {r1, r2}
    Limited = {r1, r2}
    Addr = {a1, a2}
    MaxChan = 4
    MaxAttempt = 4
    RetryCounts = {0, 1}
    Wrap = 4
    NoTask = none
    NoTimer = none
SPECIFICATION RedirectSpec
INVARIANT TimeoutHasTask
CHECK_DEADLOCK FALSE
