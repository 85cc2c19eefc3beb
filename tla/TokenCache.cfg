\* A margin of exactly two cut-offs, one early invalidation, the adapter of feishu.
SPECIFICATION FairSpec
CONSTANTS
    Callers = {worker, handler}
    Lifetime = 6
    Margin = 4
    Timeout = 2
    Trusting = TRUE
    MaxInvalidations = 1
CHECK_DEADLOCK FALSE
INVARIANTS
    RefusalsExplained
    WaitBounded
PROPERTY RefusalsEnd
