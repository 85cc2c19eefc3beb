\* Polls of two rows, so that a client behind by three needs two of them.
SPECIFICATION FairSpec
CONSTANTS
    browser = browser
    resuming = resuming
    MaxRows = 3
    Limit = 2
    MaxDrops = 1
    Clients = {browser, resuming}
    Resuming = {resuming}
CHECK_DEADLOCK FALSE
INVARIANTS
    InOrder
    SkipsExplained
PROPERTY EventuallyReceived
