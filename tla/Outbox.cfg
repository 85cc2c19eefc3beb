\* The first row cannot be sent.  A batch of two leaves a row out when three are due, and
\* two sends outlast its lease; the second replica's clock takes the lease away.
SPECIFICATION FairSpec
CONSTANTS
    w1 = w1
    w2 = w2
    Rows = {1, 2, 3}
    Workers = {w1, w2}
    Registered = {2, 3}
    Limit = 2
    Lease = 2
    RetryDelay = 1
    SendTimeout = 2
    Skew <- MCSkew
    MaxFaults = 1
CHECK_DEADLOCK FALSE
INVARIANTS
    LeaseKeepsWorkersApart
    DuplicatesExplained
PROPERTY EventuallySent
