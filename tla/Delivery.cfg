\* One operation that waits for an approval, two replicas and two faults: one replica
\* settles what another one reports.
SPECIFICATION FairDelivery
CONSTANTS
    NoUser = NoUser
    NoOp = NoOp
    NoRequest = NoRequest
    alice = alice
    bob = bob
    aliceChat = aliceChat
    bobSession = bobSession
    app = app
    production = production
    Ops = {o1}
    Users = {alice, bob}
    Principals = {aliceChat, bobSession}
    Applications = {app}
    Environments = {production}
    Keys = {k1}
    ApplicationOf <- MCApplicationOf
    ApprovalRequired = {production}
    UserOf <- MCUserOf
    PermissionsOf <- MCPermissionsOf
    Rows = {1}
    Registered = {1}
    Limit = 2
    Lease = 1
    RetryDelay = 1
    SendTimeout = 1
    Skew <- MCSkew
    Workers = {w1, w2}
    MaxFaults = 2
CHECK_DEADLOCK FALSE
INVARIANT TurnsOK
PROPERTIES
    ReportedInTheEnd
    ImplementsReporting
