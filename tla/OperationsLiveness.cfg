\* No approvals, so that only the workers matter: two operations, two workers that may
\* stop or lose a transaction twice, under the fairness of their tickers.
SPECIFICATION FairSpec
CONSTANTS
    NoUser = NoUser
    NoOp = NoOp
    NoRequest = NoRequest
    alice = alice
    bob = bob
    aliceSession = aliceSession
    bobChat = bobChat
    approverToken = approverToken
    app = app
    production = production
    staging = staging
    Ops = {o1, o2}
    Users = {alice}
    Principals = {aliceSession}
    Applications = {app}
    Environments = {staging}
    Keys = {k1, k2}
    Workers = {w1, w2}
    ApplicationOf <- MCApplicationOf
    ApprovalRequired = {}
    UserOf <- MCUserOf
    PermissionsOf <- MCPermissionsOf
    MaxFaults = 2
CHECK_DEADLOCK FALSE
PROPERTIES
    QueuedSettles
