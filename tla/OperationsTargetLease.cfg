\* Two operations on one environment, two workers, no fault.
SPECIFICATION Spec
CONSTANTS
    NoUser = NoUser
    NoOp = NoOp
    NoRequest = NoRequest
    alice = alice
    bob = bob
    aliceSession = aliceSession
    bobChat = bobChat
    approverToken = approverToken
    app = app
    production = production
    staging = staging
    Ops = {o1, o2}
    Users = {alice}
    Principals = {aliceSession}
    Applications = {app}
    Environments = {staging}
    Keys = {k1, k2}
    Workers = {w1, w2}
    ApplicationOf <- MCApplicationOf
    ApprovalRequired = {}
    UserOf <- MCUserOf
    PermissionsOf <- MCPermissionsOf
    MaxFaults = 0
SYMMETRY Symmetry
CHECK_DEADLOCK FALSE
INVARIANT OneRunningPerEnvironment
