\* Two operations, two keys, two workers, two faults.
SPECIFICATION Spec
CONSTANTS
    NoUser = NoUser
    NoOp = NoOp
    NoRequest = NoRequest
    alice = alice
    bob = bob
    aliceSession = aliceSession
    bobChat = bobChat
    approverToken = approverToken
    app = app
    production = production
    staging = staging
    Ops = {o1, o2}
    Users = {alice, bob}
    Principals = {aliceSession, bobChat, approverToken}
    Applications = {app}
    Environments = {production, staging}
    Keys = {k1, k2}
    Workers = {w1, w2}
    ApplicationOf <- MCApplicationOf
    ApprovalRequired = {production}
    UserOf <- MCUserOf
    PermissionsOf <- MCPermissionsOf
    MaxFaults = 2
SYMMETRY Symmetry
CHECK_DEADLOCK FALSE
INVARIANTS
    FourEyes
    RolledOutAtMostOnce
    OneOwner
    OneDecision
    OutcomeIsPublished
    SuccessIsReal
    LossesByFaultsOnly
    
PROPERTIES
    ImplementsChangeControl
