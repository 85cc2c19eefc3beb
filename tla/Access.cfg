\* Three calls that interleave, one dropped error, sessions of one tick.
SPECIFICATION Spec
CONSTANTS
    ann = ann
    bob = bob
    admin = admin
    operator = operator
    app = app
    subject = subject
    bootstrap = bootstrap
    NoUser = NoUser
    NoRole = NoRole
    NoSubject = NoSubject
    NoApplication = NoApplication
    Users = {ann, bob}
    Roles = {admin, operator}
    Tokens = {bootstrap, t1}
    Sessions = {s1}
    Subjects = {subject}
    Calls = {c1, c2, c3}
    Grantable <- MCGrantable
    InitialRoles <- MCInitialRoles
    OpenID <- MCOpenID
    Development = TRUE
    SessionTTL = 1
    MaxTime = 2
    MaxFaults = 1
SYMMETRY Symmetry
CHECK_DEADLOCK FALSE
INVARIANTS
    SnapshotNeverExceeds
    SnapshotMissesNothing
    LateActsExplained
 
