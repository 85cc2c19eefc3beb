------------------------------- MODULE Access -------------------------------
(***************************************************************************)
(* Who may do what: roles and their permissions, users and their roles,    *)
(* API tokens, web sessions and chat identities (auth/token.go, store.go), *)
(* the calls that authenticate with one of them (middleware/auth.go), and  *)
(* the handlers of administrators that change all of this.                 *)
(*                                                                         *)
(* Authentication is several statements outside a transaction: the         *)
(* credential, the permissions of its role or user, whether the role is    *)
(* the one named admin.  Each is a step; the handler acts later, on what   *)
(* was read.  A call is used once.  No code takes a role from a user, a    *)
(* permission from a role, or a session back.                              *)
(*                                                                         *)
(* Operations and ProviderSwitch take the caller and its permissions as    *)
(* given; the steps that read them are here.  The handlers that create     *)
(* users and roles are left out: those in the constants exist from the     *)
(* beginning.  The development login creates a user too; a user that has   *)
(* nothing yet stands for the new one.                                     *)
(*                                                                         *)
(* Of the identities of a user two matter here: that on the chat platform, *)
(* which is feishu's where people log in with it, and the one of the local *)
(* development administrator, which is of the provider web.                *)
(***************************************************************************)
EXTENDS Domain, Naturals, FiniteSets

CONSTANTS
    Users, Roles,
    admin,             \* the role of that name
    Tokens,            \* rows api_tokens may get
    Sessions,          \* rows web_sessions may get
    Subjects,          \* names of people on the chat platform and in OAuth
    OpenID,            \* users.feishu_open_id, written when a user is created
    Development,       \* development mode, with development logins enabled
    Calls,             \* requests, each made once
    Grantable,         \* permissions administrators may grant
    bootstrap,         \* the token of EnsureBootstrap
    InitialRoles,      \* the roles of each user
    NoUser, NoRole, NoSubject, NoApplication,
    SessionTTL,        \* life of a session (8 h)
    MaxTime, MaxFaults \* bounds: clock and dropped errors explored

\* What a role named admin adds to the permissions of its holder.
AdminPermission == [action |-> "admin", application |-> NoApplication]

Permissions == Grantable \cup {AdminPermission}

Credentials ==
    ({"token"} \X Tokens) \cup ({"session"} \X Sessions) \cup ({"chat", "oauth"} \X Subjects)
        \cup {<<"development">>}

ASSUME ConstantsAssumption ==
    /\ admin \in Roles /\ NoRole \notin Roles
    /\ Users \cap Roles = {} /\ NoUser \notin Users \cup Roles
    /\ NoSubject \notin Subjects
    /\ bootstrap \in Tokens
    /\ Grantable \subseteq [action : Actions, application : {p.application : p \in Grantable}]
    /\ InitialRoles \in [Users -> SUBSET Roles]
    /\ OpenID \in [Users -> Subjects \cup {NoSubject}]
    /\ Development \in BOOLEAN
    /\ SessionTTL \in Nat \ {0} /\ MaxTime \in Nat /\ MaxFaults \in Nat

VARIABLES
    grants,     \* rows of app_permissions
    roles,      \* rows of user_roles
    token,      \* rows of api_tokens
    session,    \* rows of web_sessions
    subjectOf,  \* the chat identity of each user
    developer,  \* the user with the identity local-development-admin
    call,       \* progress of each call
    clock,
    crossed,    \* ghost: calls under way when their credential stopped being good
    faults      \* errors that VerifySession and Verify dropped

vars == <<grants, roles, token, session, subjectOf, developer, call, clock, crossed, faults>>

tables == <<grants, roles, token, session, subjectOf, developer>>

Never == MaxTime + 1

NoToken == [role |-> NoRole, expires |-> 0, revoked |-> FALSE]
NoSession == [user |-> NoUser, expires |-> 0]

Fresh == [pc |-> "fresh", by |-> <<"none">>, who |-> NoUser, permissions |-> {},
          had |-> {}, missed |-> FALSE, late |-> FALSE]

SubjectsUnique ==
    \A u, v \in Users : u # v /\ subjectOf[u] \in Subjects => subjectOf[u] # subjectOf[v]

Init ==
    /\ grants = [r \in Roles |-> {}]
    /\ roles = InitialRoles
    /\ token = [t \in Tokens |-> IF t = bootstrap
                                 THEN [role |-> admin, expires |-> Never, revoked |-> FALSE]
                                 ELSE NoToken]
    /\ session = [s \in Sessions |-> NoSession]
    /\ subjectOf \in [Users -> Subjects \cup {NoSubject}]
    /\ SubjectsUnique
    /\ developer \in {u \in Users : admin \in InitialRoles[u]} \cup {NoUser}
    /\ call = [c \in Calls |-> Fresh]
    /\ clock = 0
    /\ crossed = {}
    /\ faults = 0

(***************************************************************************)
(* What the tables say now                                                 *)
(***************************************************************************)
\* The roles a call acts with: that of a token, or those of a user.
RolesOf(who) == IF who \in Users THEN roles[who] ELSE {who} \cap Roles

Granted(who) == UNION {grants[r] : r \in RolesOf(who)}

IsAdmin(who) == admin \in RolesOf(who)

Effective(who) == Granted(who) \cup (IF IsAdmin(who) THEN {AdminPermission} ELSE {})

\* Mutant: revocation is not looked at.
TokenGoodUnrevoked(t) == token[t].role # NoRole /\ token[t].expires >= clock

\* A token is good until it expires, a session only before: Before is strict, > is not.
TokenGood(t) == token[t].role # NoRole /\ ~token[t].revoked /\ token[t].expires >= clock
SessionGood(s) == session[s].user # NoUser /\ session[s].expires > clock

\* Revoked or past its time.
NoLongerGood(by) ==
    \/ by[1] = "token" /\ (token[by[2]].revoked \/ token[by[2]].expires < clock)
    \/ by[1] = "session" /\ session[by[2]].expires <= clock

At(c, pc) == call[c].pc = pc

UnderWay(c) == call[c].pc \in {"named", "permitted", "ready"}

(***************************************************************************)
(* Authentication                                                          *)
(***************************************************************************)
Names(c, by, who) ==
    call' = [call EXCEPT ![c] = [@ EXCEPT !.pc = "named", !.by = by, !.who = who,
                                          !.had = Effective(who)]]

ReadToken(c, t) ==
    /\ At(c, "fresh")
    /\ TokenGood(t)
    /\ Names(c, <<"token", t>>, token[t].role)
    /\ UNCHANGED <<tables, clock, crossed, faults>>

ReadSession(c, s) ==
    /\ At(c, "fresh")
    /\ SessionGood(s)
    /\ Names(c, <<"session", s>>, session[s].user)
    /\ UNCHANGED <<tables, clock, crossed, faults>>

FindUserByIdentity(subject) == {u \in Users : subjectOf[u] = subject}

\* A subject without an identity is looked for in the older column.
FindUserByOpenID(subject) ==
    IF FindUserByIdentity(subject) # {} THEN FindUserByIdentity(subject)
    ELSE {u \in Users : OpenID[u] = subject}

\* A message from a chat.
ReadIdentity(c, subject, u) ==
    /\ At(c, "fresh")
    /\ u \in FindUserByIdentity(subject)
    /\ Names(c, <<"chat", subject>>, u)
    /\ UNCHANGED <<tables, clock, crossed, faults>>

\* OAuthCallback.
ReadOpenID(c, subject, u) ==
    /\ At(c, "fresh")
    /\ u \in FindUserByOpenID(subject)
    /\ Names(c, <<"oauth", subject>>, u)
    /\ UNCHANGED <<tables, clock, crossed, faults>>

\* A user that has nothing yet.
Unused(u) ==
    /\ roles[u] = {} /\ subjectOf[u] = NoSubject /\ OpenID[u] = NoSubject
    /\ \A s \in Sessions : session[s].user # u
    /\ \A c \in Calls : call[c].who # u

\* Mutant: the new role takes the place of the others.
WithRoleOnly(u, r) == [roles EXCEPT ![u] = {r}]

WithRole(u, r) == [roles EXCEPT ![u] = @ \cup {r}]

\* EnsureDevelopmentAdmin, which asks for no credential: whoever has the identity, or a
\* new user, gets the role admin.  A server that starts does the same, and no more.
DevLogin(c, u) ==
    /\ Development
    /\ At(c, "fresh")
    /\ u = developer \/ (developer = NoUser /\ Unused(u))
    /\ developer' = u
    /\ roles' = WithRole(u, admin)
    /\ Names(c, <<"development">>, u)
    /\ UNCHANGED <<grants, token, session, subjectOf, clock, crossed, faults>>

\* Calls that only log in.
LogsIn(c) == call[c].by[1] \in {"oauth", "development"}

ReadPermissions(c) ==
    /\ At(c, "named")
    /\ ~LogsIn(c)
    /\ call' = [call EXCEPT ![c] = [@ EXCEPT !.pc = "permitted",
                                             !.permissions = Granted(call[c].who)]]
    /\ UNCHANGED <<tables, clock, crossed, faults>>

\* Mutant: asked only when no permission was found.
ReadAdminUnlessGranted(c) == IsAdmin(call[c].who) /\ call[c].permissions = {}

\* The question whether the role is the one named admin.
ReadAdmin(c) == IsAdmin(call[c].who)

ReadRoleName(c) ==
    /\ At(c, "permitted")
    /\ call' = [call EXCEPT ![c] = [@ EXCEPT !.pc = "ready",
                    !.permissions = call[c].permissions \cup (IF ReadAdmin(c) THEN {AdminPermission} ELSE {})]]
    /\ UNCHANGED <<tables, clock, crossed, faults>>

\* Verify and VerifySession drop the error of that query: the caller is no administrator.
\* PrincipalForUser returns it, and the call ends.
MissRoleName(c) ==
    /\ At(c, "permitted")
    /\ faults < MaxFaults
    /\ faults' = faults + 1
    /\ call' = [call EXCEPT ![c] = [@ EXCEPT !.pc = IF call[c].by[1] = "chat" THEN "refused"
                                                    ELSE "ready",
                                             !.missed = TRUE]]
    /\ UNCHANGED <<tables, clock, crossed>>

(***************************************************************************)
(* Handlers                                                                *)
(***************************************************************************)
May(c, action, application) == Allows(call[c].permissions, action, application)

\* Mutant: any caller that was authenticated.
RequireAdminOpen(c) == At(c, "ready") /\ call[c].by[1] # "chat"

\* Messages from a chat do not reach the handlers of administrators.
RequireAdmin(c) ==
    At(c, "ready") /\ call[c].by[1] # "chat" /\ May(c, "admin", NoApplication)

Ends(c) ==
    /\ call' = [call EXCEPT ![c] = [@ EXCEPT !.pc = "served", !.late = NoLongerGood(call[c].by)]]
    /\ UNCHANGED <<clock, faults>>

\* The handlers of operations: act if the snapshot allows it.
Act(c, permission) ==
    /\ At(c, "ready")
    /\ May(c, permission.action, permission.application)
    /\ Ends(c)
    /\ UNCHANGED <<tables, crossed>>

\* Whoever may do anything to an application may look at it and at its operations.
CanView(c, application) ==
    \E action \in {"admin", "view", "deploy", "rollback", "approve"} : May(c, action, application)

Show(c, application) ==
    /\ At(c, "ready")
    /\ CanView(c, application)
    /\ Ends(c)
    /\ UNCHANGED <<tables, crossed>>

\* A handler answers 403 by what it asks for, which is any of the above.
Forbid(c) ==
    /\ At(c, "ready")
    /\ call' = [call EXCEPT ![c].pc = "refused"]
    /\ UNCHANGED <<tables, clock, crossed, faults>>

AddUserRole(c, u, r) ==
    /\ RequireAdmin(c)
    /\ roles' = WithRole(u, r)
    /\ Ends(c)
    /\ UNCHANGED <<grants, token, session, subjectOf, developer, crossed>>

\* A permission that the role has already is refused by the unique index.
GrantPermission(c, r, permission) ==
    /\ RequireAdmin(c)
    /\ permission \notin grants[r]
    /\ grants' = [grants EXCEPT ![r] = @ \cup {permission}]
    /\ Ends(c)
    /\ UNCHANGED <<roles, token, session, subjectOf, developer, crossed>>

Issue(c, t, r, expires) ==
    /\ RequireAdmin(c)
    /\ token[t] = NoToken
    /\ token' = [token EXCEPT ![t] = [role |-> r, expires |-> expires, revoked |-> FALSE]]
    /\ Ends(c)
    /\ UNCHANGED <<grants, roles, session, subjectOf, developer, crossed>>

Uses(credential) == {c \in Calls : UnderWay(c) /\ call[c].by = credential}

\* The token may be the caller's own.
Revoke(c, t) ==
    /\ RequireAdmin(c)
    /\ token[t].role # NoRole
    /\ token' = [token EXCEPT ![t].revoked = TRUE]
    /\ crossed' = crossed \cup (Uses(<<"token", t>>) \ {c})
    /\ Ends(c)
    /\ UNCHANGED <<grants, roles, session, subjectOf, developer>>

Taken(u, subject) == \E v \in Users \ {u} : subjectOf[v] = subject

\* UpsertExternalIdentity: a subject belongs to one user at most.
UpsertIdentity(c, u, subject) ==
    /\ RequireAdmin(c)
    /\ ~Taken(u, subject)
    /\ subjectOf' = [subjectOf EXCEPT ![u] = subject]
    /\ Ends(c)
    /\ UNCHANGED <<grants, roles, token, session, developer, crossed>>

\* The same for the provider web: the subject of the development administrator, or another.
UpsertWebIdentity(c, u, local) ==
    /\ RequireAdmin(c)
    /\ local => developer \in {u, NoUser}
    /\ developer' = IF local THEN u ELSE IF developer = u THEN NoUser ELSE developer
    /\ Ends(c)
    /\ UNCHANGED <<grants, roles, token, session, subjectOf, crossed>>

\* OAuthCallback and devLogin: CreateSession for the user that was found.
Login(c, s) ==
    /\ At(c, "named")
    /\ LogsIn(c)
    /\ session[s] = NoSession
    /\ session' = [session EXCEPT ![s] = [user |-> call[c].who, expires |-> clock + SessionTTL]]
    /\ Ends(c)
    /\ UNCHANGED <<grants, roles, token, subjectOf, developer, crossed>>

Tick ==
    /\ clock < MaxTime
    /\ clock' = clock + 1
    /\ crossed' = crossed \cup
           {c \in Calls : UnderWay(c) /\ \/ call[c].by[1] = "token"
                                            /\ token[call[c].by[2]].expires = clock
                                         \/ call[c].by[1] = "session"
                                            /\ session[call[c].by[2]].expires = clock + 1}
    /\ UNCHANGED <<tables, call, faults>>

Authenticate(c) ==
    \/ \E t \in Tokens : ReadToken(c, t)
    \/ \E s \in Sessions : ReadSession(c, s)
    \/ \E u \in Users, subject \in Subjects : ReadIdentity(c, subject, u) \/ ReadOpenID(c, subject, u)
    \/ \E u \in Users : DevLogin(c, u)
    \/ ReadPermissions(c) \/ ReadRoleName(c) \/ MissRoleName(c)

Handle(c) ==
    \/ \E permission \in Grantable : Act(c, permission) \/ Show(c, permission.application)
    \/ Forbid(c)
    \/ \E u \in Users, r \in Roles : AddUserRole(c, u, r)
    \/ \E r \in Roles, permission \in Grantable : GrantPermission(c, r, permission)
    \/ \E t \in Tokens, r \in Roles, expires \in {clock, Never} : Issue(c, t, r, expires)
    \/ \E t \in Tokens : Revoke(c, t)
    \/ \E u \in Users, subject \in Subjects : UpsertIdentity(c, u, subject)
    \/ \E u \in Users, local \in BOOLEAN : UpsertWebIdentity(c, u, local)
    \/ \E s \in Sessions : Login(c, s)

Next == Tick \/ \E c \in Calls : Authenticate(c) \/ Handle(c)

Spec == Init /\ [][Next]_vars

(***************************************************************************)
(* Properties                                                              *)
(***************************************************************************)
CallState ==
    [pc : {"fresh", "named", "permitted", "ready", "served", "refused"},
     by : Credentials \cup {<<"none">>}, who : Users \cup Roles \cup {NoUser},
     permissions : SUBSET Permissions, had : SUBSET Permissions,
     missed : BOOLEAN, late : BOOLEAN]

\* Types of the tables and of the calls; a subject names one user.
TypeOK ==
    /\ grants \in [Roles -> SUBSET Grantable]
    /\ roles \in [Users -> SUBSET Roles]
    /\ token \in [Tokens -> [role : Roles \cup {NoRole}, expires : Nat, revoked : BOOLEAN]]
    /\ session \in [Sessions -> [user : Users \cup {NoUser}, expires : Nat]]
    /\ subjectOf \in [Users -> Subjects \cup {NoSubject}]
    /\ SubjectsUnique
    /\ developer \in Users \cup {NoUser}
    /\ call \in [Calls -> CallState]
    /\ clock \in 0..MaxTime
    /\ crossed \subseteq Calls
    /\ faults \in 0..MaxFaults

\* However the tables change between the reads of a call and its act, it never acts
\* with a permission that its role or user lacks by now (token.go:72-93, 141-163).
SnapshotNeverExceeds ==
    \A c \in Calls : call[c].permissions \subseteq Effective(call[c].who)

\* The reads of a call, though each sees another moment, find everything its role or
\* user had when it was authenticated, unless the error of one was dropped
\* (token.go:80-91, 158).
SnapshotMissesNothing ==
    \A c \in Calls : (At(c, "ready") /\ ~call[c].missed) => call[c].had \subseteq call[c].permissions

\* A call acts with a token or a session that is revoked or expired only if it was
\* under way at that moment (token.go:77, 143).
LateActsExplained == \A c \in Calls : call[c].late => c \in crossed

Administrators ==
    {who \in Users \cup Roles : Allows(Effective(who), "admin", NoApplication)}

\* The act of a caller who is an administrator still.
ActOfAdministrator(c) ==
    At(c, "ready") /\ call'[c].pc = "served" /\ call[c].who \in Administrators

\* A development login makes one user an administrator: the one that has the development
\* identity, or a new one if nobody has it.
DevelopmentLogin(c) ==
    /\ Development /\ At(c, "fresh") /\ call'[c].by = <<"development">>
    /\ Administrators' = Administrators \cup {developer'}
    /\ developer = developer' \/ (developer = NoUser /\ Unused(developer'))

\* Nobody becomes an administrator, or gets or loses the identity that a development login
\* makes one, but by the act of a caller who is an administrator still; in development
\* mode also by a development login, which takes no credential and makes nobody else one
\* (api.go:481-521, 558-576, 641-668; store.go:227-257).
AdministratorsMakeAdministrators ==
    [][Administrators' # Administrators \/ developer' # developer =>
        \E c \in Calls : ActOfAdministrator(c) \/ DevelopmentLogin(c)]_vars

=============================================================================
