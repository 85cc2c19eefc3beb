------------------------------- MODULE Startup -------------------------------
(***************************************************************************)
(* The start of the replicas of the service on one database (run in        *)
(* cmd/server/main.go): migrations, bootstrap token, check and storage of  *)
(* the configured message provider, development administrator.             *)
(*                                                                         *)
(* Each statement outside a transaction is a step.  The two transactions   *)
(* hold an advisory lock: migrations take one step each and show when they *)
(* commit; the one for the development administrator reads in one step and *)
(* writes and commits in another, since the administrators' edits of       *)
(* identities do not take its lock.  Development logins run the same       *)
(* transaction from a replica that already serves.                         *)
(*                                                                         *)
(* A start that fails exits, and the Kubernetes Deployment starts the      *)
(* replica again, perhaps with a changed configuration.  openCtx cancels a *)
(* start after fifteen seconds: that is a Stop here.                       *)
(***************************************************************************)
EXTENDS Naturals, FiniteSets

CONSTANTS
    Replicas,
    Migrations,      \* the embedded migrations, 1..n in the order of their names
    Configurations,  \* what a replica may be started with
    Providers, web,
    Secrets, NoSecret,
    Members,         \* users that exist before, without a web identity
    Spare,           \* identifiers of the users EnsureDevelopmentAdmin creates
    NoUser, NoProvider,
    MaxFaults,       \* bound: stops explored
    MaxEdits         \* bound: edits of web identities explored

Configuration == [secret : Secrets \cup {NoSecret}, provider : Providers, dev : BOOLEAN]

Users == Members \cup Spare

\* The subject local-development-admin, and any other.
Subjects == {"dev", "other"}

ASSUME ConstantsAssumption ==
    /\ IsFiniteSet(Replicas)
    /\ IsFiniteSet(Migrations) /\ Migrations = 1..Cardinality(Migrations)
    /\ Configurations \subseteq Configuration
    /\ web \in Providers /\ NoProvider \notin Providers
    /\ NoSecret \notin Secrets
    /\ Members \cap Spare = {} /\ NoUser \notin Users
    /\ MaxFaults \in Nat /\ MaxEdits \in Nat

VARIABLES
    schema,    \* versions recorded in schema_migrations
    tokens,    \* bootstrap tokens, by the secret their fingerprint is of
    setting,   \* the row active_message_provider
    existing,  \* rows of users
    subjectOf, \* the web identity of each user, "none" when it has none
    admins,    \* users with the role admin
    replica,   \* how far each replica is
    rivals,    \* ghost: other starts about to insert when the first token appeared
    chosen,    \* ghost: the last provider an administrator selected
    edits, faults

vars == <<schema, tokens, setting, existing, subjectOf, admins, replica,
          rivals, chosen, edits, faults>>

people == <<existing, subjectOf, admins>>
bounds == <<edits, faults>>

Off(config) == [pc |-> "down", config |-> config, applied |-> {}, tx |-> "none", seen |-> NoUser]

Init ==
    /\ schema \in {1..n : n \in 0..Cardinality(Migrations) - 1}
    /\ tokens = {}
    /\ setting = NoProvider
    /\ existing = Members
    /\ subjectOf = [u \in Users |-> "none"]
    /\ admins = {}
    /\ \E config \in Configurations : replica = [r \in Replicas |-> Off(config)]
    /\ rivals = 0
    /\ chosen = NoProvider
    /\ edits = 0
    /\ faults = 0

Config(r) == replica[r].config

At(r, pc) == replica[r].pc = pc

Goes(r, pc) == replica' = [replica EXCEPT ![r].pc = pc]

\* A start that returns an error, or a process that ends: transactions roll back.
Exits(r) == replica' = [replica EXCEPT ![r] = Off(@.config)]

Start(r) ==
    /\ At(r, "down")
    /\ \E config \in Configurations :
           replica' = [replica EXCEPT ![r] = [@ EXCEPT !.pc = "waiting", !.config = config]]
    /\ UNCHANGED <<schema, tokens, setting, people, rivals, chosen, bounds>>

(***************************************************************************)
(* Migrate                                                                 *)
(***************************************************************************)
\* Mutants: no advisory lock; a lock that lasts as long as the session.
MigrationLockOpen == TRUE
MigrationLockOfSession == \A r \in Replicas : At(r, "down") \/ At(r, "waiting")

MigrationLockFree == \A r \in Replicas : ~At(r, "migrating")

LockMigrations(r) ==
    /\ At(r, "waiting")
    /\ MigrationLockFree
    /\ Goes(r, "migrating")
    /\ UNCHANGED <<schema, tokens, setting, people, rivals, chosen, bounds>>

Missing(r) == Migrations \ (schema \cup replica[r].applied)

ApplyMigration(r) ==
    /\ At(r, "migrating")
    /\ \E version \in Missing(r) :
           /\ \A other \in Missing(r) : version <= other
           /\ replica' = [replica EXCEPT ![r].applied = @ \cup {version}]
    /\ UNCHANGED <<schema, tokens, setting, people, rivals, chosen, bounds>>

CommitMigrations(r) ==
    /\ At(r, "migrating")
    /\ Missing(r) = {}
    /\ schema' = schema \cup replica[r].applied
    /\ replica' = [replica EXCEPT ![r] = [@ EXCEPT !.pc = "counting", !.applied = {}]]
    /\ UNCHANGED <<tokens, setting, people, rivals, chosen, bounds>>

(***************************************************************************)
(* EnsureBootstrap                                                         *)
(***************************************************************************)
\* Mutant: the tokens are not counted.
NeedsBootstrapUncounted(r) == Config(r).secret # NoSecret

NeedsBootstrap(r) == Config(r).secret # NoSecret /\ tokens = {}

CountTokens(r) ==
    /\ At(r, "counting")
    /\ Goes(r, IF NeedsBootstrap(r) THEN "bootstrapping" ELSE "checking")
    /\ UNCHANGED <<schema, tokens, setting, people, rivals, chosen, bounds>>

InsertToken(r) ==
    /\ At(r, "bootstrapping")
    /\ Config(r).secret \notin tokens
    /\ tokens' = tokens \cup {Config(r).secret}
    /\ rivals' = IF tokens = {}
                 THEN Cardinality({q \in Replicas \ {r} : At(q, "bootstrapping")})
                 ELSE rivals
    /\ Goes(r, "checking")
    /\ UNCHANGED <<schema, setting, people, chosen, bounds>>

\* The fingerprint is unique: the start fails.
InsertTokenTwice(r) ==
    /\ At(r, "bootstrapping")
    /\ Config(r).secret \in tokens
    /\ Exits(r)
    /\ UNCHANGED <<schema, tokens, setting, people, rivals, chosen, bounds>>

(***************************************************************************)
(* The configured message provider                                         *)
(***************************************************************************)
CheckProvider(r) ==
    /\ At(r, "checking")
    /\ Goes(r, "storing")
    /\ UNCHANGED <<schema, tokens, setting, people, rivals, chosen, bounds>>

\* The platform does not answer, or refuses the credentials; web never fails.
ProviderUnhealthy(r) ==
    /\ At(r, "checking")
    /\ Config(r).provider # web
    /\ Exits(r)
    /\ UNCHANGED <<schema, tokens, setting, people, rivals, chosen, bounds>>

\* Mutant: an UPDATE of a row that is not there.
InitializedUpdated(r) == IF setting = NoProvider THEN NoProvider ELSE setting

\* ON CONFLICT DO NOTHING
Initialized(r) == IF setting = NoProvider THEN Config(r).provider ELSE setting

InitializeActiveMessageProvider(r) ==
    /\ At(r, "storing")
    /\ setting' = Initialized(r)
    /\ Goes(r, IF Config(r).dev THEN "entering" ELSE "serving")
    /\ UNCHANGED <<schema, tokens, people, rivals, chosen, bounds>>

(***************************************************************************)
(* EnsureDevelopmentAdmin, from the start and from devLogin                *)
(***************************************************************************)
\* Mutant: no advisory lock.
AdminLockOpen == TRUE

AdminLockFree == \A r \in Replicas : replica[r].tx = "none"

Holders == {u \in existing : subjectOf[u] = "dev"}

\* FindUserByIdentity: provider and subject are unique, so there is at most one.
Found == IF Holders = {} THEN NoUser ELSE CHOOSE u \in Holders : TRUE

FindDevelopmentAdmin(r) ==
    /\ \/ At(r, "entering")
       \/ At(r, "serving") /\ Config(r).dev
    /\ replica[r].tx = "none"
    /\ AdminLockFree
    /\ replica' = [replica EXCEPT ![r] = [@ EXCEPT !.tx = "open", !.seen = Found]]
    /\ UNCHANGED <<schema, tokens, setting, people, rivals, chosen, bounds>>

\* The identifier the database generates: any that is not taken yet.
NewUser == CHOOSE u \in Spare : u \notin existing

Committed(r) ==
    replica' = [replica EXCEPT ![r] = [@ EXCEPT !.pc = "serving", !.tx = "none", !.seen = NoUser]]

GrantExisting(r) ==
    /\ replica[r].tx = "open"
    /\ replica[r].seen # NoUser
    /\ admins' = admins \cup {replica[r].seen}
    /\ Committed(r)
    /\ UNCHANGED <<schema, tokens, setting, existing, subjectOf, rivals, chosen, bounds>>

CreateDevelopmentAdmin(r) ==
    /\ replica[r].tx = "open"
    /\ replica[r].seen = NoUser
    /\ Holders = {}
    /\ Spare \ existing # {}
    /\ existing' = existing \cup {NewUser}
    /\ subjectOf' = [subjectOf EXCEPT ![NewUser] = "dev"]
    /\ admins' = admins \cup {NewUser}
    /\ Committed(r)
    /\ UNCHANGED <<schema, tokens, setting, rivals, chosen, bounds>>

\* Somebody took the subject after it was looked up: the insert of the identity fails
\* and takes the user with it.  A start exits, a login reports the error.
AdminClashes(r) ==
    /\ replica[r].tx = "open"
    /\ replica[r].seen = NoUser
    /\ Holders # {}
    /\ IF At(r, "serving")
       THEN replica' = [replica EXCEPT ![r].tx = "none"]
       ELSE Exits(r)
    /\ UNCHANGED <<schema, tokens, setting, people, rivals, chosen, bounds>>

(***************************************************************************)
(* Administrators of a replica that serves                                 *)
(***************************************************************************)
\* UpsertExternalIdentity: one web identity per user, one user per subject.
EditIdentity(u, subject) ==
    /\ edits < MaxEdits
    /\ \E r \in Replicas : At(r, "serving")
    /\ u \in existing
    /\ subject = "dev" => Holders \subseteq {u}
    /\ subjectOf' = [subjectOf EXCEPT ![u] = subject]
    /\ edits' = edits + 1
    /\ UNCHANGED <<schema, tokens, setting, existing, admins, replica, rivals, chosen, faults>>

\* setMessageProvider, which ProviderSwitch looks into.
SelectProvider(p) ==
    /\ \E r \in Replicas : At(r, "serving")
    /\ setting' = p
    /\ chosen' = p
    /\ UNCHANGED <<schema, tokens, people, replica, rivals, bounds>>

Stop(r) ==
    /\ ~At(r, "down")
    /\ faults < MaxFaults
    /\ faults' = faults + 1
    /\ Exits(r)
    /\ UNCHANGED <<schema, tokens, setting, people, rivals, chosen, edits>>

StartStep(r) ==
    \/ Start(r) \/ ApplyMigration(r) \/ CommitMigrations(r)
    \/ CountTokens(r) \/ InsertToken(r) \/ InsertTokenTwice(r)
    \/ InitializeActiveMessageProvider(r)
    \/ GrantExisting(r) \/ CreateDevelopmentAdmin(r) \/ AdminClashes(r)

Next ==
    \/ \E r \in Replicas :
           \/ StartStep(r)
           \/ LockMigrations(r) \/ CheckProvider(r) \/ ProviderUnhealthy(r)
           \/ FindDevelopmentAdmin(r) \/ Stop(r)
    \/ \E u \in Users, subject \in Subjects : EditIdentity(u, subject)
    \/ \E p \in Providers : SelectProvider(p)

Spec == Init /\ [][Next]_vars

\* A process goes on until it serves or exits and is started again; PostgreSQL hands
\* an advisory lock to those that wait for it; a platform that is asked again and again
\* answers at some time.
Fairness ==
    \A r \in Replicas :
        /\ WF_vars(StartStep(r) \/ (At(r, "checking") /\ Config(r).provider = web
                                      /\ CheckProvider(r)))
        /\ SF_vars(LockMigrations(r))
        /\ SF_vars(CheckProvider(r))
        /\ SF_vars(At(r, "entering") /\ FindDevelopmentAdmin(r))

FairSpec == Spec /\ Fairness

(***************************************************************************)
(* Properties                                                              *)
(***************************************************************************)

ReplicaState ==
    [pc : {"down", "waiting", "migrating", "counting", "bootstrapping",
           "checking", "storing", "entering", "serving"},
     config : Configurations, applied : SUBSET Migrations,
     tx : {"none", "open"}, seen : Users \cup {NoUser}]

\* Types of the tables and of the progress of run; a transaction is open only in the
\* part of the start, or the login, that began it.
TypeOK ==
    /\ schema \subseteq Migrations
    /\ tokens \subseteq Secrets
    /\ {setting, chosen} \subseteq Providers \cup {NoProvider}
    /\ existing \subseteq Users
    /\ subjectOf \in [Users -> Subjects \cup {"none"}]
    /\ admins \subseteq existing
    /\ replica \in [Replicas -> ReplicaState]
    /\ \A r \in Replicas :
           /\ replica[r].applied # {} => At(r, "migrating")
           /\ replica[r].tx = "open" => At(r, "entering") \/ At(r, "serving")
    /\ rivals \in 0..Cardinality(Replicas)
    /\ edits \in 0..MaxEdits /\ faults \in 0..MaxFaults

\* However many replicas start at once, none applies a migration that another has
\* applied (migrate.go:16: the advisory lock is taken before the versions are read).
MigratesAlone == \A r \in Replicas : replica[r].applied \cap schema = {}

\* Whatever crashes, the schema goes to the new version in one step, never through one
\* in between (migrate.go:15: one transaction around all migrations).
MigratesAtOnce == [][schema' # schema => schema' = Migrations]_vars

\* More than one bootstrap token exists only if starts with different secrets passed
\* each other before the first token was there: a later start, even with a new secret,
\* adds none (token.go:30-44).
TokensExplained == Cardinality(tokens) <= 1 + rivals

\* What a replica that serves relies on is there: the whole schema, a token to begin
\* with, the stored provider, and, while nobody edited identities, a development
\* administrator (main.go:72-106).
ServingIsReady ==
    \A r \in Replicas : At(r, "serving") =>
        /\ schema = Migrations
        /\ Config(r).secret # NoSecret => tokens # {}
        /\ setting # NoProvider
        /\ Config(r).dev /\ edits = 0 => Holders # {} /\ Holders \subseteq admins

\* No start, with whatever configuration, undoes the choice of an administrator
\* (store.go:314).
ChoiceSurvivesStarts == chosen # NoProvider => setting = chosen

\* A user that EnsureDevelopmentAdmin creates has its identity and its role from the
\* first moment, though starts crash and edits cross it (store.go:230-256).
DevelopmentAdminIsWhole ==
    \A u \in existing \cap Spare : subjectOf[u] # "none" /\ u \in admins

\* A start fails by itself only for an unhealthy provider, a bootstrap token that
\* another start inserted at the same time, or an edit that took the identity of the
\* development administrator: never because two replicas start together (main.go:66-106).
FailedStartsExplained ==
    [][\A r \in Replicas :
        (~At(r, "down") /\ replica'[r].pc = "down" /\ faults' = faults) =>
            \/ At(r, "checking")
            \/ At(r, "bootstrapping") /\ rivals > 0
            \/ At(r, "entering") /\ edits > 0]_vars

\* Every replica ends up serving, whatever starts failed before.
EventuallyServes == \A r \in Replicas : At(r, "down") ~> At(r, "serving")

=============================================================================
