----------------------------- MODULE StartupProofs -----------------------------
(***************************************************************************)
(* Proofs about Startup, for every set of replicas, of migrations, of      *)
(* configurations and of users, with any number of stops and edits.        *)
(*                                                                         *)
(* Right says what holds of a replica at each point of its start, given    *)
(* what the database holds.  A step that moves one replica and leaves the  *)
(* database is right if the state it moves to is; one that writes keeps    *)
(* the others right, mostly because of the advisory lock it holds.         *)
(***************************************************************************)
EXTENDS Startup, FiniteSetTheorems, TLAPS

\* Points of a start after its migrations, and after its bootstrap token.
Migrated == {"counting", "bootstrapping", "checking", "storing", "entering", "serving"}
Bootstrapped == {"checking", "storing", "entering", "serving"}

Right(r, s) ==
    /\ s.applied # {} => s.pc = "migrating"
    /\ s.applied \cap schema = {}
    /\ s.pc = "migrating" => \A q \in Replicas \ {r} : ~At(q, "migrating")
    /\ s.pc \in Migrated => schema = Migrations
    /\ s.pc \in Bootstrapped /\ s.config.secret # NoSecret => tokens # {}
    /\ s.pc = "bootstrapping" => s.config.secret # NoSecret /\ (tokens # {} => rivals > 0)
    /\ s.pc \in {"entering", "serving"} => setting # NoProvider
    /\ s.tx = "open" => /\ s.pc \in {"entering", "serving"}
                        /\ \A q \in Replicas \ {r} : replica[q].tx = "none"
                        /\ s.seen = NoUser /\ edits = 0 => Holders = {}
                        /\ s.seen # NoUser => s.seen \in existing
                        /\ s.seen # NoUser /\ edits = 0 => s.seen \in Holders
    /\ s.pc = "serving" /\ s.config.dev /\ edits = 0 => Holders # {}

\* Types of what the database and the ghosts hold.
Tables ==
    /\ schema \subseteq Migrations
    /\ tokens \subseteq Secrets
    /\ setting \in Providers \cup {NoProvider} /\ chosen \in Providers \cup {NoProvider}
    /\ existing \subseteq Users
    /\ subjectOf \in [Users -> Subjects \cup {"none"}]
    /\ admins \subseteq existing
    /\ rivals \in 0..Cardinality(Replicas)
    /\ edits \in 0..MaxEdits /\ faults \in 0..MaxFaults

\* What holds of the database alone.
Whole ==
    /\ ChoiceSurvivesStarts
    /\ DevelopmentAdminIsWhole
    /\ edits = 0 => Holders \subseteq admins

IInv ==
    /\ Tables /\ Whole
    /\ replica \in [Replicas -> ReplicaState]
    /\ \A r \in Replicas : Right(r, replica[r])

-----------------------------------------------------------------------------
(***************************************************************************)
(* Steps that leave the database                                           *)
(***************************************************************************)

\* A step that moves one replica to a state that is right for it.
LEMMA Moves ==
    ASSUME IInv, NEW r \in Replicas, NEW s \in ReplicaState, Right(r, s),
           replica' = [replica EXCEPT ![r] = s],
           UNCHANGED <<schema, tokens, setting, people, rivals, chosen, edits>>,
           faults' \in 0..MaxFaults
    PROVE  IInv'
<1>1. replica' \in [Replicas -> ReplicaState]
  BY DEF IInv
<1>2. replica'[r] = s /\ \A q \in Replicas \ {r} : replica'[q] = replica[q]
  BY DEF IInv
<1>3. Tables' /\ Whole'
  BY DEF IInv, Tables, Whole, people, ChoiceSurvivesStarts, DevelopmentAdminIsWhole, Holders
<1>4. ASSUME NEW q \in Replicas
      PROVE  Right(q, replica[q])'
  <2>1. CASE q = r
    BY <1>2, <2>1 DEF Right, At, Holders, people
  <2>2. CASE q # r
    <3>1. Right(q, replica[q])
      BY DEF IInv
    <3>2. replica[q].pc = "migrating" => s.pc # "migrating"
      BY <2>2 DEF Right, At
    <3>3. replica[q].tx = "open" => s.tx = "none"
      BY <2>2 DEF Right, ReplicaState
    <3>4. QED
      BY <1>2, <2>2, <3>1, <3>2, <3>3 DEF Right, At, Holders, people
  <2>3. QED
    BY <2>1, <2>2
<1>5. QED
  BY <1>1, <1>3, <1>4 DEF IInv

\* A replica that is down is right.
LEMMA OffIsRight ==
    ASSUME NEW r \in Replicas, NEW config \in Configurations
    PROVE  Off(config) \in ReplicaState /\ Right(r, Off(config))
  BY DEF Off, ReplicaState, Right, Migrated, Bootstrapped

\* A start that exits.
LEMMA ExitStep ==
    ASSUME IInv, NEW r \in Replicas, Exits(r),
           UNCHANGED <<schema, tokens, setting, people, rivals, chosen, edits>>,
           faults' \in 0..MaxFaults
    PROVE  IInv'
<1>1. replica[r].config \in Configurations
  BY DEF IInv, ReplicaState
<1>2. replica' = [replica EXCEPT ![r] = Off(replica[r].config)]
  BY DEF Exits
<1>3. QED
  BY <1>1, <1>2, OffIsRight, Moves

\* The steps of a start, or of a login, that read, wait or fail.
LEMMA QuietStep ==
    ASSUME IInv, NEW r \in Replicas,
           \/ Start(r) \/ LockMigrations(r) \/ ApplyMigration(r) \/ CountTokens(r)
           \/ InsertTokenTwice(r) \/ CheckProvider(r) \/ ProviderUnhealthy(r)
           \/ FindDevelopmentAdmin(r) \/ AdminClashes(r) \/ Stop(r)
    PROVE  IInv'
<1> USE ConstantsAssumption
<1>1. /\ UNCHANGED <<schema, tokens, setting, people, rivals, chosen, edits>>
      /\ faults' \in 0..MaxFaults
  <2>1. CASE Stop(r)
    BY <2>1 DEF Stop, IInv, Tables
  <2>2. CASE UNCHANGED bounds
    BY <2>2 DEF bounds, Start, LockMigrations, ApplyMigration, CountTokens, InsertTokenTwice,
       CheckProvider, ProviderUnhealthy, FindDevelopmentAdmin, AdminClashes, Stop, IInv, Tables
  <2>3. QED
    BY <2>1, <2>2 DEF Start, LockMigrations, ApplyMigration, CountTokens, InsertTokenTwice,
       CheckProvider, ProviderUnhealthy, FindDevelopmentAdmin, AdminClashes
<1>2. ASSUME NEW s \in ReplicaState, Right(r, s), replica' = [replica EXCEPT ![r] = s]
      PROVE  IInv'
  BY <1>1, <1>2, Moves
<1>3. replica[r] \in ReplicaState /\ Right(r, replica[r])
  BY DEF IInv
<1>4. CASE Start(r)
  <2>1. PICK config \in Configurations :
            replica' = [replica EXCEPT ![r] = [@ EXCEPT !.pc = "waiting", !.config = config]]
    BY <1>4 DEF Start
  <2> DEFINE s == [replica[r] EXCEPT !.pc = "waiting", !.config = config]
  <2>2. s \in ReplicaState
    BY <1>3 DEF ReplicaState
  <2>3. Right(r, s)
    BY <1>3, <1>4 DEF Right, ReplicaState, Migrated, Bootstrapped, Start, At
  <2>4. replica' = [replica EXCEPT ![r] = s]
    BY <2>1
  <2> HIDE DEF s
  <2>5. QED
    BY <1>2, <2>2, <2>3, <2>4
<1>5. CASE LockMigrations(r)
  <2> DEFINE s == [replica[r] EXCEPT !.pc = "migrating"]
  <2>1. s \in ReplicaState
    BY <1>3 DEF ReplicaState
  <2>2. Right(r, s)
    BY <1>3, <1>5 DEF Right, ReplicaState, Migrated, Bootstrapped, LockMigrations, MigrationLockFree, At
  <2>3. replica' = [replica EXCEPT ![r] = s]
    BY <1>5 DEF LockMigrations, Goes, IInv
  <2> HIDE DEF s
  <2>4. QED
    BY <1>2, <2>1, <2>2, <2>3
<1>6. CASE ApplyMigration(r)
  <2>1. PICK version \in Missing(r) : replica' = [replica EXCEPT ![r].applied = @ \cup {version}]
    BY <1>6 DEF ApplyMigration
  <2> DEFINE s == [replica[r] EXCEPT !.applied = @ \cup {version}]
  <2>2. s \in ReplicaState
    BY <1>3 DEF ReplicaState, Missing
  <2>3. Right(r, s)
    BY <1>3, <1>6 DEF Right, ReplicaState, ApplyMigration, Missing, At
  <2>4. replica' = [replica EXCEPT ![r] = s]
    BY <2>1 DEF IInv
  <2> HIDE DEF s
  <2>5. QED
    BY <1>2, <2>2, <2>3, <2>4
<1>7. CASE CountTokens(r)
  <2> DEFINE s == [replica[r] EXCEPT !.pc = IF NeedsBootstrap(r) THEN "bootstrapping" ELSE "checking"]
  <2>1. s \in ReplicaState
    BY <1>3 DEF ReplicaState
  <2>2. Right(r, s)
    BY <1>3, <1>7 DEF Right, ReplicaState, Migrated, Bootstrapped, CountTokens, NeedsBootstrap, Config, At
  <2>3. replica' = [replica EXCEPT ![r] = s]
    BY <1>7 DEF CountTokens, Goes, IInv
  <2> HIDE DEF s
  <2>4. QED
    BY <1>2, <2>1, <2>2, <2>3
<1>8. CASE CheckProvider(r)
  <2> DEFINE s == [replica[r] EXCEPT !.pc = "storing"]
  <2>1. s \in ReplicaState
    BY <1>3 DEF ReplicaState
  <2>2. Right(r, s)
    BY <1>3, <1>8 DEF Right, ReplicaState, Migrated, Bootstrapped, CheckProvider, At
  <2>3. replica' = [replica EXCEPT ![r] = s]
    BY <1>8 DEF CheckProvider, Goes, IInv
  <2> HIDE DEF s
  <2>4. QED
    BY <1>2, <2>1, <2>2, <2>3
<1>9. CASE FindDevelopmentAdmin(r)
  <2> DEFINE s == [replica[r] EXCEPT !.tx = "open", !.seen = Found]
  <2>1. /\ Found = NoUser => Holders = {}
        /\ Found # NoUser => Found \in Holders
        /\ Holders \subseteq existing /\ existing \subseteq Users
    BY DEF Found, Holders, IInv, Tables
  <2>2. s \in ReplicaState
    BY <1>3, <2>1 DEF ReplicaState
  <2>3. Right(r, s)
    BY <1>3, <1>9, <2>1 DEF Right, ReplicaState, FindDevelopmentAdmin, AdminLockFree, At
  <2>4. replica' = [replica EXCEPT ![r] = s]
    BY <1>9 DEF FindDevelopmentAdmin
  <2> HIDE DEF s
  <2>5. QED
    BY <1>2, <2>2, <2>3, <2>4
<1>10. CASE AdminClashes(r) /\ At(r, "serving")
  <2> DEFINE s == [replica[r] EXCEPT !.tx = "none"]
  <2>1. s \in ReplicaState
    BY <1>3 DEF ReplicaState
  <2>2. Right(r, s)
    BY <1>3 DEF Right, ReplicaState
  <2>3. replica' = [replica EXCEPT ![r] = s]
    BY <1>10 DEF AdminClashes, IInv
  <2> HIDE DEF s
  <2>4. QED
    BY <1>2, <2>1, <2>2, <2>3
<1>11. CASE Exits(r)
  BY <1>1, <1>11, ExitStep
<1>12. QED
  BY <1>4, <1>5, <1>6, <1>7, <1>8, <1>9, <1>10, <1>11
     DEF InsertTokenTwice, ProviderUnhealthy, AdminClashes, Stop

-----------------------------------------------------------------------------
(***************************************************************************)
(* Steps that write                                                        *)
(***************************************************************************)

\* The commit of the migrations: no other replica is migrating.
LEMMA CommitStep ==
    ASSUME IInv, NEW r \in Replicas, CommitMigrations(r)
    PROVE  IInv' /\ schema' = Migrations
<1> DEFINE s == [replica[r] EXCEPT !.pc = "counting", !.applied = {}]
<1>1. /\ replica[r] \in ReplicaState /\ Right(r, replica[r]) /\ replica[r].pc = "migrating"
      /\ UNCHANGED <<tokens, setting, people, rivals, chosen, edits, faults>>
  BY DEF IInv, CommitMigrations, At, bounds
<1>2. s \in ReplicaState
  BY <1>1 DEF ReplicaState
<1>3. replica'[r] = s /\ \A q \in Replicas \ {r} : replica'[q] = replica[q]
  BY DEF IInv, CommitMigrations
<1>4. replica' \in [Replicas -> ReplicaState]
  BY <1>2 DEF IInv, CommitMigrations
<1>5. schema' = Migrations
  BY <1>1 DEF CommitMigrations, Missing, IInv, Tables, ReplicaState
<1>6. Tables' /\ Whole'
  BY <1>1, <1>5 DEF IInv, Tables, Whole, people, ChoiceSurvivesStarts, DevelopmentAdminIsWhole, Holders
<1>7. s.pc = "counting" /\ s.applied = {} /\ s.tx = replica[r].tx /\ s.seen = replica[r].seen
      /\ s.config = replica[r].config
  BY <1>1 DEF ReplicaState
<1> HIDE DEF s
<1>8. ASSUME NEW q \in Replicas
      PROVE  Right(q, replica[q])'
  <2>1. CASE q = r
    BY <1>1, <1>3, <1>5, <1>7, <2>1 DEF Right, At, Holders, people, Migrated, Bootstrapped
  <2>2. CASE q # r
    <3>1. Right(q, replica[q])
      BY DEF IInv
    <3>2. replica[q].pc # "migrating"
      BY <1>1, <2>2 DEF Right, At
    <3>3. replica[q].applied = {}
      BY <3>1, <3>2 DEF Right
    <3>4. replica[q].tx = "open" => s.tx = "none"
      BY <1>1, <1>7, <2>2 DEF Right, ReplicaState
    <3>5. QED
      BY <1>1, <1>3, <1>5, <2>2, <3>1, <3>2, <3>3, <3>4 DEF Right, At, Holders, people
  <2>3. QED
    BY <2>1, <2>2
<1>9. QED
  BY <1>4, <1>5, <1>6, <1>8 DEF IInv

\* What others rely on about tokens, the setting, existing and admins only becomes more true.
LEMMA InsertStep ==
    ASSUME IInv, NEW r \in Replicas, InsertToken(r)
    PROVE  IInv'
<1> DEFINE s == [replica[r] EXCEPT !.pc = "checking"]
           others == {q \in Replicas \ {r} : At(q, "bootstrapping")}
<1>1. /\ replica[r] \in ReplicaState /\ Right(r, replica[r]) /\ replica[r].pc = "bootstrapping"
      /\ UNCHANGED <<schema, setting, people, chosen, edits, faults>>
      /\ tokens' = tokens \cup {replica[r].config.secret}
  BY DEF IInv, InsertToken, At, bounds, Config
<1>2. s \in ReplicaState
  BY <1>1 DEF ReplicaState
<1>3. replica' = [replica EXCEPT ![r] = s]
  BY DEF IInv, InsertToken, Goes
<1>4. replica'[r] = s /\ \A q \in Replicas \ {r} : replica'[q] = replica[q]
  BY <1>3 DEF IInv
<1>5. replica' \in [Replicas -> ReplicaState]
  BY <1>2, <1>3 DEF IInv
<1>6. rivals' \in 0..Cardinality(Replicas) /\ (others # {} => rivals' > 0)
  <2>1. IsFiniteSet(others) /\ Cardinality(others) \in Nat /\ Cardinality(Replicas) \in Nat
        /\ Cardinality(others) <= Cardinality(Replicas)
    BY ConstantsAssumption, FS_Subset, FS_CardinalityType
  <2>2. others # {} => Cardinality(others) > 0
    BY <2>1, FS_EmptySet
  <2>3. CASE tokens = {}
    <3>1. rivals' = Cardinality(others)
      BY <2>3 DEF InsertToken
    <3> HIDE DEF others
    <3>2. QED
      BY <2>1, <2>2, <3>1
  <2>4. CASE tokens # {}
    <3>1. rivals' = rivals /\ rivals > 0 /\ rivals \in 0..Cardinality(Replicas)
      BY <1>1, <2>4 DEF InsertToken, Right, IInv, Tables
    <3>2. QED
      BY <3>1
  <2>5. QED
    BY <2>3, <2>4
<1>7. replica[r].config.secret \in Secrets
  BY <1>1, ConstantsAssumption DEF Right, ReplicaState, Configuration
<1>8. Tables' /\ Whole'
  BY <1>1, <1>6, <1>7 DEF IInv, Tables, Whole, people, ChoiceSurvivesStarts, DevelopmentAdminIsWhole, Holders
<1>9. s.pc = "checking" /\ s.applied = replica[r].applied /\ s.tx = replica[r].tx
      /\ s.seen = replica[r].seen /\ s.config = replica[r].config
  BY <1>1 DEF ReplicaState
<1> HIDE DEF s
<1>10. ASSUME NEW q \in Replicas
       PROVE  Right(q, replica[q])'
  <2>1. CASE q = r
    BY <1>1, <1>4, <1>9, <2>1 DEF Right, At, Holders, people, Migrated, Bootstrapped
  <2>2. CASE q # r
    <3>1. Right(q, replica[q])
      BY DEF IInv
    <3>2. replica[q].pc = "bootstrapping" => rivals' > 0
      BY <1>6, <2>2 DEF At
    <3>3. replica[q].tx = "open" => s.tx = "none"
      BY <1>1, <1>9, <2>2 DEF Right, ReplicaState
    <3>4. tokens' # {}
      BY <1>1
    <3>5. QED
      BY <1>1, <1>4, <1>9, <2>2, <3>1, <3>2, <3>3, <3>4 DEF Right, At, Holders, people
  <2>3. QED
    BY <2>1, <2>2
<1>11. QED
  BY <1>5, <1>8, <1>10 DEF IInv

\* The stored provider: kept where there is one.
LEMMA InitializeStep ==
    ASSUME IInv, NEW r \in Replicas, InitializeActiveMessageProvider(r)
    PROVE  IInv'
<1> DEFINE s == [replica[r] EXCEPT !.pc = IF Config(r).dev THEN "entering" ELSE "serving"]
<1>1. /\ replica[r] \in ReplicaState /\ Right(r, replica[r]) /\ replica[r].pc = "storing"
      /\ UNCHANGED <<schema, tokens, people, rivals, chosen, edits, faults>>
  BY DEF IInv, InitializeActiveMessageProvider, At, bounds
<1>2. s \in ReplicaState
  BY <1>1 DEF ReplicaState
<1>3. replica' = [replica EXCEPT ![r] = s]
  BY DEF IInv, InitializeActiveMessageProvider, Goes
<1>4. replica'[r] = s /\ \A q \in Replicas \ {r} : replica'[q] = replica[q]
  BY <1>3 DEF IInv
<1>5. replica' \in [Replicas -> ReplicaState]
  BY <1>2, <1>3 DEF IInv
<1>6. replica[r].config.provider \in Providers /\ NoProvider \notin Providers
  BY <1>1, ConstantsAssumption DEF ReplicaState, Configuration
<1>7. /\ setting' \in Providers /\ setting' # NoProvider
      /\ setting # NoProvider => setting' = setting
  BY <1>6 DEF InitializeActiveMessageProvider, Initialized, Config, IInv, Tables
<1>8. Tables' /\ Whole'
  BY <1>1, <1>7 DEF IInv, Tables, Whole, people, ChoiceSurvivesStarts, DevelopmentAdminIsWhole, Holders
<1>9. /\ s.pc = IF replica[r].config.dev THEN "entering" ELSE "serving"
      /\ s.applied = replica[r].applied /\ s.tx = replica[r].tx
      /\ s.seen = replica[r].seen /\ s.config = replica[r].config
  BY <1>1 DEF ReplicaState, Config
<1> HIDE DEF s
<1>10. ASSUME NEW q \in Replicas
       PROVE  Right(q, replica[q])'
  <2>1. CASE q = r
    BY <1>1, <1>4, <1>7, <1>9, <2>1 DEF Right, At, Holders, people, Migrated, Bootstrapped
  <2>2. CASE q # r
    <3>1. Right(q, replica[q])
      BY DEF IInv
    <3>2. replica[q].tx = "open" => s.tx = "none"
      BY <1>1, <1>9, <2>2 DEF Right, ReplicaState
    <3>3. s.pc # "migrating"
      BY <1>9
    <3>4. QED
      BY <1>1, <1>4, <1>7, <2>2, <3>1, <3>2, <3>3 DEF Right, At, Holders, people
  <2>3. QED
    BY <2>1, <2>2
<1>11. QED
  BY <1>5, <1>8, <1>10 DEF IInv

\* The commit of the transaction of the development administrator: the only one open.
LEMMA CommittedIsRight ==
    ASSUME IInv, NEW r \in Replicas, replica[r].tx = "open", Committed(r),
           UNCHANGED <<schema, tokens, setting, rivals, chosen, edits, faults>>,
           Tables', Whole', existing \subseteq existing',
           edits = 0 => Holders' # {},
           edits = 0 => Holders \subseteq Holders'
    PROVE  IInv'
<1> DEFINE s == [replica[r] EXCEPT !.pc = "serving", !.tx = "none", !.seen = NoUser]
<1>1. replica[r] \in ReplicaState /\ Right(r, replica[r])
  BY DEF IInv
<1>2. s \in ReplicaState
  BY <1>1 DEF ReplicaState
<1>3. replica' = [replica EXCEPT ![r] = s]
  BY DEF Committed
<1>4. replica'[r] = s /\ \A q \in Replicas \ {r} : replica'[q] = replica[q]
  BY <1>3 DEF IInv
<1>5. replica' \in [Replicas -> ReplicaState]
  BY <1>2, <1>3 DEF IInv
<1>6. s.pc = "serving" /\ s.tx = "none" /\ s.applied = replica[r].applied
      /\ s.config = replica[r].config
  BY <1>1 DEF ReplicaState
<1>7. replica[r].pc \in {"entering", "serving"} /\ \A q \in Replicas \ {r} : replica[q].tx = "none"
  BY <1>1 DEF Right
<1> HIDE DEF s
<1>8. ASSUME NEW q \in Replicas
      PROVE  Right(q, replica[q])'
  <2>1. CASE q = r
    BY <1>1, <1>4, <1>6, <1>7, <2>1 DEF Right, At, Migrated, Bootstrapped
  <2>2. CASE q # r
    <3>1. Right(q, replica[q]) /\ replica[q].tx = "none"
      BY <1>7, <2>2 DEF IInv
    <3>2. QED
      BY <1>4, <1>6, <2>2, <3>1 DEF Right, At
  <2>3. QED
    BY <2>1, <2>2
<1>9. QED
  BY <1>5, <1>8 DEF IInv

\* The role that a start grants goes to a user that exists.
LEMMA GrantStep ==
    ASSUME IInv, NEW r \in Replicas, GrantExisting(r)
    PROVE  IInv'
<1>1. /\ replica[r].tx = "open" /\ replica[r].seen # NoUser /\ Right(r, replica[r])
      /\ admins' = admins \cup {replica[r].seen} /\ Committed(r)
      /\ UNCHANGED <<schema, tokens, setting, existing, subjectOf, rivals, chosen, edits, faults>>
  BY DEF GrantExisting, bounds, IInv
<1>2. replica[r].seen \in existing /\ (edits = 0 => replica[r].seen \in Holders)
  BY <1>1 DEF Right
<1>3. Tables' /\ Whole'
  BY <1>1, <1>2 DEF IInv, Tables, Whole, ChoiceSurvivesStarts, DevelopmentAdminIsWhole, Holders
<1>4. Holders' = Holders
  BY <1>1 DEF Holders
<1>5. QED
  BY <1>1, <1>2, <1>3, <1>4, CommittedIsRight

\* A development administrator is created whole, and once.
LEMMA CreateStep ==
    ASSUME IInv, NEW r \in Replicas, CreateDevelopmentAdmin(r)
    PROVE  IInv'
<1> USE ConstantsAssumption
<1>1. /\ replica[r].tx = "open" /\ Committed(r) /\ Holders = {}
      /\ NewUser \in Spare /\ NewUser \notin existing
      /\ existing' = existing \cup {NewUser}
      /\ subjectOf' = [subjectOf EXCEPT ![NewUser] = "dev"]
      /\ admins' = admins \cup {NewUser}
      /\ UNCHANGED <<schema, tokens, setting, rivals, chosen, edits, faults>>
  BY DEF CreateDevelopmentAdmin, bounds, NewUser
<1>2. NewUser \in Users
  BY <1>1 DEF Users
<1>3. subjectOf'[NewUser] = "dev" /\ \A u \in Users \ {NewUser} : subjectOf'[u] = subjectOf[u]
  BY <1>1, <1>2 DEF IInv, Tables
<1>4. Holders' = {NewUser}
  BY <1>1, <1>2, <1>3 DEF Holders, IInv, Tables
<1>5. Tables'
  BY <1>1, <1>2 DEF IInv, Tables, Subjects
<1>6. Whole'
  BY <1>1, <1>2, <1>3, <1>4 DEF IInv, Tables, Whole, ChoiceSurvivesStarts, DevelopmentAdminIsWhole
<1>7. QED
  BY <1>1, <1>4, <1>5, <1>6, CommittedIsRight

\* An edit of an identity frees the others from what held before any edit.
LEMMA EditStep ==
    ASSUME IInv, NEW u \in Users, NEW subject \in Subjects, EditIdentity(u, subject)
    PROVE  IInv'
<1>1. /\ subjectOf' = [subjectOf EXCEPT ![u] = subject] /\ edits' = edits + 1
      /\ UNCHANGED <<schema, tokens, setting, existing, admins, replica, rivals, chosen, faults>>
  BY DEF EditIdentity
<1>2. edits' \in 0..MaxEdits /\ edits' # 0
  BY ConstantsAssumption DEF EditIdentity, IInv, Tables
<1>3. Tables'
  BY <1>1, <1>2 DEF IInv, Tables
<1>4. Whole'
  BY <1>1, <1>2 DEF IInv, Tables, Whole, ChoiceSurvivesStarts, DevelopmentAdminIsWhole, Subjects
<1>5. \A r \in Replicas : Right(r, replica[r])'
  BY <1>1, <1>2 DEF IInv, Right, At
<1>6. QED
  BY <1>1, <1>3, <1>4, <1>5 DEF IInv

\* A choice of an administrator is stored, and remembered as chosen.
LEMMA SelectStep ==
    ASSUME IInv, NEW p \in Providers, SelectProvider(p)
    PROVE  IInv'
<1>1. /\ setting' = p /\ chosen' = p /\ p # NoProvider
      /\ UNCHANGED <<schema, tokens, existing, subjectOf, admins, replica, rivals, edits, faults>>
  BY ConstantsAssumption DEF SelectProvider, people, bounds
<1>2. Tables' /\ Whole'
  BY <1>1 DEF IInv, Tables, Whole, ChoiceSurvivesStarts, DevelopmentAdminIsWhole, Holders
<1>3. \A r \in Replicas : Right(r, replica[r])'
  BY <1>1 DEF IInv, Right, At, Holders
<1>4. QED
  BY <1>1, <1>2, <1>3 DEF IInv

-----------------------------------------------------------------------------
(***************************************************************************)
(* What every reachable state satisfies                                    *)
(***************************************************************************)

\* Every step keeps the invariant.
LEMMA InvStep ==
    ASSUME IInv, [Next]_vars
    PROVE  IInv'
<1>1. CASE UNCHANGED vars
  BY <1>1 DEF vars, people, bounds, IInv, Tables, Whole, ChoiceSurvivesStarts,
     DevelopmentAdminIsWhole, Right, Holders, At
<1>2. QED
  BY <1>1, QuietStep, CommitStep, InsertStep, InitializeStep, GrantStep, CreateStep, EditStep,
     SelectStep DEF Next, StartStep

\* A database with some of the migrations, and replicas that are down.
LEMMA InitIInv == Init => IInv
<1> SUFFICES ASSUME Init PROVE IInv
  OBVIOUS
<1> USE ConstantsAssumption DEF Init
<1>1. Cardinality(Migrations) \in Nat /\ Cardinality(Replicas) \in Nat
  BY FS_CardinalityType
<1>2. schema \subseteq Migrations
  BY <1>1
<1>3. Tables
  BY <1>1, <1>2 DEF Tables, Users
<1>4. Whole
  BY DEF Whole, ChoiceSurvivesStarts, DevelopmentAdminIsWhole, Holders, Users
<1>5. PICK config \in Configurations : replica = [r \in Replicas |-> Off(config)]
  OBVIOUS
<1>6. QED
  BY <1>3, <1>4, <1>5, OffIsRight DEF IInv

\* The invariant that the proofs rest on.
THEOREM Invariance == Spec => []IInv
<1>1. QED
  BY InitIInv, InvStep, PTL DEF Spec

\* The tables and the replicas have their types.
THEOREM TypeCorrect == Spec => []TypeOK
<1>1. IInv => TypeOK
  BY DEF IInv, Tables, Right, At, TypeOK
<1>2. QED
  BY <1>1, Invariance, PTL

\* No replica applies a migration that another has applied.
THEOREM MigratesAloneHolds == Spec => []MigratesAlone
<1>1. IInv => MigratesAlone
  BY DEF IInv, Right, MigratesAlone
<1>2. QED
  BY <1>1, Invariance, PTL

\* The schema goes to the new version in one step.
THEOREM MigratesAtOnceHolds == Spec => MigratesAtOnce
<1>1. IInv /\ [Next]_vars => [schema' # schema => schema' = Migrations]_vars
  BY CommitStep DEF Next, StartStep, Start, ApplyMigration, CountTokens, InsertToken,
     InsertTokenTwice, InitializeActiveMessageProvider, GrantExisting, CreateDevelopmentAdmin,
     AdminClashes, LockMigrations, CheckProvider, ProviderUnhealthy, FindDevelopmentAdmin, Stop,
     EditIdentity, SelectProvider, vars
<1>2. QED
  BY <1>1, Invariance, PTL DEF Spec, MigratesAtOnce

\* A replica that serves has the schema, a token, the stored provider, and a development
\* administrator while nobody edited identities.
THEOREM ServingIsReadyHolds == Spec => []ServingIsReady
<1>1. IInv => ServingIsReady
  BY DEF IInv, Right, Whole, Migrated, Bootstrapped, ServingIsReady, At, Config
<1>2. QED
  BY <1>1, Invariance, PTL

\* No start undoes the choice of an administrator.
THEOREM ChoiceSurvivesStartsHolds == Spec => []ChoiceSurvivesStarts
<1>1. IInv => ChoiceSurvivesStarts
  BY DEF IInv, Whole
<1>2. QED
  BY <1>1, Invariance, PTL

\* A user that EnsureDevelopmentAdmin creates has its identity and its role at once.
THEOREM DevelopmentAdminIsWholeHolds == Spec => []DevelopmentAdminIsWhole
<1>1. IInv => DevelopmentAdminIsWhole
  BY DEF IInv, Whole
<1>2. QED
  BY <1>1, Invariance, PTL

-----------------------------------------------------------------------------
(***************************************************************************)
(* Starts that fail                                                        *)
(***************************************************************************)

\* A start that ends by itself is at one of three points, for its reason.
LEMMA FailStep ==
    ASSUME IInv, [Next]_vars, NEW r \in Replicas,
           ~At(r, "down"), replica'[r].pc = "down", faults' = faults
    PROVE  \/ At(r, "checking")
           \/ At(r, "bootstrapping") /\ rivals > 0
           \/ At(r, "entering") /\ edits > 0
<1>1. replica[r] \in ReplicaState /\ Right(r, replica[r]) /\ edits \in Nat
  BY ConstantsAssumption DEF IInv, Tables
<1>2. ASSUME NEW q \in Replicas, NEW s, s.pc # "down", replica' = [replica EXCEPT ![q] = s]
      PROVE  FALSE
  BY <1>2 DEF IInv, At
<1>3. ASSUME NEW q \in Replicas, Exits(q)
      PROVE  q = r
  BY <1>3 DEF Exits, Off, IInv, At
<1>4. ASSUME NEW q \in Replicas, InsertTokenTwice(q)
      PROVE  At(r, "bootstrapping") /\ rivals > 0
  BY <1>1, <1>3, <1>4 DEF InsertTokenTwice, Right, At
<1>5. ASSUME NEW q \in Replicas, ProviderUnhealthy(q)
      PROVE  At(r, "checking")
  BY <1>3, <1>5 DEF ProviderUnhealthy
<1>6. ASSUME NEW q \in Replicas, AdminClashes(q)
      PROVE  At(r, "entering") /\ edits > 0
  <2>1. CASE At(q, "serving")
    BY <1>6, <2>1 DEF AdminClashes, IInv, ReplicaState, At
  <2>2. CASE ~At(q, "serving")
    <3>1. Exits(q) /\ q = r
      BY <1>3, <1>6, <2>2 DEF AdminClashes
    <3>2. replica[r].tx = "open" /\ replica[r].seen = NoUser /\ Holders # {}
      BY <1>6, <3>1 DEF AdminClashes
    <3>3. QED
      BY <1>1, <2>2, <3>1, <3>2 DEF Right, At
  <2>3. QED
    BY <1>6, <2>1, <2>2 DEF AdminClashes
<1>7. ASSUME NEW q \in Replicas, Stop(q)
      PROVE  FALSE
  BY <1>7, ConstantsAssumption DEF Stop, IInv, Tables
<1>8. ASSUME NEW q \in Replicas, NEW pc, pc # "down", Goes(q, pc)
      PROVE  FALSE
  BY <1>8 DEF Goes, IInv, ReplicaState, At
<1>9. ASSUME NEW q \in Replicas,
             \/ LockMigrations(q) \/ CountTokens(q) \/ InsertToken(q) \/ CheckProvider(q)
             \/ InitializeActiveMessageProvider(q)
      PROVE  FALSE
  BY <1>8, <1>9 DEF LockMigrations, CountTokens, InsertToken, CheckProvider,
     InitializeActiveMessageProvider
<1>10. ASSUME NEW q \in Replicas,
              \/ Start(q) \/ ApplyMigration(q) \/ CommitMigrations(q)
              \/ FindDevelopmentAdmin(q) \/ GrantExisting(q) \/ CreateDevelopmentAdmin(q)
       PROVE  FALSE
  <2>1. CASE Start(q)
    BY <2>1 DEF Start, IInv, ReplicaState, At
  <2>2. CASE ApplyMigration(q)
    BY <2>2 DEF ApplyMigration, IInv, ReplicaState, At
  <2>3. CASE CommitMigrations(q)
    BY <2>3 DEF CommitMigrations, IInv, ReplicaState, At
  <2>4. CASE FindDevelopmentAdmin(q)
    BY <2>4 DEF FindDevelopmentAdmin, IInv, ReplicaState, At
  <2>5. CASE Committed(q)
    BY <2>5 DEF Committed, IInv, ReplicaState, At
  <2>6. QED
    BY <1>10, <2>1, <2>2, <2>3, <2>4, <2>5 DEF GrantExisting, CreateDevelopmentAdmin
<1>11. CASE UNCHANGED replica
  BY <1>11 DEF At
<1>12. QED
  BY <1>4, <1>5, <1>6, <1>7, <1>9, <1>10, <1>11 DEF Next, StartStep, EditIdentity, SelectProvider, vars

\* A start fails by itself only for an unhealthy provider, a token that another start
\* inserted at the same time, or an edited identity.
THEOREM FailedStartsExplainedHolds == Spec => FailedStartsExplained
<1>1. IInv /\ [Next]_vars =>
        [\A r \in Replicas :
            (~At(r, "down") /\ replica'[r].pc = "down" /\ faults' = faults) =>
                \/ At(r, "checking")
                \/ At(r, "bootstrapping") /\ rivals > 0
                \/ At(r, "entering") /\ edits > 0]_vars
  BY FailStep
<1>2. QED
  BY <1>1, Invariance, PTL DEF Spec, FailedStartsExplained

-----------------------------------------------------------------------------
(***************************************************************************)
(* Bootstrap tokens                                                        *)
(***************************************************************************)

\* Starts that have counted no token and are about to insert theirs.
Booting == {q \in Replicas : At(q, "bootstrapping")}

\* Each of them may still add a token, and none joins them once there is a token.
TokenInv ==
    /\ IsFiniteSet(tokens)
    /\ rivals \in Nat
    /\ tokens # {} => Cardinality(tokens) + Cardinality(Booting) <= 1 + rivals

\* A replica goes to another point of the start; it joins Booting only if it goes there.
LEMMA NoneJoins ==
    ASSUME IInv, NEW q \in Replicas, NEW s, s.pc # "bootstrapping",
           replica' = [replica EXCEPT ![q] = s]
    PROVE  Booting' \subseteq Booting
  BY DEF IInv, Tables, Booting, At

\* The first token is there when the others are counted; each later one takes its start
\* out of Booting.
LEMMA InsertKeepsTokens ==
    ASSUME IInv, TokenInv, NEW r \in Replicas, InsertToken(r)
    PROVE  TokenInv'
<1> DEFINE token == Config(r).secret
<1>1. /\ token \notin tokens /\ tokens' = tokens \cup {token}
      /\ r \in Booting
      /\ rivals' = IF tokens = {}
                   THEN Cardinality({q \in Replicas \ {r} : At(q, "bootstrapping")}) ELSE rivals
      /\ Goes(r, "checking")
  BY DEF InsertToken, Booting
<1>2. Booting' = Booting \ {r} /\ Booting \ {r} = {q \in Replicas \ {r} : At(q, "bootstrapping")}
  BY <1>1 DEF Goes, IInv, Tables, ReplicaState, Booting, At
<1>3. IsFiniteSet(Booting) /\ IsFiniteSet(Booting \ {r})
  BY ConstantsAssumption, FS_Subset DEF Booting
<1>4. /\ Cardinality(Booting) \in Nat /\ Cardinality(Booting \ {r}) \in Nat
      /\ Cardinality(Booting \ {r}) = Cardinality(Booting) - 1
  BY <1>1, <1>3, FS_RemoveElement, FS_CardinalityType
<1>5. /\ IsFiniteSet(tokens') /\ Cardinality(tokens') = Cardinality(tokens) + 1
      /\ Cardinality(tokens) \in Nat
  BY <1>1, FS_AddElement, FS_CardinalityType DEF TokenInv
<1>6. CASE tokens = {}
  <2>1. rivals' = Cardinality(Booting \ {r})
    BY <1>1, <1>2, <1>6
  <2>2. Cardinality(tokens) = 0
    BY <1>6, FS_EmptySet
  <2>3. QED
    BY <1>2, <1>4, <1>5, <2>1, <2>2 DEF TokenInv
<1>7. CASE tokens # {}
  BY <1>1, <1>2, <1>4, <1>5, <1>7 DEF TokenInv
<1>8. QED
  BY <1>6, <1>7

\* Every other step leaves the tokens alone, and adds to Booting only while there is none.
LEMMA OthersKeepTokens ==
    ASSUME TokenInv, UNCHANGED <<tokens, rivals>>, tokens = {} \/ Booting' \subseteq Booting
    PROVE  TokenInv'
<1>1. CASE tokens = {}
  BY <1>1 DEF TokenInv
<1>2. CASE tokens # {}
  <2>1. Booting' \subseteq Booting
    BY <1>2
  <2>2. IsFiniteSet(Booting)
    BY ConstantsAssumption, FS_Subset DEF Booting
  <2>3. Cardinality(Booting') <= Cardinality(Booting)
    BY <2>1, <2>2, FS_Subset
  <2>4. Cardinality(Booting') \in Nat /\ Cardinality(Booting) \in Nat /\ Cardinality(tokens) \in Nat
    BY <2>1, <2>2, FS_Subset, FS_CardinalityType DEF TokenInv
  <2>5. QED
    BY <1>2, <2>3, <2>4 DEF TokenInv
<1>3. QED
  BY <1>1, <1>2

\* Every step keeps the count of tokens.
LEMMA TokenStep ==
    ASSUME IInv, TokenInv, [Next]_vars
    PROVE  TokenInv'
<1>1. CASE UNCHANGED <<tokens, rivals, replica>>
  BY <1>1, OthersKeepTokens DEF Booting, At
<1>2. ASSUME NEW q \in Replicas, NEW s, s.pc # "bootstrapping",
             replica' = [replica EXCEPT ![q] = s], UNCHANGED <<tokens, rivals>>
      PROVE  TokenInv'
  BY <1>2, NoneJoins, OthersKeepTokens
<1>3. ASSUME NEW q \in Replicas, NEW pc, pc # "bootstrapping", Goes(q, pc),
             UNCHANGED <<tokens, rivals>>
      PROVE  TokenInv'
  <2>1. replica' = [replica EXCEPT ![q] = [replica[q] EXCEPT !.pc = pc]]
    BY <1>3 DEF Goes
  <2>2. [replica[q] EXCEPT !.pc = pc].pc = pc
    BY DEF IInv, Tables, ReplicaState
  <2>3. QED
    BY <1>2, <1>3, <2>1, <2>2
<1>4. ASSUME NEW q \in Replicas, Exits(q), UNCHANGED <<tokens, rivals>>
      PROVE  TokenInv'
  BY <1>2, <1>4 DEF Exits, Off
<1>5. ASSUME NEW q \in Replicas, CountTokens(q)
      PROVE  TokenInv'
  <2>1. UNCHANGED <<tokens, rivals>>
    BY <1>5 DEF CountTokens
  <2>2. CASE tokens = {}
    BY <2>1, <2>2, OthersKeepTokens
  <2>3. CASE tokens # {}
    BY <1>3, <1>5, <2>1, <2>3 DEF CountTokens, NeedsBootstrap
  <2>4. QED
    BY <2>2, <2>3
<1>6. ASSUME NEW q \in Replicas,
             \/ LockMigrations(q) \/ CheckProvider(q) \/ InitializeActiveMessageProvider(q)
      PROVE  TokenInv'
  <2>1. UNCHANGED <<tokens, rivals>>
    BY <1>6 DEF LockMigrations, CheckProvider, InitializeActiveMessageProvider
  <2>2. \E pc \in {"migrating", "storing", "entering", "serving"} : Goes(q, pc)
    BY <1>6 DEF LockMigrations, CheckProvider, InitializeActiveMessageProvider
  <2>3. QED
    BY <1>3, <2>1, <2>2
<1>7. ASSUME NEW q \in Replicas,
             InsertTokenTwice(q) \/ ProviderUnhealthy(q) \/ Stop(q)
      PROVE  TokenInv'
  BY <1>4, <1>7 DEF InsertTokenTwice, ProviderUnhealthy, Stop
<1>8. ASSUME NEW q \in Replicas,
             \/ Start(q) \/ ApplyMigration(q) \/ CommitMigrations(q)
             \/ FindDevelopmentAdmin(q) \/ GrantExisting(q) \/ CreateDevelopmentAdmin(q)
             \/ AdminClashes(q)
      PROVE  TokenInv'
  <2>1. UNCHANGED <<tokens, rivals>>
    BY <1>8 DEF Start, ApplyMigration, CommitMigrations, FindDevelopmentAdmin, GrantExisting,
       CreateDevelopmentAdmin, AdminClashes
  <2>2. Booting' \subseteq Booting
    <3>1. CASE Start(q)
      BY <3>1 DEF Start, IInv, Tables, ReplicaState, Booting, At
    <3>2. CASE ApplyMigration(q)
      BY <3>2 DEF ApplyMigration, IInv, Tables, ReplicaState, Booting, At
    <3>3. CASE CommitMigrations(q)
      BY <3>3 DEF CommitMigrations, IInv, Tables, ReplicaState, Booting, At
    <3>4. CASE FindDevelopmentAdmin(q)
      BY <3>4 DEF FindDevelopmentAdmin, IInv, Tables, ReplicaState, Booting, At
    <3>5. CASE GrantExisting(q) \/ CreateDevelopmentAdmin(q)
      <4>1. replica' = [replica EXCEPT ![q] = [replica[q] EXCEPT !.pc = "serving", !.tx = "none",
                                                                 !.seen = NoUser]]
        BY <3>5 DEF GrantExisting, CreateDevelopmentAdmin, Committed
      <4>2. [replica[q] EXCEPT !.pc = "serving", !.tx = "none", !.seen = NoUser].pc = "serving"
        BY DEF IInv, Tables, ReplicaState
      <4>3. QED
        BY <4>1, <4>2, NoneJoins
    <3>6. CASE AdminClashes(q)
      <4>1. \/ replica' = [replica EXCEPT ![q] = Off(replica[q].config)]
            \/ At(q, "serving") /\ replica' = [replica EXCEPT ![q] = [replica[q] EXCEPT !.tx = "none"]]
        BY <3>6 DEF AdminClashes, Exits
      <4>2. Off(replica[q].config).pc # "bootstrapping"
        BY DEF Off
      <4>3. At(q, "serving") => [replica[q] EXCEPT !.tx = "none"].pc # "bootstrapping"
        BY DEF IInv, Tables, ReplicaState, At
      <4>4. QED
        BY <4>1, <4>2, <4>3, NoneJoins
    <3>7. QED
      BY <1>8, <3>1, <3>2, <3>3, <3>4, <3>5, <3>6
  <2>3. QED
    BY <2>1, <2>2, OthersKeepTokens
<1>9. CASE \/ \E u \in Users, subject \in Subjects : EditIdentity(u, subject)
           \/ \E p \in Providers : SelectProvider(p)
  BY <1>1, <1>9 DEF EditIdentity, SelectProvider
<1>10. QED
  BY <1>1, <1>5, <1>6, <1>7, <1>8, <1>9, InsertKeepsTokens DEF Next, StartStep, vars

\* There are more bootstrap tokens than one only if starts passed each other.
THEOREM TokensExplainedHolds == Spec => []TokensExplained
<1>1. Init => TokenInv
  BY FS_EmptySet DEF Init, TokenInv
<1>2. TokenInv => TokensExplained
  <2> SUFFICES ASSUME TokenInv PROVE TokensExplained
    OBVIOUS
  <2>1. IsFiniteSet(Booting)
    BY ConstantsAssumption, FS_Subset DEF Booting
  <2>2. Cardinality(tokens) \in Nat /\ Cardinality(Booting) \in Nat /\ Cardinality({}) = 0
    BY <2>1, FS_CardinalityType, FS_EmptySet DEF TokenInv
  <2>3. QED
    BY <2>2 DEF TokenInv, TokensExplained
<1>3. QED
  BY <1>1, <1>2, TokenStep, Invariance, PTL DEF Spec

=============================================================================
