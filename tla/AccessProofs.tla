---------------------------- MODULE AccessProofs ----------------------------
(***************************************************************************)
(* Proofs about Access, for every set of users, roles, credentials and     *)
(* calls, whatever is granted, issued and revoked between the reads of a   *)
(* call.                                                                   *)
(*                                                                         *)
(* The argument for what a call may do is that rights only grow: no step   *)
(* takes a permission from a role or a role from a user, so what was read  *)
(* a moment ago is still true.  That for late acts is that the steps that  *)
(* end a credential, Revoke and Tick, note the calls under way with it.    *)
(***************************************************************************)
EXTENDS Access, TLAPS

\* A call that has read nothing holds nothing; one under way acts for somebody.
CallInv ==
    \A c \in Calls :
        /\ At(c, "fresh") => call[c].permissions = {}
        /\ UnderWay(c) => call[c].who \in Users \cup Roles
        /\ UnderWay(c) /\ LogsIn(c) => call[c].who \in Users

IInv == TypeOK /\ CallInv /\ SnapshotNeverExceeds

\* A call under way uses a credential that exists, and is noted once that has ended.
CredentialInv ==
    \A c \in Calls :
        UnderWay(c) =>
            /\ call[c].by \in Credentials
            /\ \A t \in Tokens : call[c].by = <<"token", t>> => token[t].role # NoRole
            /\ \A s \in Sessions : call[c].by = <<"session", s>> => session[s].user # NoUser
            /\ NoLongerGood(call[c].by) => c \in crossed

\* What a call had when it was named is still there to be read, until it is read.
ReadInv ==
    \A c \in Calls :
        /\ At(c, "named") => call[c].had \subseteq Effective(call[c].who)
        /\ At(c, "permitted") =>
               call[c].had \subseteq call[c].permissions \cup
                   (IF IsAdmin(call[c].who) THEN {AdminPermission} ELSE {})

-----------------------------------------------------------------------------
(***************************************************************************)
(* Rights                                                                  *)
(***************************************************************************)

\* What anybody has is made of what may be granted and the administrators' permission.
LEMMA EffectiveType ==
    ASSUME TypeOK, NEW who
    PROVE  Granted(who) \subseteq Grantable /\ Effective(who) \subseteq Permissions
<1>1. RolesOf(who) \subseteq Roles
  BY DEF TypeOK, RolesOf
<1>2. \A r \in Roles : grants[r] \subseteq Grantable
  BY DEF TypeOK
<1>3. QED
  BY <1>1, <1>2 DEF Granted, Effective, Permissions

\* Where grants and roles grow, rights grow.
LEMMA RightsGrow ==
    ASSUME TypeOK,
           \A r \in Roles : grants[r] \subseteq grants'[r],
           \A u \in Users : roles[u] \subseteq roles'[u],
           NEW who
    PROVE  /\ Granted(who) \subseteq Granted(who)'
           /\ IsAdmin(who) => IsAdmin(who)'
           /\ Effective(who) \subseteq Effective(who)'
<1>1. RolesOf(who) \subseteq Roles /\ RolesOf(who) \subseteq RolesOf(who)'
  BY DEF TypeOK, RolesOf
<1>2. Granted(who) \subseteq Granted(who)'
  BY <1>1 DEF Granted
<1>3. IsAdmin(who) => IsAdmin(who)'
  BY <1>1 DEF IsAdmin
<1>4. QED
  BY <1>2, <1>3 DEF Effective

\* More permissions allow no less.
LEMMA AllowsGrows ==
    ASSUME NEW P, NEW Q, P \subseteq Q, NEW action, NEW application,
           Allows(P, action, application)
    PROVE  Allows(Q, action, application)
  BY DEF Allows

\* No step takes a right away.
LEMMA NothingIsTaken ==
    ASSUME TypeOK, [Next]_vars
    PROVE  /\ \A r \in Roles : grants[r] \subseteq grants'[r]
           /\ \A u \in Users : roles[u] \subseteq roles'[u]
<1> USE DEF TypeOK
<1>1. CASE \E c \in Calls, u \in Users, r \in Roles : AddUserRole(c, u, r)
  BY <1>1 DEF AddUserRole, WithRole
<1>2. CASE \E c \in Calls, r \in Roles, p \in Grantable : GrantPermission(c, r, p)
  BY <1>2 DEF GrantPermission
<1>3. CASE \E c \in Calls, u \in Users : DevLogin(c, u)
  BY <1>3 DEF DevLogin, WithRole
<1>4. CASE UNCHANGED <<grants, roles>>
  BY <1>4
<1>5. QED
  BY <1>1, <1>2, <1>3, <1>4 DEF Next, Authenticate, Handle, Tick, ReadToken, ReadSession,
       ReadIdentity, ReadOpenID, ReadPermissions, ReadRoleName, MissRoleName, Act, Show, Forbid,
       Issue, Revoke, UpsertIdentity, UpsertWebIdentity, Login, tables, vars

-----------------------------------------------------------------------------
(***************************************************************************)
(* Types                                                                   *)
(***************************************************************************)

\* The empty tables, the bootstrap token and the fresh calls have their types.
LEMMA InitIInv == Init => IInv
<1> SUFFICES ASSUME Init PROVE IInv
  OBVIOUS
<1> USE ConstantsAssumption DEF Init
<1>1. TypeOK
  <2>1. call \in [Calls -> CallState]
    BY DEF Fresh, CallState
  <2>2. token \in [Tokens -> [role : Roles \cup {NoRole}, expires : Nat, revoked : BOOLEAN]]
    BY DEF NoToken, Never
  <2>3. QED
    BY <2>1, <2>2 DEF TypeOK, NoSession
<1>2. CallInv /\ SnapshotNeverExceeds
  BY DEF CallInv, SnapshotNeverExceeds, Fresh, At, UnderWay
<1>3. QED
  BY <1>1, <1>2 DEF IInv

\* What the steps of one call make of the calls: it gets a state of its type, the
\* others stay as they are.
LEMMA CallKeepsType ==
    ASSUME TypeOK, NEW c \in Calls, NEW state \in CallState,
           call' = [call EXCEPT ![c] = state]
    PROVE  call' \in [Calls -> CallState]
  BY DEF TypeOK

\* A call that is authenticated gets a snapshot, and a snapshot is a set of permissions.
LEMMA AuthenticateType ==
    ASSUME IInv, NEW c \in Calls, Authenticate(c)
    PROVE  TypeOK'
<1> USE DEF IInv
<1>1. call[c] \in CallState
  BY DEF TypeOK
<1>2. ASSUME NEW by \in Credentials, NEW who \in Users \cup Roles, Names(c, by, who)
      PROVE  call' \in [Calls -> CallState]
  <2>1. Effective(who) \in SUBSET Permissions
    BY EffectiveType
  <2> DEFINE state == [call[c] EXCEPT !.pc = "named", !.by = by, !.who = who, !.had = Effective(who)]
  <2>2. state \in CallState
    BY <1>1, <2>1 DEF CallState
  <2>3. QED
    BY <1>2, <2>2, CallKeepsType DEF Names
<1>3. CASE \E t \in Tokens : ReadToken(c, t)
  <2>1. PICK t \in Tokens : ReadToken(c, t)
    BY <1>3
  <2>2. token[t].role \in Roles /\ <<"token", t>> \in Credentials
    BY <2>1 DEF ReadToken, TokenGood, TypeOK, Credentials
  <2>3. call' \in [Calls -> CallState]
    BY <1>2, <2>1, <2>2 DEF ReadToken
  <2>4. QED
    BY <2>1, <2>3 DEF ReadToken, TypeOK, tables, SubjectsUnique
<1>4. CASE \E s \in Sessions : ReadSession(c, s)
  <2>1. PICK s \in Sessions : ReadSession(c, s)
    BY <1>4
  <2>2. session[s].user \in Users /\ <<"session", s>> \in Credentials
    BY <2>1 DEF ReadSession, SessionGood, TypeOK, Credentials
  <2>3. call' \in [Calls -> CallState]
    BY <1>2, <2>1, <2>2 DEF ReadSession
  <2>4. QED
    BY <2>1, <2>3 DEF ReadSession, TypeOK, tables, SubjectsUnique
<1>5. CASE \E u \in Users, subject \in Subjects :
               ReadIdentity(c, subject, u) \/ ReadOpenID(c, subject, u)
  <2>1. PICK u \in Users, subject \in Subjects :
            ReadIdentity(c, subject, u) \/ ReadOpenID(c, subject, u)
    BY <1>5
  <2>2. <<"chat", subject>> \in Credentials /\ <<"oauth", subject>> \in Credentials
    BY DEF Credentials
  <2>3. call' \in [Calls -> CallState]
    BY <1>2, <2>1, <2>2 DEF ReadIdentity, ReadOpenID
  <2>4. QED
    BY <2>1, <2>3 DEF ReadIdentity, ReadOpenID, TypeOK, tables, SubjectsUnique
<1>10. CASE \E u \in Users : DevLogin(c, u)
  <2>1. PICK u \in Users : DevLogin(c, u)
    BY <1>10
  <2>2. <<"development">> \in Credentials
    BY DEF Credentials
  <2>3. call' \in [Calls -> CallState]
    BY <1>2, <2>1, <2>2 DEF DevLogin
  <2>4. roles' \in [Users -> SUBSET Roles]
    BY <2>1, ConstantsAssumption DEF DevLogin, WithRole, TypeOK
  <2>5. QED
    BY <2>1, <2>3, <2>4 DEF DevLogin, TypeOK, SubjectsUnique
<1>6. CASE ReadPermissions(c)
  <2>1. Granted(call[c].who) \in SUBSET Permissions
    BY EffectiveType DEF Permissions
  <2> DEFINE state == [call[c] EXCEPT !.pc = "permitted", !.permissions = Granted(call[c].who)]
  <2>2. state \in CallState
    BY <1>1, <2>1 DEF CallState
  <2>3. call' \in [Calls -> CallState]
    BY <1>6, <2>2, CallKeepsType DEF ReadPermissions
  <2>4. QED
    BY <1>6, <2>3 DEF ReadPermissions, TypeOK, tables, SubjectsUnique
<1>7. CASE ReadRoleName(c)
  <2> DEFINE more == IF ReadAdmin(c) THEN {AdminPermission} ELSE {}
             state == [call[c] EXCEPT !.pc = "ready", !.permissions = @ \cup more]
  <2>1. state \in CallState
    BY <1>1 DEF CallState, Permissions
  <2>2. call' \in [Calls -> CallState]
    BY <1>7, <2>1, CallKeepsType DEF ReadRoleName
  <2>3. QED
    BY <1>7, <2>2 DEF ReadRoleName, TypeOK, tables, SubjectsUnique
<1>8. CASE MissRoleName(c)
  <2> DEFINE next == IF call[c].by[1] = "chat" THEN "refused" ELSE "ready"
             state == [call[c] EXCEPT !.pc = next, !.missed = TRUE]
  <2>1. state \in CallState
    BY <1>1 DEF CallState
  <2>2. call' \in [Calls -> CallState]
    BY <1>8, <2>1, CallKeepsType DEF MissRoleName
  <2>3. faults' \in 0..MaxFaults
    BY <1>8, ConstantsAssumption DEF MissRoleName, TypeOK
  <2>4. QED
    BY <1>8, <2>2, <2>3 DEF MissRoleName, TypeOK, tables, SubjectsUnique
<1>9. QED
  BY <1>3, <1>4, <1>5, <1>6, <1>7, <1>8, <1>10 DEF Authenticate

\* A handler that is done leaves the call in a state of its type.
LEMMA EndsType ==
    ASSUME TypeOK, NEW c \in Calls, Ends(c)
    PROVE  call' \in [Calls -> CallState] /\ UNCHANGED <<clock, faults>>
<1>1. call[c] \in CallState
  BY DEF TypeOK
<1>2. NoLongerGood(call[c].by) \in BOOLEAN
  BY DEF NoLongerGood
<1> DEFINE state == [call[c] EXCEPT !.pc = "served", !.late = NoLongerGood(call[c].by)]
<1>3. state \in CallState
  BY <1>1, <1>2 DEF CallState
<1>4. QED
  BY <1>3, CallKeepsType DEF Ends

\* A handler changes the tables and its call to values of their types.
LEMMA HandleType ==
    ASSUME IInv, NEW c \in Calls, Handle(c)
    PROVE  TypeOK'
<1> USE DEF IInv
<1>1. ASSUME Ends(c), UNCHANGED tables, UNCHANGED crossed
      PROVE  TypeOK'
  BY <1>1, EndsType DEF TypeOK, tables, SubjectsUnique
<1>2. CASE \E p \in Grantable : Act(c, p) \/ Show(c, p.application)
  BY <1>1, <1>2 DEF Act, Show
<1>3. CASE Forbid(c)
  <2> DEFINE state == [call[c] EXCEPT !.pc = "refused"]
  <2>1. state \in CallState
    BY DEF TypeOK, CallState
  <2>2. call' = [call EXCEPT ![c] = state]
    BY <1>3 DEF Forbid, TypeOK
  <2>3. call' \in [Calls -> CallState]
    BY <2>1, <2>2, CallKeepsType
  <2>4. QED
    BY <1>3, <2>3 DEF Forbid, TypeOK, tables, SubjectsUnique
<1>4. CASE \E u \in Users, r \in Roles : AddUserRole(c, u, r)
  BY <1>4, EndsType DEF AddUserRole, WithRole, TypeOK, SubjectsUnique
<1>5. CASE \E r \in Roles, p \in Grantable : GrantPermission(c, r, p)
  BY <1>5, EndsType DEF GrantPermission, TypeOK, SubjectsUnique
<1>6. CASE \E t \in Tokens, r \in Roles, expires \in {clock, Never} : Issue(c, t, r, expires)
  <2>1. PICK t \in Tokens, r \in Roles, expires \in {clock, Never} : Issue(c, t, r, expires)
    BY <1>6
  <2>2. expires \in Nat
    BY ConstantsAssumption DEF TypeOK, Never
  <2>3. token' \in [Tokens -> [role : Roles \cup {NoRole}, expires : Nat, revoked : BOOLEAN]]
    BY <2>1, <2>2 DEF Issue, TypeOK
  <2>4. QED
    BY <2>1, <2>3, EndsType DEF Issue, TypeOK, SubjectsUnique
<1>7. CASE \E t \in Tokens : Revoke(c, t)
  <2>1. PICK t \in Tokens : Revoke(c, t)
    BY <1>7
  <2>2. token' \in [Tokens -> [role : Roles \cup {NoRole}, expires : Nat, revoked : BOOLEAN]]
    BY <2>1 DEF Revoke, TypeOK
  <2>3. crossed' \subseteq Calls
    BY <2>1 DEF Revoke, Uses, TypeOK
  <2>4. QED
    BY <2>1, <2>2, <2>3, EndsType DEF Revoke, TypeOK, SubjectsUnique
<1>8. CASE \E u \in Users, subject \in Subjects : UpsertIdentity(c, u, subject)
  <2>1. PICK u \in Users, subject \in Subjects : UpsertIdentity(c, u, subject)
    BY <1>8
  <2>2. subjectOf' \in [Users -> Subjects \cup {NoSubject}]
    BY <2>1 DEF UpsertIdentity, TypeOK
  <2>3. SubjectsUnique'
    BY <2>1 DEF UpsertIdentity, TypeOK, SubjectsUnique, Taken
  <2>4. QED
    BY <2>1, <2>2, <2>3, EndsType DEF UpsertIdentity, TypeOK
<1>9. CASE \E s \in Sessions : Login(c, s)
  <2>1. PICK s \in Sessions : Login(c, s)
    BY <1>9
  <2>2. call[c].who \in Users
    BY <2>1 DEF Login, CallInv, At, UnderWay
  <2>3. clock + SessionTTL \in Nat
    BY ConstantsAssumption DEF TypeOK
  <2>4. session' \in [Sessions -> [user : Users \cup {NoUser}, expires : Nat]]
    BY <2>1, <2>2, <2>3 DEF Login, TypeOK
  <2>5. QED
    BY <2>1, <2>4, EndsType DEF Login, TypeOK, SubjectsUnique
<1>10. CASE \E u \in Users, local \in BOOLEAN : UpsertWebIdentity(c, u, local)
  <2>1. PICK u \in Users, local \in BOOLEAN : UpsertWebIdentity(c, u, local)
    BY <1>10
  <2>2. developer' \in Users \cup {NoUser}
    BY <2>1 DEF UpsertWebIdentity, TypeOK
  <2>3. QED
    BY <2>1, <2>2, EndsType DEF UpsertWebIdentity, TypeOK, SubjectsUnique
<1>11. QED
  BY <1>2, <1>3, <1>4, <1>5, <1>6, <1>7, <1>8, <1>9, <1>10 DEF Handle

\* Every step keeps the types.
LEMMA TypeStep ==
    ASSUME IInv, [Next]_vars
    PROVE  TypeOK'
<1>1. CASE UNCHANGED vars
  BY <1>1 DEF vars, IInv, TypeOK, SubjectsUnique
<1>2. CASE Tick
  <2>1. clock' \in 0..MaxTime
    BY <1>2, ConstantsAssumption DEF Tick, IInv, TypeOK
  <2>2. crossed' \subseteq Calls
    BY <1>2 DEF Tick, IInv, TypeOK
  <2>3. QED
    BY <1>2, <2>1, <2>2 DEF Tick, tables, IInv, TypeOK, SubjectsUnique
<1>3. QED
  BY <1>1, <1>2, AuthenticateType, HandleType DEF Next

-----------------------------------------------------------------------------
(***************************************************************************)
(* What a call knows                                                       *)
(***************************************************************************)

\* A handler ends its call and leaves what it knows, and every other call, alone.
LEMMA HandledCall ==
    ASSUME TypeOK, NEW c \in Calls, NEW d \in Calls, Handle(d)
    PROVE  /\ c # d => call'[c] = call[c]
           /\ call'[d].pc \in {"served", "refused"}
           /\ call'[c].who = call[c].who /\ call'[c].permissions = call[c].permissions
<1>1. Ends(d) \/ Forbid(d)
  BY DEF Handle, Act, Show, AddUserRole, GrantPermission, Issue, Revoke, UpsertIdentity,
         UpsertWebIdentity, Login
<1>2. call \in [Calls -> CallState] /\ call[d] \in CallState
  BY DEF TypeOK
<1>3. CASE Ends(d)
  <2>1. PICK late : call' = [call EXCEPT ![d] = [@ EXCEPT !.pc = "served", !.late = late]]
    BY <1>3 DEF Ends
  <2>2. QED
    BY <1>2, <2>1 DEF CallState
<1>4. CASE Forbid(d)
  BY <1>2, <1>4 DEF Forbid, CallState
<1>5. QED
  BY <1>1, <1>3, <1>4

\* A call stays nobody's until it is named, and then acts for one user or role.
LEMMA CallInvStep ==
    ASSUME IInv, [Next]_vars
    PROVE  CallInv'
<1>1. ASSUME NEW c \in Calls, NEW d \in Calls, Authenticate(d)
      PROVE  /\ At(c, "fresh")' => call'[c] = call[c]
             /\ UnderWay(c)' => /\ call'[c].who \in Users \cup Roles
                                /\ LogsIn(c)' => call'[c].who \in Users
  <2> USE DEF At, UnderWay, LogsIn, Names, IInv, TypeOK, CallState, CallInv
  <2>1. CASE \E t \in Tokens : ReadToken(d, t)
    BY <1>1, <2>1 DEF ReadToken, TokenGood
  <2>2. CASE \E s \in Sessions : ReadSession(d, s)
    BY <1>1, <2>2 DEF ReadSession, SessionGood
  <2>3. CASE \E u \in Users, subject \in Subjects :
                 ReadIdentity(d, subject, u) \/ ReadOpenID(d, subject, u)
    <3>1. PICK u \in Users, subject \in Subjects :
              ReadIdentity(d, subject, u) \/ ReadOpenID(d, subject, u)
      BY <2>3
    <3>2. PICK by : At(d, "fresh") /\ Names(d, by, u)
      BY <3>1 DEF ReadIdentity, ReadOpenID
    <3>3. call'[d].pc = "named" /\ call'[d].who = u /\ (c # d => call'[c] = call[c])
      BY <3>2
    <3>4. QED
      BY <1>1, <3>3
  <2>8. CASE \E u \in Users : DevLogin(d, u)
    BY <1>1, <2>8 DEF DevLogin
  <2>4. CASE ReadPermissions(d)
    BY <1>1, <2>4 DEF ReadPermissions
  <2>5. CASE ReadRoleName(d)
    BY <1>1, <2>5 DEF ReadRoleName
  <2>6. CASE MissRoleName(d)
    BY <1>1, <2>6 DEF MissRoleName
  <2>7. QED
    BY <1>1, <2>1, <2>2, <2>3, <2>4, <2>5, <2>6, <2>8 DEF Authenticate
<1>2. ASSUME NEW c \in Calls, NEW d \in Calls, Handle(d)
      PROVE  /\ At(c, "fresh")' => call'[c] = call[c]
             /\ UnderWay(c)' => call'[c] = call[c]
  BY <1>2, HandledCall DEF At, UnderWay, IInv
<1>3. CASE UNCHANGED call
  BY <1>3 DEF IInv, CallInv, At, UnderWay, LogsIn
<1>4. QED
  BY <1>1, <1>2, <1>3 DEF Next, vars, Tick, IInv, CallInv, At, UnderWay, LogsIn

\* Of one call: what it has read of its rights, it has.
LEMMA SnapshotStep ==
    ASSUME IInv, [Next]_vars
    PROVE  SnapshotNeverExceeds'
<1> SUFFICES ASSUME NEW c \in Calls
             PROVE  (call[c].permissions \subseteq Effective(call[c].who))'
  BY DEF SnapshotNeverExceeds
<1> USE DEF IInv, TypeOK, CallState
<1>1. \A who : Effective(who) \subseteq Effective(who)'
  BY NothingIsTaken, RightsGrow
<1>2. ASSUME call'[c].permissions \subseteq Effective(call'[c].who)
      PROVE  (call[c].permissions \subseteq Effective(call[c].who))'
  BY <1>1, <1>2 DEF Effective, Granted, IsAdmin, RolesOf
<1>3. ASSUME call'[c].who = call[c].who, call'[c].permissions = call[c].permissions
      PROVE  (call[c].permissions \subseteq Effective(call[c].who))'
  BY <1>2, <1>3 DEF SnapshotNeverExceeds
<1>4. ASSUME NEW d \in Calls, Authenticate(d)
      PROVE  \/ call'[c].permissions \subseteq Effective(call'[c].who)
             \/ call'[c].who = call[c].who /\ call'[c].permissions = call[c].permissions
  <2>1. CASE ReadPermissions(d)
    BY <2>1 DEF ReadPermissions, Effective
  <2>2. CASE ReadRoleName(d)
    BY <2>2 DEF ReadRoleName, ReadAdmin, Effective, SnapshotNeverExceeds
  <2>3. CASE MissRoleName(d)
    BY <2>3 DEF MissRoleName
  <2>4. ASSUME NEW by, NEW who, At(d, "fresh"), Names(d, by, who)
        PROVE  \/ call'[c].permissions = {}
               \/ call'[c].who = call[c].who /\ call'[c].permissions = call[c].permissions
    BY <2>4 DEF Names, CallInv
  <2>5. QED
    BY <1>4, <2>1, <2>2, <2>3, <2>4 DEF Authenticate, ReadToken, ReadSession, ReadIdentity,
                                              ReadOpenID, DevLogin
<1>5. ASSUME NEW d \in Calls, Handle(d)
      PROVE  call'[c].who = call[c].who /\ call'[c].permissions = call[c].permissions
  BY <1>5, HandledCall
<1>6. CASE UNCHANGED call
  BY <1>3, <1>6
<1>7. QED
  BY <1>2, <1>3, <1>4, <1>5, <1>6 DEF Next, Tick, vars

-----------------------------------------------------------------------------
(***************************************************************************)
(* What every reachable state satisfies                                    *)
(***************************************************************************)

\* The invariant that the proofs rest on.
THEOREM Invariance == Spec => []IInv
<1>1. Init => IInv
  BY InitIInv
<1>2. IInv /\ [Next]_vars => IInv'
  BY TypeStep, CallInvStep, SnapshotStep DEF IInv
<1>3. QED
  BY <1>1, <1>2, PTL DEF Spec

\* The tables and the calls have their types; no subject names two users.
THEOREM TypeCorrect == Spec => []TypeOK
<1>1. IInv => TypeOK
  BY DEF IInv
<1>2. QED
  BY <1>1, Invariance, PTL

\* No call acts with a permission that its role or user lacks by then.
THEOREM SnapshotNeverExceedsHolds == Spec => []SnapshotNeverExceeds
<1>1. IInv => SnapshotNeverExceeds
  BY DEF IInv
<1>2. QED
  BY <1>1, Invariance, PTL

\* A caller that passes requireAdmin, on what it read, is an administrator still.
LEMMA RequiredAdministrator ==
    ASSUME IInv, NEW c \in Calls, RequireAdmin(c), Ends(c)
    PROVE  ActOfAdministrator(c)
<1>1. call[c].who \in Users \cup Roles
  BY DEF RequireAdmin, At, UnderWay, IInv, CallInv
<1>2. call[c].permissions \subseteq Effective(call[c].who)
  BY DEF IInv, SnapshotNeverExceeds
<1>3. Allows(Effective(call[c].who), "admin", NoApplication)
  BY <1>2, AllowsGrows DEF RequireAdmin, May
<1>4. call'[c].pc = "served"
  BY DEF Ends, IInv, TypeOK, CallState
<1>5. QED
  BY <1>1, <1>3, <1>4 DEF RequireAdmin, Administrators, ActOfAdministrator

\* A development login adds one to the administrators.
LEMMA LoginStep ==
    ASSUME IInv, NEW c \in Calls, NEW u \in Users, DevLogin(c, u)
    PROVE  DevelopmentLogin(c)
<1> USE DEF IInv, TypeOK
<1>1. /\ Development /\ At(c, "fresh") /\ developer' = u /\ grants' = grants
      /\ u = developer \/ (developer = NoUser /\ Unused(u))
      /\ roles' = [roles EXCEPT ![u] = @ \cup {admin}]
  BY DEF DevLogin, WithRole
<1>2. call'[c].by = <<"development">>
  BY DEF DevLogin, Names, CallState
<1>3. \A who : Effective(who) \subseteq Effective(who)'
  BY NothingIsTaken, RightsGrow DEF Next, Authenticate
<1>4. ASSUME NEW who, who # u
      PROVE  Effective(who)' = Effective(who)
  <2>1. RolesOf(who)' = RolesOf(who)
    BY <1>1, <1>4 DEF RolesOf
  <2>2. QED
    BY <1>1, <2>1 DEF Effective, Granted, IsAdmin
<1>5. Allows(Effective(u)', "admin", NoApplication)
  <2>1. admin \in RolesOf(u)'
    BY <1>1, ConstantsAssumption DEF RolesOf
  <2>2. AdminPermission \in Effective(u)'
    BY <2>1 DEF Effective, IsAdmin
  <2>3. QED
    BY <2>2 DEF Allows, PermissionAllows, AdminPermission
<1>6. Administrators' = Administrators \cup {u}
  <2>1. \A who \in Users \cup Roles : who # u => (who \in Administrators' <=> who \in Administrators)
    BY <1>4 DEF Administrators
  <2>2. u \in Administrators'
    BY <1>5 DEF Administrators
  <2>3. Administrators \subseteq Users \cup Roles /\ Administrators' \subseteq Users \cup Roles
    BY DEF Administrators
  <2>4. QED
    BY <2>1, <2>2, <2>3
<1>7. QED
  BY <1>1, <1>2, <1>6 DEF DevelopmentLogin

\* An administrator is made by one who is one still, or by a development login.
LEMMA AdministratorsStep ==
    ASSUME IInv, [Next]_vars, Administrators' # Administrators \/ developer' # developer
    PROVE  \E c \in Calls : ActOfAdministrator(c) \/ DevelopmentLogin(c)
<1>1. CASE \E c \in Calls, u \in Users, r \in Roles : AddUserRole(c, u, r)
  BY <1>1, RequiredAdministrator DEF AddUserRole
<1>2. CASE \E c \in Calls, r \in Roles, p \in Grantable : GrantPermission(c, r, p)
  BY <1>2, RequiredAdministrator DEF GrantPermission
<1>3. CASE \E c \in Calls, u \in Users, local \in BOOLEAN : UpsertWebIdentity(c, u, local)
  BY <1>3, RequiredAdministrator DEF UpsertWebIdentity
<1>4. CASE \E c \in Calls, u \in Users : DevLogin(c, u)
  BY <1>4, LoginStep
<1>5. CASE UNCHANGED <<grants, roles, developer>>
  <2>1. \A who : Effective(who)' = Effective(who)
    BY <1>5 DEF Effective, Granted, IsAdmin, RolesOf
  <2>2. Administrators' = Administrators
    BY <2>1 DEF Administrators
  <2>3. QED
    BY <1>5, <2>2
<1>6. QED
  BY <1>1, <1>2, <1>3, <1>4, <1>5 DEF Next, Authenticate, Handle, Tick, ReadToken, ReadSession,
       ReadIdentity, ReadOpenID, ReadPermissions, ReadRoleName, MissRoleName, Act, Show, Forbid,
       Issue, Revoke, UpsertIdentity, Login, tables, vars

\* Nobody becomes an administrator, or gets the development identity, but by the act of a
\* caller who is one still, or by a development login, which makes its own user one.
THEOREM AdministratorsMakeAdministratorsHolds == Spec => AdministratorsMakeAdministrators
<1>1. IInv /\ [Next]_vars =>
        [Administrators' # Administrators \/ developer' # developer =>
            \E c \in Calls : ActOfAdministrator(c) \/ DevelopmentLogin(c)]_vars
  BY AdministratorsStep
<1>2. QED
  BY <1>1, Invariance, PTL DEF Spec, AdministratorsMakeAdministrators

-----------------------------------------------------------------------------
(***************************************************************************)
(* What a call does not miss                                               *)
(***************************************************************************)

\* Every step keeps what is still to be read and what was read.
LEMMA ReadStep ==
    ASSUME IInv, ReadInv, SnapshotMissesNothing, [Next]_vars
    PROVE  ReadInv' /\ SnapshotMissesNothing'
<1> USE DEF IInv, TypeOK, CallState, At
<1>1. \A who : /\ Granted(who) \subseteq Granted(who)'
               /\ IsAdmin(who) => IsAdmin(who)'
               /\ Effective(who) \subseteq Effective(who)'
  BY NothingIsTaken, RightsGrow
<1> DEFINE Kept(c) ==
        /\ call'[c].pc = "named" => call'[c].had \subseteq Effective(call'[c].who)
        /\ call'[c].pc = "permitted" =>
               call'[c].had \subseteq call'[c].permissions \cup
                   (IF IsAdmin(call'[c].who) THEN {AdminPermission} ELSE {})
        /\ call'[c].pc = "ready" /\ ~call'[c].missed =>
               call'[c].had \subseteq call'[c].permissions
<1>2. ASSUME NEW c \in Calls, call'[c] = call[c]
      PROVE  Kept(c)
  BY <1>2 DEF ReadInv, SnapshotMissesNothing
<1>3. ASSUME NEW c \in Calls, NEW d \in Calls, Authenticate(d)
      PROVE  Kept(c)
  <2>1. CASE ReadPermissions(d)
    BY <1>2, <2>1 DEF ReadPermissions, Effective, ReadInv
  <2>2. CASE ReadRoleName(d)
    BY <1>2, <2>2 DEF ReadRoleName, ReadAdmin, ReadInv
  <2>3. CASE MissRoleName(d)
    BY <1>2, <2>3 DEF MissRoleName
  <2>4. ASSUME NEW by, NEW who, Names(d, by, who)
        PROVE  Kept(c)
    BY <1>2, <2>4 DEF Names
  <2>5. QED
    BY <1>3, <2>1, <2>2, <2>3, <2>4 DEF Authenticate, ReadToken, ReadSession, ReadIdentity,
                                              ReadOpenID, DevLogin
<1>4. ASSUME NEW c \in Calls, NEW d \in Calls, Handle(d)
      PROVE  Kept(c)
  BY <1>2, <1>4, HandledCall
<1>5. \A c \in Calls : Kept(c)
  BY <1>2, <1>3, <1>4 DEF Next, Tick, vars
<1>6. \A c \in Calls : /\ Effective(call'[c].who) \subseteq (Effective(call[c].who))'
                       /\ IsAdmin(call'[c].who) => (IsAdmin(call[c].who))'
  BY <1>1 DEF Effective, Granted, IsAdmin, RolesOf
<1>7. QED
  BY <1>5, <1>6 DEF ReadInv, SnapshotMissesNothing

\* A call that is ready has all that its role or user had when it was authenticated,
\* unless an error was dropped.
THEOREM SnapshotMissesNothingHolds == Spec => []SnapshotMissesNothing
<1>1. Init => ReadInv /\ SnapshotMissesNothing
  BY DEF Init, Fresh, At, ReadInv, SnapshotMissesNothing
<1>2. IInv /\ (ReadInv /\ SnapshotMissesNothing) /\ [Next]_vars
        => (ReadInv /\ SnapshotMissesNothing)'
  BY ReadStep
<1>3. QED
  BY <1>1, <1>2, Invariance, PTL DEF Spec

-----------------------------------------------------------------------------
(***************************************************************************)
(* Late acts                                                               *)
(***************************************************************************)

\* A call under way with a credential of each kind.
LEMMA CredentialKinds ==
    ASSUME NEW by \in Credentials
    PROVE  /\ by[1] = "token" => by[2] \in Tokens /\ by = <<"token", by[2]>>
           /\ by[1] = "session" => by[2] \in Sessions /\ by = <<"session", by[2]>>
  BY DEF Credentials

\* What a call reads of its rights does not touch its credential.
LEMMA ReadKeepsCredential ==
    ASSUME TypeOK, NEW d \in Calls, ReadPermissions(d) \/ ReadRoleName(d) \/ MissRoleName(d)
    PROVE  /\ UnderWay(d)
           /\ \A c \in Calls : call'[c].by = call[c].by /\ call'[c].late = call[c].late
<1>1. call \in [Calls -> CallState] /\ call[d] \in CallState
  BY DEF TypeOK
<1>4. UnderWay(d)
  BY DEF ReadPermissions, ReadRoleName, MissRoleName, At, UnderWay
<1>2. CASE \E pc, permissions :
               call' = [call EXCEPT ![d] = [@ EXCEPT !.pc = pc, !.permissions = permissions]]
  <2>1. PICK pc, permissions :
            call' = [call EXCEPT ![d] = [@ EXCEPT !.pc = pc, !.permissions = permissions]]
    BY <1>2
  <2>2. QED
    BY <1>1, <2>1, <1>4 DEF CallState
<1>3. CASE \E pc : call' = [call EXCEPT ![d] = [@ EXCEPT !.pc = pc, !.missed = TRUE]]
  <2>1. PICK pc : call' = [call EXCEPT ![d] = [@ EXCEPT !.pc = pc, !.missed = TRUE]]
    BY <1>3
  <2>2. QED
    BY <1>1, <2>1, <1>4 DEF CallState
<1>5. QED
  BY <1>2, <1>3 DEF ReadPermissions, ReadRoleName, MissRoleName

\* The reads start a call with a good credential, or go on with that of the call.
LEMMA AuthenticateCredential ==
    ASSUME IInv, CredentialInv, LateActsExplained, NEW d \in Calls, Authenticate(d)
    PROVE  CredentialInv' /\ LateActsExplained'
<1> USE DEF IInv, TypeOK, CallState
<1>1. UNCHANGED <<token, session, clock, crossed>>
  BY DEF Authenticate, ReadToken, ReadSession, ReadIdentity, ReadOpenID, DevLogin,
         ReadPermissions, ReadRoleName, MissRoleName, tables
<1>2. \A c \in Calls : call'[c].late = call[c].late
  <2>1. ASSUME NEW by, NEW who, Names(d, by, who)
        PROVE  \A c \in Calls : call'[c].late = call[c].late
    BY <2>1 DEF Names
  <2>2. CASE ReadPermissions(d) \/ ReadRoleName(d) \/ MissRoleName(d)
    BY <2>2, ReadKeepsCredential
  <2>3. QED
    BY <2>1, <2>2 DEF Authenticate, ReadToken, ReadSession, ReadIdentity,
                                              ReadOpenID, DevLogin
<1>3. LateActsExplained'
  BY <1>1, <1>2 DEF LateActsExplained
<1>4. \A c \in Calls \ {d} : call'[c] = call[c]
  BY DEF Authenticate, ReadToken, ReadSession, ReadIdentity, ReadOpenID, DevLogin,
         ReadPermissions, ReadRoleName, MissRoleName, Names
<1> DEFINE Good(by) ==
        /\ by \in Credentials
        /\ \A t \in Tokens : by = <<"token", t>> => token[t].role # NoRole
        /\ \A s \in Sessions : by = <<"session", s>> => session[s].user # NoUser
<1>5. \/ UnderWay(d) /\ call'[d].by = call[d].by
      \/ Good(call'[d].by) /\ ~NoLongerGood(call'[d].by)
  <2>1. CASE \E t \in Tokens : ReadToken(d, t)
    <3>1. PICK t \in Tokens : ReadToken(d, t)
      BY <2>1
    <3>2. call'[d].by = <<"token", t>> /\ <<"token", t>> \in Credentials
      BY <3>1 DEF ReadToken, Names, Credentials
    <3>3. ~NoLongerGood(<<"token", t>>)
      BY <3>1 DEF ReadToken, TokenGood, NoLongerGood
    <3>4. QED
      BY <3>1, <3>2, <3>3 DEF ReadToken, TokenGood
  <2>2. CASE \E s \in Sessions : ReadSession(d, s)
    <3>1. PICK s \in Sessions : ReadSession(d, s)
      BY <2>2
    <3>2. call'[d].by = <<"session", s>> /\ <<"session", s>> \in Credentials
      BY <3>1 DEF ReadSession, Names, Credentials
    <3>3. ~NoLongerGood(<<"session", s>>)
      BY <3>1 DEF ReadSession, SessionGood, NoLongerGood
    <3>4. QED
      BY <3>1, <3>2, <3>3 DEF ReadSession, SessionGood
  <2>3. CASE \E u \in Users, subject \in Subjects :
                 ReadIdentity(d, subject, u) \/ ReadOpenID(d, subject, u)
    <3>1. PICK u \in Users, subject \in Subjects :
              ReadIdentity(d, subject, u) \/ ReadOpenID(d, subject, u)
      BY <2>3
    <3>2. PICK kind \in {"chat", "oauth"} : call'[d].by = <<kind, subject>>
      <4>1. CASE ReadIdentity(d, subject, u)
        BY <4>1 DEF ReadIdentity, Names
      <4>2. CASE ReadOpenID(d, subject, u)
        BY <4>2 DEF ReadOpenID, Names
      <4>3. QED
        BY <3>1, <4>1, <4>2
    <3>3. <<kind, subject>> \in Credentials
      BY DEF Credentials
    <3>4. /\ \A t \in Tokens : <<"token", t>> # <<kind, subject>>
          /\ \A s \in Sessions : <<"session", s>> # <<kind, subject>>
      BY <3>2
    <3>5. ~NoLongerGood(<<kind, subject>>)
      BY <3>2 DEF NoLongerGood
    <3>6. QED
      BY <3>2, <3>3, <3>4, <3>5
  <2>6. CASE \E u \in Users : DevLogin(d, u)
    <3>1. call'[d].by = <<"development">> /\ <<"development">> \in Credentials
      BY <2>6 DEF DevLogin, Names, Credentials
    <3>2. /\ \A t \in Tokens : <<"token", t>> # <<"development">>
          /\ \A s \in Sessions : <<"session", s>> # <<"development">>
          /\ ~NoLongerGood(<<"development">>)
      BY DEF NoLongerGood
    <3>3. QED
      BY <3>1, <3>2
  <2>4. CASE ReadPermissions(d) \/ ReadRoleName(d) \/ MissRoleName(d)
    BY <2>4, ReadKeepsCredential
  <2>5. QED
    BY <2>1, <2>2, <2>3, <2>4, <2>6 DEF Authenticate
<1>6. CredentialInv'
  <2>1. ASSUME NEW c \in Calls, UnderWay(c)'
        PROVE  Good(call'[c].by) /\ (NoLongerGood(call'[c].by) => c \in crossed)
    BY <1>4, <1>5, <2>1 DEF CredentialInv, UnderWay
  <2>2. QED
    BY <1>1, <2>1 DEF CredentialInv, NoLongerGood
<1>7. QED
  BY <1>3, <1>6

\* What a handler does to calls and credentials: a call that acts notes how its
\* credential stands, and a call under way is another one, untouched.
LEMMA HandleCredential ==
    ASSUME IInv, CredentialInv, LateActsExplained, NEW d \in Calls, Handle(d)
    PROVE  CredentialInv' /\ LateActsExplained'
<1> USE DEF IInv, TypeOK, CallState
<1>1. \A c \in Calls : UnderWay(c)' => c # d /\ call'[c] = call[c] /\ UnderWay(c)
  BY HandledCall DEF UnderWay
<1>2. UnderWay(d) /\ call[d].by \in Credentials
  BY DEF Handle, Act, Show, Forbid, RequireAdmin, AddUserRole, GrantPermission, Issue, Revoke,
         UpsertIdentity, UpsertWebIdentity, Login, At, UnderWay, CredentialInv
<1>3. \A c \in Calls : call'[c].late => call[c].late \/ (c = d /\ NoLongerGood(call[d].by))
  <2>1. CASE Ends(d)
    <3>1. PICK late : /\ call' = [call EXCEPT ![d] = [@ EXCEPT !.pc = "served", !.late = late]]
                      /\ late = NoLongerGood(call[d].by)
      BY <2>1 DEF Ends
    <3>2. QED
      BY <3>1
  <2>2. CASE Forbid(d)
    BY <2>2 DEF Forbid
  <2>3. QED
    BY <2>1, <2>2 DEF Handle, Act, Show, AddUserRole, GrantPermission, Issue, Revoke,
                      UpsertIdentity, UpsertWebIdentity, Login
<1>4. clock' = clock /\ crossed \subseteq crossed'
  BY DEF Handle, Act, Show, Forbid, AddUserRole, GrantPermission, Issue, Revoke,
         UpsertIdentity, UpsertWebIdentity, Login, Ends
<1>5. LateActsExplained'
  BY <1>2, <1>3, <1>4 DEF LateActsExplained, CredentialInv
<1>6. ASSUME NEW c \in Calls, UnderWay(c), c # d, UnderWay(c)'
      PROVE  LET by == call[c].by IN
             /\ \A t \in Tokens : by = <<"token", t>> => token'[t].role # NoRole
             /\ \A s \in Sessions : by = <<"session", s>> => session'[s].user # NoUser
             /\ by[1] = "token" => \/ token'[by[2]] = token[by[2]]
                                   \/ c \in crossed'
             /\ by[1] = "session" => session'[by[2]] = session[by[2]]
  <2> DEFINE by == call[c].by
  <2>1. /\ by \in Credentials
        /\ \A t \in Tokens : by = <<"token", t>> => token[t].role # NoRole
        /\ \A s \in Sessions : by = <<"session", s>> => session[s].user # NoUser
    BY <1>6 DEF CredentialInv
  <2>2. CASE UNCHANGED <<token, session>>
    BY <2>1, <2>2
  <2>3. CASE \E t \in Tokens, r \in Roles, expires \in {clock, Never} : Issue(d, t, r, expires)
    <3>1. PICK t \in Tokens, r \in Roles, expires \in {clock, Never} : Issue(d, t, r, expires)
      BY <2>3
    <3>2. token[t].role = NoRole
      BY <3>1 DEF Issue, NoToken
    <3>3. by # <<"token", t>>
      BY <2>1, <3>2
    <3>4. \A other \in Tokens \ {t} : token'[other] = token[other]
      BY <3>1 DEF Issue
    <3>5. session' = session
      BY <3>1 DEF Issue
    <3>6. by[1] = "token" => by[2] \in Tokens \ {t}
      BY <2>1, <3>3, CredentialKinds
    <3>7. \A other \in Tokens : by = <<"token", other>> => other # t
      BY <3>3
    <3>8. QED
      BY <2>1, <3>4, <3>5, <3>6, <3>7
  <2>4. CASE \E t \in Tokens : Revoke(d, t)
    <3>1. PICK t \in Tokens : Revoke(d, t)
      BY <2>4
    <3>2. \A other \in Tokens : /\ token'[other].role = token[other].role
                                /\ other # t => token'[other] = token[other]
      BY <3>1 DEF Revoke
    <3>3. by = <<"token", t>> => c \in crossed'
      BY <1>6, <3>1 DEF Revoke, Uses
    <3>4. by[1] = "token" => by[2] \in Tokens /\ by = <<"token", by[2]>>
      BY <2>1, CredentialKinds
    <3>5. session' = session
      BY <3>1 DEF Revoke
    <3>6. QED
      BY <2>1, <3>2, <3>3, <3>4, <3>5
  <2>5. CASE \E s \in Sessions : Login(d, s)
    <3>1. PICK s \in Sessions : Login(d, s)
      BY <2>5
    <3>2. session[s].user = NoUser
      BY <3>1 DEF Login, NoSession
    <3>3. by # <<"session", s>>
      BY <2>1, <3>2
    <3>4. \A other \in Sessions \ {s} : session'[other] = session[other]
      BY <3>1 DEF Login
    <3>5. token' = token
      BY <3>1 DEF Login
    <3>6. by[1] = "session" => by[2] \in Sessions \ {s}
      BY <2>1, <3>3, CredentialKinds
    <3>7. \A other \in Sessions : by = <<"session", other>> => other # s
      BY <3>3
    <3>8. QED
      BY <2>1, <3>4, <3>5, <3>6, <3>7
  <2>6. QED
    BY <2>2, <2>3, <2>4, <2>5 DEF Handle, Act, Show, Forbid, AddUserRole, GrantPermission,
                                  UpsertIdentity, UpsertWebIdentity, tables
<1>7. ASSUME NEW c \in Calls, UnderWay(c)'
      PROVE  (NoLongerGood(call[c].by) => c \in crossed)'
  <2>1. UnderWay(c) /\ c # d /\ call'[c] = call[c]
    BY <1>1, <1>7
  <2>2. NoLongerGood(call[c].by) => c \in crossed
    BY <2>1 DEF CredentialInv
  <2>3. QED
    BY <1>4, <1>6, <1>7, <2>1, <2>2 DEF NoLongerGood
<1>8. CredentialInv'
  BY <1>1, <1>6, <1>7 DEF CredentialInv
<1>9. QED
  BY <1>5, <1>8

\* A time before the next moment and not before this one is this one.
LEMMA NextMoment ==
    ASSUME NEW m \in Nat, NEW n \in Nat
    PROVE  /\ m < n + 1 /\ ~(m < n) => m = n
           /\ m <= n + 1 /\ ~(m <= n) => m = n + 1
  OBVIOUS

\* Time notes the calls whose token or session it ends.
LEMMA TickCredential ==
    ASSUME IInv, CredentialInv, LateActsExplained, Tick
    PROVE  CredentialInv' /\ LateActsExplained'
<1> USE DEF IInv, TypeOK
<1>1. UNCHANGED <<token, session, call>> /\ clock' = clock + 1 /\ crossed \subseteq crossed'
  BY DEF Tick, tables
<1>2. ASSUME NEW c \in Calls, UnderWay(c), NoLongerGood(call[c].by)'
      PROVE  c \in crossed'
  <2> DEFINE by == call[c].by
  <2>1. by \in Credentials
    BY <1>2 DEF CredentialInv
  <2>2. CASE by[1] = "token"
    <3>1. token[by[2]].expires \in Nat /\ clock \in Nat
      BY <2>1, <2>2, CredentialKinds
    <3>2. NoLongerGood(by) \/ token[by[2]].expires < clock + 1
      BY <1>1, <1>2, <2>2 DEF NoLongerGood
    <3>3. NoLongerGood(by) \/ ~(token[by[2]].expires < clock)
      BY <2>2 DEF NoLongerGood
    <3>4. token[by[2]].expires < clock + 1 /\ ~(token[by[2]].expires < clock)
            => token[by[2]].expires = clock
      BY <3>1, NextMoment
    <3>5. QED
      BY <1>1, <1>2, <2>2, <3>2, <3>3, <3>4 DEF Tick, CredentialInv
  <2>3. CASE by[1] = "session"
    <3>1. session[by[2]].expires \in Nat /\ clock \in Nat
      BY <2>1, <2>3, CredentialKinds
    <3>2. NoLongerGood(by) \/ session[by[2]].expires <= clock + 1
      BY <1>1, <1>2, <2>3 DEF NoLongerGood
    <3>3. NoLongerGood(by) \/ ~(session[by[2]].expires <= clock)
      BY <2>3 DEF NoLongerGood
    <3>4. session[by[2]].expires <= clock + 1 /\ ~(session[by[2]].expires <= clock)
            => session[by[2]].expires = clock + 1
      BY <3>1, NextMoment
    <3>5. QED
      BY <1>1, <1>2, <2>3, <3>2, <3>3, <3>4 DEF Tick, CredentialInv
  <2>4. QED
    BY <1>1, <1>2, <2>2, <2>3 DEF NoLongerGood
<1>3. CredentialInv'
  BY <1>1, <1>2 DEF CredentialInv, UnderWay
<1>4. QED
  BY <1>1, <1>3 DEF LateActsExplained

\* A call acts with a credential that has ended only if it was under way by then.
THEOREM LateActsExplainedHolds == Spec => []LateActsExplained
<1>1. Init => CredentialInv /\ LateActsExplained
  BY DEF Init, Fresh, UnderWay, CredentialInv, LateActsExplained
<1>2. IInv /\ (CredentialInv /\ LateActsExplained) /\ [Next]_vars
        => (CredentialInv /\ LateActsExplained)'
  <2> SUFFICES ASSUME IInv, CredentialInv, LateActsExplained, [Next]_vars
               PROVE  CredentialInv' /\ LateActsExplained'
    OBVIOUS
  <2>1. CASE UNCHANGED vars
    BY <2>1 DEF vars, CredentialInv, LateActsExplained, UnderWay, NoLongerGood
  <2>2. QED
    BY <2>1, AuthenticateCredential, HandleCredential, TickCredential DEF Next
<1>3. QED
  BY <1>1, <1>2, Invariance, PTL DEF Spec

=============================================================================
