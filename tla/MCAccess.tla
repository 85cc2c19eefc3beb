------------------------------ MODULE MCAccess ------------------------------
(***************************************************************************)
(* Ann is an administrator, Bob has no role.  Two tokens, one session and  *)
(* one chat subject, Ann's in the older column and anybody's in the table; *)
(* an operator may be granted deploy or admin.  The server runs in         *)
(* development mode, which adds to what it does otherwise.                 *)
(***************************************************************************)
EXTENDS Access, TLC

CONSTANTS ann, bob, operator, app, subject

MCInitialRoles == (ann :> {admin}) @@ (bob :> {})

MCOpenID == (ann :> subject) @@ (bob :> NoSubject)

MCGrantable == {[action |-> a, application |-> app] : a \in {"deploy", "admin"}}

Symmetry == Permutations(Calls)

=============================================================================
