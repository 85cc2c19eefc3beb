---------------------------- MODULE MCOperations ----------------------------
(***************************************************************************)
(* Operations on one application with a production and a staging           *)
(* environment.  Alice may deploy and approve, Bob may only approve, and a *)
(* token may approve in the name of whoever it gives.                      *)
(***************************************************************************)
EXTENDS Operations, TLC

CONSTANTS alice, bob, aliceSession, bobChat, approverToken, app, production, staging

MCApplicationOf == [e \in Environments |-> app]

MCUserOf ==
    [p \in Principals |->
        CASE p = aliceSession -> alice [] p = bobChat -> bob [] OTHER -> NoUser]

Grant(actions) == {[action |-> a, application |-> app] : a \in actions}

MCPermissionsOf ==
    [p \in Principals |->
        IF p = aliceSession THEN Grant({"deploy", "approve"}) ELSE Grant({"approve"})]

Symmetry == Permutations(Ops) \cup Permutations(Workers) \cup Permutations(Keys)

=============================================================================
