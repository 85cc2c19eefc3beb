----------------------------- MODULE MCDelivery -----------------------------
(***************************************************************************)
(* One operation on production: Alice asks for it from her chat, Bob       *)
(* approves it from the console, and two replicas execute and report it.   *)
(* Its one outbox row goes to a platform that is registered.               *)
(***************************************************************************)
EXTENDS Delivery, TLC

CONSTANTS alice, bob, aliceChat, bobSession, app, production

MCApplicationOf == [e \in Environments |-> app]

MCUserOf == [p \in Principals |-> IF p = aliceChat THEN alice ELSE bob]

MCPermissionsOf ==
    [p \in Principals |->
        {[action |-> IF p = aliceChat THEN "deploy" ELSE "approve", application |-> app]}]

MCSkew == [w \in Workers |-> 0]

=============================================================================
