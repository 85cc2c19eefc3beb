------------------------------ MODULE MCRollout ------------------------------
(***************************************************************************)
(* A Deployment at revision 2, a job that deploys a third template, and a  *)
(* job that rolls back to revision 1.                                      *)
(***************************************************************************)
EXTENDS Rollout, TLC

CONSTANTS first, second, third, deploy, back

MCGoalOf == deploy :> third

NoGoals == [j \in {} |-> third]

MCRevisionOf == [j \in Jobs \ {deploy} |-> 1]

MCHistory == (first :> 1) @@ (second :> 2) @@ (third :> 0)

=============================================================================
