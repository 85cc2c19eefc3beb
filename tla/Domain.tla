------------------------------- MODULE Domain -------------------------------
(***************************************************************************)
(* The pure vocabulary of the control plane (internal/domain/models.go):   *)
(* actions and permissions, the kinds and statuses of an operation, and    *)
(* the table of legal status transitions.  Every other module reads these  *)
(* definitions; none of them has state.                                    *)
(***************************************************************************)

Actions == {"view", "deploy", "rollback", "approve", "admin"}

Kinds == {"deploy", "rollback"}

Decisions == {"approved", "rejected"}

Statuses == {"pending_approval", "approved", "rejected", "expired",
             "queued", "running", "succeeded", "failed"}

\* Mutant: a queued operation may still be rejected.
legalTransitionsLateReject ==
    ({"pending_approval"} \X {"approved", "rejected", "expired"})
        \cup {<<"approved", "queued">>, <<"queued", "running">>, <<"queued", "rejected">>}
        \cup ({"running"} \X {"succeeded", "failed"})

legalTransitions ==
    ({"pending_approval"} \X {"approved", "rejected", "expired"})
        \cup {<<"approved", "queued">>, <<"queued", "running">>}
        \cup ({"running"} \X {"succeeded", "failed"})

CanTransitionTo(from, to) == <<from, to>> \in legalTransitions

\* The statuses a worker reports for an execution.
Outcomes == {"succeeded", "failed"}

(***************************************************************************)
(* Role-based access.  A permission names an action and an application, or *)
(* no application at all; only the admin action needs none.                *)
(***************************************************************************)
PermissionAllows(permission, action, app) ==
    \/ permission.action = "admin"
    \/ permission.action = action /\ permission.application = app

Allows(permissions, action, app) ==
    \E permission \in permissions : PermissionAllows(permission, action, app)

=============================================================================
