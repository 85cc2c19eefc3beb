----------------------------- MODULE Operations -----------------------------
(***************************************************************************)
(* The life cycle of an operation (a deploy or a rollback): the API and    *)
(* webhook handlers that create and decide it, the transactions of the     *)
(* PostgreSQL store, and the workers of the replicas that claim it, drive  *)
(* the cluster and record the outcome.                                     *)
(*                                                                         *)
(* One committed transaction, or one statement outside a transaction, is   *)
(* one step.  Claiming takes two steps, because the row lock it holds      *)
(* (FOR UPDATE SKIP LOCKED) is visible to the other claimers in between.   *)
(* The cluster is abstract here: rollouts[o] counts the updates of the     *)
(* Deployment made for operation o, and the outcome of a rollout is        *)
(* chosen freely.  Module Rollout opens that box.                          *)
(*                                                                         *)
(* Not represented, since no step of the code ever reads them:             *)
(* operations.claimed_by, claimed_at, attempts and the comment of an       *)
(* approval.  operations.next_attempt_at keeps the zero time it is         *)
(* inserted with, so a queued row is always due.                           *)
(***************************************************************************)
EXTENDS Domain, Naturals, FiniteSets

CONSTANTS
    Ops,               \* identifiers operations may get
    Users,
    Principals,        \* authenticated callers: sessions, chat users, tokens
    Applications,
    Environments,
    Keys,              \* idempotency keys
    Workers,           \* one worker per replica
    ApplicationOf,     \* the application of each environment
    ApprovalRequired,  \* the environments whose approval_required is set
    UserOf,            \* the user of each principal; NoUser for a token
    PermissionsOf,     \* the permissions of each principal
    NoUser, NoOp, NoRequest,
    MaxFaults          \* bound: worker stops and database errors explored

Permission == [action : Actions, application : Applications]

Requests == [kind : Kinds, environment : Environments, requester : Users,
             key : Keys, chat : BOOLEAN]

ASSUME ConstantsAssumption ==
    /\ ApplicationOf \in [Environments -> Applications]
    /\ ApprovalRequired \subseteq Environments
    /\ UserOf \in [Principals -> Users \cup {NoUser}]
    /\ PermissionsOf \in [Principals -> SUBSET Permission]
    /\ NoUser \notin Users
    /\ NoOp \notin Ops
    /\ NoRequest \notin Requests
    /\ MaxFaults \in Nat

VARIABLES
    status,     \* operations.status, "none" while the row does not exist
    request,    \* the columns of the row that never change after the insert
    older,      \* operations.created_at, as the rows with an earlier one
    approvals,  \* rows of the approvals table
    unlogged,   \* created operations whose handler has yet to append the event
    events,     \* rows of operation_events, as <<operation, kind or status>>
    outbox,     \* outbox rows enqueued for each operation
    rollouts,   \* Deployment updates made for each operation
    worker,     \* what each worker is doing, and with which operation
    faults      \* worker stops and database errors so far

vars == <<status, request, older, approvals, unlogged, events, outbox,
          rollouts, worker, faults>>

rowVars == <<request, older>>
logVars == <<unlogged, events>>

(***************************************************************************)
(* State predicates                                                        *)
(***************************************************************************)
Created == {o \in Ops : status[o] # "none"}

\* A worker between the lock of its claim and the end of runOne.
Holding(w) == worker[w].pc \in {"claiming", "executing", "waiting", "settling"}

Queued == {o \in Ops : status[o] = "queued"}

\* Rows locked by a claim that has not committed.
Locked == {worker[w].op : w \in {v \in Workers : worker[v].pc = "claiming"}}

\* Operations whose handler is done with them and whose creation is in no event.
Unannounced == {o \in Created \ unlogged : <<o, "created">> \notin events}

\* Operations marked running that no worker is working on any more.
Stranded ==
    {o \in Ops : status[o] = "running" /\ \A w \in Workers : worker[w].op # o}

\* passed is a history, which no step reads: the older queued rows that were there
\* when the worker chose its own.
Idle == [pc |-> "idle", op |-> NoOp, outcome |-> "none", passed |-> {}]
Down == [pc |-> "down", op |-> NoOp, outcome |-> "none", passed |-> {}]

Init ==
    /\ status = [o \in Ops |-> "none"]
    /\ request = [o \in Ops |-> NoRequest]
    /\ older = [o \in Ops |-> {}]
    /\ approvals = {}
    /\ unlogged = {}
    /\ events = {}
    /\ outbox = [o \in Ops |-> 0]
    /\ rollouts = [o \in Ops |-> 0]
    /\ worker = [w \in Workers |-> Idle]
    /\ faults = 0

(***************************************************************************)
(* Handlers                                                                *)
(***************************************************************************)

\* A session or chat principal acts as its own user; a token names the user it
\* acts for in the body of the request.
ActsAs(p, u) == u \in Users /\ UserOf[p] \in {u, NoUser}

\* CreateEnvironment sets approval_required on production; CreateOperation follows it.
InitialStatus(e) == IF e \in ApprovalRequired THEN "pending_approval" ELSE "queued"

\* created_at is the clock of the process that inserts, read before the insert commits.
\* Clocks differ and commits come in any order: a new row comes after some of the rows
\* there are, and before the others.
Stamp(o, before) ==
    /\ \A other \in before : older[other] \subseteq before
    /\ older' = [other \in Ops |->
                    CASE other = o -> before
                      [] other \in Created \ before -> older[other] \cup {o}
                      [] OTHER -> older[other]]

\* requestOperation and the deploy and rollback commands: the caller may act on the
\* application, the idempotency key is new, and the row starts in the status that
\* the environment calls for.  A deploy whose image lacks the environment's prefix
\* is refused before any of this.
RequestOperation(p, o, r) ==
    /\ ActsAs(p, r.requester)
    /\ r.chat => UserOf[p] # NoUser
    /\ Allows(PermissionsOf[p], r.kind, ApplicationOf[r.environment])
    /\ status[o] = "none"
    /\ \A other \in Created : request[other].key # r.key
    /\ status' = [status EXCEPT ![o] = InitialStatus(r.environment)]
    /\ request' = [request EXCEPT ![o] = r]
    /\ \E before \in SUBSET Created : Stamp(o, before)
    /\ unlogged' = unlogged \cup {o}
    /\ UNCHANGED <<approvals, events, outbox, rollouts, worker, faults>>

\* The creating handler appends operation.created outside the insert ...
AppendCreated(o) ==
    /\ o \in unlogged
    /\ unlogged' = unlogged \ {o}
    /\ events' = events \cup {<<o, "created">>}
    /\ UNCHANGED <<status, rowVars, approvals, outbox, rollouts, worker, faults>>

\* ... and drops the error when that fails; the same happens when its process stops.
LoseCreated(o) ==
    /\ o \in unlogged
    /\ faults < MaxFaults
    /\ faults' = faults + 1
    /\ unlogged' = unlogged \ {o}
    /\ UNCHANGED <<status, rowVars, approvals, events, outbox, rollouts, worker>>

\* Mutant: four-eyes forgotten.
SelfApprovalUnchecked(o, approver) == FALSE

SelfApproval(o, approver) == request[o].requester = approver

\* Mutant: the decision is stored but not looked at again.
DecidedStatusIgnored(decision) == "queued"

DecidedStatus(decision) == IF decision = "approved" THEN "queued" ELSE "rejected"

\* The check of the handler, before the transaction.
MayDecide(p, o, approver) ==
    /\ ActsAs(p, approver)
    /\ Allows(PermissionsOf[p], "approve", ApplicationOf[request[o].environment])

\* The transaction of Approve, behind the permission check of the handler.  An
\* approved row goes on to queued before the transaction commits.
Decide(p, o, approver, decision) ==
    /\ o \in Created
    /\ MayDecide(p, o, approver)
    /\ ~SelfApproval(o, approver)
    /\ CanTransitionTo(status[o], decision)
    /\ \A a \in approvals : a.operation # o
    /\ approvals' = approvals
           \cup {[operation |-> o, approver |-> approver, decision |-> decision]}
    /\ status' = [status EXCEPT ![o] = DecidedStatus(decision)]
    /\ UNCHANGED <<rowVars, logVars, outbox, rollouts, worker, faults>>

Handle ==
    \/ \E p \in Principals, o \in Ops, r \in Requests : RequestOperation(p, o, r)
    \/ \E o \in Ops : AppendCreated(o) \/ LoseCreated(o)
    \/ \E p \in Principals, o \in Ops, approver \in Users, decision \in Decisions :
           Decide(p, o, approver, decision)

(***************************************************************************)
(* Workers: one pass of runOne                                             *)
(***************************************************************************)
\* Mutants: no SKIP LOCKED; running rows reclaimed; one running row blocks the queue.
ClaimableUnlocked == Queued
ClaimableAgain == {o \in Ops : status[o] \in {"queued", "running"}} \ Locked
ClaimableUnlessBusy ==
    {o \in Queued : \A other \in Ops : status[other] # "running"} \ Locked

Claimable == Queued \ Locked

\* Mutant: no ORDER BY.
OldestIgnored(o) == TRUE

Oldest(o) == older[o] \cap Claimable = {}

\* SELECT ... ORDER BY created_at FOR UPDATE SKIP LOCKED LIMIT 1
SelectQueued(w, o) ==
    /\ worker[w].pc = "idle"
    /\ o \in Claimable
    /\ Oldest(o)
    /\ worker' = [worker EXCEPT ![w] = [@ EXCEPT !.pc = "claiming", !.op = o,
                                                 !.passed = older[o] \cap Queued]]
    /\ UNCHANGED <<status, rowVars, approvals, logVars, outbox, rollouts, faults>>

CommitClaim(w) ==
    /\ worker[w].pc = "claiming"
    /\ status' = [status EXCEPT ![worker[w].op] = "running"]
    /\ worker' = [worker EXCEPT ![w].pc = "executing"]
    /\ UNCHANGED <<rowVars, approvals, logVars, outbox, rollouts, faults>>

\* The claim's transaction fails: the lock goes and the row is as it was.
AbortClaim(w) ==
    /\ worker[w].pc = "claiming"
    /\ faults < MaxFaults
    /\ faults' = faults + 1
    /\ worker' = [worker EXCEPT ![w] = Idle]
    /\ UNCHANGED <<status, rowVars, approvals, logVars, outbox, rollouts>>

\* The claim commits but the worker sees an error, as when the connection breaks on
\* COMMIT: runOne returns and nobody executes the row that is now running.
LoseClaim(w) ==
    /\ worker[w].pc = "claiming"
    /\ faults < MaxFaults
    /\ faults' = faults + 1
    /\ status' = [status EXCEPT ![worker[w].op] = "running"]
    /\ worker' = [worker EXCEPT ![w] = Idle]
    /\ UNCHANGED <<rowVars, approvals, logVars, outbox, rollouts>>

\* Deploy or Rollback gets its Update accepted and starts to wait ...
UpdateDeployment(w) ==
    /\ worker[w].pc = "executing"
    /\ rollouts' = [rollouts EXCEPT ![worker[w].op] = @ + 1]
    /\ worker' = [worker EXCEPT ![w].pc = "waiting"]
    /\ UNCHANGED <<status, rowVars, approvals, logVars, outbox, faults>>

\* Mutants: the error is shadowed and lost; the failure is logged but not recorded.
FailUpdateShadowed(w) ==
    /\ worker[w].pc = "executing"
    /\ worker' = [worker EXCEPT ![w] = [@ EXCEPT !.pc = "settling", !.outcome = "succeeded"]]
    /\ UNCHANGED <<status, rowVars, approvals, logVars, outbox, rollouts, faults>>
FailUpdateUnrecorded(w) ==
    /\ worker[w].pc = "executing"
    /\ worker' = [worker EXCEPT ![w] = Idle]
    /\ UNCHANGED <<status, rowVars, approvals, logVars, outbox, rollouts, faults>>

\* ... or fails first: no environment, cluster or container, conflicts, a revision
\* that is not there.
FailUpdate(w) ==
    /\ worker[w].pc = "executing"
    /\ worker' = [worker EXCEPT ![w] = [@ EXCEPT !.pc = "settling", !.outcome = "failed"]]
    /\ UNCHANGED <<status, rowVars, approvals, logVars, outbox, rollouts, faults>>

\* The wait ends: the Deployment became ready, a read failed or the timeout fired.
EndWait(w) ==
    /\ worker[w].pc = "waiting"
    /\ \E outcome \in Outcomes :
           worker' = [worker EXCEPT ![w] = [@ EXCEPT !.pc = "settling", !.outcome = outcome]]
    /\ UNCHANGED <<status, rowVars, approvals, logVars, outbox, rollouts, faults>>

\* TransitionOperation: a legal transition, and the row still has the status it leaves.
TransitionAllowed(o, from, to) == CanTransitionTo(from, to) /\ status[o] = from

\* One transaction: the conditional status update, the status event and, when the
\* operation came from a chat, the outbox row.
Settle(w) ==
    LET o == worker[w].op
        outcome == worker[w].outcome
    IN  /\ worker[w].pc = "settling"
        /\ TransitionAllowed(o, "running", outcome)
        /\ status' = [status EXCEPT ![o] = outcome]
        /\ events' = events \cup {<<o, outcome>>}
        /\ outbox' = IF request[o].chat THEN [outbox EXCEPT ![o] = @ + 1] ELSE outbox
        /\ worker' = [worker EXCEPT ![w] = Idle]
        /\ UNCHANGED <<rowVars, approvals, unlogged, rollouts, faults>>

\* Mutant: the notification is enqueued outside the transaction.
SettleFailsNotified(w) ==
    /\ worker[w].pc = "settling"
    /\ faults < MaxFaults
    /\ faults' = faults + 1
    /\ outbox' = [outbox EXCEPT ![worker[w].op] = @ + 1]
    /\ worker' = [worker EXCEPT ![w] = Idle]
    /\ UNCHANGED <<status, rowVars, approvals, logVars, rollouts>>

\* That transaction fails: it rolls back whole, the error is logged and runOne ends.
SettleFails(w) ==
    /\ worker[w].pc = "settling"
    /\ faults < MaxFaults
    /\ faults' = faults + 1
    /\ worker' = [worker EXCEPT ![w] = Idle]
    /\ UNCHANGED <<status, rowVars, approvals, logVars, outbox, rollouts>>

\* The process ends, by a crash or by SIGTERM: run cancels the worker's context and
\* returns without waiting for it, so a claim rolls back and an execution can no
\* longer record its outcome.
Stop(w) ==
    /\ worker[w].pc # "down"
    /\ faults < MaxFaults
    /\ faults' = faults + 1
    /\ worker' = [worker EXCEPT ![w] = Down]
    /\ UNCHANGED <<status, rowVars, approvals, logVars, outbox, rollouts>>

\* A new process: Run starts from its ticker and never looks at running rows.
Restart(w) ==
    /\ worker[w].pc = "down"
    /\ worker' = [worker EXCEPT ![w] = Idle]
    /\ UNCHANGED <<status, rowVars, approvals, logVars, outbox, rollouts, faults>>

WorkerStep(w) ==
    \/ \E o \in Ops : SelectQueued(w, o)
    \/ CommitClaim(w)
    \/ UpdateDeployment(w)
    \/ FailUpdate(w)
    \/ EndWait(w)
    \/ Settle(w)

Next ==
    \/ Handle
    \/ \E w \in Workers :
           \/ WorkerStep(w)
           \/ AbortClaim(w) \/ LoseClaim(w) \/ SettleFails(w)
           \/ Stop(w) \/ Restart(w)

Spec == Init /\ [][Next]_vars

\* Run's ticker keeps firing, every cluster call ends (wait has a deadline), and the
\* Kubernetes Deployment of the service restarts a replica that stopped.  Nobody has
\* to request or to decide anything, and no fault has to happen.
Fairness == \A w \in Workers : WF_vars(WorkerStep(w)) /\ WF_vars(Restart(w))

FairSpec == Spec /\ Fairness

(***************************************************************************)
(* Properties                                                              *)
(***************************************************************************)
WorkerState ==
    [pc : {"idle", "claiming", "executing", "waiting", "settling", "down"},
     op : Ops \cup {NoOp}, outcome : Outcomes \cup {"none"}, passed : SUBSET Ops]

Approval == [operation : Ops, approver : Users, decision : Decisions]

\* The statuses a committed row can show: approved is passed through inside the
\* transaction of Approve, and no code writes expired.
StoredStatuses == Statuses \ {"approved", "expired"}

\* Types of the tables and of the workers' local state (models.go, worker.go).
TypeOK ==
    /\ status \in [Ops -> StoredStatuses \cup {"none"}]
    /\ request \in [Ops -> Requests \cup {NoRequest}]
    /\ older \in [Ops -> SUBSET Ops]
    /\ approvals \subseteq Approval
    /\ unlogged \subseteq Ops
    /\ events \subseteq Ops \X ({"created"} \cup Outcomes)
    /\ outbox \in [Ops -> Nat]
    /\ rollouts \in [Ops -> Nat]
    /\ worker \in [Workers -> WorkerState]
    /\ faults \in 0..MaxFaults

Released == {"queued", "running", "succeeded", "failed"}

ApprovedByAnother(o) ==
    \E a \in approvals : /\ a.operation = o
                         /\ a.decision = "approved"
                         /\ a.approver # request[o].requester

\* An operation on an environment that requires approval is queued, run or finished,
\* and its Deployment updated, only with the approval of somebody other than the
\* requester, whatever handlers and workers race (store.go:417-462).
FourEyes ==
    \A o \in Created :
        (request[o].environment \in ApprovalRequired
            /\ (status[o] \in Released \/ rollouts[o] > 0)) => ApprovedByAnother(o)

\* However many workers poll, and whichever of them stop, an operation updates its
\* Deployment at most once and only while it runs or after (worker.go:42-62).
RolledOutAtMostOnce ==
    \A o \in Ops : /\ rollouts[o] <= 1
                   /\ rollouts[o] = 1 => status[o] \in {"running"} \cup Outcomes

\* No two workers work on one operation: the lock, then the status, of the row keep
\* them apart (store.go:449-459).
OneOwner ==
    \A v, w \in Workers : (Holding(v) /\ Holding(w) /\ v # w) => worker[v].op # worker[w].op

\* An operation is decided at most once, and the decision that was recorded is the
\* one its status followed (store.go:417-445).
OneDecision ==
    /\ \A a, b \in approvals : a.operation = b.operation => a = b
    /\ \A a \in approvals :
           IF a.decision = "approved" THEN status[a.operation] \in Released
                                      ELSE status[a.operation] = "rejected"
    /\ \A o \in Created : status[o] = "rejected" =>
           \E a \in approvals : a.operation = o /\ a.decision = "rejected"

\* The final status, its event and its notification appear together or not at all:
\* one event, and one outbox row exactly if a chat asked (store.go:403-416).
OutcomeIsPublished ==
    \A o \in Created :
        /\ \A outcome \in Outcomes : <<o, outcome>> \in events <=> status[o] = outcome
        /\ outbox[o] = IF status[o] \in Outcomes /\ request[o].chat THEN 1 ELSE 0

\* An operation is reported as succeeded only if its own update of the Deployment
\* was accepted (worker.go:48-61).
SuccessIsReal == \A o \in Ops : status[o] = "succeeded" => rollouts[o] = 1

\* Every running operation that nobody works on any more, and every creation that no
\* event tells of, is accounted for by a fault of its own: a database error, or a stop
\* counted once for the worker and once for each handler it cuts off
\* (store.go:359, worker.go:64-73, main.go:126-149).
LossesByFaultsOnly == Cardinality(Stranded) + Cardinality(Unannounced) <= faults

\* Without faults, nobody works on an operation in preference to an older one that was
\* queued by then, unless that one is being claimed or was claimed as well: an operation
\* waits only behind older ones, and behind those chosen before it could be seen, queued
\* or unlocked (store.go:449: ORDER BY created_at, SKIP LOCKED).
ClaimsInOrder ==
    faults = 0 =>
        \A w \in Workers : \A first \in worker[w].passed : first \in Queued => first \in Locked

\* Every queued operation is claimed and gets its final status, although workers crash
\* and restart and others are queued beside it, unless a fault stranded it
\* (worker.go:29-73).
QueuedSettles ==
    \A o \in Ops : status[o] = "queued" ~> (status[o] \in Outcomes \/ o \in Stranded)

(***************************************************************************)
(* A claim of the documents that the code does not keep                    *)
(***************************************************************************)

\* 2026-07-28-chatops-deploy-design.md:171: an application environment has at most
\* one running change at a time.
OneRunningPerEnvironment ==
    \A o, other \in Created :
        (/\ status[o] = "running" /\ status[other] = "running"
         /\ request[o].environment = request[other].environment) => o = other

(***************************************************************************)
(* Refinement                                                              *)
(***************************************************************************)
PhaseOf(s) ==
    CASE s = "none" -> "absent"
      [] s = "pending_approval" -> "proposed"
      [] s = "queued" -> "authorised"
      [] s = "rejected" -> "refused"
      [] s = "running" -> "started"
      [] OTHER -> "ended"

phase == [o \in Ops |-> PhaseOf(status[o])]

proposer == [o \in Ops |-> IF status[o] = "none" THEN NoUser ELSE request[o].requester]

gated == {o \in Created : request[o].environment \in ApprovalRequired}

consent ==
    [o \in Ops |->
        {u \in Users : \E a \in approvals :
             a.operation = o /\ a.approver = u /\ a.decision = "approved"}]

Control ==
    INSTANCE ChangeControl WITH
        Changes <- Ops, People <- Users, Nobody <- NoUser, effects <- rollouts

\* The life cycle, with its database, its workers and their faults, keeps the
\* promises of ChangeControl.
ImplementsChangeControl == Control!Spec

=============================================================================
