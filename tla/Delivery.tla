------------------------------ MODULE Delivery ------------------------------
(***************************************************************************)
(* From a request to the message about its outcome: the outbox together    *)
(* with the operations whose notifications it holds, as one replica        *)
(* composes them.  The worker of a replica is one goroutine that takes     *)
(* turns: runOne, which may wait for a rollout, then                       *)
(* dispatchNotifications, which may wait for sends.  The transaction that  *)
(* settles an operation inserts the outbox row, and a stop of the process  *)
(* ends both.                                                              *)
(*                                                                         *)
(* subject[r] is the payload of row r: whom it is about, and its text.     *)
(***************************************************************************)
EXTENDS Outbox

CONSTANTS
    Ops, Users, Principals, Applications, Environments, Keys, ApplicationOf,
    ApprovalRequired, UserOf, PermissionsOf, NoUser, NoOp, NoRequest

VARIABLES
    status, request, older, approvals, unlogged, events, outbox, rollouts, worker,
    turn,       \* which of its two functions the worker of each replica is in
    subject     \* the operation and the outcome each row tells of

\* The workers and the faults of both are the same.
Life == INSTANCE Operations

ASSUME LifeAssumption == Life!ConstantsAssumption

postVars == <<row, due, pc, batch, elapsed, deliveries, lapsed, faulted>>
lifeVars == <<status, request, older, approvals, unlogged, events, outbox, rollouts, worker>>
deliveryVars == <<lifeVars, postVars, faults, turn, subject>>

Nothing == [operation |-> NoOp, outcome |-> "none"]

DeliveryInit ==
    /\ Life!Init
    /\ Init
    /\ turn = [w \in Workers |-> "runOne"]
    /\ subject = [r \in Rows |-> Nothing]

Goes(w, function) == turn' = [turn EXCEPT ![w] = function]

(***************************************************************************)
(* Handlers                                                                *)
(***************************************************************************)
Handle ==
    /\ Life!Handle
    /\ UNCHANGED <<postVars, turn, subject>>

(***************************************************************************)
(* runOne                                                                  *)
(***************************************************************************)
\* Mutant: runOne is called in a goroutine of its own.
RunOneBeside(w) ==
    /\ \/ \E o \in Ops : Life!SelectQueued(w, o)
       \/ Life!CommitClaim(w)
       \/ Life!UpdateDeployment(w) \/ Life!FailUpdate(w) \/ Life!EndWait(w)
    /\ UNCHANGED <<postVars, turn, subject>>

\* The claim and the rollout.
RunOne(w) ==
    /\ turn[w] = "runOne"
    /\ \/ \E o \in Ops : Life!SelectQueued(w, o)
       \/ Life!CommitClaim(w)
       \/ Life!UpdateDeployment(w) \/ Life!FailUpdate(w) \/ Life!EndWait(w)
    /\ UNCHANGED <<postVars, turn, subject>>

\* Mutant: Run goes back to its ticker when there is nothing to claim.
FindNothingAndWait(w) ==
    /\ turn[w] = "runOne"
    /\ worker[w].pc = "idle"
    /\ Life!Claimable = {}
    /\ UNCHANGED <<lifeVars, postVars, faults, turn, subject>>

\* Nothing to claim: runOne returns at once.
FindNothing(w) ==
    /\ turn[w] = "runOne"
    /\ worker[w].pc = "idle"
    /\ Life!Claimable = {}
    /\ Goes(w, "dispatch")
    /\ UNCHANGED <<lifeVars, postVars, faults, subject>>

\* runOne returns after a fault, with nothing sent to anybody.
RunOneFails(w) ==
    /\ turn[w] = "runOne"
    /\ Life!AbortClaim(w) \/ Life!LoseClaim(w) \/ Life!SettleFails(w)
    /\ Goes(w, "dispatch")
    /\ UNCHANGED <<postVars, subject>>

\* Mutant: the same text whatever the outcome.
TextOfSuccess(w) == "succeeded"

\* The text is made from the outcome before the transaction that records it.
Text(w) == worker[w].outcome

\* transitionWithNotification: status, event and outbox row in one transaction.
Settle(w) ==
    LET o == worker[w].op
    IN  /\ turn[w] = "runOne"
        /\ Life!Settle(w)
        /\ IF request[o].chat
           THEN \E r \in Rows :
                    /\ EnqueueNotification(r)
                    /\ subject' = [subject EXCEPT
                                     ![r] = [operation |-> o, outcome |-> Text(w)]]
           ELSE UNCHANGED <<row, due, pc, batch, elapsed, deliveries,
                            faulted, subject>>
        /\ Observe
        /\ Goes(w, "dispatch")

(***************************************************************************)
(* dispatchNotifications                                                   *)
(***************************************************************************)
\* The last row of its batch sends a worker back to its ticker.
Dispatching(w) ==
    /\ turn[w] = "dispatch"
    /\ Observe
    /\ Goes(w, IF pc'[w] = "idle" THEN "runOne" ELSE "dispatch")
    /\ UNCHANGED <<lifeVars, subject>>

Dispatch(w) ==
    /\ \/ ClaimOutbox(w) \/ BeginSend(w) \/ Refuse(w)
       \/ MarkOutboxSent(w) \/ MarkOutboxFailed(w)
    /\ Dispatching(w)

Accept(w) == Deliver(w) /\ Dispatching(w)

DispatchFails(w) == (LoseAnswer(w) \/ LoseMark(w)) /\ Dispatching(w)

\* Nothing is due: dispatchNotifications returns at once.
NothingDue(w) ==
    /\ turn[w] = "dispatch"
    /\ pc[w] = "idle"
    /\ DueRows = {}
    /\ Goes(w, "runOne")
    /\ UNCHANGED <<lifeVars, postVars, faults, subject>>

(***************************************************************************)
(* The process and time                                                    *)
(***************************************************************************)
StopReplica(w) ==
    /\ Life!Stop(w)
    /\ Stop(w)
    /\ Observe
    /\ UNCHANGED <<turn, subject>>

RestartReplica(w) ==
    /\ Life!Restart(w)
    /\ Restart(w)
    /\ Observe
    /\ Goes(w, "runOne")
    /\ UNCHANGED subject

TimePasses ==
    /\ Tick
    /\ Observe
    /\ UNCHANGED <<lifeVars, turn, subject>>

\* One step of the loop of Run.
Work(w) ==
    RunOne(w) \/ FindNothing(w) \/ Settle(w) \/ Dispatch(w) \/ Accept(w) \/ NothingDue(w)

DeliveryNext ==
    \/ Handle
    \/ \E w \in Workers :
           Work(w) \/ RunOneFails(w) \/ DispatchFails(w) \/ StopReplica(w) \/ RestartReplica(w)
    \/ TimePasses

DeliverySpec == DeliveryInit /\ [][DeliveryNext]_deliveryVars

\* The loop of Run goes on, a stopped replica is restarted and time passes.  A provider
\* that is asked again and again accepts some time.
DeliveryFairness ==
    /\ WF_deliveryVars(TimePasses)
    /\ \A w \in Workers :
           /\ WF_deliveryVars(Work(w))
           /\ WF_deliveryVars(RestartReplica(w))
           /\ SF_deliveryVars(Accept(w))

FairDelivery == DeliverySpec /\ DeliveryFairness

(***************************************************************************)
(* Properties                                                              *)
(***************************************************************************)

\* The two halves of a worker are one goroutine (worker.go:29-41): it is in a batch
\* only while it dispatches, so that no lease runs out behind a rollout, it holds an
\* operation only in runOne, and it is down in both or in neither.
TurnsOK ==
    /\ turn \in [Workers -> {"runOne", "dispatch"}]
    /\ subject \in [Rows -> {Nothing} \cup [operation : Ops, outcome : Life!Outcomes]]
    /\ \A r \in Rows : row[r] = "absent" <=> subject[r] = Nothing
    /\ \A w \in Workers :
           /\ worker[w].pc = "down" <=> pc[w] = "down"
           /\ batch[w] # {} => turn[w] = "dispatch"
           /\ Life!Holding(w) => turn[w] = "runOne"

\* The operations whose chat the platform has told something, and what.
Heard(o) == {subject[r].outcome : r \in {s \in Rows : subject[s].operation = o /\ deliveries[s] > 0}}

\* Unless a fault stranded it, a queued operation that a chat asked for ends with a
\* message about it, whichever replica runs it, whichever sends, whatever stops in
\* between and however often the platform refuses, as long as no row is one that can
\* never be sent (worker.go:29-100).
ReportedInTheEnd ==
    \A o \in Ops :
        (Rows = Registered /\ status[o] = "queued" /\ request[o].chat)
            ~> (Heard(o) # {} \/ o \in Life!Stranded)

asked == {o \in Life!Created : request[o].chat}

recorded == [o \in Ops |-> IF status[o] \in Life!Outcomes THEN status[o] ELSE "none"]

heard == [o \in Ops |-> Heard(o)]

Report ==
    INSTANCE Reporting WITH Changes <- Ops, Outcomes <- Life!Outcomes, Unknown <- "none"

\* Operations and Outbox together keep the promises of Reporting: no message without,
\* before or against the recorded outcome (worker.go:64-73, store.go:403-416).
ImplementsReporting == Report!Spec

=============================================================================
