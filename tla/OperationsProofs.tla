-------------------------- MODULE OperationsProofs --------------------------
(***************************************************************************)
(* Proofs about Operations, for every set of operations, users,            *)
(* environments and workers, and every number of faults.                   *)
(*                                                                         *)
(* The inductive invariant adds to the types what a worker knows about the *)
(* row it works on, that two workers never work on the same row, and what  *)
(* each status says of the updates made so far and of the approvals.  Then *)
(* come the refinement, what the tables say of each other, how many rows   *)
(* faults have left behind, in which order rows are claimed, and all of it *)
(* as one invariant, which a larger system may rely on.                    *)
(***************************************************************************)
EXTENDS Operations, FiniteSetTheorems, TLAPS

\* A worker's program counter agrees with the row it holds.
HolderInv ==
    \A w \in Workers :
        /\ Holding(w) => worker[w].op \in Ops
        /\ ~Holding(w) => worker[w].op = NoOp
        /\ worker[w].pc = "claiming" => status[worker[w].op] = "queued"
        /\ worker[w].pc \in {"executing", "waiting", "settling"} =>
               status[worker[w].op] = "running"
        /\ worker[w].pc = "executing" => rollouts[worker[w].op] = 0
        /\ worker[w].pc = "waiting" => rollouts[worker[w].op] = 1
        /\ worker[w].pc = "settling" =>
               /\ worker[w].outcome \in Outcomes
               /\ worker[w].outcome = "succeeded" => rollouts[worker[w].op] = 1

CreatedInv == \A o \in Created : request[o] \in Requests

IInv ==
    /\ TypeOK
    /\ CreatedInv
    /\ HolderInv
    /\ OneOwner
    /\ RolledOutAtMostOnce
    /\ SuccessIsReal
    /\ FourEyes

-----------------------------------------------------------------------------
(***************************************************************************)
(* The steps.  Each lemma takes one handler or one step of a worker.       *)
(***************************************************************************)

\* The empty tables and the idle workers satisfy the invariant.
LEMMA InitIInv == Init => IInv
<1> SUFFICES ASSUME Init PROVE IInv
  OBVIOUS
<1> USE ConstantsAssumption DEF Init, Idle
<1>1. TypeOK
  BY DEF TypeOK, WorkerState, StoredStatuses, Statuses
<1>2. CreatedInv /\ FourEyes
  BY DEF CreatedInv, FourEyes, Created
<1>3. HolderInv /\ OneOwner
  BY DEF HolderInv, OneOwner, Holding
<1>4. RolledOutAtMostOnce /\ SuccessIsReal
  BY DEF RolledOutAtMostOnce, SuccessIsReal
<1>5. QED
  BY <1>1, <1>2, <1>3, <1>4 DEF IInv

\* Creating an operation fills an unused row and disturbs no other.
LEMMA RequestStep ==
    ASSUME IInv,
           NEW p \in Principals, NEW o \in Ops, NEW r \in Requests,
           RequestOperation(p, o, r)
    PROVE  IInv'
<1> USE ConstantsAssumption DEF RequestOperation, IInv
<1>1. InitialStatus(r.environment) \in {"pending_approval", "queued"}
  BY DEF InitialStatus
<1>2. /\ status' = [status EXCEPT ![o] = InitialStatus(r.environment)]
      /\ status \in [Ops -> StoredStatuses \cup {"none"}]
      /\ status[o] = "none"
  BY DEF TypeOK
<1>3. TypeOK'
  <2>1. PICK before \in SUBSET Created : Stamp(o, before)
    OBVIOUS
  <2>2. older' \in [Ops -> SUBSET Ops]
    BY <2>1 DEF Stamp, Created, TypeOK
  <2>3. QED
    BY <1>1, <2>2 DEF TypeOK, StoredStatuses, Statuses
<1>4. CreatedInv'
  BY <1>2 DEF CreatedInv, Created, TypeOK
<1>5. HolderInv'
  BY <1>2 DEF HolderInv, Holding, TypeOK
<1>6. OneOwner'
  BY DEF OneOwner, Holding
<1>7. RolledOutAtMostOnce' /\ SuccessIsReal'
  BY <1>1, <1>2 DEF RolledOutAtMostOnce, SuccessIsReal, Outcomes, TypeOK
<1>8. FourEyes'
  <2> SUFFICES ASSUME NEW other \in Created',
                      request'[other].environment \in ApprovalRequired,
                      status'[other] \in Released \/ rollouts'[other] > 0
               PROVE  ApprovedByAnother(other)'
    BY DEF FourEyes
  <2>1. CASE other = o
    <3>1. status'[o] = "pending_approval"
      BY <1>2, <2>1 DEF InitialStatus, TypeOK
    <3>2. rollouts[o] \in Nat /\ rollouts[o] <= 1 /\ rollouts[o] # 1
      BY <1>2 DEF TypeOK, RolledOutAtMostOnce, Outcomes
    <3>3. rollouts'[o] = 0
      BY <3>2
    <3>4. QED
      BY <2>1, <3>1, <3>3 DEF Released
  <2>2. CASE other # o
    BY <1>2, <2>2 DEF FourEyes, Created, ApprovedByAnother, TypeOK
  <2>3. QED
    BY <2>1, <2>2
<1>9. QED
  BY <1>3, <1>4, <1>5, <1>6, <1>7, <1>8

\* The event of a created operation is appended or lost: no row of the other tables
\* moves.
LEMMA LogStep ==
    ASSUME IInv, NEW o \in Ops, AppendCreated(o) \/ LoseCreated(o)
    PROVE  IInv'
<1> USE DEF AppendCreated, LoseCreated, rowVars, IInv
<1>1. TypeOK'
  <2>1. faults' \in 0..MaxFaults
    BY ConstantsAssumption DEF TypeOK
  <2>2. unlogged' \subseteq Ops /\ events' \subseteq Ops \X ({"created"} \cup Outcomes)
    BY DEF TypeOK
  <2>3. QED
    BY <2>1, <2>2 DEF TypeOK
<1>2. (CreatedInv /\ HolderInv /\ OneOwner)'
  BY DEF CreatedInv, Created, HolderInv, OneOwner, Holding
<1>3. (RolledOutAtMostOnce /\ SuccessIsReal)'
  BY DEF RolledOutAtMostOnce, SuccessIsReal
<1>4. FourEyes'
  BY DEF FourEyes, Created, ApprovedByAnother
<1>5. QED
  BY <1>1, <1>2, <1>3, <1>4

\* A decision moves a pending row only, and an approval is by another user.
LEMMA DecideStep ==
    ASSUME IInv,
           NEW p \in Principals, NEW o \in Ops, NEW approver \in Users,
           NEW decision \in Decisions,
           Decide(p, o, approver, decision)
    PROVE  IInv'
<1> DEFINE row == [operation |-> o, approver |-> approver, decision |-> decision]
           next == IF decision = "approved" THEN "queued" ELSE "rejected"
<1> USE ConstantsAssumption DEF IInv
<1>1. /\ status' = [status EXCEPT ![o] = next]
      /\ approvals' = approvals \cup {row}
      /\ request[o].requester # approver
      /\ UNCHANGED <<request, older, unlogged, events, outbox, rollouts, worker, faults>>
  BY DEF Decide, SelfApproval, DecidedStatus, rowVars, logVars
<1>2. status[o] = "pending_approval"
  BY DEF Decide, CanTransitionTo, legalTransitions, Decisions
<1>3. status \in [Ops -> StoredStatuses \cup {"none"}]
  BY DEF TypeOK
<1>4. TypeOK'
  BY <1>1 DEF TypeOK, Approval, StoredStatuses, Statuses
<1>5. CreatedInv'
  BY <1>1, <1>2, <1>3 DEF CreatedInv, Created
<1>6. HolderInv' /\ OneOwner'
  BY <1>1, <1>2, <1>3 DEF HolderInv, OneOwner, Holding
<1>7. RolledOutAtMostOnce' /\ SuccessIsReal'
  BY <1>1, <1>2, <1>3 DEF RolledOutAtMostOnce, SuccessIsReal, Outcomes, TypeOK
<1>8. FourEyes'
  <2> SUFFICES ASSUME NEW other \in Created',
                      request'[other].environment \in ApprovalRequired,
                      status'[other] \in Released \/ rollouts'[other] > 0
               PROVE  ApprovedByAnother(other)'
    BY DEF FourEyes
  <2>1. CASE other = o
    <3>1. rollouts'[o] = 0
      BY <1>1, <1>2 DEF TypeOK, RolledOutAtMostOnce, Outcomes
    <3>2. decision = "approved"
      BY <1>1, <1>3, <2>1, <3>1 DEF Released
    <3>3. row \in approvals' /\ row.operation = o /\ row.decision = "approved"
      BY <1>1, <3>2
    <3>4. row.approver # request'[o].requester
      BY <1>1
    <3>5. QED
      BY <2>1, <3>3, <3>4 DEF ApprovedByAnother
  <2>2. CASE other # o
    <3>1. ApprovedByAnother(other)
      BY <1>1, <1>3, <2>2 DEF FourEyes, Created
    <3>2. QED
      BY <1>1, <3>1 DEF ApprovedByAnother
  <2>3. QED
    BY <2>1, <2>2
<1>9. QED
  BY <1>4, <1>5, <1>6, <1>7, <1>8

-----------------------------------------------------------------------------

\* Selecting takes a queued row nobody else has locked, and rows a worker holds
\* beyond its claim are running.
LEMMA SelectStep ==
    ASSUME IInv, NEW w \in Workers, NEW o \in Ops, SelectQueued(w, o)
    PROVE  IInv'
<1> USE DEF IInv
<1>1. /\ worker[w].pc = "idle"
      /\ status[o] = "queued"
      /\ o \notin Locked
      /\ worker' = [worker EXCEPT ![w] = [@ EXCEPT !.pc = "claiming", !.op = o,
                                                   !.passed = older[o] \cap Queued]]
      /\ UNCHANGED <<status, request, older, approvals, unlogged, events, outbox,
                     rollouts, faults>>
  BY DEF SelectQueued, Claimable, Queued, rowVars, logVars
<1>2. worker \in [Workers -> WorkerState]
  BY DEF TypeOK
<1>3. /\ worker'[w].pc = "claiming" /\ worker'[w].op = o
      /\ \A v \in Workers \ {w} : worker'[v] = worker[v]
  BY <1>1, <1>2 DEF WorkerState
<1>4. TypeOK'
  BY <1>1 DEF TypeOK, WorkerState
<1>5. (CreatedInv /\ RolledOutAtMostOnce /\ SuccessIsReal /\ FourEyes)'
  BY <1>1 DEF CreatedInv, RolledOutAtMostOnce, SuccessIsReal, FourEyes, Created,
              ApprovedByAnother
<1>6. HolderInv'
  BY <1>1, <1>3 DEF HolderInv, Holding
<1>7. \A v \in Workers : Holding(v) => worker[v].op # o
  BY <1>1 DEF HolderInv, Holding, Locked
<1>8. OneOwner'
  BY <1>3, <1>7 DEF OneOwner, Holding
<1>9. QED
  BY <1>4, <1>5, <1>6, <1>8

\* The claim commits, whether or not the worker learns of it.
LEMMA ClaimStep ==
    ASSUME IInv, NEW w \in Workers, CommitClaim(w) \/ LoseClaim(w)
    PROVE  IInv'
<1> DEFINE o == worker[w].op
<1> USE ConstantsAssumption DEF IInv
<1>1. /\ worker[w].pc = "claiming"
      /\ status' = [status EXCEPT ![o] = "running"]
      /\ UNCHANGED <<request, older, approvals, unlogged, events, outbox, rollouts>>
  BY DEF CommitClaim, LoseClaim, rowVars, logVars
<1>2. o \in Ops /\ status[o] = "queued"
  BY <1>1 DEF HolderInv, Holding
<1>3. rollouts[o] = 0
  BY <1>2 DEF RolledOutAtMostOnce, TypeOK, Outcomes
<1>4. status \in [Ops -> StoredStatuses \cup {"none"}] /\ worker \in [Workers -> WorkerState]
  BY DEF TypeOK
<1>5. TypeOK'
  <2>1. worker' \in [Workers -> WorkerState]
    BY <1>4 DEF CommitClaim, LoseClaim, Idle, WorkerState
  <2>2. faults' \in 0..MaxFaults
    BY DEF CommitClaim, LoseClaim, TypeOK
  <2>3. status' \in [Ops -> StoredStatuses \cup {"none"}]
    BY <1>1, <1>4 DEF StoredStatuses, Statuses
  <2>4. QED
    BY <1>1, <2>1, <2>2, <2>3 DEF TypeOK
<1>6. /\ \A v \in Workers \ {w} : worker'[v] = worker[v]
      /\ \/ worker'[w].pc = "executing" /\ worker'[w].op = o
         \/ worker'[w].pc = "idle" /\ worker'[w].op = NoOp
  BY <1>4 DEF CommitClaim, LoseClaim, Idle, WorkerState
<1>7. \A v \in Workers \ {w} : Holding(v) => worker[v].op # o
  BY <1>1 DEF OneOwner, Holding
<1>8. HolderInv'
  <2> SUFFICES ASSUME NEW v \in Workers
               PROVE  HolderInv!(v)'
    BY DEF HolderInv
  <2>1. CASE v = w
    BY <1>1, <1>2, <1>3, <1>4, <1>6, <2>1 DEF Holding
  <2>2. CASE v # w
    BY <1>1, <1>2, <1>4, <1>6, <1>7, <2>2 DEF Holding, HolderInv
  <2>3. QED
    BY <2>1, <2>2
<1>9. OneOwner'
  BY <1>1, <1>6 DEF OneOwner, Holding
<1>10. (CreatedInv /\ RolledOutAtMostOnce /\ SuccessIsReal)'
  BY <1>1, <1>2, <1>3, <1>4 DEF CreatedInv, Created, RolledOutAtMostOnce, SuccessIsReal, TypeOK
<1>11. FourEyes'
  BY <1>1, <1>2, <1>4 DEF FourEyes, Created, Released, ApprovedByAnother
<1>12. QED
  BY <1>5, <1>8, <1>9, <1>10, <1>11

\* The rollout proceeds, up to the outcome that the worker will record.
LEMMA RolloutStep ==
    ASSUME IInv, NEW w \in Workers, UpdateDeployment(w) \/ FailUpdate(w) \/ EndWait(w)
    PROVE  IInv'
<1> DEFINE o == worker[w].op
<1> USE ConstantsAssumption DEF IInv
<1>1. /\ worker[w].pc \in {"executing", "waiting"}
      /\ UNCHANGED <<status, request, older, approvals, unlogged, events, outbox, faults>>
  BY DEF UpdateDeployment, FailUpdate, EndWait, rowVars, logVars
<1>2. o \in Ops /\ status[o] = "running"
  BY <1>1 DEF HolderInv, Holding
<1>3. /\ worker \in [Workers -> WorkerState]
      /\ rollouts \in [Ops -> Nat]
      /\ status \in [Ops -> StoredStatuses \cup {"none"}]
  BY DEF TypeOK
<1>4. /\ worker' \in [Workers -> WorkerState]
      /\ worker'[w].op = o
      /\ \A v \in Workers \ {w} : worker'[v] = worker[v]
      /\ \/ /\ worker[w].pc = "executing" /\ worker'[w].pc = "waiting"
            /\ rollouts' = [rollouts EXCEPT ![o] = @ + 1]
         \/ /\ worker[w].pc = "executing" /\ worker'[w].pc = "settling"
            /\ worker'[w].outcome = "failed"
            /\ rollouts' = rollouts
         \/ /\ worker[w].pc = "waiting" /\ worker'[w].pc = "settling"
            /\ worker'[w].outcome \in Outcomes
            /\ rollouts' = rollouts
  <2>1. worker[w] \in WorkerState
    BY <1>3
  <2>2. CASE UpdateDeployment(w)
    <3>1. worker' = [worker EXCEPT ![w] = [worker[w] EXCEPT !.pc = "waiting"]]
      BY <2>2 DEF UpdateDeployment
    <3>2. [worker[w] EXCEPT !.pc = "waiting"] \in WorkerState
      BY <2>1 DEF WorkerState
    <3>3. QED
      BY <1>3, <2>1, <2>2, <3>1, <3>2 DEF UpdateDeployment, WorkerState
  <2>3. CASE FailUpdate(w)
    <3>1. worker' = [worker EXCEPT ![w] =
                        [worker[w] EXCEPT !.pc = "settling", !.outcome = "failed"]]
      BY <2>3 DEF FailUpdate
    <3>2. [worker[w] EXCEPT !.pc = "settling", !.outcome = "failed"] \in WorkerState
      BY <2>1 DEF WorkerState, Outcomes
    <3>3. QED
      BY <1>3, <2>1, <2>3, <3>1, <3>2 DEF FailUpdate, WorkerState
  <2>4. CASE EndWait(w)
    <3>1. PICK outcome \in Outcomes :
              worker' = [worker EXCEPT ![w] =
                            [worker[w] EXCEPT !.pc = "settling", !.outcome = outcome]]
      BY <2>4 DEF EndWait
    <3>2. [worker[w] EXCEPT !.pc = "settling", !.outcome = outcome] \in WorkerState
      BY <2>1 DEF WorkerState
    <3>3. QED
      BY <1>3, <2>1, <2>4, <3>1, <3>2 DEF EndWait, WorkerState
  <2>5. QED
    BY <2>2, <2>3, <2>4
<1>5. /\ rollouts[o] \in {0, 1}
      /\ rollouts' \in [Ops -> Nat]
      /\ rollouts'[o] <= 1
      /\ \A other \in Ops \ {o} : rollouts'[other] = rollouts[other]
  <2>1. worker[w].pc = "executing" => rollouts[o] = 0
    BY DEF HolderInv
  <2>2. worker[w].pc = "waiting" => rollouts[o] = 1
    BY DEF HolderInv
  <2>3. QED
    BY <1>1, <1>2, <1>3, <1>4, <2>1, <2>2
<1>6. TypeOK'
  BY <1>1, <1>4, <1>5 DEF TypeOK
<1>7. \A v \in Workers \ {w} : Holding(v) => worker[v].op # o
  BY <1>1 DEF OneOwner, Holding
<1>8. HolderInv'
  <2> SUFFICES ASSUME NEW v \in Workers
               PROVE  HolderInv!(v)'
    BY DEF HolderInv
  <2>1. CASE v = w
    <3>1. worker'[w].pc = "waiting" => rollouts'[o] = 1
      BY <1>2, <1>3, <1>4 DEF HolderInv
    <3>2. worker'[w].pc = "settling" =>
              /\ worker'[w].outcome \in Outcomes
              /\ worker'[w].outcome = "succeeded" => rollouts'[o] = 1
      BY <1>4 DEF HolderInv, Outcomes
    <3>3. QED
      BY <1>1, <1>2, <1>4, <2>1, <3>1, <3>2 DEF Holding
  <2>2. CASE v # w
    BY <1>1, <1>4, <1>5, <1>7, <2>2 DEF Holding, HolderInv
  <2>3. QED
    BY <2>1, <2>2
<1>9. OneOwner'
  BY <1>1, <1>4 DEF OneOwner, Holding
<1>10. (RolledOutAtMostOnce /\ SuccessIsReal)'
  BY <1>1, <1>2, <1>5 DEF RolledOutAtMostOnce, SuccessIsReal
<1>11. CreatedInv'
  BY <1>1 DEF CreatedInv, Created
<1>12. FourEyes'
  BY <1>1, <1>2, <1>5 DEF FourEyes, Created, Released, ApprovedByAnother
<1>13. QED
  BY <1>6, <1>8, <1>9, <1>10, <1>11, <1>12

\* The outcome is recorded in the row the worker holds.
LEMMA SettleStep ==
    ASSUME IInv, NEW w \in Workers, Settle(w)
    PROVE  IInv'
<1> DEFINE o == worker[w].op
           outcome == worker[w].outcome
<1> USE ConstantsAssumption DEF IInv
<1>1. /\ worker[w].pc = "settling"
      /\ status' = [status EXCEPT ![o] = outcome]
      /\ events' = events \cup {<<o, outcome>>}
      /\ outbox' = IF request[o].chat THEN [outbox EXCEPT ![o] = @ + 1] ELSE outbox
      /\ worker' = [worker EXCEPT ![w] = Idle]
      /\ UNCHANGED <<request, older, approvals, unlogged, rollouts, faults>>
  BY DEF Settle, rowVars
<1>2. /\ o \in Ops
      /\ status[o] = "running"
      /\ outcome \in Outcomes
      /\ outcome = "succeeded" => rollouts[o] = 1
  BY <1>1 DEF HolderInv, Holding
<1>3. status \in [Ops -> StoredStatuses \cup {"none"}] /\ worker \in [Workers -> WorkerState]
  BY DEF TypeOK
<1>4. TypeOK'
  <2>1. status' \in [Ops -> StoredStatuses \cup {"none"}]
    BY <1>1, <1>2, <1>3 DEF StoredStatuses, Statuses, Outcomes
  <2>2. worker' \in [Workers -> WorkerState]
    BY <1>1, <1>3 DEF Idle, WorkerState
  <2>3. outbox' \in [Ops -> Nat]
    BY <1>1, <1>2 DEF TypeOK
  <2>4. events' \subseteq Ops \X ({"created"} \cup Outcomes)
    BY <1>1, <1>2 DEF TypeOK
  <2>5. QED
    BY <1>1, <2>1, <2>2, <2>3, <2>4 DEF TypeOK
<1>5. /\ \A v \in Workers \ {w} : worker'[v] = worker[v]
      /\ worker'[w].pc = "idle" /\ worker'[w].op = NoOp
  BY <1>1, <1>3 DEF Idle
<1>6. \A v \in Workers \ {w} : Holding(v) => worker[v].op # o
  BY <1>1 DEF OneOwner, Holding
<1>7. HolderInv'
  BY <1>1, <1>2, <1>3, <1>5, <1>6 DEF HolderInv, Holding
<1>8. OneOwner'
  BY <1>5 DEF OneOwner, Holding
<1>9. (CreatedInv /\ RolledOutAtMostOnce /\ SuccessIsReal)'
  BY <1>1, <1>2, <1>3 DEF CreatedInv, Created, RolledOutAtMostOnce, SuccessIsReal, Outcomes
<1>10. FourEyes'
  BY <1>1, <1>2, <1>3 DEF FourEyes, Created, Released, ApprovedByAnother
<1>11. QED
  BY <1>4, <1>7, <1>8, <1>9, <1>10

\* A worker lets go of its row, or starts again, without touching any table.
LEMMA FaultStep ==
    ASSUME IInv, NEW w \in Workers,
           AbortClaim(w) \/ SettleFails(w) \/ Stop(w) \/ Restart(w)
    PROVE  IInv'
<1> USE ConstantsAssumption DEF IInv
<1>1. UNCHANGED <<status, request, older, approvals, unlogged, events, outbox, rollouts>>
  BY DEF AbortClaim, SettleFails, Stop, Restart, rowVars, logVars
<1>2. worker' = [worker EXCEPT ![w] = Idle] \/ worker' = [worker EXCEPT ![w] = Down]
  BY DEF AbortClaim, SettleFails, Stop, Restart
<1>3. faults' \in 0..MaxFaults
  BY DEF AbortClaim, SettleFails, Stop, Restart, TypeOK
<1>4. worker \in [Workers -> WorkerState]
  BY DEF TypeOK
<1>5. worker' \in [Workers -> WorkerState]
  BY <1>2, <1>4 DEF Idle, Down, WorkerState
<1>6. /\ \A v \in Workers \ {w} : worker'[v] = worker[v]
      /\ worker'[w].pc \in {"idle", "down"} /\ worker'[w].op = NoOp
  BY <1>2, <1>4 DEF Idle, Down
<1>7. TypeOK'
  BY <1>1, <1>3, <1>5 DEF TypeOK
<1>8. HolderInv'
  BY <1>1, <1>6 DEF HolderInv, Holding
<1>9. OneOwner'
  BY <1>6 DEF OneOwner, Holding
<1>10. (CreatedInv /\ RolledOutAtMostOnce /\ SuccessIsReal)'
  BY <1>1 DEF CreatedInv, Created, RolledOutAtMostOnce, SuccessIsReal
<1>11. FourEyes'
  BY <1>1 DEF FourEyes, Created, ApprovedByAnother
<1>12. QED
  BY <1>7, <1>8, <1>9, <1>10, <1>11

\* A step that changes nothing keeps the invariant.
LEMMA StutterStep == IInv /\ UNCHANGED vars => IInv'
<1> SUFFICES ASSUME IInv, UNCHANGED vars PROVE IInv'
  OBVIOUS
<1> USE DEF vars, IInv
<1>1. (TypeOK /\ CreatedInv /\ HolderInv /\ OneOwner)'
  BY DEF TypeOK, CreatedInv, Created, HolderInv, OneOwner, Holding
<1>2. (RolledOutAtMostOnce /\ SuccessIsReal /\ FourEyes)'
  BY DEF RolledOutAtMostOnce, SuccessIsReal, FourEyes, Created, ApprovedByAnother
<1>3. QED
  BY <1>1, <1>2

-----------------------------------------------------------------------------
(***************************************************************************)
(* Invariance                                                              *)
(***************************************************************************)
LEMMA NextIInv == IInv /\ [Next]_vars => IInv'
<1> SUFFICES ASSUME IInv, [Next]_vars PROVE IInv'
  OBVIOUS
<1>1. CASE \E p \in Principals, o \in Ops, r \in Requests : RequestOperation(p, o, r)
  BY <1>1, RequestStep
<1>2. CASE \E o \in Ops : AppendCreated(o) \/ LoseCreated(o)
  BY <1>2, LogStep
<1>3. CASE \E p \in Principals, o \in Ops, approver \in Users, decision \in Decisions :
               Decide(p, o, approver, decision)
  BY <1>3, DecideStep
<1>4. CASE \E w \in Workers, o \in Ops : SelectQueued(w, o)
  BY <1>4, SelectStep
<1>5. CASE \E w \in Workers : CommitClaim(w) \/ LoseClaim(w)
  BY <1>5, ClaimStep
<1>6. CASE \E w \in Workers : UpdateDeployment(w) \/ FailUpdate(w) \/ EndWait(w)
  BY <1>6, RolloutStep
<1>7. CASE \E w \in Workers : Settle(w)
  BY <1>7, SettleStep
<1>8. CASE \E w \in Workers : AbortClaim(w) \/ SettleFails(w) \/ Stop(w) \/ Restart(w)
  BY <1>8, FaultStep
<1>9. CASE UNCHANGED vars
  BY <1>9, StutterStep
<1>10. QED
  BY <1>1, <1>2, <1>3, <1>4, <1>5, <1>6, <1>7, <1>8, <1>9 DEF Next, Handle, WorkerStep

\* Every reachable state satisfies the inductive invariant.
THEOREM Invariance == Spec => []IInv
<1>1. Init => IInv
  BY InitIInv
<1>2. IInv /\ [Next]_vars => IInv'
  BY NextIInv
<1>3. QED
  BY <1>1, <1>2, PTL DEF Spec

\* The tables and the workers' local state always have their types.
THEOREM TypeCorrect == Spec => []TypeOK
<1>1. IInv => TypeOK
  BY DEF IInv
<1>2. QED
  BY <1>1, Invariance, PTL

\* A gated operation is never released or rolled out without the approval of
\* somebody other than its requester.
THEOREM FourEyesHolds == Spec => []FourEyes
<1>1. IInv => FourEyes
  BY DEF IInv
<1>2. QED
  BY <1>1, Invariance, PTL

\* Two workers never work on the same operation.
THEOREM OneOwnerHolds == Spec => []OneOwner
<1>1. IInv => OneOwner
  BY DEF IInv
<1>2. QED
  BY <1>1, Invariance, PTL

\* No operation updates its Deployment twice, or before it runs.
THEOREM RolledOutAtMostOnceHolds == Spec => []RolledOutAtMostOnce
<1>1. IInv => RolledOutAtMostOnce
  BY DEF IInv
<1>2. QED
  BY <1>1, Invariance, PTL

\* An operation reported as succeeded has updated its Deployment.
THEOREM SuccessIsRealHolds == Spec => []SuccessIsReal
<1>1. IInv => SuccessIsReal
  BY DEF IInv
<1>2. QED
  BY <1>1, Invariance, PTL

-----------------------------------------------------------------------------
(***************************************************************************)
(* Refinement: every step of Operations is a step of ChangeControl or      *)
(* leaves the mapped state alone.                                          *)
(***************************************************************************)
LEMMA InitControl == Init => Control!Init
  BY DEF Init, Control!Init, phase, proposer, gated, consent, PhaseOf, Created

\* A row that appears is proposed by its requester, with or without a gate.
LEMMA RequestControl ==
    ASSUME IInv,
           NEW p \in Principals, NEW o \in Ops, NEW r \in Requests,
           RequestOperation(p, o, r)
    PROVE  Control!Propose(o, r.requester)
<1>1. /\ status[o] = "none"
      /\ status' = [status EXCEPT ![o] = InitialStatus(r.environment)]
      /\ request' = [request EXCEPT ![o] = r]
      /\ UNCHANGED <<approvals, rollouts>>
      /\ status \in [Ops -> StoredStatuses \cup {"none"}]
      /\ request \in [Ops -> Requests \cup {NoRequest}]
  BY DEF RequestOperation, IInv, TypeOK
<1>2. phase[o] = "absent"
  BY <1>1 DEF phase, PhaseOf
<1>3. proposer' = [proposer EXCEPT ![o] = r.requester]
  BY <1>1 DEF proposer, InitialStatus
<1>4. UNCHANGED <<consent, rollouts>>
  BY <1>1 DEF consent
<1>5. CASE r.environment \in ApprovalRequired
  <2>1. phase' = [phase EXCEPT ![o] = "proposed"]
    BY <1>1, <1>5 DEF phase, PhaseOf, InitialStatus
  <2>2. gated' = gated \cup {o}
    BY <1>1, <1>5 DEF gated, Created, InitialStatus
  <2>3. QED
    BY <1>2, <1>3, <1>4, <2>1, <2>2 DEF Control!Propose
<1>6. CASE r.environment \notin ApprovalRequired
  <2>1. phase' = [phase EXCEPT ![o] = "authorised"]
    BY <1>1, <1>6 DEF phase, PhaseOf, InitialStatus
  <2>2. gated' = gated
    BY <1>1, <1>6 DEF gated, Created, InitialStatus
  <2>3. QED
    BY <1>2, <1>3, <1>4, <2>1, <2>2 DEF Control!Propose
<1>7. QED
  BY <1>5, <1>6

\* A decision authorises or refuses, by somebody other than the proposer.
LEMMA DecideControl ==
    ASSUME IInv,
           NEW p \in Principals, NEW o \in Ops, NEW approver \in Users,
           NEW decision \in Decisions,
           Decide(p, o, approver, decision)
    PROVE  Control!Authorise(o, approver) \/ Control!Refuse(o, approver)
<1> DEFINE row == [operation |-> o, approver |-> approver, decision |-> decision]
<1>1. /\ status' = [status EXCEPT ![o] = IF decision = "approved" THEN "queued"
                                                              ELSE "rejected"]
      /\ approvals' = approvals \cup {row}
      /\ request[o].requester # approver
      /\ UNCHANGED <<request, rollouts>>
      /\ status \in [Ops -> StoredStatuses \cup {"none"}]
  BY DEF Decide, SelfApproval, DecidedStatus, IInv, TypeOK, rowVars
<1>2. status[o] = "pending_approval"
  BY DEF Decide, CanTransitionTo, legalTransitions, Decisions
<1>3. phase[o] = "proposed" /\ approver # proposer[o]
  BY <1>1, <1>2 DEF phase, PhaseOf, proposer
<1>4. proposer' = proposer /\ gated' = gated
  BY <1>1, <1>2 DEF proposer, gated, Created
<1>5. CASE decision = "approved"
  <2>1. phase' = [phase EXCEPT ![o] = "authorised"]
    BY <1>1, <1>5 DEF phase, PhaseOf
  <2>2. consent' = [consent EXCEPT ![o] = @ \cup {approver}]
    <3> DEFINE Consents(q, rows) ==
            {u \in Users : \E a \in rows :
                 a.operation = q /\ a.approver = u /\ a.decision = "approved"}
    <3>1. consent = [q \in Ops |-> Consents(q, approvals)]
      BY DEF consent
    <3>2. consent' = [q \in Ops |-> Consents(q, approvals')]
      BY DEF consent
    <3>3. Consents(o, approvals') = Consents(o, approvals) \cup {approver}
      <4>1. row.operation = o /\ row.approver = approver /\ row.decision = "approved"
        BY <1>5
      <4>2. approver \in Consents(o, approvals')
        BY <1>1, <4>1
      <4>3. ASSUME NEW u \in Consents(o, approvals'), u # approver
            PROVE  u \in Consents(o, approvals)
        BY <1>1, <4>1, <4>3
      <4>4. Consents(o, approvals) \subseteq Consents(o, approvals')
        BY <1>1
      <4>5. QED
        BY <4>2, <4>3, <4>4
    <3>4. \A q \in Ops \ {o} : Consents(q, approvals') = Consents(q, approvals)
      BY <1>1
    <3> HIDE DEF Consents
    <3>5. QED
      BY <3>1, <3>2, <3>3, <3>4
  <2>3. QED
    BY <1>1, <1>3, <1>4, <2>1, <2>2 DEF Control!Authorise
<1>6. CASE decision = "rejected"
  <2>1. phase' = [phase EXCEPT ![o] = "refused"]
    BY <1>1, <1>6 DEF phase, PhaseOf
  <2>2. consent' = consent
    BY <1>1, <1>6 DEF consent
  <2>3. QED
    BY <1>1, <1>3, <1>4, <2>1, <2>2 DEF Control!Refuse
<1>7. QED
  BY <1>5, <1>6 DEF Decisions

\* A claim that commits starts the change.
LEMMA ClaimControl ==
    ASSUME IInv, NEW w \in Workers, CommitClaim(w) \/ LoseClaim(w)
    PROVE  Control!Start(worker[w].op)
<1> DEFINE o == worker[w].op
<1>1. /\ status' = [status EXCEPT ![o] = "running"]
      /\ UNCHANGED <<request, approvals, rollouts>>
      /\ status \in [Ops -> StoredStatuses \cup {"none"}]
  BY DEF CommitClaim, LoseClaim, IInv, TypeOK, rowVars
<1>2. o \in Ops /\ status[o] = "queued"
  BY DEF CommitClaim, LoseClaim, IInv, HolderInv, Holding
<1>3. phase[o] = "authorised" /\ phase' = [phase EXCEPT ![o] = "started"]
  BY <1>1, <1>2 DEF phase, PhaseOf
<1>4. UNCHANGED <<proposer, gated, consent>>
  BY <1>1, <1>2 DEF proposer, gated, consent, Created
<1>5. QED
  BY <1>1, <1>3, <1>4 DEF Control!Start

\* The update of the Deployment is the effect of a started change.
LEMMA UpdateControl ==
    ASSUME IInv, NEW w \in Workers, UpdateDeployment(w)
    PROVE  Control!TakeEffect(worker[w].op)
<1> DEFINE o == worker[w].op
<1>1. /\ rollouts' = [rollouts EXCEPT ![o] = @ + 1]
      /\ UNCHANGED <<status, request, approvals>>
      /\ rollouts \in [Ops -> Nat]
  BY DEF UpdateDeployment, IInv, TypeOK, rowVars
<1>2. o \in Ops /\ status[o] = "running" /\ rollouts[o] = 0
  BY DEF UpdateDeployment, IInv, HolderInv, Holding
<1>3. phase[o] = "started" /\ rollouts' = [rollouts EXCEPT ![o] = 1]
  BY <1>1, <1>2 DEF phase, PhaseOf
<1>4. UNCHANGED <<phase, proposer, gated, consent>>
  BY <1>1 DEF phase, proposer, gated, consent, Created
<1>5. QED
  BY <1>2, <1>3, <1>4 DEF Control!TakeEffect

\* Recording the outcome ends the change.
LEMMA SettleControl ==
    ASSUME IInv, NEW w \in Workers, Settle(w)
    PROVE  Control!End(worker[w].op)
<1> DEFINE o == worker[w].op
           outcome == worker[w].outcome
<1>1. /\ status' = [status EXCEPT ![o] = outcome]
      /\ UNCHANGED <<request, approvals, rollouts>>
      /\ status \in [Ops -> StoredStatuses \cup {"none"}]
  BY DEF Settle, IInv, TypeOK, rowVars
<1>2. o \in Ops /\ status[o] = "running" /\ outcome \in Outcomes
  BY DEF Settle, IInv, HolderInv, Holding
<1>3. phase[o] = "started" /\ phase' = [phase EXCEPT ![o] = "ended"]
  BY <1>1, <1>2 DEF phase, PhaseOf, Outcomes
<1>4. UNCHANGED <<proposer, gated, consent>>
  BY <1>1, <1>2 DEF proposer, gated, consent, Created, Outcomes
<1>5. QED
  BY <1>1, <1>3, <1>4 DEF Control!End

\* Steps that change neither a row nor an approval nor the cluster are invisible.
LEMMA InvisibleStep ==
    UNCHANGED <<status, request, approvals, rollouts>> => UNCHANGED Control!vars
  BY DEF Control!vars, phase, proposer, gated, consent, Created

\* Every step of Operations is a step of ChangeControl, or none.
LEMMA NextControl == IInv /\ [Next]_vars => [Control!Next]_(Control!vars)
<1> SUFFICES ASSUME IInv, [Next]_vars PROVE [Control!Next]_(Control!vars)
  OBVIOUS
<1>1. CASE \E p \in Principals, o \in Ops, r \in Requests : RequestOperation(p, o, r)
  <2>1. \A r \in Requests : r.requester \in Users
    BY DEF Requests
  <2>2. QED
    BY <1>1, <2>1, RequestControl DEF Control!Next
<1>2. CASE \E p \in Principals, o \in Ops, approver \in Users, decision \in Decisions :
               Decide(p, o, approver, decision)
  BY <1>2, DecideControl DEF Control!Next
<1>3. CASE \E w \in Workers : CommitClaim(w) \/ LoseClaim(w)
  <2>1. PICK w \in Workers : CommitClaim(w) \/ LoseClaim(w)
    BY <1>3
  <2>2. worker[w].op \in Ops
    BY <2>1 DEF CommitClaim, LoseClaim, IInv, HolderInv, Holding
  <2>3. QED
    BY <2>1, <2>2, ClaimControl DEF Control!Next
<1>4. CASE \E w \in Workers : UpdateDeployment(w)
  <2>1. PICK w \in Workers : UpdateDeployment(w)
    BY <1>4
  <2>2. worker[w].op \in Ops
    BY <2>1 DEF UpdateDeployment, IInv, HolderInv, Holding
  <2>3. QED
    BY <2>1, <2>2, UpdateControl DEF Control!Next
<1>5. CASE \E w \in Workers : Settle(w)
  <2>1. PICK w \in Workers : Settle(w)
    BY <1>5
  <2>2. worker[w].op \in Ops
    BY <2>1 DEF Settle, IInv, HolderInv, Holding
  <2>3. QED
    BY <2>1, <2>2, SettleControl DEF Control!Next
<1>6. CASE \E o \in Ops : AppendCreated(o) \/ LoseCreated(o)
  BY <1>6, InvisibleStep DEF AppendCreated, LoseCreated, rowVars
<1>7. CASE \E w \in Workers :
               \/ \E o \in Ops : SelectQueued(w, o)
               \/ FailUpdate(w) \/ EndWait(w) \/ AbortClaim(w) \/ SettleFails(w)
               \/ Stop(w) \/ Restart(w)
  BY <1>7, InvisibleStep DEF SelectQueued, FailUpdate, EndWait, AbortClaim, SettleFails,
                             Stop, Restart, rowVars
<1>8. CASE UNCHANGED vars
  BY <1>8, InvisibleStep DEF vars
<1>9. QED
  BY <1>1, <1>2, <1>3, <1>4, <1>5, <1>6, <1>7, <1>8 DEF Next, Handle, WorkerStep

\* The database, the workers and their faults keep the promises of ChangeControl.
THEOREM Refinement == Spec => ImplementsChangeControl
<1>1. Init => Control!Init
  BY InitControl
<1>2. IInv /\ [Next]_vars => [Control!Next]_(Control!vars)
  BY NextControl
<1>3. QED
  BY <1>1, <1>2, Invariance, PTL DEF Spec, ImplementsChangeControl, Control!Spec

-----------------------------------------------------------------------------
(***************************************************************************)
(* Approvals and statuses, outcomes, events and notifications.             *)
(***************************************************************************)

\* A row that does not exist left no trace in the other tables.
UnusedInv ==
    \A o \in Ops : status[o] = "none" =>
        /\ \A a \in approvals : a.operation # o
        /\ \A outcome \in Outcomes : <<o, outcome>> \notin events
        /\ outbox[o] = 0

Ledger == UnusedInv /\ OneDecision /\ OutcomeIsPublished

-----------------------------------------------------------------------------

\* Nothing is owed at the start.
LEMMA InitLedger == Init => Ledger
<1> SUFFICES ASSUME Init PROVE Ledger
  OBVIOUS
<1> USE DEF Init, Created
<1>1. UnusedInv
  BY DEF UnusedInv
<1>2. OneDecision /\ OutcomeIsPublished
  BY DEF OneDecision, OutcomeIsPublished
<1>3. QED
  BY <1>1, <1>2 DEF Ledger

\* A new row starts with neither decision nor outcome.
LEMMA RequestLedger ==
    ASSUME IInv, Ledger,
           NEW p \in Principals, NEW o \in Ops, NEW r \in Requests,
           RequestOperation(p, o, r)
    PROVE  Ledger'
<1> USE DEF Ledger
<1>1. /\ status' = [status EXCEPT ![o] = InitialStatus(r.environment)]
      /\ request' = [request EXCEPT ![o] = r]
      /\ status[o] = "none"
      /\ UNCHANGED <<approvals, events, outbox>>
  BY DEF RequestOperation
<1>2. InitialStatus(r.environment) \in {"pending_approval", "queued"}
  BY DEF InitialStatus
<1>3. /\ status \in [Ops -> StoredStatuses \cup {"none"}]
      /\ request \in [Ops -> Requests \cup {NoRequest}]
      /\ approvals \subseteq Approval
  BY DEF IInv, TypeOK
<1>4. /\ status'[o] \in {"pending_approval", "queued"}
      /\ \A other \in Ops \ {o} : status'[other] = status[other]
                                  /\ request'[other] = request[other]
      /\ Created' = Created \cup {o}
      /\ o \notin Created
  BY <1>1, <1>2, <1>3 DEF Created
<1>5. UnusedInv'
  BY <1>1, <1>4 DEF UnusedInv
<1>6. OneDecision'
  <2>1. \A a \in approvals : a.operation \in Ops \ {o}
    BY <1>1, <1>3 DEF UnusedInv, Approval
  <2>2. QED
    BY <1>1, <1>4, <2>1 DEF OneDecision
<1>7. OutcomeIsPublished'
  <2> SUFFICES ASSUME NEW other \in Created'
               PROVE  OutcomeIsPublished!(other)'
    BY DEF OutcomeIsPublished
  <2>1. CASE other = o
    BY <1>1, <1>4, <2>1 DEF UnusedInv, Outcomes
  <2>2. CASE other # o
    <3>1. other \in Created
      BY <1>4, <2>2
    <3>2. OutcomeIsPublished!(other)
      BY <3>1 DEF OutcomeIsPublished
    <3>3. QED
      BY <1>1, <1>4, <2>2, <3>1, <3>2 DEF Created
  <2>3. QED
    BY <2>1, <2>2
<1>8. QED
  BY <1>5, <1>6, <1>7

\* The created event is not the event of an outcome.
LEMMA LogLedger ==
    ASSUME Ledger, NEW o \in Ops, AppendCreated(o) \/ LoseCreated(o)
    PROVE  Ledger'
<1> USE DEF Ledger
<1>1. /\ UNCHANGED <<status, request, approvals, outbox>>
      /\ events' \in {events, events \cup {<<o, "created">>}}
  BY DEF AppendCreated, LoseCreated, rowVars
<1>2. \A other \in Ops, outcome \in Outcomes :
          <<other, outcome>> \in events' <=> <<other, outcome>> \in events
  BY <1>1 DEF Outcomes
<1>3. UnusedInv' /\ OneDecision'
  BY <1>1, <1>2 DEF UnusedInv, OneDecision, Created
<1>4. OutcomeIsPublished'
  BY <1>1, <1>2 DEF OutcomeIsPublished, Created
<1>5. QED
  BY <1>3, <1>4

\* The first decision of a row is its last: it leaves pending_approval for good.
LEMMA DecideLedger ==
    ASSUME IInv, Ledger,
           NEW p \in Principals, NEW o \in Ops, NEW approver \in Users,
           NEW decision \in Decisions,
           Decide(p, o, approver, decision)
    PROVE  Ledger'
<1> DEFINE row == [operation |-> o, approver |-> approver, decision |-> decision]
           next == IF decision = "approved" THEN "queued" ELSE "rejected"
<1> USE DEF Ledger
<1>1. /\ status' = [status EXCEPT ![o] = next]
      /\ approvals' = approvals \cup {row}
      /\ \A a \in approvals : a.operation # o
      /\ UNCHANGED <<request, events, outbox>>
  BY DEF Decide, DecidedStatus, rowVars, logVars
<1>2. status[o] = "pending_approval"
  BY DEF Decide, CanTransitionTo, legalTransitions, Decisions
<1>3. status \in [Ops -> StoredStatuses \cup {"none"}] /\ approvals \subseteq Approval
  BY DEF IInv, TypeOK
<1>4. /\ status'[o] = next
      /\ \A other \in Ops \ {o} : status'[other] = status[other]
      /\ Created' = Created
  BY <1>1, <1>2, <1>3 DEF Created
<1>5. UnusedInv'
  BY <1>1, <1>4 DEF UnusedInv
<1>6. OneDecision'
  <2>1. \A a \in approvals' : a = row \/ (a \in approvals /\ a.operation \in Ops \ {o})
    BY <1>1, <1>3 DEF Approval
  <2>2. \A a, b \in approvals' : a.operation = b.operation => a = b
    BY <1>1, <2>1 DEF OneDecision
  <2>3. \A a \in approvals' :
            IF a.decision = "approved" THEN status'[a.operation] \in Released
                                       ELSE status'[a.operation] = "rejected"
    <3> SUFFICES ASSUME NEW a \in approvals'
                 PROVE  IF a.decision = "approved" THEN status'[a.operation] \in Released
                                                   ELSE status'[a.operation] = "rejected"
      OBVIOUS
    <3>1. CASE a = row
      BY <1>4, <3>1 DEF Released
    <3>2. CASE a \in approvals /\ a.operation \in Ops \ {o}
      BY <1>4, <3>2 DEF OneDecision
    <3>3. QED
      BY <2>1, <3>1, <3>2
  <2>4. ASSUME NEW other \in Created', status'[other] = "rejected"
        PROVE  \E a \in approvals' : a.operation = other /\ a.decision = "rejected"
    <3>1. CASE other = o
      <4>1. decision = "rejected"
        BY <1>4, <2>4, <3>1 DEF Decisions
      <4>2. row \in approvals' /\ row.operation = o /\ row.decision = "rejected"
        BY <1>1, <4>1
      <4>3. QED
        BY <3>1, <4>2
    <3>2. CASE other # o
      BY <1>1, <1>4, <2>4, <3>2 DEF OneDecision, Created
    <3>3. QED
      BY <3>1, <3>2
  <2>5. QED
    BY <2>2, <2>3, <2>4 DEF OneDecision
<1>7. OutcomeIsPublished'
  <2>1. next \notin Outcomes /\ status[o] \notin Outcomes /\ o \in Created
    BY <1>2 DEF Outcomes, Created
  <2>2. QED
    BY <1>1, <1>4, <2>1 DEF OutcomeIsPublished, Created
<1>8. QED
  BY <1>5, <1>6, <1>7

\* The claim of an approved or unapproved row keeps it released.
LEMMA ClaimLedger ==
    ASSUME IInv, Ledger, NEW w \in Workers, CommitClaim(w) \/ LoseClaim(w)
    PROVE  Ledger'
<1> DEFINE o == worker[w].op
<1> USE DEF Ledger
<1>1. /\ worker[w].pc = "claiming"
      /\ status' = [status EXCEPT ![o] = "running"]
      /\ UNCHANGED <<request, approvals, events, outbox>>
  BY DEF CommitClaim, LoseClaim, rowVars, logVars
<1>2. o \in Ops /\ status[o] = "queued"
  BY <1>1 DEF IInv, HolderInv, Holding
<1>3. status \in [Ops -> StoredStatuses \cup {"none"}] /\ approvals \subseteq Approval
  BY DEF IInv, TypeOK
<1>4. /\ status'[o] = "running"
      /\ \A other \in Ops \ {o} : status'[other] = status[other]
      /\ Created' = Created /\ o \in Created
  BY <1>1, <1>2, <1>3 DEF Created
<1>5. UnusedInv'
  BY <1>1, <1>4 DEF UnusedInv
<1>6. OneDecision'
  <2>1. \A a \in approvals : a.operation \in Ops
    BY <1>3 DEF Approval
  <2>2. QED
    BY <1>1, <1>2, <1>4, <2>1 DEF OneDecision, Released, Created
<1>7. OutcomeIsPublished'
  BY <1>1, <1>2, <1>4 DEF OutcomeIsPublished, Created, Outcomes
<1>8. QED
  BY <1>5, <1>6, <1>7

\* Status, event and notification of an outcome are written together.
LEMMA SettleLedger ==
    ASSUME IInv, Ledger, NEW w \in Workers, Settle(w)
    PROVE  Ledger'
<1> DEFINE o == worker[w].op
           outcome == worker[w].outcome
<1> USE DEF Ledger
<1>1. /\ worker[w].pc = "settling"
      /\ status' = [status EXCEPT ![o] = outcome]
      /\ events' = events \cup {<<o, outcome>>}
      /\ outbox' = IF request[o].chat THEN [outbox EXCEPT ![o] = @ + 1] ELSE outbox
      /\ UNCHANGED <<request, approvals>>
  BY DEF Settle, rowVars
<1>2. o \in Ops /\ status[o] = "running" /\ outcome \in Outcomes
  BY <1>1 DEF IInv, HolderInv, Holding
<1>3. /\ status \in [Ops -> StoredStatuses \cup {"none"}]
      /\ approvals \subseteq Approval
      /\ outbox \in [Ops -> Nat]
  BY DEF IInv, TypeOK
<1>4. /\ status'[o] = outcome
      /\ \A other \in Ops \ {o} : status'[other] = status[other]
      /\ Created' = Created /\ o \in Created
  BY <1>1, <1>2, <1>3 DEF Created, Outcomes
<1>5. \A other \in Ops \ {o} :
          /\ outbox'[other] = outbox[other]
          /\ \A any \in Outcomes : <<other, any>> \in events' <=> <<other, any>> \in events
  BY <1>1, <1>2, <1>3
<1>6. UnusedInv'
  BY <1>1, <1>2, <1>4, <1>5 DEF UnusedInv, Outcomes
<1>7. OneDecision'
  <2>1. \A a \in approvals : a.operation \in Ops
    BY <1>3 DEF Approval
  <2>2. QED
    BY <1>1, <1>2, <1>4, <2>1 DEF OneDecision, Released, Created, Outcomes
<1>8. OutcomeIsPublished'
  <2> SUFFICES ASSUME NEW other \in Created'
               PROVE  OutcomeIsPublished!(other)'
    BY DEF OutcomeIsPublished
  <2>1. CASE other = o
    <3>1. OutcomeIsPublished!(o)
      BY <1>4 DEF OutcomeIsPublished
    <3>2. outbox[o] = 0 /\ \A any \in Outcomes : <<o, any>> \notin events
      BY <1>2, <3>1 DEF Outcomes
    <3>3. \A any \in Outcomes : <<o, any>> \in events' <=> status'[o] = any
      BY <1>1, <1>4, <3>2
    <3>4. outbox'[o] = IF status'[o] \in Outcomes /\ request'[o].chat THEN 1 ELSE 0
      BY <1>1, <1>2, <1>3, <1>4, <3>2
    <3>5. QED
      BY <2>1, <3>3, <3>4
  <2>2. CASE other # o
    <3>1. other \in Ops \ {o} /\ OutcomeIsPublished!(other)
      BY <1>4, <2>2 DEF OutcomeIsPublished, Created
    <3>2. QED
      BY <1>1, <1>4, <1>5, <3>1
  <2>3. QED
    BY <2>1, <2>2
<1>9. QED
  BY <1>6, <1>7, <1>8

\* The other steps leave these tables alone.
LEMMA FrameLedger ==
    Ledger /\ UNCHANGED <<status, request, approvals, events, outbox>> => Ledger'
<1> SUFFICES ASSUME Ledger, UNCHANGED <<status, request, approvals, events, outbox>>
             PROVE  Ledger'
  OBVIOUS
<1>1. UnusedInv' /\ OneDecision'
  BY DEF Ledger, UnusedInv, OneDecision, Created
<1>2. OutcomeIsPublished'
  BY DEF Ledger, OutcomeIsPublished, Created
<1>3. QED
  BY <1>1, <1>2 DEF Ledger

-----------------------------------------------------------------------------
\* Every step keeps the ledger.
LEMMA NextLedger == IInv /\ Ledger /\ [Next]_vars => Ledger'
<1> SUFFICES ASSUME IInv, Ledger, [Next]_vars PROVE Ledger'
  OBVIOUS
<1>1. CASE \E p \in Principals, o \in Ops, r \in Requests : RequestOperation(p, o, r)
  BY <1>1, RequestLedger
<1>2. CASE \E o \in Ops : AppendCreated(o) \/ LoseCreated(o)
  BY <1>2, LogLedger
<1>3. CASE \E p \in Principals, o \in Ops, approver \in Users, decision \in Decisions :
               Decide(p, o, approver, decision)
  BY <1>3, DecideLedger
<1>4. CASE \E w \in Workers : CommitClaim(w) \/ LoseClaim(w)
  BY <1>4, ClaimLedger
<1>5. CASE \E w \in Workers : Settle(w)
  BY <1>5, SettleLedger
<1>6. CASE \E w \in Workers :
               \/ \E o \in Ops : SelectQueued(w, o)
               \/ UpdateDeployment(w) \/ FailUpdate(w) \/ EndWait(w)
               \/ AbortClaim(w) \/ SettleFails(w) \/ Stop(w) \/ Restart(w)
  BY <1>6, FrameLedger DEF SelectQueued, UpdateDeployment, FailUpdate, EndWait,
                           AbortClaim, SettleFails, Stop, Restart, rowVars, logVars
<1>7. CASE UNCHANGED vars
  BY <1>7, FrameLedger DEF vars
<1>8. QED
  BY <1>1, <1>2, <1>3, <1>4, <1>5, <1>6, <1>7 DEF Next, Handle, WorkerStep

\* The tables agree with each other in every reachable state.
THEOREM LedgerHolds == Spec => []Ledger
<1>1. Init => Ledger
  BY InitLedger
<1>2. IInv /\ Ledger /\ [Next]_vars => Ledger'
  BY NextLedger
<1>3. QED
  BY <1>1, <1>2, Invariance, PTL DEF Spec

\* No operation is decided twice, and its status follows the decision on record.
THEOREM OneDecisionHolds == Spec => []OneDecision
<1>1. Ledger => OneDecision
  BY DEF Ledger
<1>2. QED
  BY <1>1, LedgerHolds, PTL

\* An outcome, its event and its notification appear together, each once.
THEOREM OutcomeIsPublishedHolds == Spec => []OutcomeIsPublished
<1>1. Ledger => OutcomeIsPublished
  BY DEF Ledger
<1>2. QED
  BY <1>1, LedgerHolds, PTL

-----------------------------------------------------------------------------
(***************************************************************************)
(* Losses                                                                  *)
(***************************************************************************)

\* What was lost can be counted, and is no more than the faults.
LossInv ==
    /\ IsFiniteSet(Stranded) /\ IsFiniteSet(Unannounced)
    /\ LossesByFaultsOnly

\* A set that gains at most one element grows by at most one.
LEMMA GainsOne ==
    ASSUME NEW S, IsFiniteSet(S), NEW x, NEW T, T \subseteq S \cup {x}
    PROVE  /\ IsFiniteSet(T)
           /\ Cardinality(S) \in Nat /\ Cardinality(T) \in Nat
           /\ Cardinality(T) <= Cardinality(S) + 1
<1>1. /\ IsFiniteSet(S \cup {x})
      /\ Cardinality(S) \in Nat
      /\ Cardinality(S \cup {x}) \in {Cardinality(S), Cardinality(S) + 1}
  BY FS_AddElement, FS_CardinalityType
<1>2. IsFiniteSet(T) /\ Cardinality(T) <= Cardinality(S \cup {x})
  BY <1>1, FS_Subset
<1>3. Cardinality(T) \in Nat
  BY <1>2, FS_CardinalityType
<1>4. QED
  BY <1>1, <1>2, <1>3

\* A subset has no more elements.
LEMMA GainsNone ==
    ASSUME NEW S, IsFiniteSet(S), NEW T, T \subseteq S
    PROVE  /\ IsFiniteSet(T)
           /\ Cardinality(S) \in Nat /\ Cardinality(T) \in Nat
           /\ Cardinality(T) <= Cardinality(S)
  BY FS_Subset, FS_CardinalityType

\* Nothing is lost without a fault, and no more than one row with one.
LEMMA LossCounted ==
    ASSUME TypeOK, LossInv,
           \/ /\ Stranded' \subseteq Stranded /\ Unannounced' \subseteq Unannounced
              /\ faults' \in {faults, faults + 1}
           \/ /\ faults' = faults + 1
              /\ Unannounced' \subseteq Unannounced
              /\ \E o : Stranded' \subseteq Stranded \cup {o}
           \/ /\ faults' = faults + 1
              /\ Stranded' \subseteq Stranded
              /\ \E o : Unannounced' \subseteq Unannounced \cup {o}
    PROVE  LossInv'
<1> DEFINE S == Stranded  T == Stranded'  U == Unannounced  V == Unannounced'
<1>1. IsFiniteSet(S) /\ IsFiniteSet(U) /\ Cardinality(S) + Cardinality(U) <= faults
  BY DEF LossInv, LossesByFaultsOnly
<1>2. faults \in Nat
  BY ConstantsAssumption DEF TypeOK
<1>3. SUFFICES /\ IsFiniteSet(T) /\ IsFiniteSet(V)
               /\ Cardinality(T) + Cardinality(V) <= faults'
  BY DEF LossInv, LossesByFaultsOnly
<1>4. CASE T \subseteq S /\ V \subseteq U /\ faults' \in {faults, faults + 1}
  <2> HIDE DEF S, T, U, V
  <2>1. /\ IsFiniteSet(T) /\ Cardinality(S) \in Nat /\ Cardinality(T) \in Nat
        /\ Cardinality(T) <= Cardinality(S)
    BY <1>1, <1>4, GainsNone
  <2>2. /\ IsFiniteSet(V) /\ Cardinality(U) \in Nat /\ Cardinality(V) \in Nat
        /\ Cardinality(V) <= Cardinality(U)
    BY <1>1, <1>4, GainsNone
  <2>3. QED
    BY <1>1, <1>2, <1>4, <2>1, <2>2
<1>5. CASE V \subseteq U /\ faults' = faults + 1 /\ \E o : T \subseteq S \cup {o}
  <2> HIDE DEF S, T, U, V
  <2>1. /\ IsFiniteSet(T) /\ Cardinality(S) \in Nat /\ Cardinality(T) \in Nat
        /\ Cardinality(T) <= Cardinality(S) + 1
    BY <1>1, <1>5, GainsOne
  <2>2. /\ IsFiniteSet(V) /\ Cardinality(U) \in Nat /\ Cardinality(V) \in Nat
        /\ Cardinality(V) <= Cardinality(U)
    BY <1>1, <1>5, GainsNone
  <2>3. QED
    BY <1>1, <1>2, <1>5, <2>1, <2>2
<1>6. CASE T \subseteq S /\ faults' = faults + 1 /\ \E o : V \subseteq U \cup {o}
  <2> HIDE DEF S, T, U, V
  <2>1. /\ IsFiniteSet(T) /\ Cardinality(S) \in Nat /\ Cardinality(T) \in Nat
        /\ Cardinality(T) <= Cardinality(S)
    BY <1>1, <1>6, GainsNone
  <2>2. /\ IsFiniteSet(V) /\ Cardinality(U) \in Nat /\ Cardinality(V) \in Nat
        /\ Cardinality(V) <= Cardinality(U) + 1
    BY <1>1, <1>6, GainsOne
  <2>3. QED
    BY <1>1, <1>2, <1>6, <2>1, <2>2
<1>7. QED
  BY <1>4, <1>5, <1>6

\* Handlers strand nothing; only a lost event leaves a row unannounced.
LEMMA HandleLosses ==
    ASSUME IInv, LossInv, Handle
    PROVE  LossInv'
<1>1. TypeOK
  BY DEF IInv
<1>2. ASSUME NEW p \in Principals, NEW o \in Ops, NEW r \in Requests, RequestOperation(p, o, r)
      PROVE  LossInv'
  <2>1. InitialStatus(r.environment) \in {"pending_approval", "queued"}
    BY DEF InitialStatus
  <2>2. Stranded' \subseteq Stranded /\ Unannounced' \subseteq Unannounced /\ faults' = faults
    BY <1>1, <1>2, <2>1 DEF RequestOperation, Stranded, Unannounced, Created, TypeOK
  <2>3. QED
    BY <1>1, <2>2, LossCounted
<1>3. ASSUME NEW o \in Ops, AppendCreated(o)
      PROVE  LossInv'
  <2>1. Stranded' \subseteq Stranded /\ Unannounced' \subseteq Unannounced /\ faults' = faults
    BY <1>3 DEF AppendCreated, Stranded, Unannounced, Created
  <2>2. QED
    BY <1>1, <2>1, LossCounted
<1>4. ASSUME NEW o \in Ops, LoseCreated(o)
      PROVE  LossInv'
  <2>1. /\ Stranded' \subseteq Stranded /\ Unannounced' \subseteq Unannounced \cup {o}
        /\ faults' = faults + 1
    BY <1>4 DEF LoseCreated, Stranded, Unannounced, Created
  <2>2. QED
    BY <1>1, <2>1, LossCounted
<1>5. ASSUME NEW p \in Principals, NEW o \in Ops, NEW approver \in Users, NEW decision \in Decisions,
             Decide(p, o, approver, decision)
      PROVE  LossInv'
  <2>1. DecidedStatus(decision) \in {"queued", "rejected"}
    BY DEF DecidedStatus
  <2>2. Stranded' \subseteq Stranded /\ Unannounced' \subseteq Unannounced /\ faults' = faults
    BY <1>1, <1>5, <2>1 DEF Decide, Stranded, Unannounced, Created, TypeOK, logVars
  <2>3. QED
    BY <1>1, <2>2, LossCounted
<1>6. QED
  BY <1>2, <1>3, <1>4, <1>5 DEF Handle

\* A worker lets go of a running row only with a fault, which strands that row alone.
LEMMA WorkerLosses ==
    ASSUME IInv, LossInv, NEW w \in Workers,
           \/ WorkerStep(w) \/ AbortClaim(w) \/ LoseClaim(w) \/ SettleFails(w)
           \/ Stop(w) \/ Restart(w)
    PROVE  LossInv'
<1> DEFINE o == worker[w].op
<1>1. TypeOK
  BY DEF IInv
<1>2. /\ worker[w].pc \in {"idle", "down"} => o \notin Ops
      /\ worker[w].pc = "claiming" => o \in Ops /\ status[o] = "queued"
      /\ worker[w].pc \in {"executing", "waiting", "settling"} => o \in Ops /\ status[o] = "running"
  BY <1>1, ConstantsAssumption DEF IInv, HolderInv, Holding
<1> USE DEF Stranded, Unannounced, Created, logVars
<1>3. CASE \E other \in Ops : SelectQueued(w, other)
  <2>1. Stranded' \subseteq Stranded /\ Unannounced' \subseteq Unannounced /\ faults' = faults
    BY <1>1, <1>2, <1>3 DEF SelectQueued, TypeOK, WorkerState
  <2>2. QED
    BY <1>1, <2>1, LossCounted
<1>4. CASE CommitClaim(w)
  <2>1. Stranded' \subseteq Stranded /\ Unannounced' \subseteq Unannounced /\ faults' = faults
    BY <1>1, <1>2, <1>4 DEF CommitClaim, TypeOK, WorkerState
  <2>2. QED
    BY <1>1, <2>1, LossCounted
<1>5. CASE UpdateDeployment(w) \/ FailUpdate(w) \/ EndWait(w)
  <2>1. \A v \in Workers : worker'[v].op = worker[v].op
    <3>1. CASE UpdateDeployment(w)
      BY <1>1, <3>1 DEF UpdateDeployment, TypeOK, WorkerState
    <3>2. CASE FailUpdate(w)
      BY <1>1, <3>2 DEF FailUpdate, TypeOK, WorkerState
    <3>3. CASE EndWait(w)
      BY <1>1, <3>3 DEF EndWait, TypeOK, WorkerState
    <3>4. QED
      BY <1>5, <3>1, <3>2, <3>3
  <2>2. UNCHANGED <<status, unlogged, events, faults>>
    BY <1>5 DEF UpdateDeployment, FailUpdate, EndWait
  <2>3. Stranded' \subseteq Stranded /\ Unannounced' \subseteq Unannounced /\ faults' = faults
    BY <2>1, <2>2
  <2>4. QED
    BY <1>1, <2>3, LossCounted
<1>6. CASE Settle(w)
  <2>1. worker[w].outcome \in {"succeeded", "failed"}
    BY <1>6 DEF IInv, HolderInv, Settle, Outcomes
  <2>2. Stranded' \subseteq Stranded /\ Unannounced' \subseteq Unannounced /\ faults' = faults
    BY <1>1, <1>2, <1>6, <2>1 DEF Settle, TypeOK, WorkerState
  <2>3. QED
    BY <1>1, <2>2, LossCounted
<1>7. CASE AbortClaim(w)
  <2>1. Stranded' \subseteq Stranded /\ Unannounced' \subseteq Unannounced /\ faults' = faults + 1
    BY <1>1, <1>2, <1>7 DEF AbortClaim, TypeOK, WorkerState
  <2>2. QED
    BY <1>1, <2>1, LossCounted
<1>8. CASE LoseClaim(w) \/ SettleFails(w) \/ Stop(w)
  <2>1. /\ Stranded' \subseteq Stranded \cup {o} /\ Unannounced' \subseteq Unannounced
        /\ faults' = faults + 1
    BY <1>1, <1>2, <1>8 DEF LoseClaim, SettleFails, Stop, TypeOK, WorkerState
  <2>2. QED
    BY <1>1, <2>1, LossCounted
<1>9. CASE Restart(w)
  <2>1. Stranded' \subseteq Stranded /\ Unannounced' \subseteq Unannounced /\ faults' = faults
    BY <1>1, <1>2, <1>9 DEF Restart, TypeOK, WorkerState
  <2>2. QED
    BY <1>1, <2>1, LossCounted
<1>10. QED
  BY <1>3, <1>4, <1>5, <1>6, <1>7, <1>8, <1>9 DEF WorkerStep

\* Nothing is lost at the start.
LEMMA InitLosses == Init => LossInv
<1> SUFFICES ASSUME Init PROVE LossInv
  OBVIOUS
<1>1. Stranded = {} /\ Unannounced = {} /\ faults = 0
  BY DEF Init, Stranded, Unannounced, Created
<1>2. QED
  BY <1>1, FS_EmptySet DEF LossInv, LossesByFaultsOnly

\* Every step accounts for what it loses.
LEMMA NextLosses == IInv /\ LossInv /\ [Next]_vars => LossInv'
<1> SUFFICES ASSUME IInv, LossInv, [Next]_vars PROVE LossInv'
  OBVIOUS
<1>1. CASE UNCHANGED vars
  BY <1>1 DEF vars, LossInv, LossesByFaultsOnly, Stranded, Unannounced, Created
<1>2. QED
  BY <1>1, HandleLosses, WorkerLosses DEF Next

\* No running row is left alone, and no event missing, but by a fault of its own.
THEOREM LossesByFaultsOnlyHolds == Spec => []LossesByFaultsOnly
<1>1. LossInv => LossesByFaultsOnly
  BY DEF LossInv
<1>2. QED
  BY <1>1, InitLosses, NextLosses, Invariance, PTL DEF Spec

-----------------------------------------------------------------------------
(***************************************************************************)
(* The order of claims                                                     *)
(***************************************************************************)

\* A row that a claim passed over is past its approval for good, and, without faults, it
\* is locked by another claim as long as it is queued.
PassedInv(w) ==
    \A first \in worker[w].passed :
        /\ status[first] \notin {"none", "pending_approval"}
        /\ first \in Queued => first \in Locked

OrderInv == faults = 0 => \A w \in Workers : PassedInv(w)

\* Where no row goes back and no queued row is unlocked, the rows passed over stay so.
LEMMA PassedStays ==
    ASSUME TypeOK, NEW w \in Workers, PassedInv(w), worker'[w].passed \subseteq worker[w].passed,
           \A o \in Ops : status[o] \notin {"none", "pending_approval"} =>
                              /\ status'[o] \notin {"none", "pending_approval"}
                              /\ o \in Queued' => o \in Queued,
           \A o \in Queued' : o \in Locked => o \in Locked'
    PROVE  PassedInv(w)'
<1> SUFFICES ASSUME NEW first \in worker'[w].passed
             PROVE  /\ status'[first] \notin {"none", "pending_approval"}
                    /\ first \in Queued' => first \in Locked'
  BY DEF PassedInv
<1>1. first \in worker[w].passed /\ first \in Ops
  BY DEF TypeOK, WorkerState
<1>2. QED
  BY <1>1 DEF PassedInv

\* Handlers lock nothing, and decide or insert only rows that no claim has passed over.
LEMMA HandleOrder ==
    ASSUME IInv, OrderInv, Handle
    PROVE  OrderInv'
<1>1. TypeOK
  BY DEF IInv
<1>2. UNCHANGED worker /\ faults' \in {faults, faults + 1}
  BY DEF Handle, RequestOperation, AppendCreated, LoseCreated, Decide
<1>3. faults' = 0 => faults = 0
  BY <1>1, <1>2, ConstantsAssumption DEF TypeOK
<1>4. \A o \in Ops : status[o] \notin {"none", "pending_approval"} => status'[o] = status[o]
  BY <1>1 DEF Handle, RequestOperation, AppendCreated, LoseCreated, Decide, CanTransitionTo,
     legalTransitions, Decisions, TypeOK
<1>5. Locked' = Locked
  BY <1>2 DEF Locked
<1>6. ASSUME faults' = 0, NEW w \in Workers
      PROVE  PassedInv(w)'
  <2>1. PassedInv(w)
    BY <1>3, <1>6 DEF OrderInv
  <2>2. QED
    BY <1>1, <1>2, <1>4, <1>5, <2>1, PassedStays DEF Queued
<1>7. QED
  BY <1>6 DEF OrderInv

\* A claim passes over locked rows only; only a claim that commits, or a fault, unlocks one.
LEMMA WorkerOrder ==
    ASSUME IInv, OrderInv, NEW w \in Workers,
           \/ WorkerStep(w) \/ AbortClaim(w) \/ LoseClaim(w) \/ SettleFails(w)
           \/ Stop(w) \/ Restart(w)
    PROVE  OrderInv'
<1> SUFFICES ASSUME faults' = 0 PROVE \A v \in Workers : PassedInv(v)'
  BY DEF OrderInv
<1>1. TypeOK
  BY DEF IInv
<1>2. /\ worker[w].pc = "claiming" => worker[w].op \in Ops /\ status[worker[w].op] = "queued"
      /\ worker[w].pc = "settling" => /\ worker[w].op \in Ops /\ status[worker[w].op] = "running"
                                      /\ worker[w].outcome \in {"succeeded", "failed"}
  BY DEF IInv, HolderInv, Holding, Outcomes
<1>3. faults = 0 /\ ~(AbortClaim(w) \/ LoseClaim(w) \/ SettleFails(w) \/ Stop(w))
  <2>1. faults \in Nat /\ faults' # faults + 1
    BY <1>1, ConstantsAssumption DEF TypeOK
  <2>2. ~(AbortClaim(w) \/ LoseClaim(w) \/ SettleFails(w) \/ Stop(w))
    BY <2>1 DEF AbortClaim, LoseClaim, SettleFails, Stop
  <2>3. faults' = faults
    BY <2>2 DEF WorkerStep, SelectQueued, CommitClaim, UpdateDeployment, FailUpdate, EndWait,
       Settle, Restart
  <2>4. QED
    BY <2>2, <2>3
<1>4. \A v \in Workers : PassedInv(v)
  BY <1>3 DEF OrderInv
<1>5. CASE \E o \in Ops : SelectQueued(w, o)
  <2>1. PICK o \in Ops : SelectQueued(w, o)
    BY <1>5
  <2>2. /\ \A v \in Workers \ {w} : worker'[v] = worker[v]
        /\ worker'[w].pc = "claiming" /\ worker'[w].passed = older[o] \cap Queued
        /\ worker[w].pc = "idle" /\ status' = status
        /\ older[o] \cap Claimable = {}
    BY <1>1, <2>1 DEF SelectQueued, Oldest, TypeOK, WorkerState
  <2>3. Locked \subseteq Locked' /\ Queued' = Queued
    BY <2>2 DEF Locked, Queued
  <2>4. PassedInv(w)'
    BY <2>2, <2>3 DEF PassedInv, Claimable, Queued
  <2>5. ASSUME NEW v \in Workers \ {w}
        PROVE  PassedInv(v)'
    BY <1>4, <2>2, <2>3, <2>5 DEF PassedInv
  <2>6. QED
    BY <2>4, <2>5
<1>6. CASE ~ \E o \in Ops : SelectQueued(w, o)
  <2>1. /\ \A v \in Workers \ {w} : worker'[v] = worker[v]
        /\ worker'[w].pc # "claiming"
        /\ worker'[w].passed \subseteq worker[w].passed
        /\ worker[w].pc = "claiming" => status'[worker[w].op] = "running"
        /\ \A o \in Ops : status[o] \notin {"none", "pending_approval"} =>
                              /\ status'[o] \notin {"none", "pending_approval"}
                              /\ status'[o] = "queued" => status[o] = "queued"
    <3>1. CASE CommitClaim(w)
      BY <1>1, <1>2, <3>1 DEF CommitClaim, TypeOK, WorkerState
    <3>2. CASE UpdateDeployment(w)
      BY <1>1, <3>2 DEF UpdateDeployment, TypeOK, WorkerState
    <3>3. CASE FailUpdate(w)
      BY <1>1, <3>3 DEF FailUpdate, TypeOK, WorkerState
    <3>4. CASE EndWait(w)
      BY <1>1, <3>4 DEF EndWait, TypeOK, WorkerState
    <3>5. CASE Settle(w)
      BY <1>1, <1>2, <3>5 DEF Settle, Idle, TypeOK, WorkerState
    <3>6. CASE Restart(w)
      BY <1>1, <3>6 DEF Restart, Idle, TypeOK, WorkerState
    <3>7. QED
      BY <1>3, <1>6, <3>1, <3>2, <3>3, <3>4, <3>5, <3>6 DEF WorkerStep
  <2>2. ASSUME NEW o \in Queued', o \in Locked
        PROVE  o \in Locked'
    <3>1. PICK u \in Workers : worker[u].pc = "claiming" /\ worker[u].op = o
      BY <2>2 DEF Locked
    <3>2. u # w
      BY <2>1, <2>2, <3>1 DEF Queued
    <3>3. QED
      BY <2>1, <3>1, <3>2 DEF Locked
  <2>3. ASSUME NEW v \in Workers
        PROVE  worker'[v].passed \subseteq worker[v].passed
    BY <2>1
  <2>4. QED
    BY <1>1, <1>4, <2>1, <2>2, <2>3, PassedStays DEF Queued
<1>7. QED
  BY <1>5, <1>6

\* Nobody has claimed anything at the start.
LEMMA InitOrder == Init => OrderInv
  BY DEF Init, OrderInv, PassedInv, Idle

\* Every step keeps what claims know of the rows they passed over.
LEMMA NextOrder == IInv /\ OrderInv /\ [Next]_vars => OrderInv'
<1> SUFFICES ASSUME IInv, OrderInv, [Next]_vars PROVE OrderInv'
  OBVIOUS
<1>1. CASE UNCHANGED vars
  BY <1>1 DEF vars, OrderInv, PassedInv, Queued, Locked
<1>2. QED
  BY <1>1, HandleOrder, WorkerOrder DEF Next

\* Without faults, an operation that a claim passed over is locked or no longer queued.
THEOREM ClaimsInOrderHolds == Spec => []ClaimsInOrder
<1>1. OrderInv => ClaimsInOrder
  BY DEF OrderInv, PassedInv, ClaimsInOrder
<1>2. QED
  BY <1>1, InitOrder, NextOrder, Invariance, PTL DEF Spec

-----------------------------------------------------------------------------
(***************************************************************************)
(* All of it together, for a system of which the life cycle is a part.     *)
(* Such a system may count faults of its other parts.                      *)
(***************************************************************************)
LifeCycleInv == IInv /\ Ledger /\ LossInv /\ OrderInv

\* What the life cycle starts with.
LEMMA InitLifeCycle == Init => LifeCycleInv
  BY InitIInv, InitLedger, InitLosses, InitOrder DEF LifeCycleInv

\* What its steps keep.
LEMMA NextLifeCycle == LifeCycleInv /\ [Next]_vars => LifeCycleInv'
  BY NextIInv, NextLedger, NextLosses, NextOrder DEF LifeCycleInv

\* A fault of another part disturbs nothing.
LEMMA FaultElsewhere ==
    ASSUME LifeCycleInv, faults' \in {faults, faults + 1}, faults' \in 0..MaxFaults,
           UNCHANGED <<status, request, older, approvals, unlogged, events, outbox,
                       rollouts, worker>>
    PROVE  LifeCycleInv'
<1>1. CASE faults' = faults
  <2>1. UNCHANGED vars
    BY <1>1 DEF vars
  <2>2. QED
    BY <2>1, NextLifeCycle
<1>2. CASE faults' = faults + 1
  <2>1. faults \in Nat /\ faults' > 0
    BY <1>2, ConstantsAssumption DEF LifeCycleInv, IInv, TypeOK
  <2>2. IInv'
    BY <2>1 DEF LifeCycleInv, IInv, TypeOK, CreatedInv, HolderInv, OneOwner, RolledOutAtMostOnce,
       SuccessIsReal, FourEyes, Created, Holding, ApprovedByAnother
  <2>3. Ledger'
    BY FrameLedger DEF LifeCycleInv
  <2>4. LossInv'
    <3>1. Stranded' = Stranded /\ Unannounced' = Unannounced
      BY DEF Stranded, Unannounced, Created
    <3>2. QED
      BY <1>2, <3>1, LossCounted DEF LifeCycleInv, IInv
  <2>5. OrderInv'
    <3>1. faults' # 0
      BY <2>1
    <3>2. QED
      BY <3>1 DEF OrderInv
  <2>6. QED
    BY <2>2, <2>3, <2>4, <2>5 DEF LifeCycleInv
<1>3. QED
  BY <1>1, <1>2

=============================================================================
