------------------------------- MODULE Outbox -------------------------------
(***************************************************************************)
(* The transactional outbox of chat notifications: the workers of several  *)
(* replicas claim batches of due rows under a lease, send them one after   *)
(* the other through the provider, and mark each row sent or failed.       *)
(*                                                                         *)
(* Time is kept as what is left of it: due[r] is the time until            *)
(* next_attempt_at of row r, elapsed[w] the time worker w has spent in the *)
(* current send, which the HTTP client of the provider cuts off.  A claim  *)
(* computes next_attempt_at with the clock of its replica, which Skew sets *)
(* apart from the database clock that decides whether a row is due.        *)
(*                                                                         *)
(* Not represented: outbox_messages.attempts and last_error, and           *)
(* worker.max_attempts.  The first two are written and never read, the     *)
(* last is configured and never used: a row that fails is tried for ever.  *)
(*                                                                         *)
(* Rows are numbered in the order of created_at, which the clocks of the   *)
(* replicas make: they are committed in any order.  Ghost state:           *)
(* deliveries, lapsed and faulted only record what happened.               *)
(***************************************************************************)
EXTENDS Integers, FiniteSets

CONSTANTS
    Rows,          \* 1..n, in the order of created_at
    Workers,
    Registered,    \* rows whose provider the registry knows and whose payload it can read
    Limit,         \* rows of a claim (20)
    Lease,         \* lease of a claim (30 s)
    RetryDelay,    \* delay after a failed send (5 s)
    SendTimeout,   \* cut-off of a send
    Skew,          \* clock of each replica minus the clock of the database
    MaxFaults      \* bound: stops and lost calls explored

ASSUME ConstantsAssumption ==
    /\ Rows \subseteq Nat /\ IsFiniteSet(Rows)
    /\ Registered \subseteq Rows
    /\ {Limit, Lease, RetryDelay, SendTimeout} \subseteq Nat \ {0}
    /\ Skew \in [Workers -> Int]
    /\ MaxFaults \in Nat

VARIABLES
    row,         \* "absent", "pending" or "sent" (sent_at is set)
    due,         \* time left until next_attempt_at, 0 when due
    pc,          \* where each worker stands with the first row of its batch
    batch,       \* the rows each worker has claimed and not finished with
    elapsed,     \* time spent in the current send
    deliveries,  \* times the provider accepted each row, counted up to 2
    lapsed,      \* rows whose lease ran out while a worker still had them
    faulted,     \* rows hit by a stop or by a call whose answer was lost
    faults       \* how many of those so far

vars == <<row, due, pc, batch, elapsed, deliveries, lapsed, faulted, faults>>

rowVars == <<row, due>>

\* The loop sends the rows of a batch in the order of created_at.
First(w) == CHOOSE r \in batch[w] : \A s \in batch[w] : r <= s

Init ==
    /\ row = [r \in Rows |-> "absent"]
    /\ due = [r \in Rows |-> 0]
    /\ pc = [w \in Workers |-> "idle"]
    /\ batch = [w \in Workers |-> {}]
    /\ elapsed = [w \in Workers |-> 0]
    /\ deliveries = [r \in Rows |-> 0]
    /\ lapsed = {}
    /\ faulted = {}
    /\ faults = 0

\* The transaction that ends an operation inserts its notification, due at once.
EnqueueNotification(r) ==
    /\ row[r] = "absent"
    /\ row' = [row EXCEPT ![r] = "pending"]
    /\ UNCHANGED <<due, pc, batch, elapsed, deliveries, faulted, faults>>

\* Mutants: the lease is not looked at; sent rows are claimed again.
DueRowsLeased == {r \in Rows : row[r] = "pending"}
DueRowsEvenSent == {r \in Rows : row[r] # "absent" /\ due[r] = 0}

DueRows == {r \in Rows : row[r] = "pending" /\ due[r] = 0}

LeaseLeft(w) == IF Lease + Skew[w] > 0 THEN Lease + Skew[w] ELSE 0

\* Mutant: strict order, so that a row waits for the older ones.
OldestDueInOrder == {r \in DueRows : \A s \in Rows : s < r => row[s] = "sent"}

\* The oldest due rows, as many as a batch takes.
OldestDue == {r \in DueRows : Cardinality({s \in DueRows : s < r}) < Limit}

\* ClaimOutbox: one transaction locks the batch and writes its lease.
ClaimOutbox(w) ==
    /\ pc[w] = "idle"
    /\ OldestDue # {}
    /\ pc' = [pc EXCEPT ![w] = "next"]
    /\ batch' = [batch EXCEPT ![w] = OldestDue]
    /\ due' = [r \in Rows |-> IF r \in OldestDue THEN LeaseLeft(w) ELSE due[r]]
    /\ UNCHANGED <<row, elapsed, deliveries, faulted, faults>>

\* A row whose provider is not registered, or whose payload is broken, fails unsent.
BeginSend(w) ==
    /\ pc[w] = "next"
    /\ pc' = [pc EXCEPT ![w] = IF First(w) \in Registered THEN "sending" ELSE "refused"]
    /\ UNCHANGED <<rowVars, batch, elapsed, deliveries, faulted, faults>>

EndsSend(w) == elapsed' = [elapsed EXCEPT ![w] = 0]

Accepted(r) == [deliveries EXCEPT ![r] = IF @ < 2 THEN @ + 1 ELSE 2]

Deliver(w) ==
    /\ pc[w] = "sending"
    /\ deliveries' = Accepted(First(w))
    /\ pc' = [pc EXCEPT ![w] = "accepted"]
    /\ EndsSend(w)
    /\ UNCHANGED <<rowVars, batch, faulted, faults>>

\* The provider refuses, or the client gives up before the provider got the message.
Refuse(w) ==
    /\ pc[w] = "sending"
    /\ pc' = [pc EXCEPT ![w] = "refused"]
    /\ EndsSend(w)
    /\ UNCHANGED <<rowVars, batch, deliveries, faulted, faults>>

\* The provider accepts, and the answer is lost: Send returns an error.
LoseAnswer(w) ==
    /\ pc[w] = "sending"
    /\ faults < MaxFaults
    /\ faults' = faults + 1
    /\ faulted' = faulted \cup {First(w)}
    /\ deliveries' = Accepted(First(w))
    /\ pc' = [pc EXCEPT ![w] = "refused"]
    /\ EndsSend(w)
    /\ UNCHANGED <<rowVars, batch>>

\* The loop of dispatchNotifications goes on to the next row, or returns.
Advance(w) ==
    /\ batch' = [batch EXCEPT ![w] = @ \ {First(w)}]
    /\ pc' = [pc EXCEPT ![w] = IF batch[w] = {First(w)} THEN "idle" ELSE "next"]
    /\ UNCHANGED <<elapsed, deliveries>>

MarkOutboxSent(w) ==
    /\ pc[w] = "accepted"
    /\ Advance(w)
    /\ row' = [row EXCEPT ![First(w)] = "sent"]
    /\ UNCHANGED <<due, faulted, faults>>

\* Both marks are guarded by sent_at IS NULL only: whoever claimed the row meanwhile
\* loses its lease to the delay of this failure.
MarkOutboxFailed(w) ==
    LET r == First(w)
    IN  /\ pc[w] = "refused"
        /\ Advance(w)
        /\ due' = IF row[r] = "sent" THEN due ELSE [due EXCEPT ![r] = RetryDelay]
        /\ UNCHANGED <<row, faulted, faults>>

\* The error of a mark is dropped.
LoseMark(w) ==
    /\ pc[w] \in {"accepted", "refused"}
    /\ faults < MaxFaults
    /\ faults' = faults + 1
    /\ faulted' = faulted \cup {First(w)}
    /\ Advance(w)
    /\ UNCHANGED rowVars

\* The process ends in the middle of its batch, perhaps after a delivery it did not
\* mark; its rows wait for the end of the lease.
Stop(w) ==
    /\ pc[w] # "down"
    /\ faults < MaxFaults
    /\ faults' = faults + 1
    /\ faulted' = IF pc[w] = "accepted" THEN faulted \cup {First(w)} ELSE faulted
    /\ pc' = [pc EXCEPT ![w] = "down"]
    /\ batch' = [batch EXCEPT ![w] = {}]
    /\ EndsSend(w)
    /\ UNCHANGED <<rowVars, deliveries>>

Restart(w) ==
    /\ pc[w] = "down"
    /\ pc' = [pc EXCEPT ![w] = "idle"]
    /\ UNCHANGED <<rowVars, batch, elapsed, deliveries, faulted, faults>>

\* Time passes, but not beyond the cut-off of a send in progress.
Tick ==
    /\ \A w \in Workers : pc[w] = "sending" => elapsed[w] < SendTimeout
    /\ due' = [r \in Rows |-> IF due[r] > 0 THEN due[r] - 1 ELSE 0]
    /\ elapsed' = [w \in Workers |-> IF pc[w] = "sending" THEN elapsed[w] + 1 ELSE elapsed[w]]
    /\ UNCHANGED <<row, pc, batch, deliveries, faulted, faults>>

\* Ghost: a pending row became due although a worker still has it in its batch.
Observe ==
    lapsed' = lapsed \cup {r \in Rows : row'[r] = "pending" /\ due'[r] = 0
                                          /\ \E w \in Workers : r \in batch'[w]}

DispatchStep(w) ==
    ClaimOutbox(w) \/ BeginSend(w) \/ MarkOutboxSent(w) \/ MarkOutboxFailed(w)

Next ==
    /\ \/ \E r \in Rows : EnqueueNotification(r)
       \/ \E w \in Workers :
              \/ DispatchStep(w) \/ Deliver(w) \/ Refuse(w)
              \/ LoseAnswer(w) \/ LoseMark(w) \/ Stop(w) \/ Restart(w)
       \/ Tick
    /\ Observe

Spec == Init /\ [][Next]_vars

\* Workers keep polling and dispatching, a send ends at its cut-off, stopped replicas
\* are restarted, time passes, and a provider that is asked for the same row again
\* and again accepts it at some time.
Fairness ==
    /\ WF_vars(Tick /\ Observe)
    /\ \A w \in Workers :
           /\ WF_vars((DispatchStep(w) \/ Deliver(w) \/ Refuse(w) \/ Restart(w)) /\ Observe)
           /\ \A r \in Registered : SF_vars(Deliver(w) /\ First(w) = r /\ Observe)

FairSpec == Spec /\ Fairness

(***************************************************************************)
(* Properties                                                              *)
(***************************************************************************)

\* Types of the outbox rows (store.go:468-516) and of the dispatch loop
\* (worker.go:75-100); a worker has a batch exactly while it dispatches.
TypeOK ==
    /\ row \in [Rows -> {"absent", "pending", "sent"}]
    /\ due \in [Rows -> Nat]
    /\ pc \in [Workers -> {"idle", "next", "sending", "accepted", "refused", "down"}]
    /\ batch \in [Workers -> SUBSET Rows]
    /\ \A w \in Workers : batch[w] = {} <=> pc[w] \in {"idle", "down"}
    /\ elapsed \in [Workers -> 0..SendTimeout]
    /\ deliveries \in [Rows -> 0..2]
    /\ lapsed \subseteq Rows
    /\ faulted \subseteq Rows
    /\ faults \in 0..MaxFaults

\* No notification is written off: a row marked as sent was accepted by its provider
\* (worker.go:91-98).
SentWasDelivered == \A r \in Rows : row[r] = "sent" => deliveries[r] > 0

\* Two workers have a row in their batches only if its lease ran out under the first:
\* sends longer than the lease, a clock behind the database's, or the failure of an
\* earlier holder (store.go:485-516).
LeaseKeepsWorkersApart ==
    \A v, w \in Workers : v # w => batch[v] \cap batch[w] \subseteq lapsed

\* A notification is delivered twice only after such a lapse, a stop between the
\* delivery and its mark, or a lost answer (worker.go:90-98).
DuplicatesExplained == \A r \in Rows : deliveries[r] > 1 => r \in lapsed \cup faulted

\* The rows that can be sent and have fewer older ones that cannot than a batch takes.
\* Rows that cannot be sent are due again and again and come first in every batch: as
\* many of them as a batch takes may fill each one (store.go:494-515).
Unstarved ==
    {r \in Registered : Cardinality({s \in Rows \ Registered : s < r}) < Limit}

\* Every such notification is eventually marked as sent, whatever stops and retries,
\* although others fail for ever and batches leave rows out (worker.go:75-100).
EventuallySent == \A r \in Unstarved : row[r] = "pending" ~> row[r] = "sent"

=============================================================================
