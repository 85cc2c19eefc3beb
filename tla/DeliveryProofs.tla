--------------------------- MODULE DeliveryProofs ---------------------------
(***************************************************************************)
(* Proofs about the outbox, by itself and together with the operations     *)
(* that it tells of, for every number of operations, rows, replicas and    *)
(* faults, whatever the lease, the cut-off of a send and the clocks.       *)
(*                                                                         *)
(* The first part is about Outbox: two workers hold a row only after its   *)
(* lease ran out, a row is delivered again only for a reason, and no row   *)
(* is marked as sent that its provider did not accept.  Expired carries    *)
(* the argument: a row that a worker still holds and that is due again is  *)
(* recorded in lapsed, so that a claim, which takes due rows only, makes a *)
(* second holder of no other row.  Reasons says where a row that was       *)
(* delivered may be: it is explained, or sent and in no batch, or with the *)
(* one worker that has not marked it yet.                                  *)
(*                                                                         *)
(* The second part is about Delivery: the two halves of a worker take      *)
(* turns, and together they implement Reporting.  LifeInv is what is       *)
(* needed of Operations: a worker that settles has a running row of its    *)
(* own.  PostInv is what is needed of Outbox: a worker sends rows that     *)
(* exist, and only such rows were delivered.  Letters joins them: a row    *)
(* that exists tells the recorded outcome of an operation that a chat      *)
(* asked for.                                                              *)
(*                                                                         *)
(* The third part brings back what was proved of each half by itself: a    *)
(* step of Delivery is a step of Operations, of Outbox, of both, or at     *)
(* most a fault elsewhere.  With both invariants at hand, the              *)
(* notifications that Operations counts are the rows that Outbox sends.    *)
(***************************************************************************)
EXTENDS Delivery, WellFoundedInduction, FiniteSetTheorems, TLAPS

-----------------------------------------------------------------------------
(***************************************************************************)
(* The invariant                                                           *)
(***************************************************************************)

\* A pending row that is due and in a batch is in lapsed.
Expired ==
    \A r \in Rows, w \in Workers :
        r \in batch[w] /\ row[r] = "pending" /\ due[r] = 0 => r \in lapsed

\* Rows that were claimed exist.
Claimed == \A w \in Workers : \A r \in batch[w] : row[r] # "absent"

\* What is known of a row that its provider has accepted.
Explained(r) == r \in lapsed \cup faulted

Finished(r) == row[r] = "sent" /\ \A w \in Workers : r \notin batch[w]

Unmarked(r) == \E w \in Workers : pc[w] = "accepted" /\ r = First(w)

Reasons == \A r \in Rows : deliveries[r] > 0 => Explained(r) \/ Finished(r) \/ Unmarked(r)

\* A row that is about to be marked as sent was delivered.
AcceptedFirst == \A w \in Workers : pc[w] = "accepted" => deliveries[First(w)] > 0

OutboxInv ==
    /\ TypeOK
    /\ Expired
    /\ Claimed
    /\ LeaseKeepsWorkersApart
    /\ Reasons
    /\ DuplicatesExplained
    /\ AcceptedFirst
    /\ SentWasDelivered

\* A set of numbers that is not empty has a least one: First(w) is in the batch of w.
LEMMA LeastRow ==
    ASSUME NEW S, S \subseteq Nat, S # {}
    PROVE  \E r \in S : \A s \in S : r <= s
<1>1. PICK r \in S : \A s \in S : <<s, r>> \notin OpToRel(<, Nat)
  BY NatLessThanWellFounded, WFMin, Zenon
<1>2. \A s \in S : ~ (s < r)
  BY <1>1, Zenon DEF OpToRel
<1>3. QED
  BY <1>2

\* A worker that dispatches stands at a row of its batch.
LEMMA FirstIsInBatch ==
    ASSUME TypeOK, NEW w \in Workers, pc[w] \notin {"idle", "down"}
    PROVE  First(w) \in batch[w] /\ First(w) \in Rows
<1>1. batch[w] # {} /\ batch[w] \subseteq Rows /\ batch[w] \subseteq Nat
  BY ConstantsAssumption DEF TypeOK
<1>2. \E r \in batch[w] : \A s \in batch[w] : r <= s
  BY <1>1, LeastRow
<1>3. QED
  BY <1>1, <1>2 DEF First

-----------------------------------------------------------------------------
(***************************************************************************)
(* Types                                                                   *)
(***************************************************************************)

\* A fault that is below the bound may be counted.
LEMMA FaultCounts ==
    ASSUME TypeOK, faults < MaxFaults, faults' = faults + 1
    PROVE  faults' \in 0..MaxFaults
<1>1. MaxFaults \in Nat /\ faults \in 0..MaxFaults
  BY ConstantsAssumption DEF TypeOK
<1>2. QED
  BY <1>1

\* The values that a step assigns have their types.
LEMMA TypeStep ==
    ASSUME TypeOK, [Next]_vars
    PROVE  TypeOK'
<1> USE ConstantsAssumption
<1>1. CASE UNCHANGED vars
  BY <1>1 DEF vars, TypeOK
<1>2. ASSUME Observe, batch' \in [Workers -> SUBSET Rows]
      PROVE  lapsed' \subseteq Rows
  BY <1>2 DEF Observe, TypeOK
<1>3. ASSUME Observe, NEW r \in Rows, EnqueueNotification(r)
      PROVE  TypeOK'
  BY <1>2, <1>3 DEF EnqueueNotification, TypeOK
<1>4. ASSUME Observe, NEW w \in Workers, ClaimOutbox(w)
      PROVE  TypeOK'
  <2>1. OldestDue \subseteq Rows /\ OldestDue # {}
    BY <1>4 DEF ClaimOutbox, OldestDue, DueRows
  <2>2. LeaseLeft(w) \in Nat
    BY DEF LeaseLeft
  <2>3. batch' \in [Workers -> SUBSET Rows] /\ due' \in [Rows -> Nat]
    BY <1>4, <2>1, <2>2 DEF ClaimOutbox, TypeOK
  <2>4. QED
    BY <1>2, <1>4, <2>1, <2>3 DEF ClaimOutbox, TypeOK
<1>5. ASSUME Observe, NEW w \in Workers,
             BeginSend(w) \/ Deliver(w) \/ Refuse(w) \/ LoseAnswer(w)
      PROVE  TypeOK'
  <2>1. First(w) \in Rows
    BY <1>5, FirstIsInBatch DEF BeginSend, Deliver, Refuse, LoseAnswer
  <2>2. Accepted(First(w)) \in [Rows -> 0..2]
    <3>1. deliveries[First(w)] \in 0..2
      BY <2>1 DEF TypeOK
    <3>2. (IF deliveries[First(w)] < 2 THEN deliveries[First(w)] + 1 ELSE 2) \in 0..2
      BY <3>1
    <3>3. QED
      BY <2>1, <3>2 DEF Accepted, TypeOK
  <2>3. CASE BeginSend(w)
    <3>1. batch[w] # {}
      BY <2>3 DEF BeginSend, TypeOK
    <3>2. QED
      BY <1>2, <1>5, <2>3, <3>1 DEF BeginSend, rowVars, TypeOK
  <2>8. EndsSend(w) => elapsed' \in [Workers -> 0..SendTimeout]
    BY DEF EndsSend, TypeOK
  <2>7. CASE Refuse(w)
    BY <1>2, <1>5, <2>7, <2>8 DEF Refuse, rowVars, TypeOK
  <2>4. CASE Deliver(w)
    BY <1>2, <1>5, <2>2, <2>4, <2>8 DEF Deliver, rowVars, TypeOK
  <2>5. CASE LoseAnswer(w)
    <3>1. faults' \in 0..MaxFaults /\ faulted' \subseteq Rows
      BY <2>1, <2>5, FaultCounts DEF LoseAnswer, TypeOK
    <3>2. QED
      BY <1>2, <1>5, <2>2, <2>5, <2>8, <3>1 DEF LoseAnswer, rowVars, TypeOK
  <2>6. QED
    BY <1>5, <2>3, <2>4, <2>5, <2>7
<1>6. ASSUME Observe, NEW w \in Workers,
             MarkOutboxSent(w) \/ MarkOutboxFailed(w) \/ LoseMark(w)
      PROVE  TypeOK'
  <2>1. First(w) \in Rows /\ First(w) \in batch[w] /\ pc[w] \notin {"idle", "down"} /\ Advance(w)
    BY <1>6, FirstIsInBatch DEF MarkOutboxSent, MarkOutboxFailed, LoseMark
  <2>2. /\ batch' \in [Workers -> SUBSET Rows]
        /\ \A v \in Workers : batch'[v] = {} <=> pc'[v] \in {"idle", "down"}
        /\ pc' \in [Workers -> {"idle", "next", "sending", "accepted", "refused", "down"}]
        /\ UNCHANGED <<elapsed, deliveries>>
    BY <2>1 DEF Advance, TypeOK
  <2>3. /\ row' \in [Rows -> {"absent", "pending", "sent"}]
        /\ due' \in [Rows -> Nat]
    BY <1>6, <2>1 DEF MarkOutboxSent, MarkOutboxFailed, LoseMark, rowVars, TypeOK
  <2>4. faulted' \subseteq Rows /\ faults' \in 0..MaxFaults
    <3>1. CASE LoseMark(w)
      BY <2>1, <3>1, FaultCounts DEF LoseMark, TypeOK
    <3>2. CASE MarkOutboxSent(w) \/ MarkOutboxFailed(w)
      BY <3>2 DEF MarkOutboxSent, MarkOutboxFailed, TypeOK
    <3>3. QED
      BY <1>6, <3>1, <3>2
  <2>5. QED
    BY <1>2, <1>6, <2>2, <2>3, <2>4 DEF TypeOK
<1>7. ASSUME Observe, NEW w \in Workers, Stop(w)
      PROVE  TypeOK'
  <2>1. faulted' \subseteq Rows
    BY <1>7, FirstIsInBatch DEF Stop, TypeOK
  <2>2. elapsed' \in [Workers -> 0..SendTimeout] /\ faults' \in 0..MaxFaults
    BY <1>7, FaultCounts DEF Stop, EndsSend, TypeOK
  <2>3. QED
    BY <1>2, <1>7, <2>1, <2>2 DEF Stop, rowVars, TypeOK
<1>8. ASSUME Observe, NEW w \in Workers, Restart(w)
      PROVE  TypeOK'
  BY <1>2, <1>8 DEF Restart, rowVars, TypeOK
<1>9. ASSUME Observe, Tick
      PROVE  TypeOK'
  <2>1. due' \in [Rows -> Nat] /\ elapsed' \in [Workers -> 0..SendTimeout]
    BY <1>9 DEF Tick, TypeOK
  <2>2. QED
    BY <1>2, <1>9, <2>1 DEF Tick, TypeOK
<1>10. QED
  BY <1>1, <1>3, <1>4, <1>5, <1>6, <1>7, <1>8, <1>9 DEF Next, DispatchStep

-----------------------------------------------------------------------------
(***************************************************************************)
(* What a step leaves as it was                                            *)
(***************************************************************************)

\* Observe records what expires, and forgets nothing.
LEMMA ObserveKeeps ==
    ASSUME Observe
    PROVE  Expired' /\ lapsed \subseteq lapsed'
  BY DEF Observe, Expired

\* The first row of a batch changes only with the batch.
LEMMA FirstKept ==
    ASSUME NEW w, batch'[w] = batch[w]
    PROVE  First(w)' = First(w)
  BY DEF First

\* While batches only lose rows, no worker comes to hold a row of another.
LEMMA ApartKept ==
    ASSUME OutboxInv, Observe, \A w \in Workers : batch'[w] \subseteq batch[w]
    PROVE  LeaseKeepsWorkersApart'
  BY ObserveKeeps DEF OutboxInv, LeaseKeepsWorkersApart

\* While batches only lose rows, and no row is removed, claimed rows exist.
LEMMA ClaimedKept ==
    ASSUME OutboxInv, \A w \in Workers : batch'[w] \subseteq batch[w],
           \A r \in Rows : row[r] # "absent" => row'[r] # "absent"
    PROVE  Claimed'
  BY DEF OutboxInv, Claimed, TypeOK

\* Two workers that both hold a row explain its second delivery.
LEMMA SharedIsExplained ==
    ASSUME OutboxInv, NEW v \in Workers, NEW w \in Workers, v # w,
           NEW r \in Rows, r \in batch[v], r \in batch[w]
    PROVE  Explained(r)
  BY DEF OutboxInv, LeaseKeepsWorkersApart, Explained

\* A step of a worker that has nothing unmarked, before and after it.
LEMMA QuietStep ==
    ASSUME OutboxInv, Observe, NEW w \in Workers,
           pc[w] # "accepted", pc'[w] # "accepted",
           \A v \in Workers \ {w} : pc'[v] = pc[v] /\ batch'[v] = batch[v],
           batch'[w] \subseteq batch[w],
           faulted \subseteq faulted', UNCHANGED <<row, deliveries>>
    PROVE  /\ Expired' /\ Claimed' /\ LeaseKeepsWorkersApart' /\ Reasons'
           /\ DuplicatesExplained' /\ AcceptedFirst' /\ SentWasDelivered'
<1>1. \A v \in Workers : batch'[v] \subseteq batch[v]
  OBVIOUS
<1>2. Expired' /\ Claimed' /\ LeaseKeepsWorkersApart' /\ lapsed \subseteq lapsed'
  BY <1>1, ObserveKeeps, ClaimedKept, ApartKept
<1>3. \A v \in Workers : pc'[v] = "accepted" => pc[v] = "accepted" /\ First(v)' = First(v)
  BY FirstKept
<1>4. \A v \in Workers : pc[v] = "accepted" => pc'[v] = "accepted" /\ First(v)' = First(v)
  BY FirstKept
<1>5. Reasons'
  BY <1>1, <1>2, <1>4 DEF OutboxInv, Reasons, Explained, Finished, Unmarked
<1>6. AcceptedFirst'
  BY <1>3 DEF OutboxInv, AcceptedFirst
<1>7. DuplicatesExplained' /\ SentWasDelivered'
  BY <1>2 DEF OutboxInv, DuplicatesExplained, SentWasDelivered
<1>8. QED
  BY <1>2, <1>5, <1>6, <1>7

\* A worker gives up the row that its provider accepted: marked as sent, or hit by a fault.
LEMMA LeaveStep ==
    ASSUME OutboxInv, Observe, NEW w \in Workers,
           pc[w] = "accepted", pc'[w] # "accepted",
           \A v \in Workers \ {w} : pc'[v] = pc[v] /\ batch'[v] = batch[v],
           batch'[w] \subseteq batch[w] \ {First(w)},
           faulted \subseteq faulted', UNCHANGED deliveries,
           \/ First(w) \in faulted' /\ UNCHANGED row
           \/ row' = [row EXCEPT ![First(w)] = "sent"]
    PROVE  /\ Expired' /\ Claimed' /\ LeaseKeepsWorkersApart' /\ Reasons'
           /\ DuplicatesExplained' /\ AcceptedFirst' /\ SentWasDelivered'
<1>1. PICK f \in Rows : f = First(w) /\ f \in batch[w]
  BY FirstIsInBatch DEF OutboxInv
<1>2. /\ \A v \in Workers : batch'[v] \subseteq batch[v]
      /\ \A r \in Rows : row'[r] = row[r] \/ (r = f /\ row'[r] = "sent")
      /\ f \in faulted' \/ row'[f] = "sent"
  BY <1>1 DEF OutboxInv, TypeOK
<1>3. Expired' /\ Claimed' /\ LeaseKeepsWorkersApart' /\ lapsed \subseteq lapsed'
  BY <1>2, ObserveKeeps, ClaimedKept, ApartKept
<1>4. \A v \in Workers : pc'[v] = "accepted" => pc[v] = "accepted" /\ First(v)' = First(v)
  BY FirstKept
<1>5. \A v \in Workers \ {w} : pc[v] = "accepted" => pc'[v] = "accepted" /\ First(v)' = First(v)
  BY FirstKept
<1>6. f \notin batch'[w] /\ deliveries[f] > 0
  BY <1>1 DEF OutboxInv, AcceptedFirst
<1>7. \A r \in Rows : Explained(r) => Explained(r)'
  BY <1>3 DEF Explained
<1>8. Explained(f)' \/ Finished(f)'
  <2>1. CASE \E v \in Workers \ {w} : f \in batch[v]
    BY <1>1, <1>7, <2>1, SharedIsExplained
  <2>2. CASE \A v \in Workers \ {w} : f \notin batch[v]
    BY <1>2, <1>6, <2>2 DEF Explained, Finished
  <2>3. QED
    BY <2>1, <2>2
<1>9. Reasons'
  <2> SUFFICES ASSUME NEW r \in Rows, deliveries'[r] > 0
               PROVE  Explained(r)' \/ Finished(r)' \/ Unmarked(r)'
    BY DEF Reasons
  <2>1. CASE r = f
    BY <1>8, <2>1
  <2>2. CASE r # f
    <3>1. Explained(r) \/ Finished(r) \/ Unmarked(r)
      BY DEF OutboxInv, Reasons
    <3>2. Finished(r) => Finished(r)'
      BY <1>2, <2>2 DEF Finished
    <3>3. Unmarked(r) => Unmarked(r)'
      BY <1>1, <1>5, <2>2 DEF Unmarked
    <3>4. QED
      BY <1>7, <3>1, <3>2, <3>3
  <2>3. QED
    BY <2>1, <2>2
<1>10. AcceptedFirst'
  BY <1>4 DEF OutboxInv, AcceptedFirst
<1>11. DuplicatesExplained'
  BY <1>7 DEF OutboxInv, DuplicatesExplained, Explained
<1>12. SentWasDelivered'
  BY <1>2, <1>6 DEF OutboxInv, SentWasDelivered
<1>13. QED
  BY <1>3, <1>9, <1>10, <1>11, <1>12

\* The provider accepts the row a worker sends; the worker learns it, or the answer is lost.
LEMMA DeliveryStep ==
    ASSUME OutboxInv, Observe, NEW w \in Workers,
           pc[w] = "sending", deliveries' = Accepted(First(w)),
           \A v \in Workers \ {w} : pc'[v] = pc[v],
           UNCHANGED <<row, batch>>, faulted \subseteq faulted',
           pc'[w] = "accepted" \/ (pc'[w] # "accepted" /\ First(w) \in faulted')
    PROVE  /\ Expired' /\ Claimed' /\ LeaseKeepsWorkersApart' /\ Reasons'
           /\ DuplicatesExplained' /\ AcceptedFirst' /\ SentWasDelivered'
<1>1. PICK f \in Rows : f = First(w) /\ f \in batch[w]
  BY FirstIsInBatch DEF OutboxInv
<1>2. /\ deliveries'[f] > 0
      /\ deliveries'[f] > 1 => deliveries[f] > 0
      /\ \A r \in Rows \ {f} : deliveries'[r] = deliveries[r]
  <2>1. deliveries[f] \in 0..2 /\ deliveries \in [Rows -> 0..2]
    BY DEF OutboxInv, TypeOK
  <2>2. deliveries'[f] = IF deliveries[f] < 2 THEN deliveries[f] + 1 ELSE 2
    BY <1>1, <2>1 DEF Accepted
  <2>3. QED
    BY <1>1, <2>1, <2>2 DEF Accepted
<1>3. Expired' /\ Claimed' /\ LeaseKeepsWorkersApart' /\ lapsed \subseteq lapsed'
  BY ObserveKeeps, ClaimedKept, ApartKept
<1>4. \A v \in Workers : First(v)' = First(v)
  BY FirstKept
<1>5. \A r \in Rows : Explained(r) => Explained(r)'
  BY <1>3 DEF Explained
<1>6. deliveries[f] > 0 => Explained(f)
  <2> SUFFICES ASSUME deliveries[f] > 0 PROVE Explained(f)
    OBVIOUS
  <2>1. Explained(f) \/ Finished(f) \/ Unmarked(f)
    BY DEF OutboxInv, Reasons
  <2>2. ~Finished(f)
    BY <1>1 DEF Finished
  <2>3. ASSUME NEW v \in Workers, pc[v] = "accepted", f = First(v)
        PROVE  Explained(f)
    <3>1. v # w /\ f \in batch[v]
      BY <2>3, FirstIsInBatch DEF OutboxInv
    <3>2. QED
      BY <1>1, <3>1, SharedIsExplained
  <2>4. QED
    BY <2>1, <2>2, <2>3 DEF Unmarked
<1>7. Explained(f)' \/ Unmarked(f)'
  BY <1>1, <1>4 DEF Explained, Unmarked
<1>8. Reasons'
  <2> SUFFICES ASSUME NEW r \in Rows, deliveries'[r] > 0
               PROVE  Explained(r)' \/ Finished(r)' \/ Unmarked(r)'
    BY DEF Reasons
  <2>1. CASE r = f
    BY <1>7, <2>1
  <2>2. CASE r # f
    <3>1. Explained(r) \/ Finished(r) \/ Unmarked(r)
      BY <1>2, <2>2 DEF OutboxInv, Reasons
    <3>2. Finished(r) => Finished(r)'
      BY DEF Finished
    <3>3. Unmarked(r) => Unmarked(r)'
      BY <1>4 DEF Unmarked
    <3>4. QED
      BY <1>5, <3>1, <3>2, <3>3
  <2>3. QED
    BY <2>1, <2>2
<1>9. AcceptedFirst'
  <2> SUFFICES ASSUME NEW v \in Workers, pc'[v] = "accepted"
               PROVE  deliveries'[First(v)] > 0
    BY <1>4 DEF AcceptedFirst
  <2>1. CASE First(v) = f
    BY <1>2, <2>1
  <2>2. CASE First(v) # f
    <3>1. pc[v] = "accepted" /\ First(v) \in Rows
      BY <1>1, <2>2, FirstIsInBatch DEF OutboxInv
    <3>2. QED
      BY <1>2, <2>2, <3>1 DEF OutboxInv, AcceptedFirst
  <2>3. QED
    BY <2>1, <2>2
<1>10. DuplicatesExplained'
  BY <1>2, <1>5, <1>6 DEF OutboxInv, DuplicatesExplained, Explained
<1>11. SentWasDelivered'
  BY <1>2 DEF OutboxInv, SentWasDelivered
<1>12. QED
  BY <1>3, <1>8, <1>9, <1>10, <1>11

\* A claim takes rows that are pending and due: whoever still holds one lets it lapse.
LEMMA ClaimStep ==
    ASSUME OutboxInv, Observe, NEW w \in Workers, ClaimOutbox(w)
    PROVE  /\ Expired' /\ Claimed' /\ LeaseKeepsWorkersApart' /\ Reasons'
           /\ DuplicatesExplained' /\ AcceptedFirst' /\ SentWasDelivered'
<1>1. /\ pc[w] = "idle" /\ pc'[w] = "next" /\ batch'[w] = OldestDue
      /\ \A v \in Workers \ {w} : pc'[v] = pc[v] /\ batch'[v] = batch[v]
      /\ UNCHANGED <<row, deliveries, faulted>>
  BY DEF ClaimOutbox, OutboxInv, TypeOK
<1>2. \A r \in OldestDue : r \in Rows /\ row[r] = "pending" /\ due[r] = 0
  BY DEF OldestDue, DueRows
<1>3. Expired' /\ lapsed \subseteq lapsed'
  BY ObserveKeeps
<1>4. Claimed'
  BY <1>1, <1>2 DEF OutboxInv, Claimed
<1>5. LeaseKeepsWorkersApart'
  <2>1. ASSUME NEW v \in Workers \ {w}, NEW r \in batch'[v] \cap batch'[w]
        PROVE  r \in lapsed'
    <3>1. r \in batch[v] /\ r \in Rows /\ row[r] = "pending" /\ due[r] = 0
      BY <1>1, <1>2, <2>1
    <3>2. QED
      BY <1>3, <3>1 DEF OutboxInv, Expired
  <2>2. ASSUME NEW u \in Workers \ {w}, NEW v \in Workers \ {w}, u # v
        PROVE  batch'[u] \cap batch'[v] \subseteq lapsed'
    BY <1>1, <1>3, <2>2 DEF OutboxInv, LeaseKeepsWorkersApart
  <2>3. QED
    BY <2>1, <2>2 DEF LeaseKeepsWorkersApart
<1>6. \A v \in Workers : pc'[v] = "accepted" => pc[v] = "accepted" /\ First(v)' = First(v)
  BY <1>1, FirstKept
<1>7. \A v \in Workers : pc[v] = "accepted" => pc'[v] = "accepted" /\ First(v)' = First(v)
  BY <1>1, FirstKept
<1>8. Reasons'
  <2> SUFFICES ASSUME NEW r \in Rows, deliveries'[r] > 0
               PROVE  Explained(r)' \/ Finished(r)' \/ Unmarked(r)'
    BY DEF Reasons
  <2>1. Explained(r) \/ Finished(r) \/ Unmarked(r)
    BY <1>1 DEF OutboxInv, Reasons
  <2>2. Explained(r) => Explained(r)'
    BY <1>1, <1>3 DEF Explained
  <2>3. Finished(r) => Finished(r)'
    BY <1>1, <1>2 DEF Finished
  <2>4. Unmarked(r) => Unmarked(r)'
    BY <1>7 DEF Unmarked
  <2>5. QED
    BY <2>1, <2>2, <2>3, <2>4
<1>9. AcceptedFirst'
  BY <1>1, <1>6 DEF OutboxInv, AcceptedFirst
<1>10. DuplicatesExplained' /\ SentWasDelivered'
  BY <1>1, <1>3 DEF OutboxInv, DuplicatesExplained, SentWasDelivered
<1>11. QED
  BY <1>3, <1>4, <1>5, <1>8, <1>9, <1>10

\* A new row is in no batch, and time moves no row between batches.
LEMMA TableStep ==
    ASSUME OutboxInv, Observe, UNCHANGED <<pc, batch, deliveries, faulted>>,
           \A r \in Rows : row'[r] = row[r] \/ (row[r] = "absent" /\ row'[r] = "pending")
    PROVE  /\ Expired' /\ Claimed' /\ LeaseKeepsWorkersApart' /\ Reasons'
           /\ DuplicatesExplained' /\ AcceptedFirst' /\ SentWasDelivered'
<1>1. Expired' /\ Claimed' /\ LeaseKeepsWorkersApart' /\ lapsed \subseteq lapsed'
  BY ObserveKeeps, ClaimedKept, ApartKept
<1>2. \A v \in Workers : First(v)' = First(v)
  BY FirstKept
<1>3. Reasons'
  BY <1>1, <1>2 DEF OutboxInv, Reasons, Explained, Finished, Unmarked
<1>4. AcceptedFirst' /\ DuplicatesExplained' /\ SentWasDelivered'
  BY <1>1, <1>2 DEF OutboxInv, AcceptedFirst, DuplicatesExplained, SentWasDelivered
<1>5. QED
  BY <1>1, <1>3, <1>4

-----------------------------------------------------------------------------
(***************************************************************************)
(* What every reachable state satisfies                                    *)
(***************************************************************************)

\* Every step keeps the invariant.
LEMMA NextOutbox ==
    ASSUME OutboxInv, [Next]_vars
    PROVE  OutboxInv'
<1>1. TypeOK'
  BY TypeStep DEF OutboxInv
<1>2. CASE UNCHANGED vars
  <2>1. \A w \in Workers : First(w)' = First(w)
    BY <1>2, FirstKept DEF vars
  <2>2. QED
    BY <1>1, <1>2, <2>1 DEF vars, OutboxInv, Expired, Claimed, LeaseKeepsWorkersApart, Reasons, Explained,
       Finished, Unmarked, DuplicatesExplained, AcceptedFirst, SentWasDelivered
<1>3. ASSUME Observe, NEW w \in Workers,
             BeginSend(w) \/ Refuse(w) \/ MarkOutboxFailed(w) \/ Restart(w)
      PROVE  OutboxInv'
  <2>1. UNCHANGED <<row, deliveries, faulted>> /\ pc[w] # "accepted"
    BY <1>3 DEF BeginSend, Refuse, MarkOutboxFailed, Restart, Advance, rowVars
  <2>2. /\ pc'[w] # "accepted" /\ batch'[w] \subseteq batch[w]
        /\ \A v \in Workers \ {w} : pc'[v] = pc[v] /\ batch'[v] = batch[v]
    BY <1>3 DEF BeginSend, Refuse, MarkOutboxFailed, Restart, Advance, OutboxInv, TypeOK
  <2>3. QED
    BY <1>1, <1>3, <2>1, <2>2, QuietStep DEF OutboxInv
<1>4. ASSUME Observe, NEW w \in Workers, Deliver(w) \/ LoseAnswer(w)
      PROVE  OutboxInv'
  <2>1. /\ pc[w] = "sending" /\ deliveries' = Accepted(First(w))
        /\ UNCHANGED <<row, batch>> /\ faulted \subseteq faulted'
    BY <1>4 DEF Deliver, LoseAnswer, rowVars
  <2>2. /\ pc'[w] = "accepted" \/ (pc'[w] # "accepted" /\ First(w) \in faulted')
        /\ \A v \in Workers \ {w} : pc'[v] = pc[v]
    BY <1>4 DEF Deliver, LoseAnswer, OutboxInv, TypeOK
  <2>3. QED
    BY <1>1, <1>4, <2>1, <2>2, DeliveryStep DEF OutboxInv
<1>5. ASSUME Observe, NEW w \in Workers, MarkOutboxSent(w) \/ LoseMark(w) \/ Stop(w)
      PROVE  OutboxInv'
  <2>1. /\ pc'[w] # "accepted" /\ batch'[w] \subseteq batch[w] \ {First(w)}
        /\ \A v \in Workers \ {w} : pc'[v] = pc[v] /\ batch'[v] = batch[v]
        /\ UNCHANGED deliveries
    BY <1>5 DEF MarkOutboxSent, LoseMark, Stop, Advance, OutboxInv, TypeOK
  <2>2. /\ faulted \subseteq faulted'
        /\ pc[w] # "accepted" => UNCHANGED row
        /\ pc[w] = "accepted" => \/ First(w) \in faulted' /\ UNCHANGED row
                                 \/ row' = [row EXCEPT ![First(w)] = "sent"]
    BY <1>5 DEF MarkOutboxSent, LoseMark, Stop, rowVars
  <2>3. CASE pc[w] # "accepted"
    BY <1>1, <1>5, <2>1, <2>2, <2>3, QuietStep DEF OutboxInv
  <2>4. CASE pc[w] = "accepted"
    BY <1>1, <1>5, <2>1, <2>2, <2>4, LeaveStep DEF OutboxInv
  <2>5. QED
    BY <2>3, <2>4
<1>6. ASSUME Observe, NEW w \in Workers, ClaimOutbox(w)
      PROVE  OutboxInv'
  BY <1>1, <1>6, ClaimStep DEF OutboxInv
<1>7. ASSUME Observe, Tick \/ \E r \in Rows : EnqueueNotification(r)
      PROVE  OutboxInv'
  <2>1. /\ UNCHANGED <<pc, batch, deliveries, faulted>>
        /\ \A r \in Rows : row'[r] = row[r] \/ (row[r] = "absent" /\ row'[r] = "pending")
    BY <1>7 DEF Tick, EnqueueNotification, OutboxInv, TypeOK
  <2>2. QED
    BY <1>1, <1>7, <2>1, TableStep DEF OutboxInv
<1>8. QED
  BY <1>2, <1>3, <1>4, <1>5, <1>6, <1>7 DEF Next, DispatchStep

\* No row exists, and no worker has anything.
LEMMA InitOutbox == Init => OutboxInv
<1> SUFFICES ASSUME Init PROVE OutboxInv
  OBVIOUS
<1>1. TypeOK
  BY ConstantsAssumption DEF Init, TypeOK
<1>2. QED
  BY <1>1 DEF Init, OutboxInv, Expired, Claimed, LeaseKeepsWorkersApart, Reasons, DuplicatesExplained,
     AcceptedFirst, SentWasDelivered

\* The invariant that the proofs rest on.
THEOREM OutboxInvariance == Spec => []OutboxInv
  BY InitOutbox, NextOutbox, PTL DEF Spec

\* The rows and the workers have their types; a worker has a batch exactly while it dispatches.
THEOREM OutboxTypes == Spec => []TypeOK
<1>1. OutboxInv => TypeOK
  BY DEF OutboxInv
<1>2. QED
  BY <1>1, OutboxInvariance, PTL

\* Two workers have a row in their batches only if its lease ran out under one of them.
THEOREM LeaseKeepsWorkersApartHolds == Spec => []LeaseKeepsWorkersApart
<1>1. OutboxInv => LeaseKeepsWorkersApart
  BY DEF OutboxInv
<1>2. QED
  BY <1>1, OutboxInvariance, PTL

\* A notification is delivered twice only after such a lapse, a stop or a lost answer.
THEOREM DuplicatesExplainedHolds == Spec => []DuplicatesExplained
<1>1. OutboxInv => DuplicatesExplained
  BY DEF OutboxInv
<1>2. QED
  BY <1>1, OutboxInvariance, PTL

\* A row that is marked as sent was accepted by its provider.
THEOREM SentWasDeliveredHolds == Spec => []SentWasDelivered
<1>1. OutboxInv => SentWasDelivered
  BY DEF OutboxInv
<1>2. QED
  BY <1>1, OutboxInvariance, PTL

-----------------------------------------------------------------------------
(***************************************************************************)
(* The invariant                                                           *)
(***************************************************************************)

\* A worker has a row of its own, in the status that its progress calls for.
LifeInv ==
    /\ status \in [Ops -> Life!StoredStatuses \cup {"none"}]
    /\ request \in [Ops -> Life!Requests \cup {NoRequest}]
    /\ worker \in [Workers -> Life!WorkerState]
    /\ \A w \in Workers :
           /\ Life!Holding(w) => worker[w].op \in Ops
           /\ worker[w].pc = "claiming" => status[worker[w].op] = "queued"
           /\ worker[w].pc \in {"executing", "waiting", "settling"} => status[worker[w].op] = "running"
           /\ worker[w].pc = "settling" => worker[w].outcome \in Life!Outcomes
    /\ Life!OneOwner

\* Workers send rows that exist.
PostInv ==
    /\ row \in [Rows -> {"absent", "pending", "sent"}]
    /\ pc \in [Workers -> {"idle", "next", "sending", "accepted", "refused", "down"}]
    /\ batch \in [Workers -> SUBSET Rows]
    /\ deliveries \in [Rows -> 0..2]
    /\ \A w \in Workers :
           /\ batch[w] = {} <=> pc[w] \in {"idle", "down"}
           /\ \A r \in batch[w] : row[r] # "absent"
    /\ \A r \in Rows : deliveries[r] > 0 => row[r] # "absent"

\* A row tells the recorded outcome of an operation that a chat asked for.
Letter(r) ==
    /\ subject[r].operation \in Life!Created
    /\ request[subject[r].operation].chat
    /\ subject[r].outcome \in Life!Outcomes
    /\ status[subject[r].operation] = subject[r].outcome

Letters == \A r \in Rows : row[r] # "absent" => Letter(r)

DeliveryInv == LifeInv /\ PostInv /\ TurnsOK /\ Letters

-----------------------------------------------------------------------------
(***************************************************************************)
(* The half of Operations                                                  *)
(***************************************************************************)

\* No operation gets or loses an outcome, and no row of operations changes or goes.
OutcomesStay ==
    /\ \A o \in Ops : status[o] \in Life!Outcomes \/ status'[o] \in Life!Outcomes
                          => status'[o] = status[o]
    /\ \A o \in Life!Created : o \in Life!Created' /\ request'[o] = request[o]

\* Handlers give no outcome and move no worker.
LEMMA HandleLife ==
    ASSUME LifeInv, Life!Handle
    PROVE  LifeInv' /\ OutcomesStay /\ UNCHANGED worker
<1> USE DEF LifeInv, OutcomesStay, Life!Created, Life!Outcomes
<1>1. ASSUME NEW p \in Principals, NEW o \in Ops, NEW r \in Life!Requests,
             Life!RequestOperation(p, o, r)
      PROVE  LifeInv' /\ OutcomesStay /\ UNCHANGED worker
  <2>1. /\ status[o] = "none"
        /\ status' = [status EXCEPT ![o] = Life!InitialStatus(r.environment)]
        /\ request' = [request EXCEPT ![o] = r]
        /\ worker' = worker
    BY <1>1 DEF Life!RequestOperation
  <2>2. Life!InitialStatus(r.environment) \in {"pending_approval", "queued"}
    BY DEF Life!InitialStatus
  <2>3. QED
    BY <2>1, <2>2 DEF Life!StoredStatuses, Life!Statuses, Life!Holding, Life!OneOwner
<1>2. ASSUME NEW o \in Ops, Life!AppendCreated(o) \/ Life!LoseCreated(o)
      PROVE  LifeInv' /\ OutcomesStay /\ UNCHANGED worker
  <2>1. UNCHANGED <<status, request, worker>>
    BY <1>2 DEF Life!AppendCreated, Life!LoseCreated, Life!rowVars
  <2>2. QED
    BY <2>1 DEF Life!Holding, Life!OneOwner
<1>3. ASSUME NEW p \in Principals, NEW o \in Ops, NEW approver \in Users,
             NEW decision \in Life!Decisions, Life!Decide(p, o, approver, decision)
      PROVE  LifeInv' /\ OutcomesStay /\ UNCHANGED worker
  <2>1. /\ status' = [status EXCEPT ![o] = Life!DecidedStatus(decision)]
        /\ UNCHANGED <<request, worker>>
    BY <1>3 DEF Life!Decide, Life!rowVars
  <2>2. Life!DecidedStatus(decision) \in {"queued", "rejected"}
    BY DEF Life!DecidedStatus
  <2>3. status[o] = "pending_approval"
    BY <1>3 DEF Life!Decide, Life!CanTransitionTo, Life!legalTransitions, Life!Decisions
  <2>4. QED
    BY <2>1, <2>2, <2>3 DEF Life!StoredStatuses, Life!Statuses, Life!Holding, Life!OneOwner
<1>4. QED
  BY <1>1, <1>2, <1>3 DEF Life!Handle

\* The steps of runOne up to the outcome.
LifeStep(w) ==
    \/ \E o \in Ops : Life!SelectQueued(w, o)
    \/ Life!CommitClaim(w)
    \/ Life!UpdateDeployment(w) \/ Life!FailUpdate(w) \/ Life!EndWait(w)

\* They move one worker, which goes on, and give no outcome.
LEMMA RunOneLife ==
    ASSUME LifeInv, NEW w \in Workers, LifeStep(w)
    PROVE  /\ LifeInv' /\ OutcomesStay
           /\ request' = request /\ Life!Created' = Life!Created
           /\ worker[w].pc # "down" /\ worker'[w].pc # "down"
           /\ \A v \in Workers \ {w} : worker'[v] = worker[v]
<1> USE DEF LifeInv
<1>1. CASE \E o \in Ops : Life!SelectQueued(w, o)
  <2>1. PICK o \in Ops : Life!SelectQueued(w, o)
    BY <1>1
  <2>2. /\ worker[w].pc = "idle"
        /\ status[o] = "queued"
        /\ \A v \in Workers : worker[v].pc = "claiming" => worker[v].op # o
        /\ worker' = [worker EXCEPT ![w] = [@ EXCEPT !.pc = "claiming", !.op = o,
                                                     !.passed = older[o] \cap Life!Queued]]
        /\ UNCHANGED <<status, request>>
    BY <2>1 DEF Life!SelectQueued, Life!Claimable, Life!Queued, Life!Locked, Life!rowVars
  <2>3. worker' \in [Workers -> Life!WorkerState]
    BY <2>2 DEF Life!WorkerState, Life!Queued
  <2>4. /\ worker'[w].pc = "claiming" /\ worker'[w].op = o
        /\ \A v \in Workers \ {w} : worker'[v] = worker[v]
    BY <2>2 DEF Life!WorkerState
  <2>5. \A v \in Workers \ {w} : Life!Holding(v) => worker[v].op # o
    BY <2>2 DEF Life!Holding
  <2>6. Life!OneOwner'
    BY <2>4, <2>5 DEF Life!OneOwner, Life!Holding
  <2>7. QED
    BY <2>2, <2>3, <2>4, <2>6 DEF Life!Holding, OutcomesStay, Life!Created
<1>2. CASE Life!CommitClaim(w)
  <2> DEFINE o == worker[w].op
  <2>1. /\ worker[w].pc = "claiming" /\ o \in Ops /\ status[o] = "queued"
        /\ status' = [status EXCEPT ![o] = "running"]
        /\ worker' = [worker EXCEPT ![w].pc = "executing"]
        /\ request' = request
    BY <1>2 DEF Life!CommitClaim, Life!Holding, Life!rowVars
  <2>2. /\ worker' \in [Workers -> Life!WorkerState]
        /\ worker'[w].pc = "executing" /\ worker'[w].op = o
        /\ \A v \in Workers \ {w} : worker'[v] = worker[v]
    BY <2>1 DEF Life!WorkerState
  <2>3. \A v \in Workers \ {w} : Life!Holding(v) => worker[v].op # o
    BY <2>1 DEF Life!OneOwner, Life!Holding
  <2>4. Life!OneOwner'
    BY <2>1, <2>2 DEF Life!OneOwner, Life!Holding
  <2>5. OutcomesStay /\ Life!Created' = Life!Created
    BY <2>1 DEF OutcomesStay, Life!Created, Life!Outcomes
  <2>6. status' \in [Ops -> Life!StoredStatuses \cup {"none"}]
    BY <2>1 DEF Life!StoredStatuses, Life!Statuses
  <2>7. QED
    BY <2>1, <2>2, <2>3, <2>4, <2>5, <2>6 DEF Life!Holding
<1>3. CASE Life!UpdateDeployment(w) \/ Life!FailUpdate(w) \/ Life!EndWait(w)
  <2>1. /\ worker[w].pc \in {"executing", "waiting"}
        /\ UNCHANGED <<status, request>>
    BY <1>3 DEF Life!UpdateDeployment, Life!FailUpdate, Life!EndWait, Life!rowVars
  <2>2. /\ worker' \in [Workers -> Life!WorkerState]
        /\ worker'[w].pc \in {"waiting", "settling"} /\ worker'[w].op = worker[w].op
        /\ worker'[w].pc = "settling" => worker'[w].outcome \in Life!Outcomes
        /\ \A v \in Workers \ {w} : worker'[v] = worker[v]
    <3>1. CASE Life!UpdateDeployment(w)
      BY <3>1 DEF Life!UpdateDeployment, Life!WorkerState
    <3>2. CASE Life!FailUpdate(w)
      BY <3>2 DEF Life!FailUpdate, Life!WorkerState, Life!Outcomes
    <3>3. CASE Life!EndWait(w)
      <4>1. PICK outcome \in Life!Outcomes :
                 worker' = [worker EXCEPT ![w] = [@ EXCEPT !.pc = "settling", !.outcome = outcome]]
        BY <3>3 DEF Life!EndWait
      <4>2. QED
        BY <4>1 DEF Life!WorkerState
    <3>4. QED
      BY <1>3, <3>1, <3>2, <3>3
  <2>3. Life!OneOwner'
    BY <2>1, <2>2 DEF Life!OneOwner, Life!Holding
  <2>4. QED
    BY <2>1, <2>2, <2>3 DEF Life!Holding, OutcomesStay, Life!Created
<1>4. QED
  BY <1>1, <1>2, <1>3 DEF LifeStep

\* A worker that lets go of its row, or is down.
LEMMA LetGo ==
    ASSUME LifeInv, NEW w \in Workers, NEW s \in {Life!Idle, Life!Down},
           worker' = [worker EXCEPT ![w] = s],
           status' \in [Ops -> Life!StoredStatuses \cup {"none"}],
           request' = request,
           \A v \in Workers \ {w} : Life!Holding(v) => status'[worker[v].op] = status[worker[v].op]
    PROVE  LifeInv'
<1> USE DEF LifeInv
<1>1. s.pc \in {"idle", "down"} /\ s \in Life!WorkerState
  BY DEF Life!Idle, Life!Down, Life!WorkerState
<1>2. /\ worker' \in [Workers -> Life!WorkerState]
      /\ ~Life!Holding(w)'
      /\ \A v \in Workers \ {w} : worker'[v] = worker[v]
  BY <1>1 DEF Life!Holding
<1>3. Life!OneOwner'
  BY <1>2 DEF Life!OneOwner, Life!Holding
<1>4. QED
  BY <1>2, <1>3 DEF Life!Holding

\* Faults, stops and restarts of runOne give no outcome.
LEMMA FaultLife ==
    ASSUME LifeInv, NEW w \in Workers,
           \/ Life!AbortClaim(w) \/ Life!LoseClaim(w) \/ Life!SettleFails(w)
           \/ Life!Stop(w) \/ Life!Restart(w)
    PROVE  LifeInv' /\ OutcomesStay /\ request' = request /\ Life!Created' = Life!Created
<1>1. CASE Life!LoseClaim(w)
  <2> DEFINE o == worker[w].op
  <2>1. /\ worker[w].pc = "claiming" /\ o \in Ops /\ status[o] = "queued"
        /\ status' = [status EXCEPT ![o] = "running"]
        /\ worker' = [worker EXCEPT ![w] = Life!Idle]
        /\ request' = request
    BY <1>1 DEF LifeInv, Life!LoseClaim, Life!Holding, Life!rowVars
  <2>2. \A v \in Workers \ {w} : Life!Holding(v) => worker[v].op # o
    BY <2>1 DEF LifeInv, Life!OneOwner, Life!Holding
  <2>3. status' \in [Ops -> Life!StoredStatuses \cup {"none"}]
    BY <2>1 DEF LifeInv, Life!StoredStatuses, Life!Statuses
  <2>4. \A v \in Workers \ {w} : Life!Holding(v) => status'[worker[v].op] = status[worker[v].op]
    BY <2>1, <2>2 DEF LifeInv
  <2>5. LifeInv'
    BY <2>1, <2>3, <2>4, LetGo
  <2>6. OutcomesStay /\ Life!Created' = Life!Created
    BY <2>1 DEF LifeInv, OutcomesStay, Life!Created, Life!Outcomes
  <2>7. QED
    BY <2>1, <2>5, <2>6
<1>2. CASE Life!AbortClaim(w) \/ Life!SettleFails(w) \/ Life!Stop(w) \/ Life!Restart(w)
  <2>1. UNCHANGED <<status, request>>
    BY <1>2 DEF Life!AbortClaim, Life!SettleFails, Life!Stop, Life!Restart, Life!rowVars
  <2>2. \E s \in {Life!Idle, Life!Down} : worker' = [worker EXCEPT ![w] = s]
    BY <1>2 DEF Life!AbortClaim, Life!SettleFails, Life!Stop, Life!Restart
  <2>3. status' \in [Ops -> Life!StoredStatuses \cup {"none"}]
    BY <2>1 DEF LifeInv
  <2>4. LifeInv'
    BY <2>1, <2>2, <2>3, LetGo
  <2>5. QED
    BY <2>1, <2>4 DEF OutcomesStay, Life!Created
<1>3. QED
  BY <1>1, <1>2

\* The outcome is that of a running operation.
LEMMA SettleLife ==
    ASSUME LifeInv, NEW w \in Workers, Life!Settle(w)
    PROVE  /\ LifeInv'
           /\ worker[w].op \in Ops /\ worker[w].outcome \in Life!Outcomes
           /\ status[worker[w].op] = "running"
           /\ status' = [status EXCEPT ![worker[w].op] = worker[w].outcome]
           /\ worker' = [worker EXCEPT ![w] = Life!Idle]
           /\ request' = request /\ Life!Created' = Life!Created
<1> DEFINE o == worker[w].op
<1>1. /\ worker[w].pc = "settling" /\ o \in Ops /\ status[o] = "running"
      /\ worker[w].outcome \in Life!Outcomes
      /\ status' = [status EXCEPT ![o] = worker[w].outcome]
      /\ worker' = [worker EXCEPT ![w] = Life!Idle]
      /\ request' = request
  BY DEF LifeInv, Life!Settle, Life!Holding, Life!rowVars
<1>2. \A v \in Workers \ {w} : Life!Holding(v) => worker[v].op # o
  BY <1>1 DEF LifeInv, Life!OneOwner, Life!Holding
<1>3. status' \in [Ops -> Life!StoredStatuses \cup {"none"}]
  BY <1>1 DEF LifeInv, Life!StoredStatuses, Life!Statuses, Life!Outcomes
<1>4. \A v \in Workers \ {w} : Life!Holding(v) => status'[worker[v].op] = status[worker[v].op]
  BY <1>1, <1>2 DEF LifeInv
<1>5. LifeInv'
  BY <1>1, <1>3, <1>4, LetGo
<1>6. Life!Created' = Life!Created
  BY <1>1 DEF LifeInv, Life!Created, Life!Outcomes
<1>7. QED
  BY <1>1, <1>5, <1>6

-----------------------------------------------------------------------------
(***************************************************************************)
(* The half of Outbox                                                      *)
(***************************************************************************)

\* A worker that dispatches stands at a row that exists.
LEMMA FirstExists ==
    ASSUME PostInv, NEW w \in Workers, pc[w] \notin {"idle", "down"}
    PROVE  First(w) \in batch[w] /\ First(w) \in Rows /\ row[First(w)] # "absent"
<1>1. batch[w] # {} /\ batch[w] \subseteq Rows /\ batch[w] \subseteq Nat
  BY ConstantsAssumption DEF PostInv
<1>2. \E r \in batch[w] : \A s \in batch[w] : r <= s
  BY <1>1, LeastRow
<1>3. First(w) \in batch[w]
  BY <1>2 DEF First
<1>4. QED
  BY <1>1, <1>3 DEF PostInv

\* No row appears or goes.
RowsStay == \A r \in Rows : row'[r] = "absent" <=> row[r] = "absent"

\* Only workers whose batch is empty are idle or down.
LEMMA PostKept ==
    ASSUME PostInv, RowsStay,
           row' \in [Rows -> {"absent", "pending", "sent"}],
           NEW w \in Workers,
           NEW p \in {"idle", "next", "sending", "accepted", "refused", "down"},
           NEW b \in SUBSET Rows,
           pc' = [pc EXCEPT ![w] = p], batch' = [batch EXCEPT ![w] = b],
           b = {} <=> p \in {"idle", "down"},
           \A r \in b : row[r] # "absent",
           deliveries' \in [Rows -> 0..2],
           \A r \in Rows : deliveries'[r] > 0 => row[r] # "absent"
    PROVE  PostInv'
  BY DEF PostInv, RowsStay

\* A claim takes rows that exist.
LEMMA ClaimPost ==
    ASSUME PostInv, NEW w \in Workers, ClaimOutbox(w)
    PROVE  PostInv' /\ RowsStay
<1> DEFINE due_ == OldestDue
<1>1. /\ due_ # {} /\ due_ \subseteq Rows
      /\ \A r \in due_ : row[r] # "absent"
  BY DEF ClaimOutbox, OldestDue, DueRows
<1>2. /\ pc' = [pc EXCEPT ![w] = "next"]
      /\ batch' = [batch EXCEPT ![w] = due_]
      /\ UNCHANGED <<row, deliveries>>
  BY DEF ClaimOutbox
<1>3. RowsStay
  BY <1>2 DEF RowsStay
<1> HIDE DEF due_
<1>4. QED
  BY <1>1, <1>2, <1>3, PostKept DEF PostInv

\* A worker tries the row it stands at.
LEMMA SendPost ==
    ASSUME PostInv, NEW w \in Workers,
           BeginSend(w) \/ Refuse(w) \/ Deliver(w) \/ LoseAnswer(w)
    PROVE  PostInv' /\ RowsStay
<1>1. pc[w] \in {"next", "sending"} /\ UNCHANGED <<row, batch>>
  BY DEF BeginSend, Refuse, Deliver, LoseAnswer, rowVars
<1>2. \E p \in {"sending", "refused", "accepted"} : pc' = [pc EXCEPT ![w] = p]
  BY DEF BeginSend, Refuse, Deliver, LoseAnswer
<1>3. First(w) \in Rows /\ row[First(w)] # "absent"
  BY <1>1, FirstExists
<1>4. deliveries' = deliveries \/ deliveries' = Accepted(First(w))
  BY DEF BeginSend, Refuse, Deliver, LoseAnswer
<1>5. /\ deliveries' \in [Rows -> 0..2]
      /\ \A r \in Rows : deliveries'[r] > 0 => row[r] # "absent"
  BY <1>3, <1>4 DEF PostInv, Accepted
<1>6. QED
  BY <1>1, <1>2, <1>5 DEF PostInv, RowsStay

\* A worker goes on to its next row.
LEMMA MarkPost ==
    ASSUME PostInv, NEW w \in Workers,
           MarkOutboxSent(w) \/ MarkOutboxFailed(w) \/ LoseMark(w)
    PROVE  PostInv' /\ RowsStay
<1> DEFINE first == First(w)
           b == batch[w] \ {first}
           p == IF batch[w] = {first} THEN "idle" ELSE "next"
<1>1. pc[w] \in {"accepted", "refused"} /\ Advance(w)
  BY DEF MarkOutboxSent, MarkOutboxFailed, LoseMark
<1>2. first \in batch[w] /\ first \in Rows /\ row[first] # "absent"
  BY <1>1, FirstExists
<1>3. /\ batch' = [batch EXCEPT ![w] = b] /\ pc' = [pc EXCEPT ![w] = p]
      /\ deliveries' = deliveries
  BY <1>1 DEF Advance
<1>4. row' = row \/ row' = [row EXCEPT ![first] = "sent"]
  BY DEF MarkOutboxSent, MarkOutboxFailed, LoseMark, rowVars
<1> HIDE DEF first
<1>5. RowsStay /\ row' \in [Rows -> {"absent", "pending", "sent"}]
  BY <1>2, <1>4 DEF PostInv, RowsStay
<1>6. b \in SUBSET Rows /\ (b = {} <=> p \in {"idle", "down"}) /\ \A r \in b : row[r] # "absent"
  BY <1>2 DEF PostInv
<1>7. p \in {"idle", "next", "sending", "accepted", "refused", "down"}
  OBVIOUS
<1> HIDE DEF b, p
<1>8. QED
  BY <1>3, <1>5, <1>6, <1>7, PostKept DEF PostInv

\* A process stops or starts, and time passes.
LEMMA ProcessPost ==
    ASSUME PostInv,
           \/ \E w \in Workers : Stop(w) \/ Restart(w)
           \/ Tick
    PROVE  PostInv' /\ RowsStay
<1>1. CASE Tick
  BY <1>1 DEF Tick, PostInv, RowsStay
<1>2. ASSUME NEW w \in Workers, Stop(w)
      PROVE  PostInv' /\ RowsStay
  BY <1>2 DEF Stop, rowVars, PostInv, RowsStay
<1>3. ASSUME NEW w \in Workers, Restart(w)
      PROVE  PostInv' /\ RowsStay
  BY <1>3 DEF Restart, rowVars, PostInv, RowsStay
<1>4. QED
  BY <1>1, <1>2, <1>3

\* A notification is a row that nobody has sent yet.
LEMMA EnqueuePost ==
    ASSUME PostInv, NEW r \in Rows, EnqueueNotification(r)
    PROVE  /\ PostInv'
           /\ row[r] = "absent" /\ row' = [row EXCEPT ![r] = "pending"]
           /\ UNCHANGED <<pc, batch, deliveries>>
  BY DEF EnqueueNotification, PostInv

-----------------------------------------------------------------------------
(***************************************************************************)
(* Both halves                                                             *)
(***************************************************************************)

\* What a row tells stays true while no outcome changes.
LEMMA LettersKept ==
    ASSUME Letters, OutcomesStay, RowsStay, subject' = subject
    PROVE  Letters'
<1> SUFFICES ASSUME NEW r \in Rows, row'[r] # "absent"
             PROVE  Letter(r)'
  BY DEF Letters
<1>1. Letter(r)
  BY DEF Letters, RowsStay
<1>2. subject[r].operation \in Ops
  BY <1>1 DEF Letter, Life!Created
<1>3. status'[subject[r].operation] = status[subject[r].operation]
  BY <1>1, <1>2 DEF Letter, OutcomesStay
<1>4. QED
  BY <1>1, <1>2, <1>3 DEF Letter, OutcomesStay

\* Where neither half has a step.
LEMMA LifeRests ==
    ASSUME UNCHANGED lifeVars
    PROVE  OutcomesStay /\ Life!Created' = Life!Created /\ (LifeInv => LifeInv')
  BY DEF lifeVars, OutcomesStay, Life!Created, LifeInv, Life!Holding, Life!OneOwner

\* Where the outbox has no step, nothing is sent.
LEMMA PostRests ==
    ASSUME UNCHANGED postVars
    PROVE  RowsStay /\ (PostInv => PostInv')
  BY DEF postVars, RowsStay, PostInv

\* At the start both halves are idle and there are no rows.
LEMMA InitDelivery == DeliveryInit => DeliveryInv
<1> SUFFICES ASSUME DeliveryInit PROVE DeliveryInv
  OBVIOUS
<1>1. LifeInv
  BY DEF DeliveryInit, Life!Init, Life!Idle, LifeInv, Life!StoredStatuses, Life!Statuses, Life!WorkerState,
         Life!Holding, Life!OneOwner
<1>2. PostInv
  BY DEF DeliveryInit, Init, PostInv
<1>3. TurnsOK
  BY DEF DeliveryInit, Life!Init, Init, Life!Idle, TurnsOK, Life!Holding
<1>4. Letters
  BY DEF DeliveryInit, Init, Letters
<1>5. QED
  BY <1>1, <1>2, <1>3, <1>4 DEF DeliveryInv

\* Handlers move no worker.
LEMMA HandleStep ==
    ASSUME DeliveryInv, Handle
    PROVE  DeliveryInv'
<1>1. LifeInv' /\ OutcomesStay /\ UNCHANGED worker
  BY HandleLife DEF DeliveryInv, Handle
<1>2. PostInv' /\ RowsStay /\ UNCHANGED <<row, pc, batch, turn, subject>>
  BY PostRests DEF DeliveryInv, Handle, postVars
<1>3. Letters'
  BY <1>1, <1>2, LettersKept DEF DeliveryInv
<1>4. TurnsOK'
  BY <1>1, <1>2 DEF DeliveryInv, TurnsOK, Life!Holding
<1>5. QED
  BY <1>1, <1>2, <1>3, <1>4 DEF DeliveryInv

\* The claim and the rollout belong to runOne.
LEMMA RunOneStep ==
    ASSUME DeliveryInv, NEW w \in Workers, RunOne(w)
    PROVE  DeliveryInv'
<1>1. turn[w] = "runOne" /\ LifeStep(w) /\ UNCHANGED <<postVars, turn, subject>>
  BY DEF RunOne, LifeStep
<1>2. /\ LifeInv' /\ OutcomesStay
      /\ worker[w].pc # "down" /\ worker'[w].pc # "down"
      /\ \A v \in Workers \ {w} : worker'[v] = worker[v]
  BY <1>1, RunOneLife DEF DeliveryInv
<1>3. PostInv' /\ RowsStay /\ UNCHANGED <<row, pc, batch>>
  BY <1>1, PostRests DEF DeliveryInv, postVars
<1>4. Letters'
  BY <1>1, <1>2, <1>3, LettersKept DEF DeliveryInv
<1>5. TurnsOK'
  BY <1>1, <1>2, <1>3 DEF DeliveryInv, TurnsOK, Life!Holding
<1>6. QED
  BY <1>2, <1>3, <1>4, <1>5 DEF DeliveryInv

\* A worker with nothing to do takes its turn.
LEMMA IdleTurn ==
    ASSUME DeliveryInv, NEW w \in Workers, FindNothing(w) \/ NothingDue(w)
    PROVE  DeliveryInv'
<1>1. UNCHANGED lifeVars /\ UNCHANGED postVars /\ subject' = subject
  BY DEF FindNothing, NothingDue
<1>2. LifeInv' /\ PostInv' /\ OutcomesStay /\ RowsStay
  BY <1>1, LifeRests, PostRests DEF DeliveryInv
<1>3. Letters'
  BY <1>1, <1>2, LettersKept DEF DeliveryInv
<1>4. TurnsOK'
  <2>1. UNCHANGED <<worker, row, pc, batch>>
    BY <1>1 DEF lifeVars, postVars
  <2>2. CASE FindNothing(w)
    BY <1>1, <2>1, <2>2 DEF FindNothing, Goes, DeliveryInv, TurnsOK, Life!Holding
  <2>3. CASE NothingDue(w)
    <3>1. batch[w] = {}
      BY <2>3 DEF NothingDue, DeliveryInv, PostInv
    <3>2. turn[w] = "dispatch" /\ turn' = [turn EXCEPT ![w] = "runOne"]
      BY <2>3 DEF NothingDue, Goes
    <3>3. QED
      BY <1>1, <2>1, <3>1, <3>2 DEF DeliveryInv, TurnsOK, Life!Holding
  <2>4. QED
    BY <2>2, <2>3
<1>5. QED
  BY <1>2, <1>3, <1>4 DEF DeliveryInv

\* Steps of a dispatch move no row of operations.
LEMMA DispatchingStep ==
    ASSUME DeliveryInv, NEW w \in Workers, Dispatch(w) \/ Accept(w) \/ DispatchFails(w)
    PROVE  DeliveryInv' /\ OutcomesStay /\ RowsStay
<1>1. /\ Dispatching(w)
      /\ \/ ClaimOutbox(w)
         \/ BeginSend(w) \/ Refuse(w) \/ Deliver(w) \/ LoseAnswer(w)
         \/ MarkOutboxSent(w) \/ MarkOutboxFailed(w) \/ LoseMark(w)
  BY DEF Dispatch, Accept, DispatchFails
<1>2. PostInv' /\ RowsStay
  BY <1>1, ClaimPost, SendPost, MarkPost DEF DeliveryInv
<1>3. /\ turn[w] = "dispatch" /\ UNCHANGED lifeVars /\ subject' = subject
      /\ turn' = [turn EXCEPT ![w] = IF pc'[w] = "idle" THEN "runOne" ELSE "dispatch"]
  BY <1>1 DEF Dispatching, Goes
<1>4. LifeInv' /\ OutcomesStay /\ worker' = worker
  BY <1>3, LifeRests DEF DeliveryInv, lifeVars
<1>5. Letters'
  BY <1>2, <1>3, <1>4, LettersKept DEF DeliveryInv
<1>6. /\ pc[w] # "down" /\ pc'[w] # "down"
      /\ \A v \in Workers \ {w} : pc'[v] = pc[v] /\ batch'[v] = batch[v]
  <2>1. CASE ClaimOutbox(w)
    BY <2>1 DEF ClaimOutbox, DeliveryInv, PostInv
  <2>2. CASE BeginSend(w) \/ Refuse(w) \/ Deliver(w) \/ LoseAnswer(w)
    BY <2>2 DEF BeginSend, Refuse, Deliver, LoseAnswer, DeliveryInv, PostInv
  <2>3. CASE MarkOutboxSent(w) \/ MarkOutboxFailed(w) \/ LoseMark(w)
    BY <2>3 DEF MarkOutboxSent, MarkOutboxFailed, LoseMark, Advance, DeliveryInv, PostInv
  <2>4. QED
    BY <1>1, <2>1, <2>2, <2>3
<1>7. TurnsOK'
  <2>1. batch'[w] # {} => turn'[w] = "dispatch"
    BY <1>2, <1>3 DEF PostInv, DeliveryInv, TurnsOK
  <2>2. QED
    BY <1>2, <1>3, <1>4, <1>6, <2>1 DEF DeliveryInv, TurnsOK, Life!Holding, RowsStay
<1>8. QED
  BY <1>2, <1>4, <1>5, <1>7 DEF DeliveryInv

\* After a fault runOne returns.
LEMMA RunOneFailsStep ==
    ASSUME DeliveryInv, NEW w \in Workers, RunOneFails(w)
    PROVE  DeliveryInv' /\ OutcomesStay
<1>1. /\ Life!AbortClaim(w) \/ Life!LoseClaim(w) \/ Life!SettleFails(w)
      /\ turn' = [turn EXCEPT ![w] = "dispatch"]
      /\ UNCHANGED <<postVars, subject>>
  BY DEF RunOneFails, Goes
<1>2. LifeInv' /\ OutcomesStay
  BY <1>1, FaultLife DEF DeliveryInv
<1>3. PostInv' /\ RowsStay /\ UNCHANGED <<row, pc, batch>>
  BY <1>1, PostRests DEF DeliveryInv, postVars
<1>4. Letters'
  BY <1>1, <1>2, <1>3, LettersKept DEF DeliveryInv
<1>5. worker[w].pc \in {"claiming", "settling"} /\ worker' = [worker EXCEPT ![w] = Life!Idle]
  BY <1>1 DEF Life!AbortClaim, Life!LoseClaim, Life!SettleFails
<1>6. /\ worker'[w].pc = "idle"
      /\ \A v \in Workers \ {w} : worker'[v] = worker[v]
  BY <1>5 DEF DeliveryInv, LifeInv, Life!Idle
<1>7. TurnsOK'
  BY <1>1, <1>3, <1>5, <1>6 DEF DeliveryInv, TurnsOK, Life!Holding
<1>8. QED
  BY <1>2, <1>3, <1>4, <1>7 DEF DeliveryInv

\* A process stops or starts with both its halves, and time passes.
LEMMA ProcessStep ==
    ASSUME DeliveryInv, (\E w \in Workers : StopReplica(w) \/ RestartReplica(w)) \/ TimePasses
    PROVE  DeliveryInv' /\ OutcomesStay
<1>1. PostInv' /\ RowsStay /\ subject' = subject
  BY ProcessPost DEF DeliveryInv, StopReplica, RestartReplica, TimePasses
<1>2. LifeInv' /\ OutcomesStay
  BY FaultLife, LifeRests DEF DeliveryInv, StopReplica, RestartReplica, TimePasses
<1>3. Letters'
  BY <1>1, <1>2, LettersKept DEF DeliveryInv
<1>4. TurnsOK'
  <2>1. CASE TimePasses
    <3>1. UNCHANGED <<worker, row, pc, batch, turn, subject>>
      BY <2>1 DEF TimePasses, lifeVars, Tick
    <3>2. QED
      BY <3>1 DEF DeliveryInv, TurnsOK, Life!Holding
  <2>2. ASSUME NEW w \in Workers, StopReplica(w)
        PROVE  TurnsOK'
    <3>1. /\ worker'[w].pc = "down" /\ pc'[w] = "down" /\ batch'[w] = {}
          /\ \A v \in Workers \ {w} : /\ worker'[v] = worker[v] /\ pc'[v] = pc[v]
                                        /\ batch'[v] = batch[v]
          /\ UNCHANGED <<row, turn, subject>>
      BY <2>2 DEF StopReplica, Life!Stop, Life!Down, Stop, rowVars, DeliveryInv, LifeInv, PostInv
    <3>2. QED
      BY <3>1 DEF DeliveryInv, TurnsOK, Life!Holding
  <2>3. ASSUME NEW w \in Workers, RestartReplica(w)
        PROVE  TurnsOK'
    <3>1. /\ worker'[w].pc = "idle" /\ pc'[w] = "idle" /\ batch[w] = {}
          /\ \A v \in Workers \ {w} : worker'[v] = worker[v] /\ pc'[v] = pc[v]
          /\ turn' = [turn EXCEPT ![w] = "runOne"]
          /\ UNCHANGED <<row, batch, subject>>
      BY <2>3 DEF RestartReplica, Life!Restart, Life!Idle, Restart, rowVars, Goes, DeliveryInv, LifeInv, PostInv
    <3>2. QED
      BY <3>1 DEF DeliveryInv, TurnsOK, Life!Holding
  <2>4. QED
    BY <2>1, <2>2, <2>3
<1>5. QED
  BY <1>1, <1>2, <1>3, <1>4 DEF DeliveryInv

\* An outcome is recorded and, for a chat, put in a row that tells of it.
LEMMA SettleStep ==
    ASSUME DeliveryInv, NEW w \in Workers, Settle(w)
    PROVE  /\ DeliveryInv'
           /\ \A r \in Rows : row[r] # "absent" => row'[r] # "absent" /\ subject'[r] = subject[r]
           /\ deliveries' = deliveries
<1> DEFINE o == worker[w].op
           letter == [operation |-> o, outcome |-> worker[w].outcome]
<1>1. /\ LifeInv'
      /\ o \in Ops /\ worker[w].outcome \in Life!Outcomes
      /\ status[o] = "running"
      /\ status' = [status EXCEPT ![o] = worker[w].outcome]
      /\ worker' = [worker EXCEPT ![w] = Life!Idle]
      /\ request' = request /\ Life!Created' = Life!Created
  BY SettleLife DEF DeliveryInv, Settle
<1>2. o \in Life!Created
  BY <1>1 DEF Life!Created
<1>3. ASSUME NEW r \in Rows, Letter(r)
      PROVE  \/ subject[r].operation # o /\ Letter(r)'
             \/ subject'[r] # subject[r]
  BY <1>1, <1>3 DEF Letter, Life!Created, Life!Outcomes, DeliveryInv, LifeInv
<1>4. /\ \A v \in Workers \ {w} : worker'[v] = worker[v]
      /\ worker'[w].pc = "idle"
      /\ turn' = [turn EXCEPT ![w] = "dispatch"]
      /\ worker[w].pc = "settling"
  BY <1>1 DEF DeliveryInv, LifeInv, Life!Idle, Settle, Goes, Life!Settle
<1>5. CASE request[o].chat
  <2>1. PICK r \in Rows : /\ EnqueueNotification(r)
                         /\ subject' = [subject EXCEPT ![r] = letter]
    BY <1>5 DEF Settle, Text
  <2>2. /\ PostInv'
        /\ row[r] = "absent" /\ row' = [row EXCEPT ![r] = "pending"]
        /\ UNCHANGED <<pc, batch, deliveries>>
    BY <2>1, EnqueuePost DEF DeliveryInv
  <2>3. subject \in [Rows -> {Nothing} \cup [operation : Ops, outcome : Life!Outcomes]]
    BY DEF DeliveryInv, TurnsOK
  <2>4. letter # Nothing /\ letter \in [operation : Ops, outcome : Life!Outcomes]
    BY <1>1 DEF Nothing, Life!Outcomes
  <2>5. letter.operation = o /\ letter.outcome = worker[w].outcome
    OBVIOUS
  <2> HIDE DEF letter
  <2>6. /\ subject'[r] = letter /\ row'[r] = "pending"
        /\ \A s \in Rows \ {r} : subject'[s] = subject[s] /\ row'[s] = row[s]
    BY <2>1, <2>2, <2>3 DEF DeliveryInv, PostInv
  <2>7. Letters'
    <3> SUFFICES ASSUME NEW s \in Rows, row'[s] # "absent"
                 PROVE  Letter(s)'
      BY DEF Letters
    <3>1. CASE s = r
      <4>1. status'[o] = worker[w].outcome
        BY <1>1 DEF DeliveryInv, LifeInv
      <4>2. QED
        BY <1>1, <1>2, <1>5, <2>5, <2>6, <3>1, <4>1 DEF Letter
    <3>2. CASE s # r
      BY <1>3, <2>6, <3>2 DEF DeliveryInv, Letters
    <3>3. QED
      BY <3>1, <3>2
  <2>8. subject' \in [Rows -> {Nothing} \cup [operation : Ops, outcome : Life!Outcomes]]
    BY <2>1, <2>3, <2>4
  <2>9. TurnsOK'
    BY <1>4, <2>2, <2>4, <2>6, <2>8 DEF DeliveryInv, TurnsOK, Life!Holding
  <2>10. QED
    BY <1>1, <2>2, <2>6, <2>7, <2>9 DEF DeliveryInv
<1>6. CASE ~request[o].chat
  <2>1. UNCHANGED <<row, pc, batch, deliveries, subject>>
    BY <1>6 DEF Settle
  <2>2. PostInv'
    BY <2>1 DEF DeliveryInv, PostInv
  <2>3. Letters'
    BY <1>3, <2>1 DEF DeliveryInv, Letters
  <2>4. TurnsOK'
    BY <1>4, <2>1 DEF DeliveryInv, TurnsOK, Life!Holding
  <2>5. QED
    BY <1>1, <2>1, <2>2, <2>3, <2>4 DEF DeliveryInv
<1>7. QED
  BY <1>5, <1>6

\* Every step keeps the invariant.
LEMMA NextDelivery == DeliveryInv /\ [DeliveryNext]_deliveryVars => DeliveryInv'
<1> SUFFICES ASSUME DeliveryInv, [DeliveryNext]_deliveryVars PROVE DeliveryInv'
  OBVIOUS
<1>1. CASE Handle
  BY <1>1, HandleStep
<1>2. CASE \E w \in Workers : RunOne(w)
  BY <1>2, RunOneStep
<1>3. CASE \E w \in Workers : FindNothing(w) \/ NothingDue(w)
  BY <1>3, IdleTurn
<1>4. CASE \E w \in Workers : Settle(w)
  BY <1>4, SettleStep
<1>5. CASE \E w \in Workers : Dispatch(w) \/ Accept(w) \/ DispatchFails(w)
  BY <1>5, DispatchingStep
<1>6. CASE \E w \in Workers : RunOneFails(w)
  BY <1>6, RunOneFailsStep
<1>7. CASE (\E w \in Workers : StopReplica(w) \/ RestartReplica(w)) \/ TimePasses
  BY <1>7, ProcessStep
<1>8. CASE UNCHANGED deliveryVars
  <2>1. UNCHANGED lifeVars /\ UNCHANGED postVars /\ UNCHANGED <<turn, subject>>
    BY <1>8 DEF deliveryVars
  <2>2. LifeInv' /\ PostInv' /\ Letters'
    BY <2>1, LifeRests, PostRests, LettersKept DEF DeliveryInv
  <2>3. TurnsOK'
    BY <2>1 DEF lifeVars, postVars, DeliveryInv, TurnsOK, Life!Holding
  <2>4. QED
    BY <2>2, <2>3 DEF DeliveryInv
<1>9. QED
  BY <1>1, <1>2, <1>3, <1>4, <1>5, <1>6, <1>7, <1>8 DEF DeliveryNext, Work

\* Every reachable state satisfies the inductive invariant.
THEOREM DeliveryInvariance == DeliverySpec => []DeliveryInv
<1>1. DeliveryInit => DeliveryInv
  BY InitDelivery
<1>2. DeliveryInv /\ [DeliveryNext]_deliveryVars => DeliveryInv'
  BY NextDelivery
<1>3. QED
  BY <1>1, <1>2, PTL DEF DeliverySpec

\* The two halves of a worker are always one goroutine (worker.go:29-41).
THEOREM TurnsHold == DeliverySpec => []TurnsOK
<1>1. DeliveryInv => TurnsOK
  BY DEF DeliveryInv
<1>2. QED
  BY <1>1, DeliveryInvariance, PTL

-----------------------------------------------------------------------------
(***************************************************************************)
(* Refinement: every step of Delivery is a step of Reporting or leaves     *)
(* what the chat knows alone.                                              *)
(***************************************************************************)

\* What was recorded changes with an outcome only.
LEMMA RecordedStays == OutcomesStay => recorded' = recorded
  BY DEF OutcomesStay, recorded

\* What was heard changes with a delivery only.
LEMMA HeardStays ==
    ASSUME deliveries' = deliveries,
           \A r \in Rows : deliveries[r] > 0 => subject'[r] = subject[r]
    PROVE  heard' = heard
<1>1. ASSUME NEW o \in Ops
      PROVE  Heard(o)' = Heard(o)
  <2>1. {s \in Rows : subject'[s].operation = o /\ deliveries'[s] > 0}
          = {s \in Rows : subject[s].operation = o /\ deliveries[s] > 0}
    OBVIOUS
  <2>2. QED
    BY <2>1 DEF Heard
<1>2. QED
  BY <1>1 DEF heard

\* A request from a chat is a question; another one, or a decision, is not seen.
LEMMA HandleReport ==
    ASSUME DeliveryInv, Handle
    PROVE  [Report!Next]_(Report!vars)
<1>1. OutcomesStay /\ UNCHANGED <<deliveries, subject>>
  BY HandleLife DEF DeliveryInv, Handle, postVars
<1>2. recorded' = recorded /\ heard' = heard
  BY <1>1, RecordedStays, HeardStays
<1>3. ASSUME NEW p \in Principals, NEW o \in Ops, NEW r \in Life!Requests,
             Life!RequestOperation(p, o, r)
      PROVE  Report!Ask(o) \/ asked' = asked
  <2>1. /\ status[o] = "none"
        /\ status' = [status EXCEPT ![o] = Life!InitialStatus(r.environment)]
        /\ request' = [request EXCEPT ![o] = r]
    BY <1>3 DEF Life!RequestOperation
  <2>2. Life!InitialStatus(r.environment) \in {"pending_approval", "queued"}
    BY DEF Life!InitialStatus
  <2>3. Life!Created' = Life!Created \cup {o} /\ o \notin Life!Created
    BY <2>1, <2>2 DEF DeliveryInv, LifeInv, Life!Created
  <2>4. request'[o] = r /\ \A c \in Ops \ {o} : request'[c] = request[c]
    BY <2>1 DEF DeliveryInv, LifeInv
  <2>5. Life!Created \subseteq Ops
    BY DEF Life!Created
  <2>6. CASE r.chat
    <3>1. asked' = asked \cup {o}
      BY <2>3, <2>4, <2>5, <2>6 DEF asked
    <3>2. recorded[o] = "none"
      BY <2>1 DEF recorded, Life!Outcomes
    <3>3. QED
      BY <1>2, <3>1, <3>2 DEF Report!Ask
  <2>7. CASE ~r.chat
    BY <2>3, <2>4, <2>5, <2>7 DEF asked
  <2>8. QED
    BY <2>6, <2>7
<1>4. ASSUME NEW o \in Ops, Life!AppendCreated(o) \/ Life!LoseCreated(o)
      PROVE  asked' = asked
  BY <1>4 DEF Life!AppendCreated, Life!LoseCreated, Life!rowVars, asked, Life!Created
<1>5. ASSUME NEW p \in Principals, NEW o \in Ops, NEW approver \in Users,
             NEW decision \in Life!Decisions, Life!Decide(p, o, approver, decision)
      PROVE  asked' = asked
  <2>1. /\ status' = [status EXCEPT ![o] = Life!DecidedStatus(decision)]
        /\ o \in Life!Created /\ request' = request
    BY <1>5 DEF Life!Decide, Life!rowVars
  <2>2. Life!DecidedStatus(decision) \in {"queued", "rejected"}
    BY DEF Life!DecidedStatus
  <2>3. Life!Created' = Life!Created
    BY <2>1, <2>2 DEF DeliveryInv, LifeInv, Life!Created
  <2>4. QED
    BY <2>1, <2>3 DEF asked
<1>6. Life!Handle
  BY DEF Handle
<1>7. (\E o \in Ops : Report!Ask(o)) \/ asked' = asked
  BY <1>3, <1>4, <1>5, <1>6 DEF Life!Handle
<1>8. QED
  BY <1>2, <1>7 DEF Report!Next, Report!vars

\* The outcome is recorded.
LEMMA SettleReport ==
    ASSUME DeliveryInv, NEW w \in Workers, Settle(w)
    PROVE  Report!Record(worker[w].op) /\ worker[w].op \in Ops
<1> DEFINE o == worker[w].op
<1>1. /\ o \in Ops /\ worker[w].outcome \in Life!Outcomes
      /\ status[o] = "running"
      /\ status' = [status EXCEPT ![o] = worker[w].outcome]
      /\ request' = request /\ Life!Created' = Life!Created
  BY SettleLife DEF DeliveryInv, Settle
<1>2. heard' = heard
  <2>1. /\ deliveries' = deliveries
        /\ \A r \in Rows : deliveries[r] > 0 => subject'[r] = subject[r]
    BY SettleStep DEF DeliveryInv, PostInv
  <2>2. QED
    BY <2>1, HeardStays
<1>3. asked' = asked
  BY <1>1 DEF asked
<1>4. recorded[o] = "none"
  BY <1>1 DEF recorded, Life!Outcomes
<1>5. recorded' = [recorded EXCEPT ![o] = worker[w].outcome]
  BY <1>1 DEF recorded, DeliveryInv, LifeInv
<1>6. QED
  BY <1>1, <1>2, <1>3, <1>4, <1>5 DEF Report!Record

\* A delivery tells the chat of the operation that the row is about.
LEMMA DeliverReport ==
    ASSUME DeliveryInv, NEW w \in Workers, Accept(w) \/ DispatchFails(w),
           Deliver(w) \/ LoseAnswer(w)
    PROVE  \E c \in Ops : Report!Tell(c)
<1>1. PICK first \in Rows : /\ row[first] # "absent" /\ pc[w] = "sending"
                            /\ deliveries' = Accepted(first)
  BY FirstExists DEF DeliveryInv, Deliver, LoseAnswer
<1>2. Letter(first)
  BY <1>1 DEF DeliveryInv, Letters
<1>3. PICK c \in Ops : /\ c = subject[first].operation /\ c \in asked
                       /\ recorded[c] = subject[first].outcome /\ recorded[c] # "none"
  BY <1>2 DEF Letter, asked, recorded, Life!Created, Life!Outcomes
<1>4. UNCHANGED lifeVars /\ subject' = subject
  BY DEF Accept, DispatchFails, Dispatching
<1>5. recorded' = recorded /\ asked' = asked
  BY <1>4, LifeRests, RecordedStays DEF lifeVars, asked
<1>6. deliveries'[first] > 0 /\ \A s \in Rows \ {first} : deliveries'[s] = deliveries[s]
  BY <1>1 DEF Accepted, DeliveryInv, PostInv
<1>7. Heard(c)' = Heard(c) \cup {recorded[c]}
  <2>1. {s \in Rows : subject'[s].operation = c /\ deliveries'[s] > 0}
          = {s \in Rows : subject[s].operation = c /\ deliveries[s] > 0} \cup {first}
    BY <1>3, <1>4, <1>6
  <2>2. QED
    BY <1>3, <1>4, <2>1 DEF Heard
<1>8. ASSUME NEW o \in Ops \ {c}
      PROVE  Heard(o)' = Heard(o)
  <2>1. {s \in Rows : subject'[s].operation = o /\ deliveries'[s] > 0}
          = {s \in Rows : subject[s].operation = o /\ deliveries[s] > 0}
    BY <1>3, <1>4, <1>6
  <2>2. QED
    BY <1>4, <2>1 DEF Heard
<1>9. heard' = [heard EXCEPT ![c] = @ \cup {recorded[c]}]
  BY <1>7, <1>8 DEF heard
<1>10. QED
  BY <1>3, <1>5, <1>9 DEF Report!Tell

\* Other steps of workers, and time, tell nobody anything.
LEMMA SilentReport ==
    ASSUME OutcomesStay, Life!Created' = Life!Created, request' = request,
           UNCHANGED <<deliveries, subject>>
    PROVE  UNCHANGED Report!vars
<1>1. recorded' = recorded /\ heard' = heard
  BY RecordedStays, HeardStays
<1>2. asked' = asked
  BY DEF asked
<1>3. QED
  BY <1>1, <1>2 DEF Report!vars

\* Every step of Delivery is a step of Reporting, or none.
LEMMA NextReport == DeliveryInv /\ [DeliveryNext]_deliveryVars => [Report!Next]_(Report!vars)
<1> SUFFICES ASSUME DeliveryInv, [DeliveryNext]_deliveryVars PROVE [Report!Next]_(Report!vars)
  OBVIOUS
<1>1. CASE Handle
  BY <1>1, HandleReport
<1>2. ASSUME NEW w \in Workers, RunOne(w)
      PROVE  UNCHANGED Report!vars
  <2>1. LifeStep(w) /\ UNCHANGED <<deliveries, subject>>
    BY <1>2 DEF RunOne, LifeStep, postVars
  <2>2. QED
    BY <2>1, RunOneLife, SilentReport DEF DeliveryInv
<1>3. ASSUME NEW w \in Workers, Settle(w)
      PROVE  Report!Next
  BY <1>3, SettleReport DEF Report!Next
<1>4. ASSUME UNCHANGED lifeVars, UNCHANGED <<deliveries, subject>>
      PROVE  UNCHANGED Report!vars
  <2>1. request' = request
    BY <1>4 DEF lifeVars
  <2>2. QED
    BY <1>4, <2>1, LifeRests, SilentReport
<1>5. ASSUME NEW w \in Workers, FindNothing(w) \/ NothingDue(w)
      PROVE  UNCHANGED Report!vars
  BY <1>4, <1>5 DEF FindNothing, NothingDue, postVars
<1>6. ASSUME NEW w \in Workers, Dispatch(w) \/ Accept(w) \/ DispatchFails(w)
      PROVE  [Report!Next]_(Report!vars)
  <2>1. CASE (Accept(w) \/ DispatchFails(w)) /\ (Deliver(w) \/ LoseAnswer(w))
    BY <2>1, DeliverReport DEF Report!Next
  <2>2. CASE Dispatch(w) \/ (DispatchFails(w) /\ LoseMark(w))
    <3>1. UNCHANGED lifeVars /\ subject' = subject
      BY <2>2 DEF Dispatch, DispatchFails, Dispatching
    <3>2. deliveries' = deliveries
      BY <2>2 DEF Dispatch, ClaimOutbox, BeginSend, Refuse, MarkOutboxSent,
         MarkOutboxFailed, LoseMark, Advance
    <3>3. QED
      BY <1>4, <3>1, <3>2
  <2>3. QED
    BY <1>6, <2>1, <2>2 DEF Accept, DispatchFails
<1>7. ASSUME NEW w \in Workers, RunOneFails(w)
      PROVE  UNCHANGED Report!vars
  <2>1. /\ Life!AbortClaim(w) \/ Life!LoseClaim(w) \/ Life!SettleFails(w)
        /\ UNCHANGED <<deliveries, subject>>
    BY <1>7 DEF RunOneFails, postVars
  <2>2. QED
    BY <2>1, FaultLife, SilentReport DEF DeliveryInv
<1>8. ASSUME NEW w \in Workers, StopReplica(w) \/ RestartReplica(w)
      PROVE  UNCHANGED Report!vars
  <2>1. /\ Life!Stop(w) \/ Life!Restart(w)
        /\ UNCHANGED <<deliveries, subject>>
    BY <1>8 DEF StopReplica, RestartReplica, Stop, Restart
  <2>2. QED
    BY <2>1, FaultLife, SilentReport DEF DeliveryInv
<1>9. CASE TimePasses
  BY <1>4, <1>9 DEF TimePasses, Tick
<1>10. CASE UNCHANGED deliveryVars
  BY <1>4, <1>10 DEF deliveryVars, postVars
<1>11. QED
  BY <1>1, <1>2, <1>3, <1>5, <1>6, <1>7, <1>8, <1>9, <1>10 DEF DeliveryNext, Work

\* Whoever settles and whoever sends, the chat hears the recorded outcome and no other.
THEOREM Refinement == DeliverySpec => ImplementsReporting
<1>1. DeliveryInit => Report!Init
  <2> SUFFICES ASSUME DeliveryInit PROVE Report!Init
    OBVIOUS
  <2>1. asked = {} /\ recorded = [o \in Ops |-> "none"]
    BY DEF DeliveryInit, Life!Init, asked, recorded, Life!Created, Life!Outcomes
  <2>2. \A o \in Ops : Heard(o) = {}
    BY DEF DeliveryInit, Init, Heard
  <2>3. heard = [o \in Ops |-> {}]
    BY <2>2 DEF heard
  <2>4. QED
    BY <2>1, <2>3 DEF Report!Init
<1>2. DeliveryInv /\ [DeliveryNext]_deliveryVars => [Report!Next]_(Report!vars)
  BY NextReport
<1>3. QED
  BY <1>1, <1>2, DeliveryInvariance, PTL DEF DeliverySpec, ImplementsReporting, Report!Spec

-----------------------------------------------------------------------------
(***************************************************************************)
(* The life cycle in the composition: what is proved of Operations by      *)
(* itself holds of it here, where its worker also sends, and where the     *)
(* faults of the outbox are counted with its own.                          *)
(***************************************************************************)
Cycle == INSTANCE OperationsProofs

\* The constants are those of Operations.
LEMMA CycleAssumption == Cycle!ConstantsAssumption
  BY LifeAssumption DEF Life!Permission, Cycle!Permission, Life!Requests, Cycle!Requests,
     Life!Actions, Cycle!Actions, Life!Kinds, Cycle!Kinds

\* Delivery and the proofs about Operations mean the same start ...
LEMMA SameStart == Life!Init => Cycle!Init
  BY DEF Life!Init, Cycle!Init, Life!Idle, Cycle!Idle

\* ... the same handlers ...
LEMMA SameHandlers == Life!Handle => Cycle!Handle
<1> USE DEF Life!rowVars, Cycle!rowVars, Life!logVars, Cycle!logVars, Life!Created, Cycle!Created,
            Life!ActsAs, Cycle!ActsAs, Life!Allows, Cycle!Allows, Life!PermissionAllows,
            Cycle!PermissionAllows
<1>1. \A p, o, r : Life!RequestOperation(p, o, r) => Cycle!RequestOperation(p, o, r)
  BY DEF Life!RequestOperation, Cycle!RequestOperation, Life!Stamp, Cycle!Stamp,
     Life!InitialStatus, Cycle!InitialStatus
<1>2. \A o : /\ Life!AppendCreated(o) => Cycle!AppendCreated(o)
             /\ Life!LoseCreated(o) => Cycle!LoseCreated(o)
  BY DEF Life!AppendCreated, Cycle!AppendCreated, Life!LoseCreated, Cycle!LoseCreated
<1>3. \A p, o, approver, decision :
          Life!Decide(p, o, approver, decision) => Cycle!Decide(p, o, approver, decision)
  BY DEF Life!Decide, Cycle!Decide, Life!MayDecide, Cycle!MayDecide, Life!SelfApproval,
     Cycle!SelfApproval, Life!CanTransitionTo, Cycle!CanTransitionTo, Life!legalTransitions,
     Cycle!legalTransitions, Life!DecidedStatus, Cycle!DecidedStatus
<1>4. Life!Requests = Cycle!Requests /\ Life!Decisions = Cycle!Decisions
  BY DEF Life!Requests, Cycle!Requests, Life!Decisions, Cycle!Decisions, Life!Kinds, Cycle!Kinds
<1>5. QED
  BY <1>1, <1>2, <1>3, <1>4 DEF Life!Handle, Cycle!Handle

\* ... and the same steps of runOne.
LEMMA SameWorker ==
    ASSUME NEW w
    PROVE  /\ LifeStep(w) \/ Life!Settle(w) => Cycle!WorkerStep(w)
           /\ Life!AbortClaim(w) => Cycle!AbortClaim(w)
           /\ Life!LoseClaim(w) => Cycle!LoseClaim(w)
           /\ Life!SettleFails(w) => Cycle!SettleFails(w)
           /\ Life!Stop(w) => Cycle!Stop(w)
           /\ Life!Restart(w) => Cycle!Restart(w)
<1> USE DEF Life!rowVars, Cycle!rowVars, Life!logVars, Cycle!logVars, Life!Idle, Cycle!Idle,
            Life!Down, Cycle!Down
<1>1. \A o : Life!SelectQueued(w, o) => Cycle!SelectQueued(w, o)
  BY DEF Life!SelectQueued, Cycle!SelectQueued, Life!Oldest, Cycle!Oldest, Life!Claimable,
     Cycle!Claimable, Life!Queued, Cycle!Queued, Life!Locked, Cycle!Locked
<1>2. Life!CommitClaim(w) => Cycle!CommitClaim(w)
  BY DEF Life!CommitClaim, Cycle!CommitClaim
<1>3. Life!UpdateDeployment(w) => Cycle!UpdateDeployment(w)
  BY DEF Life!UpdateDeployment, Cycle!UpdateDeployment
<1>4. Life!FailUpdate(w) => Cycle!FailUpdate(w)
  BY DEF Life!FailUpdate, Cycle!FailUpdate
<1>5. Life!EndWait(w) => Cycle!EndWait(w)
  BY DEF Life!EndWait, Cycle!EndWait, Life!Outcomes, Cycle!Outcomes
<1>6. Life!Settle(w) => Cycle!Settle(w)
  BY DEF Life!Settle, Cycle!Settle, Life!TransitionAllowed, Cycle!TransitionAllowed,
     Life!CanTransitionTo, Cycle!CanTransitionTo, Life!legalTransitions, Cycle!legalTransitions
<1>7. /\ Life!AbortClaim(w) => Cycle!AbortClaim(w)
      /\ Life!LoseClaim(w) => Cycle!LoseClaim(w)
      /\ Life!SettleFails(w) => Cycle!SettleFails(w)
  BY DEF Life!AbortClaim, Cycle!AbortClaim, Life!LoseClaim, Cycle!LoseClaim, Life!SettleFails,
     Cycle!SettleFails
<1>8. (Life!Stop(w) => Cycle!Stop(w)) /\ (Life!Restart(w) => Cycle!Restart(w))
  BY DEF Life!Stop, Cycle!Stop, Life!Restart, Cycle!Restart
<1>9. QED
  BY <1>1, <1>2, <1>3, <1>4, <1>5, <1>6, <1>7, <1>8 DEF LifeStep, Cycle!WorkerStep

\* A step of the composition is a step of the life cycle, or at most a fault of the rest.
LEMMA StepOfLife ==
    ASSUME [DeliveryNext]_deliveryVars
    PROVE  \/ Cycle!Next
           \/ /\ UNCHANGED lifeVars
              /\ faults' = faults \/ (faults < MaxFaults /\ faults' = faults + 1)
<1>1. CASE Handle
  BY <1>1, SameHandlers DEF Handle, Cycle!Next
<1>2. CASE \E w \in Workers : RunOne(w) \/ Settle(w) \/ RunOneFails(w)
  BY <1>2, SameWorker DEF RunOne, LifeStep, Settle, RunOneFails, Cycle!Next
<1>3. CASE \E w \in Workers : StopReplica(w) \/ RestartReplica(w)
  BY <1>3, SameWorker DEF StopReplica, RestartReplica, Cycle!Next
<1>4. CASE \E w \in Workers : FindNothing(w) \/ NothingDue(w)
  BY <1>4 DEF FindNothing, NothingDue
<1>5. CASE \E w \in Workers : Dispatch(w) \/ Accept(w)
  BY <1>5 DEF Dispatch, Accept, Dispatching, ClaimOutbox, BeginSend, Refuse, MarkOutboxSent,
     MarkOutboxFailed, Deliver
<1>6. CASE \E w \in Workers : DispatchFails(w)
  BY <1>6 DEF DispatchFails, Dispatching, LoseAnswer, LoseMark
<1>7. CASE TimePasses \/ UNCHANGED deliveryVars
  BY <1>7 DEF TimePasses, Tick, deliveryVars
<1>8. QED
  BY <1>1, <1>2, <1>3, <1>4, <1>5, <1>6, <1>7 DEF DeliveryNext, Work

\* The composition keeps the invariant of the life cycle.
LEMMA NextCycle == Cycle!LifeCycleInv /\ [DeliveryNext]_deliveryVars => Cycle!LifeCycleInv'
<1> SUFFICES ASSUME Cycle!LifeCycleInv, [DeliveryNext]_deliveryVars
             PROVE  Cycle!LifeCycleInv'
  OBVIOUS
<1>1. CASE Cycle!Next
  BY <1>1, CycleAssumption, Cycle!NextLifeCycle
<1>2. CASE /\ UNCHANGED lifeVars
           /\ faults' = faults \/ (faults < MaxFaults /\ faults' = faults + 1)
  <2>1. faults \in 0..MaxFaults /\ MaxFaults \in Nat
    BY ConstantsAssumption DEF Cycle!LifeCycleInv, Cycle!IInv, Cycle!TypeOK
  <2>2. faults' \in {faults, faults + 1} /\ faults' \in 0..MaxFaults
    BY <1>2, <2>1
  <2>3. UNCHANGED <<status, request, older, approvals, unlogged, events, outbox, rollouts, worker>>
    BY <1>2 DEF lifeVars
  <2>4. QED
    BY <2>2, <2>3, CycleAssumption, Cycle!FaultElsewhere
<1>3. QED
  BY <1>1, <1>2, StepOfLife

\* The life cycle in the composition.
LEMMA CycleInvariance == DeliverySpec => []Cycle!LifeCycleInv
<1>1. DeliveryInit => Cycle!LifeCycleInv
  BY CycleAssumption, SameStart, Cycle!InitLifeCycle DEF DeliveryInit
<1>2. QED
  BY <1>1, NextCycle, PTL DEF DeliverySpec

\* What Operations guarantees of approvals, owners, updates and the order of claims.
LifeGuarantees ==
    /\ Life!FourEyes /\ Life!OneDecision
    /\ Life!OneOwner /\ Life!RolledOutAtMostOnce /\ Life!SuccessIsReal
    /\ Life!OutcomeIsPublished
    /\ Life!LossesByFaultsOnly
    /\ Life!ClaimsInOrder

\* A replica that sends between its rollouts breaks none of the promises made of
\* operations, nor the order in which they are claimed (worker.go:29-100).
THEOREM LifeGuaranteesHold == DeliverySpec => []LifeGuarantees
<1>1. Cycle!LifeCycleInv => LifeGuarantees
  <2> SUFFICES ASSUME Cycle!LifeCycleInv PROVE LifeGuarantees
    OBVIOUS
  <2> USE DEF Cycle!LifeCycleInv, Cycle!IInv, Cycle!Ledger, Cycle!LossInv, Life!Created,
              Cycle!Created, Life!Outcomes, Cycle!Outcomes
  <2>1. Life!FourEyes
    BY DEF Life!FourEyes, Cycle!FourEyes, Life!Released, Cycle!Released,
       Life!ApprovedByAnother, Cycle!ApprovedByAnother
  <2>2. Life!OneDecision
    BY DEF Life!OneDecision, Cycle!OneDecision, Life!Released, Cycle!Released
  <2>3. Life!OneOwner
    BY DEF Life!OneOwner, Cycle!OneOwner, Life!Holding, Cycle!Holding
  <2>4. Life!RolledOutAtMostOnce /\ Life!SuccessIsReal
    BY DEF Life!RolledOutAtMostOnce, Cycle!RolledOutAtMostOnce, Life!SuccessIsReal,
       Cycle!SuccessIsReal
  <2>5. Life!OutcomeIsPublished
    BY DEF Life!OutcomeIsPublished, Cycle!OutcomeIsPublished
  <2>6. Life!LossesByFaultsOnly
    <3>1. Life!Stranded = Cycle!Stranded
      BY DEF Life!Stranded, Cycle!Stranded
    <3>2. Life!Unannounced = Cycle!Unannounced
      BY DEF Life!Unannounced, Cycle!Unannounced
    <3>3. \A S : Life!Cardinality(S) = Cycle!Cardinality(S)
      BY DEF Life!Cardinality, Cycle!Cardinality
    <3>4. QED
      BY <3>1, <3>2, <3>3 DEF Life!LossesByFaultsOnly, Cycle!LossesByFaultsOnly
  <2>7. Life!ClaimsInOrder
    BY DEF Cycle!OrderInv, Cycle!PassedInv, Life!ClaimsInOrder, Life!Queued, Cycle!Queued,
       Life!Locked, Cycle!Locked
  <2>8. QED
    BY <2>1, <2>2, <2>3, <2>4, <2>5, <2>6, <2>7 DEF LifeGuarantees
<1>2. QED
  BY <1>1, CycleInvariance, PTL

-----------------------------------------------------------------------------
(***************************************************************************)
(* The outbox in the composition: its leases hold although the faults that *)
(* they are proved against are now also those of the life cycle.           *)
(***************************************************************************)

\* A fault of the life cycle is none of the outbox.
LEMMA OutboxRests ==
    ASSUME OutboxInv, UNCHANGED postVars, faults' \in 0..MaxFaults
    PROVE  OutboxInv'
<1>1. \A w \in Workers : First(w)' = First(w)
  BY FirstKept DEF postVars
<1>2. TypeOK'
  BY DEF OutboxInv, TypeOK, postVars
<1>3. QED
  BY <1>1, <1>2 DEF postVars, OutboxInv, Expired, Claimed, LeaseKeepsWorkersApart, Reasons,
     Explained, Finished, Unmarked, DuplicatesExplained, AcceptedFirst, SentWasDelivered

\* An operation that no chat asked for ends without a row.
LEMMA OutboxObserves ==
    ASSUME OutboxInv, Observe,
           UNCHANGED <<row, due, pc, batch, elapsed, deliveries, faulted, faults>>
    PROVE  OutboxInv'
<1>1. lapsed' \subseteq Rows
  BY DEF OutboxInv, TypeOK, Observe
<1>2. TypeOK'
  BY <1>1 DEF OutboxInv, TypeOK
<1>3. QED
  BY <1>2, TableStep DEF OutboxInv

\* Every other step of the composition is a step of the outbox.
LEMMA OutboxStep ==
    ASSUME \/ \E w \in Workers : Dispatch(w) \/ Accept(w) \/ DispatchFails(w)
           \/ \E w \in Workers : StopReplica(w) \/ RestartReplica(w)
           \/ TimePasses
    PROVE  Next
<1>1. CASE \E w \in Workers : Dispatch(w) \/ Accept(w) \/ DispatchFails(w)
  BY <1>1 DEF Dispatch, Accept, DispatchFails, Dispatching, Next, DispatchStep
<1>2. CASE \E w \in Workers : StopReplica(w) \/ RestartReplica(w)
  BY <1>2 DEF StopReplica, RestartReplica, Next
<1>3. CASE TimePasses
  BY <1>3 DEF TimePasses, Next
<1>4. QED
  BY <1>1, <1>2, <1>3

\* The composition keeps the invariant of the outbox.
LEMMA NextPost ==
    ASSUME OutboxInv, Cycle!LifeCycleInv, [DeliveryNext]_deliveryVars
    PROVE  OutboxInv'
<1>1. faults' \in 0..MaxFaults
  <2>1. Cycle!LifeCycleInv'
    BY NextCycle
  <2>2. QED
    BY <2>1 DEF Cycle!LifeCycleInv, Cycle!IInv, Cycle!TypeOK
<1>2. CASE UNCHANGED postVars
  BY <1>1, <1>2, OutboxRests
<1>3. ASSUME NEW w \in Workers, Settle(w)
      PROVE  OutboxInv'
  <2>1. CASE request[worker[w].op].chat
    <3>1. Next
      BY <1>3, <2>1 DEF Settle, Next
    <3>2. QED
      BY <3>1, NextOutbox
  <2>2. CASE ~request[worker[w].op].chat
    <3>1. UNCHANGED <<row, due, pc, batch, elapsed, deliveries, faulted>> /\ Observe
      BY <1>3, <2>2 DEF Settle
    <3>2. faults' = faults
      BY <1>3 DEF Settle, Life!Settle
    <3>3. QED
      BY <3>1, <3>2, OutboxObserves
  <2>3. QED
    BY <2>1, <2>2
<1>4. CASE \/ \E w \in Workers : Dispatch(w) \/ Accept(w) \/ DispatchFails(w)
           \/ \E w \in Workers : StopReplica(w) \/ RestartReplica(w)
           \/ TimePasses
  BY <1>4, OutboxStep, NextOutbox
<1>5. CASE Handle \/ \E w \in Workers : RunOne(w) \/ RunOneFails(w)
                                        \/ FindNothing(w) \/ NothingDue(w)
  BY <1>2, <1>5 DEF Handle, RunOne, RunOneFails, FindNothing, NothingDue
<1>6. CASE UNCHANGED deliveryVars
  BY <1>2, <1>6 DEF deliveryVars
<1>7. QED
  BY <1>3, <1>4, <1>5, <1>6 DEF DeliveryNext, Work

\* The outbox in the composition.
LEMMA PostInvariance == DeliverySpec => []OutboxInv
<1>1. DeliveryInit => OutboxInv
  BY InitOutbox DEF DeliveryInit
<1>2. OutboxInv /\ Cycle!LifeCycleInv /\ [DeliveryNext]_deliveryVars => OutboxInv'
  BY NextPost
<1>3. QED
  BY <1>1, <1>2, CycleInvariance, PTL DEF DeliverySpec

\* What Outbox guarantees of leases, duplicates and marks.
OutboxGuarantees == LeaseKeepsWorkersApart /\ DuplicatesExplained /\ SentWasDelivered

\* A worker that waits for rollouts between its batches keeps the leases of the outbox:
\* it has no batch while it waits (worker.go:29-41, worker.go:75-100).
THEOREM OutboxGuaranteesHold == DeliverySpec => []OutboxGuarantees
<1>1. OutboxInv => OutboxGuarantees
  BY DEF OutboxInv, OutboxGuarantees
<1>2. QED
  BY <1>1, PostInvariance, PTL

-----------------------------------------------------------------------------
(***************************************************************************)
(* Between the two: the rows of the outbox are the notifications that the  *)
(* life cycle counts, one for each outcome that a chat waits for.          *)
(***************************************************************************)

\* An operation has a row if it is counted to have one, and no second.
OneLetter ==
    \A o \in Ops :
        /\ outbox[o] = 0 <=> \A r \in Rows : subject[r].operation # o
        /\ \A r, s \in Rows : subject[r].operation = o /\ subject[s].operation = o => r = s

\* No row is about anything yet.
LEMMA InitOneLetter == DeliveryInit => OneLetter
  BY LifeAssumption DEF DeliveryInit, Life!Init, OneLetter, Nothing

\* Only the end of an operation writes to the table.
LEMMA NothingWritten ==
    ASSUME [DeliveryNext]_deliveryVars, ~ \E w \in Workers : Settle(w)
    PROVE  UNCHANGED <<outbox, subject>>
<1>1. CASE Handle
  BY <1>1 DEF Handle, Life!Handle, Life!RequestOperation, Life!AppendCreated,
     Life!LoseCreated, Life!Decide
<1>2. ASSUME NEW w \in Workers, RunOne(w)
      PROVE  UNCHANGED <<outbox, subject>>
  BY <1>2 DEF RunOne, Life!SelectQueued, Life!CommitClaim, Life!UpdateDeployment,
     Life!FailUpdate, Life!EndWait
<1>3. ASSUME NEW w \in Workers, RunOneFails(w)
      PROVE  UNCHANGED <<outbox, subject>>
  BY <1>3 DEF RunOneFails, Life!AbortClaim, Life!LoseClaim, Life!SettleFails
<1>4. ASSUME NEW w \in Workers, StopReplica(w) \/ RestartReplica(w)
      PROVE  UNCHANGED <<outbox, subject>>
  BY <1>4 DEF StopReplica, RestartReplica, Life!Stop, Life!Restart
<1>5. ASSUME NEW w \in Workers,
             FindNothing(w) \/ Dispatch(w) \/ Accept(w) \/ NothingDue(w) \/ DispatchFails(w)
      PROVE  UNCHANGED <<outbox, subject>>
  BY <1>5 DEF FindNothing, Dispatch, Accept, NothingDue, DispatchFails, Dispatching, lifeVars
<1>6. CASE TimePasses \/ UNCHANGED deliveryVars
  BY <1>6 DEF TimePasses, deliveryVars, lifeVars
<1>7. QED
  BY <1>1, <1>2, <1>3, <1>4, <1>5, <1>6 DEF DeliveryNext, Work

\* The operation that ends had no row, and gets one if a chat asked for it.
LEMMA SettleOneLetter ==
    ASSUME DeliveryInv, Cycle!LifeCycleInv, OneLetter, NEW w \in Workers, Settle(w)
    PROVE  OneLetter'
<1> DEFINE o == worker[w].op
           letter == [operation |-> o, outcome |-> worker[w].outcome]
<1>1. o \in Ops /\ status[o] = "running"
  BY SettleLife DEF DeliveryInv, Settle
<1>2. outbox \in [Ops -> Nat] /\ outbox[o] = 0
  BY <1>1 DEF Cycle!LifeCycleInv, Cycle!IInv, Cycle!TypeOK, Cycle!Ledger,
     Cycle!OutcomeIsPublished, Cycle!Created, Cycle!Outcomes
<1>3. CASE request[o].chat
  <2>1. outbox' = [outbox EXCEPT ![o] = @ + 1]
    BY <1>3 DEF Settle, Life!Settle
  <2>2. outbox'[o] # 0 /\ \A c \in Ops \ {o} : outbox'[c] = outbox[c]
    BY <1>1, <1>2, <2>1
  <2>3. PICK r \in Rows : row[r] = "absent" /\ subject' = [subject EXCEPT ![r] = letter]
    BY <1>3 DEF Settle, Text, EnqueueNotification
  <2>4. subject[r] = Nothing /\ NoOp \notin Ops
    BY <2>3, LifeAssumption DEF DeliveryInv, TurnsOK
  <2>5. /\ subject'[r].operation = o
        /\ \A s \in Rows \ {r} : subject'[s] = subject[s]
    BY <2>3 DEF DeliveryInv, TurnsOK
  <2>6. \A c \in Ops \ {o}, s \in Rows : subject'[s].operation = c <=> subject[s].operation = c
    BY <2>4, <2>5 DEF Nothing
  <2>7. \A s \in Rows : subject'[s].operation = o <=> s = r
    BY <1>1, <1>2, <2>5 DEF OneLetter
  <2>8. QED
    BY <2>2, <2>6, <2>7 DEF OneLetter
<1>4. CASE ~request[o].chat
  BY <1>4 DEF Settle, Life!Settle, OneLetter
<1>5. QED
  BY <1>3, <1>4

\* One row for each outcome, in the composition.
LEMMA OneLetterInvariance == DeliverySpec => []OneLetter
<1>1. OneLetter /\ DeliveryInv /\ Cycle!LifeCycleInv /\ [DeliveryNext]_deliveryVars => OneLetter'
  BY NothingWritten, SettleOneLetter DEF OneLetter
<1>2. QED
  BY <1>1, InitOneLetter, DeliveryInvariance, CycleInvariance, PTL DEF DeliverySpec

\* The outcome of an operation that a chat asked for is in a row of the outbox and in
\* one only, and a row that is marked as sent has told the chat this outcome alone.
ChatsAreTold ==
    /\ \A o \in asked : status[o] \in Life!Outcomes =>
           \E r \in Rows : /\ row[r] # "absent"
                           /\ subject[r] = [operation |-> o, outcome |-> status[o]]
                           /\ \A s \in Rows : subject[s].operation = o => s = r
    /\ \A r \in Rows : row[r] = "sent" =>
           Heard(subject[r].operation) = {status[subject[r].operation]}

\* The row of an outcome is there once the outcome is, survives every stop and refusal,
\* and its mark is true: the transaction that records an outcome inserts its row, and
\* only a send that was accepted marks it (store.go:403-416, worker.go:75-100).
THEOREM ChatsAreToldHolds == DeliverySpec => []ChatsAreTold
<1>1. DeliveryInv /\ Cycle!LifeCycleInv /\ OutboxInv /\ OneLetter => ChatsAreTold
  <2> SUFFICES ASSUME DeliveryInv, Cycle!LifeCycleInv, OutboxInv, OneLetter
               PROVE  ChatsAreTold
    OBVIOUS
  <2>1. ASSUME NEW o \in asked, status[o] \in Life!Outcomes
        PROVE  \E r \in Rows : /\ row[r] # "absent"
                               /\ subject[r] = [operation |-> o, outcome |-> status[o]]
                               /\ \A s \in Rows : subject[s].operation = o => s = r
    <3>1. o \in Ops /\ status[o] # "none" /\ request[o].chat
      BY <2>1 DEF asked, Life!Created
    <3>2. outbox[o] # 0
      <4>1. Cycle!OutcomeIsPublished
        BY DEF Cycle!LifeCycleInv, Cycle!Ledger
      <4>2. o \in Cycle!Created /\ status[o] \in Cycle!Outcomes
        BY <2>1, <3>1 DEF Cycle!Created, Cycle!Outcomes, Life!Outcomes
      <4>3. outbox[o] = 1
        BY <3>1, <4>1, <4>2 DEF Cycle!OutcomeIsPublished
      <4>4. QED
        BY <4>3
    <3>3. PICK r \in Rows : subject[r].operation = o
      BY <3>1, <3>2 DEF OneLetter
    <3>4. row[r] # "absent" /\ subject[r] \in [operation : Ops, outcome : Life!Outcomes]
      BY <3>1, <3>3, LifeAssumption DEF DeliveryInv, TurnsOK, Nothing
    <3>5. subject[r].outcome = status[o]
      BY <3>3, <3>4 DEF DeliveryInv, Letters, Letter
    <3>6. subject[r] = [operation |-> o, outcome |-> status[o]]
      BY <3>3, <3>4, <3>5
    <3>7. QED
      BY <3>1, <3>3, <3>4, <3>6 DEF OneLetter
  <2>2. ASSUME NEW r \in Rows, row[r] = "sent"
        PROVE  Heard(subject[r].operation) = {status[subject[r].operation]}
    <3> DEFINE o == subject[r].operation
    <3>1. o \in Ops /\ subject[r].outcome = status[o]
      BY <2>2 DEF DeliveryInv, Letters, Letter, Life!Created
    <3>2. deliveries[r] > 0
      BY <2>2 DEF OutboxInv, SentWasDelivered
    <3>3. {s \in Rows : subject[s].operation = o /\ deliveries[s] > 0} = {r}
      BY <3>1, <3>2 DEF OneLetter
    <3>4. QED
      BY <3>1, <3>3 DEF Heard
  <2>3. QED
    BY <2>1, <2>2 DEF ChatsAreTold
<1>2. QED
  BY <1>1, DeliveryInvariance, CycleInvariance, PostInvariance, OneLetterInvariance, PTL

-----------------------------------------------------------------------------
(***************************************************************************)
(* Change control in the composition.                                      *)
(***************************************************************************)

\* Both proofs mean the same phases, proposers, gates and consents, before and after a
\* step.
LEMMA SameControl ==
    /\ Life!phase = Cycle!phase /\ Life!phase' = Cycle!phase'
    /\ Life!proposer = Cycle!proposer /\ Life!proposer' = Cycle!proposer'
    /\ Life!gated = Cycle!gated /\ Life!gated' = Cycle!gated'
    /\ Life!consent = Cycle!consent /\ Life!consent' = Cycle!consent'
<1>1. \A s : Life!PhaseOf(s) = Cycle!PhaseOf(s)
  BY DEF Life!PhaseOf, Cycle!PhaseOf
<1>2. Life!phase = Cycle!phase /\ Life!phase' = Cycle!phase'
  BY <1>1 DEF Life!phase, Cycle!phase
<1>3. Life!proposer = Cycle!proposer /\ Life!proposer' = Cycle!proposer'
  BY DEF Life!proposer, Cycle!proposer
<1>4. Life!gated = Cycle!gated /\ Life!gated' = Cycle!gated'
  BY DEF Life!gated, Cycle!gated, Life!Created, Cycle!Created
<1>5. Life!consent = Cycle!consent /\ Life!consent' = Cycle!consent'
  BY DEF Life!consent, Cycle!consent
<1>6. QED
  BY <1>2, <1>3, <1>4, <1>5

\* A step that leaves the life cycle alone leaves its changes alone.
LEMMA ControlRests ==
    ASSUME UNCHANGED lifeVars
    PROVE  UNCHANGED Life!Control!vars
<1>1. UNCHANGED <<status, request, approvals, rollouts>>
  BY DEF lifeVars
<1>2. Life!phase' = Life!phase /\ Life!consent' = Life!consent
  BY <1>1 DEF Life!phase, Life!consent
<1>3. Life!proposer' = Life!proposer /\ Life!gated' = Life!gated
  BY <1>1 DEF Life!proposer, Life!gated, Life!Created
<1>4. QED
  BY <1>1, <1>2, <1>3 DEF Life!Control!vars

\* The steps of ChangeControl are the same in both.
LEMMA SameChange ==
    ASSUME [Cycle!Control!Next]_(Cycle!Control!vars)
    PROVE  [Life!Control!Next]_(Life!Control!vars)
<1>1. /\ Life!phase = Cycle!phase /\ Life!proposer = Cycle!proposer
      /\ Life!gated = Cycle!gated /\ Life!consent = Cycle!consent
  BY SameControl
<1>2. /\ Life!phase' = Cycle!phase' /\ Life!proposer' = Cycle!proposer'
      /\ Life!gated' = Cycle!gated' /\ Life!consent' = Cycle!consent'
  BY SameControl
<1>3. CASE UNCHANGED Cycle!Control!vars
  BY <1>1, <1>2, <1>3 DEF Life!Control!vars, Cycle!Control!vars
<1>4. ASSUME NEW c \in Ops, NEW who \in Users
      PROVE  /\ Cycle!Control!Propose(c, who) => Life!Control!Propose(c, who)
             /\ Cycle!Control!Authorise(c, who) => Life!Control!Authorise(c, who)
             /\ Cycle!Control!Refuse(c, who) => Life!Control!Refuse(c, who)
  BY <1>1, <1>2 DEF Life!Control!Propose, Cycle!Control!Propose, Life!Control!Authorise,
     Cycle!Control!Authorise, Life!Control!Refuse, Cycle!Control!Refuse
<1>5. ASSUME NEW c \in Ops
      PROVE  /\ Cycle!Control!Start(c) => Life!Control!Start(c)
             /\ Cycle!Control!TakeEffect(c) => Life!Control!TakeEffect(c)
             /\ Cycle!Control!End(c) => Life!Control!End(c)
  BY <1>1, <1>2 DEF Life!Control!Start, Cycle!Control!Start, Life!Control!TakeEffect,
     Cycle!Control!TakeEffect, Life!Control!End, Cycle!Control!End
<1>6. CASE Cycle!Control!Next
  BY <1>4, <1>5, <1>6 DEF Life!Control!Next, Cycle!Control!Next
<1>7. QED
  BY <1>3, <1>6

\* Every step of the composition is a step of ChangeControl, or none.
LEMMA NextChange ==
    ASSUME Cycle!LifeCycleInv, [DeliveryNext]_deliveryVars
    PROVE  [Life!Control!Next]_(Life!Control!vars)
<1>1. CASE Cycle!Next
  <2>1. [Cycle!Control!Next]_(Cycle!Control!vars)
    BY <1>1, CycleAssumption, Cycle!NextControl DEF Cycle!LifeCycleInv
  <2>2. QED
    BY <2>1, SameChange
<1>2. CASE UNCHANGED lifeVars
  BY <1>2, ControlRests
<1>3. QED
  BY <1>1, <1>2, StepOfLife

\* A replica that sends between its rollouts keeps the promises of ChangeControl: nothing
\* that the outbox does starts, ends or repeats a change (worker.go:29-100).
THEOREM ChangeControlHolds == DeliverySpec => Life!ImplementsChangeControl
<1>1. DeliveryInit => Life!Control!Init
  <2> SUFFICES ASSUME DeliveryInit PROVE Life!Control!Init
    OBVIOUS
  <2>1. Cycle!Control!Init
    BY CycleAssumption, SameStart, Cycle!InitControl DEF DeliveryInit
  <2>2. QED
    BY <2>1, SameControl DEF Life!Control!Init, Cycle!Control!Init
<1>2. Cycle!LifeCycleInv /\ [DeliveryNext]_deliveryVars
          => [Life!Control!Next]_(Life!Control!vars)
  BY NextChange
<1>3. QED
  BY <1>1, <1>2, CycleInvariance, PTL DEF DeliverySpec, Life!ImplementsChangeControl,
     Life!Control!Spec

=============================================================================
