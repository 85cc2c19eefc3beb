----------------------------- MODULE RolloutProofs -----------------------------
(***************************************************************************)
(* Proofs about Rollout, for every set of templates, of jobs and of sizes, *)
(* with any number of conflicts and changes of size.                       *)
(*                                                                         *)
(* What a job knows is tied to the Deployment in two ways: a copy that is  *)
(* not stale has the size of the object, and so has a size to wait for,    *)
(* unless the Deployment was scaled since.  Revisions are tied to the      *)
(* history: the largest never falls, so a new one is a number that no      *)
(* template of the history had.  The types need both.                      *)
(***************************************************************************)
EXTENDS Rollout, TLAPS

\* What a job in state s has read of the size still is the size n, or s tells.
KnowsSize(j, s, n) ==
    /\ s.fresh => s.copy = n
    /\ HasRead(j, s) /\ ~s.rescaled => s.desired = n

\* A job that waits has its template in place, or another job replaced it.
HasPlace(s, t) ==
    /\ s.pc \in {"get", "update", "wait"} => s.goal \in Templates
    /\ s.pc = "wait" /\ ~s.superseded => t = s.goal

\* The types of what jobs read, write and remember.
JobsOK ==
    /\ replicas \in Sizes
    /\ template \in Templates
    /\ job \in [Jobs -> JobState]

JobInv == \A j \in Jobs : KnowsSize(j, job[j], replicas) /\ HasPlace(job[j], template)

CountInv == report.observed => report.updated \in counted

IInv == JobsOK /\ ScalePreserved /\ JobInv /\ CountInv

-----------------------------------------------------------------------------
(***************************************************************************)
(* Steps of jobs                                                           *)
(***************************************************************************)

\* There is a first attempt.
LEMMA NoTriesYet == 0 \in 0..(MaxTries - 1)
  BY ConstantsAssumption

\* A job that has ended knows nothing, and nothing is asked of it.
LEMMA EndedState ==
    ASSUME NEW j \in Jobs, NEW pc \in {"succeeded", "failed"}, NEW n, NEW t
    PROVE  At(j, pc) \in JobState /\ KnowsSize(j, At(j, pc), n) /\ HasPlace(At(j, pc), t)
  BY NoTriesYet DEF At, JobState, KnowsSize, HasRead, HasPlace

\* A step that moves one job, to a state that is right for it, and leaves the spec.
LEMMA OneMoves ==
    ASSUME IInv, NEW j \in Jobs, NEW state \in JobState,
           job' = [job EXCEPT ![j] = state],
           KnowsSize(j, state, replicas), HasPlace(state, template),
           UNCHANGED <<specVars, wanted>>
    PROVE  JobsOK' /\ ScalePreserved' /\ JobInv'
<1>1. \A k \in Jobs : job'[k] = IF k = j THEN state ELSE job[k]
  BY DEF IInv, JobsOK
<1>2. JobsOK' /\ ScalePreserved'
  BY DEF IInv, JobsOK, ScalePreserved, specVars
<1>3. JobInv'
  BY <1>1 DEF IInv, JobInv, specVars
<1>4. QED
  BY <1>2, <1>3

\* Reads and endings of jobs.
LEMMA QuietJobStep ==
    ASSUME IInv, NEW j \in Jobs,
           \/ ReadSize(j) \/ FindRevision(j) \/ Get(j) \/ Retry(j)
           \/ Succeed(j) \/ TimeOut(j) \/ FailCall(j)
    PROVE  IInv'
<1> USE ConstantsAssumption
<1>1. job[j] \in JobState /\ KnowsSize(j, job[j], replicas) /\ HasPlace(job[j], template)
      /\ replicas \in Sizes
  BY DEF IInv, JobsOK, JobInv
<1>2. UNCHANGED <<specVars, report, ghostVars>>
  BY DEF ReadSize, FindRevision, Get, Retry, Succeed, TimeOut, FailCall
<1>3. CountInv'
  BY <1>2 DEF IInv, CountInv, ghostVars
<1>4. ASSUME NEW state \in JobState, job' = [job EXCEPT ![j] = state],
             KnowsSize(j, state, replicas), HasPlace(state, template)
      PROVE  IInv'
  BY <1>2, <1>3, <1>4, OneMoves DEF IInv, ghostVars
<1>5. CASE ReadSize(j)
  <2> DEFINE state == [job[j] EXCEPT !.pc = "list", !.desired = replicas]
  <2>1. state \in JobState
    BY <1>1 DEF JobState
  <2>2. KnowsSize(j, state, replicas) /\ HasPlace(state, template)
    BY <1>1 DEF KnowsSize, HasRead, HasPlace, JobState
  <2>3. job' = [job EXCEPT ![j] = state]
    BY <1>5 DEF ReadSize
  <2> HIDE DEF state
  <2>4. QED
    BY <1>4, <2>1, <2>2, <2>3
<1>6. ASSUME NEW pc \in {"succeeded", "failed"}, job' = End(j, pc)
      PROVE  IInv'
  BY <1>4, <1>6, EndedState DEF End
<1>7. CASE FindRevision(j)
  <2>1. ASSUME NEW t \in Templates, job[j].pc = "list",
               job' = [job EXCEPT ![j] = [@ EXCEPT !.pc = "get", !.goal = t]]
        PROVE  IInv'
    <3> DEFINE state == [job[j] EXCEPT !.pc = "get", !.goal = t]
    <3>1. state \in JobState
      BY <1>1 DEF JobState
    <3>2. KnowsSize(j, state, replicas) /\ HasPlace(state, template)
      BY <1>1, <2>1 DEF KnowsSize, HasRead, HasPlace, JobState
    <3>3. job' = [job EXCEPT ![j] = state]
      BY <2>1
    <3> HIDE DEF state
    <3>4. QED
      BY <1>4, <3>1, <3>2, <3>3
  <2>2. QED
    BY <1>6, <1>7, <2>1 DEF FindRevision
<1>8. CASE Get(j)
  <2> DEFINE state == [job[j] EXCEPT !.pc = "update", !.copy = replicas, !.fresh = TRUE,
                           !.desired = IF j \in Deploys THEN replicas ELSE job[j].desired,
                           !.rescaled = job[j].rescaled /\ j \notin Deploys]
  <2>1. state \in JobState
    BY <1>1 DEF JobState
  <2>2. KnowsSize(j, state, replicas) /\ HasPlace(state, template)
    BY <1>1, <1>8 DEF KnowsSize, HasRead, HasPlace, JobState, Get
  <2>3. job' = [job EXCEPT ![j] = state]
    BY <1>8 DEF Get
  <2> HIDE DEF state
  <2>4. QED
    BY <1>4, <2>1, <2>2, <2>3
<1>9. CASE Retry(j)
  <2>1. CASE job' = End(j, "failed")
    BY <1>6, <2>1
  <2>2. CASE /\ job[j].tries + 1 < MaxTries
             /\ job' = [job EXCEPT ![j] = [@ EXCEPT !.pc = "get", !.tries = job[j].tries + 1]]
    <3> DEFINE tries == job[j].tries + 1
               state == [job[j] EXCEPT !.pc = "get", !.tries = tries]
    <3>0. tries \in 0..(MaxTries - 1)
      <4>1. job[j].tries \in 0..(MaxTries - 1) /\ MaxTries \in Nat
        BY <1>1 DEF JobState
      <4>2. QED
        BY <2>2, <4>1
    <3> HIDE DEF tries
    <3>1. state \in JobState
      BY <1>1, <3>0 DEF JobState
    <3>2. KnowsSize(j, state, replicas) /\ HasPlace(state, template)
      BY <1>1, <1>9 DEF KnowsSize, HasRead, HasPlace, JobState, Retry
    <3>3. job' = [job EXCEPT ![j] = state]
      BY <2>2 DEF tries
    <3> HIDE DEF state
    <3>4. QED
      BY <1>4, <3>1, <3>2, <3>3
  <2>3. QED
    BY <1>9, <2>1, <2>2 DEF Retry
<1>10. CASE Succeed(j) \/ TimeOut(j) \/ FailCall(j)
  BY <1>6, <1>10 DEF Succeed, TimeOut, FailCall
<1>11. QED
  BY <1>5, <1>7, <1>8, <1>9, <1>10

\* A write of the object, and what it does to every job.
LEMMA WriteStep ==
    ASSUME IInv, NEW j \in Jobs, NEW state \in JobState,
           Write(j, [job EXCEPT ![j] = state]),
           KnowsSize(j, state, replicas), HasPlace(state, job[j].goal)
    PROVE  IInv'
<1>1. /\ job[j] \in JobState /\ job[j].pc = "update" /\ job[j].fresh
      /\ job[j].copy = replicas /\ job[j].goal \in Templates /\ wanted = replicas
  BY DEF Write, Conflicts, IInv, JobsOK, JobInv, KnowsSize, HasRead, HasPlace, ScalePreserved
<1>2. CASE template = job[j].goal
  <2>1. job' = [job EXCEPT ![j] = state] /\ UNCHANGED <<specVars, report, counted, wanted>>
    BY <1>1, <1>2 DEF Write
  <2>2. QED
    BY <1>2, <2>1, OneMoves DEF IInv, CountInv
<1>3. CASE template # job[j].goal
  <2>1. /\ template' = job[j].goal /\ replicas' = replicas /\ wanted' = wanted
        /\ NewGeneration
        /\ job' = [k \in Jobs |-> [Stale([job EXCEPT ![j] = state])[k] EXCEPT
                                      !.superseded = @ \/ (k # j /\ job[k].pc = "wait")]]
    BY <1>1, <1>3 DEF Write
  <2>2. CountInv'
    BY <2>1 DEF NewGeneration, IInv, CountInv
  <2> DEFINE after(k) == [[IF k = j THEN state ELSE job[k] EXCEPT !.fresh = FALSE]
                             EXCEPT !.superseded = @ \/ (k # j /\ job[k].pc = "wait")]
  <2>3. \A k \in Jobs : job'[k] = after(k)
    BY <2>1 DEF Stale, IInv, JobsOK
  <2>4. job' = [k \in Jobs |-> job'[k]]
    BY <2>1
  <2>5. ASSUME NEW k \in Jobs
        PROVE  /\ after(k) \in JobState
               /\ KnowsSize(k, after(k), replicas) /\ HasPlace(after(k), job[j].goal)
    <3>1. CASE k = j
      BY <3>1 DEF JobState, KnowsSize, HasRead, HasPlace
    <3>2. CASE k # j
      BY <3>2 DEF IInv, JobsOK, JobInv, JobState, KnowsSize, HasRead, HasPlace
    <3>3. QED
      BY <3>1, <3>2
  <2> HIDE DEF after
  <2>6. JobsOK'
    <3>1. \A k \in Jobs : job'[k] \in JobState
      BY <2>3, <2>5
    <3>2. job' \in [Jobs -> JobState]
      BY <2>4, <3>1
    <3>3. QED
      BY <1>1, <2>1, <3>2 DEF IInv, JobsOK
  <2>7. JobInv'
    BY <2>1, <2>3, <2>5 DEF JobInv
  <2>8. QED
    BY <2>1, <2>2, <2>6, <2>7 DEF IInv, ScalePreserved
<1>4. QED
  BY <1>2, <1>3

\* An update, whether or not its answer arrives.
LEMMA UpdateStep ==
    ASSUME IInv, NEW j \in Jobs, Update(j) \/ LoseUpdate(j)
    PROVE  IInv'
<1>1. job[j] \in JobState /\ job[j].pc = "update" /\ KnowsSize(j, job[j], replicas)
      /\ HasPlace(job[j], template)
  BY DEF Update, LoseUpdate, Write, IInv, JobsOK, JobInv
<1>2. CASE Update(j)
  <2> DEFINE state == [At(j, "wait") EXCEPT !.goal = job[j].goal, !.desired = job[j].desired,
                                            !.rescaled = job[j].rescaled]
  <2>1. state \in JobState
    BY <1>1, NoTriesYet DEF At, JobState
  <2>2. KnowsSize(j, state, replicas) /\ HasPlace(state, job[j].goal)
    BY <1>1 DEF At, KnowsSize, HasRead, HasPlace, JobState
  <2>3. Write(j, [job EXCEPT ![j] = state])
    BY <1>2 DEF Update
  <2> HIDE DEF state
  <2>4. QED
    BY <2>1, <2>2, <2>3, WriteStep
<1>3. CASE LoseUpdate(j)
  BY <1>3, WriteStep, EndedState DEF LoseUpdate, End
<1>4. QED
  BY <1>2, <1>3

-----------------------------------------------------------------------------
(***************************************************************************)
(* Steps of the cluster                                                    *)
(***************************************************************************)

\* Where copies become stale, and nothing else changes for the jobs.
LEMMA StaleKeeps ==
    ASSUME IInv, UNCHANGED <<specVars, wanted>>, job' = Stale(job) \/ job' = job
    PROVE  JobsOK' /\ ScalePreserved' /\ JobInv'
<1>1. \A k \in Jobs : Stale(job)[k] \in JobState
  BY DEF IInv, JobsOK, Stale, JobState
<1>2. job' \in [Jobs -> JobState]
  BY <1>1 DEF IInv, JobsOK, Stale
<1>3. JobsOK' /\ ScalePreserved'
  BY <1>2 DEF IInv, JobsOK, ScalePreserved, specVars
<1>4. JobInv'
  BY DEF IInv, JobsOK, JobInv, specVars, Stale, JobState, KnowsSize, HasRead, HasPlace
<1>5. QED
  BY <1>3, <1>4

\* A change of the size marks every job that has read the old one.
LEMMA ScaleStep ==
    ASSUME IInv, NEW n \in Sizes, Scale(n)
    PROVE  IInv'
<1>1. /\ replicas' = n /\ wanted' = n /\ template' = template /\ NewGeneration
      /\ job' = [j \in Jobs |-> [Stale(job)[j] EXCEPT !.rescaled = @ \/ HasRead(j, job[j])]]
  BY DEF Scale
<1>2. \A j \in Jobs : /\ job'[j] \in JobState
                      /\ KnowsSize(j, job'[j], n) /\ HasPlace(job'[j], template)
  <2>1. ASSUME NEW j \in Jobs
        PROVE  /\ job'[j] \in JobState
               /\ KnowsSize(j, job'[j], n) /\ HasPlace(job'[j], template)
    <3>1. job'[j] = [[job[j] EXCEPT !.fresh = FALSE] EXCEPT !.rescaled = @ \/ HasRead(j, job[j])]
      BY <1>1 DEF Stale
    <3>2. job[j] \in JobState /\ KnowsSize(j, job[j], replicas) /\ HasPlace(job[j], template)
      BY DEF IInv, JobsOK, JobInv
    <3>3. QED
      BY <3>1, <3>2 DEF JobState, KnowsSize, HasRead, HasPlace
  <2>2. QED
    BY <2>1
<1>3. JobsOK'
  BY <1>1, <1>2 DEF IInv, JobsOK
<1>4. ScalePreserved' /\ JobInv'
  BY <1>1, <1>2 DEF ScalePreserved, JobInv
<1>5. CountInv'
  <2>1. report'.observed = FALSE
    BY <1>1 DEF NewGeneration
  <2>2. QED
    BY <2>1 DEF CountInv
<1>6. QED
  BY <1>3, <1>4, <1>5 DEF IInv

\* Every step keeps the invariant.
LEMMA InvStep ==
    ASSUME IInv, [Next]_vars
    PROVE  IInv'
<1>1. CASE SyncStatus
  <2>1. UNCHANGED <<specVars, wanted>> /\ job' = Stale(job) /\ CountInv'
    BY <1>1 DEF SyncStatus, CountInv, Counts
  <2>2. QED
    BY <2>1, StaleKeeps DEF IInv
<1>2. CASE /\ UNCHANGED <<specVars, report, ghostVars>>
           /\ job' = Stale(job) \/ job' = job
  <2>1. UNCHANGED wanted /\ CountInv'
    BY <1>2 DEF ghostVars, IInv, CountInv
  <2>2. QED
    BY <1>2, <2>1, StaleKeeps DEF IInv
<1>3. QED
  BY <1>1, <1>2, QuietJobStep, UpdateStep, ScaleStep
     DEF Next, JobStep, vars, specVars, ghostVars, Adopt, StartPod, PodAvailable, PodUnavailable,
         StopPod, Prune

-----------------------------------------------------------------------------
(***************************************************************************)
(* What every reachable state satisfies                                    *)
(***************************************************************************)

\* The Deployment as it is found, and jobs that have read nothing.
LEMMA InitIInv == Init => IInv
<1> SUFFICES ASSUME Init PROVE IInv
  OBVIOUS
<1> USE ConstantsAssumption DEF Init
<1>1. Newest(History) \in Templates
  BY DEF Newest
<1>2. \A j \in Jobs : LET s == At(j, IF j \in Deploys THEN "get" ELSE "read") IN
          s \in JobState /\ KnowsSize(j, s, replicas) /\ HasPlace(s, template)
  BY DEF At, JobState, KnowsSize, HasRead, HasPlace
<1>3. JobsOK
  BY <1>1, <1>2 DEF JobsOK
<1>4. JobInv
  BY <1>2 DEF JobInv
<1>5. QED
  BY <1>3, <1>4 DEF IInv, ScalePreserved, CountInv

\* The invariant that the proofs rest on.
THEOREM Invariance == Spec => []IInv
<1>1. QED
  BY InitIInv, InvStep, PTL DEF Spec

\* No job undoes a change of the size made since the job read it.
THEOREM ScalePreservedHolds == Spec => []ScalePreserved
<1>1. IInv => ScalePreserved
  BY DEF IInv
<1>2. QED
  BY <1>1, Invariance, PTL

\* A job that waits sees the end of its rollout, unless the Deployment was scaled after
\* the job read its size.
THEOREM CompletionIsSeenHolds == Spec => []CompletionIsSeen
<1>1. IInv => CompletionIsSeen
  BY DEF IInv, JobInv, KnowsSize, HasRead, CompletionIsSeen, Complete, Counts, Ready
<1>2. QED
  BY <1>1, Invariance, PTL

\* What makes a job succeed.
LEMMA OnlyReadySucceed ==
    ASSUME IInv, [Next]_vars, NEW j \in Jobs, Succeeds(j)
    PROVE  Ready(j)
<1> USE DEF Succeeds, IInv, JobsOK, JobState
<1>1. ASSUME NEW k \in Jobs, JobStep(k) \/ LoseUpdate(k) \/ FailCall(k)
      PROVE  Ready(j)
  <2>1. CASE Succeed(k)
    BY <2>1 DEF Succeed, End, At
  <2>2. CASE ReadSize(k) \/ Get(k) \/ FindRevision(k)
    BY <2>2 DEF ReadSize, Get, FindRevision, End, At
  <2>3. CASE Retry(k) \/ TimeOut(k) \/ FailCall(k)
    BY <2>3 DEF Retry, TimeOut, FailCall, End, At
  <2>4. CASE Update(k) \/ LoseUpdate(k)
    <3>1. PICK state \in JobState :
              Write(k, [job EXCEPT ![k] = state]) /\ state.pc \in {"wait", "failed"}
      <4>1. ASSUME Update(k)
            PROVE  [At(k, "wait") EXCEPT !.goal = job[k].goal, !.desired = job[k].desired,
                                         !.rescaled = job[k].rescaled] \in JobState
        BY NoTriesYet DEF At
      <4>2. At(k, "failed") \in JobState
        BY NoTriesYet DEF At
      <4>3. QED
        BY <2>4, <4>1, <4>2 DEF Update, LoseUpdate, End, At
    <3> DEFINE after == [job EXCEPT ![k] = state]
    <3>2. after[j] \in JobState /\ after[j].pc = IF j = k THEN state.pc ELSE job[j].pc
      BY <3>1
    <3>3. \/ job' = after
          \/ job'[j] = [[after[j] EXCEPT !.fresh = FALSE] EXCEPT
                           !.superseded = @ \/ (j # k /\ job[j].pc = "wait")]
      BY <3>1 DEF Write, Stale
    <3> HIDE DEF after
    <3>4. job'[j].pc = after[j].pc
      BY <3>2, <3>3
    <3>5. QED
      BY <3>1, <3>2, <3>4
  <2>5. QED
    BY <1>1, <2>1, <2>2, <2>3, <2>4 DEF JobStep
<1>2. CASE job' = job \/ job' = Stale(job)
  BY <1>2 DEF Stale
<1>3. CASE \E n \in Sizes : Scale(n)
  BY <1>3 DEF Scale, Stale
<1>4. QED
  BY <1>1, <1>2, <1>3 DEF Next, vars, Adopt, StartPod, SyncStatus, PodAvailable, PodUnavailable,
     StopPod, Prune

\* A job succeeds on another template than its own only if another job replaced it.
THEOREM ForeignSuccessExplainedHolds == Spec => ForeignSuccessExplained
<1>1. IInv /\ [Next]_vars =>
        [\A j \in Jobs : Succeeds(j) /\ template # job[j].goal => job[j].superseded]_vars
  BY DEF IInv, JobInv, HasPlace, Succeeds
<1>2. QED
  BY <1>1, Invariance, PTL DEF Spec, ForeignSuccessExplained

\* A job succeeds only if its number of pods was counted since the spec last changed.
THEOREM SuccessWasCountedHolds == Spec => SuccessWasCounted
<1>1. IInv /\ [Next]_vars => [\A j \in Jobs : Succeeds(j) => job[j].desired \in counted]_vars
  BY OnlyReadySucceed DEF IInv, CountInv, Ready
<1>2. QED
  BY <1>1, Invariance, PTL DEF Spec, SuccessWasCounted

-----------------------------------------------------------------------------
(***************************************************************************)
(* Revisions                                                               *)
(***************************************************************************)

\* A template has the revision it had at the start, none, or one that is newer than all
\* of those; the newest revision never becomes smaller.
RevisionInv ==
    /\ revision \in [Templates -> Nat]
    /\ template \in Templates
    /\ \E t \in Templates : \A s \in Templates : revision[s] <= revision[t]
    /\ \A s \in Templates : \E t \in Templates : History[s] <= revision[t]
    /\ \A t \in Templates : \/ revision[t] \in {0, History[t]}
                            \/ \A s \in Templates : History[s] < revision[t]

\* A new revision is larger than any that a template has or had.
LEMMA AdoptRevision ==
    ASSUME RevisionInv, Adopt
    PROVE  RevisionInv'
<1> USE ConstantsAssumption DEF RevisionInv
<1> DEFINE newest == Newest(revision)
<1>1. newest \in Templates /\ \A s \in Templates : revision[s] <= revision[newest]
  BY DEF Newest
<1> DEFINE new == revision[newest] + 1
<1>2. new \in Nat /\ \A s \in Templates : revision[s] < new
  BY <1>1
<1>3. \A s \in Templates : History[s] < new
  <2>1. ASSUME NEW s \in Templates
        PROVE  History[s] < new
    <3>1. PICK t \in Templates : History[s] <= revision[t]
      OBVIOUS
    <3>2. revision[t] \in Nat /\ History[s] \in Nat /\ revision[t] < new
      BY <1>2
    <3> HIDE DEF new
    <3>3. QED
      BY <1>2, <3>1, <3>2
  <2>2. QED
    BY <2>1
<1>4. revision' = [revision EXCEPT ![template] = new] /\ template' = template
  BY DEF Adopt, specVars
<1> HIDE DEF new, newest
<1>5. revision' \in [Templates -> Nat]
  BY <1>2, <1>4
<1>6. \A t \in Templates : revision'[t] = IF t = template THEN new ELSE revision[t]
  BY <1>4
<1>7. \A s \in Templates : revision'[s] <= revision'[template]
  BY <1>2, <1>6
<1>8. \A s \in Templates : History[s] <= revision'[template]
  BY <1>2, <1>3, <1>6
<1>9. \A t \in Templates : \/ revision'[t] \in {0, History[t]}
                           \/ \A s \in Templates : History[s] < revision'[t]
  BY <1>3, <1>6
<1>10. QED
  BY <1>4, <1>5, <1>7, <1>8, <1>9

\* The newest revision is that of the present template, which is not pruned.
LEMMA PruneRevision ==
    ASSUME RevisionInv, NEW t \in Templates, Prune(t)
    PROVE  RevisionInv'
<1> USE ConstantsAssumption DEF RevisionInv
<1>1. /\ \A s \in Templates \ {template} : revision[s] < revision[template]
      /\ t # template /\ template' = template
      /\ revision' = [revision EXCEPT ![t] = 0]
  BY DEF Prune, Adopted, specVars
<1>2. revision' \in [Templates -> Nat]
  BY <1>1
<1>3. \A s \in Templates : revision'[s] = IF s = t THEN 0 ELSE revision[s]
  BY <1>1
<1>4. \A s \in Templates : revision'[s] <= revision'[template]
  BY <1>1, <1>3
<1>5. \A s \in Templates : History[s] <= revision'[template]
  <2>1. ASSUME NEW s \in Templates
        PROVE  History[s] <= revision[template]
    <3>1. PICK u \in Templates : History[s] <= revision[u]
      OBVIOUS
    <3>2. revision[u] <= revision[template]
      BY <1>1
    <3>3. History[s] \in Nat /\ revision[u] \in Nat /\ revision[template] \in Nat
      OBVIOUS
    <3>4. QED
      BY <3>1, <3>2, <3>3
  <2>2. QED
    BY <1>1, <1>3, <2>1
<1>6. \A u \in Templates : \/ revision'[u] \in {0, History[u]}
                           \/ \A s \in Templates : History[s] < revision'[u]
  BY <1>3
<1>7. QED
  BY <1>1, <1>2, <1>4, <1>5, <1>6

\* Every step keeps the revisions.
LEMMA RevisionStep ==
    ASSUME IInv, RevisionInv, [Next]_vars
    PROVE  RevisionInv'
<1>1. template' \in Templates
  BY InvStep DEF IInv, JobsOK
<1>2. CASE UNCHANGED revision
  BY <1>1, <1>2 DEF RevisionInv
<1>3. QED
  BY <1>2, AdoptRevision, PruneRevision DEF Next, JobStep, ReadSize, FindRevision, Get, Update,
     LoseUpdate, Write, Retry, Succeed, TimeOut, FailCall, Scale, StartPod, SyncStatus,
     PodAvailable, PodUnavailable, StopPod, vars

-----------------------------------------------------------------------------
(***************************************************************************)
(* Types                                                                   *)
(***************************************************************************)

\* The pods and the status of the Deployment.
ClusterOK ==
    /\ pods \in [Templates -> Nat]
    /\ available \in [Templates -> Nat]
    /\ \A t \in Templates : available[t] <= pods[t]
    /\ report.observed \in BOOLEAN /\ report.updated \in Nat
    /\ scales \in 0..MaxScales
    /\ counted \subseteq Nat

\* A pod is available only while it exists.
LEMMA PodStep ==
    ASSUME ClusterOK, template \in Templates,
           \/ StartPod
           \/ \E t \in Templates : PodAvailable(t) \/ PodUnavailable(t) \/ StopPod(t)
    PROVE  /\ pods' \in [Templates -> Nat] /\ available' \in [Templates -> Nat]
           /\ \A t \in Templates : available'[t] <= pods'[t]
<1> USE DEF ClusterOK
<1>1. CASE StartPod
  <2>1. available' = available /\ pods' = [pods EXCEPT ![template] = @ + 1]
    BY <1>1 DEF StartPod
  <2>2. QED
    BY <2>1
<1>2. ASSUME NEW t \in Templates, PodAvailable(t) \/ PodUnavailable(t)
      PROVE  /\ pods' \in [Templates -> Nat] /\ available' \in [Templates -> Nat]
             /\ \A u \in Templates : available'[u] <= pods'[u]
  <2>1. /\ pods' = pods
        /\ \/ available[t] < pods[t] /\ available' = [available EXCEPT ![t] = @ + 1]
           \/ available[t] > 0 /\ available' = [available EXCEPT ![t] = @ - 1]
    BY <1>2 DEF PodAvailable, PodUnavailable
  <2>2. QED
    BY <2>1
<1>3. ASSUME NEW t \in Templates, StopPod(t)
      PROVE  /\ pods' \in [Templates -> Nat] /\ available' \in [Templates -> Nat]
             /\ \A u \in Templates : available'[u] <= pods'[u]
  <2>1. /\ pods' = [pods EXCEPT ![t] = @ - 1]
        /\ \/ available[t] < pods[t] /\ available' = available
           \/ available[t] > 0 /\ available' = [available EXCEPT ![t] = @ - 1]
    BY <1>3 DEF StopPod
  <2>2. QED
    BY <2>1
<1>4. QED
  BY <1>1, <1>2, <1>3

\* Every step keeps the types of the cluster.
LEMMA ClusterStep ==
    ASSUME IInv, ClusterOK, [Next]_vars
    PROVE  ClusterOK'
<1>1. template \in Templates
  BY DEF IInv, JobsOK
<1>2. CASE \/ StartPod
           \/ \E t \in Templates : PodAvailable(t) \/ PodUnavailable(t) \/ StopPod(t)
  <2>1. UNCHANGED <<report, scales, counted>>
    BY <1>2 DEF StartPod, PodAvailable, PodUnavailable, StopPod, ghostVars
  <2>2. QED
    BY <1>1, <1>2, <2>1, PodStep DEF ClusterOK
<1>3. CASE SyncStatus
  <2>1. pods[template] \in Nat
    BY <1>1 DEF ClusterOK
  <2>2. /\ report'.observed = TRUE /\ report'.updated = pods[template]
        /\ counted' = counted \cup {pods[template]}
        /\ UNCHANGED <<pods, available, scales>>
    BY <1>3 DEF SyncStatus, Counts, podVars
  <2>3. QED
    BY <2>1, <2>2 DEF ClusterOK
<1>4. ASSUME NewGeneration, \/ scales' = scales
                            \/ scales < MaxScales /\ scales' = scales + 1,
             UNCHANGED podVars
      PROVE  ClusterOK'
  <2>1. scales' \in 0..MaxScales
    BY <1>4, ConstantsAssumption DEF ClusterOK
  <2>2. report'.observed \in BOOLEAN /\ report'.updated \in Nat /\ counted' = {}
    BY <1>4 DEF NewGeneration, ClusterOK
  <2>3. QED
    BY <1>4, <2>1, <2>2 DEF ClusterOK, podVars
<1>5. CASE UNCHANGED <<podVars, report, scales, counted>>
  BY <1>5 DEF ClusterOK, podVars
<1>6. ASSUME NEW j \in Jobs, JobStep(j) \/ LoseUpdate(j) \/ FailCall(j)
      PROVE  ClusterOK'
  <2>1. CASE Update(j) \/ LoseUpdate(j)
    <3>1. /\ UNCHANGED podVars /\ scales' = scales
          /\ NewGeneration \/ UNCHANGED <<report, counted>>
      BY <2>1 DEF Update, LoseUpdate, Write
    <3>2. QED
      BY <1>4, <1>5, <3>1
  <2>2. CASE \/ ReadSize(j) \/ FindRevision(j) \/ Get(j) \/ Retry(j)
             \/ Succeed(j) \/ TimeOut(j) \/ FailCall(j)
    BY <1>5, <2>2 DEF ReadSize, FindRevision, Get, Retry, Succeed, TimeOut, FailCall, ghostVars
  <2>3. QED
    BY <1>6, <2>1, <2>2 DEF JobStep
<1>7. ASSUME NEW n \in Sizes, Scale(n)
      PROVE  ClusterOK'
  <2>1. /\ NewGeneration /\ UNCHANGED podVars
        /\ scales < MaxScales /\ scales' = scales + 1
    BY <1>7 DEF Scale
  <2>2. QED
    BY <1>4, <2>1
<1>8. CASE Adopt \/ (\E t \in Templates : Prune(t)) \/ UNCHANGED vars
  BY <1>5, <1>8 DEF Adopt, Prune, vars, podVars, ghostVars
<1>9. QED
  BY <1>2, <1>3, <1>6, <1>7, <1>8 DEF Next

\* The Deployment, its pods, revisions and status, and the jobs have their types.  Of the
\* status, the number of available pods is left out: it is a sum over a set.
THEOREM TypeCorrect == Spec => []TypeOK
<1>1. Init => RevisionInv /\ ClusterOK
  <2> SUFFICES ASSUME Init PROVE RevisionInv /\ ClusterOK
    OBVIOUS
  <2>1. RevisionInv
    BY ConstantsAssumption DEF Init, RevisionInv, Newest
  <2>2. ClusterOK
    BY ConstantsAssumption DEF Init, ClusterOK
  <2>3. QED
    BY <2>1, <2>2
<1>2. IInv /\ (RevisionInv /\ ClusterOK) /\ [Next]_vars => (RevisionInv /\ ClusterOK)'
  BY RevisionStep, ClusterStep
<1>3. IInv /\ RevisionInv /\ ClusterOK => TypeOK
  BY DEF IInv, JobsOK, ScalePreserved, RevisionInv, ClusterOK, TypeOK
<1>4. QED
  BY <1>1, <1>2, <1>3, Invariance, PTL DEF Spec

-----------------------------------------------------------------------------
(***************************************************************************)
(* What a revision means                                                   *)
(***************************************************************************)

\* The revisions that were asked for existed at the start or were older.
AskedForHistory ==
    \A j \in Jobs \ Deploys : \E t \in Templates : RevisionOf[j] <= History[t]

\* A step of a job other than FindRevision, and one of the cluster, gives no job a goal.
LEMMA GoalKept ==
    ASSUME job \in [Jobs -> JobState], NEW j \in Jobs, [Next]_vars,
           \A k \in Jobs : ~FindRevision(k)
    PROVE  job'[j].goal = job[j].goal \/ job'[j].goal = NoTemplate
<1>1. ASSUME NEW k \in Jobs, NEW pc \in {"succeeded", "failed"}, job' = End(k, pc)
      PROVE  job'[j].goal = job[j].goal \/ job'[j].goal = NoTemplate
  BY <1>1 DEF End, At
<1>2. ASSUME NEW k \in Jobs, Succeed(k) \/ TimeOut(k) \/ FailCall(k)
      PROVE  job'[j].goal = job[j].goal \/ job'[j].goal = NoTemplate
  BY <1>1, <1>2 DEF Succeed, TimeOut, FailCall
<1>3. ASSUME NEW k \in Jobs, ReadSize(k)
      PROVE  job'[j].goal = job[j].goal
  BY <1>3 DEF ReadSize, JobState
<1>4. ASSUME NEW k \in Jobs, Get(k)
      PROVE  job'[j].goal = job[j].goal
  BY <1>4 DEF Get, JobState
<1>5. ASSUME NEW k \in Jobs, Retry(k)
      PROVE  job'[j].goal = job[j].goal \/ job'[j].goal = NoTemplate
  <2>1. CASE job' = [job EXCEPT ![k] = [@ EXCEPT !.pc = "get", !.tries = job[k].tries + 1]]
    BY <2>1 DEF JobState
  <2>2. QED
    BY <1>1, <1>5, <2>1 DEF Retry
<1>6. ASSUME NEW k \in Jobs, NEW state \in JobState, Write(k, [job EXCEPT ![k] = state]),
             state.goal = job[k].goal \/ state.goal = NoTemplate
      PROVE  job'[j].goal = job[j].goal \/ job'[j].goal = NoTemplate
  <2> DEFINE after == [job EXCEPT ![k] = state]
  <2>1. after[j] \in JobState /\ (after[j].goal = job[j].goal \/ after[j].goal = NoTemplate)
    BY <1>6
  <2>2. \/ job' = after
        \/ job'[j] = [[after[j] EXCEPT !.fresh = FALSE] EXCEPT
                         !.superseded = @ \/ (j # k /\ job[j].pc = "wait")]
    BY <1>6 DEF Write, Stale
  <2> HIDE DEF after
  <2>3. job'[j].goal = after[j].goal
    BY <2>1, <2>2 DEF JobState
  <2>4. QED
    BY <2>1, <2>3
<1>7. ASSUME NEW k \in Jobs, Update(k)
      PROVE  job'[j].goal = job[j].goal \/ job'[j].goal = NoTemplate
  <2> DEFINE state == [At(k, "wait") EXCEPT !.goal = job[k].goal, !.desired = job[k].desired,
                                            !.rescaled = job[k].rescaled]
  <2>1. state \in JobState /\ state.goal = job[k].goal
    BY NoTriesYet DEF At, JobState
  <2>2. Write(k, [job EXCEPT ![k] = state])
    BY <1>7 DEF Update
  <2> HIDE DEF state
  <2>3. QED
    BY <1>6, <2>1, <2>2
<1>8. ASSUME NEW k \in Jobs, LoseUpdate(k)
      PROVE  job'[j].goal = job[j].goal \/ job'[j].goal = NoTemplate
  <2>1. At(k, "failed") \in JobState /\ At(k, "failed").goal = NoTemplate
    BY EndedState DEF At
  <2>2. QED
    BY <1>6, <1>8, <2>1 DEF LoseUpdate, End
<1>9. ASSUME NEW n \in Sizes, Scale(n)
      PROVE  job'[j].goal = job[j].goal
  <2>1. job'[j] = [[job[j] EXCEPT !.fresh = FALSE] EXCEPT !.rescaled = @ \/ HasRead(j, job[j])]
    BY <1>9 DEF Scale, Stale
  <2>2. QED
    BY <2>1 DEF JobState
<1>10. CASE job' = job \/ job' = Stale(job)
  BY <1>10 DEF Stale, JobState
<1>11. QED
  BY <1>2, <1>3, <1>4, <1>5, <1>7, <1>8, <1>9, <1>10 DEF Next, JobStep, vars, Adopt, StartPod,
     SyncStatus, PodAvailable, PodUnavailable, StopPod, Prune

\* A job that rolls back finds the template that had its revision.
LEMMA MeaningStep ==
    ASSUME AskedForHistory, IInv, RevisionInv, RevisionKeepsMeaning, [Next]_vars
    PROVE  RevisionKeepsMeaning'
<1> USE DEF IInv, JobsOK, JobState
<1> DEFINE Means(j, goal) == goal # NoTemplate => History[goal] = RevisionOf[j]
<1>1. ASSUME NEW j \in Jobs \ Deploys, job'[j].goal = job[j].goal \/ job'[j].goal = NoTemplate
      PROVE  Means(j, job'[j].goal)
  BY <1>1 DEF RevisionKeepsMeaning
<1>2. ASSUME NEW j \in Jobs \ Deploys, NEW k \in Jobs, FindRevision(k)
      PROVE  Means(j, job'[j].goal)
  <2>1. ASSUME job' = End(k, "failed")
        PROVE  Means(j, job'[j].goal)
    <3>1. job'[j].goal = job[j].goal \/ job'[j].goal = NoTemplate
      BY <2>1 DEF End, At
    <3>2. QED
      BY <1>1, <3>1
  <2>2. ASSUME NEW t \in Templates, revision[t] = RevisionOf[k],
               job' = [job EXCEPT ![k] = [@ EXCEPT !.pc = "get", !.goal = t]]
        PROVE  Means(j, job'[j].goal)
    <3>1. CASE j # k
      <4>1. job'[j] = job[j]
        BY <2>2, <3>1
      <4>2. QED
        BY <1>1, <4>1
    <3>2. CASE j = k
      <4>1. RevisionOf[j] \in Nat /\ RevisionOf[j] # 0
        BY ConstantsAssumption
      <4>2. ~ \A s \in Templates : History[s] < revision[t]
        <5>1. PICK u \in Templates : RevisionOf[j] <= History[u]
          BY DEF AskedForHistory
        <5>2. History[u] \in Nat
          BY ConstantsAssumption
        <5>3. ~(History[u] < RevisionOf[j])
          BY <4>1, <5>1, <5>2
        <5>4. QED
          BY <2>2, <3>2, <5>3
      <4>3. revision[t] = History[t]
        BY <2>2, <3>2, <4>1, <4>2 DEF RevisionInv
      <4>4. job'[j].goal = t
        BY <2>2, <3>2
      <4>5. QED
        BY <2>2, <3>2, <4>3, <4>4
    <3>3. QED
      BY <3>1, <3>2
  <2>3. QED
    BY <1>2, <2>1, <2>2 DEF FindRevision
<1>3. ASSUME NEW j \in Jobs \ Deploys
      PROVE  Means(j, job'[j].goal)
  BY <1>1, <1>2, GoalKept
<1>4. QED
  BY <1>3 DEF RevisionKeepsMeaning

\* A rollback to a revision of the history restores the template that had it, or fails.
THEOREM RevisionKeepsMeaningHolds ==
    ASSUME AskedForHistory
    PROVE  Spec => []RevisionKeepsMeaning
<1>1. Init => RevisionInv /\ RevisionKeepsMeaning
  <2> SUFFICES ASSUME Init PROVE RevisionInv /\ RevisionKeepsMeaning
    OBVIOUS
  <2>1. RevisionInv
    BY ConstantsAssumption DEF Init, RevisionInv, Newest
  <2>2. RevisionKeepsMeaning
    BY DEF Init, At, RevisionKeepsMeaning
  <2>3. QED
    BY <2>1, <2>2
<1>2. IInv /\ (RevisionInv /\ RevisionKeepsMeaning) /\ [Next]_vars
        => (RevisionInv /\ RevisionKeepsMeaning)'
  BY RevisionStep, MeaningStep, AskedForHistory
<1>3. QED
  BY <1>1, <1>2, Invariance, PTL DEF Spec

=============================================================================
