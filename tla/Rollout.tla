------------------------------- MODULE Rollout -------------------------------
(***************************************************************************)
(* Rolling out one Deployment: the jobs of the workers (Deploy, Rollback,  *)
(* retryOnConflict, wait and deploymentStatus of the Kubernetes manager),  *)
(* the API server's optimistic concurrency, and the controllers of the     *)
(* cluster, which are external.                                            *)
(*                                                                         *)
(* A pod template is a member of Templates.  Every write of the object,    *)
(* the controllers' included, makes the copies that jobs have read stale;  *)
(* only changes of its spec raise its generation.  Since no code prevents  *)
(* it, several jobs may work on the Deployment at once, and others may     *)
(* scale it.  Each call of the API is a step.                              *)
(***************************************************************************)
EXTENDS Naturals, FiniteSets, FiniteSetsExt

CONSTANTS
    Templates,
    Flaky,       \* templates whose pods may fail after they were available
    NoTemplate,
    Jobs,
    Deploys,     \* jobs that deploy; the others roll back
    GoalOf,      \* the template of each job that deploys
    RevisionOf,  \* the revision of each job that rolls back
    History,     \* the revision of each template at the start, 0 if it has none
    Sizes,       \* values of spec.replicas
    MaxTries,    \* attempts of retryOnConflict (5)
    MaxScales    \* bound: changes of spec.replicas explored

Newest(rev) == CHOOSE t \in Templates : \A s \in Templates : rev[s] <= rev[t]

ASSUME ConstantsAssumption ==
    /\ Flaky \subseteq Templates
    /\ NoTemplate \notin Templates
    /\ Deploys \subseteq Jobs
    /\ GoalOf \in [Deploys -> Templates]
    /\ RevisionOf \in [Jobs \ Deploys -> Nat \ {0}]
    /\ History \in [Templates -> Nat]
    /\ \E t \in Templates : \A s \in Templates : History[s] <= History[t]
    /\ Sizes \subseteq Nat /\ Sizes # {}
    /\ MaxTries \in Nat \ {0}
    /\ MaxScales \in Nat

VARIABLES
    template,    \* spec.template
    replicas,    \* spec.replicas
    revision,    \* the revision of the ReplicaSet of each template, 0 without one
    pods,        \* pods of each template
    available,   \* those that are available
    report,      \* the status that the controller wrote last, and whether it observed
                 \* the present generation
    job,
    scales,
    wanted,      \* ghost: the size set by whoever scaled last
    counted      \* ghost: updatedReplicas reported for the present generation

vars == <<template, replicas, revision, pods, available, report, job,
          scales, wanted, counted>>

specVars == <<template, replicas>>
podVars == <<pods, available>>
ghostVars == <<wanted, counted>>

AvailableReplicas == MapThenSumSet(LAMBDA t : available[t], Templates)
TotalPods == MapThenSumSet(LAMBDA t : pods[t], Templates)

\* A job at the point pc, knowing nothing but what it was called with.  superseded is a
\* ghost: another job changed the template after this one; so is rescaled: the size was
\* changed after the job read it.
At(j, pc) ==
    [pc |-> pc,
     goal |-> IF j \in Deploys /\ pc = "get" THEN GoalOf[j] ELSE NoTemplate,
     desired |-> 0, copy |-> 0, fresh |-> FALSE, tries |-> 0, superseded |-> FALSE, rescaled |-> FALSE]

Init ==
    /\ revision = History
    /\ template = Newest(History)
    /\ replicas \in Sizes
    /\ pods = [t \in Templates |-> IF t = template THEN replicas ELSE 0]
    /\ available = pods
    /\ report = [observed |-> TRUE, updated |-> replicas, available |-> replicas]
    /\ job = [j \in Jobs |-> At(j, IF j \in Deploys THEN "get" ELSE "read")]
    /\ scales = 0
    /\ wanted = replicas
    /\ counted = {replicas}

\* The object was written: every copy that jobs hold is stale.
Stale(jobs) == [j \in Jobs |-> [jobs[j] EXCEPT !.fresh = FALSE]]

\* Its spec was: the generation rises, and no status is about it yet.
NewGeneration ==
    /\ report' = [report EXCEPT !.observed = FALSE]
    /\ counted' = {}

End(j, pc) == [job EXCEPT ![j] = At(j, pc)]

\* In state s a job has read the size to wait for; a new attempt of Deploy reads it anew.
HasRead(j, s) ==
    s.pc \in {"list", "update", "wait"} \/ (s.pc = "get" /\ j \notin Deploys)

(***************************************************************************)
(* Jobs                                                                    *)
(***************************************************************************)

\* Rollback reads the size to wait for once, before it looks for the revision ...
ReadSize(j) ==
    /\ job[j].pc = "read"
    /\ job' = [job EXCEPT ![j] = [@ EXCEPT !.pc = "list", !.desired = replicas]]
    /\ UNCHANGED <<specVars, revision, podVars, report, scales, ghostVars>>

\* Mutant: the number is ignored and the revision before the present one taken.
FindRevisionPrevious(j) ==
    /\ job[j].pc = "list"
    /\ \E t \in Templates \ {template} :
           /\ revision[t] # 0
           /\ \A s \in Templates \ {template} : revision[s] <= revision[t]
           /\ job' = [job EXCEPT ![j] = [@ EXCEPT !.pc = "get", !.goal = t]]
    /\ UNCHANGED <<specVars, revision, podVars, report, scales, ghostVars>>

\* ... in the list of ReplicaSets.
FindRevision(j) ==
    /\ job[j].pc = "list"
    /\ \/ \E t \in Templates :
              /\ revision[t] = RevisionOf[j]
              /\ job' = [job EXCEPT ![j] = [@ EXCEPT !.pc = "get", !.goal = t]]
       \/ /\ \A t \in Templates : revision[t] # RevisionOf[j]
          /\ job' = End(j, "failed")
    /\ UNCHANGED <<specVars, revision, podVars, report, scales, ghostVars>>

\* Mutant: Deploy keeps the size that its first attempt read.
GetSizeOnce(j) ==
    /\ job[j].pc = "get"
    /\ job' = [job EXCEPT ![j] =
           [@ EXCEPT !.pc = "update", !.copy = replicas, !.fresh = TRUE,
                     !.desired = IF j \in Deploys /\ job[j].tries = 0 THEN replicas ELSE @,
                     !.rescaled = job[j].rescaled /\ j \notin Deploys]]
    /\ UNCHANGED <<specVars, revision, podVars, report, scales, ghostVars>>

\* Mutant: a retry puts the new resourceVersion on the object of the first attempt.
GetVersionOnly(j) ==
    /\ job[j].pc = "get"
    /\ job' = [job EXCEPT ![j] =
           [@ EXCEPT !.pc = "update", !.fresh = TRUE,
                     !.copy = IF job[j].tries = 0 THEN replicas ELSE @,
                     !.desired = IF j \in Deploys THEN replicas ELSE job[j].desired,
                     !.rescaled = job[j].rescaled /\ j \notin Deploys]]
    /\ UNCHANGED <<specVars, revision, podVars, report, scales, ghostVars>>

\* Each attempt reads the object.  Deploy also takes the size to wait for from it.
Get(j) ==
    /\ job[j].pc = "get"
    /\ job' = [job EXCEPT ![j] =
           [@ EXCEPT !.pc = "update", !.copy = replicas, !.fresh = TRUE,
                     !.desired = IF j \in Deploys THEN replicas ELSE job[j].desired,
                     !.rescaled = job[j].rescaled /\ j \notin Deploys]]
    /\ UNCHANGED <<specVars, revision, podVars, report, scales, ghostVars>>

Conflicts(j) == ~job[j].fresh

\* The copy with the new template is written; an update that changes nothing leaves the
\* object, its generation and the copies of others as they are.
Write(j, after) ==
    /\ job[j].pc = "update"
    /\ ~Conflicts(j)
    /\ IF template = job[j].goal /\ replicas = job[j].copy
       THEN job' = after /\ UNCHANGED <<specVars, report, counted>>
       ELSE /\ template' = job[j].goal
            /\ replicas' = job[j].copy
            /\ NewGeneration
            /\ job' = [k \in Jobs |-> [Stale(after)[k] EXCEPT
                                         !.superseded = @ \/ (k # j /\ job[k].pc = "wait")]]
    /\ UNCHANGED <<revision, podVars, scales, wanted>>

Update(j) ==
    Write(j, [job EXCEPT ![j] = [At(j, "wait") EXCEPT !.goal = job[j].goal,
                                                      !.desired = job[j].desired,
                                                      !.rescaled = job[j].rescaled]])

\* The update is made but its answer is lost.
LoseUpdate(j) == Write(j, End(j, "failed"))

\* Mutant: conflicts are not counted.
RetryUncounted(j) ==
    /\ job[j].pc = "update"
    /\ Conflicts(j)
    /\ job' = [job EXCEPT ![j] = [@ EXCEPT !.pc = "get"]]
    /\ UNCHANGED <<specVars, revision, podVars, report, scales, ghostVars>>

\* Mutant: the error of the last attempt is lost, as if the update had been accepted.
RetryShadowed(j) ==
    /\ job[j].pc = "update"
    /\ Conflicts(j)
    /\ job' = [job EXCEPT ![j] =
           [@ EXCEPT !.tries = job[j].tries + 1,
                     !.pc = IF job[j].tries + 1 < MaxTries THEN "get" ELSE "wait"]]
    /\ UNCHANGED <<specVars, revision, podVars, report, scales, ghostVars>>

\* A conflict: another attempt, or the end of them.
Retry(j) ==
    /\ job[j].pc = "update"
    /\ Conflicts(j)
    /\ job' = IF job[j].tries + 1 < MaxTries
              THEN [job EXCEPT ![j] = [@ EXCEPT !.pc = "get", !.tries = job[j].tries + 1]]
              ELSE End(j, "failed")
    /\ UNCHANGED <<specVars, revision, podVars, report, scales, ghostVars>>

\* Mutant: the status may be about an earlier generation.
ReadyUnobserved(j) ==
    /\ report.updated = job[j].desired
    /\ report.available = job[j].desired

\* deploymentStatus: generation and status come from one read.
Ready(j) ==
    /\ report.observed
    /\ report.updated = job[j].desired
    /\ report.available = job[j].desired

Succeed(j) ==
    /\ job[j].pc = "wait"
    /\ Ready(j)
    /\ job' = End(j, "succeeded")
    /\ UNCHANGED <<specVars, revision, podVars, report, scales, ghostVars>>

\* The deadline of wait.
TimeOut(j) ==
    /\ job[j].pc = "wait"
    /\ job' = End(j, "failed")
    /\ UNCHANGED <<specVars, revision, podVars, report, scales, ghostVars>>

\* Any other error of a call ends the job.
FailCall(j) ==
    /\ job[j].pc \in {"read", "list", "get", "update"}
    /\ job' = End(j, "failed")
    /\ UNCHANGED <<specVars, revision, podVars, report, scales, ghostVars>>

JobStep(j) ==
    ReadSize(j) \/ FindRevision(j) \/ Get(j) \/ Update(j) \/ Retry(j) \/ Succeed(j) \/ TimeOut(j)

(***************************************************************************)
(* The cluster (external): an autoscaler or a person, and the controllers  *)
(***************************************************************************)
Scale(n) ==
    /\ scales < MaxScales
    /\ n # replicas
    /\ scales' = scales + 1
    /\ replicas' = n
    /\ wanted' = n
    /\ NewGeneration
    /\ job' = [j \in Jobs |-> [Stale(job)[j] EXCEPT !.rescaled = @ \/ HasRead(j, job[j])]]
    /\ UNCHANGED <<template, revision, podVars>>

\* The ReplicaSet of the present template, new or found again, gets the next revision,
\* which is noted on the Deployment.
Adopted == \A t \in Templates \ {template} : revision[t] < revision[template]

Adopt ==
    /\ ~Adopted
    /\ revision' = [revision EXCEPT ![template] = revision[Newest(revision)] + 1]
    /\ job' = Stale(job)
    /\ UNCHANGED <<specVars, podVars, report, scales, ghostVars>>

\* revisionHistoryLimit: an old ReplicaSet without pods is removed.
Prune(t) ==
    /\ Adopted
    /\ t # template /\ pods[t] = 0 /\ revision[t] # 0
    /\ revision' = [revision EXCEPT ![t] = 0]
    /\ UNCHANGED <<specVars, podVars, report, job, scales, ghostVars>>

\* A rolling update with a surge of one pod.
StartPod ==
    /\ Adopted
    /\ pods[template] < replicas
    /\ TotalPods < replicas + 1
    /\ pods' = [pods EXCEPT ![template] = @ + 1]
    /\ UNCHANGED <<specVars, revision, available, report, job, scales, ghostVars>>

\* Nothing makes it happen: the pods of a broken image stay as they are.
PodAvailable(t) ==
    /\ available[t] < pods[t]
    /\ available' = [available EXCEPT ![t] = @ + 1]
    /\ UNCHANGED <<specVars, revision, pods, report, job, scales, ghostVars>>

PodUnavailable(t) ==
    /\ t \in Flaky
    /\ available[t] > 0
    /\ available' = [available EXCEPT ![t] = @ - 1]
    /\ UNCHANGED <<specVars, revision, pods, report, job, scales, ghostVars>>

\* Surplus pods go: those that are not available, and available ones beyond the size.
StopPod(t) ==
    /\ Adopted
    /\ IF t = template THEN pods[t] > replicas ELSE pods[t] > 0
    /\ pods' = [pods EXCEPT ![t] = @ - 1]
    /\ \/ available[t] < pods[t] /\ UNCHANGED available
       \/ /\ available[t] > 0 /\ AvailableReplicas > replicas
          /\ available' = [available EXCEPT ![t] = @ - 1]
    /\ UNCHANGED <<specVars, revision, report, job, scales, ghostVars>>

\* The counts of a status: pods of the present template, available pods of all of them.
Counts == [observed |-> TRUE, updated |-> pods[template], available |-> AvailableReplicas]

SyncStatus ==
    /\ Adopted
    /\ report # Counts
    /\ report' = Counts
    /\ counted' = counted \cup {pods[template]}
    /\ job' = Stale(job)
    /\ UNCHANGED <<specVars, revision, podVars, scales, wanted>>

Next ==
    \/ \E j \in Jobs : JobStep(j) \/ LoseUpdate(j) \/ FailCall(j)
    \/ \E n \in Sizes : Scale(n)
    \/ Adopt \/ StartPod \/ SyncStatus
    \/ \E t \in Templates : PodAvailable(t) \/ PodUnavailable(t) \/ StopPod(t) \/ Prune(t)

Spec == Init /\ [][Next]_vars

\* A job goes on: its calls return and its timers fire.  Nothing is asked of the cluster.
Fairness == \A j \in Jobs : WF_vars(JobStep(j))

FairSpec == Spec /\ Fairness

(***************************************************************************)
(* Properties                                                              *)
(***************************************************************************)
Ended(j) == job[j].pc \in {"succeeded", "failed"}

Succeeds(j) == job[j].pc = "wait" /\ job'[j].pc = "succeeded"

JobState ==
    [pc : {"read", "list", "get", "update", "wait", "succeeded", "failed"},
     goal : Templates \cup {NoTemplate}, desired : Sizes \cup {0},
     copy : Sizes \cup {0}, fresh : BOOLEAN, tries : 0..(MaxTries - 1),
     superseded : BOOLEAN, rescaled : BOOLEAN]

\* Types of the Deployment, of what belongs to it in the cluster, and of the local state
\* of the jobs, which have an attempt left while they try (manager.go:53-211).
TypeOK ==
    /\ replicas \in Sizes
    /\ template \in Templates
    /\ job \in [Jobs -> JobState]
    /\ revision \in [Templates -> Nat]
    /\ pods \in [Templates -> Nat]
    /\ available \in [Templates -> Nat]
    /\ \A t \in Templates : available[t] <= pods[t]
    /\ report.observed \in BOOLEAN /\ report.updated \in Nat
    /\ scales \in 0..MaxScales
    /\ wanted \in Sizes
    /\ counted \subseteq Nat

\* A job that writes the Deployment never undoes a change of its size made since the
\* job read it (manager.go:88-104, 136-146, with the API server's resourceVersion).
ScalePreserved == replicas = wanted

\* A rollback restores the template that had its revision when the rollback was asked
\* for, or fails: rollouts in between may renumber or remove revisions, but never give
\* a number to another template (manager.go:121-134).
RevisionKeepsMeaning ==
    \A j \in Jobs \ Deploys :
        job[j].goal # NoTemplate => History[job[j].goal] = RevisionOf[j]

\* The rollout of t is over: observed, every pod is of that template, counted, available.
Complete(t) ==
    /\ template = t
    /\ report = Counts
    /\ pods[t] = replicas /\ TotalPods = replicas /\ AvailableReplicas = replicas

\* A job that waits sees the end of its rollout, whatever conflicts it met before,
\* unless the Deployment was scaled after the job read the size to wait for: then it
\* times out on a rollout that is complete (manager.go:88, 112, 160).
CompletionIsSeen ==
    \A j \in Jobs :
        (job[j].pc = "wait" /\ Complete(job[j].goal) /\ ~job[j].rescaled) => Ready(j)

\* A job succeeds on another template than its own only if another job changed the
\* template after it: within one environment nothing keeps jobs apart
\* (manager.go:158-186).
ForeignSuccessExplained ==
    [][\A j \in Jobs : Succeeds(j) /\ template # job[j].goal => job[j].superseded]_vars

\* A job succeeds only if, since the spec was last changed, the controller counted as
\* many pods of its template as the job waits for: an old status does not pass for a
\* new one (manager.go:185).
SuccessWasCounted == [][\A j \in Jobs : Succeeds(j) => job[j].desired \in counted]_vars

\* Every job ends, whatever conflicts it meets and whether or not its pods come up
\* (manager.go:158-179, 187-204).
EveryRolloutEnds == \A j \in Jobs : <>Ended(j)

(***************************************************************************)
(* A claim of the documents that the code does not keep                    *)
(***************************************************************************)

\* 2026-07-28-chatops-deploy-design.md:169: an execution waits for its new rollout to be
\* complete: when it succeeds, no other job interfered and none of its pods failed, as
\* many pods of its own template as it waits for are available.
SuccessMeansComplete ==
    [][\A j \in Jobs : Succeeds(j) /\ ~job[j].superseded =>
           available[job[j].goal] >= job[j].desired]_vars

=============================================================================
