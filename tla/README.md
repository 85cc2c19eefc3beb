# Verification of chatops-deploy

chatops-deploy is a control plane for Kubernetes deployments. People ask for a
deploy or a rollback in a web console, through the API or in a chat; changes of
production wait for the approval of a second person; workers drive the cluster
and report the outcome. This directory holds TLA+ models of its core, the TLC
configurations that check them on small instances, and proofs for all instances.

## The system

| Component | State it keeps | Operations | Hard behaviour |
|---|---|---|---|
| HTTP handlers (`transport/http/handler/api.go`) | none; each request makes several database calls | `requestOperation`, `approve`, `Webhook` and its commands, `setMessageProvider`, `Events`, administration | what was read first may be stale when used |
| Application service (`application/service.go`) | none | `RequestOperationWithOrigin`, `Decide`, `CreateEnvironment` | initial status follows the environment |
| Store (`store/postgres/store.go`) | tables `operations`, `approvals`, `operation_events`, `outbox_messages`, `system_settings`, users, roles, identities | transactions: `Approve`, `ClaimOperation`, `TransitionOperationWithNotification`, `ClaimOutbox`, `SetActiveMessageProvider`, ... | row locks, SKIP LOCKED, READ COMMITTED, commits whose answer is lost |
| Worker (`worker/worker.go`), one per replica | its claimed operation, its batch of notifications | `runOne`, `dispatchNotifications` | crash and shutdown at any point, leases, duplicates |
| Kubernetes manager (`adapter/kubernetes/manager.go`) | client cache; the cluster holds the rest | `Deploy`, `Rollback`, `wait` | optimistic concurrency, controllers, timeouts |
| Message registry (`messaging/registry.go`) | remembered health | `Active`, `Select`, `Check` | the active provider changes while webhooks run |
| Tokens and sessions (`auth/token.go`, `middleware/auth.go`) | `api_tokens`, `web_sessions` | `EnsureBootstrap`, `Issue`, `Revoke`, `Verify`, `CreateSession`, `VerifySession` | an authentication is several statements; revocation and grants fall between them and the act |
| Chat adapters (`adapter/feishu`, `wecom`, `dingtalk`) | cached access token | `Decode`, `Send`, `Check` | a mutex held over a slow call, a token that ends or is taken back under way |
| Start and shutdown (`cmd/server/main.go`), migrations (`store/postgres/migrate.go`) | `schema_migrations` | `run`, `Migrate` | replicas start at once and may die between any two steps; the worker is cancelled, not awaited |
| Configuration, secret box, router, logging, metrics, web UI | | | none that concerns the protocol |

Handlers and workers never talk to each other: they meet in the database. A
handler inserts an operation; an approval releases it; some worker claims it
with `FOR UPDATE SKIP LOCKED`, calls the manager, which updates the Deployment
and polls it until it is ready or the time is over; one transaction then writes
the status, the event and, for a chat, the outbox row. The dispatcher of any
replica claims outbox rows under a lease and sends them. The console polls
`operation_events` through a stream. `deployments/kubernetes/deployment.yaml`
runs two replicas, each with a worker, so all of this is concurrent.

### What makes each part correct

- Operations: four-eyes on production; one decision; one owner; one update of
  the cluster per operation; outcome, event and notification together; nothing
  left behind except by a fault; no starvation.
- Outbox: nothing is written off that was not delivered; leases keep
  dispatchers apart; every duplicate has a known cause; delivery in the end, as far
  as rows that can never be sent leave room for it.
- Delivery: whoever asked in a chat hears of the outcome, and of no other one.
- Provider setting and webhooks: a change does not orphan the operations of the
  old provider; a redelivered event starts nothing twice; approval cards arrive.
- Event stream: order, no duplicates, no silent loss.
- Rollout: no foreign change of the Deployment is undone; success says something
  about this rollout; a completed rollout is noticed; every job ends.
- Access: nobody acts with a permission that its role never had, nobody loses one
  by an unlucky interleaving, a revoked or expired credential opens nothing new,
  and only administrators make administrators, except for the development login.
- Start: migrations run once and whole, whatever starts at the same time;
  serving replicas find what they rely on; no start undoes an administrator's
  choice; every replica serves in the end.
- Access tokens of the adapters: no expired token is sent, nobody waits for ever,
  and a token that was taken back is replaced in the end.

`PROJECT.json` lists the hazards line by line, with the properties that address
each of them.

## Modules

| Module | What it models |
|---|---|
| `Domain` | statuses, legal transitions, permissions (`domain/models.go`) |
| `ChangeControl` | abstract specification: a change is proposed, authorised or refused, started, has at most one effect, and ends |
| `Operations` | handlers, store and workers over the life of operations; refines `ChangeControl` |
| `OperationsProofs` | the inductive invariant of `Operations`, its theorems, the refinement; what the tables say of each other, what faults cost, the order of claims |
| `Outbox` | rows, leases and dispatchers of notifications |
| `Reporting` | abstract specification: a chat is told the recorded outcome or nothing |
| `Delivery` | `Operations` and `Outbox` composed, one goroutine per replica; refines `Reporting` |
| `DeliveryProofs` | `Outbox` by itself: leases, reasons for duplicates, no undelivered row marked; the invariant that joins the two halves, the refinement of `Reporting`; what both halves promise, kept in the composition |
| `ProviderSwitch` | the stored provider, administrators, webhooks and their approval cards |
| `ProviderSwitchProofs` | orphans, repeated events, missing cards |
| `EventStream` | events with their numbers and commits, stream handlers and clients |
| `EventStreamProofs` | sets of numbers in order, the order of events, late ones, undone ones |
| `Rollout` | a Deployment, the jobs that change it, its controllers (external) |
| `RolloutProofs` | sizes, revisions, what success and completion mean |
| `Access` | roles, permissions, tokens, sessions, identities, and the calls that use them |
| `AccessProofs` | what a call may do, late acts, administrators |
| `Startup` | replicas from process start to serving, and their database |
| `StartupProofs` | migrations, tokens, what serving replicas find, why starts fail |
| `TokenCache` | the access token an adapter keeps, its callers and the platform (external) |
| `TokenCacheProofs` | no expired token, no needless fetch, bounded waits |
| `MC...` | instances for TLC |

### Operations

A step is one committed transaction, or one statement that runs outside of one.
`request`, `status` and `older` are the columns of a row of `operations`, `approvals`, `events` and `outbox` the other tables,
`worker` the local state of `runOne`. A claim takes two steps, `SelectQueued` and
`CommitClaim`, since its row lock is visible to other claims in between.
`Decide` is one step: `Approve` locks the row before it reads it. The status
`approved` never shows, because the same transaction goes on to `queued`.
`rollouts` counts the updates of the Deployment made for an operation; what
happens in the cluster is free here and modelled in `Rollout`. Callers and their
permissions are constants; a token names the user it acts for.

`older` stands for `created_at`, as the rows that have an earlier one. The process that
inserts a row stamps it with its own clock, before the insert commits, so rows need not
become visible in the order of their stamps: `Stamp` puts a new row anywhere among
those there are. A claim therefore may overtake a row that commits after it chose.
`ClaimsInOrder` says what is left: of the rows that were there when it chose (`passed`),
those that are older and still queued are locked by other claims, unless a fault
undid one of these.

Faults are actions: a claim that aborts (`AbortClaim`), a claim whose commit the
worker does not learn of (`LoseClaim`), a settling transaction that fails
(`SettleFails`), and a stop (`Stop`: crash or shutdown). `MaxFaults` bounds them.

### Outbox

Time is discrete and kept as what is left until `next_attempt_at`, with the
clock of each replica offset by `Skew`. A send may last up to `SendTimeout`.
`lapsed` records the rows whose lease ran out under a worker, `faulted` those
hit by a stop after delivery, a lost answer or a lost mark. A batch is a set of
rows, of which the least is next, as the rows are claimed in their order.
Undecodable payloads behave like rows of an unregistered provider: they are tried
for ever, five seconds apart, since no code reads `worker.max_attempts` or
`outbox_messages.attempts` (`2026-07-28-chatops-deploy-design.md:114` has messages end
as failed after a number of attempts). They are due again and again and, being the
oldest, come first in every claim. `EventuallySent` says how much harm they do: a row
that fewer of them than a batch takes precede (`Unstarved`) is sent in the end, also
when the limit leaves it out of one claim after another. Behind twenty of them
nothing keeps a row from waiting for ever: they can be due again before the dispatcher
comes back, after a long rollout for example.

### Delivery

The module extends `Outbox` and takes `Operations` in as `Life`; both have the same
workers and count the same faults.
`turn` says which half of `Worker.Run` a replica is in, `subject` what the payload
of an outbox row tells. The steps that touch both halves are one action here:
`Settle` records an outcome and inserts its row, `StopReplica` and `RestartReplica`
end and begin both. `RunOne` and `Dispatching` are the steps of one half. A lease can no
longer run out behind a rollout, because one goroutine does both. `ReportedInTheEnd`
holds if every row can be sent, for the reason just given.

### ProviderSwitch

`SetActiveMessageProvider` runs READ COMMITTED without locks, so its read, its
count and its write are steps. A webhook reads the active provider in one step,
creates the operation in another, sends the approval card in a third and replies
in a fourth; it may be cut off between them. `raced` records operations that a
change of provider could not see: created when the provider was not active any
more, after the count of a change, or during a change that counts for another
provider. Deliveries of one event share their idempotency key.

### EventStream

A row is named by its number, taken at insert (`Insert`) and visible at commit
(`Commit`). `after` is the variable of the handler. The code sends the number as
data and not as the `id:` of the event, so only a client that fills in
`Last-Event-ID` itself (`Resuming`) continues; others start from 0. A poll takes the
`FirstVisible` rows behind the cursor, in their order (`InNumberOrder`). Events older
than a day expire; no code tells a client that it missed some.

### Rollout

The template of a Deployment is one value. A job holds a `copy` of the object
that is `fresh` until anybody writes it; an update with a stale copy is a
conflict. `report` is the last status of the controller. The controllers follow
a rolling update with a surge of one: they may start and stop pods, pods become
available or not, and, if `Flaky`, fail again, and old revisions may be removed.
`rescaled` marks the jobs whose size to wait for is out of date. A size may be zero.

### Access

A call goes from `fresh` through `named` (its token, session or chat identity was
found) and `permitted` (the permissions were read) to `ready` (the question
whether the role is the administrators' was answered); then it acts once or is
refused. Each is one statement of `Verify`, `VerifySession` or `PrincipalForUser`,
and the tables may change in between. `MissRoleName` is the dropped error of the
last one. `had` keeps what the caller could do when it was named, `late` and
`crossed` whether it acted after its credential ended and whether it was under
way at that moment. No code takes roles, permissions or sessions away, so there
are no such actions; `Revoke` and `Tick` end credentials. Users and roles exist
from the beginning.

Of a user's identities two are kept: `subjectOf`, on the chat platform, and whether it is
the `developer`, the user with the local development identity. A message finds its user
by the identity only (`FindUserByIdentity`), a login through OAuth also by the older
column `users.feishu_open_id` (`FindUserByOpenID`). In development mode `DevLogin` asks
for no credential: it makes the developer, or a new user if there is none, an
administrator. A user that has nothing yet (`Unused`) stands for the new one. An
administrator who gives the development identity to somebody (`UpsertWebIdentity`)
so decides whom the next login makes an administrator; that is why
`AdministratorsMakeAdministrators` watches `developer` too.

### Startup

A replica goes through the statements of `run`: `LockMigrations`,
`ApplyMigration` for each missing one, `CommitMigrations`, `CountTokens`,
`InsertToken`, `CheckProvider`, `InitializeActiveMessageProvider`, and the two
steps of `EnsureDevelopmentAdmin`, which a development login runs too. A failure
`Exits`; Kubernetes starts the replica again, with either configuration. The
database may be new or migrated in part, with an edited identity. `rivals` counts
token inserts that crossed another start's count. `EditIdentity` and
`SelectProvider` are administrators on a replica that serves.

### TokenCache

The mutex is a queue whose head holds it. The kept token is two numbers: what is
`left` by the adapter's clock, from when the answer came in, and how long it is
`good` for the platform, from when it was issued; the margin has to cover the
difference and the send.

The adapters differ in what they take for a token. wecom and dingtalk look at the status
of the answer and at the token in it; feishu looks at neither, so that an answer such as
`{}` is taken for the token `""` and the message goes out with it. `Trusting` is
feishu. The platform may answer without a token (`PlatformOmits`), or without its
lifetime, which is zero then. An empty token is kept but not used again, as the
test of the cache asks for one; so `RefusalsExplained` blames an empty token on this
very call and never on another.

## Runs

| Run | Result | What it shows |
|---|---|---|
| `operations` | holds | all safety of `Operations`, the order of claims included, and the refinement of `ChangeControl` |
| `operations_liveness` | holds | a queued operation is claimed and settles, unless a fault stranded it |
| `delivery` | holds | a chat hears the recorded outcome and no other, and hears it in the end; refines `Reporting` |
| `outbox` | holds | leases keep dispatchers apart, duplicates have named causes, delivery in the end behind rows that can never be sent |
| `provider_switch` | holds | a change orphans operations only in three named races; one operation and at most one card per event; cards go missing only with a failed send or a stopped call |
| `event_stream` | holds | order, no duplicates, losses only by late commit, eventual arrival |
| `rollout` | holds | sizes are preserved, a revision keeps its meaning, completion is seen unless the Deployment was rescaled, success comes only after the controller counted as many updated pods as the job waits for, jobs end |
| `access` | holds | what a call may do lies between what its role had when it was authenticated and what it has now; late acts have their explanation, and only administrators and development logins make administrators |
| `startup` | holds | one replica migrates at a time, one token except by rival starts, serving replicas are complete, failed starts have named causes, all serve in the end |
| `token_cache` | holds | refusals only of tokens taken back or never given, bounded waits, recovery |
| `operations_target_lease` | violated | two operations run on one environment |
| `rollout_complete` | violated | a rollback succeeds with no new pod available |

A violated run checks one sentence of the repository's documents, quoted with
its place in `PROJECT.json` under `findings`. Some properties that hold mark the
limits of the code as exactly:

- A crash, shutdown or database error between claim and outcome leaves an
  operation running for ever; `LossesByFaultsOnly` and `QueuedSettles` say that
  nothing else does.
- A change of provider can leave unfinished operations behind, although
  `2026-07-28-local-compose-testing-design.md:97` excludes it; `OrphansExplained`
  names the races.
- The stream passes by an event that commits after a later number was polled
  (`SkipsExplained`), a card whose send failed is never sent again
  (`MissingCardsExplained`), and a token that the platform took back is refused
  until its time is over (`RefusalsEnd`), since the forced refresh of
  `2026-07-28-chatops-deploy-design.md:116` does not exist.

### Bounds

- `operations`: two operations, two keys, two workers, three callers (a session
  that deploys and approves, a chat user and a token that approve), a production
  and a staging environment, two faults. Races of claims and decisions need two
  participants; order of claims needs two operations; two faults let a worker be
  hit before and after its restart. Operations, workers and keys are symmetric.
  The liveness run uses no symmetry and is smaller.
- `delivery`: one operation that needs an approval, two replicas, two faults: one
  replica stops after the outcome, the other sends, and may fail once more.
- `outbox`: three rows, the oldest of a platform that is not registered, and batches of
  two, so that the limit leaves one out; two replicas, a lease as short as one send and
  one clock behind by a unit, so that leases lapse in the middle of a batch. One fault.
- `provider_switch`: two webhook calls and two events, so that a delivery is new or
  repeated, and two administrators, whose changes cross. `event_stream`: three rows
  and polls of two, so that a poll is cut off; one broken connection.
- `rollout`: two jobs, sizes from none to two, two attempts, one change of size:
  conflicts by jobs, by scaling and by statuses.
- `access`: three calls (one acts, one administers, one more crosses both), a
  second token, one session, one subject, one dropped error, a clock of two ticks
  and sessions of one, so that tokens and sessions end under way; development logins
  are enabled. Calls are symmetric.
- `startup`: two replicas, two migrations of which some may be there, two
  configurations that differ in secret, provider and development login, one stop
  and one edit.
- `token_cache`: two callers, cut-offs of two, a margin of two cut-offs (the code
  has 60 s for twice 10 s), one token taken back early, an adapter that trusts any
  answer. The other adapters have fewer behaviours, and the theorems cover both.
- `deliveries` is capped at two: nothing depends on more.

Deadlock is not checked: every bounded instance ends when its requests, events,
or jobs are used up.

### Fairness

`Worker.Run` ticks for ever and Kubernetes restarts a stopped replica, so worker
steps and restarts are weakly fair. It is assumed that calls of the cluster and
the database return; `wait` has its own deadline. Requests, decisions, faults
and commits of events are never forced. Outbox sends, in `Delivery` too, need
strong fairness of acceptance: a platform asked again and again accepts some
time. A stream handler and its open connection are weakly fair. A rollout job is
weakly fair and its controllers are not fair at all: jobs must end without their
help.

A start goes on (weak fairness); an advisory lock goes to a waiter that is there
again and again, and a platform that is checked again and again is healthy some
time (strong fairness), since a start that fails is repeated. Callers of an
access token go on, `http.Client` cuts their calls off, the outbox repeats a send
that failed, and a platform that is asked again and again issues some time a token that
the adapter gets, and gets some message whose token is good.
`Access` has no liveness: each call is made once and may end at any point.

## What is proved

`OperationsProofs` proves for all values of the constants, under
`ConstantsAssumption` (the constants have their types; the null values are not
members of the sets they stand outside of):

- `Invariance`: `IInv` is an invariant. `IInv` strengthens the properties by what
  ties the tables to the workers' local state: which status the operation of a
  worker has at each point of `runOne`, how many rollouts go with it, that a
  worker between claim and outcome is the only one with its operation, and that
  every row past `pending_approval` on a gated environment has an approval by
  another user. None of the properties is inductive alone: `RolledOutAtMostOnce`,
  for one, needs that an executing worker's operation is running, has no rollout
  yet and has no second owner.
- `TypeCorrect`, `FourEyesHolds`, `OneOwnerHolds`, `RolledOutAtMostOnceHolds`,
  `SuccessIsRealHolds` follow from it.
- `Refinement`: `Operations` implements `ChangeControl`. Each action maps to one
  abstract action or a stutter; faults and claims without effect stutter.
- `LedgerHolds`: `Ledger` joins `OneDecision` and `OutcomeIsPublished` to
  `UnusedInv`: an operation without a row has no approval, no outcome event and no
  notification. Without it a new row could meet the decision or the outcome of an
  earlier life. A worker that settles knows by `IInv` that the status it leaves is
  not yet an outcome. `OneDecisionHolds` and `OutcomeIsPublishedHolds` follow.
- `LossesByFaultsOnlyHolds`: `LossInv` adds that the two sets of lost rows are
  finite, so that they can be counted. A step without a fault adds nothing to them
  (`GainsNone`); a step with one adds at most one row to one of them (`GainsOne`).
- `ClaimsInOrderHolds`: a claim chose the oldest row that was not locked, so what it
  passed was locked then. Without faults only the commit of a claim unlocks a row, and
  makes it run; requests and approvals touch no row that is queued already. Nothing is
  assumed of the order of stamps and commits.

There is one lemma per group of actions, and under it one step per conjunct the
action can disturb.

`AccessProofs`: rights only grow, since no step takes a permission from a role or
a role from a user. So what a call has read is still part of the tables
(`IInv`), which gives `SnapshotNeverExceedsHolds` and
`AdministratorsMakeAdministratorsHolds` (a call that acts as an administrator belongs to
one who is one still; a development login adds its own user and no other), and what it had when it was named is
still there to be read (`ReadInv`), which gives `SnapshotMissesNothingHolds`.
`LateActsExplainedHolds` rests on `CredentialInv`: the two steps that end a
credential, `Revoke` and `Tick`, note the calls they cross.

`ProviderSwitchProofs`: an operation created outside a race has the active
provider and is seen by every change under way (`SwitchInv`), so no change can
write before it ends: `OrphansExplainedHolds`. `KeysUnique` says that an event's
key makes its operation unique, `CardInv` that a card in need of sending was not
sent yet: `DeliveredOnceHolds`, `MissingCardsExplainedHolds`.

`RolloutProofs`: a job's fresh copy has the size of the object, and the size it
waits for, once it has read one (`HasRead`), is that of the object unless it was
`rescaled` (`KnowsSize`); the
template of a waiting job is in place unless the job was superseded (`HasPlace`).
`ScalePreservedHolds`, `CompletionIsSeenHolds`, `ForeignSuccessExplainedHolds` and
`SuccessWasCountedHolds` follow. `RevisionKeepsMeaningHolds` uses that the largest
revision never falls, so that a new revision is a number the history did not have.
It assumes that the revision asked for is not beyond the history
(`AskedForHistory`). The code takes any positive number; for one that does not
exist yet, the job finds whichever template has got it by then, or fails.

`StartupProofs`: `Right` says for each point of a start what the database holds by
then; a step is right for the replica that takes it, and for the others mostly
because it holds an advisory lock they would need. `TokenInv` counts the tokens
together with the starts that are about to insert one. Besides the properties of
the run: `MigratesAtOnceHolds` (the schema changes in one step),
`ChoiceSurvivesStartsHolds` and `DevelopmentAdminIsWholeHolds`.

`DeliveryProofs` begins with `Outbox` by itself: a row that a worker still holds and that is due again is recorded
in `lapsed` (`Expired`); since claims take due rows only, no other row gets a second
holder. `Reasons` says where a delivered row may be: explained, finished, or with
the worker that has not marked it yet. `LeaseKeepsWorkersApartHolds`,
`DuplicatesExplainedHolds` and `SentWasDeliveredHolds` follow.

`TokenCacheProofs`: the platform's idea of a token is at most one cut-off behind
when the token is kept and two when it is sent (`Good`), which the margin covers if
it is two cut-offs, as `ConstantsAssumption` says and the code has it. Each place
in the queue of the mutex is worth one cut-off (`InPlace`), and a queue without
repetition is no longer than there are callers. A call whose answer had a token sends a good one (`Sound`), and only
a trusting adapter sends without (`Bare`). `RefusalsExplainedHolds`,
`WaitBoundedHolds` and `FetchedWhenDueHolds` follow.

`DeliveryProofs`, of `Delivery`: `LifeInv` and `PostInv` are what the composition needs of its
halves: a worker that settles has a running operation of its own, and a worker that
sends stands at a row that exists. `TurnsOK` says when a replica is in
which half. `Letters` joins them: a row that exists tells the recorded outcome of an
operation that a chat asked for. It is kept because outcomes never change
(`OutcomesStay`) and a settled row is written with its own outcome. So `Settle` is
`Record`, an accepted send is `Tell`, a request from a chat is `Ask`, and every other
step stutters: `Refinement` says that `Delivery` implements `Reporting`. Of the
constants it assumes only that rows are numbers.

Then what is proved of the halves by themselves is proved of the composition, with
the assumptions of both (`CycleAssumption`, `ConstantsAssumption`). `StepOfLife`: a
step of `Delivery` is a step of `Operations`, or leaves its variables alone except
that a fault may be counted. So `LifeCycleInv`, all of the invariants of
`OperationsProofs` as one, is an invariant of `Delivery`, and with it `OutboxInv`
(`NextPost`), since the faults stay within the bound. `LifeGuaranteesHold`, the order
of claims included, `OutboxGuaranteesHold` and `ChangeControlHolds`, the refinement of `ChangeControl`,
follow. Only with both can be proved what neither half says: `OneLetter`, that an
operation has a row of the outbox exactly if `Operations` counts one, and no second.
`ChatsAreToldHolds` puts it together: an outcome that a chat asked for is in one row,
and a row marked as sent has told the chat this outcome alone.

`EventStreamProofs`: `SomeOrder` and its successors are about finite sets of numbers:
they can be put in order in one way only, so that `InNumberOrder` is a rising sequence
with exactly their members. A row in the first `Limit` behind the cursor is preceded by
no other that is left out. The invariant says that what a client received and what is
under way to it rise as one sequence (`PathRises`), whose last member is the cursor
(`CursorAtEnd`), and that all of it is committed (`NothingUndone`). So the cursor never
passes a row that is still open without that row becoming late when it commits:
`EventsInOrder`, `OnlyLateEventsAreSkipped`, `NobodySeesTheUndone`. A client that
continues starts from its last event, others from the beginning, with an empty path.

Type invariants are theorems of these modules (`TypeCorrect`, `OutboxTypes`,
`TurnsHold`; in `EventStreamProofs` a part of the invariant). That of `Rollout` leaves
out one number of the status, the available pods, which a library function sums over a
set by recursion.

Every safety property that a run expects to hold, invariant, action property or
refinement, is a theorem. Only model-checked are the liveness properties, since
liveness under fairness and `ENABLED` are out of the prover's reach.

## Not modelled

- `FeishuWebhook`, `handleCommand` and `handleCardApproval` (api.go:701-838): the
  older webhook has no route any more.
- Signatures and decoding of messages, hashing of secrets, CSRF and OAuth states,
  encryption: functions of their input, with no state that others see.
- Configuration files, router, logging, metrics and the web UI: no protocol state.
- Listings and administration of the catalogue, creation of users and roles: single
  reads and inserts.
- The health that the registry remembers is only displayed; the client cache of
  the Kubernetes manager changes no outcome.
- The columns `claimed_by`, `attempts` and `next_attempt_at` of operations are
  written and never used to decide.

## Plan

Done, in order: `Domain`, `Operations`, `ChangeControl`, `OperationsProofs`,
`Outbox`, `ProviderSwitch`, `EventStream`, `Rollout`, `Startup`,
`Access`, `TokenCache`, `Reporting`, `Delivery`,
`AccessProofs`, `ProviderSwitchProofs`, `RolloutProofs`, `StartupProofs`,
`TokenCacheProofs`, `DeliveryProofs`, `EventStreamProofs`.

1. `Execution`: an abstract rollout that `Rollout` implements, to replace the
   free outcome in `Operations`.
2. The events of `Operations` as the rows that `EventStream` shows, composed as the
   outbox is.
3. Runs with three operations, and two jobs that both roll back, within the
   present run times.
