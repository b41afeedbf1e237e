# Verification of the Inari control plane

TLA+ models of the concurrent core of inari-server, the TLC instances that check
them, and TLAPS proofs of their main safety properties for every value of the
constants. `PROJECT.json` maps every definition to the source lines it models and
lists the components, the runs, the mutants, the hazards and the theorems.

Contents: [1 the system](#1-the-system) · [2 modules](#2-modules) ·
[3 runs](#3-runs) · [4 bounds](#4-bounds) · [5 fairness](#5-fairness) ·
[6 proofs](#6-proofs) · [7 findings](#7-findings) ·
[8 what the code does not keep](#8-what-the-code-does-not-keep) ·
[9 behaviours seen and not checked](#9-behaviours-seen-and-not-checked) ·
[10 what is not modelled](#10-what-is-not-modelled)

## 1 The system

inari-server is a Go control plane that runs as several identical replicas over
one PostgreSQL database, with NATS JetStream as its event bus, Keycloak for
identities, OpenFGA for permissions, a secret store, and git repositories as the
destination of what it deploys. An agent in every managed cluster keeps one bidi
stream open to some replica. `cmd/inari-server/main.go` wires the parts.

Three mechanisms carry the rest:

* **Transactions with an outbox.** A service writes its rows, an audit row and an
  outbox row in one transaction. A relay on every replica publishes outbox rows to
  JetStream, and every named handler consumes them through a durable consumer with
  at-least-once delivery and a delivery budget.
* **Leases.** Loops that must run once in the deployment (resume scans, sweeps,
  reconcilers) are wrapped in `leaderlease.Run`.
* **Approvals.** Destructive or policy-gated operations open an approval request
  and stop; the outcome comes back as an outbox event that a resume handler
  consumes.

Everything else is either a multi-step workflow on top of these three (tenant
deletion, zone vending, scaffolding, deploys, rollouts), the agent plane, or CRUD
with an audit row.

### Components

| component | state it keeps | operations | interacts with | what makes it hard, and correct |
|---|---|---|---|---|
| leader lease | `leader_leases` row; per-replica renew goroutine | Acquire, renewLoop, Release, Run | Postgres; gates other loops | lost and late statements, expiry seen by the database and not by the holder; one driver while nothing fails, a bounded overlap otherwise, failover |
| outbox and dispatcher | `outbox` rows, JetStream stream and consumers | AppendOutbox, RelayOnce, deliver | every service writes it, every handler reads it | crash between PubAck and commit, redelivery while the first handler still runs, budgets; nothing committed is lost within its budget |
| approvals | `approval_requests` | Gate, RequestLifecycleApproval, Decide, Cancel, ExpireSweep | outbox; orchestrator, tenancy, scaffold, zones and fleet resume on it | four ways to settle race; exactly one outcome, announced once, not by the requester |
| tenant deletion | `organizations.status`, `tenant_deletions`, Keycloak, OpenFGA, audit archive | DeleteTenant, RetryDeletion, resume handler, resume scan, teardown steps | approvals, outbox, lease, cluster registry | redelivered and stale outcomes, two teardowns at once, crash between a step and its mark; nothing destroyed unapproved, no step skipped, a tenant frozen exactly while its deletion is tracked |
| tenant creation, seed | organization in Keycloak and in the database, teams, base resources | CreateTenant, SeedPlatformOrg, backfill at start-up, administrators' sync | tenancy, platform resources | only two of six steps are undone; servers start side by side |
| cluster registry | `clusters`, `registration_tokens` | create, issue and revoke tokens, approve, revoke, delete, cordon, uncordon, decommission | agent gateway, tenant deletion, orchestrator | check-then-write across transactions; single-use tokens, lifecycle state machine |
| agent gateway | sessions per replica, `agent_commands`, capability view and checksum, credential references | RegisterCluster, Connect, session events, command queue, credential redemption | registry, Keycloak, secret store, inventory | side effects before the token is burned, reconnects, framed full sync, at-least-once commands |
| orchestrator, git webhooks | `resource_instances`, git commits, queued registrations | deploy, upgrade, rollback, spec update, delete, resume on approval, finalize a merged pull request | approvals, inventory, agent commands, catalog | gated resumes delivered twice, partial failure between git, queue and database |
| git repositories | `tenant_git_repos`, hooks, webhook secrets | register, update, set default, remove, provision, sweep | git provider, vault | two stores of one secret, two rows of one slug |
| add-ons | `cluster_addons`, manifests | discover, adopt, update, prune, delete, reconcile the fleet's | agent commands, git, webhooks | whole-row writes from an old read; the queue ignores an id it knows |
| fleet manager | rollouts, targets, gates, drift events | create, start, stop, resume, roll back, advance, drift sweep | agent commands, approvals, lease | several drivers of the same rows without a lock |
| tenant zone factory | `tenant_zones`, step rows | vend, decommission, resume, reconcile | approvals, AWS, Crossplane, registry, git | resumable chains with external effects, whole-row writes |
| scaffold | `scaffold_runs`, step rows | create, drive, resume, cancel, retry, reap | approvals, git, tenancy | every replica drives; effects before rows |
| tenancy: roles, teams, members | rows, Keycloak groups, OpenFGA tuples | CRUD, tuple writer, two convergence loops | outbox, Keycloak, OpenFGA | three stores and events in any order; no lock-out, convergence |
| access caches | decision cache, generation, organization cache | Check, invalidating store, eviction | OpenFGA, Redis or memory | a slow check writes an old answer after a bump |
| identity and brokering | Keycloak clients and identity provider, rows that mirror them | create, update, disable, delete | Keycloak | undo of half-done calls beside other calls |
| extension host | rows, a Keycloak client per name, exchanged tokens, user sessions, UI files | register, verify, rotate, unregister, proxy, serve | Keycloak, extensions | one name for several rows, age of kept credentials, stale caches |
| user git connections | one connection per user and provider, refresh tokens | authorize, call back, access token, disconnect | git provider | rotation that treats a second use as a replay |
| policy service | policies, exemptions, packs, assignments | CRUD, evaluate, decide, distribute | outbox, agent commands | reads one after the other, half-done fan-out |
| platform resources | rows, manifests, agents' statuses | base and client resources, reconcile, backfill, teardown | git, agent commands | renders and removals must agree on paths |
| notifications | endpoints, deliveries | CRUD, handler, retry sweep | outbox | fan-out that fails halfway |
| kubeproxy and the kubectl flag | tunnel sessions, connections, cached flag values | Connect, ServeHTTP, watcher; Set, Clear, evaluation | agent tunnel, cache | close beside reconnect, tail of a response, a flag flipped while it is being read |
| not modelled | | git providers, secret stores, catalog, cloud accounts, cluster dex, RBAC materialization, renderer, HTTP, authentication, configuration, OCI, crypto, database access | | see section 10 |

## 2 Modules

| module | models | kind |
|---|---|---|
| `LeaderLease` | internal/leaderlease | component |
| `Outbox` | internal/audit (outbox, dispatcher); JetStream as external | component |
| `ApprovalContract` | what an approval promises its clients | abstract specification |
| `Approvals` | internal/approvals | component, implements `ApprovalContract` |
| `TenantDeletion` | internal/tenancy deletion and its resume handler, the tuple writer's share | composes `ApprovalContract` with the teardown and the outbox's delivery guarantee |
| `TenantSetup` | internal/tenancy CreateTenant and seed, platform administrators, start-up | component |
| `ClusterRegistry` | internal/clusterregistry, the registration exchange, stream admission | component |
| `AgentSync` | internal/agentgateway stream, internal/capabilities | component |
| `AgentCommands` | internal/agentgateway queue, dispatch, extension invocations, credential vault; inventory states | component |
| `Caller` | the caller of an HTTP handler and the built-in roles | shared by the components with handlers |
| `Deploy` | internal/orchestrator, internal/gitwebhook, instance rows of internal/inventory | component |
| `GitRepos` | internal/gitrepos, hook provisioning of internal/gitwebhook | component |
| `Addons` | internal/addons | component |
| `Fleet`, `Drift` | internal/fleetmanager: rollouts; the drift sweep | components |
| `Scaffold` | internal/scaffold | component |
| `ZoneFactory` | internal/tenantzonefactory | component |
| `Policies` | internal/policyservice | component |
| `Tenancy` | internal/tenancy roles, teams, members; internal/authz tuple writer and loops | component |
| `AccessCache` | internal/authz cachepep, internal/cache, organization cache | component |
| `Identity` | internal/tenancy identity and broker | component |
| `ExtensionHost`, `ExtensionProxy`, `ExtensionUi` | internal/extensionhost: registry; proxy, exchange and sessions; UI files | components |
| `UserGit` | internal/usergit | component |
| `PlatformResources` | internal/platformresources | component |
| `Notifications` | internal/notifications | component |
| `FeatureFlags`, `KubeProxy` | internal/featureflags for the kubectl flag; internal/kubeproxy, which extends it | composed |
| `LeaderLeaseProofs`, `TenantDeletionProofs`, `ClusterRegistryProofs` | the components they are named after | proofs (section 6) |
| `EventsProofs` | Outbox, Fleet, ExtensionUi | proofs |
| `AgentProofs` | AgentSync, AgentCommands, KubeProxy, PlatformResources | proofs |
| `AccessProofs` | Approvals, Tenancy, AccessCache | proofs |
| `ServicesProofs` | Deploy, GitRepos, Addons, ExtensionHost, ExtensionProxy, Identity, UserGit | proofs |
| `WorkflowsProofs` | ZoneFactory, Policies, Drift, Scaffold, TenantSetup, Notifications | proofs |
| `MC*` | | TLC instances (section 3) |

In every module a transaction is one step, because PostgreSQL makes it one; what a
request read before its transaction is kept in the request's own state, so that
another actor may act in between. A call to Keycloak, OpenFGA, git, the vault, the
queue or an agent is a step of its own. Operators whose comment starts with
`Mutant:` are the altered forms used to show that a property can fail; no
specification uses them. In the map of `PROJECT.json` a helper whose lines lie wholly
inside those of the definition that uses it has no row of its own.

### LeaderLease

State: the row (`hold`, `left` = remaining validity), the Run loop of each replica
(`pc`), its renew goroutine (`rn`, `due`, `tickIn`, `age` = time since `lastOK`,
`lag` = age of the statement in flight) and the gated function (`fn`). A statement
is three steps: sent, executed by the database, answered or reported failed. A
failed statement may have been executed, and a timed-out DELETE may be executed
later (`late`). An element of `Replica` is one incarnation, as `Config.Holder` is
unique per restart. Time is relative and `Tick` waits for goroutines that have
something to do: no process is slower than the ticker, except for calls, which
take up to `Lag`.

### Outbox

State: rows with their attempts and last error; the batch a relay transaction has
locked (`claimed`, `mark`); copies of an event in the stream, whether its message
id is still in the deduplication window; per handler group and copy the deliveries
made, what each replica's consume loop has in hand, and whether the handler ever
succeeded. `RelayClaim` is the SELECT ... FOR UPDATE SKIP LOCKED, `RelayPublish`
one publish of the batch and its PubAck (or its loss), `RelayCommit` the write-back,
`RelayRollback` any error before it. `AckWaitExpires` redelivers while the first
delivery may still be running, because the first BackOff delay replaces AckWait.

### ApprovalContract and Approvals

The contract: a request is opened once, settled once, and its settlement is
announced once. `Approvals` has Decide and Cancel as two steps (read and authorize,
then the conditional UPDATE with its event), and the sweep as a list and one
transaction per request. `AuthorizeLifecycleApprover` and `CheckApprover` are the
two authorization rules. Permissions are constants: a permission that is revoked
between the check and the transaction is an ordinary check-then-act of an HTTP API
and not distinguished. The refinement maps `st` to `outcome` and `log` to
`announced`.

### TenantDeletion

Extends `ApprovalContract` and adds the organization's status, the tracking row,
what the teardown destroys, the calls (`RequestRead`, `Freeze`, `OpenApproval`,
`LinkApproval`), the outcome events with their delivery count, the workers
(handler, retry, scan) with the step each believes to be done, and the tuple
writer's queue. The five teardown steps are five actions, each followed by
`MarkDone`; a run may crash, fail or be overtaken anywhere. `RegisterCluster` is
another user creating a cluster meanwhile.

### ClusterRegistry

One cluster, its tokens, its Keycloak client and the secrets delivered. A request
begins at its handler (`ClusterRoutes`): `authorizeOrg` asks for the permission the route
names, `requireOrgCluster` for the cluster of that organization. An
administrator's request is a `...Load` step (GetCluster and the checks), for
revocation and decommission a `DisableClient` step, and the transaction. An
exchange is `RegisterPeek`, `CreateClusterClient`, `DeliverSecret`,
`DeliverTunnel`, `ProvisionDex`, `ConsumeToken`, `MarkRegistered`; it and any other
request may end after every step (`AbortAgent`, `AbortAdmin`). The two reads of
PeekRegistrationToken are one step: everything they establish is established again
by the consumption. Nothing in the repository sets `degraded`, so no action does.
Which instances block a decommission is not modelled: the request is simply not
made in that case.

### TenantSetup

A tenant is made by one call in six steps (organization in Keycloak, rows, groups,
base resources, kubectl client, the creator's memberships); `TenantFails` is the
error or crash at each, and only the first two undo each other. `BootStep` is the
start of a server: the seed of the platform organization, which several servers race
for, and the backfill of base resources for the tenants it found. `SyncReads` and
`SyncWrites` are the loop that turns the administrators' group into org_creator tuples.

### AgentSync and AgentCommands

`AgentSync` keeps what the agent has (`live`), what the server's view has (`caps`), the
events in flight and the session. The agent is external and modelled from what
stream.go expects of it; a checksum is modelled as the state it identifies. `settled`
is bookkeeping: a full sync was finalized on this stream and nothing was lost since its
snapshot. `AgentCommands` has a queue row per command, the sessions that dispatch what
is due, answers, expiry, the credential a command carries and the extension
invocation that waits for it. An answer completes the row and marks the instance in two
statements (`HandleAck`, `FailInstance`); a dispatch takes the oldest `DueLimit` rows
and skips a payload it cannot decode.

### Deploy, GitRepos, Addons

A request of `Deploy` is a task of four steps (load and gate, write to git, queue the
registration, record) that may fail or be lost between any two; a gated one stops
after opening an approval and continues when the decision is delivered, possibly
twice. The agent removes an application when its instance is deleted (`app`), and a command
id once answered stays answered, so that a name may be deployed again. `GitRepos` has the
rows, the hook of each slug at the provider, the secret in
the vault, and three ways to provision (registration, sweep, rotation), each with the
slug of the row its caller read. A call of `Addons` works from the row it read until it
stores it; a manifest is kept per add-on id and, in `gitFile`, per file, which the rows of
one item in one repository share.

### Fleet and Drift

A worker of `Fleet` is the advance loop, a handler or the approval handler; each works
on the rollout row it read (`worker[w].row`) and only the state column is compared when
it writes. Commands and targets are functions of stage and cluster, as command ids are.
`Drift` has two sweeps that list, look and insert in separate statements.

### Scaffold and ZoneFactory

A driver of `Scaffold` is the loop of one replica with the run and steps it read; an
effect and its row are two steps. An approval may expire, which nothing tells the run. A
call of `ZoneFactory` reads the zone row first and
waits for the zone's mutex after, and every write is of the whole row. The cloud is
external: an account and clusters that take their time and may fail.

### Policies, PlatformResources, Notifications

`Policies` has the rows of one organization, exemptions that expire, an evaluation that
reads policies and exemptions one after the other, and the distribution of an assigned
pack by the event handler. `PlatformResources` has the rows, the manifests each render
leaves, the commands queued and the statuses agents send. `Notifications` has endpoints,
the handler with its fan-out and the sweep over failed deliveries; the sweep sends and
counts in two steps, and `uncounted` has the sends whose count was lost between them.

### Tenancy and AccessCache

`Tenancy` keeps the three stores (rows, groups, tuples), calls in progress, events with
the permissions that were read when they were written, and the two loops with what they
listed; a loop reads the groups or tuples of one object and writes the differences one
after the other. `AccessCache` keeps tuples, the generation of each backend (one per replica, or
one Redis), cached answers with the generation they carry, calls in progress with the
generation they read, and the organization row with its cache.

### Identity, ExtensionHost, ExtensionProxy, ExtensionUi, UserGit

`Identity` and `ExtensionHost` pair an object of Keycloak with a row; a call checks the
row, changes Keycloak, writes the row and undoes. `ExtensionProxy` counts time: an
exchanged token is kept from the answer for at most a configured while, its life counts
from the issue, and it is cached by subject token, extension and audience. A session
stores a credential with its own end of life, which may say when it ends, and an expiry
taken from the caller's wish, the claim or the default, in this order. `ExtensionUi`
keeps files by address and checksum per replica.
`UserGit` numbers refresh tokens in the order of their issue; the provider refuses all
but the last, or any when it rejects the application's own credentials.

### FeatureFlags and KubeProxy

`FeatureFlags` is one flag with two scopes, its rows, the values kept by the proxy under
the current generation, writes whose bump is still to come, and readers that got a value
and have not kept it yet. `KubeProxy` extends it with the streams of one cluster
(`Connect`, `Register` with its eviction, `Unregister`), requests with their connection
in the mux, and the watcher that closes sessions. A session closes in two steps, the
context and then the connections; the handler of a closed stream stays until the stream
itself ends.

## 3 Runs

| run | result | what it shows |
|---|---|---|
| `MCLeaderLease` | holds | two replicas: without failed calls never two drivers; with up to three failed calls the overlap ends `TTL + RenewInterval + Lag` after the last good renewal; the loop is led again and again; a usurped leader stops |
| `MCApprovals` | holds | one lifecycle and one peer request, three actors, two sweepers: one outcome, never by the requester, refinement of the contract, pending requests settle |
| `MCTenantDeletion_safety` | holds | nothing destroyed unapproved, no step skipped, frozen exactly while tracked |
| `MCTenantDeletion_live` | holds | a teardown in progress ends |
| `MCClusterRegistry` | holds | two administrators' requests and two exchanges: tokens burned once, registered clusters have credentials, the state machine is followed, a consumable token is spent |
| `MCEvents` | holds | bus, fleet and extension UIs: no committed event is lost within its budget and every event is settled; every target of a rollout is backed by a command, rollouts move along their edges and lost gate requests are made again; a served file is the pinned one and caches catch up |
| `MCAgent` | holds | capability view, command queue, platform resources, kubectl tunnel: a finished sync drops nothing live; redelivery spends no credential twice and every command is answered; renders and removals agree; sessions, requests and the flag (see below) |
| `MCWorkflows` | holds | drift, scaffold, zones, policies, tenant creation, notifications: what is reported is done, no retry gets around a decision, every workflow comes to rest |
| `MCAccess` | holds | tenancy and caches: an administrator remains, a revoked grant is not answered from a bumped cache, rows, groups, tuples and caches converge |
| `MCServices` | holds | deploy, repositories, add-ons, extension registry and proxy, identity, user git: rows tell the truth about git, queue, Keycloak and vault; what is written was approved; an enabled prune flag stays in its row and a UI's removal leaves the backend; credentials are the right user's |
| `MCClusterRegistry_revoked`, `MCServices_addons` | violation | the two findings of section 7 |

Every property of a passing run has at least one mutant: a plausible mistake in a
mapped definition under which the same instance violates it.

**Sum runs.** `MCEvents`, `MCAgent`, `MCWorkflows`, `MCAccess` and `MCServices` check
several components at once. They are unions, not products: the variable `focus` is
chosen in the initial state and only that component moves, the others resting in one
initial state. The components of one such run share no variable, so a behaviour of
their product is, for each of them, one of its own behaviours with stuttering, and a
property of one component holds of the product as soon as it holds here. Where
components do interact they are one module (`Deploy` with the webhooks, `KubeProxy` with
the flag) or one stands for its contract in the other (`ApprovalContract` in
`TenantDeletion`; an approval or a queue with redelivery in the workflows).

**Grouped properties.** A property of a sum run may be a conjunction with a part per
component, each part being defined, with its comment, in the component's module:

| property | parts |
|---|---|
| `RecordsAreTrue` | `RegisteredIsCommitted`, `RecordedIsRegistered` (Deploy; the second for a name never removed before), `LiveIsRegistered` (Addons), `SecretsAgree` (GitRepos), types |
| `ClientsAgree` | `ReadyHasClient`, `ClientAgrees` (ExtensionHost), `NoOrphanClient`, `AgreeAlone` (Identity) |
| `TokensRight` | `CredentialOfUser`, `TokenAlive` (ExtensionProxy; exchanged tokens, not sessions), `NoFalseWipe`, `CachedIsPersisted`, `CallbackOnce` (UserGit) |
| `RowsSurvive` | `PruneKept` (Addons; the row's flag, not git), `UiLeavesBackend` (ExtensionHost) |
| `ReportedIsDone` | `CompletedRunIsDone` (Scaffold), `NoOrphanOrg`, `CreatorIsAdmin`, `BackfillHeals` (TenantSetup), `HandledIsRecorded`, `AttemptsCapped` (Notifications), types |
| `GatesHold` | `ZoneTeardownApproved` (ZoneFactory), `PassedIsExempt` (Policies) |
| `WorkflowsSettle` | `DriftSettles`, `RunSettles`, `ZoneSettles`, `AssignedIsDistributed`, `StartedServersComeUp`, `EventsAreHandled`, and `ExemptionFinal` |
| `AccessConverges` | `GrantsSettle`, `MembersSettle` (Tenancy), `CacheConverges`, `LiveGetsTuple` (AccessCache), types |
| `RolloutMovesOn` | `RolloutFollowsMachine`, `GateIsRequested` (Fleet) |
| `UiIsCurrent` | `PinnedIsServed`, `CachesCatchUp` (ExtensionUi), types |
| `CommandsSound`, `CommandsAnswered` | `CredentialSingleUse`, `AppliedMeansDone`; `AnsweredStaysAnswered`, `QueuedIsAnswered` (AgentCommands) |
| `ResourcesSound` | `EveryReconcileNotifies`, `TeardownIsClean`, `StatusFollowsHealth` (PlatformResources), types |
| `KubectlSafe` | `LiveIsCurrent`, `NoStrandedRequest`, `TailWritten`, `NoOrphanAtAgent` (KubeProxy), types |

The type invariants of `LeaderLease` and `ClusterRegistry` are theorems (section 6) and
are not checked again by a run. Liveness has two forms: `[]<>` of a settled state where
work may come again, and `<>[]` where the bounds let the environment fall silent.

Deadlock checking is off where the system may come to rest: all requests settled
(`MCApprovals`), the tenant gone (`MCTenantDeletion*`), the cluster deleted
(`MCClusterRegistry*`), and, in the sum runs and `MCServices_addons`, all bounded inputs used up.
It is on in `MCLeaderLease`.

## 4 Bounds

* `MCLeaderLease`: two replicas are enough for every race over one row (holder and
  contender; a restarted pod is another contender). `TTL = 2`, `RenewInterval = 1`
  is the smallest timing that satisfies the relation of the defaults; three failed
  calls let a leader miss its renewals until the row expires and another one
  acquires it, and fail once more. `Lag = 0` keeps calls instantaneous; the theorems hold
  for every `Lag` of the assumption. renew itself sets no deadline, so that some bound on
  a call exists, and that a configured interval fits it, is assumed (`TimingAssumption`).
* `MCApprovals`: two requests of the two policies with a self-approval rule, three
  actors (requester, operator, other), two sweepers.
* `MCTenantDeletion_*`: two workers, since the races are pairwise; one request (so the
  outcome of an older one meeting a newer one is left to the proofs, which cover any
  number, and to section 9); two deliveries, so that a redelivery happens; two crashes
  or failing steps in `_safety`. In `_live` there are fewer faults than deliveries: with
  as many, the budget is spent and the operator has to retry, which nothing forces.
* `MCClusterRegistry`: one token, which is all a race of two exchanges needs; two
  administrators' requests, one early end, two users (an operator, who may do
  everything, and a viewer, whom the handlers refuse). A second token adds re-registration of
  an active cluster; the proofs cover any number.
* `MCEvents`: one event, so that a poisoned row in front of others is left to the proof
  of `NoLossWithinBudget`; two handler groups, because `deliver` has a branch for
  unsubscribed types; two publish attempts and two deliveries, so that both budgets run
  out; one fault. One copy of an event in the stream: a republication after the
  deduplication window only adds another copy with its own budget, and
  `NoLossWithinBudget` asks for one. The rollout has two stages of one cluster with an
  approval before the first and a wait after the second, one handler beside the advance
  loop, three requests and one crash. The UI has one replica, two bundles, one
  publication and one update of the descriptor; the proof of `PinnedIsServed` covers
  several replicas.
* `MCAgent`: two capabilities, two changes, one lost update and two streams, so that a
  second sync starts while updates of the first are in flight; one command, one
  row per dispatch and two sessions with one lost stream; one base and one client resource with two calls. The
  tunnel is checked in three parts because the product of all its faults is too large:
  `tunnels` has both streams, the flag's rows, its cache and the watcher, without a
  request; `reconnect` has a request while the agent loses its stream and dials again;
  `switched` has a request on a stream that stands while the flag, whose older value is
  still kept, has been turned off. Stream ids are interchangeable, so `Dial` takes one
  free id. The channel of a connection holds one message and the byte cap is one frame,
  so that both limits are reached by the two frames of a response.
* `MCWorkflows`: two drift instances and two sweepers; one driver that may crash (two
  make more than 1.5 million states; the proofs cover any number), runs of both kinds, a
  gate with two request ids (`GateSpent` once both are used), two failing steps; one
  zone with one call at a time, two request ids and three redeliveries; one policy with
  one exemption and a pack on two targets; two tenants (one reserved), two servers; two
  endpoints, one event with two attempts and three deliveries.
* `MCAccess`: two teams, two roles, two concurrent calls, one fault: a lock-out needs
  two calls, and since an idle call has no state the second begins only while the first
  is in progress (`LowestIdleBegins`); one object, two replicas, three cached entries'
  worth of requests over a cache of two.
* `MCServices`: two of whatever may collide (tasks, repositories of one slug, calls,
  extension rows of one name, replicas), three or four requests, one fault each. Add-ons
  share one repository; two proxy requests with two subject tokens and three audiences; a
  credential lives for two units or is over already. The one element of `Spec` makes
  the specification of a deploy a matter of the proofs.

`TLC` symmetry (replicas, workers) is used only in runs without liveness.

## 5 Fairness

* `LeaderLease`: weak fairness of each goroutine's own steps and of time. `RenewEnd`
  is strongly fair: renewLoop's `select` picks at random among the ready channels,
  so a stop that is ready again and again is taken. The gated function returns once
  its context is cancelled, which all gated loops do. Nothing obliges the
  environment to crash or fail.
* `Outbox`: relay and consume loops are goroutines that run while the process does;
  JetStream redelivers what is not acked (after its ack wait, or to the next pull);
  a handler call returns, which is an assumption: `deliver` sets no deadline of its own.
* `Approvals`: one sweeper keeps ticking (the lease's failover), and a request that
  is listed again and again is updated (strong fairness of `SweepOne`: a failing
  transaction is retried by every later tick).
* `TenantDeletion`: a delivered outcome is handled, a running worker goes on, the
  resume scan runs when the lease is acquired. Not fair: RetryDeletion and DELETE,
  which are people.
* `ClusterRegistry`: the agent retries its exchange with backoff until it is
  registered, and a request in progress goes on unless it is aborted. Not fair:
  administrators, expiry, connecting.
* Sum runs: the loops of the server (advance, drift, scaffold, zone reconcile, team and
  role sync, the watcher's ticker, the dispatch ticker of each session) run again and
  again, a call that was begun goes on, an event is handled, kept values age. Nothing
  obliges a user, an approver, an agent's health or a fault; the agent is assumed to
  answer a command it received, which the queue's redelivery is built on. In
  `TenantSetup` a server that is down is started again.

## 6 Proofs

Eight modules, all for arbitrary sets and bounds. Each proves `Spec => []Inv` by an
inductive invariant `IInv`, preserved action by action, and the listed theorems as
consequences. TLC has checked each invariant on the instance of the component's run
before it was proved. The specifications the theorems name are the components' own
(`Init /\ [][Next]_vars`, the fairness of the runs is not used).

* **LeaderLeaseProofs** (assumes `LeaseAssumption`, `TimingAssumption`:
  `RenewInterval + 2 * Lag < TTL`, which Config.withDefaults establishes by renewing
  three times per TTL). `TypeCorrect`, `OverlapIsBounded`, `HealthyMutex`.
  `IInv == TypeOK /\ Shape /\ Ages /\ Health`. `Shape` ties the states of the three
  goroutines together; `Ages` bounds `age` by where the renewal is (waiting, sent,
  answered) and is what `OverlapBounded` follows from; `Health` says that while no
  call has failed a driver owns the row with more validity left than the time to
  its next executed renewal. Mutual exclusion alone is not inductive: without
  `Health` a contender could find the row expired under a healthy leader.
* **AccessProofs**, approvals (assumes `ApprovalsAssumption`). `ApprovalsTypeCorrect`,
  `SingleOutcome`, `Separation` (nobody decides a request of his own) and
  `ImplementsContract`, the refinement of `ApprovalContract`'s safety part.
  `OpsAuthorized` (an authorized call in flight was not made by the requester) is
  the strengthening: requester and policy of a row never change once it exists.
* **TenantDeletionProofs** (assumes `TenantDeletionAssumption`). `TypeCorrect`,
  `NeverUnapproved`, `NeverSkips`, `NeverLost`.
  `IInv == TInv /\ FrozenIffTracked /\ ApprovedFirst /\ StepsDone`. `StepsDone`
  relates the step number of the row and of every worker to what is already
  destroyed; `ApprovedFirst` says every worker past its load, and every row past
  awaiting, stands on an approval. Both are needed because a worker acts on a copy
  of the row that another one may have changed.
* **ClusterRegistryProofs** (assumes `RegistryAssumption`). `TypeCorrect`,
  `SingleUse`, `CredentialsFirst`, `FollowsLifecycle`. The strengthenings are
  `BurnedInv` (an exchanged token is used or gone), `ExchangeInv` (an exchange at a
  step has done what precedes it, and identities and secrets are never taken back
  by the exchange of another) and `CheckedInv` (a compare and swap about to run
  compares with a state the state machine was asked about).
* **EventsProofs**, the outbox (assumes `OutboxAssumption`). `OutboxTypeCorrect`,
  `OutboxNoLoss` (`NoLossWithinBudget`). `OutboxInv` adds to the types: `ClaimedOnce`
  (a pending row is in at most one relay transaction, what FOR UPDATE SKIP LOCKED
  gives), `AttemptLeft`, `PublishedIsStored` (a publish that was deduplicated, marked
  or recorded has left a copy in the stream), `InHandCounted` (a delivery in a
  handler's hand has been counted) and `AckedForGood` (a copy is acked only by success
  or on its last delivery). No event is lost because each way to settle a row or a copy
  is covered by one of them; the ack of a delivery that was counted before its handler
  crashed needs `InHandCounted`.
* **EventsProofs**, rollouts (assumes `FleetAssumption`: the stages pass
  `validateStages`, finitely many clusters). `FleetTypeCorrect`, `FleetTargetBacked`
  (`TargetBacked`), `FleetFollowsMachine` (the action property). `FleetInv` adds
  `RowsInStage` (the row, and every copy a worker acts on, is in a stage whenever its
  state says so) and `QueuedBeforeMarked` (a worker marks a target only after its
  command was enqueued). The second is what survives a worker that stops between the
  two.
* **EventsProofs**, extension UIs (assumes `UiAssumption`: at least one replica and one
  bundle, and the mark for an absent checksum is no bundle). `UiInvariant`,
  `UiPinnedIsServed` (`PinnedIsServed`). `KeptIsPinned` says that a bundle is kept under a
  checksum only if it is the bundle of that checksum, which is why a cache that outlives an
  update of the descriptor does no harm.
* **AgentProofs**, capabilities (assumes `SyncAssumption`: finitely many
  capabilities). `SyncTypeCorrect`, `SyncNeverDropsLive` (`LiveNeverDropped`).
  `SyncInv == SyncShape /\ SyncSafe`. `SyncShape` says how a replay may be cut: its
  chunks come before its one terminal chunk, across the agent's queue, the stream and
  the session. `SyncSafe` says that what the agent has is named by the sync under way
  or by an update that comes after it, and that a removal is undone by what follows.
  The invariant the run checks speaks of a session that has just finalized; only the
  shape of what is still on its way makes it inductive.
* **AgentProofs**, commands (assumes `CommandsAssumption`). `CommandsTypeCorrect`,
  `CommandsAreSound` (`CommandsSound`), `AnswersAreFinal` (the action property).
  `SpentOnce` ties the number of redemptions to the vault's row, `AckedWasDone` says
  that an acknowledgement on its way, in the queue or at the waiting request follows
  what the agent did.
* **AgentProofs**, the kubectl tunnel (assumes `FlagAssumption`, `KubeProxyAssumption`).
  `KubectlIsSafe` (`KubectlSafe`, with the types of `FeatureFlags` and `KubeProxy`).
  `KubeProxyInv == FlagsOK /\ SessionsOK /\ LiveIsCurrent /\ RequestsOK`. `SessionsOK`
  says that a session which is being closed is known to the one who closes it and that
  the watcher cancels it before it closes its connections; `RequestsOK` places every
  request, its connection and the agent's side of it (`RequestPlaced`) and counts the
  frames: what the connection kept is what was written and what still waits, a result
  comes first, and nothing follows the agent's close (`FramesCounted`). The counting
  rests on three lemmas about `FramesIn` (empty, `Append`, `Tail`). A step of a request
  is shown to move that request from one sound place to another (`MovesSoundly`), a step
  of a stream or of the watcher to close no session that a request waits on
  (`ClosesSoundly`); the rest is assembly.
* **AgentProofs**, platform resources (assumes `ResourceAssumption`: base and client
  resources are distinct and finitely many, there is a client resource to name in an idle
  call). `ResourceInvariant`, `ResourceTypeCorrect`, `ReconcilesNotify` (`EveryReconcileNotifies`), `TeardownsAreClean`
  (the action property `TeardownIsClean`). `ReconcileSent` follows a reconcile through its
  fan-out: its number is in the queue of each cluster it does not still have to come to.
  `FilesAccounted` and `TeardownKnows` say, while no two calls overlap, that every manifest
  in git belongs to a row that is recorded and that a teardown still knows each of them.
* **AccessProofs**, roles and teams (assumes `TenancyAssumption`: finitely many members,
  teams and roles, at least one member, and the anchor team with the administrators'
  role that the creation of a tenant seeds). `TenancyTypeCorrect`, `TenancyRetainsAdmin`
  (`AdminRetained`). `TenancyInv` adds `TeamsHaveRoles` (no team loses its role), which
  is what makes the guardrail of `DeleteTeam` and `UpdateRole` inductive: both count in
  the transaction that writes.
* **AccessProofs**, caches (assumes `AccessAssumption`). `NoAllowIsStale`
  (`NoStaleAllow`), `AccessTypeCorrect`. `CacheInv` adds to `CacheShape`: `StampsReached`
  (no answer carries a generation its backend has not reached), `RevokedIsClean` (what a
  bump has revoked has neither tuple nor allow, cached or about to be written, from the
  present generation on) and `FreshIsClean` (a check that began after the bump reads from
  there on). An answer computed before a revocation and stored after it is harmless only
  because it carries the generation that was read first, and that is what the two say.
* **ServicesProofs**. `ServicesInvariant` is the conjunction of the seven inductive
  invariants below for the specification of the sum run itself, and gives
  `ServicesRecordsAreTrue`, `ServicesClientsAgree`, `ServicesTokensRight`,
  `ServicesWrittenIsApproved` and `ServicesRowsSurvive`, the five safety properties that
  `MCServices` checks. `ServicesStepOfEach` lifts the components: a step of the sum is for
  each component a step of its own or leaves it.
  * *Deploy* (`DeployAssumption`; `AbsentAssumption`: the mark for an absent row is no row).
    Also by itself: `DeployTypeCorrect`, `NothingUnapproved` (`WrittenIsApproved`),
    `RegistrationInOrder` (`RegisteredIsCommitted`, `RecordedIsRegistered`). `DeployInv` adds
    `TasksOK` (what the steps of a task still to come rely on: an approval behind a gate,
    manifests before the registration, the registration before the row, a pull request for
    the same instance), `RowsHavePulls`, `PullsApproved`, `MergedIsCommitted`,
    `AnnouncedIsMerged` and `UpdatesExist`. Tasks act on what they loaded, and webhooks on
    what was opened long ago: each is given the invariant of the row it stands for.
  * *GitRepos* (`GitReposAssumption`). `HooksOK`: the hook of a slug holds the secret of the
    provisioning that patched it last, which is in the vault, or in the hands of the call
    that will store it unless it was cut short. `SecretsAgree` follows once no call is left.
  * *Addons* (`AddonAssumption`). `AddonFits` is about rows, calls, manifests and
    registrations together. `OwnedByOne`: some assignment gives each add-on id to one
    cluster, and every row, call and registration respects it; `ClaimsAlone`: an id that an
    adoption has claimed is named by no other row or call; `AddonQueued` and
    `OwnRegistered`: what is about to be recorded, and what is recorded, is registered,
    under its own id unless an adoption took it over.
  * *ExtensionHost* (`ExtensionAssumption`). `ExtRowsOK` (one live row per name, a ready
    backend has a client), `ExtCallsOK` (what a call saw is still so unless another ran
    beside it) and, unless a call was cut short between Keycloak and its row, `KcExtOK`:
    the client in Keycloak is enabled exactly for a row or for a call that is about to
    write one or to undo it.
  * *ExtensionProxy* (`ProxyAssumption`). `ExchangesInTime` (an exchange is younger than its
    timeout) and `KeptOK` (a kept token expires no later than its own life plus that
    timeout) bound the age of exchanged tokens; that the credential is the caller's comes
    from the key it is kept under. Of sessions nothing is proved but whose they are.
  * *Identity* (`IdentityAssumption`). `NoOrphan` (an enabled client has a row or a call that
    creates it) and, for calls that do not overlap, `AloneAgree`: rows and Keycloak agree but
    for the object the one call is in the middle of, whose place each step determines.
  * *UserGit* (`UserGitAssumption`). `TokensOK`, `CallOK` and `PairOK` place the refresh
    token of the row, of the provider and of every call in the order of issue;
    `DoubtlessOK` says that, with no answer lost, the provider never sees a token twice and
    the newest one is the row's or in the hand of a call that still writes; `StatesOnce`
    says that an authorization state is pending in one place only.
* **WorkflowsProofs** (assumes `ZoneAssumption`, `PolicyAssumption`, `DriftAssumption`,
  `ScaffoldAssumption`, `SetupAssumption`, `NotifyAssumption`). `WorkflowsInvariant`, for the
  specification of the sum run, gives `WorkflowsGatesHold` (`GatesHold`),
  `WorkflowsReportedIsDone` (`ReportedIsDone`) and `WorkflowsExemptionFinal` (the action
  property `ExemptionFinal`, the safety part of `WorkflowsSettle`).
  * *ZoneFactory*. `TurnedApproved`: without an approved decommission nothing has turned
    towards one, neither the cloud nor the rows nor any call or its copy of the row. The
    copy matters, since every write is of the whole row. `StepOfChain` and `AskedWhere` say
    where a call may be.
  * *Policies*. `ExemptedOK`: what an evaluation in progress has let pass is exempted from
    the time it read, or its policy is gone; `TodoUsed` is why a policy that is created
    meanwhile cannot be mistaken for it.
  * *Drift*. `SweepsOK`: a sweep that looks or resolves has something left to do.
  * *Scaffold*. `RowsDone` and `DriversDone`: a step that is completed in the rows, or in the
    copy a driver works on, has left its effect; `AttemptsCounted` bounds the attempts by
    the failures.
  * *TenantSetup*. `OrgsOwned`: an organization without a row is one process's, which will
    write or undo it, or was orphaned by a crash; `ProgressOK` and `SucceededOK`: what a
    creation has behind it is there; `BackfillOK`: the same for a starting server.
  * *Notifications*. `HandlerOK` and `HandledOK`: each endpoint that was listed for an event
    has a delivery, or the handler still has to come to it; `SweepOK`: what the sweep holds
    is below the cap, and each send is counted in the row, in `uncounted`, or by the sweep
    that is about to mark it; `EndpointsOK`: ids of endpoints are not given out again.

Only model-checked:

* liveness (`LedAgainAndAgain`, `UsurpedStops`, `EventuallySettled`,
  `PendingSettles`, `TeardownProgresses`, `TokenEventuallySpent`, `CommandsAnswered`
  but for `AnsweredStaysAnswered`, `SwitchedOff`, `WorkflowsSettle` but for
  `ExemptionFinal`, `AccessConverges`, and the liveness in `RolloutMovesOn`, `UiIsCurrent`
  and `ResourcesSound`), because fairness and ENABLED are beyond the prover. Every
  invariant and action property that a run checks, or that is part of one it checks, is
  a theorem.

What the proofs changed in the models. Three invariants that TLC had accepted on the
instances are false for larger ones, and the models or the statements were corrected: the
attempts of a scaffold step are bounded by its failures and not by `MaxAttempts + 1`, since a
crash between the exhausted attempt and `finalize` leaves the row to be tried again; ids of
policies are never reused (`used`), as a UUID is not; `LiveIsRegistered` no longer says that
a row names the registered application (section 8, `RowNamesRegistered`).

The models contain no recursive definitions; nothing here needs induction over data.

## 7 Findings

1. `MCClusterRegistry_revoked`: MarkRegistered and ApproveCluster overwrite a
   revocation that committed after they had checked the state, and the client,
   whose id the row did not yet have, is still enabled: the agent reconnects.
2. `MCServices_addons`: the registration of an add-on's application has a command id made of the
   application's name, and `Queue.Enqueue` does nothing on a known id: the manifest of an
   update or of an enabled prune is committed and recorded and never reaches the cluster.

## 8 What the code does not keep

Statements of comments and documents that TLC refutes, without a run of their own. Each
is a definition at the end of its module, and is found violated when it is put into the
configuration of the run that checks the component; `NoUndo` needs a second deletion
request there, `AccountRecorded` and `ActiveIsUp` a second zone call in flight.

* `Outbox.DeadLettersFindable`: a handler interrupted by shutdown or crash during its last
  delivery leaves no `last_error`, although it is written "so one SQL query still finds
  all dead-letters".
* `TenantDeletion.NoUndo`: restoreOrg does not look at the state of the deletion, so a
  redelivered denial of an earlier request restores a tenant whose teardown is under way
  ("there is no undo past approval", ADR 0006; needs two requests).
* `TenantDeletion.TerminalAuditLive`: two concurrent teardowns archive the terminal
  `tenant.deleted` row that "stays in the live stream" (ADR 0006).
* `TenantDeletion.RestoredHasTuples`: a retried `tenant.deleting` is handled after
  `tenant.restored` and sweeps the restored tenant's tuples.
* `ClusterRegistry.InServiceRegistered`: UncordonCluster accepts a cluster that waits for
  its registration, because the edge pending_registration → active serves both.
* `Deploy.RefusedIsNoOp`: a creation that is delivered twice has written to git and queued
  the registration again before it finds that the instance exists.
* `Scaffold.ApprovedBeforeEffect`: a run is cancelled while its driver parks it, so the
  driver skips the gate it finds cancelled; a retry clears the cancellation and the driver
  goes on to create the repository. With
  several replicas two drivers may hold one run (ADR 0011 counts on a row lock that ends
  with its transaction).
* `Scaffold.NoneStranded`: ClaimNextRunnable does not list the two phases of the
  gitops-repository kind (scaffold/store.go:157), so a run that stops there is never driven
  again; `approval.expired` has no subscriber, so a run whose request expired stays parked,
  although "an expired request settles the run failed" (resume.go:5); and a decision that
  is delivered before the run is parked finds nothing to resume. Only a user's
  cancellation ends such a run. `RunSettles` excepts exactly these (`Stranded`).
* `Deploy.EachLifeIsRegistered`: the command id of a registration is "instance ID +
  generation" in the comment (orchestrator.go:526-527) and has no generation in the code
  (553), as the id of a removal has none (937). A name that is deployed, removed and deployed
  again finds the answered command of its first life; the queue drops the new one, and the
  row is recorded without an application. `RecordedIsRegistered` excepts such names.
* `ExtensionProxy.SessionAlive`: sessionExpiry "prefers the material's own exp claim"
  (http.go:521-523), and takes a wish of the caller before it: a session is forwarded after
  its credential is over. The proved `TokenAlive` is about exchanged tokens.
* `UserGit.OnlyReplaysWipe`: incorrect_client_credentials is mapped to ErrGrantInvalid
  (provider_github.go:136-140), "rotated away or revoked": with a wrong application secret
  every connection that is used is wiped.
* `Addons.GitShowsRow`, `FileIsOwn`, `RegistersItsOwn`: an update commits the version and
  the prune flag it read, so that with nothing in progress git may have `prune: false`, or an
  older version, under a row that says otherwise, and a second EnablePrune is refused as
  already done (service.go:709-711). The file is named after the workload (service.go:569):
  the rows of one item in one repository overwrite each other's manifest, and
  FinalizePRMerge may register what it reads of another row (836).
* `AgentCommands.EveryCommandAnswered`: the queue is "durable and retries" (queue.go:31-32,
  clusterregistry.go:455-456), but a payload that dispatch cannot decode is skipped and
  stays due for ever, and `Due` takes the oldest 50: enough of them hold back the rows behind.
  The plain payloads of fleet commands (rollout.go:353-372) and of the rebind
  (clusterregistry.go:462-468) are such. `QueuedIsAnswered` is about the others.
* `PlatformResources.ReconcileReachesAnAgent`: without the platform organization a reconcile
  is answered with success and no agent is told (platformresources.go:176-180).
* `ZoneFactory.VendApproved`, `AccountRecorded`, `ActiveIsUp`, `ClosedIsGone`: a zone whose
  vend request was rejected is failed, and a resume vends it without an approval; a
  whole-row write of an older read loses the account id, or shows a zone active whose chain
  was overtaken by a decommission; after such a resume a decommission closes the zone while
  its account is still being created.
* `TenantSetup.SeedIsIdempotent`: a crash between the platform organization in Keycloak and
  its row is never repaired, since the next seed fails on the existing organization.
* `Identity.DisabledIsOff`: an update that read the client as enabled enables it again in
  Keycloak between the two steps of a concurrent disabling, whose row write then lands.
* `GitRepos.DefaultIsPlatform`, `DefaultKept`: an update may give the default repository a
  tenant scope and leaves it the default; a removal that found a repository not to be the
  default removes it after an update has made it so.
* `Addons.FleetIsRegistered`: the pull request of a fleet add-on that merges while no
  cluster is up makes the row managed with nothing registered.
* `Addons.RowNamesRegistered` (needs five requests): an adoption by pull request records its
  row after the add-on was deleted and reported again, so that the row has the new id and
  the first one's application; an update registers the new id, and after another deletion
  and adoption its upsert leaves the row with the third id managed under the first
  application, which nothing registered.

## 9 Behaviours seen and not checked

Read in the code, most of them reachable in the models, and stated by no definition.

* Lease: two replicas can drive a gated loop together for the time `OverlapBounded`
  allows; the comments speak of exactly one. The gated loops are idempotent by design.
* Tenant deletion: a cluster registered after the dependency check is not looked at again;
  a DELETE that dies between its transactions leaves a frozen tenant whose row has no
  approval id; `approval.expired` has no subscriber, so the tenant stays frozen until an
  operator acts; a stale approval marks a newer request approved.
* Approvals: the policy of a catalog item is read at the decision and not at the request.
* Registry: a registration token outlives a decommission and re-activates the cluster, for
  one that was revoked and decommissioned before its approval without the second opt-in;
  a cluster deleted during an exchange leaves its Keycloak client; revoking a cluster does
  not close the stream it has open.
* Access caches: when the memory backend evicts the generation, answers of an older
  generation are current again; with memory caches another replica answers from its own
  until the entry expires; `LiveGetsTuple` is about live objects only; a parent
  tuple may be written after its object's deletion.
* Tenancy: DeleteGroup goes by path after the transaction and may hit a new group of that
  name; two UpdateRole calls lose one update; a failed CreateTenant leaves a tenant without
  an administrator whose slug is taken.
* Platform resources: the claim of a client comes before its row; a status that arrives
  before the row is dropped; statuses carry no order.
* Extensions: RegisterUi enables a UI again that was disabled after it read the row; the
  wildcard route (uiasset.go:45) reaches `remoteEntry.js` by an encoded name without its
  checksum; a registration that loses its name to a UI leaves an enabled client; a
  rotation gives a UI row a client; user sessions survive an extension by name; Invalidate
  leaves the sibling files of an entry, clears before the write and only on its replica.
* User git: the single flight is per process; a failure to look up the login after the
  rotation loses the token; the wipe goes by key.
* Notifications: RetryFailed has no caller in the server, and would retry disabled endpoints;
  a send whose mark fails is repeated, once for each such loss (`AttemptsCapped`).
* Fleet: as the code stands a rollout's command is never sent (section 8), so its targets are
  never acknowledged; a start is taken from any state its edge allows while targets are seeded before
  the gate; drift events flap for instances that share a reference.
* Policies: nothing is retracted from clusters; a cluster that joins later gets no pack.
* Kubectl: the context of a closed session is a child of its stream's, so the handler of
  an evicted or switched-off stream stays until the stream ends, and after the flag is on
  again the agent reconnects only then; the comments of sessions.go and flagwatcher.go say
  otherwise. awaitOpenResult may prefer the close to a buffered result and answer 502. A
  database outage fails open to the default "on", which provider.go's comment rules out.
  With the platform off and the cluster's override on, Connect admits what every tick of
  the watcher closes. resolveUncached reads its two rows without a snapshot.

## 10 What is not modelled

Every component with status `not_modelled` in `PROJECT.json`, with its reason; they are
pure translations, single statements, or full renderings on every event whose delivery
is modelled elsewhere. Git providers compare and swap a branch head in a bounded loop: the
models that write to git have a commit as one step that may fail before or after its
effect, which is all that loop lets its callers see. Inside the modelled components: HTTP
decoding, the content of messages and manifests, audit queries, metrics and logging;
permission changes during a request; PostgreSQL failures other than a statement or
transaction that fails, or succeeds without its caller learning it. The notes of the
components in `PROJECT.json` name what each leaves out.
