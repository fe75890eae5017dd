# A TLA+ model of Shyam

Shyam is a Python runtime that turns one machine into a node of a personal
computing ecosystem: it finds other nodes, keeps a trust store, shares what it
knows with trusted peers, and hands work to agents (Zarya) and data to a
transfer gateway (Flux) here or elsewhere. Everything runs on one asyncio event
loop per node, plus executor threads for blocking HTTP calls.

This directory models the parts whose behaviour depends on interleaving, on
message order, on failures or on long sequences of calls, checks them with TLC
on small instances, and proves the main results for every instance with TLAPS.
Paths below are relative to `src/src/shyam/`.

## Inventory

| Component | State it keeps | Operations | Interacts with | What makes it hard, and what must hold |
|---|---|---|---|---|
| Peer synchronization `sync/` | version vector, capabilities and availability per node, a bounded deque of processed envelope ids | update local facts, create envelope, process incoming envelope | trust store (authentication), event bus | envelopes are lost, repeated, reordered, damaged; replicas must not regress, must converge, and must hear only trusted nodes |
| Work continuity `continuity/` | a session per attempt (state, target, result), an index of the last attempt per work | request continuity, the nine pipeline stages | navigation, trust store, Flux and Zarya through executor threads | several attempts interleave at each await; one attempt per work, no contact without trust, honest outcomes, every attempt ends |
| Trust store `trust/` | records per node in memory, a JSON file | grant, revoke, lookup (loads lazily), list | continuity, sync, bootstrap, event bus | memory and file diverge when a save fails or the file was never loaded; a revocation must hold |
| UDP discovery `discovery/service.py` | table of live peers, socket, two loops | announce, handle datagram, reap silent peers, start, stop | event bus to the ecosystem registry | events published by two tasks; registry must agree with the table |
| Ecosystem registry `discovery/ecosystem_*.py` | nodes with state and providers | discover, register, update state, add/remove provider, touch, reconcile, ingest UDP and Flux peers | discovery, readiness, navigation, context | a `discover()` is suspended once per node it registers, so an older list may overwrite a newer; the store that follows must end where the registry is |
| Event bus `events/` | handlers per event type | subscribe, unsubscribe, publish | everything | publish waits for all handlers; handlers interleave |
| Workflow engine `workflow/` | run state, step results, cancellation token | execute a workflow step by step | executors (Flux, Zarya, local), event bus | cancellation against failure, exactly one result per step |
| Composite capabilities `composite/` | registry of composites; per call the inputs, outputs and results so far | define, register, unregister, invoke | workflow engine | definitions change, tokens are set and bindings fail between the steps of a call; the answer must tell what was done, and a binding deliver what it names |
| Navigation `navigation/` | none (pure) | collect candidates, filter, rank | ecosystem registry, continuity, workflow engine | preferences conflict, registration order varies; the choice must be the best usable candidate and every other accounted for |
| Runtime lifecycle `core/runtime.py`, `lifecycle.py`, `state.py` | lifecycle state, all services | start, stop | all | start fails in the middle or after its guarded part; stop works from wherever start got to |
| Readiness `core/readiness.py` | readiness per component and aggregate, poll task | start, stop, poll | Zarya, Flux, registries, surface | a round of polls cut short by an exception; stop waits for the poller under the lock the poller wants; registries follow transitions only |
| Context `context/` | activity log, active work, snapshot version | apply envelope, snapshot | event bus | order of events |
| Bootstrap and recovery `bootstrap/` | sessions, device records | handshake as client and as authority, recover | transport, trust, sync | requests arrive late, twice or after the caller gave up; READY must mean that both sides can talk |
| Identity `identity/` | identity file, two key files | load or create | file system | crash between two replacements; the key must survive restarts |
| Capability and provider registries, local fabric `capabilities/`, `providers/registry.py`, `providers/fabric.py`, `providers/local/` | capabilities, providers, instances | start, stop, register, update, unregister | runtime, readiness, ecosystem | a provider is registered before it is initialized, and capabilities are shared; one that failed must not be chosen |
| Flux and Zarya adapters `providers/flux`, `providers/zarya` | connection flag, descriptors | HTTP calls and field mapping | external processes | timeouts and lost answers (modelled as surroundings) |
| Surface `surface/` | state | start, handle a request, react to readiness | continuity, readiness | its state has to agree with readiness that changes under it |
| UI, CLI, config, logging | none of interest | I/O | surface, runtime | not modelled: no protocol of their own |

`PROJECT.json` lists every hazard at its line and the properties that would
catch it.

## How asyncio is modelled

A coroutine gives up the loop only at an await that really suspends. An
`async with lock:` whose body has no await is therefore one step, and so is a
stretch of code between two suspending awaits. What suspends in this code:
`run_in_executor`, `transport.send_request`, `asyncio.sleep`, and `EventBus.publish`
when handlers are subscribed (it gathers them). Each model says which of these
its steps are cut at.

## Modules

| Module | Stands for | Composed with |
|---|---|---|
| `PeerSync` | `sync/`, authentication by `trust/` | |
| `PeerSyncProofs` | theorems about `PeerSync` | |
| `ContinuityLifecycle` | `continuity/state.py`, the declared lifecycle | |
| `Continuity` | `continuity/service.py`, with trust, Flux and Zarya around it | implements `ContinuityLifecycle` |
| `ContinuityProofs` | theorems about `Continuity` | |
| `PeerDiscovery` | `discovery/service.py`, the event bus, and the part of the ecosystem registry that follows its events | |
| `PeerDiscoveryProofs` | theorems about `PeerDiscovery` | |
| `TransitionMap` | any state machine that is declared as a map of transitions | |
| `WorkflowEngine` | `workflow/engine.py` and the list of active work in `context/store.py` | implements `TransitionMap` for steps |
| `WorkflowEngineProofs` | theorems about `WorkflowEngine` | |
| `DeviceBootstrap` | `bootstrap/`, `trust/` with its file, `identity/` with its files | |
| `DeviceBootstrapProofs` | theorems about `DeviceBootstrap` | |
| `EcosystemDiscovery` | `discovery/ecosystem_service.py`, `ecosystem_registry.py`, and the snapshot that `context/` keeps of it | |
| `EcosystemDiscoveryProofs` | theorems about `EcosystemDiscovery` | |
| `ShyamRuntime` | `core/runtime.py`, `core/readiness.py`, `surface/coordinator.py`, the connections of the Flux and Zarya providers | |
| `ShyamRuntimeProofs` | theorems about `ShyamRuntime`, `Navigation` and `ProviderFabric` | |
| `Navigation` | `navigation/`, as operators on a snapshot | |
| `ProviderFabric` | `providers/fabric.py`, the registries of providers and capabilities, and what discovery makes of them | extends `Navigation` |
| `Composite` | `composite/` | instantiates `WorkflowEngine`, one run per step |
| `CompositeProofs` | theorems about `Composite` | |
| `MC*` | instances for TLC: small sets and the requests, updates and answers to choose from | |

A definition named after another with a word appended, under a comment that begins
with "Mutant" (in `PeerSync`, under the heading that says so), is that definition with a
plausible mistake in it. It is not part of the model: it documents which mistake each
property would notice.

### PeerSync

Per node: the version vector `versions`, the capability sets `caps`, the statuses
`avail`, the trust record of every other node `trust`, its public `key` and
`processed`, the ids of the last `Window` envelopes it has processed. `network` holds
every envelope that was ever sent and never shrinks, which stands for loss (never
received), duplication and reordering at once; delivery may show a wrong protocol
version or a broken signature (`Fault`). Actions: updating local facts,
`CreateSyncEnvelope`, `ProcessIncomingEnvelope` with all its results (rejected by
authentication, already processed, dismissed as EQUAL or AHEAD, applied), granting
and revoking trust, and `Restart`, which forgets everything the service keeps in
memory, since nothing in `sync/` is persisted. `RunningSpec` is `Spec` without
`Restart`.

`published`, `granted` and `seen` are history: the facts edited in with their
versions, the grants ever made and the envelopes processed since the last restart.
`sent`, `changes` and `restarts` serve the bounds.

### ContinuityLifecycle and Continuity

`ContinuityLifecycle` is what `state.py` declares: the states of an attempt and the
transitions between them. `Continuity` is the service: a coroutine per accepted
request, one action per stage, each with all the ways it can go. `busy` is the
attempt that has the loop. A stage that calls Flux or Zarya is cut at the await into
the call and its return or failure, and in between everything else on the node may
happen: other attempts, revocations, changes of the registry. Flux and Zarya are
external: a transfer goes on after it was initiated (`FluxProgress`), and Zarya may
run the work although the answer never arrives. Navigation is the choice of any node
whose provider is eligible here; how it chooses is the module `Navigation`.

### PeerDiscovery

`peers` is the service's table and `nodes` the ecosystem registry's entries.
`publish()` suspends its caller until the handlers have run; the handler tasks wait in
`handlers`, first in, first out, as asyncio resumes them. An `_update_peer` task
publishes while it holds the table's lock (`holder`), the reap loop after it has
released it (`lost`, `reporting`): the two may interleave, and that is where table and
registry can come apart. `sent` keeps every announcement, to be received late,
repeatedly or never; `FallSilent` stands for the expiry interval going by.

### TransitionMap and WorkflowEngine

Each call of `run()` is cut at its awaits: publication, navigation, execution of the
step. `results` is the list the engine builds, `events` what it has published,
`active` the list of active work that the context store derives from the events.
Anybody may set a run's cancellation `token` at any time. Runs have workflows of their
own: `active_work` is keyed by workflow id, and the engine does not refuse a second
run of a workflow that is running, whose end would then take the id away from the
other.

### ShyamRuntime

The node from `CREATED` to `STOPPED`. A round of polls is one action, as the calls to
Zarya and Flux block the loop and nobody subscribes to what is published on the way;
only the change of the aggregate has a subscriber, the surface, and then the poller
(or the caller of `poll_now`) waits for the handler with the tracker's lock held.
`world[c]` is how component `c` answers at the moment; `odd` is a component whose
version string the `Provider` model refuses, so that registering it raises, in start
as well as in a round of polls. `connection[c]` remembers what it said when it was
connected, since the descriptor is made from that.

### DeviceBootstrap

Per node: the identity file with the id, the two key files (`private`, `public`), the
id and the key pair the running process uses, the trust records in memory and in the
file. `Start` makes or loads identity and keys; `StartInterrupted` is a crash between
any two of the files it writes, and `Down` an end at any other time. A write of the
trust file may fail, after memory has changed. A session is an enrollment of one
node with another: `SendRequest`, then any of a lost, delayed, damaged, refused or
accepted answer, also after the caller's process has ended; requests stay with the
transport and may be handled at any time and any number of times. `RecoverIdentity`
is `recover_device`, which makes a new id for the running process and its file.
`Owners` are the nodes whose owner grants and revokes trust by hand.

### EcosystemDiscovery

`nodes` is the registry, `store` the context store's copy of it. Each write appends a
handler task to `events`; a task that publishes goes on when its own handler has run.
`Discover` registers the local node; the list of the gateway is fetched and its first
peer registered in one step, because the HTTP call blocks the loop and nothing suspends
in between; then one peer per step. UDP peers and the registry's public operations
(which nothing in `src/` calls besides `register_node`) are writers as well.
`offered`, `fetched`, `result`, `before` and `edited` record what each call saw.

### Navigation and ProviderFabric

`Navigation` has no variables: `NavigateIn(snapshot, request)` is `navigate()`, made of
`DiscoverCandidates`, `Checks` (the order decides only the reason given), `RankingKey`
and a stable sort. A list that is filtered or sorted is given by the places that are kept
and their order (`Arranged`, `Selected`). Below the last line stands what a caller may
rely on, written without checks and sorting: `Usable` and `Favourites` narrow a set of candidates by one
preference after the other, and `AccountsFor` says what is right about a whole result. A
descriptor may list a capability twice, as Zarya's may (`providers/zarya/mapper.py:106`
copies whatever it is sent), and a candidate is then there twice, too.

`ProviderFabric` produces the snapshots. The fabric takes up one provider after the
other: capabilities and provider are registered first, then `initialize()` suspends, and
returns or raises. Adapters are registered when they have been connected to, in any of
the statuses their mappers produce, overwriting definitions, where the fabric keeps the
ones it finds. `DiscoverLocalNode` makes candidates of the registries, and remote nodes
come and go as any of `RemoteOffers`, which is anything a registry can hold of other nodes
(`IsRemote`: this node's own announcements are dropped, and an offer has one value, since
nodes and providers are keys of dictionaries). The node as shipped has one fabric provider, with
nothing to initialize; the model takes any list the contract of `providers/base.py`
admits, as the constructor does. The runtime creates its discovery after the fabric has
started, so nobody looks at a half-started fabric. Adapters are registered as soon as
they are connected to, so that the branches of `discover_local_node` that add connected but
unregistered ones (101-121) never apply and are left out. Initial state, next-state relation and variables are
called `Fabric...`, because `ShyamRuntimeProofs` extends this module and `ShyamRuntime`.

### Composite

A definition is the set of its inputs, its steps with their bindings, and its outputs.
Each step of a call is a run of `WorkflowEngine` with one step, in the instance
`Engine`: `StartStep` begins it, `RunStep` takes its steps, `StepFailed` and
`StepSucceeded` are its return. From that return to the next `Begin` the call keeps the
event loop (`busy`), so the registry cannot change and no token be set there. A value is
the set of its keys together with where it was made, which is what `BindingsDeliver` asks
about. The token is one per call: `Cancel` sets it for all its runs. `begun` is
history.

## Runs

| Run | Config | Shows | Bounds |
|---|---|---|---|
| `sync_pair` | `MCPeerSyncPair.cfg` | Vectors and capabilities stay exact, equal vectors mean equal capabilities, a dismissed envelope holds nothing new, replays are harmless, replicas only grow | 2 nodes, 2 edits each, 3 envelopes, a memory of one id so that ids are evicted while their envelopes are still in flight |
| `sync_trust` | `MCPeerSyncTrust.cfg` | Facts cross only borders somebody granted trust across, with relays, grants, revocations and restarts | 3 nodes in a chain |
| `sync_regression` | `MCPeerSyncRegression.cfg` | counterexample: a node's own newer status is replaced by an echo of its older one | 2 nodes |
| `continuity` | `MCContinuity.cfg` | One attempt per work, contact only with trusted nodes, COMPLETED only for verified success and every other end reported as what it was, the declared lifecycle is followed, every attempt ends | 2 attempts, 2 works, 2 nodes, requests with one and without artifacts and the two kinds validation refuses, one change of trust or of the ecosystem |
| `discovery` | `MCPeerDiscovery.cfg` | The registry follows the table and offers no expired peer; silent peers become UNAVAILABLE, also when several expire together | 2 peers, 2 versions of what they announce, 3 announcements, 2 datagrams under way |
| `discovery_late` | `MCPeerDiscoveryLate.cfg` | counterexample: a tracked peer is UNAVAILABLE, and stays so | 2 peers, 1 version |
| `workflow` | `MCWorkflowEngine.cfg` | Nothing is done after a failure, final state, results and events add up, active work, steps follow the declared map, every run returns | 2 runs; workflows with 0, 2 and 3 steps |
| `runtime` | `MCShyamRuntime.cfg` | READY means that all are ready and registered, the surface agrees with readiness, a stop ends and nothing goes on after it, late components are found | both components; between them they give every answer; no bound on anything else |
| `bootstrap` | `MCDeviceBootstrap.cfg` | READY means that device and authority understand each other, through crashes and late requests, a revocation holds, nothing damaged is pinned, a key survives restarts | a phone (2 ids, 3 key pairs) enrolls with a desktop (1 of each) in 2 sessions; the desktop's owner grants and revokes |
| `ecosystem` | `MCEcosystemDiscovery.cfg` | The store follows the registry, a snapshot is as recent as the calls it overlaps, every call returns and events die down | 2 calls of `discover()`, 2 gateway peers, 1 UDP peer, 2 events among changes of the surroundings, announcements and direct calls |
| `navigation` | `MCProviderFabric.cfg` | The selection is the best usable candidate whatever the order of registration, the alternatives are ranked in the same way, every rejection has a reason that applies; a provider that failed to initialize is never chosen | 2 fabric providers that share a capability, 2 adapters in every status, 2 remote nodes in both orders and 3 states; 4 capabilities with 9 sets of constraints are asked for in every state |
| `composite` | `MCComposite.cfg` | The answer tells what was done, by the definition the call began with; a binding delivers what it names; every call ends | 2 calls, 1 id, 8 definitions of up to 2 steps of which 4 are invalid, redefinition, removal and cancellation at every moment |

Why the bounds are enough: two nodes suffice for the exchange of vectors because a
merge always joins two states, and a third replica's state is one a second could have
reached; relaying needs three, which `sync_trust` has. Two attempts suffice for
continuity, since the duplicate check and the awaits concern pairs; the number of
artifacts is 1 in `continuity` and arbitrary in the proofs. Two peers suffice
for discovery: the lock has one holder and the reap loop reports one peer at a time, so
what matters is one peer's event against another's. Two calls of `discover()` suffice:
what a call returns is overwritten by one other call at a time. In `bootstrap` the bounds
stop recoveries and interrupted starts, never an ordinary start: the phone can recover
once and be interrupted after it; sessions are interchangeable, and symmetry says so.
`ShyamRuntime` is finite as it is. Two remote nodes and the local one
suffice for `navigation`: a preference, a tie and an order of registration are between two
candidates, and the third shows that they combine. In `composite` two calls suffice, since
calls share the registry and the engine only; two steps suffice, since a binding relates
two steps.

**Fairness.** asyncio runs every ready task, and its locks serve waiters in order:
each liveness property assumes weak fairness of the coroutines it is about, and
strong fairness of those that wait for a lock (`Reap`, `PollerPolls`, `StopTracker`).
The blocking calls of `Continuity` return or raise, because both HTTP clients have a
timeout of 10 s. Flux, Zarya, peers, users, trust and the network get no fairness
anywhere. `PeerSync` states no liveness: the code has no scheduler that
sends envelopes, so nothing in it makes replicas meet.

Runs with `CHECK_DEADLOCK FALSE` are those where all requests have been served or a
bound is reached; `runtime` checks deadlock, with a step that only a stopped node has.

## What the counterexamples say

* Availability is last-writer-wins by arrival (`sync/service.py:207`), without a
  version of its own: a node's own status can go back to an older one, and
  concurrent reports leave replicas different for good.
* The reap loop reports expired peers after it has released the lock
  (`discovery/service.py:285`); a peer that came back meanwhile is marked UNAVAILABLE by
  the late report, until what it announces changes.

Met on the way, without a run of their own:

* Zarya and Flux count as READY as soon as they are connected to, whatever status they
  report, and are registered on a transition to READY only (`core/readiness.py:273`). One
  that is met while it initializes is registered as UNAVAILABLE, is READY already
  when it comes up, and is never registered again (`ShyamRuntime` has the behaviour;
  `docs/sprints/s17/s17.5/S17.5_TEST_PLAN.md:12` promises otherwise).
* `recover_device` makes a new id and keeps the old key pair (`bootstrap/service.py:228`);
  the next start replaces the pair, because it belongs to another id
  (`identity/crypto.py:195`). A device that enrolls in between is pinned under the old
  key, and the authority rejects what it sends after the restart
  (`sync/authenticator.py:90`); `DeviceBootstrap` has the behaviour, and `Understands`
  is what it breaks.
* A step of a composite may bind to its own output (`composite/models.py:215`): the id is
  known before the bindings are looked at, although the message (230) says that only
  prior steps may be referenced. Invoking it raises when the step is reached.
  `BindingsDeliver` says that this is the only reference that can be missing.
* A composite whose output binding names a key the value does not have raises after all
  steps took effect, and their results are lost (`composite/engine.py:169`).
* The workflow engine finds an executor by provider id. The one for Zarya is registered as
  `zarya.sovereign` (`core/runtime.py:151`), the provider calls itself `zarya.agent`
  (`providers/zarya/mapper.py:27`); Flux advertises `connectivity.*`, its executor handles
  `flux.*`. Steps that navigate to either fail, which the model counts among the failures of
  a step.
* `fabric.stop()` leaves the providers AVAILABLE in the registry
  (`providers/fabric.py:94`), and navigation goes on choosing them.
* Version vectors start at zero after a restart (`sync/service.py:56`), so AHEAD no
  longer means "has all facts": new facts of a restarted node are dismissed by its
  peers. `VersionsAreExact` is about executions without restarts for this reason.
* A component with a version that is no Provider version makes every round of polls
  raise before the other component and the aggregate are evaluated
  (`core/readiness.py:235`); `LateComponentsJoin` excludes it.
* `transfer_completed` is claimed for a transfer that was only initiated
  (`continuity/service.py:433`; `continuity/models.py:160` promises more), and a timeout
  is reported as certain failure (449), although the target may go on.
* A failed workflow may still end CANCELLED (`workflow/engine.py:195`): the token is
  looked at before the failure. `workflow/state.py:44` declares FAILED final, but the
  declared map of workflow states is never consulted.
* A client trusts the authority whenever a good answer arrives, also one its owner has
  revoked meanwhile (`bootstrap/service.py:191`); `RevokedStaysOut` is about nodes that
  enroll nowhere for this reason.
* A crash between the two key files leaves a public file that does not belong to the
  private one and loads all the same (`identity/crypto.py:216`); the node shows others the
  key it signs with, so nothing in `src/` is misled by it.
* `grant_trust` and `revoke_trust` on a service that was not initialized replace the
  file by the one record they write (`trust/service.py:66`).
* Of two overlapping `discover()` calls the one with the older list may write last, and
  the newer call returns the older state of a peer (`discovery/ecosystem_service.py:159`).
* `touch_node` makes a stale node AVAILABLE without an event
  (`discovery/ecosystem_registry.py:116`; ADR-008 says that all state transitions emit
  one), and `reconcile_stale` has no caller, so that a peer the gateway no longer lists
  keeps its last state.
* `stop()` of a runtime that was never started raises (`core/runtime.py:536`).

## Proofs

TLAPS checks each theorem for all values of the constants that satisfy the
assumptions the modules name.

`PeerSyncProofs`:

* `TypeCorrect`: the type invariant, under the full specification.
* `VersionsAreExact` (without restarts). The inductive invariant `CoverInv` says what
  a vector stands for: no replica and no envelope has a version of a node greater than
  the node's own, and replicas and envelopes hold exactly the capabilities their
  vectors cover. Exactness is needed because a dismissed envelope is judged by its
  vector alone, and envelopes never leave the network, so it must hold of them too.
* `VectorsDecide`: that, and the consequences that matter: equal vectors mean equal
  capabilities and AHEAD means having all facts (`VectorsStandForFacts`).
* `ReplicasNeverForget`, `ReplaysChangeNothing`: action properties from the same
  invariants; the second needs `SeenCovered`, that a processed envelope is dominated by
  the vector for ever, also after its id has been evicted.
* `TrustBoundsFacts`: from an invariant that traces each fact a node holds back
  through grants.

`ContinuityProofs`:

* The inductive invariant `IInv` is the conjunction of the properties with what they
  rest on: `LoopInv` (the attempt that has the loop awaits nothing), `HandoverInv` (how
  many artifacts are over at each stage, and that `verifying` has Zarya's verdict) and
  `TrustInv` (which stages come before the trust check and which after it, and that a
  verified target was trusted once). There is one lemma per action and one step per
  conjunct.
* From it `TypeCorrect`, `NoTwoAttempts`, `NoneStranded`, `TrustBeforeContact`,
  `HonestOutcome`; the last says both that success is earned and that every other end is
  reported as the end it was.
* `Implements`: the service implements `ContinuityLifecycle`. `LifecycleStep` maps each
  step to a declared transition or a stutter, for which `IInv` supplies the types.
* `AttemptsAreBounded`: `ToGo` counts the steps an attempt has still to take, by its stage and
  by the artifacts that are left, each of which takes two; no answer and no failure sends an
  attempt back. `OutcomesAreFinal`: what has ended is not revised, by whatever comes late.

`WorkflowEngineProofs`, for any number of runs and steps, where every run has a workflow
of its own (`WorkflowAssumption`):

* The inductive invariant `IInv` says for each place a run may be suspended at what it
  has recorded and published there (`PlaceInv`): in the middle of its steps, either all
  recorded ones completed and nothing but the start was published, or one failed and
  the failure was published. The proof that a step preserves it looks at the run that
  moves (`OneRunMoves`), first for the steps that record nothing, then for those that
  record one result, then for cancellation, which records all that are left.
* From it `TypeCorrect`, `StepsAlwaysAddUp` and `ActiveIsAlwaysRunning`; the last is where
  distinct workflows are needed, since the end of one run takes its workflow off the list.
* `StepsAlwaysFollowTheMap`: each step of a workflow implements `TransitionMap`.
* `RunsAreBounded`: `ToGo` counts the steps a run has still to take. A step of its own makes
  it smaller (`RunAdvances`), no other step touches it (`RunStays`), and it is 0 exactly when
  the run has returned. From the same two lemmas `RecordsAreKept`: results are appended to
  only, and what has been concluded is not revised.

`ShyamRuntimeProofs`, for any set of components, of which any may be enabled and each
answers as `Answers` says:

* The inductive invariant `IInv` has a part for each of the three: `ReadyInv` ties the
  aggregate to the components and these to the registries, `LockInv` says who may hold the
  tracker's lock at each place `start()`, `stop()` and the poller wait at, `SurfaceInv` that a
  change the surface has yet to see is the last one, because whoever published it still
  holds the lock. `LockInv` is what makes the other two inductive: a second round of polls
  would otherwise overtake the first one's event.
* From it `TypeCorrect`, `ReadyIsAlwaysEarned`, `SurfaceAlwaysTellsReadiness`, and
  `StoppedIsQuiet`, the part of `StopEnds` that needs no fairness.

In the same module about `Navigation` and `ProviderFabric`, for any providers, capabilities,
adapters and remote nodes that `FabricAssumption` admits, and lists of any length:

* `Arranged` replaces induction over lists by counting: the rank of a place is how many come
  before it. In a total order ranks grow along it (`RankGrows`), so that every number below
  the size is somebody's rank (`RanksAreTaken`) and `Arranged` lists each place once, in order
  (`ArrangedGoes`).
* Ranking keys are such an order because ties go by place (`CandidatesAreInARow`), and they
  tell candidates apart (`KeysTell`) as long as an offer has one value (`Agree`). The first of
  any usable candidates is then the only one that all preferences leave over
  (`FavouriteIsFirst`). `NavigationAccounts` puts this together for `navigate()`: for every
  snapshot of which `Agree` holds and every request, the answer is what `AccountsFor` says.
* `FabricIInv` is inductive: a provider of the fabric that is registered has been initialized
  or is registered as unavailable, unless it is the one the fabric is initializing (`PlaceInv`,
  `EntriesInv`); what the ecosystem registry has of this node was made when none was
  (`LocalInv`).
* From it `FabricTypesCorrect`, `SelectionIsAlwaysBest` (every snapshot is one of which `Agree`
  holds) and `ChoiceIsAlwaysUsable`.

`EcosystemDiscoveryProofs`, for any number of calls, peers and providers, where the local
node, the gateway's peers and the UDP peers are different nodes (`EcosystemAssumption`):

* `RegistryFresh` is the heart: what the registry has of a node that a call has registered
  comes from a call that was not over when this one began. It is what `DiscoverIsFresh` says
  of results, said of the registry at every moment of the call, since another call may
  overwrite it at every suspension; `ResultFresh` is the same of what calls returned, and
  `TaskInv` relates a call's place to the list it fetched and what is left of it.
* `StoreFollowsRegistry` is inductive by itself.
* From them `TypeCorrect`, `StoreAlwaysFollowsRegistry`, `DiscoverIsAlwaysFresh`.
* `NodesAreKept`: whoever writes, a node that was discovered is forgotten by `remove_node`
  only, and the local node is offered unless a direct call says otherwise (`LocalOffered`,
  which is inductive given the types).
* `CallsAreBounded`: if the gateway lists finitely many peers, which JSON ensures, a call has
  at most a step for each of them to take and two more.

`DeviceBootstrapProofs`, for any nodes, sessions, bounds and owners, where None is no id and
no key (`NoneAssumption`) and nobody calls himself (`CallsAssumption`):

* `IdentityInv`: a node's ids are its own and the next one is new to it; when the file still
  names the id of its last process, the key files are that process's. Files are written one
  after the other, so the lemmas about `Start` follow the files through every crash.
* `SessionInv`: what a session has shown it goes on showing. `PinInv` rests on it: every
  pinned key was shown, in memory and in the file, which differ when a write failed.
* `RevokedInv` says of file and memory what `RevokedStaysOut` says of the record in use.
* `TrustInv` starts where trust starts: the authority trusts a device as soon as it has
  accepted a request, also while the answer is under way or lost, the device the authority
  when it takes the answer. `ReadyIsMutual` follows from it, `PinInv` and `IdentityInv`.
* From them `TypeCorrect`, `RevokedAlwaysStaysOut`, `PinnedIsAlwaysShown`,
  `ReadyIsAlwaysMutual`, and the action property `KeyAlwaysSurvivesRestart`.

`PeerDiscoveryProofs`, for any peers, announcements and numbers of tasks:

* Events are handled after the table has moved on, so the invariant says what waits in the
  queue: what `_update_peer` has published is about the peer whose lock it holds and is what
  the table has (`DatagramInv`); there is one event of the reap loop at most, about the peer
  it reports (`LostInv`), who is offered afterwards only if it came back (`ReportInv`).
  `CreatedInv` is about the time before `start()`.
* From it `TypeCorrect` and `RegistryAlwaysAgrees`.

`CompositeProofs`, for any definitions and calls. `CompositeAssumption` says what the types
of `models.py` do; None is nothing else (`NoneAssumption`):

* The inductive invariant `IInv` follows a call along its definition. `Types` keeps what is
  registered or carried out among the valid definitions. `ControlInv` says that the steps
  begun are the first ones of the definition, `RunsInv` what the workflow engine holds for
  the steps that have returned, the one under way (`UnderWay`, by the place its run is
  suspended at) and those not begun; `DataInv` that there is an output for each step
  done and for no other. `BoundInv` and `EndInv` are the properties in terms of what has
  been reported to the call, which its later steps only extend.
* `ResolvedIsDelivered` and `OnlySelfIsMissing` are about validation: what is missing when
  a binding is resolved can only be the step itself. `FirstError` picks the first wrong binding, and
  that there is a first one is `LeastNatural`.
* From it `TypeCorrect`, `ResultAlwaysTellsSteps` and `BindingsAlwaysDeliver`. What a step
  leaves alone is part of the lemma about it (`OthersSame`), so that the action property
  `CallsStayWithIt` follows too: a call goes by the definition and the inputs it began
  with, and nothing of it changes once it has answered.
* `InvocationsAreBounded`: six steps for each step of the definition and two more, counted by
  `ToGo` and, for the run under way, `RunToGo`. A definition that is replaced or removed does
  not add to it, since the call has its own.

Each of these invariants was checked by TLC on the component's run before it was proved.

Only model-checked:

* Liveness: `EveryAttemptEnds`, `SilentPeersLost`, `EveryRunReturns`, `StopEnds`,
  `LateComponentsJoin`, `EverySettles`, `EveryInvocationEnds`. The prover has no support for
  fairness and ENABLED. What needs neither is proved of most: `AttemptsAreBounded`,
  `RunsAreBounded`, `CallsAreBounded` and `InvocationsAreBounded` leave to fairness only that
  the next step is taken at all, `StoppedIsQuiet` that a stop gets to its end.
* The two counterexamples, which are TLC's.

## Not modelled

Text (parsing of intents, presentation, logging, layout of messages), cryptography (a
signature holds or does not), HTTP and JSON (a call answers, fails or times out), the
Tk window and the command line, configuration, the documents, scripts and tests.

Left out of what is modelled: the feed of recent activities that the context store keeps
(bounded, newest first, no property of its own), `unregister()` of the registries of
capabilities and providers, which nothing in `src/` calls while a node runs, and the HTTP
clients of Flux and Zarya, which appear as what their callers see.

## Plan

Every component that is modelled has its run, and every invariant and action property of the
runs is a theorem. What is left: a bound on the steps that a stop of the runtime takes, as there is
for attempts, runs and calls; the rounds of the reap loop that a silent peer can outlast; and
a model of the HTTP clients of Flux and Zarya, which are surroundings here.
