# A TLA+ model of the Atomix controller

The Atomix controller is a set of Kubernetes reconcilers. It turns `Store` and
`Primitive` objects into agent processes, proxies and broker registrations
inside the pods that use them. Nothing in it is sequential: every reconciler
reads objects from an informer cache that lags the API server, makes gRPC calls
into pods whose containers restart on their own, writes back under optimistic
concurrency, and can be killed between any two of these steps. This directory
models the reconcilers at that grain, checks them with TLC on small instances
and proves the main safety properties with TLAPS for every size.

Paths below are relative to the root of the repository. *sidecar* is
`pkg/controller/sidecar/v2beta1`, *core* is `pkg/controller/core/v2beta1`.

## Inventory

| Part | State | Operations | Talks to |
|---|---|---|---|
| Core store controller (`core/store.go`, `core/protocol.go`) | `Store.status`; the protocol object named after the store | create the protocol, copy its status, start a watch per `StoragePlugin` | the protocol's own controller; the sidecar controllers, which read `Store.status` |
| Sidecar store controller (`sidecar/store.go`) | finalizer of the `Store` | claim, sweep, release; the sweep (`DeleteAllOf`) deletes no agent | agent controller, which watches stores |
| Agent controller (`sidecar/agent.go`) | `Agent` finalizer and status (container ID, ready, revision) | claim, delete, rebind to a container, start, configure, stop, release | driver container (gRPC) |
| Sidecar primitive controller (`sidecar/primitive.go`) | finalizer of the `Primitive` | claim, sweep the proxies, release | proxy controller, through Proxy objects |
| Proxy controller (`sidecar/proxy.go`) | `Proxy` finalizer and status (container ID, ready) | claim, delete, rebind, create and register, unregister and destroy, release | agent process and broker (gRPC) |
| Pod controller (`sidecar/pod.go`) | Agent and Proxy objects of a pod; the pod's `AtomixReady` condition | create agents and proxies, replace a proxy whose agent or permissions changed, set the condition | all sidecar controllers, RBAC objects |
| Injection webhooks (`sidecar/driver.go`, `broker.go`, `profile.go`) | pod annotations, containers, readiness gates | inject the broker, the drivers of a profile, drivers with ports; refuse a pod | API server; pod and agent controller, which read the annotations |
| Typed primitive controllers (`pkg/controller/primitives/v2beta1`) | `Primitive` of a typed resource (Counter, Map, ...) | create, with the typed resource as owner | garbage collector; sidecar primitive controller; pod controller, which reads the owner's kind |
| Leader election (`pkg/controller/util/leader`) | a ConfigMap as lock | find the owner, check, create, wait | `cmd/atomix-controller/main.go` |

What is hard: decisions on stale caches, with several caches of different age;
containers that restart during a call; calls that took effect and whose answer
was lost; several writers of one object; names that are used again by a new
object (the driver, the agent process and the broker know names, not UIDs);
early returns that rely on a later event; and orders between sweeps and
creations by different controllers. `PROJECT.json` lists each such place with
its line and the properties that guard it.

What makes each part correct:

* agents: the agent of a live store is never deleted; a ready agent has a
  process; a process is stopped before its agent is let go; configurations
  arrive in order; agents converge, and those of a store or pod that is gone for
  good are removed;
* stores: the status never goes backwards, no writer undoes another, the store
  ends up agreeing with its protocol, and always gets a protocol;
* proxies: a ready proxy is served, with its own permissions; the broker routes
  only to what is served; proxies are torn down before they are let go; a
  deleted primitive leaves no ready proxy; proxies converge, orphans go;
* pods: the readiness condition follows the agents and proxies, a usable
  primitive keeps a proxy that fits, permissions are enforced;
* webhooks: nothing is injected twice, what is asked for is injected, and what
  the reconcilers take for supported can be reached;
* typed primitives: every typed resource ends up with a Primitive of its own,
  none stays behind;
* leader election: Become returns, and what the lock does and does not exclude.

## Modules

| Module | Models |
|---|---|
| `ApiObjects` | what the API server does with finalizers on delete and on update |
| `StoreLifecycle` | abstract specification of a Store as others see it |
| `AgentController` | agent controller, sidecar store controller, the pod controller's creation of agents, driver container |
| `StoreController`, `MCStoreController` | core store controller and protocol source; statuses for TLC |
| `PrimitiveLifecycle` | abstract specification of a Primitive as others see it |
| `TypedPrimitives` | typed primitive controllers, the garbage collector |
| `PodController`, `MCPodController` | pod controller with several primitives; a pod and four worlds for TLC |
| `Permissions` | `getPermissions` and its helpers, as operators |
| `PodInjection`, `MCPodInjection` | the three webhooks; two plugins for TLC |
| `StoragePlugins` | which driver serves a protocol, as webhook, pod and agent controller each find it |
| `Ports` | the next port, as webhook and pod controller find it |
| `ProxyController`, `MCProxyController` | proxy controller, sidecar primitive controller, the pod controller's handling of proxies, agent process and broker; bounds for TLC |
| `LeaderElection`, `MCLeaderElection` | `leader.Become` under `main`; three pods for TLC |
| `AgentControllerProofs`, `StoreControllerProofs`, `ProxyControllerProofs`, `TypedPrimitivesProofs`, `PodControllerProofs`, `PodInjectionProofs`, `PortsProofs`, `LeaderElectionProofs` | theorems and proofs about the module of the name |

### How code becomes actions

*Reconcile.* A worker takes a key off its queue and reads everything it needs
from the caches in one `Begin` step, which evaluates the decision operator
(`reconcileCreate`, `reconcileDelete`, ...): the order of its branches is the
order of the early returns of the Go function. Each gRPC call and each API write
after that is a step of its own. A worker holds the copies it read until its
write. The reads of one pass come from caches that other goroutines update, so
reading them at different moments is possible in the code; the difference is
visible only between two reads, with no effect in between, and the caches
themselves already have different ages in the model.

*Writes.* `Update` and `Status().Update` carry a resourceVersion. The model
compares the whole object with the copy: equal content stands for an equal
version. An object that changed and changed back would pass here and conflict in
the real system, where it is retried; the write is then the same one.

*Deletes.* `client.Delete` names an object and carries no UID, so it hits
whichever incarnation is there. `Deleted` and `Released` give the effect of
finalizers. An object has at most one finalizer of this program.

*Events.* A `Sync` step brings the cache of one object to its current version
and puts on the queues what the controllers' watches map that event to;
intermediate versions may be skipped, as informers may. The old and the new
object are both mapped, as controller-runtime does. Nothing is delivered twice
without a change, and liveness does not rely on the periodic resync (ten hours
by default), with two exceptions that say so: `LoserIsServed` and
`PermissionsEnforced`.

*Faults.* A `...Fault` step is a call or write that failed; when it happens
after a call step it is also a call that took effect and whose answer was lost.
`Crash` is the end of the controller process: queues and workers are lost,
caches are listed again and everything listed is enqueued.

*gRPC servers* (external). The driver, the agent process and the broker are
modelled from the codes the reconcilers test: AlreadyExists leaves what is
there, NotFound means there was nothing.

### AgentController

One pod, one store name, `MaxStores` incarnations. `agents[u]` is the Agent
`<pod>.<u>`; all incarnations share one process, `driver`, because
`driverapi.AgentId` is the store's name. `ReportProtocol` is the core store
controller, no more than `StoreLifecycle!Report` allows. `PersistsContainerID`
says whether the schema of the Agent keeps `status.containerID`.

The sweep of a deleted store, `StoreSweep`, is a step between the decision and
the release of the store and deletes nothing. `store.go:93-100` calls
`DeleteAllOf` without a namespace, unlike the sweep of proxies
(`primitive.go:86`); Agent is a namespaced kind (`deploy/`, `scope:
Namespaced`), of which the API server deletes no collection across namespaces,
and it answers NotFound, which `store.go:101` takes for success. What removes
agents is the agent controller's own watch on stores and `AgentDelete`
(`agent.go:140`).

Taken for granted: a primitive of the store is selected and permitted for the
pod and has no proxy yet, so that the pod controller wants an agent; the driver
container and port are found (`getDriverContainerAndPort`). The pod controller
has no queue here: each condition its creation waits for is made true by an
event it watches (pod, store, agent), so fairness of the step is what the queue
gives. `ProxyController` has the queue.

### StoreController

One store name. A protocol belongs to the incarnation that created it. It is
read from the API server, because unstructured objects bypass the cache;
`notice` says that its watch has something to deliver, which needs the plugin.
The protocol's controller raises the revision when it changes the set of
replicas or partitions, which is how `core/store.go` uses it. The claim by the
sidecar store controller is in the environment, and `AgentController` is the
model of that controller: the two modules meet in `StoreLifecycle`.

### ProxyController

One pod, one agent, one primitive name, `MaxPrimitives` incarnations. The agent
is environment, and does what `AgentController` shows: it follows the container,
becomes ready only with a process in the running container or on the strength of
an earlier one, and may go. A store always exists while the agent does, and an
agent that is gone is not made again, so the comparison of agent UIDs
(`pod.go:387`) has nothing to do. Only the write permission varies; read is
granted, so `pod.go:200` does not return.
The pod controller writes the `AtomixReady` condition before it creates the
proxy of an agent that is not ready; that write and the pass it triggers are not
steps here.

### TypedPrimitives and PrimitiveLifecycle

One name, and a controller per kind. The typed resource is read from the API
server (unstructured objects bypass the cache), the Primitive from the cache, so
the two reads and the creation are three steps. The event of a Primitive goes to
the kind that owns it (`EnqueueRequestForOwner`), before and after the change.
The sidecar primitive controller is two environment steps here, and
`ProxyController` is its model: both modules implement `PrimitiveLifecycle`. In
`ProxyController` Primitives come and go by `CreatePrimitive` and
`DeletePrimitive`; that these two stand for what the typed controllers, users
and the garbage collector do together is what the refinement of
`TypedPrimitives` shows.

### PodController

One pod and one store name with `MaxStores` incarnations; agents, by the UID of
their store, and proxies, by the UID of their primitive. `reconcilePrimitive` is
the decision for one primitive, with its early returns in order; a pass visits
the primitives by name (`NextPrimitive`, `LastPrimitive`) and every write is a
step. `setAtomixCondition` leaves a condition alone that is already there, in
which case the handling of the primitive goes on (`told`).

What is not watched, that is the profile, roles, bindings, service accounts and
plugins, is one variable, `world`, a key into `Worlds`: whatever of it changes,
the pod controller is not told. `Permissions` and `StoragePlugins` evaluate each
world. The four worlds of `MCPodController` are: everything open; primitive 1
read only, with the write permission for the other given by a ClusterRole bound
in another namespace; a bound role missing; and the plugin gone and one
primitive selected.

The agent and proxy controllers are environment: an agent may be removed with
its store still there (which a user can do, and which lets a new agent appear
under its name), a proxy is deleted when its agent or its primitive goes. The
pod itself is not deleted here; `AgentController` and `ProxyController` do that.
`ready` of a status and the condition need no container IDs at this level.

### PodInjection

One pod passes `BrokerInjector`, `ProfileInjector` and `DriverInjector`, in the
order of `deploy/atomix-controller.yaml:1099-1147`. `failurePolicy: Ignore` lets
a webhook that cannot be reached be passed over; an answer with an error refuses
the pod. The Go code ranges over a map of annotations and adds to it on the way:
`WithDrivers` takes every order of the domains and `NextPorts` every order of the
port annotations. An annotation added during the loop that the range happens to
visit is a status, container or port annotation, which the loop skips. A handler
works on a copy of the pod, so an error leaves the pod as it was, and when no
driver was injected the copy, status annotations included, is dropped. The pod
may be submitted again with all its annotations and containers, as `kubectl get
-o yaml` gives them.

### LeaderElection

A pod has a UID and a name, and a name may be used again. `phase` is the
position in `Become`; `how` remembers the result. Since `main` discards the
error, `BecomeFails` leads to running as well.

## Runs

| Run | Bounds | Checks |
|---|---|---|
| `AgentSafety` | 2 stores of one name, 1 agent, 1 container, 1 revision, 1 fault, pod may go | `TypeOK`, `LiveAgentKept`, `StoppedBeforeFinalized`, `StoreIsALifecycle` |
| `AgentLiveness` | 1 store, 1 agent, 2 containers, 2 revisions; fair | `ReadyAgentRuns`, `ConfigNeverRegresses`, `AgentConverges` |
| `AgentOrphans` | 2 stores of one name, 1 agent, 1 container, 1 revision, pod may go; fair | `OrphanAgentsCollected` |
| `AgentPrunedStatus` | 1 of each, `PersistsContainerID = FALSE`; fair | `AgentFollowsContainer`, violated |
| `StoreStatus` | 2 stores, 2 revisions, 2 changes, 5 statuses, 1 fault; fair | `TypeOK`, `StoreIsALifecycle`, `StoreAgrees`, `StoreGetsProtocol` |
| `ProxySafety` | 1 primitive, 2 proxies, 1 container, 1 grant change, 1 broker restart, 1 fault; or 2 primitives of one name, 1 proxy, 2 containers | `ServedPermissions`, `RegisteredIsBacked`, `ReadyProxyServed`, `DestroyedBeforeFinalized`, `SweptForGood`, `PrimitiveIsALifecycle` |
| `ProxyLiveness` | 1 primitive, 1 proxy, 1 container, agent and pod may go; fair | `TypeOK`, `ProxyConverges`, `OrphanProxiesCollected` |
| `TypedPrimitives` | 2 kinds, 2 typed resources, 1 deletion of a Primitive, 1 fault; fair | `TypeOK`, `TypedIsServed`, `LoserIsServed`, `OrphanPrimitiveCollected`, `PrimitiveIsALifecycle` |
| `Pod` | 2 primitives, 2 stores of one name, 4 worlds, events of cost 3; fair | `TypeOK`, `PodBecomesReady`, `PodReportsWaiting`, `PrimitiveIsServed`, `PermissionsEnforced` |
| `Injection` | 2 plugins with 3 drivers, any annotations, 2 submissions, 1 change | `TypeOK`, `InjectedOnce`, `SupportedIsReachable`, `AskedIsInjected`, `SecondPassIsIdle` |
| `LeaderLock` | 3 pods, 2 names, failing requests; fair | `TypeOK`, `NeverContended`, `BecomeReturns` |
| `LeaderUnique` | the same pods | `OneLeader`, violated |

Why the bounds are enough for their questions: two containers are an old and a
new one, which is all a stale container ID can confuse; two incarnations are
what a stale cache can confuse; one fault separates any call from its write and
kills the controller between any two steps; two revisions are an old and a new
configuration. In a run with one container the agent still sees two IDs: the
empty one that kubelet reports before the container has an ID, and its own. In
`AgentOrphans` the one agent belongs to either incarnation, and in either case
may be created too late. In `AgentLiveness` the pod stays; with one container,
and a pod that may go, the same properties hold too (541 thousand states).
`AgentSafety` has one agent, which may belong to either incarnation, as well.
With an agent of each (2 agents, no fault, 12 million states) the properties of
both runs hold, too. What `AgentLiveness` leaves out for its two invariants,
faults and several stores, is in the theorems, which hold for any number of
everything. Two proxies are the one whose permissions were taken away and its
successor; `ProxySafety` has either these or the reuse of a name (the constraint
`Bounds` of `MCProxyController`), since both at once are more than ten million
states. Without the deletions of pod and agent, `ProxyConverges` holds with 2
containers and a fault too (510 thousand states).

In `TypedPrimitives` two typed resources are two kinds that compete, or one kind
and its successor. In `Pod` the environment has a budget: a creation, a deleted
store, a restart, a change of the world, a status write of the kubelet, a fault
or a crash costs one, the deletion of a primitive or an agent two. Three is
enough for two primitives and any one disturbance, or one primitive and an agent
that is replaced, or one primitive and two changes of its permissions. A resync
happens when nothing else is under way, as it does after ten hours; elsewhere it
would only stand for a pass that events cause anyway. In `Injection` raft has a
current and a deprecated version and gossip one version, which is the least with
two domains and two drivers of one domain; of port annotations there is at most
one to begin with, on a driver or on a name without a dot, which may be no
number.

Deadlock checking is off: with its counters used up the bounded system comes to
rest, as the real one does when nothing changes.

Each property has a mutant, an operator marked "Mutant" beside the definition it
replaces: a forgotten reset, a dropped check, a missing watch. TLC finds the
property violated with it.

### Conditions in the properties

* `stores <= 1` in `ReadyAgentRuns`, `primitives <= 1` in `ReadyProxyServed`
  and `ServedPermissions`: agent process and broker know names. When a name is
  reused, the finalizer of the old object tears down what the new one has set
  up, and the new object's ready status stays. `RegisteredIsBacked` holds for
  reused names too, since every teardown unregisters before it destroys.
* `stores <= 1` in `AgentConverges`: for the same reason the agent of a deleted
  store may stop the process of the new one, whose status goes on saying that it
  is ready (`agent.go:332`), so that nothing starts it again.
* `u = stores` and a name out of use in `OrphanAgentsCollected`: `getStore` finds
  the store by its name (`agent.go:447`). An agent of an earlier store that was
  created, or is looked at, when a new store has the name is kept, and when that
  store goes, too, its removal is mapped to the agents with its UID only
  (`agent.go:475`). Such an agent is removed with its pod, and may not be before.
* `container <= 1` and an agent that is not gone in `RegisteredIsBacked`: the
  agent process ends with its container and with its agent, and nobody tells
  the broker.
* `~lost` in `StoreAgrees`: a protocol that is replaced starts its revisions
  from one, and `core/store.go:137` ignores it up to the stored revision.
* `[]plugin` in `StoreGetsProtocol`: nobody is told of a protocol removed before
  its plugin was seen.
* `brokerRestarts = 0` in `ReadyProxyServed`: a ready proxy is skipped, so a
  restarted broker is not told again.
* `primitive.fin` in `SweptForGood`: a primitive deleted before it was claimed
  vanishes without a sweep.
* `[]Alone(k)` in `TypedIsServed`: when another kind has the name, the Primitive's
  events go to that kind; `LoserIsServed` needs a resync.
* `Settled` in the pod properties: a missing profile or a bound role that does
  not exist fails every pass of the pod.
* `~changed` in `PodReportsWaiting` and `PrimitiveIsServed`: no event follows a
  change of roles, profile or plugins; `PermissionsEnforced` needs a resync.
* `isSelected(p)` in `PermissionsEnforced`: the proxy of a primitive that the
  profile selects no more is not looked at again.
* `~changed` in `AskedIsInjected`: a domain that was asked for before its plugin
  was installed may count as injected already (`driver.go:148`). The broker is
  left out for the same reason: the driver webhook sets its status too.

These are limits of the code, stated as such; each is in the list of hazards.
Two more follow from `Ports`: a port equal to the result does not raise it, so
all agents of a pod, and all drivers of a pod without port annotations, are
given the base port. `getPort` and `getNextPort` are modelled so; no property asks for
distinct ports, which nothing in the repository promises.

### Two disagreements with what the repository says

* `LeaderUnique`: the comment on `Become` says that only one lock can exist and
  that its creator is the leader. The lock has the name of the pod
  (`leader.go:45`; the deployment sets `POD_NAME` to `metadata.name`), so each
  pod has a lock of its own and two replicas both lead. `NeverContended` is the
  same fact seen from inside: the waiting loop is never entered.
* `AgentPrunedStatus`: the comment at `agent.go:174` says that the agent takes on
  the container's ID. The Agent schema in `deploy/` does not declare
  `status.containerID`, which the API server therefore drops; the IDs differ for
  ever, and the agent is reset on every pass. All other runs assume a schema
  that keeps the field, as the Go types do.

### Fairness

Weak fairness of informer syncs (watches deliver), of each worker (a goroutine
with a non-empty queue runs; a failed request is put back, with a bounded
backoff) and of the garbage collector. None of users, kubelet, the driver, the
protocol's controller, plugins or, in `ProxyController`, of the agent; liveness
properties state what these must do (`<>[]Served => ...`). Faults are bounded.
In `TypedPrimitives` and `PodController` also that a deleted Primitive or proxy
is released, which `ProxyController` shows of the reconcilers. The resync is not
fair; the two properties that need it assume it in their statement. In
`LeaderElection` a pod's process runs; requests may fail, since then Become
returns too.

## Proofs

Every invariant and every action property that a passing run checks is a
theorem, for every value of the constants, the four refinements included. Each
inductive invariant below was first checked by TLC on the bounds of the run.

Assumptions: the bounds are natural numbers, the switches Booleans, `Statuses` a
set of statuses that holds the empty one, `NoOwner` no pod, "none" no kind of
typed resource, `Primitives` numbers, `FirstWorld` one of the worlds. For the
webhooks: `Plugins` is a finite set of plugins with finite lists of drivers, no
two of one name or one protocol and none named "broker" or "profile", whose inject
annotations belong to the other webhooks; and a port that a user writes is a natural number
or no number (`BadPort`): the API server refuses a container port below one.

* `AgentControllerProofs`
  * `TypeCorrect`: `TypeOK` is inductive.
  * `LiveAgentIsKept` and `StoppedFirst`, from `AgentInv`. A decision to delete
    or to let go is made on cached objects and executed later, so the invariant
    must carry it from the cache to the write: `StoresKnown` (no copy names an
    incarnation that has not been created), `CacheCovers` (an agent was created
    from the cache, so the cache has the store of any existing agent whose store
    still exists), `DeletionsStand` (a cached store that says "deleted" is right,
    since a deletion is never undone) and `DecisionsStand` (what the worker has decided
    is still justified when it acts). `DecisionsStand` alone is not inductive: it
    needs the other three at the moment of the read.
  * `ConfigsNeverRegress`, from `ConfigsOrdered` on top of `AgentInv`: what the
    driver runs is not newer than what the worker is about to send, which is not
    newer than what any later read of the cache can return.
  * `ReadyAgentsRun`, from `RunInv`: no container ID in an object or a copy is
    ahead of the running container (`ContainersKnown`); a copy of an agent is an
    older state of it or of an earlier object of its name (`CopiesKnown`), so
    that the stop of a deleted agent meets no live ready one; and a start that
    was answered left the process running unless the container has changed since
    (`StartsLast`).
  * `FollowsLifecycle`: every step maps to a step of `StoreLifecycle` or
    stutters, with `SweepsDeleted` (the finalizer is only ever removed from a
    copy that is marked deleted, and only added to one that is not).
* `StoreControllerProofs`: `TypeCorrect`, and `ImplementsLifecycle` from
  `WriteIsNewer` (the revision a worker is about to write is not older than the
  one in its copy of the store; equality of copy and store at the write gives
  the rest).
* `ProxyControllerProofs`, four inductive invariants, each on top of the one
  before
  * `TypeCorrect`: `TypeOK` needs `CallFits` (a worker with a call in mind holds
    a claimed live proxy, or a deleted one to tear down) and `SweepFits`.
  * `DestroyedFirst`, from `ProxyInv`, which has the parts of `AgentInv` for
    primitives and proxies: `PrimitivesKnown`, `CacheCovers`, `DeletionsStand`,
    `DecisionsStand`.
  * `ReleasedWhenSwept`, from `SweepInv`. The worker may be about to make a proxy
    ready while the sweep goes by. `Swept` says that between sweep and release no
    ready live proxy is there, and that the proxy the worker holds is not the one
    that is there or is deleted by now; `UidsMade` keeps an old copy from matching
    a new proxy.
  * `ReadyIsServed` and `RegisteredStaysBacked`, from `ServeInv`: `ContainersKnown`;
    `CopiesKnown` (what a copy of a proxy still says of the proxy that is there);
    and `CallsStand` (the calls that were answered still stand when the worker goes
    on, unless the container, the agent or the broker has gone since).
  * `PermissionsServed`, from `PermissionInv`. CreateProxy takes AlreadyExists for
    success, so what is served must belong to a proxy with the same permissions.
    `Holder` says that the proxy that was created first is still there, claimed,
    as long as another may be made, and `HolderGone` that its finalizer goes only
    with what it serves.
  * `FollowsLifecycle`: the primitive implements `PrimitiveLifecycle`.
* `TypedPrimitivesProofs`: `TypeCorrect`, where every Primitive has an owner among
  the kinds, and `ImplementsLifecycle`: whatever typed controllers, users and the
  garbage collector do is a step of `PrimitiveLifecycle` or none. With
  `FollowsLifecycle` this is how the two modules fit together.
* `PodInjectionProofs`: `NothingTwice`, `SupportedIsServed`, `AskedGetsInjected`,
  `SecondPassChangesNothing` and `TypeCorrect`, from `InjectionInv`. Its first half,
  `SoundInv`, is about the pod alone: annotations and containers fit together
  (`Sound`), whatever was passed over, refused or submitted again. Its second half,
  `ReachedInv`, is about annotations that say "injected": as long as plugins and
  profile do not change they are right (`StatusMeans`), and a webhook that was
  reached has done its work. The handler of the driver webhook is two nested loops,
  folds in the model, over an order of chance; `Driven(p, q)`, what it may have made
  of `p` so far, is their loop invariant.
* `PortsProofs`: `NextPortIsAbove`. The next port is the base port or one above a
  port in use, and no port in use is above it. It may be a port in use, which is
  how all agents of a pod come to have one port.
* `PodControllerProofs`: `TypeCorrect`. `TypeOK` says that every proxy, existing,
  cached or held by the worker, refers to an agent that has existed and gives a
  permission. Its parts in `TypeInv` add what the worker may hold at each step
  (`WorkerOK`): the decision is taken in one step and carried out in another, so
  the object in the worker's mind must have its shape, too. It uses
  `NextPortIsAbove` for the port of a new agent.
* `LeaderElectionProofs`: `TypeCorrect`, and `LockIsNeverContended`, from
  `NamesUnique` (living pods have distinct names) and `OwnNames` (a lock is owned by
  a pod of its name).

*Folds.* The prover cannot instantiate a theorem that takes an operator, which
rules out the induction theorems and the facts on folds of its library.
`SetInduction` states induction for a set of numbers, and `FoldExists` that the
recursive function behind a fold exists, for a step given as a function; for each
fold of the model the step is such a function on the sets its arguments come from
(`SearchExists` in `PortsProofs`, and the two loops of the webhook in
`PodInjectionProofs`). An invariant of the loop then holds after every number of
elements.

Only model-checked: the liveness properties, all of them, since they need fairness
and ENABLED, which the prover does not handle. The two violated properties are
not theorems, naturally.

## Not modelled

Certificate generation, the broker binary, logging, the ready file and
environment access are I/O without a protocol. Registration of controllers with
the manager has no state of its own; what it makes each controller watch is in
the `Sync` actions. API types are abstracted by the records of the modules, and
their deep copies are generated. Time (backoff, event recording) and payloads
(protocol and primitive configuration, `getProtocolConfig`, images, addresses,
labels and names of containers) are left out. Several namespaces are modelled
only for role bindings. A `Primitive` without an owner, which the typed
controllers never make, and a plugin whose name has no dot are outside the
model: `pod.go:627` and `driver.go:201` index what is not there.

## Plan

Done, in this order: agents (with the sidecar store controller), the abstract store, the core
store controller and its refinement, leader election, proxies, the proofs of
the first four; then the webhooks with plugins and ports, the abstract
primitive with the typed controllers and the proxy controller implementing it,
and the pod controller with permissions.

Then the proofs of the other modules: agents, stores and leader election came
first, next proxies, typed primitives, webhooks, ports and the types of the pod
controller.

Next, proofs: what `getPermissions` returns (a permission it gives is given by a
rule of a role that is bound to the account, in its namespace or the cluster);
what the decision of the pod controller implies for the proxies it creates and
deletes, over and above their shape; and the safety half of the convergence
properties: that a reconciler with an empty queue and fresh caches has nothing
left to do.
