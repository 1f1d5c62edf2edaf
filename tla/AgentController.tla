--------------------------- MODULE AgentController ---------------------------
(***************************************************************************)
(* The agents of one pod: the AgentReconciler                              *)
(* (pkg/controller/sidecar/v2beta1/agent.go), the StoreReconciler that     *)
(* holds a store by its finalizer (sidecar/v2beta1/store.go), the part of  *)
(* the PodReconciler that creates an agent (sidecar pod.go), and what they *)
(* act on: the API server's objects, the informer cache that every         *)
(* reconciler reads, and the driver container in which StartAgent,         *)
(* ConfigureAgent and StopAgent land.                                      *)
(*                                                                         *)
(* One pod and one store NAME are modelled.  The store name may be used    *)
(* again after a deletion: incarnation u of the store has UID u, and agent *)
(* u is the Agent object "<pod>.<u>" that the PodReconciler names after    *)
(* that UID.  In the driver the agent is identified by the store's name,   *)
(* so all incarnations share one agent process.                            *)
(*                                                                         *)
(* A reconciler's cached reads are one step (Begin); every gRPC call and   *)
(* every API write that follows is a step of its own, so anything may      *)
(* happen between them.  A write carries the copy that was read and fails  *)
(* with a conflict when the object has changed since (resourceVersion).    *)
(***************************************************************************)
EXTENDS Integers, ApiObjects

CONSTANTS
    MaxStores,          \* incarnations of the store name
    MaxAgents,          \* Agent objects ever created
    MaxContainers,      \* driver containers ever started in the pod
    MaxRevision,        \* protocol revisions the store ever reports
    MaxFaults,          \* failed calls and controller crashes
    PodMayBeDeleted,    \* bounds the runs: is the pod ever deleted?
    PersistsContainerID \* does the Agent CRD store status.containerID?

ASSUME BoundsAssumption ==
    /\ MaxStores \in Nat
    /\ MaxAgents \in Nat
    /\ MaxContainers \in Nat
    /\ MaxRevision \in Nat
    /\ MaxFaults \in Nat
ASSUME SwitchesAssumption ==
    /\ PodMayBeDeleted \in BOOLEAN
    /\ PersistsContainerID \in BOOLEAN

VARIABLES
    store,       \* the Store object in the API server
    agents,      \* the Agent objects in the API server, by store UID
    pod,         \* the Pod object in the API server
    container,   \* the running driver container, 0 before the first starts
    driver,      \* the agent process in that container and its configuration
    storeCache,  \* the informer cache of each kind
    agentCache,
    podCache,
    storeQueue,  \* work queue and worker of the sidecar StoreReconciler
    sw,
    agentQueue,  \* work queue and worker of the AgentReconciler
    aw,
    creating,    \* the PodReconciler's Create in flight: a store UID, or 0
    stores,      \* history: store and agent objects made, faults met
    made,
    faults

apiVars   == <<store, agents, pod>>
hostVars  == <<container, driver>>
cacheVars == <<storeCache, agentCache, podCache>>
storeWork == <<storeQueue, sw>>
agentWork == <<agentQueue, aw>>
history   == <<stores, made, faults>>
vars == <<apiVars, hostVars, cacheVars, storeWork, agentWork, creating, history>>

-----------------------------------------------------------------------------
(* Objects.  uid = 0 is the object that is not found. *)

StoreUIDs == 1..MaxStores

StoreObject == [uid : 0..MaxStores, deleting : BOOLEAN, fin : BOOLEAN,
                ready : BOOLEAN, rev : 0..MaxRevision]
AgentObject == [uid : 0..MaxAgents, deleting : BOOLEAN, fin : BOOLEAN,
                cid : 0..MaxContainers, ready : BOOLEAN, rev : 0..MaxRevision]
\* cid = 0 is the empty container ID; reported = FALSE: no container status yet.
PodObject   == [found : BOOLEAN, reported : BOOLEAN, cid : 0..MaxContainers]
DriverState == [up : BOOLEAN, uid : 0..MaxStores, rev : 0..MaxRevision]

NoStore == [uid |-> 0, deleting |-> FALSE, fin |-> FALSE,
            ready |-> FALSE, rev |-> 0]
NoAgent == [uid |-> 0, deleting |-> FALSE, fin |-> FALSE,
            cid |-> 0, ready |-> FALSE, rev |-> 0]
NoPod   == [found |-> FALSE, reported |-> FALSE, cid |-> 0]
Stopped == [up |-> FALSE, uid |-> 0, rev |-> 0]

\* The workers: what the reconciler is about to do, and the copies it holds.
StoreOps == {"idle", "addFinalizer", "sweep", "removeFinalizer"}
CallOps  == {"start", "configure", "stop"}
WriteOps == {"addFinalizer", "rebind", "ready", "removeFinalizer"}
AgentOps == {"idle", "delete"} \cup CallOps \cup WriteOps

StoreWorker == [op : StoreOps, store : StoreObject]
AgentWorker == [op : AgentOps, key : 0..MaxStores, agent : AgentObject,
                cid : 0..MaxContainers, uid : 0..MaxStores, rev : 0..MaxRevision]

IdleStoreWorker == [op |-> "idle", store |-> NoStore]
IdleAgentWorker == [op |-> "idle", key |-> 0, agent |-> NoAgent,
                    cid |-> 0, uid |-> 0, rev |-> 0]

-----------------------------------------------------------------------------
(* What the reconcilers decide from the cached objects. *)

\* The sidecar StoreReconciler claims a live store; of a deleted one it asks
\* to have the agents deleted (the sweep) and lets it go.
StoreReconcile(s) ==
    IF s.uid # 0 /\ ~s.deleting /\ ~s.fin THEN "addFinalizer"
    ELSE IF s.uid # 0 /\ s.deleting /\ s.fin THEN "sweep"
    ELSE "idle"

\* Mutant: a store that is not ready is taken for one that is gone.
DeleteUnlessReady(a, p, s) ==
    IF ~a.fin THEN "addFinalizer"
    ELSE IF ~p.found \/ s.uid = 0 \/ ~s.ready THEN "delete"
    ELSE IF ~p.reported THEN "idle"
    ELSE IF a.cid # p.cid THEN "rebind"
    ELSE IF a.ready /\ a.rev = s.rev THEN "idle"
    ELSE IF a.ready THEN "configure" ELSE "start"

\* What to do for a live agent a, its pod p and its store s.
reconcileCreate(a, p, s) ==
    IF ~a.fin THEN "addFinalizer"
    ELSE IF ~p.found \/ s.uid = 0 \/ s.deleting THEN "delete"
    ELSE IF ~p.reported THEN "idle"
    ELSE IF a.cid # p.cid THEN "rebind"
    ELSE IF ~s.ready \/ (a.ready /\ a.rev = s.rev) THEN "idle"
    ELSE IF a.ready THEN "configure" ELSE "start"

\* Mutant: the finalizer is dropped without stopping the agent.
ForgetStop(a, p, s) == IF a.fin THEN "removeFinalizer" ELSE "idle"

\* What to do for a deleted agent: with its pod or its store gone the
\* finalizer is dropped at once, otherwise the driver is told to stop first.
reconcileDelete(a, p, s) ==
    IF ~a.fin THEN "idle"
    ELSE IF ~p.found \/ s.uid = 0 THEN "removeFinalizer"
    ELSE "stop"

AgentReconcile(a, p, s) ==
    IF a.uid = 0 THEN "idle"
    ELSE IF a.deleting THEN reconcileDelete(a, p, s)
    ELSE reconcileCreate(a, p, s)

\* Mutants: the revision, or readiness, survives a change of container.
RebindKeepsRevision(a, cid) ==
    [a EXCEPT !.cid = IF PersistsContainerID THEN cid ELSE @, !.ready = FALSE]
RebindKeepsReady(a, cid) ==
    [a EXCEPT !.cid = IF PersistsContainerID THEN cid ELSE @]

\* The status reset for a new container.  A field the CRD's schema does not
\* declare is pruned by the API server.
Rebound(a, cid) ==
    [a EXCEPT !.cid = IF PersistsContainerID THEN cid ELSE @,
              !.ready = FALSE, !.rev = 0]

\* The object that worker w's Update or Status().Update writes.
Written(w) ==
    CASE w.op = "addFinalizer"    -> [w.agent EXCEPT !.fin = TRUE]
      [] w.op = "rebind"          -> Rebound(w.agent, w.cid)
      [] w.op = "ready"           -> [w.agent EXCEPT !.ready = TRUE, !.rev = w.rev]
      [] w.op = "removeFinalizer" -> Released(w.agent, NoAgent)

-----------------------------------------------------------------------------
(* Initially the pod has been created and injected; no store exists. *)

Init ==
    /\ store = NoStore
    /\ agents = [u \in StoreUIDs |-> NoAgent]
    /\ pod = [found |-> TRUE, reported |-> FALSE, cid |-> 0]
    /\ container = 0
    /\ driver = Stopped
    /\ storeCache = store
    /\ agentCache = agents
    /\ podCache = pod
    /\ storeQueue = FALSE
    /\ sw = IdleStoreWorker
    /\ agentQueue = {}
    /\ aw = IdleAgentWorker
    /\ creating = 0
    /\ stores = 0
    /\ made = 0
    /\ faults = 0

-----------------------------------------------------------------------------
(* The environment: users, the core StoreReconciler, kubelet. *)

CreateStore ==
    /\ store.uid = 0
    /\ stores < MaxStores
    /\ store' = [NoStore EXCEPT !.uid = stores + 1]
    /\ stores' = stores + 1
    /\ UNCHANGED <<agents, pod, hostVars, cacheVars, storeWork, agentWork,
                   creating, made, faults>>

DeleteStore ==
    /\ store.uid # 0
    /\ ~store.deleting
    /\ store' = Deleted(store, NoStore)
    /\ UNCHANGED <<agents, pod, hostVars, cacheVars, storeWork, agentWork,
                   creating, history>>

\* Mutant: an older protocol revision overwrites a newer one.
ReportAnyRevision ==
    /\ store.uid # 0
    /\ \E ready \in BOOLEAN, rev \in 1..MaxRevision :
          store' = [store EXCEPT !.ready = ready, !.rev = rev]
    /\ UNCHANGED <<agents, pod, hostVars, cacheVars, storeWork, agentWork,
                   creating, history>>

\* The core StoreReconciler copies the protocol's status into the store's
\* (core/v2beta1/store.go); it ignores a revision older than the stored one.
ReportProtocol ==
    /\ store.uid # 0
    /\ \E ready \in BOOLEAN, rev \in 1..MaxRevision :
          /\ rev >= store.rev
          /\ store' = [store EXCEPT !.ready = ready, !.rev = rev]
    /\ UNCHANGED <<agents, pod, hostVars, cacheVars, storeWork, agentWork,
                   creating, history>>

\* The driver container starts, or restarts with nothing running in it.
StartContainer ==
    /\ pod.found
    /\ container < MaxContainers
    /\ container' = container + 1
    /\ driver' = Stopped
    /\ UNCHANGED <<apiVars, cacheVars, storeWork, agentWork, creating, history>>

\* Kubelet reports the container status, before the container has an ID
\* (cid = 0) or after.
ReportStatus ==
    /\ pod.found
    /\ pod' = [pod EXCEPT !.reported = TRUE, !.cid = container]
    /\ pod' # pod
    /\ UNCHANGED <<store, agents, hostVars, cacheVars, storeWork, agentWork,
                   creating, history>>

DeletePod ==
    /\ PodMayBeDeleted
    /\ pod.found
    /\ pod' = NoPod
    /\ driver' = Stopped
    /\ UNCHANGED <<store, agents, container, cacheVars, storeWork, agentWork,
                   creating, history>>

\* The garbage collector deletes the agents a deleted pod owned.
GarbageCollect ==
    /\ ~pod.found
    /\ \E u \in StoreUIDs :
          /\ agents[u].uid # 0
          /\ ~agents[u].deleting
          /\ agents' = [agents EXCEPT ![u] = Deleted(@, NoAgent)]
    /\ UNCHANGED <<store, pod, hostVars, cacheVars, storeWork, agentWork,
                   creating, history>>

-----------------------------------------------------------------------------
(* The PodReconciler's creation of an agent: the agent's absence is read   *)
(* from the cache, the Create is a later step.  Whether the store is being *)
(* deleted is not looked at.                                               *)

PodReadsStore ==
    /\ creating = 0
    /\ podCache.found
    /\ storeCache.uid # 0
    /\ agentCache[storeCache.uid].uid = 0
    /\ made < MaxAgents
    /\ creating' = storeCache.uid
    /\ UNCHANGED <<apiVars, hostVars, cacheVars, storeWork, agentWork, history>>

PodCreatesAgent ==
    /\ creating # 0
    /\ creating' = 0
    /\ IF agents[creating].uid = 0
         THEN /\ agents' = [agents EXCEPT ![creating] =
                              [NoAgent EXCEPT !.uid = made + 1]]
              /\ made' = made + 1
         ELSE UNCHANGED <<agents, made>>
    /\ UNCHANGED <<store, pod, hostVars, cacheVars, storeWork, agentWork,
                   stores, faults>>
-----------------------------------------------------------------------------
(* The informers.  A sync brings the cache of one object up to date and    *)
(* enqueues the requests that the controllers' watches map the event to.   *)

\* The requests of storeAgentMapper: the cached agents labelled with u.
LabelledAgents(u) == {k \in StoreUIDs : k = u /\ agentCache[k].uid # 0}

\* Mutant: the AgentReconciler does not watch stores.
SyncStoreUnwatched ==
    /\ storeCache # store
    /\ storeCache' = store
    /\ storeQueue' = TRUE
    /\ UNCHANGED <<apiVars, hostVars, agentCache, podCache, sw, agentWork,
                   creating, history>>

\* An update maps the old and the new object.
SyncStore ==
    /\ storeCache # store
    /\ storeCache' = store
    /\ storeQueue' = TRUE
    /\ agentQueue' = agentQueue \cup LabelledAgents(storeCache.uid)
                                \cup LabelledAgents(store.uid)
    /\ UNCHANGED <<apiVars, hostVars, agentCache, podCache, sw, aw,
                   creating, history>>

SyncAgent(u) ==
    /\ agentCache[u] # agents[u]
    /\ agentCache' = [agentCache EXCEPT ![u] = agents[u]]
    /\ agentQueue' = agentQueue \cup {u}
    /\ UNCHANGED <<apiVars, hostVars, storeCache, podCache, storeWork, aw,
                   creating, history>>

\* Mutant: the AgentReconciler does not watch pods.
SyncPodUnwatched ==
    /\ podCache # pod
    /\ podCache' = pod
    /\ UNCHANGED <<apiVars, hostVars, storeCache, agentCache, storeWork,
                   agentWork, creating, history>>

\* Every agent carries the pod's label, so podAgentMapper finds them all.
SyncPod ==
    /\ podCache # pod
    /\ podCache' = pod
    /\ agentQueue' = agentQueue \cup {u \in StoreUIDs : agentCache[u].uid # 0}
    /\ UNCHANGED <<apiVars, hostVars, storeCache, agentCache, storeWork, aw,
                   creating, history>>

-----------------------------------------------------------------------------
(* The sidecar StoreReconciler's worker. *)

StoreBegin ==
    /\ sw.op = "idle"
    /\ storeQueue
    /\ storeQueue' = FALSE
    /\ sw' = IF StoreReconcile(storeCache) = "idle" THEN IdleStoreWorker
             ELSE [op |-> StoreReconcile(storeCache), store |-> storeCache]
    /\ UNCHANGED <<apiVars, hostVars, cacheVars, agentWork, creating, history>>

\* DeleteAllOf for the agents of the store deletes none of them.  It names no
\* namespace, and Agent is a namespaced kind, of which the API server deletes
\* no collection across namespaces: it answers NotFound, which the reconciler
\* takes for success.  Agents go by AgentDelete, through the watch on stores.
StoreSweep ==
    /\ sw.op = "sweep"
    /\ sw' = [sw EXCEPT !.op = "removeFinalizer"]
    /\ UNCHANGED <<apiVars, hostVars, cacheVars, storeQueue, agentWork,
                   creating, history>>

\* Mutant: the write does not notice that the store has changed.
StoreWriteUnchecked ==
    /\ sw.op \in {"addFinalizer", "removeFinalizer"}
    /\ store' = IF sw.op = "addFinalizer" THEN [sw.store EXCEPT !.fin = TRUE]
                ELSE Released(sw.store, NoStore)
    /\ sw' = IdleStoreWorker
    /\ UNCHANGED <<agents, pod, hostVars, cacheVars, storeQueue, agentWork,
                   creating, history>>

StoreWrite ==
    /\ sw.op \in {"addFinalizer", "removeFinalizer"}
    /\ store = sw.store
    /\ store' = IF sw.op = "addFinalizer" THEN [store EXCEPT !.fin = TRUE]
                ELSE Released(store, NoStore)
    /\ sw' = IdleStoreWorker
    /\ UNCHANGED <<agents, pod, hostVars, cacheVars, storeQueue, agentWork,
                   creating, history>>

\* An error makes the request go back on the queue.
StoreRetry ==
    /\ sw' = IdleStoreWorker
    /\ storeQueue' = TRUE
    /\ UNCHANGED <<apiVars, hostVars, cacheVars, agentWork, creating,
                   stores, made>>

StoreConflict ==
    /\ sw.op \in {"addFinalizer", "removeFinalizer"}
    /\ store # sw.store
    /\ StoreRetry
    /\ UNCHANGED faults

StoreFault ==
    /\ sw.op # "idle"
    /\ faults < MaxFaults
    /\ StoreRetry
    /\ faults' = faults + 1

-----------------------------------------------------------------------------
(* The AgentReconciler's worker. *)

AgentBegin(k) ==
    /\ aw.op = "idle"
    /\ k \in agentQueue
    /\ agentQueue' = agentQueue \ {k}
    /\ LET op == AgentReconcile(agentCache[k], podCache, storeCache) IN
         aw' = IF op = "idle" THEN IdleAgentWorker
               ELSE [op |-> op, key |-> k, agent |-> agentCache[k],
                     cid |-> IF op = "rebind" THEN podCache.cid ELSE 0,
                     uid |-> IF op \in CallOps THEN storeCache.uid ELSE 0,
                     rev |-> IF op \in CallOps THEN storeCache.rev ELSE 0]
    /\ UNCHANGED <<apiVars, hostVars, cacheVars, storeWork, creating, history>>

\* client.Delete names the object and asks for no particular incarnation.
AgentDelete ==
    /\ aw.op = "delete"
    /\ agents' = [agents EXCEPT ![aw.key] = Deleted(@, NoAgent)]
    /\ aw' = IdleAgentWorker
    /\ UNCHANGED <<store, pod, hostVars, cacheVars, storeWork, agentQueue,
                   creating, history>>

\* The driver's endpoint can be dialled.
Reachable == pod.found /\ container # 0

\* StartAgent for an agent that runs already answers AlreadyExists, which
\* the reconciler takes for success; the running configuration stays.
StartAgent ==
    /\ aw.op = "start"
    /\ Reachable
    /\ driver' = IF driver.up THEN driver
                 ELSE [up |-> TRUE, uid |-> aw.uid, rev |-> aw.rev]
    /\ aw' = [aw EXCEPT !.op = "ready"]
    /\ UNCHANGED <<apiVars, container, cacheVars, storeWork, agentQueue,
                   creating, history>>

ConfigureAgent ==
    /\ aw.op = "configure"
    /\ Reachable
    /\ driver.up
    /\ driver' = [driver EXCEPT !.uid = aw.uid, !.rev = aw.rev]
    /\ aw' = [aw EXCEPT !.op = "ready"]
    /\ UNCHANGED <<apiVars, container, cacheVars, storeWork, agentQueue,
                   creating, history>>

\* StopAgent answers NotFound, taken for success, when nothing runs.
StopAgent ==
    /\ aw.op = "stop"
    /\ Reachable
    /\ driver' = Stopped
    /\ aw' = [aw EXCEPT !.op = "removeFinalizer"]
    /\ UNCHANGED <<apiVars, container, cacheVars, storeWork, agentQueue,
                   creating, history>>

AgentWrite ==
    /\ aw.op \in WriteOps
    /\ agents[aw.key] = aw.agent
    /\ agents' = [agents EXCEPT ![aw.key] = Written(aw)]
    /\ aw' = IdleAgentWorker
    /\ UNCHANGED <<store, pod, hostVars, cacheVars, storeWork, agentQueue,
                   creating, history>>

AgentRetry ==
    /\ aw' = IdleAgentWorker
    /\ agentQueue' = agentQueue \cup {aw.key}
    /\ UNCHANGED <<apiVars, hostVars, cacheVars, storeWork, creating,
                   stores, made>>

\* The call fails because there is no container to call, or no agent to
\* configure in it.
AgentUnreachable ==
    /\ aw.op \in CallOps
    /\ ~Reachable \/ (aw.op = "configure" /\ ~driver.up)
    /\ AgentRetry
    /\ UNCHANGED faults

AgentConflict ==
    /\ aw.op \in WriteOps
    /\ agents[aw.key] # aw.agent
    /\ AgentRetry
    /\ UNCHANGED faults

\* A call or a write fails for another reason.  When op is "ready" or
\* "removeFinalizer" this is also a gRPC call that took effect and whose
\* answer was lost.
AgentFault ==
    /\ aw.op # "idle"
    /\ faults < MaxFaults
    /\ AgentRetry
    /\ faults' = faults + 1

-----------------------------------------------------------------------------
(* The controller process dies and is restarted: queues and in-flight work *)
(* are lost, the informers list everything again.                          *)

Crash ==
    /\ faults < MaxFaults
    /\ faults' = faults + 1
    /\ storeCache' = store
    /\ agentCache' = agents
    /\ podCache' = pod
    /\ storeQueue' = (store.uid # 0)
    /\ sw' = IdleStoreWorker
    /\ agentQueue' = {u \in StoreUIDs : agents[u].uid # 0}
    /\ aw' = IdleAgentWorker
    /\ creating' = 0
    /\ UNCHANGED <<apiVars, hostVars, stores, made>>

Environment ==
    \/ CreateStore
    \/ DeleteStore
    \/ ReportProtocol
    \/ StartContainer
    \/ ReportStatus
    \/ DeletePod

PodWorker   == PodReadsStore \/ PodCreatesAgent
StoreStep   == StoreBegin \/ StoreSweep \/ StoreWrite \/ StoreConflict
AgentStep   ==
    \/ \E k \in StoreUIDs : AgentBegin(k)
    \/ AgentDelete
    \/ StartAgent
    \/ ConfigureAgent
    \/ StopAgent
    \/ AgentWrite
    \/ AgentUnreachable
    \/ AgentConflict
Faults == StoreFault \/ AgentFault \/ Crash

Next ==
    \/ Environment
    \/ GarbageCollect
    \/ PodWorker
    \/ SyncStore
    \/ \E u \in StoreUIDs : SyncAgent(u)
    \/ SyncPod
    \/ StoreStep
    \/ AgentStep
    \/ Faults

Spec == Init /\ [][Next]_vars

\* Watches deliver, workers run, the garbage collector collects.  Nothing is
\* assumed of users, of kubelet or of the protocol.
Fairness ==
    /\ WF_vars(GarbageCollect)
    /\ WF_vars(PodWorker)
    /\ WF_vars(SyncStore)
    /\ \A u \in StoreUIDs : WF_vars(SyncAgent(u))
    /\ WF_vars(SyncPod)
    /\ WF_vars(StoreStep)
    /\ WF_vars(AgentStep)

FairSpec == Spec /\ Fairness
-----------------------------------------------------------------------------
(* Properties *)

AgentShape(a) ==
    /\ a \in AgentObject
    /\ ~a.ready => a.rev = 0
    /\ a.uid = 0 => a = NoAgent
    /\ a.deleting => a.fin

StoreShape(s) ==
    /\ s \in StoreObject
    /\ s.uid = 0 => s = NoStore
    /\ s.deleting => s.fin

(* Type correctness, with the shape of the objects the reconcilers rely on:
   an agent that is not ready has no revision (agent.go resets both), and an
   object marked deleted is held by a finalizer. *)
TypeOK ==
    /\ StoreShape(store)
    /\ StoreShape(storeCache)
    /\ StoreShape(sw.store)
    /\ agents \in [StoreUIDs -> AgentObject]
    /\ agentCache \in [StoreUIDs -> AgentObject]
    /\ \A u \in StoreUIDs : AgentShape(agents[u]) /\ AgentShape(agentCache[u])
    /\ AgentShape(aw.agent)
    /\ pod \in PodObject
    /\ podCache \in PodObject
    /\ container \in 0..MaxContainers
    /\ driver \in DriverState
    /\ storeQueue \in BOOLEAN
    /\ sw \in StoreWorker
    /\ agentQueue \subseteq StoreUIDs
    /\ aw \in AgentWorker
    /\ sw.op # "idle" => sw.store.uid # 0
    /\ aw.op # "idle" => aw.key # 0 /\ aw.agent.uid # 0
    /\ creating \in 0..MaxStores
    /\ stores \in 0..MaxStores
    /\ made \in 0..MaxAgents
    /\ creating # 0 => made < MaxAgents
    /\ faults \in 0..MaxFaults

(* An agent that says it is ready in the container that is running has its
   process there: readiness never survives a container restart, a failed call
   or a stop (agent.go:174-248).  The store's name must not have been reused:
   the driver knows agents by that name, and the deleted incarnation's agent
   then stops the new one's process. *)
ReadyAgentRuns ==
    stores <= 1 =>
        \A u \in StoreUIDs :
            /\ agents[u].ready
            /\ ~agents[u].deleting
            /\ pod.found
            /\ agents[u].cid = container
            => driver.up

(* While a store and the pod exist and are not being deleted, neither a
   reconciler nor the garbage collector deletes their agent, however stale the
   caches the decision was made on (agent.go:140) and whatever incarnations
   came before. *)
LiveAgentKept ==
    [][\A u \in StoreUIDs :
          /\ store.uid = u
          /\ ~store.deleting
          /\ pod.found
          /\ agents[u].uid # 0
          /\ ~agents[u].deleting
          => agents'[u].uid = agents[u].uid /\ ~agents'[u].deleting]_vars

(* An agent that was claimed (it has the finalizer) is not removed while its
   store and its pod exist until its process has been stopped
   (agent.go:296-346). *)
StoppedBeforeFinalized ==
    [][\A u \in StoreUIDs :
          /\ agents[u].fin
          /\ agents'[u].uid # agents[u].uid
          /\ store.uid = u
          /\ pod.found
          => ~driver.up]_vars

\* The configuration <<v, q>> is not older than <<u, r>>.
NotOlder(u, r, v, q) == u < v \/ (u = v /\ r <= q)

(* A running agent process is never given an older configuration than the one
   it runs, through stale caches, retries and new incarnations of the store
   (agent.go:199-240 with core/v2beta1/store.go:137). *)
ConfigNeverRegresses ==
    [][driver.up /\ driver'.up =>
          NotOlder(driver.uid, driver.rev, driver'.uid, driver'.rev)]_vars

Served ==
    /\ store.uid # 0
    /\ ~store.deleting
    /\ store.ready
    /\ pod = [found |-> TRUE, reported |-> TRUE, cid |-> container]
    /\ container # 0

Converged ==
    /\ agents[store.uid].ready
    /\ agents[store.uid].rev = store.rev
    /\ agents[store.uid].cid = container
    /\ driver.up

(* Once the store stays ready and the pod's container stays up and reported,
   the agent is created, claimed, started and reported ready at the store's
   revision, and stays so (agent.go:115-248).  The store's name must not have
   been reused: the deleted incarnation's agent, which the driver knows by that
   name, may stop the process of the new one, whose status goes on saying that
   it is ready (agent.go:332). *)
AgentConverges ==
    <>[](Served /\ stores <= 1) => <>[](Served /\ Converged)

(* agent.go:174-175: "If the agent's container ID is different from the
   running container ID, update the agent's container ID": with the pod and
   the store served for good, the agent ends up with the container's ID. *)
AgentFollowsContainer ==
    <>[]Served => <>[](Served /\ agents[store.uid].cid = container)

(* With the pod gone for good every agent is eventually removed, and with the
   store's name out of use for good the agent of the last store of that name,
   one that the PodReconciler created after the store had gone included
   (agent.go:129-146).  An agent of an earlier store may stay: getStore finds
   the store by its name alone, so a later store of that name keeps the agent
   (agent.go:447-461), and the removal of that later store is mapped only to
   the agents that carry its UID (agent.go:475-499). *)
OrphanAgentsCollected ==
    <>[](~pod.found \/ store.uid = 0) =>
        <>[](\A u \in StoreUIDs : ~pod.found \/ u = stores => agents[u].uid = 0)

Lifecycle == INSTANCE StoreLifecycle
    WITH visible <- store, incarnations <- stores

(* The Store that the agents follow is what StoreLifecycle allows, which is
   also what StoreController implements: the claim and the release by the
   sidecar StoreReconciler (sidecar store.go) keep its status, and it is only
   removed by a deletion. *)
StoreIsALifecycle == Lifecycle!Spec
=============================================================================
