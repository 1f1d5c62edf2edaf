--------------------------- MODULE ProxyController ---------------------------
(***************************************************************************)
(* The proxies of one pod: the ProxyReconciler                             *)
(* (pkg/controller/sidecar/v2beta1/proxy.go), the PrimitiveReconciler that *)
(* sweeps the proxies of a deleted primitive (sidecar primitive.go), the   *)
(* part of the PodReconciler that creates a proxy and deletes one whose    *)
(* agent or permissions no longer fit (sidecar pod.go), and what they act  *)
(* on: API objects behind an informer cache, the agent process in which    *)
(* CreateProxy and DestroyProxy land, and the broker in which primitives   *)
(* are registered.                                                         *)
(*                                                                         *)
(* One pod, one agent and one primitive NAME are modelled.  Incarnation u  *)
(* of the primitive has UID u, and proxy u is the Proxy object             *)
(* "<pod>.<u>".  The agent process and the broker know the primitive by    *)
(* its name.  The agent is what AgentController shows of it: it follows    *)
(* the container, starts its process, becomes ready, and may be deleted.   *)
(* Of a pod's permissions on the primitive only "write" varies.            *)
(***************************************************************************)
EXTENDS Integers, ApiObjects

CONSTANTS
    MaxPrimitives,      \* incarnations of the primitive name
    MaxProxies,         \* Proxy objects ever created
    MaxContainers,      \* driver containers ever started in the pod
    MaxGrants,          \* changes of the pod's permissions
    MaxBrokerRestarts,  \* restarts of the broker container
    MaxFaults,          \* failed calls and controller crashes
    MayBeDeleted        \* which of "pod" and "agent" are ever deleted

ASSUME BoundsAssumption ==
    /\ MaxPrimitives \in Nat
    /\ MaxProxies \in Nat
    /\ MaxContainers \in Nat
    /\ MaxGrants \in Nat
    /\ MaxBrokerRestarts \in Nat
    /\ MaxFaults \in Nat
ASSUME DeletionsAssumption == MayBeDeleted \subseteq {"pod", "agent"}

VARIABLES
    primitive,      \* the Primitive object in the API server
    proxies,        \* the Proxy objects, by primitive UID
    agent,          \* the Agent object
    pod,            \* does the Pod object exist?
    granted,        \* may the pod write the primitive?
    container,      \* the running driver container, 0 before the first starts
    process,        \* does the agent process run in it?
    served,         \* the agent process's proxy for the primitive
    registered,     \* is the primitive registered with the broker?
    primitiveCache, \* the informer cache of each kind
    proxyCache,
    agentCache,
    podCache,
    primitiveQueue, \* work queue and worker of the PrimitiveReconciler
    mw,
    proxyQueue,     \* work queue and worker of the ProxyReconciler
    xw,
    podQueue,       \* work queue and worker of the PodReconciler
    dw,
    primitives,     \* history: objects made, grants, restarts and faults
    made,
    grants,
    brokerRestarts,
    faults

apiVars   == <<primitive, proxies, agent, pod, granted>>
hostVars  == <<container, process, served, registered>>
cacheVars == <<primitiveCache, proxyCache, agentCache, podCache>>
sweepWork == <<primitiveQueue, mw>>
proxyWork == <<proxyQueue, xw>>
podWork   == <<podQueue, dw>>
history   == <<primitives, made, grants, brokerRestarts, faults>>
vars == <<apiVars, hostVars, cacheVars, sweepWork, proxyWork, podWork,
          history>>

-----------------------------------------------------------------------------
(* Objects.  uid = 0 is the object that is not found. *)

PrimitiveUIDs == 1..MaxPrimitives

PrimitiveObject == [uid : 0..MaxPrimitives, deleting : BOOLEAN, fin : BOOLEAN]
ProxyObject == [uid : 0..MaxProxies, deleting : BOOLEAN, fin : BOOLEAN,
                cid : 0..MaxContainers, ready : BOOLEAN, write : BOOLEAN]
AgentObject == [found : BOOLEAN, deleting : BOOLEAN,
                cid : 0..MaxContainers, ready : BOOLEAN]
ServedProxy == [up : BOOLEAN, write : BOOLEAN]

NoPrimitive == [uid |-> 0, deleting |-> FALSE, fin |-> FALSE]
NoProxy == [uid |-> 0, deleting |-> FALSE, fin |-> FALSE,
            cid |-> 0, ready |-> FALSE, write |-> FALSE]
NoAgent == [found |-> FALSE, deleting |-> FALSE, cid |-> 0, ready |-> FALSE]
NotServed == [up |-> FALSE, write |-> FALSE]

SweepOps == {"idle", "addFinalizer", "sweep", "removeFinalizer"}
CallOps  == {"createProxy", "register", "unregister", "destroyProxy"}
WriteOps == {"addFinalizer", "rebind", "ready", "removeFinalizer"}
ProxyOps == {"idle", "delete"} \cup CallOps \cup WriteOps

SweepWorker == [op : SweepOps, primitive : PrimitiveObject]
ProxyWorker == [op : ProxyOps, key : 0..MaxPrimitives, proxy : ProxyObject,
                cid : 0..MaxContainers]
PodWorker   == [op : {"idle", "create", "delete"}, key : 0..MaxPrimitives,
                write : BOOLEAN]

IdleSweepWorker == [op |-> "idle", primitive |-> NoPrimitive]
IdleProxyWorker == [op |-> "idle", key |-> 0, proxy |-> NoProxy, cid |-> 0]
IdlePodWorker   == [op |-> "idle", key |-> 0, write |-> FALSE]

AgentGone(g) == ~g.found \/ g.deleting

-----------------------------------------------------------------------------
(* What the reconcilers decide from the cached objects. *)

\* The PrimitiveReconciler claims a live primitive and sweeps a deleted one.
PrimitiveReconcile(m) ==
    IF m.uid # 0 /\ ~m.deleting /\ ~m.fin THEN "addFinalizer"
    ELSE IF m.uid # 0 /\ m.deleting /\ m.fin THEN "sweep"
    ELSE "idle"

\* Mutant: the proxy is used before it has been claimed by the finalizer.
UseUnclaimed(x, g, p, m) ==
    IF AgentGone(g) THEN "delete"
    ELSE IF x.cid # g.cid THEN "rebind"
    ELSE IF x.ready \/ ~g.ready THEN "idle"
    ELSE IF ~p \/ m.uid = 0 \/ m.deleting THEN "delete"
    ELSE "createProxy"

\* Mutant: the primitive's deletion timestamp is not looked at.
IgnoreDeletion(x, g, p, m) ==
    IF ~x.fin THEN "addFinalizer"
    ELSE IF AgentGone(g) THEN "delete"
    ELSE IF x.cid # g.cid THEN "rebind"
    ELSE IF x.ready \/ ~g.ready THEN "idle"
    ELSE IF ~p \/ m.uid = 0 THEN "delete"
    ELSE "createProxy"

\* Mutant: a ready proxy is left alone before its container is compared.
ReadyFirst(x, g, p, m) ==
    IF ~x.fin THEN "addFinalizer"
    ELSE IF AgentGone(g) THEN "delete"
    ELSE IF x.ready THEN "idle"
    ELSE IF x.cid # g.cid THEN "rebind"
    ELSE IF ~g.ready THEN "idle"
    ELSE IF ~p \/ m.uid = 0 \/ m.deleting THEN "delete"
    ELSE "createProxy"

\* What to do for a live proxy x, its agent g, its pod p and its primitive m.
\* The pod and the primitive are looked at only when the proxy is about to be
\* created: a ready proxy, or one whose agent is not ready, is left alone.
reconcileCreate(x, g, p, m) ==
    IF ~x.fin THEN "addFinalizer"
    ELSE IF AgentGone(g) THEN "delete"
    ELSE IF x.cid # g.cid THEN "rebind"
    ELSE IF x.ready \/ ~g.ready THEN "idle"
    ELSE IF ~p \/ m.uid = 0 \/ m.deleting THEN "delete"
    ELSE "createProxy"

\* What to do for a deleted proxy.
reconcileDelete(x, p, m) ==
    IF ~x.fin THEN "idle"
    ELSE IF ~p \/ m.uid = 0 THEN "removeFinalizer"
    ELSE "unregister"

ProxyReconcile(x, g, p, m) ==
    IF x.uid = 0 THEN "idle"
    ELSE IF x.deleting THEN reconcileDelete(x, p, m)
    ELSE reconcileCreate(x, g, p, m)

\* Mutant: readiness survives a change of container.
RebindKeepsReady(x, cid) == [x EXCEPT !.cid = cid]

Rebound(x, cid) == [x EXCEPT !.cid = cid, !.ready = FALSE]

\* The object that worker w's Update or Status().Update writes.
Written(w) ==
    CASE w.op = "addFinalizer"    -> [w.proxy EXCEPT !.fin = TRUE]
      [] w.op = "rebind"          -> Rebound(w.proxy, w.cid)
      [] w.op = "ready"           -> [w.proxy EXCEPT !.ready = TRUE]
      [] w.op = "removeFinalizer" -> Released(w.proxy, NoProxy)

-----------------------------------------------------------------------------
(* Initially the pod and its agent exist; no primitive does. *)

Init ==
    /\ primitive = NoPrimitive
    /\ proxies = [u \in PrimitiveUIDs |-> NoProxy]
    /\ agent = [NoAgent EXCEPT !.found = TRUE]
    /\ pod = TRUE
    /\ granted \in BOOLEAN
    /\ container = 0
    /\ process = FALSE
    /\ served = NotServed
    /\ registered = FALSE
    /\ primitiveCache = primitive
    /\ proxyCache = proxies
    /\ agentCache = agent
    /\ podCache = pod
    /\ primitiveQueue = FALSE
    /\ mw = IdleSweepWorker
    /\ proxyQueue = {}
    /\ xw = IdleProxyWorker
    /\ podQueue = TRUE
    /\ dw = IdlePodWorker
    /\ primitives = 0
    /\ made = 0
    /\ grants = 0
    /\ brokerRestarts = 0
    /\ faults = 0

-----------------------------------------------------------------------------
(* The environment: users, kubelet, and the agent as AgentController has it. *)

CreatePrimitive ==
    /\ primitive.uid = 0
    /\ primitives < MaxPrimitives
    /\ primitive' = [NoPrimitive EXCEPT !.uid = primitives + 1]
    /\ primitives' = primitives + 1
    /\ UNCHANGED <<proxies, agent, pod, granted, hostVars, cacheVars, sweepWork,
                   proxyWork, podWork, made, grants, brokerRestarts, faults>>

DeletePrimitive ==
    /\ primitive.uid # 0
    /\ ~primitive.deleting
    /\ primitive' = Deleted(primitive, NoPrimitive)
    /\ UNCHANGED <<proxies, agent, pod, granted, hostVars, cacheVars, sweepWork,
                   proxyWork, podWork, history>>

\* A role or a role binding changes.
ChangeGrant ==
    /\ grants < MaxGrants
    /\ grants' = grants + 1
    /\ granted' = ~granted
    /\ UNCHANGED <<primitive, proxies, agent, pod, hostVars, cacheVars,
                   sweepWork, proxyWork, podWork, primitives, made, brokerRestarts,
                   faults>>

StartContainer ==
    /\ pod
    /\ container < MaxContainers
    /\ container' = container + 1
    /\ process' = FALSE
    /\ served' = NotServed
    /\ UNCHANGED <<apiVars, registered, cacheVars, sweepWork, proxyWork, podWork,
                   history>>

\* A restarted broker has no registrations; nothing registers them again.
RestartBroker ==
    /\ pod
    /\ brokerRestarts < MaxBrokerRestarts
    /\ brokerRestarts' = brokerRestarts + 1
    /\ registered' = FALSE
    /\ UNCHANGED <<apiVars, container, process, served, cacheVars, sweepWork,
                   proxyWork, podWork, primitives, made, grants, faults>>

DeletePod ==
    /\ "pod" \in MayBeDeleted
    /\ pod
    /\ pod' = FALSE
    /\ process' = FALSE
    /\ served' = NotServed
    /\ registered' = FALSE
    /\ UNCHANGED <<primitive, proxies, agent, granted, container, cacheVars,
                   sweepWork, proxyWork, podWork, history>>

\* The garbage collector deletes the proxies a deleted pod owned.
GarbageCollect ==
    /\ ~pod
    /\ \E u \in PrimitiveUIDs :
          /\ proxies[u].uid # 0
          /\ ~proxies[u].deleting
          /\ proxies' = [proxies EXCEPT ![u] = Deleted(@, NoProxy)]
    /\ UNCHANGED <<primitive, agent, pod, granted, hostVars, cacheVars,
                   sweepWork, proxyWork, podWork, history>>

\* The AgentReconciler notices a new container, as soon or as late as the
\* pod's status shows it.
AgentRebinds ==
    /\ ~AgentGone(agent)
    /\ \E cid \in agent.cid + 1 .. container :
          agent' = [agent EXCEPT !.cid = cid, !.ready = FALSE]
    /\ UNCHANGED <<primitive, proxies, pod, granted, hostVars, cacheVars,
                   sweepWork, proxyWork, podWork, history>>

\* StartAgent.
AgentStarts ==
    /\ ~AgentGone(agent)
    /\ ~agent.ready
    /\ pod
    /\ container # 0
    /\ ~process
    /\ process' = TRUE
    /\ UNCHANGED <<apiVars, container, served, registered, cacheVars, sweepWork,
                   proxyWork, podWork, history>>

\* The status written after a StartAgent that was answered; by then a newer
\* container may be running.
AgentReady ==
    /\ ~AgentGone(agent)
    /\ ~agent.ready
    /\ process \/ (container > 1 /\ agent.cid < container)
    /\ agent' = [agent EXCEPT !.ready = TRUE]
    /\ UNCHANGED <<primitive, proxies, pod, granted, hostVars, cacheVars,
                   sweepWork, proxyWork, podWork, history>>

DeleteAgent ==
    /\ "agent" \in MayBeDeleted
    /\ ~AgentGone(agent)
    /\ agent' = [agent EXCEPT !.deleting = TRUE]
    /\ UNCHANGED <<primitive, proxies, pod, granted, hostVars, cacheVars,
                   sweepWork, proxyWork, podWork, history>>

\* StopAgent, and then, or without it when the store is gone, the end of the
\* agent object.
AgentStops ==
    /\ agent.deleting
    /\ process
    /\ process' = FALSE
    /\ served' = NotServed
    /\ UNCHANGED <<apiVars, container, registered, cacheVars, sweepWork,
                   proxyWork, podWork, history>>

RemoveAgent ==
    /\ agent.deleting
    /\ agent' = NoAgent
    /\ UNCHANGED <<primitive, proxies, pod, granted, hostVars, cacheVars,
                   sweepWork, proxyWork, podWork, history>>

-----------------------------------------------------------------------------
(* The PodReconciler: it creates the proxy of a cached primitive, with the *)
(* permissions it finds, and deletes a proxy whose agent is gone or whose  *)
(* permissions have changed.  It does not look at deletion timestamps.     *)

reconcilePrimitive(m, x, g, write) ==
    IF m.uid = 0 THEN "idle"
    ELSE IF x.uid = 0 THEN IF g.found THEN "create" ELSE "idle"
    ELSE IF ~g.found \/ x.write # write THEN "delete"
    ELSE "idle"

PodBegin ==
    /\ dw.op = "idle"
    /\ podQueue
    /\ podQueue' = FALSE
    /\ LET u  == primitiveCache.uid
           op == IF podCache /\ u # 0
                   THEN reconcilePrimitive(primitiveCache, proxyCache[u],
                                           agentCache, granted)
                   ELSE "idle"
       IN /\ op = "create" => made < MaxProxies
          /\ dw' = IF op = "idle" THEN IdlePodWorker
                   ELSE [op |-> op, key |-> u, write |-> op = "create" /\ granted]
    /\ UNCHANGED <<apiVars, hostVars, cacheVars, sweepWork, proxyWork, history>>

\* A proxy that exists already is left as it is.
PodCreatesProxy ==
    /\ dw.op = "create"
    /\ dw' = IdlePodWorker
    /\ IF proxies[dw.key].uid = 0
         THEN /\ proxies' = [proxies EXCEPT ![dw.key] =
                               [NoProxy EXCEPT !.uid = made + 1, !.write = dw.write]]
              /\ made' = made + 1
         ELSE UNCHANGED <<proxies, made>>
    /\ UNCHANGED <<primitive, agent, pod, granted, hostVars, cacheVars,
                   sweepWork, proxyWork, podQueue, primitives, grants,
                   brokerRestarts, faults>>

PodDeletesProxy ==
    /\ dw.op = "delete"
    /\ dw' = IdlePodWorker
    /\ proxies' = [proxies EXCEPT ![dw.key] = Deleted(@, NoProxy)]
    /\ UNCHANGED <<primitive, agent, pod, granted, hostVars, cacheVars,
                   sweepWork, proxyWork, podQueue, history>>

PodFault ==
    /\ dw.op # "idle"
    /\ faults < MaxFaults
    /\ faults' = faults + 1
    /\ dw' = IdlePodWorker
    /\ podQueue' = TRUE
    /\ UNCHANGED <<apiVars, hostVars, cacheVars, sweepWork, proxyWork,
                   primitives, made, grants, brokerRestarts>>

-----------------------------------------------------------------------------
(* The informers.  The PodReconciler watches all four kinds. *)

\* The requests of primitiveProxyMapper: the cached proxies labelled with u.
LabelledProxies(u) == {k \in PrimitiveUIDs : k = u /\ proxyCache[k].uid # 0}

SyncPrimitive ==
    /\ primitiveCache # primitive
    /\ primitiveCache' = primitive
    /\ podQueue' = TRUE
    /\ primitiveQueue' = TRUE
    /\ proxyQueue' = proxyQueue \cup LabelledProxies(primitiveCache.uid)
                                \cup LabelledProxies(primitive.uid)
    /\ UNCHANGED <<apiVars, hostVars, proxyCache, agentCache, podCache, mw, xw,
                   dw, history>>

SyncProxy(u) ==
    /\ proxyCache[u] # proxies[u]
    /\ proxyCache' = [proxyCache EXCEPT ![u] = proxies[u]]
    /\ podQueue' = TRUE
    /\ proxyQueue' = proxyQueue \cup {u}
    /\ UNCHANGED <<apiVars, hostVars, primitiveCache, agentCache, podCache,
                   sweepWork, xw, dw, history>>

\* Mutant: the ProxyReconciler does not watch agents.
SyncAgentUnwatched ==
    /\ agentCache # agent
    /\ agentCache' = agent
    /\ podQueue' = TRUE
    /\ UNCHANGED <<apiVars, hostVars, primitiveCache, proxyCache, podCache,
                   sweepWork, proxyWork, dw, history>>

\* Every proxy carries the agent's label, so agentProxyMapper finds them all.
SyncAgent ==
    /\ agentCache # agent
    /\ agentCache' = agent
    /\ podQueue' = TRUE
    /\ proxyQueue' = proxyQueue \cup {u \in PrimitiveUIDs : proxyCache[u].uid # 0}
    /\ UNCHANGED <<apiVars, hostVars, primitiveCache, proxyCache, podCache,
                   sweepWork, xw, dw, history>>

\* The ProxyReconciler does not watch pods.
SyncPod ==
    /\ podCache # pod
    /\ podCache' = pod
    /\ podQueue' = TRUE
    /\ UNCHANGED <<apiVars, hostVars, primitiveCache, proxyCache, agentCache,
                   sweepWork, proxyWork, dw, history>>

-----------------------------------------------------------------------------
(* The PrimitiveReconciler's worker *)

SweepBegin ==
    /\ mw.op = "idle"
    /\ primitiveQueue
    /\ primitiveQueue' = FALSE
    /\ LET op == PrimitiveReconcile(primitiveCache) IN
         mw' = IF op = "idle" THEN IdleSweepWorker
               ELSE [op |-> op, primitive |-> primitiveCache]
    /\ UNCHANGED <<apiVars, hostVars, cacheVars, proxyWork, podWork, history>>

\* DeleteAllOf deletes the proxies labelled with the primitive's UID.
Sweep ==
    /\ mw.op = "sweep"
    /\ proxies' = [u \in PrimitiveUIDs |-> IF u = mw.primitive.uid
                                             THEN Deleted(proxies[u], NoProxy)
                                             ELSE proxies[u]]
    /\ mw' = [mw EXCEPT !.op = "removeFinalizer"]
    /\ UNCHANGED <<primitive, agent, pod, granted, hostVars, cacheVars,
                   primitiveQueue, proxyWork, podWork, history>>

\* Mutant: the update carries no resource version.
SweepWriteUnchecked ==
    /\ mw.op \in {"addFinalizer", "removeFinalizer"}
    /\ primitive' = IF mw.op = "addFinalizer" THEN [mw.primitive EXCEPT !.fin = TRUE]
                    ELSE Released(mw.primitive, NoPrimitive)
    /\ mw' = IdleSweepWorker
    /\ UNCHANGED <<proxies, agent, pod, granted, hostVars, cacheVars,
                   primitiveQueue, proxyWork, podWork, history>>

SweepWrite ==
    /\ mw.op \in {"addFinalizer", "removeFinalizer"}
    /\ primitive = mw.primitive
    /\ primitive' = IF mw.op = "addFinalizer" THEN [primitive EXCEPT !.fin = TRUE]
                    ELSE Released(primitive, NoPrimitive)
    /\ mw' = IdleSweepWorker
    /\ UNCHANGED <<proxies, agent, pod, granted, hostVars, cacheVars,
                   primitiveQueue, proxyWork, podWork, history>>

SweepRetry ==
    /\ mw' = IdleSweepWorker
    /\ primitiveQueue' = TRUE
    /\ UNCHANGED <<apiVars, hostVars, cacheVars, proxyWork, podWork, primitives, made,
                   grants, brokerRestarts>>

SweepConflict ==
    /\ mw.op \in {"addFinalizer", "removeFinalizer"}
    /\ primitive # mw.primitive
    /\ SweepRetry
    /\ UNCHANGED faults

SweepFault ==
    /\ mw.op # "idle"
    /\ faults < MaxFaults
    /\ SweepRetry
    /\ faults' = faults + 1

-----------------------------------------------------------------------------
(* The ProxyReconciler's worker *)

ProxyBegin(k) ==
    /\ xw.op = "idle"
    /\ k \in proxyQueue
    /\ proxyQueue' = proxyQueue \ {k}
    /\ LET op == ProxyReconcile(proxyCache[k], agentCache, podCache, primitiveCache)
       IN xw' = IF op = "idle" THEN IdleProxyWorker
                ELSE [op |-> op, key |-> k, proxy |-> proxyCache[k],
                      cid |-> IF op = "rebind" THEN agentCache.cid ELSE 0]
    /\ UNCHANGED <<apiVars, hostVars, cacheVars, sweepWork, podWork, history>>

\* client.Delete names the object and asks for no particular incarnation.
ProxyDelete ==
    /\ xw.op = "delete"
    /\ proxies' = [proxies EXCEPT ![xw.key] = Deleted(@, NoProxy)]
    /\ xw' = IdleProxyWorker
    /\ UNCHANGED <<primitive, agent, pod, granted, hostVars, cacheVars,
                   sweepWork, proxyQueue, podWork, history>>

AgentReachable == pod /\ process

\* CreateProxy for a proxy that exists answers AlreadyExists, which the
\* reconciler takes for success; the existing proxy keeps its permissions.
CreateProxy ==
    /\ xw.op = "createProxy"
    /\ AgentReachable
    /\ served' = IF served.up THEN served
                 ELSE [up |-> TRUE, write |-> xw.proxy.write]
    /\ xw' = [xw EXCEPT !.op = "register"]
    /\ UNCHANGED <<apiVars, container, process, registered, cacheVars, sweepWork,
                   proxyQueue, podWork, history>>

RegisterPrimitive ==
    /\ xw.op = "register"
    /\ pod
    /\ registered' = TRUE
    /\ xw' = [xw EXCEPT !.op = "ready"]
    /\ UNCHANGED <<apiVars, container, process, served, cacheVars, sweepWork,
                   proxyQueue, podWork, history>>

\* Mutant: the proxy is not destroyed.
UnregisterOnly ==
    /\ xw.op = "unregister"
    /\ pod
    /\ registered' = FALSE
    /\ xw' = [xw EXCEPT !.op = "removeFinalizer"]
    /\ UNCHANGED <<apiVars, container, process, served, cacheVars, sweepWork,
                   proxyQueue, podWork, history>>

\* Mutant: the primitive is not unregistered.
DestroyOnly ==
    /\ xw.op = "unregister"
    /\ pod
    /\ xw' = [xw EXCEPT !.op = "destroyProxy"]
    /\ UNCHANGED <<apiVars, hostVars, cacheVars, sweepWork, proxyQueue, podWork,
                   history>>

\* The agent is looked up only after the broker has answered.
UnregisterPrimitive ==
    /\ xw.op = "unregister"
    /\ pod
    /\ registered' = FALSE
    /\ xw' = [xw EXCEPT !.op = IF AgentGone(agentCache) THEN "removeFinalizer"
                               ELSE "destroyProxy"]
    /\ UNCHANGED <<apiVars, container, process, served, cacheVars, sweepWork,
                   proxyQueue, podWork, history>>

DestroyProxy ==
    /\ xw.op = "destroyProxy"
    /\ AgentReachable
    /\ served' = NotServed
    /\ xw' = [xw EXCEPT !.op = "removeFinalizer"]
    /\ UNCHANGED <<apiVars, container, process, registered, cacheVars, sweepWork,
                   proxyQueue, podWork, history>>

ProxyWrite ==
    /\ xw.op \in WriteOps
    /\ proxies[xw.key] = xw.proxy
    /\ proxies' = [proxies EXCEPT ![xw.key] = Written(xw)]
    /\ xw' = IdleProxyWorker
    /\ UNCHANGED <<primitive, agent, pod, granted, hostVars, cacheVars,
                   sweepWork, proxyQueue, podWork, history>>

ProxyRetry ==
    /\ xw' = IdleProxyWorker
    /\ proxyQueue' = proxyQueue \cup {xw.key}
    /\ UNCHANGED <<apiVars, hostVars, cacheVars, sweepWork, podWork, primitives, made,
                   grants, brokerRestarts>>

ProxyUnreachable ==
    /\ \/ xw.op \in {"createProxy", "destroyProxy"} /\ ~AgentReachable
       \/ xw.op \in {"register", "unregister"} /\ ~pod
    /\ ProxyRetry
    /\ UNCHANGED faults

ProxyConflict ==
    /\ xw.op \in WriteOps
    /\ proxies[xw.key] # xw.proxy
    /\ ProxyRetry
    /\ UNCHANGED faults

\* A call or a write fails for another reason, or its answer is lost.
ProxyFault ==
    /\ xw.op # "idle"
    /\ faults < MaxFaults
    /\ ProxyRetry
    /\ faults' = faults + 1

\* The controller process dies and is restarted.
Crash ==
    /\ faults < MaxFaults
    /\ faults' = faults + 1
    /\ primitiveCache' = primitive
    /\ proxyCache' = proxies
    /\ agentCache' = agent
    /\ podCache' = pod
    /\ primitiveQueue' = (primitive.uid # 0)
    /\ mw' = IdleSweepWorker
    /\ proxyQueue' = {u \in PrimitiveUIDs : proxies[u].uid # 0}
    /\ xw' = IdleProxyWorker
    /\ podQueue' = pod
    /\ dw' = IdlePodWorker
    /\ UNCHANGED <<apiVars, hostVars, primitives, made, grants, brokerRestarts>>

-----------------------------------------------------------------------------
Environment ==
    \/ CreatePrimitive
    \/ DeletePrimitive
    \/ ChangeGrant
    \/ StartContainer
    \/ RestartBroker
    \/ DeletePod
    \/ AgentRebinds
    \/ AgentStarts
    \/ AgentReady
    \/ DeleteAgent
    \/ AgentStops
    \/ RemoveAgent

PodStep   == PodBegin \/ PodCreatesProxy \/ PodDeletesProxy
SweepStep == SweepBegin \/ Sweep \/ SweepWrite \/ SweepConflict
ProxyStep ==
    \/ \E k \in PrimitiveUIDs : ProxyBegin(k)
    \/ ProxyDelete
    \/ CreateProxy
    \/ RegisterPrimitive
    \/ UnregisterPrimitive
    \/ DestroyProxy
    \/ ProxyWrite
    \/ ProxyUnreachable
    \/ ProxyConflict
Faults == PodFault \/ SweepFault \/ ProxyFault \/ Crash

Next ==
    \/ Environment
    \/ GarbageCollect
    \/ PodStep
    \/ SyncPrimitive
    \/ \E u \in PrimitiveUIDs : SyncProxy(u)
    \/ SyncAgent
    \/ SyncPod
    \/ SweepStep
    \/ ProxyStep
    \/ Faults

Spec == Init /\ [][Next]_vars

\* Watches deliver, workers run, the garbage collector collects.  Nothing is
\* assumed of users, of kubelet or of the agent.
Fairness ==
    /\ WF_vars(GarbageCollect)
    /\ WF_vars(PodStep)
    /\ WF_vars(SyncPrimitive)
    /\ \A u \in PrimitiveUIDs : WF_vars(SyncProxy(u))
    /\ WF_vars(SyncAgent)
    /\ WF_vars(SyncPod)
    /\ WF_vars(SweepStep)
    /\ WF_vars(ProxyStep)

FairSpec == Spec /\ Fairness
-----------------------------------------------------------------------------
(* Properties *)

ProxyShape(x) ==
    /\ x \in ProxyObject
    /\ x.uid = 0 => x = NoProxy
    /\ x.deleting \/ x.ready \/ x.cid # 0 => x.fin

PrimitiveShape(m) ==
    /\ m \in PrimitiveObject
    /\ m.uid = 0 => m = NoPrimitive
    /\ m.deleting => m.fin

(* Type correctness, with the shape of the objects the reconcilers rely on: a
   proxy has a status, and can be marked deleted, only once it has been claimed
   by its finalizer (proxy.go:109-112). *)
TypeOK ==
    /\ PrimitiveShape(primitive)
    /\ PrimitiveShape(primitiveCache)
    /\ PrimitiveShape(mw.primitive)
    /\ proxies \in [PrimitiveUIDs -> ProxyObject]
    /\ proxyCache \in [PrimitiveUIDs -> ProxyObject]
    /\ \A u \in PrimitiveUIDs : ProxyShape(proxies[u]) /\ ProxyShape(proxyCache[u])
    /\ ProxyShape(xw.proxy)
    /\ agent \in AgentObject
    /\ agentCache \in AgentObject
    /\ pod \in BOOLEAN
    /\ podCache \in BOOLEAN
    /\ granted \in BOOLEAN
    /\ container \in 0..MaxContainers
    /\ process \in BOOLEAN
    /\ served \in ServedProxy
    /\ registered \in BOOLEAN
    /\ primitiveQueue \in BOOLEAN
    /\ mw \in SweepWorker
    /\ mw.op # "idle" => mw.primitive.uid # 0
    /\ proxyQueue \subseteq PrimitiveUIDs
    /\ xw \in ProxyWorker
    /\ xw.op # "idle" => xw.key # 0 /\ xw.proxy.uid # 0
    /\ podQueue \in BOOLEAN
    /\ dw \in PodWorker
    /\ dw.op # "idle" => dw.key # 0
    /\ dw.op = "create" => made < MaxProxies
    /\ primitives \in 0..MaxPrimitives
    /\ made \in 0..MaxProxies
    /\ grants \in 0..MaxGrants
    /\ brokerRestarts \in 0..MaxBrokerRestarts
    /\ faults \in 0..MaxFaults

\* Proxy u is live, says it is ready, and is bound to the running container
\* of a live agent.
Claims(u) ==
    /\ proxies[u].ready
    /\ ~proxies[u].deleting
    /\ proxies[u].cid = container
    /\ pod
    /\ ~AgentGone(agent)

(* A proxy that says it is ready in the running container is served by the
   agent process there, and is registered with the broker unless the broker has
   been restarted: readiness never survives a container restart, a lost answer
   or a controller crash (proxy.go:132-265).  The primitive's name must not
   have been reused: agent and broker know the primitive by that name. *)
ReadyProxyServed ==
    primitives <= 1 =>
        \A u \in PrimitiveUIDs : Claims(u) =>
            /\ served.up
            /\ brokerRestarts = 0 => registered

(* The agent serves the primitive with the permissions that the ready proxy
   states, never with those of a proxy deleted earlier: CreateProxy takes
   AlreadyExists for success (proxy.go:217), so a permission that was taken
   away is only lost because the old proxy was destroyed first. *)
ServedPermissions ==
    primitives <= 1 =>
        \A u \in PrimitiveUIDs :
            Claims(u) => served.write = proxies[u].write

(* The broker routes the primitive to the agent only while the agent serves
   it: it is registered after CreateProxy and unregistered before DestroyProxy
   (proxy.go:216-253, 311-363), whichever of the calls fail and however often
   the name is reused.  Until the container restarts or the agent is deleted. *)
RegisteredIsBacked ==
    /\ container <= 1
    /\ pod
    /\ ~AgentGone(agent)
    /\ registered
    => served.up

(* A claimed proxy is not removed while its primitive, its agent and its pod
   exist until it has been unregistered and destroyed (proxy.go:268-365). *)
DestroyedBeforeFinalized ==
    [][\A u \in PrimitiveUIDs :
          /\ proxies[u].fin
          /\ proxies'[u].uid # proxies[u].uid
          /\ primitive.uid = u
          /\ pod
          /\ ~AgentGone(agent)
          => ~served.up /\ ~registered]_vars

(* When a claimed primitive is finally removed, no live proxy of it says it is
   ready: the sweep has deleted them, and one that the PodReconciler created
   after the sweep is never made ready (primitive.go:83-105,
   proxy.go:177-189). *)
SweptForGood ==
    [][\A u \in PrimitiveUIDs :
          /\ primitive.uid = u
          /\ primitive.fin
          /\ primitive'.uid # u
          => ~proxies[u].ready \/ proxies[u].deleting]_vars

Lifecycle == INSTANCE PrimitiveLifecycle WITH
    visible <- primitive,
    incarnations <- primitives

(* The primitive that the sidecar controllers handle is the one that
   TypedPrimitives makes: claimed while it is live, deleted once, gone only when
   it is released, although the PrimitiveReconciler writes copies read earlier
   (primitive.go:63-110). *)
PrimitiveIsALifecycle == Lifecycle!Spec

AgentServes ==
    /\ primitive.uid # 0
    /\ ~primitive.deleting
    /\ pod
    /\ agent = [found |-> TRUE, deleting |-> FALSE, cid |-> container,
                ready |-> TRUE]
    /\ process

(* Once the primitive exists and its agent stays ready in the running
   container, the primitive's proxy is created, bound to that container, served
   and reported ready, and stays so. *)
ProxyConverges ==
    <>[]AgentServes => <>[](AgentServes /\ Claims(primitive.uid) /\ served.up)

(* With the pod or the agent gone for good, every proxy is eventually removed,
   one whose primitive is gone too included. *)
OrphanProxiesCollected ==
    <>[](~pod \/ ~agent.found) => <>[](\A u \in PrimitiveUIDs : proxies[u].uid = 0)
=============================================================================
