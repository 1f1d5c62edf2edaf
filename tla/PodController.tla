--------------------------- MODULE PodController ---------------------------
(***************************************************************************)
(* The PodReconciler (pkg/controller/sidecar/v2beta1/pod.go) for one pod:  *)
(* a pass walks the primitives in the order of their names, creates the    *)
(* agents and proxies that are missing, deletes proxies that no longer     *)
(* fit, and keeps the AtomixReady condition, which is a readiness gate of  *)
(* the pod.                                                                *)
(*                                                                         *)
(* All primitives use one store name, whose incarnation s has UID s; agent *)
(* s is the Agent "<pod>.<s>" and proxy p the Proxy "<pod>.<p>".  What the *)
(* pod is allowed depends on objects that are not watched: its profile,    *)
(* roles, bindings and plugins together are called the world.  Agents and  *)
(* proxies become ready and go away as AgentController and ProxyController *)
(* have it.                                                                *)
(***************************************************************************)
EXTENDS Integers, FiniteSetsExt, StoragePlugins, Permissions, Ports

CONSTANTS
    Primitives,     \* the UIDs of primitives, numbered in the order of names
    Description,    \* group, kind and name of each, for its permissions
    Pod,            \* namespace, account, profiled and injected of the pod
    Protocol,       \* the protocol of the store
    Worlds,         \* profile, roles, bindings and plugins, by name of a world
    FirstWorld,     \* the name of the world at first
    MaxStores,      \* incarnations of the store
    MaxEvents       \* the cost of all events: see Event

ASSUME PrimitivesAssumption == Primitives \subseteq Nat
ASSUME WorldsAssumption == FirstWorld \in DOMAIN Worlds
ASSUME BoundsAssumption == MaxStores \in Nat \ {0} /\ MaxEvents \in Nat

VARIABLES
    life,           \* each primitive: to come, live, deleting or gone
    store,          \* the UID of the store, 0 without one
    agents,         \* the Agent objects of the pod, by store UID
    proxies,        \* the Proxy objects of the pod, by primitive UID
    condition,      \* the AtomixReady condition of the pod
    world,          \* the objects that are not watched
    news,           \* kinds that have events under way
    primitiveCache, \* the informer cache of each kind
    storeCache,
    agentCache,
    proxyCache,
    podCache,
    podQueue,       \* is the pod in the work queue?
    worker,
    stores,         \* history: stores created, agents removed,
    removals,
    changed,        \* whether the world has changed, and the cost of all events
    events

apiVars   == <<life, store, agents, proxies, condition, world>>
cacheVars == <<primitiveCache, storeCache, agentCache, proxyCache, podCache>>
work      == <<podQueue, worker>>
history   == <<stores, removals, changed, events>>
vars == <<apiVars, news, cacheVars, work, history>>

StoreUIDs == 1..MaxStores
Kinds == {"primitives", "stores", "agents", "proxies"}

\* The primitives that can be listed; deletion timestamps are not looked at.
Listed == {p \in Primitives : life[p] \in {"live", "deleting"}}

NoAgent == [uid |-> 0, ready |-> FALSE, port |-> 0]
NoProxy == [found |-> FALSE, deleting |-> FALSE, store |-> 0, agent |-> 0,
            read |-> FALSE, write |-> FALSE, ready |-> FALSE]

\* The reason and message of the condition name what the pod waits for.
Unset             == [status |-> "Unset", waitsFor |-> "none", of |-> 0]
Ready             == [status |-> "True", waitsFor |-> "none", of |-> 0]
WaitingForAgent(s) == [status |-> "False", waitsFor |-> "agent", of |-> s]
WaitingForProxy(p) == [status |-> "False", waitsFor |-> "proxy", of |-> p]

\* The pod as a client has read it: its condition, and whether the pod has
\* not changed since.
PodCopy == [condition : {Unset, Ready} \cup {WaitingForAgent(s) : s \in StoreUIDs}
                            \cup {WaitingForProxy(p) : p \in Primitives},
            fresh : BOOLEAN]

Idle == [op |-> "idle", todo |-> {}, ready |-> FALSE,
         pod |-> [condition |-> Unset, fresh |-> FALSE],
         key |-> 0, port |-> 0, object |-> NoProxy, target |-> Unset]

-----------------------------------------------------------------------------
(* What a pass decides for a primitive from what it reads. *)

ProfileFound == Pod.profiled => Worlds[world].profile.found
isSelected(p) == Pod.profiled => p \in Worlds[world].profile.selects

PermissionsIn ==
    [w \in DOMAIN Worlds |-> [p \in Primitives |->
        getPermissions(Worlds[w].cluster, Pod, Description[p])]]
SupportedIn ==
    [w \in DOMAIN Worlds |->
        isProtocolSupported(Worlds[w].plugins, Pod.injected, Protocol)]

PermissionsOf(p) == PermissionsIn[world][p]

baseProtocolPort == 55680

getPort == NextPorts(baseProtocolPort,
                     {agentCache[s].port : s \in {t \in StoreUIDs : agentCache[t].uid # 0}})

\* A proxy is missing: is it wanted, and what has to come first?
ForMissingProxy(p, ready) ==
    LET perms == PermissionsOf(p) IN
    IF ~perms.read /\ ~perms.write THEN "skip"
    ELSE IF storeCache = 0 THEN "skip"
    ELSE IF ~SupportedIn[world] THEN "skip"
    ELSE IF agentCache[storeCache].uid = 0 THEN "createAgent"
    ELSE IF ready /\ ~agentCache[storeCache].ready THEN "waitForAgent"
    ELSE "createProxy"

\* Mutant: the UID of the proxy's agent is not compared.
KeepForeignProxy(p, ready) ==
    LET x == proxyCache[p]
        perms == PermissionsOf(p)
    IN IF ready /\ ~x.ready THEN "waitForProxy"
       ELSE IF agentCache[x.store].uid = 0 THEN "deleteProxy"
       ELSE IF x.read # perms.read \/ x.write # perms.write THEN "deleteProxy"
       ELSE "skip"

\* Mutant: the permissions of the proxy are not compared.
KeepPermissions(p, ready) ==
    LET x == proxyCache[p] IN
    IF ready /\ ~x.ready THEN "waitForProxy"
    ELSE IF agentCache[x.store].uid # x.agent THEN "deleteProxy"
    ELSE "skip"

\* A proxy is there: is it ready, and does it fit the agent of the name it
\* refers to, and the permissions?  Its deletion timestamp is not looked at.
ForProxy(p, ready) ==
    LET x == proxyCache[p]
        perms == PermissionsOf(p)
    IN IF ready /\ ~x.ready THEN "waitForProxy"
       ELSE IF agentCache[x.store].uid # x.agent THEN "deleteProxy"
       ELSE IF x.read # perms.read \/ x.write # perms.write THEN "deleteProxy"
       ELSE "skip"

\* A pod that names a profile that does not exist fails every pass.
reconcilePrimitive(p, ready) ==
    IF ~ProfileFound THEN "error"
    ELSE IF ~isSelected(p) THEN "skip"
    ELSE IF PermissionsOf(p).error THEN "error"
    ELSE IF ~proxyCache[p].found THEN ForMissingProxy(p, ready)
    ELSE ForProxy(p, ready)

Waiting(decision, p) ==
    IF decision = "waitForAgent" THEN WaitingForAgent(storeCache)
    ELSE WaitingForProxy(p)

\* Mutant: the proxy does not refer to its agent.
NewProxyUnbound(p) ==
    [NoProxy EXCEPT !.found = TRUE, !.read = PermissionsOf(p).read,
                    !.write = PermissionsOf(p).write]

NewProxy(p) ==
    [NoProxy EXCEPT !.found = TRUE, !.store = storeCache,
                    !.agent = agentCache[storeCache].uid,
                    !.read = PermissionsOf(p).read,
                    !.write = PermissionsOf(p).write]

-----------------------------------------------------------------------------
(* Initially there is a store, and no primitive uses it. *)

Init ==
    /\ life = [p \in Primitives |-> "toCome"]
    /\ store = 1
    /\ agents = [s \in StoreUIDs |-> NoAgent]
    /\ proxies = [p \in Primitives |-> NoProxy]
    /\ condition = Unset
    /\ world = FirstWorld
    /\ news = {}
    /\ primitiveCache = {}
    /\ storeCache = store
    /\ agentCache = agents
    /\ proxyCache = proxies
    /\ podCache = [condition |-> Unset, fresh |-> TRUE]
    /\ podQueue = TRUE
    /\ worker = Idle
    /\ stores = 1
    /\ removals = 0
    /\ changed = FALSE
    /\ events = 0

-----------------------------------------------------------------------------
(* Users, kubelet, and the other reconcilers *)

\* A primitive or a store that is created, a deleted store, a restart, a change
\* of the world and a fault cost one; the deletion of a primitive or an agent, after
\* which much is done again, costs two.
Event(cost) == events + cost <= MaxEvents /\ events' = events + cost

CreatePrimitive(p) ==
    /\ life[p] = "toCome"
    /\ Event(1)
    /\ life' = [life EXCEPT ![p] = "live"]
    /\ news' = news \cup {"primitives"}
    /\ UNCHANGED <<store, agents, proxies, condition, world, cacheVars, work, stores,
                   removals, changed>>

DeletePrimitive(p) ==
    /\ life[p] = "live"
    /\ Event(2)
    /\ life' = [life EXCEPT ![p] = "deleting"]
    /\ news' = news \cup {"primitives"}
    /\ UNCHANGED <<store, agents, proxies, condition, world, cacheVars, work, stores,
                   removals, changed>>

\* Once its proxies have been deleted.
ReleasePrimitive(p) ==
    /\ life[p] = "deleting"
    /\ ~proxies[p].found
    /\ life' = [life EXCEPT ![p] = "gone"]
    /\ news' = news \cup {"primitives"}
    /\ UNCHANGED <<store, agents, proxies, condition, world, cacheVars, work, history>>

CreateStore ==
    /\ store = 0
    /\ stores < MaxStores
    /\ Event(1)
    /\ stores' = stores + 1
    /\ store' = stores + 1
    /\ news' = news \cup {"stores"}
    /\ UNCHANGED <<life, agents, proxies, condition, world, cacheVars, work, removals,
                   changed>>

DeleteStore ==
    /\ store # 0
    /\ Event(1)
    /\ store' = 0
    /\ news' = news \cup {"stores"}
    /\ UNCHANGED <<life, agents, proxies, condition, world, cacheVars, work, stores,
                   removals, changed>>

ChangeWorld ==
    /\ Event(1)
    /\ changed' = TRUE
    /\ world' \in DOMAIN Worlds \ {world}
    /\ UNCHANGED <<news, life, store, agents, proxies, condition, cacheVars, work, stores,
                   removals>>

SetAgent(s, g) ==
    /\ agents[s].uid # 0
    /\ agents' = [agents EXCEPT ![s] = g]
    /\ news' = news \cup {"agents"}
    /\ UNCHANGED <<life, store, proxies, condition, world, cacheVars, work, stores, changed>>

AgentReady(s) ==
    /\ ~agents[s].ready
    /\ SetAgent(s, [agents[s] EXCEPT !.ready = TRUE])
    /\ UNCHANGED <<removals, events>>

\* The driver container restarts, or the store has a new revision.
AgentUnready(s) ==
    /\ agents[s].ready
    /\ Event(1)
    /\ SetAgent(s, [agents[s] EXCEPT !.ready = FALSE])
    /\ UNCHANGED removals

RemoveAgent(s) ==
    /\ Event(2)
    /\ removals' = removals + 1
    /\ SetAgent(s, NoAgent)

SetProxy(p, x) ==
    /\ proxies[p].found
    /\ proxies' = [proxies EXCEPT ![p] = x]
    /\ news' = news \cup {"proxies"}
    /\ UNCHANGED <<life, store, agents, condition, world, cacheVars, work, stores,
                   removals, changed>>

ProxyReady(p) ==
    /\ ~proxies[p].ready
    /\ ~proxies[p].deleting
    /\ SetProxy(p, [proxies[p] EXCEPT !.ready = TRUE])
    /\ UNCHANGED events

ProxyUnready(p) ==
    /\ proxies[p].ready
    /\ Event(1)
    /\ SetProxy(p, [proxies[p] EXCEPT !.ready = FALSE])

\* The ProxyReconciler deletes a proxy whose agent is gone, and the
\* PrimitiveReconciler the proxies of a deleted primitive.
DeleteProxy(p) ==
    /\ ~proxies[p].deleting
    /\ proxies[p].found
    /\ agents[proxies[p].store].uid = 0 \/ life[p] \in {"deleting", "gone"}
    /\ SetProxy(p, [proxies[p] EXCEPT !.deleting = TRUE])
    /\ UNCHANGED events

ReleaseProxy(p) ==
    /\ proxies[p].deleting
    /\ SetProxy(p, NoProxy)
    /\ UNCHANGED events

\* The kubelet writes the status of the pod.
TouchPod ==
    /\ Event(1)
    /\ podCache' = [podCache EXCEPT !.fresh = FALSE]
    /\ worker' = [worker EXCEPT !.pod.fresh = FALSE]
    /\ UNCHANGED <<news, apiVars, primitiveCache, storeCache, agentCache, proxyCache,
                   podQueue, stores, removals, changed>>

-----------------------------------------------------------------------------
(* The watches: pods, and agents and proxies by their owner, enqueue the pod;
   the mappers of stores and primitives enqueue all pods. *)

SyncPrimitives ==
    /\ "primitives" \in news
    /\ news' = news \ {"primitives"}
    /\ primitiveCache' = Listed
    /\ podQueue' = TRUE
    /\ UNCHANGED <<apiVars, storeCache, agentCache, proxyCache, podCache, worker, history>>

SyncStore ==
    /\ "stores" \in news
    /\ news' = news \ {"stores"}
    /\ storeCache' = store
    /\ podQueue' = TRUE
    /\ UNCHANGED <<apiVars, primitiveCache, agentCache, proxyCache, podCache, worker,
                   history>>

SyncAgents ==
    /\ "agents" \in news
    /\ news' = news \ {"agents"}
    /\ agentCache' = agents
    /\ podQueue' = TRUE
    /\ UNCHANGED <<apiVars, primitiveCache, storeCache, proxyCache, podCache, worker,
                   history>>

\* Mutant: proxies are not watched.
SyncProxiesUnwatched ==
    /\ "proxies" \in news
    /\ news' = news \ {"proxies"}
    /\ proxyCache' = proxies
    /\ UNCHANGED <<apiVars, primitiveCache, storeCache, agentCache, podCache, work, history>>

SyncProxies ==
    /\ "proxies" \in news
    /\ news' = news \ {"proxies"}
    /\ proxyCache' = proxies
    /\ podQueue' = TRUE
    /\ UNCHANGED <<apiVars, primitiveCache, storeCache, agentCache, podCache, worker,
                   history>>

SyncPod ==
    /\ ~podCache.fresh
    /\ podCache' = [condition |-> condition, fresh |-> TRUE]
    /\ podQueue' = TRUE
    /\ UNCHANGED <<news, apiVars, primitiveCache, storeCache, agentCache, proxyCache, worker,
                   history>>

\* Every ten hours the informers deliver all objects again; by then nothing
\* else is under way.
Resync ==
    /\ news = {}
    /\ podCache.fresh
    /\ worker.op = "idle"
    /\ ~podQueue
    /\ podQueue' = TRUE
    /\ UNCHANGED <<news, apiVars, cacheVars, worker, history>>

-----------------------------------------------------------------------------
(* The worker *)

Reconcile ==
    /\ worker.op = "idle"
    /\ podQueue
    /\ podQueue' = FALSE
    /\ worker' = [Idle EXCEPT !.op = "next", !.todo = primitiveCache, !.ready = TRUE,
                              !.pod = podCache]
    /\ UNCHANGED <<news, apiVars, cacheVars, history>>

Retry == worker' = Idle /\ podQueue' = TRUE

\* The next primitive by name: what is decided for it, a condition that is
\* already what it should be left alone, is skipped, failed, or called next.
NextPrimitive ==
    /\ worker.op = "next"
    /\ worker.todo # {}
    /\ LET p == Min(worker.todo)
           asked == reconcilePrimitive(p, worker.ready)
           waits == asked \in {"waitForAgent", "waitForProxy"}
           told  == waits /\ worker.pod.condition = Waiting(asked, p)
           step  == IF told THEN reconcilePrimitive(p, FALSE) ELSE asked
           w     == [worker EXCEPT !.todo = @ \ {p}, !.ready = @ /\ ~told, !.key = p]
       IN CASE step = "error" -> Retry
            [] step = "skip" -> worker' = [w EXCEPT !.key = 0] /\ UNCHANGED podQueue
            [] step = "createAgent" ->
                  /\ \E port \in getPort :
                        worker' = [w EXCEPT !.op = "createAgent", !.key = storeCache,
                                            !.port = port]
                  /\ UNCHANGED podQueue
            [] step = "createProxy" ->
                  /\ worker' = [w EXCEPT !.op = "createProxy", !.object = NewProxy(p)]
                  /\ UNCHANGED podQueue
            [] step = "deleteProxy" ->
                  /\ worker' = [w EXCEPT !.op = "deleteProxy", !.object = proxyCache[p]]
                  /\ UNCHANGED podQueue
            [] OTHER ->
                  /\ worker' = [w EXCEPT !.op = "setCondition", !.key = 0,
                                         !.target = Waiting(step, p)]
                  /\ UNCHANGED podQueue
    /\ UNCHANGED <<news, apiVars, cacheVars, history>>

\* The pass has seen all primitives.
LastPrimitive ==
    /\ worker.op = "next"
    /\ worker.todo = {}
    /\ IF worker.ready /\ worker.pod.condition # Ready
         THEN worker' = [worker EXCEPT !.op = "setCondition", !.target = Ready]
         ELSE worker' = Idle
    /\ UNCHANGED <<news, apiVars, cacheVars, podQueue, history>>

GoOn == worker' = [worker EXCEPT !.op = "next", !.key = 0, !.port = 0,
                                 !.object = NoProxy]

\* An agent or a proxy that exists already does not end the pass, and leaves
\* ready as it was.
CreateAgent ==
    /\ worker.op = "createAgent"
    /\ LET s == worker.key IN
       IF agents[s].uid # 0 THEN GoOn /\ UNCHANGED <<agents, news>>
       ELSE /\ worker' = Idle
            /\ news' = news \cup {"agents"}
            /\ agents' = [agents EXCEPT ![s] = [uid |-> removals + 1, ready |-> FALSE,
                                                port |-> worker.port]]
    /\ UNCHANGED <<life, store, proxies, condition, world, cacheVars, podQueue, history>>

CreateProxy ==
    /\ worker.op = "createProxy"
    /\ LET p == worker.key IN
       IF proxies[p].found THEN GoOn /\ UNCHANGED <<proxies, news>>
       ELSE /\ worker' = Idle
            /\ news' = news \cup {"proxies"}
            /\ proxies' = [proxies EXCEPT ![p] = worker.object]
    /\ UNCHANGED <<life, store, agents, condition, world, cacheVars, podQueue, history>>

\* A proxy that the ProxyReconciler has not claimed yet goes away at once.
RemoveProxy ==
    /\ worker.op = "deleteProxy"
    /\ LET p == worker.key IN
       IF ~proxies[p].found THEN GoOn /\ UNCHANGED <<proxies, news>>
       ELSE /\ worker' = Idle
            /\ news' = IF proxies[p].deleting THEN news ELSE news \cup {"proxies"}
            /\ \/ proxies' = [proxies EXCEPT ![p].deleting = TRUE]
               \/ /\ ~proxies[p].ready
                  /\ ~proxies[p].deleting
                  /\ proxies' = [proxies EXCEPT ![p] = NoProxy]
    /\ UNCHANGED <<life, store, agents, condition, world, cacheVars, podQueue, history>>

\* The update fails when the pod has changed since it was read.
setAtomixCondition ==
    /\ worker.op = "setCondition"
    /\ IF worker.pod.fresh
         THEN /\ condition' = worker.target
              /\ podCache' = [podCache EXCEPT !.fresh = FALSE]
              /\ worker' = Idle
              /\ UNCHANGED podQueue
         ELSE Retry /\ UNCHANGED <<condition, podCache>>
    /\ UNCHANGED <<news, life, store, agents, proxies, world, primitiveCache, storeCache,
                   agentCache, proxyCache, history>>

\* A call fails.
Fault ==
    /\ worker.op # "idle"
    /\ Event(1)
    /\ Retry
    /\ UNCHANGED <<news, apiVars, cacheVars, stores, removals, changed>>

\* The controller process dies and is restarted.
Crash ==
    /\ Event(1)
    /\ Retry
    /\ news' = {}
    /\ primitiveCache' = Listed
    /\ storeCache' = store
    /\ agentCache' = agents
    /\ proxyCache' = proxies
    /\ podCache' = [condition |-> condition, fresh |-> TRUE]
    /\ UNCHANGED <<apiVars, stores, removals, changed>>

-----------------------------------------------------------------------------
PodStep ==
    \/ Reconcile
    \/ NextPrimitive
    \/ LastPrimitive
    \/ CreateAgent
    \/ CreateProxy
    \/ RemoveProxy
    \/ setAtomixCondition

Next ==
    \/ \E p \in Primitives : CreatePrimitive(p) \/ DeletePrimitive(p) \/ ReleasePrimitive(p)
    \/ CreateStore
    \/ DeleteStore
    \/ ChangeWorld
    \/ \E s \in StoreUIDs : AgentReady(s) \/ AgentUnready(s) \/ RemoveAgent(s)
    \/ \E p \in Primitives :
          ProxyReady(p) \/ ProxyUnready(p) \/ DeleteProxy(p) \/ ReleaseProxy(p)
    \/ TouchPod
    \/ SyncPrimitives
    \/ SyncStore
    \/ SyncAgents
    \/ SyncProxies
    \/ SyncPod
    \/ Resync
    \/ PodStep
    \/ Fault
    \/ Crash

Spec == Init /\ [][Next]_vars

\* Watches deliver, the worker runs, and a deleted proxy is released.  Nothing
\* is assumed of users, of agents and proxies becoming ready, or of the resync.
Fairness ==
    /\ WF_vars(SyncPrimitives)
    /\ WF_vars(SyncStore)
    /\ WF_vars(SyncAgents)
    /\ WF_vars(SyncProxies)
    /\ WF_vars(SyncPod)
    /\ WF_vars(PodStep)
    /\ \A p \in Primitives : WF_vars(ReleaseProxy(p))

FairSpec == Spec /\ Fairness

-----------------------------------------------------------------------------
(* Properties *)

ProxyShape(x) ==
    /\ x \in [found : BOOLEAN, deleting : BOOLEAN, store : 0..stores,
              agent : 0..removals + 1, read : BOOLEAN, write : BOOLEAN,
              ready : BOOLEAN]
    /\ x.found => x.store # 0 /\ x.agent # 0 /\ (x.read \/ x.write)
    /\ ~x.found => x = NoProxy

(* Type correctness, with what the other reconcilers rely on: every proxy refers
   to an agent that has existed and gives a permission (pod.go:187-352). *)
TypeOK ==
    /\ life \in [Primitives -> {"toCome", "live", "deleting", "gone"}]
    /\ {store, storeCache} \subseteq 0..stores
    /\ {agents, agentCache} \subseteq
          [StoreUIDs -> [uid : 0..removals + 1, ready : BOOLEAN, port : Nat]]
    /\ \A p \in Primitives : ProxyShape(proxies[p]) /\ ProxyShape(proxyCache[p])
    /\ world \in DOMAIN Worlds
    /\ primitiveCache \subseteq Primitives
    /\ [condition |-> condition, fresh |-> TRUE] \in PodCopy
    /\ {podCache, worker.pod} \subseteq PodCopy
    /\ news \subseteq Kinds
    /\ podQueue \in BOOLEAN
    /\ worker.op \in {"idle", "next", "createAgent", "createProxy", "deleteProxy",
                      "setCondition"}
    /\ worker.todo \subseteq Primitives
    /\ worker.ready \in BOOLEAN
    /\ ProxyShape(worker.object)
    /\ stores \in StoreUIDs
    /\ removals \in 0..MaxEvents
    /\ changed \in BOOLEAN
    /\ events \in 0..MaxEvents

\* No pass fails, as the profile is there and every role that is bound, and no
\* primitive is being deleted.
Settled ==
    /\ ProfileFound
    /\ \A p \in Primitives : life[p] # "deleting"
    /\ \A p \in Listed : isSelected(p) => ~PermissionsOf(p).error

(* When everything the pod has is ready and stays so, the AtomixReady condition
   becomes true, whatever else was created, deleted or restarted before, and
   with conflicting writes of the pod's status (pod.go:129-160, 413-449). *)
PodBecomesReady ==
    <>[](/\ Settled
         /\ \A s \in StoreUIDs : agents[s].uid # 0 => agents[s].ready
         /\ \A p \in Primitives : proxies[p].found => proxies[p].ready
                                                   /\ ~proxies[p].deleting)
    => <>[](condition = Ready)

(* A pod one of whose proxies is not ready, and does not become ready, is told
   so by its condition, also when the pod had been ready before
   (pod.go:288-295, 355-362). *)
PodReportsWaiting ==
    <>[](/\ Settled
         /\ ~changed
         /\ \E p \in Listed : isSelected(p) /\ proxies[p].found /\ ~proxies[p].ready)
    => <>[](condition.status = "False")

\* The world lets the pod use the primitive.
Allowed(p) ==
    /\ ProfileFound
    /\ isSelected(p)
    /\ PermissionsOf(p).read \/ PermissionsOf(p).write
    /\ SupportedIn[world]

Fits(x) == x.found /\ ~x.deleting /\ agents[x.store].uid = x.agent

(* In a world that does not change, a primitive that the pod may use gets a proxy
   with the agent of today and keeps it.  On the way agents are replaced, which
   the ProxyReconciler does not see when it looks for an agent of the name; and
   as Delete names a proxy and carries no UID, a pass that read an old proxy may
   delete its successor, but not forever (pod.go:187-391). *)
PrimitiveIsServed ==
    <>[](Settled /\ ~changed /\ store # 0)
    => <>[](\A p \in Listed : Allowed(p) => Fits(proxies[p]))

(* Permissions that are changed take effect: roles and bindings are not watched,
   so that takes the next resync of the informers (pod.go:399-409). *)
PermissionsEnforced ==
    WF_vars(Resync) =>
        (<>[](Settled /\ \A p \in Listed : isSelected(p))
         => <>[](\A p \in Listed : proxies[p].found /\ ~proxies[p].deleting =>
                    /\ proxies[p].read = PermissionsOf(p).read
                    /\ proxies[p].write = PermissionsOf(p).write))
=============================================================================
