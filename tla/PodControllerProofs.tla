------------------------- MODULE PodControllerProofs -------------------------
(***************************************************************************)
(* Every proxy that the PodReconciler knows, has in mind or has made       *)
(* refers to an agent that has existed and gives a permission, and the     *)
(* condition names something there is, whatever happens to the agents and  *)
(* proxies on the way, for all primitives, worlds and bounds.              *)
(*                                                                         *)
(* The inductive invariant is in parts, each about few variables: what an  *)
(* action does not touch is kept by KeptParts.                             *)
(***************************************************************************)
EXTENDS PodController, PortsProofs

Conditions == {Unset, Ready} \cup {WaitingForAgent(s) : s \in StoreUIDs}
                             \cup {WaitingForProxy(p) : p \in Primitives}
ProxyObjects == [found : BOOLEAN, deleting : BOOLEAN, store : Nat, agent : Nat,
                 read : BOOLEAN, write : BOOLEAN, ready : BOOLEAN]
AgentObjects(m) == [uid : 0..m+1, ready : BOOLEAN, port : Nat]
Ops == {"idle", "next", "createAgent", "createProxy", "deleteProxy", "setCondition"}
Decisions == {"error", "skip", "createAgent", "waitForAgent", "createProxy",
              "waitForProxy", "deleteProxy"}
Workers == [op : Ops, todo : SUBSET Primitives, ready : BOOLEAN, pod : PodCopy,
            key : Nat, port : Nat, object : ProxyObjects, target : Conditions]

\* A proxy when n stores have been made and m agents removed.
Shape(x, n, m) ==
    /\ x \in ProxyObjects
    /\ x.store \in 0..n
    /\ x.agent \in 0..m+1
    /\ x.found => x.store # 0 /\ x.agent # 0 /\ (x.read \/ x.write)
    /\ ~x.found => x = NoProxy

LifeOK == life \in [Primitives -> {"toCome", "live", "deleting", "gone"}]
StoresOK == stores \in StoreUIDs /\ store \in 0..stores /\ storeCache \in 0..stores
AgentsOK ==
    /\ agents \in [StoreUIDs -> AgentObjects(removals)]
    /\ agentCache \in [StoreUIDs -> AgentObjects(removals)]
ProxiesOK ==
    /\ proxies \in [Primitives -> ProxyObjects]
    /\ proxyCache \in [Primitives -> ProxyObjects]
    /\ \A p \in Primitives : /\ Shape(proxies[p], stores, removals)
                             /\ Shape(proxyCache[p], stores, removals)
PodOK == condition \in Conditions /\ podCache \in PodCopy
WorkerOK == worker \in Workers /\ Shape(worker.object, stores, removals)
QueueOK ==
    /\ primitiveCache \subseteq Primitives
    /\ news \subseteq Kinds
    /\ podQueue \in BOOLEAN
WorldOK == world \in DOMAIN Worlds /\ changed \in BOOLEAN

\* The removal of an agent costs two, so there are never too many.
CountersOK ==
    /\ removals \in Nat
    /\ events \in 0..MaxEvents
    /\ removals + removals <= events

TypeInv ==
    /\ LifeOK
    /\ StoresOK
    /\ AgentsOK
    /\ ProxiesOK
    /\ PodOK
    /\ WorkerOK
    /\ QueueOK
    /\ WorldOK
    /\ CountersOK

-----------------------------------------------------------------------------
(* Objects                                                                 *)

LEMMA Bounds ==
    /\ MaxStores \in Nat /\ MaxStores > 0 /\ MaxEvents \in Nat
    /\ Primitives \subseteq Nat
    /\ StoreUIDs \subseteq Nat /\ 0 \notin StoreUIDs /\ 1 \in StoreUIDs
  BY BoundsAssumption, PrimitivesAssumption DEF StoreUIDs

LEMMA NoProxyShape ==
    ASSUME NEW n \in Nat, NEW m \in Nat
    PROVE  Shape(NoProxy, n, m)
<1>1. NoProxy \in ProxyObjects
  BY DEF NoProxy, ProxyObjects
<1>2. ~NoProxy.found /\ NoProxy.store = 0 /\ NoProxy.agent = 0
  BY DEF NoProxy
<1> QED BY <1>1, <1>2 DEF Shape

LEMMA ShapeGrows ==
    ASSUME NEW x, NEW n \in Nat, NEW m \in Nat, Shape(x, n, m),
           NEW k \in Nat, NEW l \in Nat, n <= k, m <= l
    PROVE  Shape(x, k, l)
<1>1. x \in ProxyObjects /\ x.store \in Nat /\ x.agent \in Nat
  BY DEF Shape, ProxyObjects
<1>2. x.store \in 0..k /\ x.agent \in 0..l+1
  BY <1>1 DEF Shape
<1> QED BY <1>1, <1>2 DEF Shape

\* What SetProxy is given: a proxy that is marked ready, unready or deleting.
LEMMA ShapeMarked ==
    ASSUME NEW o, NEW n \in Nat, NEW m \in Nat, Shape(o, n, m), o.found,
           NEW x, \/ x = [o EXCEPT !.ready = TRUE]
                  \/ x = [o EXCEPT !.ready = FALSE]
                  \/ x = [o EXCEPT !.deleting = TRUE]
    PROVE  Shape(x, n, m)
<1>1. o \in ProxyObjects
  BY DEF Shape
<1>2. /\ x \in ProxyObjects
      /\ x.found = o.found /\ x.store = o.store /\ x.agent = o.agent
      /\ x.read = o.read /\ x.write = o.write
  BY <1>1 DEF ProxyObjects
<1> QED BY <1>2 DEF Shape

LEMMA AgentsGrow ==
    ASSUME NEW m \in Nat, NEW l \in Nat, m <= l, NEW a \in [StoreUIDs -> AgentObjects(m)]
    PROVE  a \in [StoreUIDs -> AgentObjects(l)]
<1>1. 0..m+1 \subseteq 0..l+1
  OBVIOUS
<1>2. AgentObjects(m) \subseteq AgentObjects(l)
  BY <1>1 DEF AgentObjects
<1> QED BY <1>2

LEMMA IdleWorker == Idle \in Workers /\ Idle.object = NoProxy
<1>1. Unset \in Conditions /\ [condition |-> Unset, fresh |-> FALSE] \in PodCopy
  BY DEF Conditions, PodCopy
<1>2. NoProxy \in ProxyObjects
  BY DEF NoProxy, ProxyObjects
<1> QED BY <1>1, <1>2 DEF Idle, Workers, Ops

LEMMA WorkerFields ==
    ASSUME worker \in Workers
    PROVE  /\ worker.op \in Ops /\ worker.todo \subseteq Primitives
           /\ worker.ready \in BOOLEAN /\ worker.pod \in PodCopy
           /\ worker.key \in Nat /\ worker.port \in Nat
           /\ worker.object \in ProxyObjects /\ worker.target \in Conditions
  BY DEF Workers

LEMMA PodIsCopied ==
    ASSUME NEW c \in Conditions
    PROVE  [condition |-> c, fresh |-> TRUE] \in PodCopy
  BY DEF Conditions, PodCopy

LEMMA LeastPrimitive ==
    ASSUME NEW todo \in SUBSET Primitives, todo # {}
    PROVE  Min(todo) \in todo
<1>1. todo \subseteq Nat
  BY Bounds
<1>2. PICK x \in todo : \A y \in todo : ~(<<y, x>> \in OpToRel(<, Nat))
  BY <1>1, WFMin, NatLessThanWellFounded
<1>3. \A y \in todo : ~(y < x)
  BY <1>1, <1>2 DEF OpToRel
<1>4. \A y \in todo : x <= y
  BY <1>1, <1>3
<1> QED BY <1>4 DEF Min

-----------------------------------------------------------------------------
(* What the PodReconciler decides                                          *)

LEMMA FlagsOfARecord ==
    ASSUME NEW e, NEW r \in BOOLEAN, NEW w \in BOOLEAN
    PROVE  /\ [error |-> e, read |-> r, write |-> w].read \in BOOLEAN
           /\ [error |-> e, read |-> r, write |-> w].write \in BOOLEAN
  OBVIOUS

LEMMA PermissionsAreFlags ==
    ASSUME WorldOK, NEW p \in Primitives
    PROVE  PermissionsOf(p).read \in BOOLEAN /\ PermissionsOf(p).write \in BOOLEAN
<1> DEFINE cluster == Worlds[world].cluster
           m == Description[p]
           perms == getPermissions(cluster, Pod, m)
<1>1. PermissionsOf(p) = perms
  BY DEF PermissionsOf, PermissionsIn, WorldOK
<1> DEFINE n == getNamespaceScopedPermissions(cluster, Pod, m)
           c == getClusterScopedPermissions(cluster, Pod, m)
           reads == n.read \/ c.read
           writes == n.write \/ c.write
<1>2. \/ perms = Permitted
      \/ perms = Denied
      \/ perms = Failed
      \/ perms = [error |-> FALSE, read |-> reads, write |-> writes]
  BY DEF getPermissions
<1>3. /\ Permitted.read = TRUE /\ Permitted.write = TRUE
      /\ Denied.read = FALSE /\ Denied.write = FALSE
      /\ Failed.read = FALSE /\ Failed.write = FALSE
  BY DEF Permitted, Denied, Failed
<1>4. reads \in BOOLEAN /\ writes \in BOOLEAN
  OBVIOUS
<1> HIDE DEF perms, reads, writes
<1>5. perms.read \in BOOLEAN /\ perms.write \in BOOLEAN
  <2>1. CASE perms = [error |-> FALSE, read |-> reads, write |-> writes]
    BY <1>4, <2>1, FlagsOfARecord
  <2>2. CASE perms \in {Permitted, Denied, Failed}
    BY <1>3, <2>2
  <2> QED BY <1>2, <2>1, <2>2
<1> QED BY <1>1, <1>5

LEMMA PortOfAnAgent ==
    ASSUME AgentsOK, NEW port \in getPort
    PROVE  port \in Nat
<1> DEFINE Known == {t \in StoreUIDs : agentCache[t].uid # 0}
           InUse == {agentCache[s].port : s \in Known}
           f == [s \in Known |-> agentCache[s].port]
<1>1. IsFiniteSet(Known)
  <2>1. IsFiniteSet(StoreUIDs)
    BY Bounds, FS_Interval DEF StoreUIDs
  <2> QED BY <2>1, FS_Subset
<1>2. IsFiniteSet(InUse)
  <2>1. f \in Surjection(Known, InUse)
    BY DEF Surjection
  <2> HIDE DEF f, Known, InUse
  <2> QED BY <1>1, <2>1, FS_Surjection
<1>3. InUse \subseteq Int
  BY DEF AgentsOK, AgentObjects
<1>4. port \in NextPorts(baseProtocolPort, InUse)
  BY DEF getPort
<1> HIDE DEF InUse
<1>5. baseProtocolPort \in Int /\ baseProtocolPort > 0
  BY DEF baseProtocolPort
<1>6. port \in Int /\ (port = baseProtocolPort \/ port > baseProtocolPort)
  BY <1>2, <1>3, <1>4, <1>5, NextPortIsAbove
<1> QED BY <1>5, <1>6

LEMMA DecisionsAreSound ==
    ASSUME NEW p \in Primitives, NEW ready \in BOOLEAN
    PROVE  /\ reconcilePrimitive(p, ready) \in Decisions
           /\ reconcilePrimitive(p, ready) \in {"createAgent", "waitForAgent", "createProxy"}
              => storeCache # 0
           /\ reconcilePrimitive(p, ready) = "createProxy"
              => /\ agentCache[storeCache].uid # 0
                 /\ PermissionsOf(p).read \/ PermissionsOf(p).write
<1> DEFINE step == reconcilePrimitive(p, ready)
<1>1. \/ step \in {"error", "skip"}
      \/ step = ForMissingProxy(p, ready)
      \/ step = ForProxy(p, ready)
  BY DEF reconcilePrimitive
<1>2. CASE step = ForMissingProxy(p, ready)
  BY <1>2 DEF ForMissingProxy, Decisions
<1>3. CASE step = ForProxy(p, ready)
  BY <1>3 DEF ForProxy, Decisions
<1>4. CASE step \in {"error", "skip"}
  BY <1>4 DEF Decisions
<1> QED BY <1>1, <1>2, <1>3, <1>4

LEMMA NewProxyShape ==
    ASSUME StoresOK, AgentsOK, WorldOK, CountersOK, NEW p \in Primitives,
           storeCache # 0, agentCache[storeCache].uid # 0,
           PermissionsOf(p).read \/ PermissionsOf(p).write
    PROVE  Shape(NewProxy(p), stores, removals)
<1> DEFINE x == NewProxy(p)
           uid == agentCache[storeCache].uid
           r == PermissionsOf(p).read
           w == PermissionsOf(p).write
<1>1. storeCache \in StoreUIDs /\ storeCache \in Nat
  BY Bounds DEF StoresOK, StoreUIDs
<1>2. uid \in 0..removals+1 /\ uid \in Nat /\ uid # 0
  BY <1>1 DEF AgentsOK, AgentObjects, CountersOK
<1>3. r \in BOOLEAN /\ w \in BOOLEAN /\ (r \/ w)
  BY PermissionsAreFlags
<1>4. NoProxy \in ProxyObjects
  BY NoProxyShape DEF Shape, CountersOK
<1>5. x = [NoProxy EXCEPT !.found = TRUE, !.store = storeCache, !.agent = uid,
                          !.read = r, !.write = w]
  BY DEF NewProxy
<1> HIDE DEF x, uid, r, w
<1>6. /\ x \in ProxyObjects /\ x.found /\ x.store = storeCache /\ x.agent = uid
      /\ x.read = r /\ x.write = w
  BY <1>1, <1>2, <1>3, <1>4, <1>5 DEF ProxyObjects
<1>7. Shape(x, stores, removals)
  BY <1>2, <1>3, <1>6 DEF Shape, StoresOK
<1> QED BY <1>7 DEF x

-----------------------------------------------------------------------------
(* The invariant is inductive                                              *)

(* What an action leaves alone stays as it is. *)
LEMMA KeptParts ==
    ASSUME TypeInv
    PROVE  /\ UNCHANGED life => LifeOK'
           /\ UNCHANGED <<store, storeCache, stores>> => StoresOK'
           /\ UNCHANGED <<agents, agentCache, removals>> => AgentsOK'
           /\ UNCHANGED <<proxies, proxyCache, stores, removals>> => ProxiesOK'
           /\ UNCHANGED <<condition, podCache>> => PodOK'
           /\ UNCHANGED <<worker, stores, removals>> => WorkerOK'
           /\ UNCHANGED <<primitiveCache, news, podQueue>> => QueueOK'
           /\ UNCHANGED <<world, changed>> => WorldOK'
           /\ UNCHANGED <<removals, events>> => CountersOK'
<1>1. /\ LifeOK /\ StoresOK /\ AgentsOK /\ ProxiesOK /\ PodOK /\ WorkerOK /\ QueueOK
      /\ WorldOK /\ CountersOK
  BY DEF TypeInv
<1>2. UNCHANGED <<store, storeCache, stores>> => StoresOK'
  BY <1>1 DEF StoresOK
<1>3. UNCHANGED <<proxies, proxyCache, stores, removals>> => ProxiesOK'
  BY <1>1 DEF ProxiesOK
<1>4. UNCHANGED <<worker, stores, removals>> => WorkerOK'
  BY <1>1 DEF WorkerOK
<1>5. UNCHANGED <<agents, agentCache, removals>> => AgentsOK'
  BY <1>1 DEF AgentsOK
<1>6. UNCHANGED life => LifeOK'
  BY <1>1 DEF LifeOK
<1>7. UNCHANGED <<condition, podCache>> => PodOK'
  BY <1>1 DEF PodOK
<1>8. UNCHANGED <<primitiveCache, news, podQueue>> => QueueOK'
  BY <1>1 DEF QueueOK
<1>9. UNCHANGED <<world, changed>> => WorldOK'
  BY <1>1 DEF WorldOK
<1>10. UNCHANGED <<removals, events>> => CountersOK'
  BY <1>1 DEF CountersOK
<1> QED BY <1>2, <1>3, <1>4, <1>5, <1>6, <1>7, <1>8, <1>9, <1>10

(* With more stores or removals everything keeps its shape. *)
LEMMA GrownParts ==
    ASSUME TypeInv, stores' \in Nat, removals' \in Nat,
           stores <= stores', removals <= removals'
    PROVE  /\ \A x : Shape(x, stores, removals) => Shape(x, stores', removals')
           /\ \A a \in [StoreUIDs -> AgentObjects(removals)] :
                 a \in [StoreUIDs -> AgentObjects(removals')]
           /\ UNCHANGED <<agents, agentCache>> => AgentsOK'
           /\ UNCHANGED <<proxies, proxyCache>> => ProxiesOK'
           /\ UNCHANGED worker => WorkerOK'
<1>1. /\ AgentsOK /\ ProxiesOK /\ WorkerOK
      /\ stores \in Nat /\ removals \in Nat
  BY Bounds DEF TypeInv, StoresOK, CountersOK
<1>2. \A x : Shape(x, stores, removals) => Shape(x, stores', removals')
  BY <1>1, ShapeGrows
<1>3. \A a \in [StoreUIDs -> AgentObjects(removals)] :
         a \in [StoreUIDs -> AgentObjects(removals')]
  BY <1>1, AgentsGrow
<1>4. UNCHANGED <<agents, agentCache>> => AgentsOK'
  BY <1>1, <1>3 DEF AgentsOK
<1>5. UNCHANGED <<proxies, proxyCache>> => ProxiesOK'
  BY <1>1, <1>2 DEF ProxiesOK
<1>6. UNCHANGED worker => WorkerOK'
  BY <1>1, <1>2 DEF WorkerOK
<1> QED BY <1>2, <1>3, <1>4, <1>5, <1>6

LEMMA InitTypes == Init => TypeInv
<1> SUFFICES ASSUME Init PROVE TypeInv
  OBVIOUS
<1>1. LifeOK /\ StoresOK
  BY Bounds DEF Init, LifeOK, StoresOK
<1>2. AgentsOK
  <2>1. NoAgent \in AgentObjects(0)
    BY DEF NoAgent, AgentObjects
  <2> QED BY <2>1 DEF Init, AgentsOK
<1>3. ProxiesOK
  <2>1. Shape(NoProxy, 1, 0) /\ NoProxy \in ProxyObjects
    BY NoProxyShape DEF Shape
  <2> QED BY <2>1 DEF Init, ProxiesOK
<1>4. PodOK
  BY DEF Init, PodOK, PodCopy, Conditions
<1>5. WorkerOK
  <2>1. Shape(NoProxy, 1, 0)
    BY NoProxyShape
  <2> QED BY <2>1, IdleWorker DEF Init, WorkerOK
<1>6. QueueOK /\ WorldOK
  BY WorldsAssumption DEF Init, QueueOK, WorldOK
<1>7. CountersOK
  BY Bounds DEF Init, CountersOK
<1> QED BY <1>1, <1>2, <1>3, <1>4, <1>5, <1>6, <1>7 DEF TypeInv


(* What users and the world do. *)
LEMMA UsersKeepTypes ==
    ASSUME TypeInv
    PROVE  /\ \A p \in Primitives : CreatePrimitive(p) \/ DeletePrimitive(p)
                                    \/ ReleasePrimitive(p) => TypeInv'
           /\ CreateStore \/ DeleteStore \/ ChangeWorld => TypeInv'
<1>1. ASSUME NEW p \in Primitives, CreatePrimitive(p) \/ DeletePrimitive(p)
             \/ ReleasePrimitive(p)
      PROVE  TypeInv'
  <2>1. UNCHANGED <<store, storeCache, stores, agents, agentCache, removals, proxies,
                    proxyCache, condition, podCache, worker, world, changed>>
    BY <1>1 DEF CreatePrimitive, DeletePrimitive, ReleasePrimitive, cacheVars, work, history
  <2>2. LifeOK'
    BY <1>1 DEF CreatePrimitive, DeletePrimitive, ReleasePrimitive, TypeInv, LifeOK
  <2>3. QueueOK'
    BY <1>1 DEF CreatePrimitive, DeletePrimitive, ReleasePrimitive, TypeInv, QueueOK, Kinds,
                cacheVars, work
  <2>4. CountersOK'
    BY <1>1, Bounds DEF CreatePrimitive, DeletePrimitive, ReleasePrimitive, Event, TypeInv,
                        CountersOK, history
  <2> QED BY <2>1, <2>2, <2>3, <2>4, KeptParts DEF TypeInv
<1>2. ASSUME CreateStore PROVE TypeInv'
  <2>1. UNCHANGED <<life, agents, agentCache, removals, proxies, proxyCache, condition,
                    podCache, worker, world, changed>>
    BY <1>2 DEF CreateStore, cacheVars, work
  <2>2. stores' \in Nat /\ removals' \in Nat /\ stores <= stores' /\ removals <= removals'
    BY <1>2, <2>1, Bounds DEF CreateStore, TypeInv, StoresOK, CountersOK
  <2>3. AgentsOK' /\ ProxiesOK' /\ WorkerOK'
    BY <2>1, <2>2, GrownParts
  <2>4. StoresOK'
    BY <1>2, Bounds DEF CreateStore, TypeInv, StoresOK, StoreUIDs, cacheVars
  <2>5. QueueOK'
    BY <1>2 DEF CreateStore, TypeInv, QueueOK, Kinds, cacheVars, work
  <2>6. CountersOK'
    BY <1>2, Bounds DEF CreateStore, Event, TypeInv, CountersOK
  <2> QED BY <2>1, <2>3, <2>4, <2>5, <2>6, KeptParts DEF TypeInv
<1>3. ASSUME DeleteStore PROVE TypeInv'
  <2>1. UNCHANGED <<life, stores, agents, agentCache, removals, proxies, proxyCache,
                    condition, podCache, worker, world, changed>>
    BY <1>3 DEF DeleteStore, cacheVars, work
  <2>2. StoresOK'
    BY <1>3, <2>1, Bounds DEF DeleteStore, TypeInv, StoresOK, cacheVars
  <2>3. QueueOK'
    BY <1>3 DEF DeleteStore, TypeInv, QueueOK, Kinds, cacheVars, work
  <2>4. CountersOK'
    BY <1>3, Bounds DEF DeleteStore, Event, TypeInv, CountersOK
  <2> QED BY <2>1, <2>2, <2>3, <2>4, KeptParts DEF TypeInv
<1>4. ASSUME ChangeWorld PROVE TypeInv'
  <2>1. UNCHANGED <<life, store, storeCache, stores, agents, agentCache, removals, proxies,
                    proxyCache, condition, podCache, worker, primitiveCache, news,
                    podQueue>>
    BY <1>4 DEF ChangeWorld, cacheVars, work
  <2>2. WorldOK'
    BY <1>4 DEF ChangeWorld, WorldOK
  <2>3. CountersOK'
    BY <1>4, Bounds DEF ChangeWorld, Event, TypeInv, CountersOK
  <2> QED BY <2>1, <2>2, <2>3, KeptParts DEF TypeInv
<1> QED BY <1>1, <1>2, <1>3, <1>4

(* What the reconcilers of agents and proxies and the kubelet do. *)
LEMMA AgentsKeepTypes ==
    ASSUME TypeInv, NEW s \in StoreUIDs,
           AgentReady(s) \/ AgentUnready(s) \/ RemoveAgent(s)
    PROVE  TypeInv'
<1> DEFINE made == AgentObjects(removals)
<1>1. UNCHANGED <<life, store, storeCache, stores, agentCache, proxies, proxyCache,
                  condition, podCache, worker, world, changed, primitiveCache, podQueue>>
  BY DEF AgentReady, AgentUnready, RemoveAgent, SetAgent, cacheVars, work
<1>2. PICK g : SetAgent(s, g) /\ (g = NoAgent \/ g = [agents[s] EXCEPT !.ready = TRUE]
                                  \/ g = [agents[s] EXCEPT !.ready = FALSE])
  BY DEF AgentReady, AgentUnready, RemoveAgent
<1>3. agents \in [StoreUIDs -> made] /\ agentCache \in [StoreUIDs -> made]
  BY DEF TypeInv, AgentsOK
<1>4. g \in made
  <2>1. NoAgent \in made
    BY DEF NoAgent, AgentObjects, TypeInv, CountersOK
  <2>2. agents[s] \in made
    BY <1>3
  <2>3. /\ [agents[s] EXCEPT !.ready = TRUE] \in made
        /\ [agents[s] EXCEPT !.ready = FALSE] \in made
    BY <2>2 DEF AgentObjects
  <2> QED BY <1>2, <2>1, <2>3
<1>5. agents' \in [StoreUIDs -> made]
  BY <1>2, <1>3, <1>4 DEF SetAgent
<1>6. CountersOK'
  BY Bounds DEF AgentReady, AgentUnready, RemoveAgent, Event, TypeInv, CountersOK
<1>7. stores' \in Nat /\ removals' \in Nat /\ stores <= stores' /\ removals <= removals'
  BY <1>1, <1>6, Bounds
     DEF AgentReady, AgentUnready, RemoveAgent, TypeInv, StoresOK, CountersOK
<1>8. ProxiesOK' /\ WorkerOK'
  BY <1>1, <1>7, GrownParts
<1>9. AgentsOK'
  <2>1. agents' \in [StoreUIDs -> AgentObjects(removals')]
        /\ agentCache \in [StoreUIDs -> AgentObjects(removals')]
    BY <1>3, <1>5, <1>7, GrownParts
  <2> QED BY <1>1, <2>1 DEF AgentsOK
<1>10. QueueOK'
  BY <1>1, <1>2 DEF SetAgent, TypeInv, QueueOK, Kinds
<1> QED BY <1>1, <1>6, <1>8, <1>9, <1>10, KeptParts DEF TypeInv

LEMMA ProxiesKeepTypes ==
    ASSUME TypeInv, NEW p \in Primitives,
           ProxyReady(p) \/ ProxyUnready(p) \/ DeleteProxy(p) \/ ReleaseProxy(p)
    PROVE  TypeInv'
<1>1. UNCHANGED <<life, store, storeCache, stores, agents, agentCache, removals,
                  proxyCache, condition, podCache, worker, world, changed, primitiveCache,
                  podQueue>>
  BY DEF ProxyReady, ProxyUnready, DeleteProxy, ReleaseProxy, SetProxy, cacheVars, work
<1>2. PICK x : SetProxy(p, x) /\ (x = NoProxy \/ x = [proxies[p] EXCEPT !.ready = TRUE]
                                  \/ x = [proxies[p] EXCEPT !.ready = FALSE]
                                  \/ x = [proxies[p] EXCEPT !.deleting = TRUE])
  BY DEF ProxyReady, ProxyUnready, DeleteProxy, ReleaseProxy
<1>3. ProxiesOK /\ stores \in Nat /\ removals \in Nat
  BY Bounds DEF TypeInv, StoresOK, CountersOK
<1>4. Shape(x, stores, removals)
  <2>1. Shape(NoProxy, stores, removals)
    BY <1>3, NoProxyShape
  <2>2. Shape(proxies[p], stores, removals) /\ proxies[p].found
    BY <1>2, <1>3 DEF ProxiesOK, SetProxy
  <2>3. CASE x = NoProxy
    BY <2>1, <2>3
  <2>4. CASE x # NoProxy
    <3> DEFINE o == proxies[p]
    <3>1. \/ x = [o EXCEPT !.ready = TRUE]
          \/ x = [o EXCEPT !.ready = FALSE]
          \/ x = [o EXCEPT !.deleting = TRUE]
      BY <1>2, <2>4
    <3> HIDE DEF o
    <3> QED BY <1>3, <2>2, <3>1, ShapeMarked DEF o
  <2> QED BY <2>3, <2>4
<1>5. ProxiesOK'
  BY <1>1, <1>2, <1>3, <1>4 DEF ProxiesOK, SetProxy, Shape
<1>6. CountersOK'
  BY Bounds DEF ProxyReady, ProxyUnready, DeleteProxy, ReleaseProxy, SetProxy, Event,
                TypeInv, CountersOK
<1>7. QueueOK'
  BY <1>1, <1>2 DEF SetProxy, TypeInv, QueueOK, Kinds
<1> QED BY <1>1, <1>5, <1>6, <1>7, KeptParts DEF TypeInv

LEMMA KubeletKeepsTypes == TypeInv /\ TouchPod => TypeInv'
<1> SUFFICES ASSUME TypeInv, TouchPod PROVE TypeInv'
  OBVIOUS
<1>1. UNCHANGED <<life, store, storeCache, stores, agents, agentCache, removals, proxies,
                  proxyCache, condition, primitiveCache, news, podQueue, world, changed>>
  BY DEF TouchPod, apiVars
<1>2. PodOK'
  BY DEF TouchPod, apiVars, TypeInv, PodOK, PodCopy
<1>3. WorkerOK'
  <2>1. worker \in Workers
    BY DEF TypeInv, WorkerOK
  <2>2. [worker.pod EXCEPT !.fresh = FALSE] \in PodCopy
    BY <2>1, WorkerFields DEF PodCopy
  <2>3. worker' = [worker EXCEPT !.pod = [worker.pod EXCEPT !.fresh = FALSE]]
    BY <2>1 DEF TouchPod, Workers
  <2>4. worker' \in Workers /\ worker'.object = worker.object
    BY <2>1, <2>2, <2>3 DEF Workers
  <2> QED BY <1>1, <2>4 DEF TypeInv, WorkerOK
<1>4. CountersOK'
  BY Bounds DEF TouchPod, Event, TypeInv, CountersOK
<1> QED BY <1>1, <1>2, <1>3, <1>4, KeptParts DEF TypeInv

(* What the watches deliver. *)
LEMMA WatchesKeepTypes ==
    ASSUME TypeInv,
           \/ SyncPrimitives \/ SyncStore \/ SyncAgents \/ SyncProxies \/ SyncPod \/ Resync
    PROVE  TypeInv'
<1>1. UNCHANGED <<life, store, stores, agents, removals, proxies, condition, worker, world,
                  changed, events>>
  BY DEF SyncPrimitives, SyncStore, SyncAgents, SyncProxies, SyncPod, Resync,
         apiVars, cacheVars, history
<1>2. StoresOK'
  BY <1>1 DEF SyncPrimitives, SyncStore, SyncAgents, SyncProxies, SyncPod, Resync,
              apiVars, cacheVars, TypeInv, StoresOK
<1>3. AgentsOK'
  BY <1>1 DEF SyncPrimitives, SyncStore, SyncAgents, SyncProxies, SyncPod, Resync,
              apiVars, cacheVars, TypeInv, AgentsOK
<1>4. ProxiesOK'
  <2>1. proxyCache' = proxyCache \/ proxyCache' = proxies
    BY DEF SyncPrimitives, SyncStore, SyncAgents, SyncProxies, SyncPod, Resync,
           apiVars, cacheVars
  <2> QED BY <1>1, <2>1 DEF TypeInv, ProxiesOK
<1>5. PodOK'
  <2>1. podCache' = podCache \/ podCache' = [condition |-> condition, fresh |-> TRUE]
    BY DEF SyncPrimitives, SyncStore, SyncAgents, SyncProxies, SyncPod, Resync, cacheVars
  <2> QED BY <1>1, <2>1, PodIsCopied DEF TypeInv, PodOK
<1>6. QueueOK'
  BY DEF SyncPrimitives, SyncStore, SyncAgents, SyncProxies, SyncPod, Resync,
         apiVars, cacheVars, Listed, TypeInv, QueueOK
<1> QED BY <1>1, <1>2, <1>3, <1>4, <1>5, <1>6, KeptParts DEF TypeInv

(* A pass ends, or its next request is in mind. *)
LEMMA PassTypes ==
    ASSUME WorkerOK, stores \in Nat, removals \in Nat, UNCHANGED <<stores, removals>>
    PROVE  /\ worker' = Idle => WorkerOK'
           /\ Retry => WorkerOK' /\ podQueue' \in BOOLEAN
           /\ GoOn => WorkerOK'
<1>1. Shape(NoProxy, stores, removals) /\ NoProxy \in ProxyObjects
  BY NoProxyShape DEF Shape
<1>2. worker' = Idle => WorkerOK'
  BY <1>1, IdleWorker DEF WorkerOK
<1>3. ASSUME GoOn PROVE WorkerOK'
  <2>1. worker' \in Workers /\ worker'.object = NoProxy
    BY <1>1, <1>3 DEF GoOn, WorkerOK, Workers, Ops
  <2> QED BY <1>1, <2>1 DEF WorkerOK
<1> QED BY <1>2, <1>3 DEF Retry

LEMMA ReconcileKeepsTypes == TypeInv /\ Reconcile => TypeInv'
<1> SUFFICES ASSUME TypeInv, Reconcile PROVE TypeInv'
  OBVIOUS
<1>1. UNCHANGED <<life, store, storeCache, stores, agents, agentCache, removals, proxies,
                  proxyCache, condition, podCache, primitiveCache, news, world, changed,
                  events>>
  BY DEF Reconcile, apiVars, cacheVars, history
<1>2. WorkerOK'
  <2>1. Shape(NoProxy, stores, removals)
    BY Bounds, NoProxyShape DEF TypeInv, StoresOK, CountersOK
  <2>2. primitiveCache \subseteq Primitives /\ podCache \in PodCopy
    BY DEF TypeInv, QueueOK, PodOK
  <2>3. worker' \in Workers /\ worker'.object = NoProxy
    BY <2>2, IdleWorker DEF Reconcile, Workers, Ops
  <2> QED BY <1>1, <2>1, <2>3 DEF WorkerOK
<1>3. QueueOK'
  BY <1>1 DEF Reconcile, TypeInv, QueueOK
<1> QED BY <1>1, <1>2, <1>3, KeptParts DEF TypeInv

LEMMA LastPrimitiveKeepsTypes == TypeInv /\ LastPrimitive => TypeInv'
<1> SUFFICES ASSUME TypeInv, LastPrimitive PROVE TypeInv'
  OBVIOUS
<1>1. UNCHANGED <<life, store, storeCache, stores, agents, agentCache, removals, proxies,
                  proxyCache, condition, podCache, primitiveCache, podQueue, news, world,
                  changed, events>>
  BY DEF LastPrimitive, apiVars, cacheVars, history
<1>2. WorkerOK /\ stores \in Nat /\ removals \in Nat
  BY Bounds DEF TypeInv, StoresOK, CountersOK
<1>3. WorkerOK'
  <2>1. CASE worker' = Idle
    BY <1>1, <1>2, <2>1, PassTypes
  <2>2. CASE worker' = [worker EXCEPT !.op = "setCondition", !.target = Ready]
    <3>1. worker' \in Workers /\ worker'.object = worker.object
      BY <1>2, <2>2 DEF WorkerOK, Workers, Ops, Conditions
    <3> QED BY <1>1, <1>2, <3>1 DEF WorkerOK
  <2> QED BY <2>1, <2>2 DEF LastPrimitive
<1> QED BY <1>1, <1>3, KeptParts DEF TypeInv

LEMMA CreateAgentKeepsTypes == TypeInv /\ CreateAgent => TypeInv'
<1> SUFFICES ASSUME TypeInv, CreateAgent PROVE TypeInv'
  OBVIOUS
<1>1. UNCHANGED <<life, store, storeCache, stores, agentCache, removals, proxies,
                  proxyCache, condition, podCache, primitiveCache, podQueue, world, changed,
                  events>>
  BY DEF CreateAgent, cacheVars, history
<1>2. WorkerOK /\ stores \in Nat /\ removals \in Nat
  BY Bounds DEF TypeInv, StoresOK, CountersOK
<1>3. WorkerOK'
  BY <1>1, <1>2, PassTypes DEF CreateAgent
<1>4. AgentsOK'
  <2>1. worker.port \in Nat
    BY <1>2, WorkerFields DEF WorkerOK
  <2>2. [uid |-> removals + 1, ready |-> FALSE, port |-> worker.port]
        \in AgentObjects(removals)
    BY <1>2, <2>1 DEF AgentObjects
  <2> QED BY <1>1, <2>2 DEF CreateAgent, TypeInv, AgentsOK
<1>5. QueueOK'
  BY <1>1 DEF CreateAgent, TypeInv, QueueOK, Kinds
<1> QED BY <1>1, <1>3, <1>4, <1>5, KeptParts DEF TypeInv

LEMMA ProxyRequestsKeepTypes == TypeInv /\ (CreateProxy \/ RemoveProxy) => TypeInv'
<1> SUFFICES ASSUME TypeInv, CreateProxy \/ RemoveProxy PROVE TypeInv'
  OBVIOUS
<1> DEFINE p == worker.key
           marked == [proxies[p] EXCEPT !.deleting = TRUE]
<1>1. UNCHANGED <<life, store, storeCache, stores, agents, agentCache, removals, proxyCache,
                  condition, podCache, primitiveCache, podQueue, world, changed, events>>
  BY DEF CreateProxy, RemoveProxy, cacheVars, history
<1>2. WorkerOK /\ ProxiesOK /\ stores \in Nat /\ removals \in Nat
  BY Bounds DEF TypeInv, StoresOK, CountersOK
<1>3. WorkerOK'
  BY <1>1, <1>2, PassTypes DEF CreateProxy, RemoveProxy
<1>4. \/ proxies' = proxies
      \/ proxies' = [proxies EXCEPT ![p] = worker.object]
      \/ proxies' = [proxies EXCEPT ![p] = NoProxy]
      \/ proxies[p].found /\ proxies' = [proxies EXCEPT ![p] = marked]
  BY DEF CreateProxy, RemoveProxy
<1>5. ASSUME NEW x, Shape(x, stores, removals), proxies' = [proxies EXCEPT ![p] = x]
      PROVE  ProxiesOK'
  BY <1>1, <1>2, <1>5 DEF ProxiesOK, Shape
<1>6. ProxiesOK'
  <2>1. CASE proxies' = proxies
    BY <1>1, <2>1, KeptParts
  <2>2. CASE proxies' = [proxies EXCEPT ![p] = worker.object]
    BY <1>2, <1>5, <2>2 DEF WorkerOK
  <2>3. CASE proxies' = [proxies EXCEPT ![p] = NoProxy]
    BY <1>2, <1>5, <2>3, NoProxyShape
  <2>4. CASE proxies[p].found /\ proxies' = [proxies EXCEPT ![p] = marked]
    <3>1. CASE p \in Primitives
      <4>1. Shape(proxies[p], stores, removals)
        BY <1>2, <3>1 DEF ProxiesOK
      <4> DEFINE o == proxies[p]
      <4>2. marked = [o EXCEPT !.deleting = TRUE]
        OBVIOUS
      <4> HIDE DEF o, marked
      <4>3. Shape(marked, stores, removals)
        BY <1>2, <2>4, <4>1, <4>2, ShapeMarked DEF o
      <4> QED BY <1>5, <2>4, <4>3
    <3>2. CASE p \notin Primitives
      <4>1. proxies' = proxies
        BY <1>2, <2>4, <3>2 DEF ProxiesOK
      <4> QED BY <1>1, <4>1, KeptParts
    <3> QED BY <3>1, <3>2
  <2> QED BY <1>4, <2>1, <2>2, <2>3, <2>4
<1>7. QueueOK'
  BY <1>1 DEF CreateProxy, RemoveProxy, TypeInv, QueueOK, Kinds
<1> QED BY <1>1, <1>3, <1>6, <1>7, KeptParts DEF TypeInv

LEMMA ConditionKeepsTypes == TypeInv /\ setAtomixCondition => TypeInv'
<1> SUFFICES ASSUME TypeInv, setAtomixCondition PROVE TypeInv'
  OBVIOUS
<1>1. UNCHANGED <<life, store, storeCache, stores, agents, agentCache, removals, proxies,
                  proxyCache, primitiveCache, news, world, changed, events>>
  BY DEF setAtomixCondition, history
<1>2. WorkerOK /\ stores \in Nat /\ removals \in Nat
  BY Bounds DEF TypeInv, StoresOK, CountersOK
<1>3. WorkerOK'
  BY <1>1, <1>2, PassTypes DEF setAtomixCondition
<1>4. PodOK'
  <2>1. worker.target \in Conditions
    BY <1>2, WorkerFields DEF WorkerOK
  <2>2. [podCache EXCEPT !.fresh = FALSE] \in PodCopy
    BY DEF TypeInv, PodOK, PodCopy
  <2> QED BY <2>1, <2>2 DEF setAtomixCondition, TypeInv, PodOK
<1>5. QueueOK'
  BY <1>1 DEF setAtomixCondition, Retry, TypeInv, QueueOK
<1> QED BY <1>1, <1>3, <1>4, <1>5, KeptParts DEF TypeInv

LEMMA FailuresKeepTypes == TypeInv /\ (Fault \/ Crash) => TypeInv'
<1> SUFFICES ASSUME TypeInv, Fault \/ Crash PROVE TypeInv'
  OBVIOUS
<1>1. UNCHANGED <<life, store, stores, agents, removals, proxies, condition, world, changed>>
      /\ Retry
  BY DEF Fault, Crash, apiVars
<1>2. WorkerOK /\ stores \in Nat /\ removals \in Nat
  BY Bounds DEF TypeInv, StoresOK, CountersOK
<1>3. WorkerOK'
  BY <1>1, <1>2, PassTypes
<1>4. StoresOK'
  BY <1>1 DEF Fault, Crash, cacheVars, TypeInv, StoresOK
<1>5. AgentsOK'
  BY <1>1 DEF Fault, Crash, cacheVars, TypeInv, AgentsOK
<1>6. ProxiesOK'
  <2>1. proxyCache' = proxyCache \/ proxyCache' = proxies
    BY DEF Fault, Crash, cacheVars
  <2> QED BY <1>1, <2>1 DEF TypeInv, ProxiesOK
<1>7. PodOK'
  <2>1. podCache' = podCache \/ podCache' = [condition |-> condition, fresh |-> TRUE]
    BY DEF Fault, Crash, cacheVars
  <2> QED BY <1>1, <2>1, PodIsCopied DEF TypeInv, PodOK
<1>8. QueueOK'
  BY <1>1 DEF Fault, Crash, cacheVars, Retry, Listed, TypeInv, QueueOK
<1>9. CountersOK'
  BY <1>1, Bounds DEF Fault, Crash, Event, TypeInv, CountersOK
<1> QED BY <1>1, <1>3, <1>4, <1>5, <1>6, <1>7, <1>8, <1>9, KeptParts DEF TypeInv

(* The decision for the next primitive becomes the request that is in mind. *)
LEMMA NextPrimitiveKeepsTypes == TypeInv /\ NextPrimitive => TypeInv'
<1> SUFFICES ASSUME TypeInv, NextPrimitive PROVE TypeInv'
  OBVIOUS
<1> DEFINE p == Min(worker.todo)
           asked == reconcilePrimitive(p, worker.ready)
           waits == asked \in {"waitForAgent", "waitForProxy"}
           told == waits /\ worker.pod.condition = Waiting(asked, p)
           step == IF told THEN reconcilePrimitive(p, FALSE) ELSE asked
           w == [worker EXCEPT !.todo = @ \ {p}, !.ready = @ /\ ~told, !.key = p]
<1>1. UNCHANGED <<life, store, storeCache, stores, agents, agentCache, removals, proxies,
                  proxyCache, condition, podCache, primitiveCache, news, world, changed,
                  events>>
  BY DEF NextPrimitive, apiVars, cacheVars, history
<1>2. /\ WorkerOK /\ StoresOK /\ AgentsOK /\ ProxiesOK /\ WorldOK /\ CountersOK
      /\ stores \in Nat /\ removals \in Nat
  BY Bounds DEF TypeInv, StoresOK, CountersOK
<1>3. worker \in Workers /\ worker.todo \subseteq Primitives /\ worker.ready \in BOOLEAN
  BY <1>2, WorkerFields DEF WorkerOK
<1>4. p \in Primitives /\ p \in Nat
  BY <1>3, LeastPrimitive, Bounds DEF NextPrimitive
<1>5. told \in BOOLEAN
  OBVIOUS
<1>6. w \in Workers /\ w.object = worker.object
  <2> HIDE DEF told, p
  <2> QED BY <1>3, <1>4, <1>5 DEF Workers
<1>7. PICK b \in BOOLEAN : step = reconcilePrimitive(p, b)
  BY <1>3
<1>8. \/ step = "error" /\ Retry
      \/ step = "skip" /\ worker' = [w EXCEPT !.key = 0] /\ UNCHANGED podQueue
      \/ /\ step = "createAgent" /\ UNCHANGED podQueue
         /\ \E port \in getPort :
               worker' = [w EXCEPT !.op = "createAgent", !.key = storeCache, !.port = port]
      \/ /\ step = "createProxy" /\ UNCHANGED podQueue
         /\ worker' = [w EXCEPT !.op = "createProxy", !.object = NewProxy(p)]
      \/ /\ step = "deleteProxy" /\ UNCHANGED podQueue
         /\ worker' = [w EXCEPT !.op = "deleteProxy", !.object = proxyCache[p]]
      \/ /\ step \notin {"error", "skip", "createAgent", "createProxy", "deleteProxy"}
         /\ UNCHANGED podQueue
         /\ worker' = [w EXCEPT !.op = "setCondition", !.key = 0,
                                !.target = Waiting(step, p)]
  BY DEF NextPrimitive
<1>9. /\ step \in Decisions
      /\ step \in {"createAgent", "waitForAgent", "createProxy"} => storeCache # 0
      /\ step = "createProxy" => /\ agentCache[storeCache].uid # 0
                                 /\ PermissionsOf(p).read \/ PermissionsOf(p).write
  BY <1>4, <1>7, DecisionsAreSound
<1> HIDE DEF step, w, p
<1>10. storeCache \in Nat /\ (storeCache # 0 => storeCache \in StoreUIDs)
  BY <1>2, Bounds DEF StoresOK, StoreUIDs
<1>11. WorkerOK'
  <2>1. CASE step = "error" /\ Retry
    BY <1>1, <1>2, <2>1, PassTypes
  <2>2. CASE worker' = [w EXCEPT !.key = 0]
    <3>1. worker' \in Workers /\ worker'.object = w.object
      BY <1>6, <2>2 DEF Workers
    <3> QED BY <1>1, <1>2, <1>6, <3>1 DEF WorkerOK
  <2>3. ASSUME NEW port \in getPort,
               worker' = [w EXCEPT !.op = "createAgent", !.key = storeCache, !.port = port]
        PROVE  WorkerOK'
    <3>1. port \in Nat
      BY <1>2, PortOfAnAgent
    <3>2. worker' \in Workers /\ worker'.object = w.object
      BY <1>6, <1>10, <2>3, <3>1 DEF Workers, Ops
    <3> QED BY <1>1, <1>2, <1>6, <3>2 DEF WorkerOK
  <2>4. ASSUME NEW x, Shape(x, stores, removals),
               \/ worker' = [w EXCEPT !.op = "createProxy", !.object = x]
               \/ worker' = [w EXCEPT !.op = "deleteProxy", !.object = x]
        PROVE  WorkerOK'
    <3>1. x \in ProxyObjects
      BY <2>4 DEF Shape
    <3>2. worker' \in Workers /\ worker'.object = x
      BY <1>6, <2>4, <3>1 DEF Workers, Ops
    <3> QED BY <1>1, <2>4, <3>2 DEF WorkerOK
  <2>5. CASE step = "createProxy" /\ worker' = [w EXCEPT !.op = "createProxy",
                                                         !.object = NewProxy(p)]
    <3>1. Shape(NewProxy(p), stores, removals)
      BY <1>2, <1>4, <1>9, <2>5, NewProxyShape
    <3> QED BY <2>4, <2>5, <3>1
  <2>6. CASE worker' = [w EXCEPT !.op = "deleteProxy", !.object = proxyCache[p]]
    <3>1. Shape(proxyCache[p], stores, removals)
      BY <1>2, <1>4 DEF ProxiesOK
    <3> QED BY <2>4, <2>6, <3>1
  <2>7. CASE /\ step \notin {"error", "skip", "createAgent", "createProxy", "deleteProxy"}
             /\ worker' = [w EXCEPT !.op = "setCondition", !.key = 0,
                                    !.target = Waiting(step, p)]
    <3>1. Waiting(step, p) \in Conditions
      BY <1>4, <1>9, <1>10, <2>7 DEF Waiting, Decisions, Conditions
    <3>2. worker' \in Workers /\ worker'.object = w.object
      BY <1>6, <2>7, <3>1 DEF Workers, Ops
    <3> QED BY <1>1, <1>2, <1>6, <3>2 DEF WorkerOK
  <2> QED BY <1>8, <2>1, <2>2, <2>3, <2>5, <2>6, <2>7
<1>12. QueueOK'
  BY <1>1, <1>8 DEF Retry, TypeInv, QueueOK
<1> QED BY <1>1, <1>11, <1>12, KeptParts DEF TypeInv

LEMMA StutterKeepsTypes == TypeInv /\ UNCHANGED vars => TypeInv'
  BY KeptParts DEF vars, apiVars, cacheVars, work, history, TypeInv

LEMMA TypesStay == TypeInv /\ [Next]_vars => TypeInv'
  BY UsersKeepTypes, AgentsKeepTypes, ProxiesKeepTypes, KubeletKeepsTypes, WatchesKeepTypes,
     ReconcileKeepsTypes, NextPrimitiveKeepsTypes, LastPrimitiveKeepsTypes,
     CreateAgentKeepsTypes, ProxyRequestsKeepTypes, ConditionKeepsTypes, FailuresKeepTypes,
     StutterKeepsTypes
     DEF Next, PodStep

LEMMA ShapeIsProxyShape ==
    ASSUME NEW x, Shape(x, stores, removals)
    PROVE  ProxyShape(x)
  BY DEF Shape, ProxyObjects, ProxyShape

LEMMA TypesSuffice == TypeInv => TypeOK
<1> SUFFICES ASSUME TypeInv PROVE TypeOK
  OBVIOUS
<1>1. {store, storeCache} \subseteq 0..stores /\ stores \in StoreUIDs
  BY DEF TypeInv, StoresOK
<1>2. {agents, agentCache} \subseteq
         [StoreUIDs -> [uid : 0..removals + 1, ready : BOOLEAN, port : Nat]]
  BY DEF TypeInv, AgentsOK, AgentObjects
<1>3. \A p \in Primitives : ProxyShape(proxies[p]) /\ ProxyShape(proxyCache[p])
  BY ShapeIsProxyShape DEF TypeInv, ProxiesOK
<1>4. worker \in Workers /\ ProxyShape(worker.object)
  BY ShapeIsProxyShape DEF TypeInv, WorkerOK
<1>5. /\ worker.op \in {"idle", "next", "createAgent", "createProxy", "deleteProxy",
                        "setCondition"}
      /\ worker.todo \subseteq Primitives /\ worker.ready \in BOOLEAN
      /\ worker.pod \in PodCopy
  BY <1>4, WorkerFields DEF Ops
<1>6. podCache \in PodCopy /\ [condition |-> condition, fresh |-> TRUE] \in PodCopy
  BY PodIsCopied DEF TypeInv, PodOK
<1>7. removals \in 0..MaxEvents /\ events \in 0..MaxEvents
  BY Bounds DEF TypeInv, CountersOK
<1> QED BY <1>1, <1>2, <1>3, <1>4, <1>5, <1>6, <1>7
        DEF TypeInv, LifeOK, QueueOK, WorldOK, TypeOK

(* Type correctness (pod.go:187-352): every proxy, of the API server, of a cache
   or in the mind of a pass, refers to an agent that has existed and gives a
   permission; and the condition of the pod names something there is. *)
THEOREM TypeCorrect == Spec => []TypeOK
<1>1. Spec => []TypeInv
  BY InitTypes, TypesStay, PTL DEF Spec
<1> QED BY <1>1, TypesSuffice, PTL
=============================================================================
