----------------------- MODULE ProxyControllerProofs -----------------------
(***************************************************************************)
(* Proofs about ProxyController, for every value of its constants.         *)
(***************************************************************************)
EXTENDS ProxyController, TLAPS

\* A ProxyReconciler's call or write fits the object it was decided on: only a
\* claimed proxy is used, a deleted one is only taken down.
CallFits(w) ==
    /\ w.op \in {"addFinalizer", "delete"} => ~w.proxy.deleting
    /\ w.op \in {"rebind", "createProxy", "register", "ready"} =>
          w.proxy.fin /\ ~w.proxy.deleting
    /\ w.op \in {"unregister", "destroyProxy", "removeFinalizer"} =>
          w.proxy.deleting

\* Only a live primitive is claimed, only a deleted one swept and released.
SweepFits(w) ==
    /\ w.op = "addFinalizer" => ~w.primitive.deleting
    /\ w.op \in {"sweep", "removeFinalizer"} => w.primitive.deleting

TypeInv == TypeOK /\ CallFits(xw) /\ SweepFits(mw)

-----------------------------------------------------------------------------
(* What deletions and writes do to the objects.                            *)

(* The object that is not found has the shape of an object, and none of the
   marks that the reconcilers look for. *)
LEMMA Absent ==
    /\ ProxyShape(NoProxy) /\ PrimitiveShape(NoPrimitive)
    /\ NoProxy.uid = 0 /\ NoProxy.cid = 0
    /\ ~NoProxy.ready /\ ~NoProxy.deleting /\ ~NoProxy.fin
    /\ NoPrimitive.uid = 0 /\ ~NoPrimitive.deleting /\ ~NoPrimitive.fin
BY BoundsAssumption DEF ProxyShape, PrimitiveShape, NoProxy, NoPrimitive,
     ProxyObject, PrimitiveObject

(* A deletion on the API server marks a proxy that its finalizer holds, and
   removes one that is not claimed. *)
LEMMA DeletedProxy ==
    ASSUME NEW x, ProxyShape(x), NEW d, d = Deleted(x, NoProxy)
    PROVE  /\ ProxyShape(d)
           /\ x.fin => /\ d.deleting /\ d.fin
                       /\ d.uid = x.uid /\ d.cid = x.cid
                       /\ d.ready = x.ready /\ d.write = x.write
           /\ ~x.fin => d = NoProxy
<1>1. CASE x.fin
  <2>1. d = [x EXCEPT !.deleting = TRUE]
    BY <1>1 DEF Deleted
  <2> QED BY <1>1, <2>1, Absent DEF ProxyShape, ProxyObject
<1>2. CASE ~x.fin
  BY <1>2, Absent DEF Deleted
<1> QED BY <1>1, <1>2

(* So does a deletion of the primitive. *)
LEMMA DeletedPrimitive ==
    ASSUME NEW m, PrimitiveShape(m), NEW d, d = Deleted(m, NoPrimitive)
    PROVE  /\ PrimitiveShape(d)
           /\ d.uid = 0 \/ (d.uid = m.uid /\ d.deleting /\ m.fin)
           /\ m.fin => d.uid = m.uid
<1>1. CASE m.fin
  <2>1. d = [m EXCEPT !.deleting = TRUE]
    BY <1>1 DEF Deleted
  <2> QED BY <1>1, <2>1, Absent DEF PrimitiveShape, PrimitiveObject
<1>2. CASE ~m.fin
  BY <1>2, Absent DEF Deleted
<1> QED BY <1>1, <1>2

(* A write of the ProxyReconciler keeps the object's identity, deletion and
   permissions and leaves it claimed, unless it drops the finalizer of a
   deleted proxy; it makes a proxy ready only after the calls, and a proxy that
   gets a new container is not ready. *)
LEMMA WrittenProxy ==
    ASSUME NEW w \in ProxyWorker, ProxyShape(w.proxy), w.proxy.uid # 0,
           CallFits(w), w.op \in WriteOps, NEW d, d = Written(w)
    PROVE  /\ ProxyShape(d)
           /\ w.op = "removeFinalizer" => d = NoProxy
           /\ w.op # "removeFinalizer" =>
                 /\ d.uid = w.proxy.uid /\ d.deleting = w.proxy.deleting
                 /\ d.fin /\ d.write = w.proxy.write
                 /\ d.cid = (IF w.op = "rebind" THEN w.cid ELSE w.proxy.cid)
                 /\ d.ready => w.op = "ready" \/ (w.proxy.ready /\ w.op # "rebind")
<1>1. CASE w.op = "addFinalizer"
  <2>1. d = [w.proxy EXCEPT !.fin = TRUE]
    BY <1>1 DEF Written
  <2> QED BY <1>1, <2>1, Absent DEF ProxyShape, ProxyObject
<1>2. CASE w.op = "rebind"
  <2>1. d = [w.proxy EXCEPT !.cid = w.cid, !.ready = FALSE]
    BY <1>2 DEF Written, Rebound
  <2>2. w.proxy.fin /\ w.cid \in 0..MaxContainers
    BY <1>2 DEF CallFits, ProxyWorker
  <2> QED BY <1>2, <2>1, <2>2 DEF ProxyShape, ProxyObject
<1>3. CASE w.op = "ready"
  <2>1. d = [w.proxy EXCEPT !.ready = TRUE] /\ w.proxy.fin
    BY <1>3 DEF Written, CallFits
  <2> QED BY <1>3, <2>1 DEF ProxyShape, ProxyObject
<1>4. CASE w.op = "removeFinalizer"
  BY <1>4, Absent DEF Written, Released, CallFits
<1> QED BY <1>1, <1>2, <1>3, <1>4 DEF WriteOps

(* The PrimitiveReconciler's claim keeps the primitive, its release of a
   deleted one removes it. *)
LEMMA WrittenPrimitive ==
    ASSUME NEW m, PrimitiveShape(m), m.uid # 0
    PROVE  /\ PrimitiveShape([m EXCEPT !.fin = TRUE])
           /\ [m EXCEPT !.fin = TRUE].uid = m.uid
           /\ [m EXCEPT !.fin = TRUE].deleting = m.deleting
           /\ m.deleting => Released(m, NoPrimitive) = NoPrimitive
BY Absent DEF PrimitiveShape, PrimitiveObject, Released

(* A primitive as it is created is well-formed. *)
LEMMA CreatedPrimitive ==
    ASSUME NEW n \in 1..MaxPrimitives
    PROVE  /\ PrimitiveShape([NoPrimitive EXCEPT !.uid = n])
           /\ [NoPrimitive EXCEPT !.uid = n].uid = n
           /\ ~[NoPrimitive EXCEPT !.uid = n].deleting
<1>1. n \in 0..MaxPrimitives /\ n # 0
  BY BoundsAssumption
<1>2. NoPrimitive \in PrimitiveObject
  BY Absent DEF PrimitiveShape
<1> QED BY <1>1, <1>2, Absent DEF PrimitiveShape, PrimitiveObject

\* The proxy that the PodReconciler creates.
NewProxy(n, w) == [NoProxy EXCEPT !.uid = n, !.write = w]

(* It is well-formed too, and neither claimed nor bound to a container. *)
LEMMA CreatedProxy ==
    ASSUME NEW n \in 1..MaxProxies, NEW w \in BOOLEAN
    PROVE  /\ ProxyShape(NewProxy(n, w))
           /\ NewProxy(n, w).uid = n /\ NewProxy(n, w).write = w
           /\ NewProxy(n, w).cid = 0
           /\ ~NewProxy(n, w).ready /\ ~NewProxy(n, w).fin
           /\ ~NewProxy(n, w).deleting
<1>1. n \in 0..MaxProxies /\ n # 0
  BY BoundsAssumption
<1>2. NoProxy \in ProxyObject
  BY Absent DEF ProxyShape
<1> QED BY <1>1, <1>2, Absent DEF ProxyShape, ProxyObject, NewProxy

(* The workers at rest are well typed. *)
LEMMA IdleWorkers ==
    /\ IdleSweepWorker \in SweepWorker
    /\ IdleSweepWorker.op = "idle" /\ IdleSweepWorker.primitive = NoPrimitive
    /\ IdleProxyWorker \in ProxyWorker
    /\ IdleProxyWorker.op = "idle" /\ IdleProxyWorker.proxy = NoProxy
    /\ IdleProxyWorker.key = 0 /\ IdleProxyWorker.cid = 0
    /\ IdlePodWorker \in PodWorker
    /\ IdlePodWorker.op = "idle" /\ IdlePodWorker.key = 0
BY BoundsAssumption DEF IdleSweepWorker, IdleProxyWorker, IdlePodWorker,
     SweepWorker, ProxyWorker, PodWorker, SweepOps, ProxyOps, NoPrimitive, NoProxy,
     PrimitiveObject, ProxyObject

(* What a reconciliation of the proxy decides on: nothing for a proxy that is
   not found, what fits the proxy otherwise; calls only for a primitive that is
   there and not deleted; the end of a proxy without a call only when its pod
   or its primitive is gone. *)
LEMMA Decisions ==
    ASSUME NEW x, NEW g, NEW p, NEW m, NEW op, op = ProxyReconcile(x, g, p, m)
    PROVE  /\ op \in {"idle", "addFinalizer", "delete", "rebind", "createProxy",
                      "unregister", "removeFinalizer"}
           /\ x.uid = 0 => op = "idle"
           /\ op \in {"addFinalizer", "delete", "rebind", "createProxy"} => ~x.deleting
           /\ op \in {"rebind", "createProxy"} => x.fin
           /\ op \in {"unregister", "removeFinalizer"} => x.deleting
           /\ op = "removeFinalizer" => ~p \/ m.uid = 0
           /\ op = "createProxy" => m.uid # 0 /\ ~m.deleting
BY DEF ProxyReconcile, reconcileCreate, reconcileDelete

-----------------------------------------------------------------------------
(* Type correctness *)

(* At first nothing is there but the pod and its agent. *)
LEMMA TypeInit == Init => TypeInv
<1> SUFFICES ASSUME Init PROVE TypeInv
  OBVIOUS
<1>1. agent \in AgentObject /\ agentCache = agent /\ served \in ServedProxy
  <2>1. NoAgent \in AgentObject
    BY BoundsAssumption DEF NoAgent, AgentObject
  <2>2. agent \in AgentObject /\ agentCache = agent
    BY <2>1 DEF Init, AgentObject
  <2> QED BY <2>2 DEF Init, NotServed, ServedProxy
<1>2. /\ proxies \in [PrimitiveUIDs -> ProxyObject] /\ proxyCache = proxies
      /\ \A u \in PrimitiveUIDs : ProxyShape(proxies[u])
  BY Absent DEF Init, ProxyShape
<1>3. CallFits(xw) /\ SweepFits(mw)
  BY IdleWorkers DEF Init, CallFits, SweepFits
<1>4. /\ PrimitiveShape(primitive) /\ PrimitiveShape(primitiveCache)
      /\ PrimitiveShape(mw.primitive) /\ ProxyShape(xw.proxy)
  BY IdleWorkers, Absent DEF Init
<1>5. /\ mw \in SweepWorker /\ mw.op = "idle"
      /\ xw \in ProxyWorker /\ xw.op = "idle"
      /\ dw \in PodWorker /\ dw.op = "idle"
  BY IdleWorkers DEF Init
<1>6. /\ container \in 0..MaxContainers /\ primitives \in 0..MaxPrimitives
      /\ made \in 0..MaxProxies /\ grants \in 0..MaxGrants
      /\ brokerRestarts \in 0..MaxBrokerRestarts /\ faults \in 0..MaxFaults
  BY BoundsAssumption DEF Init
<1>7. /\ pod \in BOOLEAN /\ podCache \in BOOLEAN /\ granted \in BOOLEAN
      /\ process \in BOOLEAN /\ registered \in BOOLEAN
      /\ primitiveQueue \in BOOLEAN /\ podQueue \in BOOLEAN
      /\ proxyQueue \subseteq PrimitiveUIDs
  BY DEF Init
<1> QED BY <1>1, <1>2, <1>3, <1>4, <1>5, <1>6, <1>7 DEF TypeInv, TypeOK

(* Steps of users, kubelet, the agent and the garbage collector. *)
LEMMA TypeEnvironment ==
    ASSUME TypeInv, Environment \/ GarbageCollect
    PROVE  TypeInv'
<1> USE DEF TypeInv
<1>f. CallFits(xw)' /\ SweepFits(mw)'
  <2>1. UNCHANGED <<xw, mw>>
    BY DEF Environment, CreatePrimitive, DeletePrimitive, ChangeGrant,
         StartContainer, RestartBroker, DeletePod, GarbageCollect, AgentRebinds,
         AgentStarts, AgentReady, DeleteAgent, AgentStops, RemoveAgent, sweepWork,
         proxyWork
  <2> QED BY <2>1 DEF CallFits, SweepFits
<1>s. NotServed \in ServedProxy
  BY DEF NotServed, ServedProxy
<1>1. CASE CreatePrimitive
  <2>1. primitives + 1 \in 1..MaxPrimitives /\ primitives' \in 0..MaxPrimitives
    BY <1>1, BoundsAssumption DEF CreatePrimitive, TypeOK
  <2>2. PrimitiveShape(primitive')
    BY <1>1, <2>1, CreatedPrimitive DEF CreatePrimitive
  <2> QED BY <1>1, <1>f, <2>1, <2>2 DEF CreatePrimitive, TypeOK, hostVars, cacheVars,
        sweepWork, proxyWork, podWork
<1>2. CASE DeletePrimitive
  <2>1. PrimitiveShape(primitive')
    BY <1>2, DeletedPrimitive DEF DeletePrimitive, TypeOK
  <2> QED BY <1>2, <1>f, <2>1 DEF DeletePrimitive, TypeOK, hostVars, cacheVars,
        sweepWork, proxyWork, podWork, history
<1>3. CASE ChangeGrant
  <2>1. grants' \in 0..MaxGrants
    BY <1>3, BoundsAssumption DEF ChangeGrant, TypeOK
  <2> QED BY <1>3, <1>f, <2>1 DEF ChangeGrant, TypeOK, hostVars, cacheVars,
        sweepWork, proxyWork, podWork
<1>4. CASE StartContainer
  <2>1. container' \in 0..MaxContainers
    BY <1>4, BoundsAssumption DEF StartContainer, TypeOK
  <2> QED BY <1>4, <1>f, <1>s, <2>1 DEF StartContainer, TypeOK, apiVars, cacheVars,
        sweepWork, proxyWork, podWork, history
<1>5. CASE RestartBroker
  <2>1. brokerRestarts' \in 0..MaxBrokerRestarts
    BY <1>5, BoundsAssumption DEF RestartBroker, TypeOK
  <2> QED BY <1>5, <1>f, <2>1 DEF RestartBroker, TypeOK, apiVars, cacheVars,
        sweepWork, proxyWork, podWork
<1>6. CASE DeletePod
  BY <1>6, <1>f, <1>s DEF DeletePod, TypeOK, cacheVars, sweepWork, proxyWork, podWork,
       history
<1>7. CASE GarbageCollect
  <2>1. PICK u \in PrimitiveUIDs :
            proxies' = [proxies EXCEPT ![u] = Deleted(proxies[u], NoProxy)]
    BY <1>7 DEF GarbageCollect
  <2>2. /\ proxies' \in [PrimitiveUIDs -> ProxyObject]
        /\ \A v \in PrimitiveUIDs : ProxyShape(proxies'[v])
    BY <2>1, DeletedProxy DEF TypeOK, ProxyShape
  <2> QED BY <1>7, <1>f, <2>2 DEF GarbageCollect, TypeOK, hostVars, cacheVars,
        sweepWork, proxyWork, podWork, history
<1>8. CASE AgentRebinds \/ AgentReady \/ DeleteAgent \/ RemoveAgent
  <2>1. agent' \in AgentObject
    <3>1. CASE AgentRebinds
      <4>1. PICK cid \in agent.cid + 1 .. container :
                agent' = [agent EXCEPT !.cid = cid, !.ready = FALSE]
        BY <3>1 DEF AgentRebinds
      <4>2. cid \in 0..MaxContainers
        BY <4>1, BoundsAssumption DEF TypeOK, AgentObject
      <4> QED BY <4>1, <4>2 DEF TypeOK, AgentObject
    <3>2. CASE AgentReady
      BY <3>2 DEF AgentReady, TypeOK, AgentObject
    <3>3. CASE DeleteAgent
      BY <3>3 DEF DeleteAgent, TypeOK, AgentObject
    <3>4. CASE RemoveAgent
      BY <3>4, BoundsAssumption DEF RemoveAgent, NoAgent, AgentObject
    <3> QED BY <1>8, <3>1, <3>2, <3>3, <3>4
  <2>2. UNCHANGED <<primitive, proxies, pod, granted, hostVars, cacheVars, sweepWork,
                    proxyWork, podWork, history>>
    BY <1>8 DEF AgentRebinds, AgentReady, DeleteAgent, RemoveAgent
  <2> QED BY <1>f, <2>1, <2>2 DEF TypeOK, hostVars, cacheVars, sweepWork, proxyWork,
        podWork, history
<1>9. CASE AgentStarts \/ AgentStops
  <2>1. process' \in BOOLEAN /\ served' \in ServedProxy
    BY <1>9, <1>s DEF AgentStarts, AgentStops, TypeOK
  <2>2. UNCHANGED <<apiVars, container, registered, cacheVars, sweepWork, proxyWork,
                    podWork, history>>
    BY <1>9 DEF AgentStarts, AgentStops
  <2> QED BY <1>f, <2>1, <2>2 DEF TypeOK, apiVars, cacheVars, sweepWork, proxyWork,
        podWork, history
<1> QED BY <1>1, <1>2, <1>3, <1>4, <1>5, <1>6, <1>7, <1>8, <1>9 DEF Environment

(* Steps of the PodReconciler and of the informers. *)
LEMMA TypePodAndInformers ==
    ASSUME TypeInv,
           \/ PodStep \/ PodFault \/ SyncPrimitive \/ SyncAgent \/ SyncPod
           \/ \E u \in PrimitiveUIDs : SyncProxy(u)
    PROVE  TypeInv'
<1> USE DEF TypeInv
<1>f. CallFits(xw)' /\ SweepFits(mw)'
  <2>1. UNCHANGED <<xw, mw>>
    BY DEF PodStep, PodBegin, PodCreatesProxy, PodDeletesProxy, PodFault,
         SyncPrimitive, SyncAgent, SyncPod, SyncProxy, sweepWork, proxyWork
  <2> QED BY <2>1 DEF CallFits, SweepFits
<1>1. CASE PodBegin
  <2>1. /\ dw' \in PodWorker
        /\ dw'.op # "idle" => dw'.key # 0
        /\ dw'.op = "create" => made < MaxProxies
    <3>1. CASE dw' = IdlePodWorker
      BY <3>1, IdleWorkers
    <3>2. CASE dw' # IdlePodWorker
      <4>1. PICK op \in {"create", "delete"}, w \in BOOLEAN :
                /\ dw' = [op |-> op, key |-> primitiveCache.uid, write |-> w]
                /\ op = "create" => made < MaxProxies
                /\ primitiveCache.uid # 0
        BY <1>1, <3>2 DEF PodBegin, reconcilePrimitive, TypeOK
      <4>2. primitiveCache.uid \in 0..MaxPrimitives
        BY DEF TypeOK, PrimitiveShape, PrimitiveObject
      <4> QED BY <4>1, <4>2 DEF PodWorker
    <3> QED BY <3>1, <3>2
  <2> QED BY <1>1, <1>f, <2>1 DEF PodBegin, TypeOK, apiVars, hostVars, cacheVars,
        sweepWork, proxyWork, history
<1>2. CASE PodCreatesProxy
  <2>1. dw.key \in PrimitiveUIDs /\ made < MaxProxies /\ dw.write \in BOOLEAN
    BY <1>2, BoundsAssumption DEF PodCreatesProxy, TypeOK, PodWorker, PrimitiveUIDs
  <2>2. made + 1 \in 1..MaxProxies /\ made + 1 \in 0..MaxProxies
    BY <2>1, BoundsAssumption DEF TypeOK
  <2>3. /\ made' \in 0..MaxProxies
        /\ proxies' \in [PrimitiveUIDs -> ProxyObject]
        /\ \A v \in PrimitiveUIDs : ProxyShape(proxies'[v])
    <3>1. CASE proxies[dw.key].uid = 0
      <4> DEFINE x == NewProxy(made + 1, dw.write)
      <4>1. ProxyShape(x)
        BY <2>1, <2>2, CreatedProxy
      <4>2. proxies' = [proxies EXCEPT ![dw.key] = x] /\ made' = made + 1
        BY <1>2, <3>1 DEF PodCreatesProxy, NewProxy
      <4> HIDE DEF x
      <4> QED BY <2>1, <2>2, <4>1, <4>2 DEF TypeOK, ProxyShape
    <3>2. CASE proxies[dw.key].uid # 0
      BY <1>2, <3>2 DEF PodCreatesProxy, TypeOK
    <3> QED BY <3>1, <3>2
  <2> QED BY <1>2, <1>f, <2>3, IdleWorkers DEF PodCreatesProxy, TypeOK, hostVars,
        cacheVars, sweepWork, proxyWork
<1>3. CASE PodDeletesProxy
  <2>1. dw.key \in PrimitiveUIDs
    BY <1>3, BoundsAssumption DEF PodDeletesProxy, TypeOK, PodWorker, PrimitiveUIDs
  <2>2. proxies' = [proxies EXCEPT ![dw.key] = Deleted(proxies[dw.key], NoProxy)]
    BY <1>3 DEF PodDeletesProxy
  <2>3. /\ proxies' \in [PrimitiveUIDs -> ProxyObject]
        /\ \A v \in PrimitiveUIDs : ProxyShape(proxies'[v])
    BY <2>1, <2>2, DeletedProxy DEF TypeOK, ProxyShape
  <2> QED BY <1>3, <1>f, <2>3, IdleWorkers DEF PodDeletesProxy, TypeOK, hostVars,
        cacheVars, sweepWork, proxyWork, history
<1>4. CASE PodFault
  <2>1. faults' \in 0..MaxFaults
    BY <1>4, BoundsAssumption DEF PodFault, TypeOK
  <2> QED BY <1>4, <1>f, <2>1, IdleWorkers DEF PodFault, TypeOK, apiVars, hostVars,
        cacheVars, sweepWork, proxyWork
<1>5. CASE SyncPrimitive
  <2>1. proxyQueue' \subseteq PrimitiveUIDs
    BY <1>5 DEF SyncPrimitive, LabelledProxies, TypeOK
  <2> QED BY <1>5, <1>f, <2>1 DEF SyncPrimitive, TypeOK, apiVars, hostVars, history
<1>6. CASE SyncAgent
  <2>1. proxyQueue' \subseteq PrimitiveUIDs
    BY <1>6 DEF SyncAgent, TypeOK
  <2> QED BY <1>6, <1>f, <2>1 DEF SyncAgent, TypeOK, apiVars, hostVars, sweepWork,
        history
<1>7. CASE SyncPod
  BY <1>7, <1>f DEF SyncPod, TypeOK, apiVars, hostVars, sweepWork, proxyWork, history
<1>8. CASE \E u \in PrimitiveUIDs : SyncProxy(u)
  <2>1. PICK u \in PrimitiveUIDs : SyncProxy(u)
    BY <1>8
  <2>2. /\ proxyCache' \in [PrimitiveUIDs -> ProxyObject]
        /\ \A v \in PrimitiveUIDs : ProxyShape(proxyCache'[v])
        /\ proxyQueue' \subseteq PrimitiveUIDs
    BY <2>1 DEF SyncProxy, TypeOK
  <2> QED BY <2>1, <1>f, <2>2 DEF SyncProxy, TypeOK, apiVars, hostVars, sweepWork,
        history
<1> QED BY <1>1, <1>2, <1>3, <1>4, <1>5, <1>6, <1>7, <1>8 DEF PodStep

(* Steps of the PrimitiveReconciler. *)
LEMMA TypeSweepStep ==
    ASSUME TypeInv, SweepStep \/ SweepFault
    PROVE  TypeInv'
<1> USE DEF TypeInv
<1>f. CallFits(xw)'
  <2>1. UNCHANGED xw
    BY DEF SweepStep, SweepFault, SweepBegin, Sweep, SweepWrite, SweepConflict,
         SweepRetry, proxyWork
  <2> QED BY <2>1 DEF CallFits
<1>i. SweepFits(IdleSweepWorker)
  BY IdleWorkers DEF SweepFits
<1>1. CASE SweepBegin
  <2> DEFINE op == PrimitiveReconcile(primitiveCache)
  <2>1. CASE op = "idle"
    <3>1. mw' = IdleSweepWorker
      BY <1>1, <2>1 DEF SweepBegin
    <3> QED BY <1>1, <1>f, <1>i, <3>1, IdleWorkers, Absent DEF SweepBegin, TypeOK,
          apiVars, hostVars, cacheVars, proxyWork, podWork, history, SweepFits
  <2>2. CASE op # "idle"
    <3>1. /\ op \in {"addFinalizer", "sweep"} /\ primitiveCache.uid # 0
          /\ op = "addFinalizer" => ~primitiveCache.deleting
          /\ op = "sweep" => primitiveCache.deleting
      BY <2>2 DEF PrimitiveReconcile
    <3> HIDE DEF op
    <3>2. mw' = [op |-> op, primitive |-> primitiveCache]
      BY <1>1, <2>2 DEF SweepBegin, op
    <3>3. mw' \in SweepWorker /\ mw'.primitive = primitiveCache /\ mw'.op = op
      BY <3>1, <3>2 DEF SweepWorker, SweepOps, TypeOK, PrimitiveShape
    <3>4. SweepFits(mw)'
      BY <3>1, <3>3 DEF SweepFits
    <3> QED BY <1>1, <1>f, <3>1, <3>3, <3>4 DEF SweepBegin, TypeOK, apiVars, hostVars,
          cacheVars, proxyWork, podWork, history
  <2> QED BY <2>1, <2>2
<1>2. CASE Sweep
  <2>1. /\ proxies' \in [PrimitiveUIDs -> ProxyObject]
        /\ \A v \in PrimitiveUIDs : ProxyShape(proxies'[v])
    BY <1>2, DeletedProxy DEF Sweep, TypeOK, ProxyShape
  <2>2. /\ mw' \in SweepWorker /\ mw'.primitive = mw.primitive
        /\ mw'.op = "removeFinalizer" /\ mw.primitive.uid # 0 /\ mw.primitive.deleting
    BY <1>2 DEF Sweep, TypeOK, SweepWorker, SweepOps, SweepFits
  <2>3. SweepFits(mw)'
    BY <2>2 DEF SweepFits
  <2> QED BY <1>2, <1>f, <2>1, <2>2, <2>3 DEF Sweep, TypeOK, hostVars, cacheVars,
        proxyWork, podWork, history
<1>3. CASE SweepWrite
  <2>1. PrimitiveShape(primitive')
    <3>1. CASE mw.op = "addFinalizer"
      BY <1>3, <3>1, WrittenPrimitive DEF SweepWrite, TypeOK
    <3>2. CASE mw.op = "removeFinalizer"
      BY <1>3, <3>2, WrittenPrimitive, Absent DEF SweepWrite, TypeOK, SweepFits
    <3> QED BY <1>3, <3>1, <3>2 DEF SweepWrite
  <2> QED BY <1>3, <1>f, <1>i, <2>1, IdleWorkers, Absent DEF SweepWrite, TypeOK,
        hostVars, cacheVars, proxyWork, podWork, history, SweepFits
<1>4. CASE SweepConflict \/ SweepFault
  <2>1. faults' \in 0..MaxFaults
    BY <1>4, BoundsAssumption DEF SweepConflict, SweepFault, TypeOK
  <2>2. SweepRetry
    BY <1>4 DEF SweepConflict, SweepFault
  <2>3. SweepFits(mw)'
    BY <1>i, <2>2 DEF SweepRetry, SweepFits
  <2> QED BY <1>f, <2>1, <2>2, <2>3, IdleWorkers, Absent DEF SweepRetry, TypeOK, apiVars,
        hostVars, cacheVars, proxyWork, podWork
<1> QED BY <1>1, <1>2, <1>3, <1>4 DEF SweepStep

(* Steps of the ProxyReconciler, and the controller's crash. *)
LEMMA TypeProxyStep ==
    ASSUME TypeInv, ProxyStep \/ ProxyFault \/ Crash
    PROVE  TypeInv'
<1> USE DEF TypeInv
<1>i. CallFits(IdleProxyWorker) /\ SweepFits(IdleSweepWorker)
  BY IdleWorkers DEF CallFits, SweepFits
<1>f. ~Crash => SweepFits(mw)'
  <2>1. ~Crash => UNCHANGED mw
    BY DEF ProxyStep, ProxyFault, ProxyBegin, ProxyDelete, CreateProxy,
         RegisterPrimitive, UnregisterPrimitive, DestroyProxy, ProxyWrite,
         ProxyUnreachable, ProxyConflict, ProxyRetry, sweepWork
  <2> QED BY <2>1 DEF SweepFits
<1>k. xw.op # "idle" => xw.key \in PrimitiveUIDs
  BY BoundsAssumption DEF TypeOK, ProxyWorker, PrimitiveUIDs
<1>1. CASE \E k \in PrimitiveUIDs : ProxyBegin(k)
  <2>1. PICK k \in PrimitiveUIDs : ProxyBegin(k)
    BY <1>1
  <2> DEFINE op == ProxyReconcile(proxyCache[k], agentCache, podCache, primitiveCache)
  <2>2. proxyQueue' \subseteq PrimitiveUIDs /\ SweepFits(mw)'
    BY <2>1, <1>f DEF ProxyBegin, TypeOK, sweepWork, SweepFits
  <2>3. CASE op = "idle"
    <3>1. xw' = IdleProxyWorker
      BY <2>1, <2>3 DEF ProxyBegin
    <3> QED BY <2>1, <2>2, <1>i, <3>1, IdleWorkers, Absent DEF ProxyBegin, TypeOK,
          apiVars, hostVars, cacheVars, sweepWork, podWork, history, CallFits
  <2>4. CASE op # "idle"
    <3>1. /\ op \in ProxyOps /\ proxyCache[k].uid # 0
          /\ op \notin {"register", "ready", "destroyProxy"}
          /\ op \in {"addFinalizer", "delete", "rebind", "createProxy"}
               => ~proxyCache[k].deleting
          /\ op \in {"rebind", "createProxy"} => proxyCache[k].fin
          /\ op \in {"unregister", "removeFinalizer"} => proxyCache[k].deleting
      BY <2>4, Decisions DEF ProxyOps, CallOps, WriteOps
    <3>2. agentCache.cid \in 0..MaxContainers /\ 0 \in 0..MaxContainers
      BY BoundsAssumption DEF TypeOK, AgentObject
    <3>3. PICK cid \in 0..MaxContainers :
              xw' = [op |-> op, key |-> k, proxy |-> proxyCache[k], cid |-> cid]
      BY <2>1, <2>4, <3>2 DEF ProxyBegin
    <3> HIDE DEF op
    <3>4. k \in 0..MaxPrimitives /\ k # 0
      BY BoundsAssumption DEF PrimitiveUIDs
    <3>5. /\ xw' \in ProxyWorker
          /\ xw'.proxy = proxyCache[k] /\ xw'.op = op /\ xw'.key = k
      BY <3>1, <3>3, <3>4 DEF ProxyWorker, TypeOK, ProxyShape
    <3>6. CallFits(xw)'
      BY <3>1, <3>5 DEF CallFits
    <3> QED BY <2>1, <2>2, <3>1, <3>4, <3>5, <3>6 DEF ProxyBegin, TypeOK, apiVars,
          hostVars, cacheVars, sweepWork, podWork, history
  <2> QED BY <2>3, <2>4
<1>2. CASE ProxyDelete
  <2>1. proxies' = [proxies EXCEPT ![xw.key] = Deleted(proxies[xw.key], NoProxy)]
          /\ xw.key \in PrimitiveUIDs
    BY <1>2, <1>k DEF ProxyDelete
  <2>2. /\ proxies' \in [PrimitiveUIDs -> ProxyObject]
        /\ \A v \in PrimitiveUIDs : ProxyShape(proxies'[v])
    BY <2>1, DeletedProxy DEF TypeOK, ProxyShape
  <2> QED BY <1>2, <1>i, <2>2, IdleWorkers, Absent DEF ProxyDelete, TypeOK, hostVars,
        cacheVars, sweepWork, podWork, history, CallFits, SweepFits
<1>3. CASE CreateProxy \/ RegisterPrimitive \/ UnregisterPrimitive \/ DestroyProxy
  <2>1. served' \in ServedProxy /\ registered' \in BOOLEAN
    <3>1. [up |-> TRUE, write |-> xw.proxy.write] \in ServedProxy
            /\ NotServed \in ServedProxy
      BY DEF TypeOK, ServedProxy, NotServed, ProxyShape, ProxyObject
    <3>2. \/ served' = served \/ served' = NotServed
          \/ served' = [up |-> TRUE, write |-> xw.proxy.write]
      BY <1>3 DEF CreateProxy, RegisterPrimitive, UnregisterPrimitive, DestroyProxy
    <3>3. registered' = registered \/ registered' \in BOOLEAN
      BY <1>3 DEF CreateProxy, RegisterPrimitive, UnregisterPrimitive, DestroyProxy
    <3> QED BY <3>1, <3>2, <3>3 DEF TypeOK
  <2>2. PICK op \in {"register", "ready", "destroyProxy", "removeFinalizer"} :
            /\ xw' = [xw EXCEPT !.op = op]
            /\ op \in {"register", "ready"} => xw.op \in {"createProxy", "register"}
            /\ op \in {"destroyProxy", "removeFinalizer"} =>
                  xw.op \in {"unregister", "destroyProxy"}
    BY <1>3 DEF CreateProxy, RegisterPrimitive, UnregisterPrimitive, DestroyProxy
  <2>3. /\ xw' \in ProxyWorker
        /\ xw'.op = op /\ xw'.key = xw.key /\ xw'.proxy = xw.proxy
        /\ xw.op # "idle"
    BY <2>2 DEF TypeOK, ProxyWorker, ProxyOps, CallOps, WriteOps
  <2>4. CallFits(xw)' /\ SweepFits(mw)'
    BY <1>3, <2>2, <2>3 DEF CallFits, SweepFits, CreateProxy, RegisterPrimitive,
         UnregisterPrimitive, DestroyProxy, sweepWork
  <2>5. UNCHANGED <<apiVars, container, process, cacheVars, sweepWork, proxyQueue,
                    podWork, history>>
    BY <1>3 DEF CreateProxy, RegisterPrimitive, UnregisterPrimitive, DestroyProxy
  <2> QED BY <2>1, <2>3, <2>4, <2>5 DEF TypeOK, apiVars, cacheVars, sweepWork,
        podWork, history
<1>4. CASE ProxyWrite
  <2>1. /\ xw.op \in WriteOps /\ xw.key \in PrimitiveUIDs /\ xw.proxy.uid # 0
        /\ proxies' = [proxies EXCEPT ![xw.key] = Written(xw)]
    BY <1>4, <1>k DEF ProxyWrite, WriteOps, TypeOK
  <2>2. ProxyShape(Written(xw))
    BY <2>1, WrittenProxy DEF TypeOK
  <2>3. /\ proxies' \in [PrimitiveUIDs -> ProxyObject]
        /\ \A v \in PrimitiveUIDs : ProxyShape(proxies'[v])
    BY <2>1, <2>2 DEF TypeOK, ProxyShape
  <2> QED BY <1>4, <1>i, <2>3, IdleWorkers, Absent DEF ProxyWrite, TypeOK, hostVars,
        cacheVars, sweepWork, podWork, history, CallFits, SweepFits
<1>5. CASE ProxyUnreachable \/ ProxyConflict \/ ProxyFault
  <2>1. ProxyRetry /\ xw.op # "idle" /\ faults' \in 0..MaxFaults
    BY <1>5, BoundsAssumption DEF ProxyUnreachable, ProxyConflict, ProxyFault,
         WriteOps, TypeOK
  <2>2. proxyQueue' \subseteq PrimitiveUIDs
    BY <1>k, <2>1 DEF ProxyRetry, TypeOK
  <2> QED BY <1>i, <2>1, <2>2, IdleWorkers, Absent DEF ProxyRetry, TypeOK, apiVars,
        hostVars, cacheVars, sweepWork, podWork, CallFits, SweepFits
<1>6. CASE Crash
  <2>1. /\ faults' \in 0..MaxFaults /\ primitiveQueue' \in BOOLEAN
        /\ proxyQueue' \subseteq PrimitiveUIDs
    BY <1>6, BoundsAssumption DEF Crash, TypeOK
  <2>2. xw' = IdleProxyWorker /\ mw' = IdleSweepWorker /\ dw' = IdlePodWorker
    BY <1>6 DEF Crash
  <2> QED BY <1>6, <1>i, <2>1, <2>2, IdleWorkers, Absent DEF Crash, TypeOK, apiVars,
        hostVars, CallFits, SweepFits
<1> QED BY <1>1, <1>2, <1>3, <1>4, <1>5, <1>6 DEF ProxyStep

(* One step of the whole system. *)
LEMMA TypeStep == TypeInv /\ [Next]_vars => TypeInv'
<1> SUFFICES ASSUME TypeInv, [Next]_vars PROVE TypeInv'
  OBVIOUS
<1>1. CASE UNCHANGED vars
  BY <1>1 DEF TypeInv, TypeOK, CallFits, SweepFits, vars, apiVars, hostVars, cacheVars,
       sweepWork, proxyWork, podWork, history
<1>2. CASE Next
  BY <1>2, TypeEnvironment, TypePodAndInformers, TypeSweepStep, TypeProxyStep
     DEF Next, Faults
<1> QED BY <1>1, <1>2

(* The objects, their copies in the caches and in the workers, and the state
   of the hosts keep their shape, for every number of primitives, proxies,
   containers and faults: a proxy has a status or a deletion mark only once it
   is claimed by its finalizer (proxy.go:109-112). *)
THEOREM TypeCorrect == Spec => []TypeOK
<1>1. TypeInv => TypeOK
  BY DEF TypeInv
<1> QED BY <1>1, TypeInit, TypeStep, PTL DEF Spec

-----------------------------------------------------------------------------
(* The inductive invariant *)

\* Nothing refers to an incarnation of the primitive that is not made yet, and
\* the incarnation that exists is the last one made.
PrimitivesKnown ==
    /\ primitive.uid \in {0, primitives}
    /\ primitiveCache.uid <= primitives
    /\ mw.primitive.uid <= primitives
    /\ xw.key <= primitives
    /\ dw.key <= primitives
    /\ \A u \in PrimitiveUIDs :
          proxies[u].uid # 0 \/ proxyCache[u].uid # 0 => u <= primitives

\* The proxy of the existing primitive was created from the cache, so the cache
\* has that primitive; the pod and the agent, once missed, are gone for good.
CacheCovers ==
    /\ \A u \in PrimitiveUIDs :
          /\ primitive.uid = u
          /\ proxies[u].uid # 0 \/ proxyCache[u].uid # 0 \/ dw.key = u \/ xw.key = u
          => primitiveCache.uid = u
    /\ pod => podCache
    /\ AgentGone(agentCache) => AgentGone(agent)

\* A deletion is never undone: a copy that says "deleted" is right, and what
\* the PrimitiveReconciler is sweeping the cache shows as deleted.
DeletionsStand ==
    /\ primitiveCache.uid = primitive.uid /\ primitiveCache.deleting
          => primitive.deleting
    /\ mw.op \in {"sweep", "removeFinalizer"} /\ mw.primitive.uid = primitive.uid
          => primitiveCache.uid = primitive.uid /\ primitiveCache.deleting

\* What the ProxyReconciler has decided is still justified when it acts.
DecisionsStand ==
    /\ xw.op = "destroyProxy" => ~registered
    /\ xw.op = "removeFinalizer" =>
          \/ ~(pod /\ primitive.uid = xw.key /\ ~AgentGone(agent))
          \/ ~served.up /\ ~registered

ProxyInv ==
    /\ TypeInv
    /\ PrimitivesKnown
    /\ CacheCovers
    /\ DeletionsStand
    /\ DecisionsStand

-----------------------------------------------------------------------------
(* The invariant is inductive *)

(* The numbers the invariant compares are numbers. *)
LEMMA Numbers ==
    ASSUME TypeInv
    PROVE  /\ primitive.uid \in Nat /\ primitiveCache.uid \in Nat
           /\ mw.primitive.uid \in Nat
           /\ xw.key \in Nat /\ xw.cid \in Nat /\ dw.key \in Nat
           /\ xw.proxy.uid \in Nat /\ xw.proxy.cid \in Nat
           /\ agent.cid \in Nat /\ agentCache.cid \in Nat
           /\ primitives \in Nat /\ made \in Nat /\ container \in Nat
           /\ brokerRestarts \in Nat
           /\ \A u \in PrimitiveUIDs :
                 /\ u \in Nat /\ u # 0
                 /\ proxies[u].uid \in Nat /\ proxyCache[u].uid \in Nat
                 /\ proxies[u].cid \in Nat /\ proxyCache[u].cid \in Nat
<1>1. \A m \in PrimitiveObject : m.uid \in Nat
  BY BoundsAssumption DEF PrimitiveObject
<1>2. \A x \in ProxyObject : x.uid \in Nat /\ x.cid \in Nat
  BY BoundsAssumption DEF ProxyObject
<1>3. \A g \in AgentObject : g.cid \in Nat
  BY BoundsAssumption DEF AgentObject
<1>4. xw.key \in Nat /\ xw.cid \in Nat /\ dw.key \in Nat
  BY BoundsAssumption DEF TypeInv, TypeOK, ProxyWorker, PodWorker
<1>5. /\ primitives \in Nat /\ made \in Nat /\ container \in Nat
      /\ brokerRestarts \in Nat
  BY BoundsAssumption DEF TypeInv, TypeOK
<1>6. /\ primitive \in PrimitiveObject /\ primitiveCache \in PrimitiveObject
      /\ mw.primitive \in PrimitiveObject /\ xw.proxy \in ProxyObject
      /\ agent \in AgentObject /\ agentCache \in AgentObject
      /\ \A u \in PrimitiveUIDs :
            proxies[u] \in ProxyObject /\ proxyCache[u] \in ProxyObject
  BY DEF TypeInv, TypeOK, PrimitiveShape, ProxyShape
<1> QED BY <1>1, <1>2, <1>3, <1>4, <1>5, <1>6, BoundsAssumption DEF PrimitiveUIDs

(* A worker that is not at rest works for a UID. *)
LEMMA Keys ==
    ASSUME TypeInv
    PROVE  /\ xw.op # "idle" => xw.key \in PrimitiveUIDs /\ xw.proxy.uid # 0
           /\ dw.op # "idle" => dw.key \in PrimitiveUIDs
BY BoundsAssumption DEF TypeInv, TypeOK, ProxyWorker, PodWorker, PrimitiveUIDs

(* With nothing created and nothing cached the invariant holds. *)
LEMMA ProxyInvInit == Init => ProxyInv
<1> SUFFICES ASSUME Init PROVE ProxyInv
  OBVIOUS
<1>1. /\ \A u \in PrimitiveUIDs : proxies[u].uid = 0 /\ proxyCache[u].uid = 0
      /\ primitive.uid = 0 /\ primitiveCache.uid = 0
      /\ mw.op = "idle" /\ mw.primitive.uid = 0
      /\ xw.op = "idle" /\ xw.key = 0 /\ dw.key = 0 /\ primitives = 0
      /\ ~primitiveCache.deleting
  BY Absent, IdleWorkers DEF Init
<1>2. PrimitivesKnown
  BY <1>1 DEF PrimitivesKnown
<1>3. CacheCovers
  BY <1>1 DEF Init, CacheCovers, PrimitiveUIDs
<1>4. DeletionsStand /\ DecisionsStand
  BY <1>1 DEF DeletionsStand, DecisionsStand
<1> QED BY <1>2, <1>3, <1>4, TypeInit DEF ProxyInv

(* The agent object changes only as AgentController lets it. *)
LEMMA AgentFates ==
    ASSUME [Next]_vars
    PROVE  AgentRebinds \/ AgentReady \/ DeleteAgent \/ RemoveAgent \/ UNCHANGED agent
<1>1. \/ UNCHANGED vars \/ GarbageCollect \/ PodStep \/ SyncPrimitive \/ SyncAgent
      \/ SyncPod \/ \E u \in PrimitiveUIDs : SyncProxy(u)
      => UNCHANGED agent
  BY DEF vars, GarbageCollect, PodStep, PodBegin, PodCreatesProxy, PodDeletesProxy,
       SyncPrimitive, SyncAgent, SyncPod, SyncProxy, apiVars
<1>2. SweepStep \/ ProxyStep => UNCHANGED agent
  BY DEF SweepStep, SweepBegin, Sweep, SweepWrite, SweepConflict, SweepRetry,
       ProxyStep, ProxyBegin, ProxyDelete, CreateProxy, RegisterPrimitive,
       UnregisterPrimitive, DestroyProxy, ProxyWrite, ProxyUnreachable,
       ProxyConflict, ProxyRetry, apiVars
<1>3. Faults => UNCHANGED agent
  BY DEF Faults, PodFault, SweepFault, SweepRetry, ProxyFault, ProxyRetry, Crash,
       apiVars
<1>4. \/ CreatePrimitive \/ DeletePrimitive \/ ChangeGrant \/ StartContainer
      \/ RestartBroker \/ DeletePod \/ AgentStarts \/ AgentStops
      => UNCHANGED agent
  BY DEF CreatePrimitive, DeletePrimitive, ChangeGrant, StartContainer,
       RestartBroker, DeletePod, AgentStarts, AgentStops, apiVars
<1> QED BY <1>1, <1>2, <1>3, <1>4 DEF Next, Environment

(* An agent that is gone stays gone. *)
LEMMA AgentStaysGone ==
    ASSUME TypeOK, [Next]_vars
    PROVE  AgentGone(agent) => AgentGone(agent')
<1>1. CASE AgentRebinds \/ AgentReady \/ DeleteAgent
  BY <1>1 DEF AgentRebinds, AgentReady, DeleteAgent, TypeOK, AgentObject, AgentGone
<1>2. CASE RemoveAgent
  BY <1>2 DEF RemoveAgent, NoAgent, AgentGone
<1>3. CASE UNCHANGED agent
  BY <1>3 DEF AgentGone
<1> QED BY <1>1, <1>2, <1>3, AgentFates

(* Steps of users, kubelet, the agent and the garbage collector. *)
LEMMA ProxyInvEnvironment ==
    ASSUME ProxyInv, Environment \/ GarbageCollect
    PROVE  PrimitivesKnown' /\ CacheCovers' /\ DeletionsStand' /\ DecisionsStand'
<1> USE Numbers DEF ProxyInv
<1>g. AgentGone(agent) => AgentGone(agent')
  BY AgentStaysGone DEF TypeInv, Next
<1>1. CASE CreatePrimitive
  <2>1. primitive'.uid = primitives + 1 /\ primitives' = primitives + 1
    <3>1. primitives + 1 \in 1..MaxPrimitives
      BY <1>1, BoundsAssumption DEF CreatePrimitive, TypeInv, TypeOK
    <3> QED BY <1>1, <3>1, CreatedPrimitive DEF CreatePrimitive
  <2>2. /\ primitiveCache.uid # primitive'.uid /\ mw.primitive.uid # primitive'.uid
        /\ xw.key # primitive'.uid /\ dw.key # primitive'.uid
        /\ \A u \in PrimitiveUIDs : primitive'.uid = u =>
              proxies[u].uid = 0 /\ proxyCache[u].uid = 0
    BY <2>1 DEF PrimitivesKnown
  <2>3. PrimitivesKnown'
    BY <1>1, <2>1 DEF CreatePrimitive, PrimitivesKnown, cacheVars, sweepWork,
         proxyWork, podWork
  <2>4. CacheCovers'
    BY <1>1, <2>2 DEF CreatePrimitive, CacheCovers, AgentGone, cacheVars, proxyWork,
         podWork
  <2>5. DeletionsStand' /\ DecisionsStand'
    BY <1>1, <2>2 DEF CreatePrimitive, DeletionsStand, DecisionsStand, AgentGone,
         hostVars, cacheVars, sweepWork, proxyWork
  <2> QED BY <2>3, <2>4, <2>5
<1>2. CASE DeletePrimitive
  <2>1. primitive'.uid = 0 \/ (primitive'.uid = primitive.uid /\ primitive'.deleting)
    BY <1>2, DeletedPrimitive DEF DeletePrimitive, TypeInv, TypeOK
  <2>2. primitiveCache.uid = 0 => ~primitiveCache.deleting
    BY Absent DEF TypeInv, TypeOK, PrimitiveShape
  <2>3. mw.op # "idle" => mw.primitive.uid # 0
    BY DEF TypeInv, TypeOK
  <2>4. xw.op # "idle" => xw.key # 0
    BY Keys
  <2>5. PrimitivesKnown'
    BY <1>2, <2>1 DEF DeletePrimitive, PrimitivesKnown, cacheVars, sweepWork,
         proxyWork, podWork, history
  <2>6. CacheCovers'
    BY <1>2, <2>1 DEF DeletePrimitive, CacheCovers, AgentGone, cacheVars, proxyWork,
         podWork
  <2>7. DeletionsStand' /\ DecisionsStand'
    BY <1>2, <2>1, <2>2, <2>3, <2>4 DEF DeletePrimitive, DeletionsStand, DecisionsStand,
         AgentGone, hostVars, cacheVars, sweepWork, proxyWork
  <2> QED BY <2>5, <2>6, <2>7
<1>3. CASE ChangeGrant
  BY <1>3 DEF ChangeGrant, PrimitivesKnown, CacheCovers, DeletionsStand,
       DecisionsStand, AgentGone, hostVars, cacheVars, sweepWork, proxyWork, podWork
<1>4. CASE StartContainer \/ RestartBroker \/ DeletePod \/ AgentStarts \/ AgentStops
  <2>1. /\ UNCHANGED <<primitive, proxies, agent, cacheVars, sweepWork, proxyWork,
                       podWork, primitives>>
        /\ pod' => pod
        /\ served'.up => served.up
        /\ registered' => registered
    BY <1>4 DEF StartContainer, RestartBroker, DeletePod, AgentStarts, AgentStops,
         NotServed, apiVars, history
  <2> QED BY <2>1 DEF PrimitivesKnown, CacheCovers, DeletionsStand, DecisionsStand,
        AgentGone, cacheVars, sweepWork, proxyWork, podWork
<1>5. CASE GarbageCollect
  <2>1. \A u \in PrimitiveUIDs : proxies'[u].uid # 0 => proxies[u].uid # 0
    <3>1. PICK v \in PrimitiveUIDs :
              proxies' = [proxies EXCEPT ![v] = Deleted(proxies[v], NoProxy)]
      BY <1>5 DEF GarbageCollect
    <3> QED BY <3>1, DeletedProxy, Absent DEF TypeInv, TypeOK
  <2> QED BY <1>5, <2>1 DEF GarbageCollect, PrimitivesKnown, CacheCovers,
        DeletionsStand, DecisionsStand, AgentGone, hostVars, cacheVars, sweepWork,
        proxyWork, podWork, history
<1>6. CASE AgentRebinds \/ AgentReady \/ DeleteAgent \/ RemoveAgent
  <2>1. UNCHANGED <<primitive, proxies, pod, granted, hostVars, cacheVars, sweepWork,
                    proxyWork, podWork, history>>
    BY <1>6 DEF AgentRebinds, AgentReady, DeleteAgent, RemoveAgent
  <2>2. CacheCovers' /\ DecisionsStand'
    BY <1>g, <2>1 DEF CacheCovers, DecisionsStand, AgentGone, hostVars, cacheVars,
         proxyWork, podWork
  <2> QED BY <2>1, <2>2 DEF PrimitivesKnown, DeletionsStand, cacheVars, sweepWork,
        proxyWork, podWork, history
<1> QED BY <1>1, <1>2, <1>3, <1>4, <1>5, <1>6 DEF Environment

(* Steps of the PodReconciler and of the informers. *)
LEMMA ProxyInvPodAndInformers ==
    ASSUME ProxyInv,
           \/ PodStep \/ PodFault \/ SyncPrimitive \/ SyncAgent \/ SyncPod
           \/ \E u \in PrimitiveUIDs : SyncProxy(u)
    PROVE  PrimitivesKnown' /\ CacheCovers' /\ DeletionsStand' /\ DecisionsStand'
<1> USE Numbers DEF ProxyInv
<1>1. CASE PodBegin
  <2>1. dw'.key = 0 \/ dw'.key = primitiveCache.uid
    BY <1>1, IdleWorkers DEF PodBegin
  <2>2. PrimitivesKnown' /\ CacheCovers'
    BY <1>1, <2>1 DEF PodBegin, PrimitivesKnown, CacheCovers, AgentGone, apiVars,
         cacheVars, sweepWork, proxyWork, history
  <2> QED BY <1>1, <2>2 DEF PodBegin, DeletionsStand, DecisionsStand, AgentGone,
        apiVars, hostVars, cacheVars, sweepWork, proxyWork
<1>2. CASE PodCreatesProxy \/ PodDeletesProxy
  <2>1. dw.key \in PrimitiveUIDs /\ dw'.key = 0
    BY <1>2, Keys, IdleWorkers DEF PodCreatesProxy, PodDeletesProxy
  <2>2. \A u \in PrimitiveUIDs :
            proxies'[u].uid # 0 => proxies[u].uid # 0 \/ dw.key = u
    BY <1>2, <2>1, DeletedProxy, Absent
       DEF PodCreatesProxy, PodDeletesProxy, TypeInv, TypeOK
  <2>3. UNCHANGED <<primitive, agent, pod, hostVars, cacheVars, sweepWork, proxyWork,
                    primitives>>
    BY <1>2 DEF PodCreatesProxy, PodDeletesProxy, history
  <2>4. PrimitivesKnown' /\ CacheCovers'
    BY <2>1, <2>2, <2>3 DEF PrimitivesKnown, CacheCovers, AgentGone, cacheVars,
         sweepWork, proxyWork
  <2> QED BY <2>3, <2>4 DEF DeletionsStand, DecisionsStand, AgentGone, hostVars,
        cacheVars, sweepWork, proxyWork
<1>3. CASE PodFault
  <2>1. dw'.key = 0
    BY <1>3, IdleWorkers DEF PodFault
  <2> QED BY <1>3, <2>1 DEF PodFault, PrimitivesKnown, CacheCovers, DeletionsStand,
        DecisionsStand, AgentGone, apiVars, hostVars, cacheVars, sweepWork, proxyWork
<1>4. CASE SyncPrimitive
  BY <1>4 DEF SyncPrimitive, PrimitivesKnown, CacheCovers, DeletionsStand,
       DecisionsStand, AgentGone, apiVars, hostVars, history
<1>5. CASE SyncAgent \/ SyncPod
  <2>1. /\ UNCHANGED <<apiVars, hostVars, primitiveCache, proxyCache, sweepWork, xw, dw,
                       history>>
        /\ agentCache' = agentCache \/ agentCache' = agent
        /\ podCache' = podCache \/ podCache' = pod
    BY <1>5 DEF SyncAgent, SyncPod, proxyWork
  <2> QED BY <2>1 DEF PrimitivesKnown, CacheCovers, DeletionsStand, DecisionsStand,
        AgentGone, apiVars, hostVars, sweepWork, history
<1>6. CASE \E u \in PrimitiveUIDs : SyncProxy(u)
  <2>1. PICK v \in PrimitiveUIDs : SyncProxy(v)
    BY <1>6
  <2>2. \A u \in PrimitiveUIDs :
            proxyCache'[u].uid # 0 => proxies[u].uid # 0 \/ proxyCache[u].uid # 0
    BY <2>1 DEF SyncProxy, TypeInv, TypeOK
  <2> QED BY <2>1, <2>2 DEF SyncProxy, PrimitivesKnown, CacheCovers, DeletionsStand,
        DecisionsStand, AgentGone, apiVars, hostVars, sweepWork, history
<1> QED BY <1>1, <1>2, <1>3, <1>4, <1>5, <1>6 DEF PodStep

(* Steps of the PrimitiveReconciler. *)
LEMMA ProxyInvSweepStep ==
    ASSUME ProxyInv, SweepStep \/ SweepFault
    PROVE  PrimitivesKnown' /\ CacheCovers' /\ DeletionsStand' /\ DecisionsStand'
<1> USE Numbers DEF ProxyInv
<1> DEFINE Rest == mw'.op = "idle" /\ mw'.primitive.uid = 0
<1>1. CASE SweepBegin
  <2>1. \/ Rest
        \/ /\ mw'.primitive = primitiveCache
           /\ mw'.op \in {"sweep", "removeFinalizer"} => primitiveCache.deleting
    BY <1>1, IdleWorkers, Absent DEF SweepBegin, PrimitiveReconcile
  <2>2. PrimitivesKnown' /\ DeletionsStand'
    BY <1>1, <2>1 DEF SweepBegin, PrimitivesKnown, DeletionsStand, apiVars, cacheVars,
         proxyWork, podWork, history
  <2> QED BY <1>1, <2>2 DEF SweepBegin, CacheCovers, DecisionsStand, AgentGone, apiVars,
        hostVars, cacheVars, proxyWork, podWork
<1>2. CASE Sweep
  <2>1. \A u \in PrimitiveUIDs : proxies'[u].uid # 0 => proxies[u].uid # 0
    BY <1>2, DeletedProxy, Absent DEF Sweep, TypeInv, TypeOK
  <2>2. mw'.primitive = mw.primitive /\ mw.op = "sweep"
    BY <1>2 DEF Sweep, TypeInv, TypeOK, SweepWorker
  <2> QED BY <1>2, <2>1, <2>2 DEF Sweep, PrimitivesKnown, CacheCovers, DeletionsStand,
        DecisionsStand, AgentGone, hostVars, cacheVars, proxyWork, podWork, history
<1>3. CASE SweepWrite
  <2>1. Rest
    BY <1>3, IdleWorkers, Absent DEF SweepWrite
  <2>2. \/ primitive'.uid = 0
        \/ primitive'.uid = primitive.uid /\ primitive'.deleting = primitive.deleting
    BY <1>3, WrittenPrimitive, Absent DEF SweepWrite, TypeInv, TypeOK, SweepFits
  <2>3. primitiveCache.uid = 0 => ~primitiveCache.deleting
    BY Absent DEF TypeInv, TypeOK, PrimitiveShape
  <2>4. xw.op # "idle" => xw.key # 0
    BY Keys
  <2>5. PrimitivesKnown' /\ CacheCovers'
    BY <1>3, <2>1, <2>2 DEF SweepWrite, PrimitivesKnown, CacheCovers, AgentGone,
         cacheVars, proxyWork, podWork, history
  <2> QED BY <1>3, <2>1, <2>2, <2>3, <2>4, <2>5 DEF SweepWrite, DeletionsStand,
        DecisionsStand, AgentGone, hostVars, cacheVars, proxyWork
<1>4. CASE SweepConflict \/ SweepFault
  <2>1. Rest /\ SweepRetry
    BY <1>4, IdleWorkers, Absent DEF SweepConflict, SweepFault, SweepRetry
  <2> QED BY <2>1 DEF SweepRetry, PrimitivesKnown, CacheCovers, DeletionsStand,
        DecisionsStand, AgentGone, apiVars, hostVars, cacheVars, proxyWork, podWork
<1> QED BY <1>1, <1>2, <1>3, <1>4 DEF SweepStep

(* Steps of the ProxyReconciler, and the controller's crash. *)
LEMMA ProxyInvProxyStep ==
    ASSUME ProxyInv, ProxyStep \/ ProxyFault \/ Crash
    PROVE  PrimitivesKnown' /\ CacheCovers' /\ DeletionsStand' /\ DecisionsStand'
<1> USE Numbers DEF ProxyInv
<1> DEFINE Rest == xw'.op = "idle" /\ xw'.key = 0
<1>1. CASE \E k \in PrimitiveUIDs : ProxyBegin(k)
  <2>1. PICK k \in PrimitiveUIDs : ProxyBegin(k)
    BY <1>1
  <2> DEFINE op == ProxyReconcile(proxyCache[k], agentCache, podCache, primitiveCache)
  <2>2. CASE op = "idle"
    <3>1. Rest
      BY <2>1, <2>2, IdleWorkers DEF ProxyBegin
    <3> QED BY <2>1, <3>1 DEF ProxyBegin, PrimitivesKnown, CacheCovers, DeletionsStand,
          DecisionsStand, AgentGone, apiVars, hostVars, cacheVars, sweepWork, podWork,
          history
  <2>3. CASE op # "idle"
    <3>1. /\ proxyCache[k].uid # 0 /\ op # "destroyProxy"
          /\ op = "removeFinalizer" => ~podCache \/ primitiveCache.uid = 0
      BY <2>3, Decisions
    <3>2. xw'.op = op /\ xw'.key = k
      BY <2>1, <2>3 DEF ProxyBegin
    <3> HIDE DEF op
    <3>3. PrimitivesKnown' /\ CacheCovers'
      BY <2>1, <3>1, <3>2 DEF ProxyBegin, PrimitivesKnown, CacheCovers, AgentGone,
           apiVars, cacheVars, sweepWork, podWork, history
    <3>4. pod /\ primitive.uid = k => podCache /\ primitiveCache.uid # 0
      BY <3>1 DEF CacheCovers
    <3>5. DecisionsStand'
      BY <2>1, <3>1, <3>2, <3>4 DEF ProxyBegin, DecisionsStand, AgentGone, apiVars,
           hostVars
    <3> QED BY <2>1, <3>3, <3>5 DEF ProxyBegin, DeletionsStand, apiVars, cacheVars,
          sweepWork
  <2> QED BY <2>2, <2>3
<1>2. CASE ProxyDelete \/ ProxyWrite
  <2>1. Rest /\ xw.key \in PrimitiveUIDs
    BY <1>2, Keys, IdleWorkers DEF ProxyDelete, ProxyWrite, WriteOps
  <2>2. \A u \in PrimitiveUIDs : proxies'[u].uid # 0 => proxies[u].uid # 0
    <3>1. CASE ProxyDelete
      BY <2>1, <3>1, DeletedProxy, Absent DEF ProxyDelete, TypeInv, TypeOK
    <3>2. CASE ProxyWrite
      BY <2>1, <3>2, Keys DEF ProxyWrite, WriteOps, TypeInv, TypeOK
    <3> QED BY <1>2, <3>1, <3>2
  <2>3. UNCHANGED <<primitive, agent, pod, hostVars, cacheVars, sweepWork, podWork,
                    history>>
    BY <1>2 DEF ProxyDelete, ProxyWrite
  <2> QED BY <2>1, <2>2, <2>3 DEF PrimitivesKnown, CacheCovers, DeletionsStand,
        DecisionsStand, AgentGone, hostVars, cacheVars, sweepWork, podWork, history
<1>3. CASE CreateProxy \/ RegisterPrimitive \/ UnregisterPrimitive \/ DestroyProxy
  <2>1. xw'.key = xw.key
    BY <1>3 DEF CreateProxy, RegisterPrimitive, UnregisterPrimitive, DestroyProxy,
         TypeInv, TypeOK, ProxyWorker
  <2>2. UNCHANGED <<apiVars, cacheVars, sweepWork, podWork, history>>
    BY <1>3 DEF CreateProxy, RegisterPrimitive, UnregisterPrimitive, DestroyProxy
  <2>3. DecisionsStand'
    <3>1. CASE CreateProxy \/ RegisterPrimitive
      <4>1. xw'.op \in {"register", "ready"}
        BY <3>1 DEF CreateProxy, RegisterPrimitive, TypeInv, TypeOK, ProxyWorker
      <4> QED BY <4>1 DEF DecisionsStand
    <3>2. CASE UnregisterPrimitive
      <4>1. /\ ~registered'
            /\ xw'.op = "removeFinalizer" => AgentGone(agentCache)
        BY <3>2 DEF UnregisterPrimitive, TypeInv, TypeOK, ProxyWorker
      <4> QED BY <2>2, <4>1 DEF DecisionsStand, CacheCovers, AgentGone, apiVars
    <3>3. CASE DestroyProxy
      <4>1. /\ xw'.op = "removeFinalizer" /\ ~served'.up /\ ~registered'
        BY <3>3 DEF DestroyProxy, NotServed, DecisionsStand, TypeInv, TypeOK,
             ProxyWorker
      <4> QED BY <4>1 DEF DecisionsStand
    <3> QED BY <1>3, <3>1, <3>2, <3>3
  <2> QED BY <2>1, <2>2, <2>3 DEF PrimitivesKnown, CacheCovers, DeletionsStand,
        AgentGone, apiVars, cacheVars, sweepWork, podWork, history
<1>4. CASE ProxyUnreachable \/ ProxyConflict \/ ProxyFault
  <2>1. ProxyRetry /\ Rest
    BY <1>4, IdleWorkers DEF ProxyUnreachable, ProxyConflict, ProxyFault, ProxyRetry
  <2> QED BY <2>1 DEF ProxyRetry, PrimitivesKnown, CacheCovers, DeletionsStand,
        DecisionsStand, AgentGone, apiVars, hostVars, cacheVars, sweepWork, podWork
<1>5. CASE Crash
  <2>1. Rest /\ mw'.op = "idle" /\ mw'.primitive.uid = 0 /\ dw'.key = 0
    BY <1>5, IdleWorkers, Absent DEF Crash
  <2> QED BY <1>5, <2>1 DEF Crash, PrimitivesKnown, CacheCovers, DeletionsStand,
        DecisionsStand, AgentGone, apiVars, hostVars
<1> QED BY <1>1, <1>2, <1>3, <1>4, <1>5 DEF ProxyStep

(* One step of the whole system keeps the invariant. *)
LEMMA ProxyInvStep == ProxyInv /\ [Next]_vars => ProxyInv'
<1> SUFFICES ASSUME ProxyInv, [Next]_vars PROVE ProxyInv'
  OBVIOUS
<1>1. TypeInv'
  BY TypeStep DEF ProxyInv
<1>2. PrimitivesKnown' /\ CacheCovers' /\ DeletionsStand' /\ DecisionsStand'
  <2>1. CASE UNCHANGED vars
    BY <2>1 DEF ProxyInv, PrimitivesKnown, CacheCovers, DeletionsStand, DecisionsStand,
         AgentGone, vars, apiVars, hostVars, cacheVars, sweepWork, proxyWork, podWork,
         history
  <2>2. CASE Next
    BY <2>2, ProxyInvEnvironment, ProxyInvPodAndInformers, ProxyInvSweepStep,
       ProxyInvProxyStep DEF Next, Faults
  <2> QED BY <2>1, <2>2
<1> QED BY <1>1, <1>2 DEF ProxyInv

(* The invariant holds in every reachable state. *)
LEMMA ProxyInvHolds == Spec => []ProxyInv
BY ProxyInvInit, ProxyInvStep, PTL DEF Spec


-----------------------------------------------------------------------------
(* What one step of the system does to each object                         *)

\* Proxy u is left alone, created, deleted, or written by the ProxyReconciler.
ProxyFate(u) ==
    \/ UNCHANGED proxies[u] /\ made' \in {made, made + 1}
    \/ /\ PodCreatesProxy /\ u = dw.key /\ proxies[u].uid = 0
       /\ proxies'[u] = NewProxy(made + 1, dw.write)
       /\ made' = made + 1
       /\ UNCHANGED <<primitive, agent, pod, hostVars, cacheVars, sweepWork, proxyWork>>
    \/ /\ proxies'[u] = Deleted(proxies[u], NoProxy)
       /\ UNCHANGED made
    \/ /\ ProxyWrite /\ u = xw.key /\ proxies[u] = xw.proxy
       /\ proxies'[u] = Written(xw)
       /\ UNCHANGED made

\* The worker of the ProxyReconciler stays as it is, comes to rest, takes up
\* proxy k as the cache shows it, or goes on to its next call or write.
WorkerTakesUp(k) ==
    /\ ProxyBegin(k)
    /\ xw.op = "idle"
    /\ xw'.op = ProxyReconcile(proxyCache[k], agentCache, podCache, primitiveCache)
    /\ xw'.op # "idle"
    /\ xw'.key = k
    /\ xw'.proxy = proxyCache[k]
    /\ xw'.cid = 0 \/ xw'.cid = agentCache.cid
    /\ UNCHANGED <<apiVars, hostVars, cacheVars, sweepWork, podWork, history>>

WorkerGoesOn ==
    /\ \/ CreateProxy /\ xw.op = "createProxy" /\ xw'.op = "register"
       \/ RegisterPrimitive /\ xw.op = "register" /\ xw'.op = "ready"
       \/ /\ UnregisterPrimitive /\ xw.op = "unregister"
          /\ xw'.op \in {"destroyProxy", "removeFinalizer"}
       \/ DestroyProxy /\ xw.op = "destroyProxy" /\ xw'.op = "removeFinalizer"
    /\ xw'.key = xw.key /\ xw'.proxy = xw.proxy /\ xw'.cid = xw.cid
    /\ UNCHANGED <<apiVars, container, process, cacheVars, sweepWork, podWork, history>>

WorkerFate ==
    \/ UNCHANGED xw
    \/ xw' = IdleProxyWorker
    \/ \E k \in PrimitiveUIDs : WorkerTakesUp(k)
    \/ WorkerGoesOn

(* A step disturbs a proxy in one of the four ways. *)
LEMMA ProxyFates ==
    ASSUME TypeInv, [Next]_vars, NEW u \in PrimitiveUIDs
    PROVE  ProxyFate(u)
<1> USE DEF TypeInv
<1>1. CASE GarbageCollect
  BY <1>1 DEF GarbageCollect, ProxyFate, TypeOK, history
<1>2. CASE PodCreatesProxy
  <2>1. CASE u = dw.key /\ proxies[u].uid = 0
    BY <1>2, <2>1 DEF PodCreatesProxy, ProxyFate, NewProxy, TypeOK
  <2>2. CASE ~(proxies[dw.key].uid = 0)
    BY <1>2, <2>2 DEF PodCreatesProxy, ProxyFate
  <2>3. CASE proxies[dw.key].uid = 0 /\ u # dw.key
    <3>1. proxies'[u] = proxies[u]
      BY <1>2, <2>3 DEF PodCreatesProxy, TypeOK
    <3>2. made' = made + 1
      BY <1>2, <2>3 DEF PodCreatesProxy
    <3> QED BY <3>1, <3>2 DEF ProxyFate
  <2> QED BY <2>1, <2>2, <2>3
<1>3. CASE PodDeletesProxy
  BY <1>3 DEF PodDeletesProxy, ProxyFate, TypeOK, history
<1>4. CASE Sweep
  BY <1>4 DEF Sweep, ProxyFate, history
<1>5. CASE ProxyDelete
  BY <1>5 DEF ProxyDelete, ProxyFate, TypeOK, history
<1>6. CASE ProxyWrite
  <2>1. CASE u = xw.key
    BY <1>6, <2>1 DEF ProxyWrite, ProxyFate, TypeOK, history
  <2>2. CASE u # xw.key
    BY <1>6, <2>2 DEF ProxyWrite, ProxyFate, TypeOK, history
  <2> QED BY <2>1, <2>2
<1>7. CASE UNCHANGED <<proxies, made>>
  BY <1>7 DEF ProxyFate
<1>8. \/ GarbageCollect \/ PodCreatesProxy \/ PodDeletesProxy \/ Sweep \/ ProxyDelete
      \/ ProxyWrite \/ UNCHANGED <<proxies, made>>
  <2>1. \/ UNCHANGED vars \/ Environment \/ SyncPrimitive \/ SyncAgent \/ SyncPod
        \/ \E v \in PrimitiveUIDs : SyncProxy(v)
        => UNCHANGED <<proxies, made>>
    BY DEF vars, Environment, CreatePrimitive, DeletePrimitive, ChangeGrant,
         StartContainer, RestartBroker, DeletePod, AgentRebinds, AgentStarts,
         AgentReady, DeleteAgent, AgentStops, RemoveAgent, SyncPrimitive, SyncAgent,
         SyncPod, SyncProxy, apiVars, history
  <2>2. PodStep \/ SweepStep =>
            \/ PodCreatesProxy \/ PodDeletesProxy \/ Sweep
            \/ UNCHANGED <<proxies, made>>
    BY DEF PodStep, PodBegin, SweepStep, SweepBegin, SweepWrite, SweepConflict,
         SweepRetry, apiVars, history
  <2>3. ProxyStep => ProxyDelete \/ ProxyWrite \/ UNCHANGED <<proxies, made>>
    BY DEF ProxyStep, ProxyBegin, CreateProxy, RegisterPrimitive, UnregisterPrimitive,
         DestroyProxy, ProxyUnreachable, ProxyConflict, ProxyRetry, apiVars, history
  <2>4. Faults => UNCHANGED <<proxies, made>>
    BY DEF Faults, PodFault, SweepFault, SweepRetry, ProxyFault, ProxyRetry, Crash,
         apiVars
  <2> QED BY <2>1, <2>2, <2>3, <2>4 DEF Next
<1> QED BY <1>1, <1>2, <1>3, <1>4, <1>5, <1>6, <1>7, <1>8

\* What that does to the fields of proxy u.
ProxyMade(u) ==
    /\ PodCreatesProxy /\ u = dw.key
    /\ proxies[u] = NoProxy
    /\ proxies'[u].uid = made + 1 /\ made' = made + 1
    /\ proxies'[u].cid = 0 /\ proxies'[u].write = dw.write
    /\ ~proxies'[u].ready /\ ~proxies'[u].fin /\ ~proxies'[u].deleting
    /\ UNCHANGED <<primitive, agent, pod, hostVars, cacheVars, sweepWork, proxyWork>>

ProxyGone(u) ==
    /\ proxies'[u] = NoProxy
    /\ proxies[u].fin =>
          /\ ProxyWrite /\ u = xw.key /\ proxies[u] = xw.proxy
          /\ xw.op = "removeFinalizer"

ProxyMarked(u) ==
    /\ proxies[u].fin /\ proxies'[u].fin /\ proxies'[u].deleting
    /\ proxies'[u].uid = proxies[u].uid /\ proxies'[u].cid = proxies[u].cid
    /\ proxies'[u].ready = proxies[u].ready /\ proxies'[u].write = proxies[u].write

ProxyWritten(u) ==
    /\ ProxyWrite /\ u = xw.key /\ proxies[u] = xw.proxy
    /\ xw.op \in {"addFinalizer", "rebind", "ready"}
    /\ proxies'[u].uid = proxies[u].uid /\ proxies[u].uid # 0
    /\ proxies'[u].deleting = proxies[u].deleting
    /\ proxies'[u].fin /\ proxies'[u].write = proxies[u].write
    /\ proxies'[u].cid = (IF xw.op = "rebind" THEN xw.cid ELSE proxies[u].cid)
    /\ proxies'[u].ready => xw.op = "ready" \/ (proxies[u].ready /\ xw.op # "rebind")

(* The fields of a proxy after each of the four. *)
LEMMA ProxyFields ==
    ASSUME TypeInv, [Next]_vars, NEW u \in PrimitiveUIDs
    PROVE  \/ UNCHANGED proxies[u] \/ ProxyMade(u) \/ ProxyGone(u)
           \/ ProxyMarked(u) \/ ProxyWritten(u)
<1>0. ProxyShape(proxies[u]) /\ (proxies[u].uid = 0 => proxies[u] = NoProxy)
  BY DEF TypeInv, TypeOK, ProxyShape
<1>1. CASE /\ PodCreatesProxy /\ u = dw.key /\ proxies[u].uid = 0
           /\ proxies'[u] = NewProxy(made + 1, dw.write)
           /\ made' = made + 1
           /\ UNCHANGED <<primitive, agent, pod, hostVars, cacheVars, sweepWork,
                          proxyWork>>
  <2>1. made + 1 \in 1..MaxProxies /\ dw.write \in BOOLEAN
    BY <1>1, BoundsAssumption DEF PodCreatesProxy, TypeInv, TypeOK, PodWorker
  <2> QED BY <1>0, <1>1, <2>1, CreatedProxy DEF ProxyMade
<1>2. CASE proxies'[u] = Deleted(proxies[u], NoProxy)
  BY <1>0, <1>2, DeletedProxy DEF ProxyGone, ProxyMarked
<1>3. CASE /\ ProxyWrite /\ u = xw.key /\ proxies[u] = xw.proxy
           /\ proxies'[u] = Written(xw)
  <2>1. /\ xw \in ProxyWorker /\ ProxyShape(xw.proxy) /\ xw.proxy.uid # 0
        /\ CallFits(xw) /\ xw.op \in WriteOps
    BY <1>3 DEF ProxyWrite, TypeInv, TypeOK, WriteOps
  <2>2. CASE xw.op = "removeFinalizer"
    BY <1>3, <2>1, <2>2, WrittenProxy DEF ProxyGone
  <2>3. CASE xw.op # "removeFinalizer"
    <3> DEFINE d == Written(xw)
    <3>1. /\ d.uid = xw.proxy.uid /\ d.deleting = xw.proxy.deleting
          /\ d.fin /\ d.write = xw.proxy.write
          /\ d.cid = (IF xw.op = "rebind" THEN xw.cid ELSE xw.proxy.cid)
          /\ d.ready => xw.op = "ready" \/ (xw.proxy.ready /\ xw.op # "rebind")
      BY <2>1, <2>3, WrittenProxy
    <3> HIDE DEF d
    <3> QED BY <1>3, <2>1, <2>3, <3>1 DEF ProxyWritten, WriteOps, d
  <2> QED BY <2>2, <2>3
<1> QED BY <1>1, <1>2, <1>3, ProxyFates DEF ProxyFate

(* The ProxyReconciler's worker changes only in its own steps, and comes to
   rest in a crash. *)
LEMMA WorkerFates ==
    ASSUME TypeInv, [Next]_vars
    PROVE  WorkerFate
<1> USE DEF TypeInv
<1>1. CASE \E k \in PrimitiveUIDs : ProxyBegin(k)
  <2>1. PICK k \in PrimitiveUIDs : ProxyBegin(k)
    BY <1>1
  <2> DEFINE op == ProxyReconcile(proxyCache[k], agentCache, podCache, primitiveCache)
  <2>2. CASE op = "idle"
    BY <2>1, <2>2 DEF ProxyBegin, WorkerFate
  <2>3. CASE op # "idle"
    <3>1. xw' = [op |-> op, key |-> k, proxy |-> proxyCache[k],
                 cid |-> IF op = "rebind" THEN agentCache.cid ELSE 0]
      BY <2>1, <2>3 DEF ProxyBegin
    <3>2. WorkerTakesUp(k)
      BY <2>1, <2>3, <3>1 DEF ProxyBegin, WorkerTakesUp
    <3> QED BY <3>2 DEF WorkerFate
  <2> QED BY <2>2, <2>3
<1>2. CASE CreateProxy \/ RegisterPrimitive \/ UnregisterPrimitive \/ DestroyProxy
  <2>1. PICK op \in {"register", "ready", "destroyProxy", "removeFinalizer"} :
            /\ xw' = [xw EXCEPT !.op = op]
            /\ \/ CreateProxy /\ xw.op = "createProxy" /\ op = "register"
               \/ RegisterPrimitive /\ xw.op = "register" /\ op = "ready"
               \/ /\ UnregisterPrimitive /\ xw.op = "unregister"
                  /\ op \in {"destroyProxy", "removeFinalizer"}
               \/ DestroyProxy /\ xw.op = "destroyProxy" /\ op = "removeFinalizer"
    BY <1>2 DEF CreateProxy, RegisterPrimitive, UnregisterPrimitive, DestroyProxy
  <2>2. /\ xw'.op = op /\ xw'.key = xw.key /\ xw'.proxy = xw.proxy
        /\ xw'.cid = xw.cid
    BY <2>1 DEF TypeOK, ProxyWorker
  <2>3. UNCHANGED <<apiVars, container, process, cacheVars, sweepWork, podWork, history>>
    BY <1>2 DEF CreateProxy, RegisterPrimitive, UnregisterPrimitive, DestroyProxy
  <2> QED BY <2>1, <2>2, <2>3 DEF WorkerFate, WorkerGoesOn
<1>3. CASE \/ ProxyDelete \/ ProxyWrite \/ ProxyUnreachable \/ ProxyConflict
           \/ ProxyFault \/ Crash
  BY <1>3 DEF ProxyDelete, ProxyWrite, ProxyUnreachable, ProxyConflict, ProxyFault,
       ProxyRetry, Crash, WorkerFate
<1>4. CASE UNCHANGED xw
  BY <1>4 DEF WorkerFate
<1>5. UNCHANGED xw \/ ProxyStep \/ ProxyFault \/ Crash
  <2>1. \/ UNCHANGED vars \/ Environment \/ GarbageCollect \/ PodStep \/ SyncPrimitive
        \/ SyncAgent \/ SyncPod \/ \E v \in PrimitiveUIDs : SyncProxy(v)
        => UNCHANGED xw
    BY DEF vars, Environment, CreatePrimitive, DeletePrimitive, ChangeGrant,
         StartContainer, RestartBroker, DeletePod, AgentRebinds, AgentStarts,
         AgentReady, DeleteAgent, AgentStops, RemoveAgent, GarbageCollect, PodStep,
         PodBegin, PodCreatesProxy, PodDeletesProxy, SyncPrimitive, SyncAgent,
         SyncPod, SyncProxy, proxyWork
  <2>2. SweepStep \/ SweepFault \/ PodFault => UNCHANGED xw
    BY DEF SweepStep, SweepBegin, Sweep, SweepWrite, SweepConflict, SweepFault,
         SweepRetry, PodFault, proxyWork
  <2> QED BY <2>1, <2>2 DEF Next, Faults
<1> QED BY <1>1, <1>2, <1>3, <1>4, <1>5 DEF ProxyStep

(* The primitive is created, deleted, or written by its reconciler, or stays;
   the reconciler's worker reads it from the cache; only the PodReconciler
   makes proxies. *)
LEMMA PrimitiveFates ==
    ASSUME [Next]_vars
    PROVE  /\ \/ CreatePrimitive \/ DeletePrimitive \/ SweepWrite
              \/ UNCHANGED <<primitive, primitives>>
           /\ \/ UNCHANGED mw \/ mw' = IdleSweepWorker \/ Sweep
              \/ mw'.op \in {"addFinalizer", "sweep"}
           /\ PodCreatesProxy \/ UNCHANGED made
<1>1. \/ UNCHANGED vars \/ Environment \/ GarbageCollect \/ PodStep \/ SyncPrimitive
      \/ SyncAgent \/ SyncPod \/ \E v \in PrimitiveUIDs : SyncProxy(v)
      => /\ CreatePrimitive \/ DeletePrimitive \/ UNCHANGED <<primitive, primitives>>
         /\ UNCHANGED mw
         /\ PodCreatesProxy \/ UNCHANGED made
  BY DEF vars, Environment, ChangeGrant, CreatePrimitive, DeletePrimitive,
       StartContainer, RestartBroker, DeletePod, AgentRebinds, AgentStarts,
       AgentReady, DeleteAgent, AgentStops, RemoveAgent, GarbageCollect, PodStep,
       PodBegin, PodCreatesProxy, PodDeletesProxy, SyncPrimitive, SyncAgent,
       SyncPod, SyncProxy, apiVars, history, sweepWork
<1>2. SweepStep \/ SweepFault =>
          /\ SweepWrite \/ UNCHANGED <<primitive, primitives>>
          /\ \/ mw' = IdleSweepWorker \/ Sweep
             \/ mw'.op \in {"addFinalizer", "sweep"}
          /\ UNCHANGED made
  BY DEF SweepStep, SweepBegin, Sweep, SweepWrite, SweepConflict, SweepFault,
       SweepRetry, PrimitiveReconcile, apiVars, history
<1>3. ProxyStep \/ ProxyFault \/ PodFault =>
          UNCHANGED <<primitive, primitives, mw, made>>
  BY DEF ProxyStep, ProxyBegin, ProxyDelete, CreateProxy, RegisterPrimitive,
       UnregisterPrimitive, DestroyProxy, ProxyWrite, ProxyUnreachable, ProxyConflict,
       ProxyFault, ProxyRetry, PodFault, apiVars, history, sweepWork
<1>4. Crash => UNCHANGED <<primitive, primitives, made>> /\ mw' = IdleSweepWorker
  BY DEF Crash, apiVars
<1> QED BY <1>1, <1>2, <1>3, <1>4 DEF Next, Faults

(* A cache shows what it showed before or what the API server has now. *)
LEMMA CacheFates ==
    ASSUME TypeInv, [Next]_vars
    PROVE  /\ \/ UNCHANGED primitiveCache
              \/ /\ primitiveCache' = primitive
                 /\ UNCHANGED <<apiVars, hostVars, primitives>>
                 /\ UNCHANGED xw \/ xw' = IdleProxyWorker
           /\ agentCache' = agentCache \/ agentCache' = agent
           /\ \/ UNCHANGED proxyCache
              \/ \E u \in PrimitiveUIDs :
                    /\ SyncProxy(u)
                    /\ proxyCache' = [proxyCache EXCEPT ![u] = proxies[u]]
              \/ Crash
<1>1. \/ UNCHANGED vars \/ Environment \/ GarbageCollect \/ PodStep \/ PodFault
      => UNCHANGED cacheVars
  BY DEF vars, Environment, ChangeGrant, CreatePrimitive, DeletePrimitive,
       StartContainer, RestartBroker, DeletePod, AgentRebinds, AgentStarts,
       AgentReady, DeleteAgent, AgentStops, RemoveAgent, GarbageCollect, PodStep,
       PodBegin, PodCreatesProxy, PodDeletesProxy, PodFault
<1>2. SweepStep \/ SweepFault => UNCHANGED cacheVars
  BY DEF SweepStep, SweepBegin, Sweep, SweepWrite, SweepConflict, SweepFault, SweepRetry
<1>3. ProxyStep \/ ProxyFault => UNCHANGED cacheVars
  BY DEF ProxyStep, ProxyBegin, ProxyDelete, CreateProxy, RegisterPrimitive,
       UnregisterPrimitive, DestroyProxy, ProxyWrite, ProxyUnreachable, ProxyConflict,
       ProxyFault, ProxyRetry
<1>4. CASE UNCHANGED cacheVars
  BY <1>4 DEF cacheVars
<1>5. CASE SyncPrimitive \/ SyncAgent \/ SyncPod \/ Crash
  BY <1>5 DEF SyncPrimitive, SyncAgent, SyncPod, Crash, history
<1>6. CASE \E u \in PrimitiveUIDs : SyncProxy(u)
  BY <1>6 DEF SyncProxy
<1> QED BY <1>1, <1>2, <1>3, <1>4, <1>5, <1>6 DEF Next, Faults

(* No claimed proxy of an existing primitive is removed, for every number of
   incarnations, proxies, containers and faults, before the broker has
   forgotten it and the agent process has destroyed it (proxy.go:268-365). *)
THEOREM DestroyedFirst == Spec => DestroyedBeforeFinalized
<1> DEFINE Kept == \A u \in PrimitiveUIDs :
                      /\ proxies[u].fin
                      /\ proxies'[u].uid # proxies[u].uid
                      /\ primitive.uid = u
                      /\ pod
                      /\ ~AgentGone(agent)
                      => ~served.up /\ ~registered
<1>1. ProxyInv /\ [Next]_vars => [Kept]_vars
  <2> SUFFICES ASSUME ProxyInv, [Next]_vars, NEW u \in PrimitiveUIDs,
                      proxies[u].fin, proxies'[u].uid # proxies[u].uid,
                      primitive.uid = u, pod, ~AgentGone(agent)
               PROVE  ~served.up /\ ~registered
    OBVIOUS
  <2>1. TypeInv /\ proxies[u] # NoProxy
    BY Absent DEF ProxyInv
  <2>2. ProxyWrite /\ u = xw.key /\ xw.op = "removeFinalizer"
    BY <2>1, ProxyFields DEF ProxyMade, ProxyGone, ProxyMarked, ProxyWritten
  <2> QED BY <2>2 DEF ProxyInv, DecisionsStand
<1> QED BY <1>1, ProxyInvHolds, PTL DEF DestroyedBeforeFinalized, Spec

-----------------------------------------------------------------------------
(* What is left when a primitive is released                               *)

Creating == {"createProxy", "register", "ready"}

\* A proxy's uid is never given out again.
UidsMade ==
    /\ \A u \in PrimitiveUIDs : proxies[u].uid <= made /\ proxyCache[u].uid <= made
    /\ xw.proxy.uid <= made

\* Between the sweep and the release no proxy of the primitive is live and
\* ready, and what the ProxyReconciler is still making ready is not the proxy
\* that is there.
Swept ==
    mw.op = "removeFinalizer" /\ mw.primitive.uid = primitive.uid =>
        \A u \in PrimitiveUIDs : u = primitive.uid =>
            /\ ~proxies[u].ready \/ proxies[u].deleting
            /\ xw.key = u /\ xw.op \in Creating =>
                  xw.proxy.uid # proxies[u].uid \/ proxies[u].deleting

SweepInv == ProxyInv /\ UidsMade /\ Swept

(* Uids only grow, so every copy of a proxy is older than the next one made. *)
LEMMA UidsMadeStep ==
    ASSUME TypeInv, UidsMade, [Next]_vars
    PROVE  UidsMade'
<1> USE Numbers
<1>1. made' \in {made, made + 1}
  <2>1. PodCreatesProxy => made' \in {made, made + 1}
    BY DEF PodCreatesProxy
  <2> QED BY <2>1, PrimitiveFates
<1>2. \A u \in PrimitiveUIDs : proxies'[u].uid <= made'
  <2> SUFFICES ASSUME NEW u \in PrimitiveUIDs PROVE proxies'[u].uid <= made'
    OBVIOUS
  <2>1. proxies[u].uid <= made
    BY DEF UidsMade
  <2> QED BY <1>1, <2>1, ProxyFields, Absent
        DEF ProxyMade, ProxyGone, ProxyMarked, ProxyWritten
<1>3. \A u \in PrimitiveUIDs : proxyCache'[u].uid <= made'
  <2>1. \A u \in PrimitiveUIDs :
            proxyCache'[u] = proxyCache[u] \/ proxyCache'[u] = proxies[u]
    BY CacheFates DEF Crash, TypeInv, TypeOK
  <2> QED BY <1>1, <2>1 DEF UidsMade
<1>4. xw'.proxy.uid <= made'
  <2>1. \/ xw'.proxy = xw.proxy \/ xw'.proxy.uid = 0
        \/ \E k \in PrimitiveUIDs : xw'.proxy = proxyCache[k]
    BY WorkerFates, IdleWorkers, Absent DEF WorkerFate, WorkerTakesUp, WorkerGoesOn
  <2> QED BY <1>1, <2>1 DEF UidsMade
<1> QED BY <1>2, <1>3, <1>4 DEF UidsMade

(* A swept primitive stays swept until it is released: a proxy that is made
   after the sweep is not ready, and the ProxyReconciler does not begin to make
   it ready, because the cache shows the primitive as deleted. *)
LEMMA SweptStep ==
    ASSUME SweepInv, [Next]_vars
    PROVE  Swept'
<1> USE Numbers DEF SweepInv, ProxyInv
<1> SUFFICES ASSUME mw'.op = "removeFinalizer", mw'.primitive.uid = primitive'.uid,
                    NEW u \in PrimitiveUIDs, u = primitive'.uid
             PROVE  /\ ~proxies'[u].ready \/ proxies'[u].deleting
                    /\ xw'.key = u /\ xw'.op \in Creating =>
                          xw'.proxy.uid # proxies'[u].uid \/ proxies'[u].deleting
  BY DEF Swept
<1>1. CASE Sweep
  <2>1. /\ proxies'[u] = Deleted(proxies[u], NoProxy) /\ UNCHANGED xw
    BY <1>1 DEF Sweep, proxyWork, TypeInv, TypeOK, SweepWorker
  <2>2. xw.op # "idle" => xw.proxy.uid # 0
    BY Keys
  <2> QED BY <2>1, <2>2, DeletedProxy, Absent DEF Creating, TypeInv, TypeOK
<1>2. CASE UNCHANGED mw /\ ~Sweep
  <2>1. ~SweepWrite
    BY <1>2, IdleWorkers DEF SweepWrite
  <2>2. ~CreatePrimitive
    <3>1. CreatePrimitive => primitives + 1 \in 1..MaxPrimitives
      BY BoundsAssumption DEF CreatePrimitive, TypeInv, TypeOK
    <3>2. CreatePrimitive => primitive'.uid = primitives + 1
      BY <3>1, CreatedPrimitive DEF CreatePrimitive
    <3> QED BY <1>2, <3>2 DEF PrimitivesKnown
  <2>3. primitive.uid = u
    BY <2>1, <2>2, PrimitiveFates, DeletedPrimitive
       DEF DeletePrimitive, TypeInv, TypeOK
  <2>4. /\ ~proxies[u].ready \/ proxies[u].deleting
        /\ xw.key = u /\ xw.op \in Creating =>
              xw.proxy.uid # proxies[u].uid \/ proxies[u].deleting
    BY <1>2, <2>3 DEF Swept
  <2>5. primitiveCache.deleting
    BY <1>2, <2>3 DEF DeletionsStand
  <2>6. CASE UNCHANGED proxies[u]
    <3>1. xw'.key = u /\ xw'.op \in Creating => 
              xw.key = u /\ xw.op \in Creating /\ xw'.proxy = xw.proxy
      <4>1. \A k \in PrimitiveUIDs : WorkerTakesUp(k) => xw'.op \notin Creating
        BY <2>5, Decisions DEF WorkerTakesUp, Creating
      <4> QED BY <4>1, WorkerFates, IdleWorkers DEF WorkerFate, WorkerGoesOn, Creating
    <3> QED BY <2>4, <2>6, <3>1
  <2>7. CASE ProxyMade(u)
    BY <2>7 DEF ProxyMade, UidsMade, proxyWork
  <2>8. CASE ProxyGone(u) \/ ProxyMarked(u)
    <3>1. proxies'[u].deleting \/ (proxies'[u].uid = 0 /\ ~proxies'[u].ready)
      BY <2>8, Absent DEF ProxyGone, ProxyMarked
    <3>2. xw'.op # "idle" => xw'.proxy.uid # 0
      BY TypeStep DEF TypeInv, TypeOK
    <3> QED BY <3>1, <3>2 DEF Creating
  <2>9. CASE ProxyWritten(u)
    <3>1. xw.op # "ready"
      BY <2>4, <2>9 DEF ProxyWritten, Creating, TypeInv, CallFits
    <3>2. xw'.op \notin Creating
      BY <2>9, IdleWorkers DEF ProxyWritten, ProxyWrite, Creating
    <3> QED BY <2>4, <2>9, <3>1, <3>2 DEF ProxyWritten
  <2> QED BY <2>6, <2>7, <2>8, <2>9, ProxyFields
<1> QED BY <1>1, <1>2, PrimitiveFates, IdleWorkers

(* At first there is nothing to sweep. *)
LEMMA SweepInvInit == Init => SweepInv
<1> SUFFICES ASSUME Init PROVE SweepInv
  OBVIOUS
<1>1. UidsMade
  BY IdleWorkers, Absent DEF Init, UidsMade
<1>2. Swept
  BY IdleWorkers DEF Init, Swept
<1> QED BY <1>1, <1>2, ProxyInvInit DEF SweepInv

(* One step of the whole system keeps the invariant. *)
LEMMA SweepInvStep == SweepInv /\ [Next]_vars => SweepInv'
BY ProxyInvStep, UidsMadeStep, SweptStep DEF SweepInv, ProxyInv

(* The invariant holds in every reachable state. *)
LEMMA SweepInvHolds == Spec => []SweepInv
BY SweepInvInit, SweepInvStep, PTL DEF Spec

(* A claimed primitive is released only when no live proxy of it is ready, for
   every number of incarnations and proxies, whatever the PodReconciler creates
   and the ProxyReconciler is busy with after the sweep (primitive.go:83-105,
   proxy.go:177-189). *)
THEOREM ReleasedWhenSwept == Spec => SweptForGood
<1> DEFINE Clean == \A u \in PrimitiveUIDs :
                       /\ primitive.uid = u
                       /\ primitive.fin
                       /\ primitive'.uid # u
                       => ~proxies[u].ready \/ proxies[u].deleting
<1>1. SweepInv /\ [Next]_vars => [Clean]_vars
  <2> SUFFICES ASSUME SweepInv, [Next]_vars, NEW u \in PrimitiveUIDs,
                      primitive.uid = u, primitive.fin, primitive'.uid # u
               PROVE  ~proxies[u].ready \/ proxies[u].deleting
    OBVIOUS
  <2>1. TypeInv /\ u # 0
    BY Numbers DEF SweepInv, ProxyInv
  <2>2. ~CreatePrimitive /\ ~DeletePrimitive
    BY <2>1, DeletedPrimitive DEF CreatePrimitive, DeletePrimitive, TypeInv, TypeOK
  <2>3. SweepWrite
    BY <2>2, PrimitiveFates
  <2>4. mw.op = "removeFinalizer"
    BY <2>1, <2>3, WrittenPrimitive DEF SweepWrite, TypeInv, TypeOK
  <2> QED BY <2>3, <2>4 DEF SweepWrite, SweepInv, Swept
<1> QED BY <1>1, SweepInvHolds, PTL DEF SweptForGood, Spec

-----------------------------------------------------------------------------
(* The refinement of PrimitiveLifecycle                                    *)

(* A step of the system is, for the primitive, a step of the lifecycle. *)
LEMMA StepIsALifecycleStep ==
    ASSUME TypeInv, [Next]_vars
    PROVE  [Lifecycle!Next]_(Lifecycle!vars)
<1> USE DEF TypeInv
<1>0. NoPrimitive = Lifecycle!Absent
  BY DEF NoPrimitive, Lifecycle!Absent
<1>d. \A x, y : Deleted(x, y) = Lifecycle!Deleted(x, y)
  BY DEF Deleted, Lifecycle!Deleted
<1>1. CASE CreatePrimitive
  <2>1. primitive = NoPrimitive
    BY <1>1 DEF CreatePrimitive, TypeOK, PrimitiveShape
  <2> QED BY <1>0, <1>1, <2>1 DEF CreatePrimitive, Lifecycle!Next, Lifecycle!Create
<1>2. CASE DeletePrimitive
  BY <1>0, <1>d, <1>2 DEF DeletePrimitive, history, Lifecycle!Next, Lifecycle!Delete
<1>3. CASE SweepWrite
  <2>1. primitive.uid # 0
    BY <1>3 DEF SweepWrite, TypeOK
  <2>2. CASE mw.op = "addFinalizer"
    <3>1. ~primitive.deleting /\ primitive' = [primitive EXCEPT !.fin = TRUE]
      BY <1>3, <2>2 DEF SweepWrite, SweepFits
    <3> QED BY <1>3, <2>1, <3>1 DEF SweepWrite, history, Lifecycle!Next, Lifecycle!Claim
  <2>3. CASE mw.op = "removeFinalizer"
    <3>1. primitive.deleting
      BY <1>3, <2>3 DEF SweepWrite, SweepFits
    <3>2. primitive' = NoPrimitive
      BY <1>3, <2>3, <3>1 DEF SweepWrite, Released
    <3> QED BY <1>0, <1>3, <3>1, <3>2
          DEF SweepWrite, history, Lifecycle!Next, Lifecycle!Release
  <2> QED BY <1>3, <2>2, <2>3 DEF SweepWrite
<1>4. CASE UNCHANGED <<primitive, primitives>>
  BY <1>4 DEF Lifecycle!vars
<1> QED BY <1>1, <1>2, <1>3, <1>4, PrimitiveFates

(* The primitive that the sidecar controllers claim and sweep is the one that
   TypedPrimitives makes, although they write copies read earlier
   (primitive.go:63-110). *)
THEOREM FollowsLifecycle == Spec => PrimitiveIsALifecycle
<1>1. Init => Lifecycle!Init
  BY DEF Init, NoPrimitive, Lifecycle!Init, Lifecycle!Absent
<1>2. Init /\ [][Next]_vars => []TypeInv
  BY TypeInit, TypeStep, PTL
<1> QED BY <1>1, <1>2, StepIsALifecycleStep, PTL DEF Spec, PrimitiveIsALifecycle, Lifecycle!Spec

-----------------------------------------------------------------------------
(* A ready proxy is served, and a registered primitive is backed           *)

\* The container, the agent process and the broker are left alone, restarted,
\* stopped, or called by the ProxyReconciler.
HostRests ==
    /\ UNCHANGED <<container, served, registered, pod, brokerRestarts>>
    /\ process => process'
    /\ process' => process \/ container # 0
    /\ \/ UNCHANGED xw
       \/ xw' = IdleProxyWorker
       \/ \E k \in PrimitiveUIDs : WorkerTakesUp(k)

HostFate ==
    \/ HostRests \/ StartContainer \/ RestartBroker \/ DeletePod \/ AgentStops
    \/ CreateProxy \/ RegisterPrimitive \/ UnregisterPrimitive \/ DestroyProxy

(* Nothing else touches them. *)
LEMMA HostFates ==
    ASSUME TypeInv, [Next]_vars
    PROVE  HostFate
<1>1. \/ StartContainer \/ RestartBroker \/ DeletePod \/ AgentStops
      \/ CreateProxy \/ RegisterPrimitive \/ UnregisterPrimitive \/ DestroyProxy
      \/ AgentStarts
      \/ UNCHANGED <<hostVars, pod, brokerRestarts>>
  <2>1. \/ UNCHANGED vars \/ GarbageCollect \/ PodStep \/ SyncPrimitive \/ SyncAgent
        \/ SyncPod \/ \E u \in PrimitiveUIDs : SyncProxy(u)
        => UNCHANGED <<hostVars, pod, brokerRestarts>>
    BY DEF vars, GarbageCollect, PodStep, PodBegin, PodCreatesProxy, PodDeletesProxy,
         SyncPrimitive, SyncAgent, SyncPod, SyncProxy, apiVars, history
  <2>2. \/ SweepStep \/ \E k \in PrimitiveUIDs : ProxyBegin(k)
        \/ ProxyDelete \/ ProxyWrite \/ ProxyUnreachable \/ ProxyConflict
        => UNCHANGED <<hostVars, pod, brokerRestarts>>
    BY DEF SweepStep, SweepBegin, Sweep, SweepWrite, SweepConflict, SweepRetry,
         ProxyBegin, ProxyDelete, ProxyWrite, ProxyUnreachable, ProxyConflict,
         ProxyRetry, apiVars, history
  <2>3. Faults => UNCHANGED <<hostVars, pod, brokerRestarts>>
    BY DEF Faults, PodFault, SweepFault, SweepRetry, ProxyFault, ProxyRetry, Crash,
         apiVars
  <2>4. \/ CreatePrimitive \/ DeletePrimitive \/ ChangeGrant \/ AgentRebinds
        \/ AgentReady \/ DeleteAgent \/ RemoveAgent
        => UNCHANGED <<hostVars, pod, brokerRestarts>>
    BY DEF CreatePrimitive, DeletePrimitive, ChangeGrant, AgentRebinds, AgentReady,
         DeleteAgent, RemoveAgent, history
  <2> QED BY <2>1, <2>2, <2>3, <2>4 DEF Next, Environment, ProxyStep
<1>2. CASE AgentStarts
  <2>1. UNCHANGED xw
    BY <1>2 DEF AgentStarts, proxyWork
  <2> QED BY <1>2, <2>1 DEF AgentStarts, HostFate, HostRests, apiVars, history
<1>3. CASE UNCHANGED <<hostVars, pod, brokerRestarts>>
  BY <1>3, WorkerFates DEF WorkerFate, WorkerGoesOn, HostFate, HostRests, hostVars
<1> QED BY <1>1, <1>2, <1>3 DEF HostFate

\* Nobody knows a container that has not been started.
ContainersKnown ==
    /\ agent.cid <= container
    /\ agentCache.cid <= container
    /\ xw.cid <= container
    /\ xw.proxy.cid <= container
    /\ \A u \in PrimitiveUIDs :
          proxies[u].cid <= container /\ proxyCache[u].cid <= container
    /\ process => container # 0
    /\ served.up => process

\* What copy c of a proxy still says of the object x that is there: it is not
\* newer; a claimed live one is of the same incarnation, since the finalizer
\* keeps that, and so is any copy once the object is ready; its marks stand.
CopyOf(c, x) ==
    /\ x.uid # 0 => c.uid <= x.uid
    /\ c.uid # 0 /\ x.ready => c.uid = x.uid
    /\ c.uid # 0 /\ c.fin /\ ~c.deleting => c.uid = x.uid
    /\ c.uid # 0 /\ c.uid = x.uid =>
          /\ c.deleting => x.deleting
          /\ c.fin => x.fin
          /\ c.write = x.write

\* The cache and the worker have copies, the worker's from the cache.
CopiesKnown ==
    /\ \A u \in PrimitiveUIDs : CopyOf(proxyCache[u], proxies[u])
    /\ xw.op # "idle" =>
          /\ CopyOf(xw.proxy, proxies[xw.key])
          /\ proxyCache[xw.key].uid # 0 => xw.proxy.uid <= proxyCache[xw.key].uid
          /\ proxyCache[xw.key].uid = xw.proxy.uid /\ xw.proxy.deleting
                => proxyCache[xw.key].deleting

\* The calls that the ProxyReconciler has made still stand when it goes on.
CallsStand ==
    /\ /\ xw.op \in {"register", "ready"}
       /\ container <= 1 \/ xw.proxy.cid = container
       /\ pod
       /\ ~AgentGone(agent)
       => served.up
    /\ /\ xw.op = "ready"
       /\ pod
       /\ brokerRestarts = 0
       => registered

ServeInv ==
    /\ SweepInv
    /\ ContainersKnown
    /\ CopiesKnown
    /\ CallsStand
    /\ RegisteredIsBacked
    /\ ReadyProxyServed

(* Containers are only ever added, and what names one was told of it. *)
LEMMA ContainersKnownStep ==
    ASSUME TypeInv, ContainersKnown, [Next]_vars
    PROVE  ContainersKnown'
<1> USE Numbers
<1>1. container' >= container /\ container' \in Nat
  <2>1. container' \in {container, container + 1}
    BY HostFates DEF HostFate, HostRests, StartContainer, RestartBroker, DeletePod,
       AgentStops, CreateProxy, RegisterPrimitive, UnregisterPrimitive, DestroyProxy
  <2> QED BY <2>1
<1>2. agent'.cid <= container'
  <2>1. agent'.cid <= container
    <3>1. CASE AgentRebinds
      <4>1. PICK cid \in agent.cid + 1 .. container :
                agent' = [agent EXCEPT !.cid = cid, !.ready = FALSE]
        BY <3>1 DEF AgentRebinds
      <4> QED BY <4>1 DEF TypeInv, TypeOK, AgentObject
    <3>2. CASE AgentReady \/ DeleteAgent
      BY <3>2 DEF AgentReady, DeleteAgent, TypeInv, TypeOK, AgentObject, ContainersKnown
    <3>3. CASE RemoveAgent
      BY <3>3 DEF RemoveAgent, NoAgent
    <3> QED BY <3>1, <3>2, <3>3, AgentFates DEF ContainersKnown
  <2>2. agent'.cid \in Nat /\ container' \in Nat
    BY TypeStep, BoundsAssumption DEF TypeInv, TypeOK, AgentObject
  <2> QED BY <1>1, <2>1, <2>2
<1>3. agentCache'.cid <= container' /\ xw'.cid <= container'
  <2>1. agentCache'.cid <= container
    BY CacheFates DEF ContainersKnown
  <2>2. xw'.cid <= container
    BY WorkerFates, IdleWorkers
       DEF WorkerFate, WorkerTakesUp, WorkerGoesOn, ContainersKnown
  <2>3. agentCache'.cid \in Nat /\ xw'.cid \in Nat /\ container' \in Nat
    BY TypeStep, BoundsAssumption DEF TypeInv, TypeOK, AgentObject, ProxyWorker
  <2> QED BY <1>1, <2>1, <2>2, <2>3
<1>4. xw'.proxy.cid <= container'
  <2>1. \/ xw'.proxy = xw.proxy \/ xw'.proxy.cid = 0
        \/ \E k \in PrimitiveUIDs : xw'.proxy = proxyCache[k]
    BY WorkerFates, IdleWorkers, Absent DEF WorkerFate, WorkerTakesUp, WorkerGoesOn
  <2> QED BY <1>1, <2>1 DEF ContainersKnown
<1>5. ASSUME NEW u \in PrimitiveUIDs
      PROVE  proxies'[u].cid <= container' /\ proxyCache'[u].cid <= container'
  <2>1. proxies'[u].cid <= container
    BY ProxyFields, Absent
       DEF ProxyMade, ProxyGone, ProxyMarked, ProxyWritten, ContainersKnown
  <2>2. proxyCache'[u] = proxyCache[u] \/ proxyCache'[u] = proxies[u]
    BY CacheFates DEF Crash, TypeInv, TypeOK
  <2>3. proxies'[u].cid \in Nat
    BY TypeStep, Numbers, BoundsAssumption DEF TypeInv, TypeOK, ProxyObject
  <2> QED BY <1>1, <2>1, <2>2, <2>3 DEF ContainersKnown
<1>6. (process' => container' # 0) /\ (served'.up => process')
  <2>1. CASE HostRests
    BY <2>1 DEF HostRests, ContainersKnown
  <2>2. CASE StartContainer \/ DeletePod \/ AgentStops
    BY <2>2 DEF StartContainer, DeletePod, AgentStops, NotServed
  <2>3. CASE \/ RestartBroker \/ CreateProxy \/ RegisterPrimitive \/ UnregisterPrimitive
             \/ DestroyProxy
    BY <2>3 DEF RestartBroker, CreateProxy, RegisterPrimitive, UnregisterPrimitive,
         DestroyProxy, NotServed, AgentReachable, ContainersKnown
  <2> QED BY <2>1, <2>2, <2>3, HostFates DEF HostFate
<1> QED BY <1>2, <1>3, <1>4, <1>5, <1>6 DEF ContainersKnown

(* A copy stays what it is to the object when the object is disturbed: a proxy
   that becomes ready has no older copies, and one whose finalizer is dropped
   has no live ones. *)
LEMMA CopyKept ==
    ASSUME TypeInv, [Next]_vars, NEW u \in PrimitiveUIDs,
           NEW c \in ProxyObject, c.uid <= made, CopyOf(c, proxies[u]),
           ProxyWritten(u) /\ c.uid # 0 => c.uid = proxies[u].uid,
           ProxyGone(u) /\ proxies[u].fin /\ c.uid = proxies[u].uid => c.deleting
    PROVE  CopyOf(c, proxies'[u])
<1> USE Numbers
<1>0. c.uid \in Nat
  BY BoundsAssumption DEF ProxyObject
<1>1. CASE UNCHANGED proxies[u]
  BY <1>1
<1>2. CASE ProxyMade(u)
  <2>1. proxies[u].uid = 0 /\ ~proxies[u].ready
    BY <1>2, Absent DEF ProxyMade
  <2>2. ~(c.uid # 0 /\ c.fin /\ ~c.deleting) /\ c.uid # made + 1 /\ c.uid <= made + 1
    BY <1>0, <2>1 DEF CopyOf
  <2> QED BY <1>2, <2>2 DEF ProxyMade, CopyOf
<1>3. CASE ProxyGone(u)
  <2>1. proxies'[u].uid = 0 /\ ~proxies'[u].ready
    BY <1>3, Absent DEF ProxyGone
  <2>2. ~(c.uid # 0 /\ c.fin /\ ~c.deleting)
    BY <1>3 DEF CopyOf
  <2> QED BY <2>1, <2>2 DEF CopyOf
<1>4. CASE ProxyMarked(u)
  BY <1>4 DEF ProxyMarked, CopyOf
<1>5. CASE ProxyWritten(u)
  <2>1. c.uid # 0 => c.uid = proxies[u].uid
    BY <1>5
  <2> QED BY <1>5, <2>1 DEF ProxyWritten, CopyOf
<1> QED BY <1>1, <1>2, <1>3, <1>4, <1>5, ProxyFields

(* The copies in the cache and in the worker stay copies. *)
LEMMA CopiesKnownStep ==
    ASSUME TypeInv, UidsMade, CopiesKnown, [Next]_vars
    PROVE  CopiesKnown'
<1> USE Numbers
<1>t. /\ xw.proxy \in ProxyObject
      /\ \A u \in PrimitiveUIDs :
            proxies[u] \in ProxyObject /\ proxyCache[u] \in ProxyObject
  BY DEF TypeInv, TypeOK, ProxyShape
<1>w. xw.op # "idle" => xw.key \in PrimitiveUIDs /\ xw.proxy.uid # 0
  BY Keys
<1>1. ASSUME NEW u \in PrimitiveUIDs
      PROVE  CopyOf(proxyCache[u], proxies'[u])
  <2>1. CASE ProxyWritten(u)
    <3>1. /\ xw.key = u /\ xw.op # "idle" /\ proxies[u] = xw.proxy
          /\ proxies[u].uid # 0
      BY <2>1 DEF ProxyWritten
    <3>2. proxyCache[u].uid # 0 =>
              xw.proxy.uid <= proxyCache[u].uid /\ proxyCache[u].uid <= proxies[u].uid
      BY <3>1 DEF CopiesKnown, CopyOf
    <3>3. proxyCache[u].uid # 0 => proxyCache[u].uid = proxies[u].uid
      BY <3>1, <3>2
    <3>4. ~ProxyGone(u)
      BY <2>1, Absent DEF ProxyWritten, ProxyGone
    <3> QED BY <1>t, <3>3, <3>4, CopyKept DEF UidsMade, CopiesKnown
  <2>2. CASE ProxyGone(u) /\ proxies[u].fin /\ ~ProxyWritten(u)
    <3>1. /\ xw.key = u /\ proxies[u] = xw.proxy /\ xw.op = "removeFinalizer"
      BY <2>2 DEF ProxyGone
    <3>2. xw.proxy.deleting
      BY <3>1 DEF TypeInv, CallFits
    <3>3. proxyCache[u].uid = proxies[u].uid => proxyCache[u].deleting
      BY <3>1, <3>2 DEF CopiesKnown
    <3> QED BY <1>t, <2>2, <3>3, CopyKept DEF UidsMade, CopiesKnown
  <2>3. CASE ~ProxyWritten(u) /\ ~(ProxyGone(u) /\ proxies[u].fin)
    BY <1>t, <2>3, CopyKept DEF UidsMade, CopiesKnown
  <2> QED BY <2>1, <2>2, <2>3
<1>2. ASSUME xw.op # "idle", ~ProxyWrite
      PROVE  CopyOf(xw.proxy, proxies'[xw.key])
  <2>1. ~ProxyWritten(xw.key) /\ ~(ProxyGone(xw.key) /\ proxies[xw.key].fin)
    BY <1>2 DEF ProxyWritten, ProxyGone
  <2> QED BY <1>t, <1>w, <1>2, <2>1, CopyKept DEF UidsMade, CopiesKnown
<1>3. \A x \in ProxyObject : CopyOf(x, x)
  BY BoundsAssumption DEF CopyOf, ProxyObject
<1>4. CASE UNCHANGED proxyCache
  <2>1. \A u \in PrimitiveUIDs : CopyOf(proxyCache'[u], proxies'[u])
    BY <1>1, <1>4
  <2>2. CASE xw' = IdleProxyWorker
    BY <2>1, <2>2, IdleWorkers DEF CopiesKnown
  <2>3. CASE xw.op # "idle" /\ xw'.key = xw.key /\ xw'.proxy = xw.proxy /\ ~ProxyWrite
    BY <1>2, <1>4, <2>1, <2>3 DEF CopiesKnown
  <2>4. CASE \E k \in PrimitiveUIDs : WorkerTakesUp(k)
    <3>1. PICK k \in PrimitiveUIDs : WorkerTakesUp(k)
      BY <2>4
    <3>2. xw'.key = k /\ xw'.proxy = proxyCache[k]
      BY <3>1 DEF WorkerTakesUp
    <3> QED BY <1>4, <2>1, <3>2 DEF CopiesKnown
  <2>5. CASE xw.op = "idle" /\ UNCHANGED xw
    BY <2>1, <2>5 DEF CopiesKnown
  <2>6. ProxyWrite => xw' = IdleProxyWorker
    BY DEF ProxyWrite
  <2> QED BY <2>2, <2>3, <2>4, <2>5, <2>6, WorkerFates DEF WorkerFate, WorkerGoesOn
<1>5. CASE \E v \in PrimitiveUIDs :
              SyncProxy(v) /\ proxyCache' = [proxyCache EXCEPT ![v] = proxies[v]]
  <2>1. PICK v \in PrimitiveUIDs :
            SyncProxy(v) /\ proxyCache' = [proxyCache EXCEPT ![v] = proxies[v]]
    BY <1>5
  <2>2. UNCHANGED <<proxies, xw>>
    BY <2>1 DEF SyncProxy, apiVars
  <2>3. \A u \in PrimitiveUIDs :
            proxyCache'[u] = IF u = v THEN proxies[u] ELSE proxyCache[u]
    BY <2>1 DEF TypeInv, TypeOK
  <2>4. \A u \in PrimitiveUIDs : CopyOf(proxyCache'[u], proxies'[u])
    BY <1>3, <1>t, <2>2, <2>3 DEF CopiesKnown
  <2>5. xw.op # "idle" =>
            /\ proxyCache'[xw.key].uid # 0 => xw.proxy.uid <= proxyCache'[xw.key].uid
            /\ proxyCache'[xw.key].uid = xw.proxy.uid /\ xw.proxy.deleting
                  => proxyCache'[xw.key].deleting
    BY <1>w, <2>3 DEF CopiesKnown, CopyOf
  <2> QED BY <2>2, <2>4, <2>5 DEF CopiesKnown
<1>6. CASE Crash
  <2>1. UNCHANGED proxies /\ proxyCache' = proxies /\ xw'.op = "idle"
    BY <1>6, IdleWorkers DEF Crash, apiVars
  <2> QED BY <1>3, <1>t, <2>1 DEF CopiesKnown
<1> QED BY <1>4, <1>5, <1>6, CacheFates

(* A primitive of which there is at most one incarnation has at most one proxy,
   and the ProxyReconciler takes that one down only when it is deleted. *)
LEMMA TakenDownIsDeleted ==
    ASSUME TypeInv, PrimitivesKnown, CopiesKnown, primitives <= 1,
           xw.op \in {"unregister", "destroyProxy"},
           NEW u \in PrimitiveUIDs, proxies[u].ready
    PROVE  proxies[u].deleting
<1> USE Numbers
<1>1. xw.key \in PrimitiveUIDs /\ xw.proxy.uid # 0 /\ xw.proxy.deleting
  BY Keys DEF TypeInv, CallFits
<1>2. proxies[u].uid # 0
  BY Absent DEF TypeInv, TypeOK, ProxyShape
<1>3. u = 1 /\ xw.key = 1
  BY <1>1, <1>2 DEF PrimitivesKnown
<1> QED BY <1>1, <1>2, <1>3 DEF CopiesKnown, CopyOf

(* What the calls of the ProxyReconciler have made stands until the container
   or the broker restarts or the pod or the agent is gone. *)
LEMMA CallsStandStep ==
    ASSUME TypeInv, DecisionsStand, ContainersKnown, CallsStand, RegisteredIsBacked,
           [Next]_vars
    PROVE  CallsStand' /\ RegisteredIsBacked'
<1> USE Numbers
<1>g. AgentGone(agent) => AgentGone(agent')
  BY AgentStaysGone DEF TypeInv
<1>1. CASE HostRests
  <2>1. xw'.op \in {"register", "ready"} => xw'.op = xw.op /\ xw'.proxy = xw.proxy
    <3>1. \A k \in PrimitiveUIDs : WorkerTakesUp(k) => xw'.op \notin {"register", "ready"}
      BY Decisions DEF WorkerTakesUp
    <3> QED BY <1>1, <3>1, IdleWorkers DEF HostRests
  <2> QED BY <1>1, <1>g, <2>1 DEF HostRests, CallsStand, RegisteredIsBacked
<1>2. CASE StartContainer
  <2>1. /\ container' = container + 1 /\ pod
        /\ UNCHANGED <<xw, pod, agent, registered, brokerRestarts>>
    BY <1>2 DEF StartContainer, apiVars, proxyWork, history
  <2>2. container' <= 1 => ~served.up
    BY <2>1 DEF ContainersKnown
  <2>3. container' <= 1 => container <= 1
    BY <2>1
  <2>4. xw.proxy.cid # container'
    BY <2>1 DEF ContainersKnown
  <2> QED BY <2>1, <2>2, <2>3, <2>4 DEF CallsStand, RegisteredIsBacked
<1>3. CASE RestartBroker
  <2>1. /\ brokerRestarts' # 0 /\ ~registered'
        /\ UNCHANGED <<xw, pod, agent, container, served>>
    BY <1>3 DEF RestartBroker, apiVars, proxyWork
  <2> QED BY <2>1 DEF CallsStand, RegisteredIsBacked
<1>4. CASE DeletePod
  BY <1>4 DEF DeletePod, CallsStand, RegisteredIsBacked
<1>5. CASE AgentStops
  <2>1. AgentGone(agent') /\ UNCHANGED <<xw, pod, registered, brokerRestarts>>
    BY <1>5 DEF AgentStops, AgentGone, apiVars, proxyWork, history
  <2> QED BY <2>1 DEF CallsStand, RegisteredIsBacked
<1>6. CASE CreateProxy
  <2>1. served'.up /\ xw'.op = "register"
    BY <1>6 DEF CreateProxy, TypeInv, TypeOK, ProxyWorker
  <2> QED BY <2>1 DEF CallsStand, RegisteredIsBacked
<1>7. CASE RegisterPrimitive
  <2>1. /\ registered' /\ xw.op = "register" /\ xw'.op = "ready"
        /\ xw'.proxy = xw.proxy
        /\ UNCHANGED <<pod, agent, container, served, brokerRestarts>>
    BY <1>7 DEF RegisterPrimitive, TypeInv, TypeOK, ProxyWorker, apiVars, history
  <2> QED BY <2>1 DEF CallsStand, RegisteredIsBacked
<1>8. CASE UnregisterPrimitive \/ DestroyProxy
  <2>1. ~registered' /\ xw'.op \in {"destroyProxy", "removeFinalizer"}
    BY <1>8 DEF UnregisterPrimitive, DestroyProxy, DecisionsStand, TypeInv, TypeOK,
         ProxyWorker
  <2> QED BY <2>1 DEF CallsStand, RegisteredIsBacked
<1> QED BY <1>1, <1>2, <1>3, <1>4, <1>5, <1>6, <1>7, <1>8, HostFates DEF HostFate

(* A proxy becomes ready after the calls, and from then on only what ends the
   claim ends what they have made. *)
LEMMA ReadyProxyServedStep ==
    ASSUME ServeInv, [Next]_vars
    PROVE  ReadyProxyServed'
<1> USE Numbers DEF ServeInv, SweepInv, ProxyInv
<1> SUFFICES ASSUME primitives' <= 1, NEW u \in PrimitiveUIDs, Claims(u)'
             PROVE  served'.up /\ (brokerRestarts' = 0 => registered')
  BY DEF ReadyProxyServed
<1>1. primitives <= 1 /\ ~AgentGone(agent)
  <2>1. primitives' = primitives \/ primitives' = primitives + 1
    BY PrimitiveFates DEF CreatePrimitive, DeletePrimitive, SweepWrite, history
  <2> QED BY <2>1, AgentStaysGone DEF TypeInv, Claims
<1>2. CASE HostRests
  <2>1. Claims(u) \/ (xw.op = "ready" /\ xw.proxy.cid = container)
    <3>1. proxies'[u].ready /\ ~proxies'[u].deleting /\ proxies'[u].cid = container /\ pod
      BY <1>2 DEF HostRests, Claims
    <3> QED BY <1>1, <3>1, ProxyFields, Absent
          DEF Claims, ProxyMade, ProxyGone, ProxyMarked, ProxyWritten
  <2>2. pod /\ UNCHANGED <<served, registered, brokerRestarts>>
    BY <1>2 DEF HostRests, Claims
  <2> QED BY <1>1, <2>1, <2>2 DEF ReadyProxyServed, CallsStand
<1>3. CASE StartContainer
  <2>1. container' = container + 1 /\ proxies' = proxies
    BY <1>3 DEF StartContainer, apiVars
  <2> QED BY <2>1 DEF ContainersKnown, Claims
<1>4. CASE RestartBroker
  <2>1. brokerRestarts' # 0 /\ Claims(u) /\ UNCHANGED served
    BY <1>4 DEF RestartBroker, Claims, apiVars
  <2> QED BY <1>1, <2>1 DEF ReadyProxyServed
<1>5. CASE DeletePod
  BY <1>5 DEF DeletePod, Claims
<1>6. CASE AgentStops
  BY <1>1, <1>6 DEF AgentStops, AgentGone
<1>7. CASE CreateProxy \/ RegisterPrimitive
  <2>1. UNCHANGED <<proxies, container, pod, agent, brokerRestarts>>
    BY <1>7 DEF CreateProxy, RegisterPrimitive, apiVars, history
  <2>2. (served.up => served'.up) /\ (registered => registered')
    BY <1>7 DEF CreateProxy, RegisterPrimitive
  <2> QED BY <1>1, <2>1, <2>2 DEF ReadyProxyServed, Claims
<1>8. CASE UnregisterPrimitive \/ DestroyProxy
  <2>1. proxies[u].ready /\ ~proxies[u].deleting
        /\ xw.op \in {"unregister", "destroyProxy"}
    BY <1>8 DEF UnregisterPrimitive, DestroyProxy, Claims, apiVars
  <2> QED BY <1>1, <2>1, TakenDownIsDeleted
<1> QED BY <1>2, <1>3, <1>4, <1>5, <1>6, <1>7, <1>8, HostFates DEF HostFate

(* At first nothing is served, registered or called. *)
LEMMA ServeInvInit == Init => ServeInv
<1> SUFFICES ASSUME Init PROVE ServeInv
  OBVIOUS
<1>1. agent.cid = 0 /\ agentCache.cid = 0 /\ ~served.up
  BY DEF Init, NoAgent, NotServed
<1>2. /\ \A u \in PrimitiveUIDs : proxies[u] = NoProxy /\ proxyCache[u] = NoProxy
      /\ xw = IdleProxyWorker
  BY DEF Init
<1>3. ContainersKnown
  BY <1>1, <1>2, IdleWorkers, Absent DEF Init, ContainersKnown
<1>4. CopiesKnown
  BY <1>2, IdleWorkers, Absent DEF CopiesKnown, CopyOf
<1>5. CallsStand /\ RegisteredIsBacked /\ ReadyProxyServed
  BY <1>1, <1>2, IdleWorkers, Absent
     DEF Init, CallsStand, RegisteredIsBacked, ReadyProxyServed, Claims
<1> QED BY <1>3, <1>4, <1>5, SweepInvInit DEF ServeInv

(* One step of the whole system keeps the invariant. *)
LEMMA ServeInvStep == ServeInv /\ [Next]_vars => ServeInv'
<1> SUFFICES ASSUME ServeInv, [Next]_vars PROVE ServeInv'
  OBVIOUS
<1>1. ContainersKnown' /\ CopiesKnown' /\ CallsStand' /\ RegisteredIsBacked'
  BY ContainersKnownStep, CopiesKnownStep, CallsStandStep
     DEF ServeInv, SweepInv, ProxyInv
<1> QED BY <1>1, SweepInvStep, ReadyProxyServedStep DEF ServeInv

(* The invariant holds in every reachable state. *)
LEMMA ServeInvHolds == Spec => []ServeInv
BY ServeInvInit, ServeInvStep, PTL DEF Spec

(* For every number of containers, restarts, faults and permissions, a proxy
   that says it is ready in the running container is served there, and
   registered unless the broker was restarted: no lost answer, container
   restart or crash leaves a readiness behind that nothing stands for
   (proxy.go:132-265). *)
THEOREM ReadyIsServed == Spec => []ReadyProxyServed
<1>1. ServeInv => ReadyProxyServed
  BY DEF ServeInv
<1> QED BY <1>1, ServeInvHolds, PTL

(* However often the name is reused, the broker routes the primitive to the
   agent only while the agent serves it, until the container restarts or the
   pod or the agent is gone (proxy.go:216-253, 311-363). *)
THEOREM RegisteredStaysBacked == Spec => []RegisteredIsBacked
<1>1. ServeInv => RegisteredIsBacked
  BY DEF ServeInv
<1> QED BY <1>1, ServeInvHolds, PTL

-----------------------------------------------------------------------------
(* The agent serves the permissions of the ready proxy                     *)

\* What is served is served for an incarnation that the cache shows as long
\* as it exists.
ServedCovered ==
    /\ served.up => primitives # 0
    /\ served.up /\ primitives <= 1 /\ primitive.uid # 0
          => primitiveCache.uid = primitive.uid

\* As long as a proxy may yet be created or made ready, the proxy that the
\* agent serves is still there, claimed, and states what is served ...
Holder ==
    /\ primitives <= 1
    /\ pod
    /\ ~AgentGone(agent)
    /\ served.up
    /\ primitiveCache.uid # 0 \/ xw.op \in Creating
    => \A u \in PrimitiveUIDs : u = primitives =>
          proxies[u].fin /\ proxies[u].write = served.write

\* ... because its finalizer is dropped only when it is not served any more.
HolderGone ==
    /\ primitives <= 1
    /\ pod
    /\ ~AgentGone(agent)
    /\ primitiveCache.uid # 0
    /\ xw.op = "removeFinalizer"
    => ~served.up

PermissionInv ==
    /\ ServeInv
    /\ ServedCovered
    /\ Holder
    /\ HolderGone
    /\ ServedPermissions

(* What was served and still is was served before, unless CreateProxy has just
   created it. *)
LEMMA ServedBefore ==
    ASSUME TypeInv, [Next]_vars, served'.up
    PROVE  \/ UNCHANGED served
           \/ CreateProxy /\ ~served.up /\ served'.write = xw.proxy.write
<1>1. CASE CreateProxy
  BY <1>1 DEF CreateProxy
<1>2. CASE ~CreateProxy
  <2>1. UNCHANGED served \/ served' = NotServed
    BY <1>2, HostFates DEF HostFate, HostRests, StartContainer, RestartBroker,
       DeletePod, AgentStops, RegisterPrimitive, UnregisterPrimitive, DestroyProxy
  <2> QED BY <2>1 DEF NotServed
<1> QED BY <1>1, <1>2

(* With at most one incarnation now there was at most one before, and while
   something was served there was that one. *)
LEMMA OneIncarnation ==
    ASSUME TypeInv, [Next]_vars, primitives' <= 1
    PROVE  /\ primitives <= 1
           /\ CreatePrimitive => primitives = 0
           /\ ~CreatePrimitive => primitives' = primitives
                                  /\ primitive'.uid \in {0, primitive.uid}
<1> USE Numbers
<1>1. \/ CreatePrimitive /\ primitives' = primitives + 1
      \/ ~CreatePrimitive /\ primitives' = primitives
  BY PrimitiveFates DEF CreatePrimitive, DeletePrimitive, SweepWrite, history
<1>2. ~CreatePrimitive => primitive'.uid \in {0, primitive.uid}
  <2>1. CASE DeletePrimitive
    BY <2>1, DeletedPrimitive DEF DeletePrimitive, TypeInv, TypeOK
  <2>2. CASE SweepWrite
    BY <2>2, WrittenPrimitive, Absent DEF SweepWrite, SweepFits, TypeInv, TypeOK
  <2> QED BY <2>1, <2>2, PrimitiveFates
<1> QED BY <1>1, <1>2

(* A served proxy was created for an incarnation that the cache showed. *)
LEMMA ServedCoveredStep ==
    ASSUME ProxyInv, ServedCovered, [Next]_vars
    PROVE  ServedCovered'
<1> USE Numbers DEF ProxyInv
<1> SUFFICES ASSUME served'.up
             PROVE  /\ primitives' # 0
                    /\ primitives' <= 1 /\ primitive'.uid # 0
                          => primitiveCache'.uid = primitive'.uid
  BY DEF ServedCovered
<1>1. CASE CreateProxy
  <2>1. xw.key \in PrimitiveUIDs /\ UNCHANGED <<primitive, primitiveCache, primitives>>
    BY <1>1, Keys DEF CreateProxy, apiVars, cacheVars, history
  <2>2. primitives # 0
    BY <2>1 DEF PrimitivesKnown
  <2>3. primitives <= 1 /\ primitive.uid # 0 => primitive.uid = xw.key
    BY <2>1 DEF PrimitivesKnown
  <2> QED BY <2>1, <2>2, <2>3 DEF CacheCovers
<1>2. CASE ~CreateProxy
  <2>1. served.up /\ primitives # 0
    BY <1>2, ServedBefore DEF ServedCovered
  <2>2. primitives' # 0
    BY <2>1, PrimitiveFates DEF CreatePrimitive, DeletePrimitive, SweepWrite, history
  <2>3. ASSUME primitives' <= 1, primitive'.uid # 0
        PROVE  primitiveCache'.uid = primitive'.uid
    <3>1. primitives <= 1 /\ primitive'.uid = primitive.uid
      BY <2>1, <2>3, OneIncarnation
    <3> QED BY <2>1, <2>3, <3>1, CacheFates DEF ServedCovered, apiVars
  <2> QED BY <2>2, <2>3
<1> QED BY <1>1, <1>2

(* The proxy that is served is not replaced behind the agent's back. *)
LEMMA HolderStep ==
    ASSUME PermissionInv, [Next]_vars
    PROVE  Holder' /\ HolderGone'
<1> USE Numbers DEF PermissionInv, ServeInv, SweepInv, ProxyInv
<1>p. pod' => pod
  BY HostFates DEF HostFate, HostRests, StartContainer, RestartBroker, DeletePod,
     AgentStops, CreateProxy, RegisterPrimitive, UnregisterPrimitive, DestroyProxy,
     apiVars
<1>g. AgentGone(agent) => AgentGone(agent')
  BY AgentStaysGone DEF TypeInv
<1>c. served.up /\ primitives <= 1 /\ primitiveCache'.uid # 0 => primitiveCache.uid # 0
  BY CacheFates DEF ServedCovered
<1>k. /\ xw'.op \in Creating => xw.op \in Creating \/ primitiveCache.uid # 0
      /\ pod /\ xw'.op = "removeFinalizer" /\ ~AgentGone(agent) =>
            xw.op = "removeFinalizer" \/ primitiveCache.uid = 0 \/ ~served'.up
  <2>1. ASSUME NEW k \in PrimitiveUIDs, WorkerTakesUp(k)
        PROVE  /\ xw'.op \in Creating => primitiveCache.uid # 0
               /\ pod /\ xw'.op = "removeFinalizer" => primitiveCache.uid = 0
    BY <2>1, Decisions DEF WorkerTakesUp, Creating, CacheCovers
  <2>2. CASE WorkerGoesOn
    <3>1. UnregisterPrimitive /\ xw'.op = "removeFinalizer" => AgentGone(agent)
      BY DEF UnregisterPrimitive, CacheCovers, TypeInv, TypeOK, ProxyWorker
    <3>2. DestroyProxy => ~served'.up
      BY DEF DestroyProxy, NotServed
    <3> QED BY <2>2, <3>1, <3>2 DEF WorkerGoesOn, Creating
  <2>3. CASE xw' = IdleProxyWorker
    BY <2>3, IdleWorkers DEF Creating
  <2> QED BY <2>1, <2>2, <2>3, WorkerFates DEF WorkerFate
<1>1. HolderGone'
  <2> SUFFICES ASSUME primitives' <= 1, pod', ~AgentGone(agent'),
                      primitiveCache'.uid # 0, xw'.op = "removeFinalizer", served'.up
               PROVE  FALSE
    BY DEF HolderGone
  <2>1. ~CreateProxy
    BY DEF CreateProxy, TypeInv, TypeOK, ProxyWorker
  <2>2. served.up
    BY <2>1, ServedBefore
  <2> QED BY <1>p, <1>g, <1>c, <1>k, <2>2, OneIncarnation DEF HolderGone
<1>2. Holder'
  <2> SUFFICES ASSUME primitives' <= 1, pod', ~AgentGone(agent'), served'.up,
                      primitiveCache'.uid # 0 \/ xw'.op \in Creating,
                      NEW u \in PrimitiveUIDs, u = primitives'
               PROVE  proxies'[u].fin /\ proxies'[u].write = served'.write
    BY DEF Holder
  <2>1. CASE CreateProxy /\ ~served.up
    <3>1. /\ served'.write = xw.proxy.write /\ UNCHANGED <<proxies, primitives>>
          /\ xw.op = "createProxy"
      BY <2>1, ServedBefore DEF CreateProxy, apiVars, history
    <3>2. /\ xw.key \in PrimitiveUIDs /\ xw.proxy.uid # 0
          /\ xw.proxy.fin /\ ~xw.proxy.deleting
      BY <3>1, Keys DEF TypeInv, CallFits
    <3>3. u = xw.key
      BY <3>1, <3>2 DEF PrimitivesKnown
    <3> QED BY <3>1, <3>2, <3>3 DEF CopiesKnown, CopyOf
  <2>2. CASE ~(CreateProxy /\ ~served.up)
    <3>1. UNCHANGED served /\ served.up
      BY <2>2, ServedBefore
    <3>2. primitives <= 1 /\ u = primitives
      BY <3>1, OneIncarnation DEF ServedCovered
    <3>3. primitiveCache.uid # 0 \/ xw.op \in Creating
      BY <1>c, <1>k, <3>1, <3>2
    <3>4. proxies[u].fin /\ proxies[u].write = served.write
      BY <1>p, <1>g, <3>1, <3>2, <3>3 DEF Holder
    <3>5. ~ProxyGone(u)
      <4> SUFFICES ASSUME ProxyGone(u) PROVE FALSE
        OBVIOUS
      <4>1. xw.op = "removeFinalizer" /\ xw' = IdleProxyWorker
        BY <3>4 DEF ProxyGone, ProxyWrite
      <4>2. primitiveCache.uid # 0
        BY <1>c, <3>1, <3>2, <4>1, IdleWorkers DEF Creating
      <4> QED BY <1>p, <1>g, <3>1, <3>2, <4>1, <4>2 DEF HolderGone
    <3> QED BY <3>1, <3>4, <3>5, ProxyFields, Absent
          DEF ProxyMade, ProxyMarked, ProxyWritten
  <2> QED BY <2>1, <2>2
<1> QED BY <1>1, <1>2

(* So a proxy becomes ready with what is served. *)
LEMMA ServedPermissionsStep ==
    ASSUME PermissionInv, [Next]_vars
    PROVE  ServedPermissions'
<1> USE Numbers DEF PermissionInv, ServeInv, SweepInv, ProxyInv
<1> SUFFICES ASSUME primitives' <= 1, NEW u \in PrimitiveUIDs, Claims(u)'
             PROVE  served'.write = proxies'[u].write
  BY DEF ServedPermissions
<1>1. primitives <= 1 /\ ~AgentGone(agent)
  BY OneIncarnation, AgentStaysGone DEF TypeInv, Claims
<1>2. CASE HostRests
  <2>1. /\ proxies'[u].ready /\ ~proxies'[u].deleting
        /\ proxies'[u].cid = container /\ pod
    BY <1>2 DEF HostRests, Claims
  <2>2. /\ proxies'[u].write = proxies[u].write
        /\ \/ Claims(u)
           \/ xw.op = "ready" /\ xw.key = u /\ xw.proxy.cid = container
    BY <1>1, <2>1, ProxyFields, Absent
       DEF Claims, ProxyMade, ProxyGone, ProxyMarked, ProxyWritten
  <2>3. UNCHANGED served
    BY <1>2 DEF HostRests
  <2>4. CASE xw.op = "ready" /\ xw.key = u /\ xw.proxy.cid = container
    <3>1. u = primitives /\ served.up
      BY <1>1, <2>1, <2>4 DEF PrimitivesKnown, CallsStand
    <3> QED BY <1>1, <2>1, <2>2, <2>3, <2>4, <3>1 DEF Holder, Creating
  <2> QED BY <1>1, <2>2, <2>3, <2>4 DEF ServedPermissions
<1>3. CASE StartContainer
  <2>1. container' = container + 1 /\ proxies' = proxies
    BY <1>3 DEF StartContainer, apiVars
  <2> QED BY <2>1 DEF ContainersKnown, Claims
<1>4. CASE DeletePod \/ AgentStops
  BY <1>1, <1>4 DEF DeletePod, AgentStops, AgentGone, Claims
<1>5. CASE RestartBroker \/ CreateProxy \/ RegisterPrimitive
  <2>1. UNCHANGED <<proxies, container, pod, agent>>
    BY <1>5 DEF RestartBroker, CreateProxy, RegisterPrimitive, apiVars
  <2>2. Claims(u) /\ served.up
    BY <1>1, <2>1 DEF Claims, ReadyProxyServed
  <2>3. UNCHANGED served
    BY <1>5, <2>2 DEF RestartBroker, CreateProxy, RegisterPrimitive
  <2> QED BY <1>1, <2>1, <2>2, <2>3 DEF ServedPermissions
<1>6. CASE UnregisterPrimitive \/ DestroyProxy
  <2>1. proxies[u].ready /\ ~proxies[u].deleting
        /\ xw.op \in {"unregister", "destroyProxy"}
    BY <1>6 DEF UnregisterPrimitive, DestroyProxy, Claims, apiVars
  <2> QED BY <1>1, <2>1, TakenDownIsDeleted
<1> QED BY <1>2, <1>3, <1>4, <1>5, <1>6, HostFates DEF HostFate

(* For every number of containers, restarts, faults and changes of the
   permissions, a ready proxy is served with the permissions that it states:
   AlreadyExists hides no proxy with other permissions, because the one that
   the agent serves keeps its finalizer until it is destroyed
   (proxy.go:217, 311-363). *)
THEOREM PermissionsServed == Spec => []ServedPermissions
<1>1. Init => PermissionInv
  <2> SUFFICES ASSUME Init PROVE PermissionInv
    OBVIOUS
  <2>1. ~served.up /\ (\A u \in PrimitiveUIDs : ~proxies[u].ready)
    BY Absent DEF Init, NotServed
  <2> QED BY <2>1, ServeInvInit DEF PermissionInv, ServedCovered, Holder, HolderGone,
        ServedPermissions, Claims
<1>2. PermissionInv /\ [Next]_vars => PermissionInv'
  <2> SUFFICES ASSUME PermissionInv, [Next]_vars PROVE PermissionInv'
    OBVIOUS
  <2>1. ServedCovered'
    BY ServedCoveredStep DEF PermissionInv, ServeInv, SweepInv
  <2> QED BY <2>1, ServeInvStep, HolderStep, ServedPermissionsStep DEF PermissionInv
<1>3. PermissionInv => ServedPermissions
  BY DEF PermissionInv
<1> QED BY <1>1, <1>2, <1>3, PTL DEF Spec
=============================================================================
