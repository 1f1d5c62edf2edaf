----------------------- MODULE AgentControllerProofs -----------------------
(***************************************************************************)
(* Proofs about AgentController, for every value of its constants.         *)
(***************************************************************************)
EXTENDS AgentController, TLAPS

-----------------------------------------------------------------------------
(* The shape of the objects is preserved by what the API server and the    *)
(* reconcilers do to them.                                                 *)

(* The object that is not found has the shape of an object. *)
LEMMA AbsentShapes == AgentShape(NoAgent) /\ StoreShape(NoStore)
BY BoundsAssumption DEF AgentShape, StoreShape, NoAgent, NoStore,
     AgentObject, StoreObject

(* Deleting an agent or a store, with or without a finalizer, leaves a
   well-formed object. *)
LEMMA DeletedShapes ==
    /\ \A a : AgentShape(a) => AgentShape(Deleted(a, NoAgent))
    /\ \A s : StoreShape(s) => StoreShape(Deleted(s, NoStore))
<1>1. ASSUME NEW a, AgentShape(a) PROVE AgentShape(Deleted(a, NoAgent))
  BY <1>1, AbsentShapes DEF AgentShape, Deleted, AgentObject, NoAgent
<1>2. ASSUME NEW s, StoreShape(s) PROVE StoreShape(Deleted(s, NoStore))
  BY <1>2, AbsentShapes DEF StoreShape, Deleted, StoreObject, NoStore
<1> QED BY <1>1, <1>2

(* The status reset for a new container leaves a well-formed agent. *)
LEMMA ReboundShape ==
    ASSUME NEW a, AgentShape(a), a.uid # 0, NEW cid \in 0..MaxContainers
    PROVE  AgentShape(Rebound(a, cid))
<1>1. PICK c \in 0..MaxContainers :
          Rebound(a, cid) = [a EXCEPT !.cid = c, !.ready = FALSE, !.rev = 0]
  <2>1. CASE PersistsContainerID
    BY <2>1 DEF Rebound
  <2>2. CASE ~PersistsContainerID
    BY <2>2 DEF Rebound, AgentShape, AgentObject
  <2> QED BY <2>1, <2>2
<1> DEFINE b == [a EXCEPT !.cid = c, !.ready = FALSE]
<1>2. b \in AgentObject /\ ~b.ready /\ b.uid = a.uid
        /\ b.deleting = a.deleting /\ b.fin = a.fin
  BY DEF AgentShape, AgentObject
<1>3. Rebound(a, cid) = [b EXCEPT !.rev = 0]
  BY <1>1
<1> HIDE DEF b
<1> QED BY <1>2, <1>3, BoundsAssumption DEF AgentShape, AgentObject

(* Every write of the AgentReconciler (finalizers and status) leaves a
   well-formed agent. *)
LEMMA WrittenShape ==
    ASSUME NEW w \in AgentWorker, AgentShape(w.agent), w.agent.uid # 0,
           w.op \in WriteOps
    PROVE  AgentShape(Written(w))
<1>1. CASE w.op = "addFinalizer"
  BY <1>1 DEF Written, AgentShape, AgentObject, NoAgent
<1>2. CASE w.op = "rebind"
  BY <1>2, ReboundShape DEF Written, AgentWorker
<1>3. CASE w.op = "ready"
  BY <1>3 DEF Written, AgentShape, AgentObject, NoAgent, AgentWorker
<1>4. CASE w.op = "removeFinalizer"
  BY <1>4, AbsentShapes DEF Written, Released, AgentShape, AgentObject, NoAgent
<1> QED BY <1>1, <1>2, <1>3, <1>4 DEF WriteOps

(* A claim or a release of the store by the sidecar StoreReconciler leaves a
   well-formed store. *)
LEMMA ClaimedShape ==
    ASSUME NEW s, StoreShape(s), s.uid # 0
    PROVE  /\ StoreShape([s EXCEPT !.fin = TRUE])
           /\ StoreShape(Released(s, NoStore))
BY AbsentShapes DEF StoreShape, StoreObject, Released, NoStore

(* A store as created is well-formed. *)
LEMMA NewStoreShape ==
    ASSUME NEW u \in 1..MaxStores
    PROVE  StoreShape([NoStore EXCEPT !.uid = u])
<1>1. NoStore \in StoreObject /\ ~NoStore.deleting /\ ~NoStore.fin
  BY AbsentShapes DEF StoreShape, NoStore
<1>2. u \in 0..MaxStores /\ u # 0
  BY BoundsAssumption
<1> QED BY <1>1, <1>2 DEF StoreShape, StoreObject

(* A store with a new protocol status is well-formed. *)
LEMMA ReportedShape ==
    ASSUME NEW s, StoreShape(s), s.uid # 0,
           NEW ready \in BOOLEAN, NEW rev \in 1..MaxRevision
    PROVE  StoreShape([s EXCEPT !.ready = ready, !.rev = rev])
<1>1. rev \in 0..MaxRevision
  BY BoundsAssumption
<1> QED BY <1>1 DEF StoreShape, StoreObject

(* An agent as the PodReconciler creates it is well-formed. *)
LEMMA NewAgentShape ==
    ASSUME NEW u \in 1..MaxAgents
    PROVE  AgentShape([NoAgent EXCEPT !.uid = u])
<1>1. NoAgent \in AgentObject /\ ~NoAgent.deleting /\ NoAgent.rev = 0
  BY AbsentShapes DEF AgentShape, NoAgent
<1>2. u \in 0..MaxAgents /\ u # 0
  BY BoundsAssumption
<1> QED BY <1>1, <1>2 DEF AgentShape, AgentObject

(* The workers at rest are well typed. *)
LEMMA IdleWorkers ==
    /\ IdleStoreWorker \in StoreWorker
    /\ IdleAgentWorker \in AgentWorker
    /\ IdleStoreWorker.op = "idle" /\ IdleStoreWorker.store = NoStore
    /\ IdleAgentWorker.op = "idle" /\ IdleAgentWorker.agent = NoAgent
BY BoundsAssumption DEF IdleStoreWorker, IdleAgentWorker, StoreWorker,
     AgentWorker, StoreOps, AgentOps, NoStore, NoAgent, StoreObject, AgentObject

(* A reconciliation decides on one of the operations its worker knows, and on
   none for an object that is not found. *)
LEMMA Decisions ==
    /\ \A s : StoreReconcile(s) \in StoreOps
    /\ \A s : s.uid = 0 => StoreReconcile(s) = "idle"
    /\ \A a, p, s : AgentReconcile(a, p, s) \in AgentOps
    /\ \A a, p, s : a.uid = 0 => AgentReconcile(a, p, s) = "idle"
BY DEF StoreReconcile, AgentReconcile, reconcileCreate, reconcileDelete,
     StoreOps, AgentOps, CallOps, WriteOps

-----------------------------------------------------------------------------
(* Type correctness *)

(* The initial state is well typed. *)
LEMMA TypeInit == Init => TypeOK
<1> SUFFICES ASSUME Init PROVE TypeOK
  OBVIOUS
<1>1. /\ agents \in [StoreUIDs -> AgentObject]
      /\ \A u \in StoreUIDs : AgentShape(agents[u])
      /\ agentCache = agents
  BY AbsentShapes DEF Init, AgentShape
<1>2. /\ pod \in PodObject /\ podCache = pod
      /\ driver \in DriverState
      /\ container \in 0..MaxContainers /\ creating \in 0..MaxStores
      /\ stores \in 0..MaxStores /\ made \in 0..MaxAgents
      /\ faults \in 0..MaxFaults
  BY BoundsAssumption DEF Init, PodObject, DriverState, Stopped
<1>3. /\ StoreShape(store) /\ StoreShape(storeCache)
      /\ StoreShape(sw.store) /\ AgentShape(aw.agent)
      /\ sw \in StoreWorker /\ aw \in AgentWorker
      /\ sw.op = "idle" /\ aw.op = "idle"
  BY AbsentShapes, IdleWorkers DEF Init
<1> QED BY <1>1, <1>2, <1>3 DEF Init, TypeOK

(* Steps of users, kubelet, the core StoreReconciler and the garbage
   collector. *)
LEMMA TypeEnvironment == TypeOK /\ (Environment \/ GarbageCollect) => TypeOK'
<1> SUFFICES ASSUME TypeOK, Environment \/ GarbageCollect PROVE TypeOK'
  OBVIOUS
<1>1. CASE CreateStore
  <2>1. StoreShape(store') /\ stores' \in 0..MaxStores
    <3>1. stores + 1 \in 1..MaxStores
      BY <1>1, BoundsAssumption DEF CreateStore, TypeOK
    <3> QED BY <1>1, <3>1, NewStoreShape DEF CreateStore
  <2> QED BY <1>1, <2>1 DEF CreateStore, TypeOK, hostVars, cacheVars,
               storeWork, agentWork
<1>2. CASE DeleteStore
  <2>1. StoreShape(store')
    BY <1>2, DeletedShapes DEF DeleteStore, TypeOK
  <2> QED BY <1>2, <2>1 DEF DeleteStore, TypeOK, hostVars, cacheVars,
               storeWork, agentWork, history
<1>3. CASE ReportProtocol
  <2>1. PICK ready \in BOOLEAN, rev \in 1..MaxRevision :
            store' = [store EXCEPT !.ready = ready, !.rev = rev]
    BY <1>3 DEF ReportProtocol
  <2>2. StoreShape(store')
    BY <1>3, <2>1, ReportedShape DEF ReportProtocol, TypeOK
  <2> QED BY <1>3, <2>2 DEF ReportProtocol, TypeOK, hostVars, cacheVars,
               storeWork, agentWork, history
<1>4. CASE StartContainer
  <2>1. container' \in 0..MaxContainers /\ driver' \in DriverState
    BY <1>4, BoundsAssumption DEF StartContainer, TypeOK, DriverState, Stopped
  <2> QED BY <1>4, <2>1 DEF StartContainer, TypeOK, apiVars, cacheVars,
               storeWork, agentWork, history
<1>5. CASE ReportStatus
  <2>1. pod' \in PodObject
    BY <1>5 DEF ReportStatus, TypeOK, PodObject
  <2> QED BY <1>5, <2>1 DEF ReportStatus, TypeOK, hostVars, cacheVars,
               storeWork, agentWork, history
<1>6. CASE DeletePod
  <2>1. pod' \in PodObject /\ driver' \in DriverState
    BY <1>6, BoundsAssumption
       DEF DeletePod, PodObject, NoPod, DriverState, Stopped
  <2> QED BY <1>6, <2>1 DEF DeletePod, TypeOK, cacheVars,
               storeWork, agentWork, history
<1>7. CASE GarbageCollect
  <2>1. PICK u \in StoreUIDs :
            agents' = [agents EXCEPT ![u] = Deleted(agents[u], NoAgent)]
    BY <1>7 DEF GarbageCollect
  <2>2. /\ agents' \in [StoreUIDs -> AgentObject]
        /\ \A v \in StoreUIDs : AgentShape(agents'[v])
    BY <2>1, DeletedShapes DEF TypeOK, AgentShape
  <2> QED BY <1>7, <2>2 DEF GarbageCollect, TypeOK, hostVars, cacheVars,
               storeWork, agentWork, history
<1> QED BY <1>1, <1>2, <1>3, <1>4, <1>5, <1>6, <1>7 DEF Environment

(* Steps of the PodReconciler and of the informers. *)
LEMMA TypePodAndInformers ==
    ASSUME TypeOK,
           \/ PodWorker \/ SyncStore \/ SyncPod
           \/ \E u \in StoreUIDs : SyncAgent(u)
    PROVE  TypeOK'
<1>1. CASE PodReadsStore
  <2>1. creating' \in 0..MaxStores
    BY <1>1 DEF PodReadsStore, TypeOK, StoreShape, StoreObject
  <2> QED BY <1>1, <2>1 DEF PodReadsStore, TypeOK, apiVars, hostVars, cacheVars,
               storeWork, agentWork, history
<1>2. CASE PodCreatesAgent
  <2>1. creating \in StoreUIDs /\ creating' \in 0..MaxStores
    BY <1>2, BoundsAssumption DEF PodCreatesAgent, TypeOK, StoreUIDs
  <2>2. CASE agents[creating].uid = 0 /\ made < MaxAgents
    <3>1. made + 1 \in 1..MaxAgents
      BY <2>2, BoundsAssumption DEF TypeOK
    <3>2. made' = made + 1
            /\ agents' = [agents EXCEPT ![creating] = [NoAgent EXCEPT !.uid = made + 1]]
      BY <1>2, <2>2 DEF PodCreatesAgent
    <3>3. /\ agents' \in [StoreUIDs -> AgentObject]
          /\ \A v \in StoreUIDs : AgentShape(agents'[v])
      BY <2>1, <3>1, <3>2, NewAgentShape DEF TypeOK, AgentShape
    <3>4. made' \in 0..MaxAgents /\ creating' = 0
      BY <1>2, <3>1, <3>2, BoundsAssumption DEF PodCreatesAgent
    <3> QED BY <1>2, <2>1, <3>3, <3>4 DEF PodCreatesAgent, TypeOK, hostVars,
                 cacheVars, storeWork, agentWork
  <2>3. CASE agents[creating].uid # 0
    BY <1>2, <2>1, <2>3 DEF PodCreatesAgent, TypeOK, hostVars, cacheVars,
         storeWork, agentWork
  <2> QED BY <1>2, <2>2, <2>3 DEF PodCreatesAgent, TypeOK
<1>3. CASE SyncStore
  <2>1. agentQueue' \subseteq StoreUIDs
    BY <1>3 DEF SyncStore, LabelledAgents, TypeOK
  <2> QED BY <1>3, <2>1 DEF SyncStore, TypeOK, apiVars, hostVars, history
<1>4. CASE SyncPod
  BY <1>4 DEF SyncPod, TypeOK, apiVars, hostVars, storeWork, history
<1>5. CASE \E u \in StoreUIDs : SyncAgent(u)
  <2>1. PICK u \in StoreUIDs : SyncAgent(u)
    BY <1>5
  <2>2. /\ agentCache' \in [StoreUIDs -> AgentObject]
        /\ \A v \in StoreUIDs : AgentShape(agentCache'[v])
        /\ agentQueue' \subseteq StoreUIDs
    BY <2>1 DEF SyncAgent, TypeOK
  <2> QED BY <2>1, <2>2 DEF SyncAgent, TypeOK, apiVars, hostVars, storeWork, history
<1> QED BY <1>1, <1>2, <1>3, <1>4, <1>5 DEF PodWorker

(* Steps of the sidecar StoreReconciler. *)
LEMMA TypeStoreStep ==
    ASSUME TypeOK, StoreStep \/ StoreFault
    PROVE  TypeOK'
<1>1. CASE StoreBegin
  <2> DEFINE op == StoreReconcile(storeCache)
  <2>1. CASE op = "idle"
    BY <1>1, <2>1, IdleWorkers, AbsentShapes DEF StoreBegin, TypeOK, apiVars,
         hostVars, cacheVars, agentWork, history
  <2>2. CASE op # "idle"
    <3>1. op \in StoreOps /\ storeCache.uid # 0
      BY <2>2, Decisions
    <3> HIDE DEF op
    <3>2. sw' = [op |-> op, store |-> storeCache]
      BY <1>1, <2>2 DEF StoreBegin, op
    <3>3. sw' \in StoreWorker /\ sw'.store = storeCache /\ sw'.op = op
      BY <3>1, <3>2 DEF StoreWorker, TypeOK, StoreShape
    <3> QED BY <1>1, <3>1, <3>3 DEF StoreBegin, TypeOK, apiVars,
               hostVars, cacheVars, agentWork, history
  <2> QED BY <2>1, <2>2
<1>2. CASE StoreSweep
  <2>1. sw' \in StoreWorker /\ sw'.store = sw.store /\ sw.store.uid # 0
    BY <1>2 DEF StoreSweep, TypeOK, StoreWorker, StoreOps
  <2> QED BY <1>2, <2>1 DEF StoreSweep, TypeOK, apiVars, hostVars, cacheVars,
               agentWork, history
<1>3. CASE StoreWrite
  <2>1. StoreShape(store')
    BY <1>3, ClaimedShape DEF StoreWrite, TypeOK
  <2> QED BY <1>3, <2>1, IdleWorkers, AbsentShapes DEF StoreWrite, TypeOK,
               hostVars, cacheVars, agentWork, history
<1>4. CASE StoreConflict \/ StoreFault
  <2>1. faults' \in 0..MaxFaults
    BY <1>4, BoundsAssumption DEF StoreConflict, StoreFault, TypeOK
  <2> QED BY <1>4, <2>1, IdleWorkers, AbsentShapes DEF StoreConflict, StoreFault,
         StoreRetry, TypeOK, apiVars, hostVars, cacheVars, agentWork
<1> QED BY <1>1, <1>2, <1>3, <1>4 DEF StoreStep

(* Steps of the AgentReconciler, and the controller's crash. *)
LEMMA TypeAgentStep ==
    ASSUME TypeOK, AgentStep \/ AgentFault \/ Crash
    PROVE  TypeOK'
<1>1. CASE \E k \in StoreUIDs : AgentBegin(k)
  <2>1. PICK k \in StoreUIDs : AgentBegin(k)
    BY <1>1
  <2> DEFINE op == AgentReconcile(agentCache[k], podCache, storeCache)
  <2>2. agentQueue' \subseteq StoreUIDs
    BY <2>1 DEF AgentBegin, TypeOK
  <2>3. CASE op = "idle"
    BY <2>1, <2>2, <2>3, IdleWorkers, AbsentShapes DEF AgentBegin, TypeOK,
         apiVars, hostVars, cacheVars, storeWork, history
  <2>4. CASE op # "idle"
    <3>1. op \in AgentOps /\ agentCache[k].uid # 0
      BY <2>4, Decisions
    <3> HIDE DEF op
    <3>2. PICK cid \in 0..MaxContainers, uid \in 0..MaxStores, rev \in 0..MaxRevision :
             aw' = [op |-> op, key |-> k, agent |-> agentCache[k],
                    cid |-> cid, uid |-> uid, rev |-> rev]
      BY <2>1, <2>4, BoundsAssumption
         DEF AgentBegin, op, TypeOK, PodObject, StoreShape, StoreObject
    <3>3. /\ aw' \in AgentWorker
          /\ aw'.agent = agentCache[k] /\ aw'.op = op /\ aw'.key = k
      BY <3>1, <3>2 DEF AgentWorker, TypeOK, AgentShape, StoreUIDs
    <3> QED BY <2>1, <2>2, <3>1, <3>3 DEF AgentBegin, TypeOK, apiVars,
               hostVars, cacheVars, storeWork, history, StoreUIDs
  <2> QED BY <2>3, <2>4
<1>2. CASE AgentDelete
  <2>1. aw.key \in StoreUIDs
    BY <1>2 DEF AgentDelete, TypeOK, AgentWorker, StoreUIDs
  <2>2. /\ agents' \in [StoreUIDs -> AgentObject]
        /\ \A v \in StoreUIDs : AgentShape(agents'[v])
    BY <1>2, <2>1, DeletedShapes DEF AgentDelete, TypeOK, AgentShape
  <2> QED BY <1>2, <2>2, IdleWorkers, AbsentShapes DEF AgentDelete, TypeOK,
               hostVars, cacheVars, storeWork, history
<1>3. CASE StartAgent \/ ConfigureAgent \/ StopAgent
  <2>1. driver' \in DriverState
    <3>1. CASE StartAgent
      BY <3>1 DEF StartAgent, TypeOK, DriverState, AgentWorker
    <3>2. CASE ConfigureAgent
      BY <3>2 DEF ConfigureAgent, TypeOK, DriverState, AgentWorker
    <3>3. CASE StopAgent
      BY <3>3, BoundsAssumption DEF StopAgent, Stopped, DriverState
    <3> QED BY <1>3, <3>1, <3>2, <3>3
  <2>2. /\ aw.op # "idle"
        /\ \/ aw' = [aw EXCEPT !.op = "ready"]
           \/ aw' = [aw EXCEPT !.op = "removeFinalizer"]
    BY <1>3 DEF StartAgent, ConfigureAgent, StopAgent
  <2>3. /\ aw' \in AgentWorker
        /\ aw'.agent = aw.agent /\ aw'.key = aw.key
    BY <2>2 DEF TypeOK, AgentWorker, AgentOps, WriteOps
  <2> QED BY <1>3, <2>1, <2>2, <2>3 DEF StartAgent, ConfigureAgent, StopAgent,
               TypeOK, apiVars, cacheVars, storeWork, history
<1>4. CASE AgentWrite
  <2>1. aw.key \in StoreUIDs /\ AgentShape(Written(aw))
    BY <1>4, WrittenShape
       DEF AgentWrite, TypeOK, AgentWorker, StoreUIDs, WriteOps
  <2>2. /\ agents' \in [StoreUIDs -> AgentObject]
        /\ \A v \in StoreUIDs : AgentShape(agents'[v])
    BY <1>4, <2>1 DEF AgentWrite, TypeOK, AgentShape
  <2> QED BY <1>4, <2>2, IdleWorkers, AbsentShapes DEF AgentWrite, TypeOK,
               hostVars, cacheVars, storeWork, history
<1>5. CASE AgentUnreachable \/ AgentConflict \/ AgentFault
  <2>1. AgentRetry /\ aw.op # "idle" /\ faults' \in 0..MaxFaults
    BY <1>5, BoundsAssumption DEF AgentUnreachable, AgentConflict, AgentFault,
         CallOps, WriteOps, TypeOK
  <2>2. agentQueue' \subseteq StoreUIDs
    <3>1. aw.key \in StoreUIDs
      BY <2>1 DEF TypeOK, AgentWorker, StoreUIDs
    <3> QED BY <2>1, <3>1 DEF AgentRetry, TypeOK
  <2> QED BY <2>1, <2>2, IdleWorkers, AbsentShapes DEF AgentRetry, TypeOK,
               apiVars, hostVars, cacheVars, storeWork
<1>6. CASE Crash
  <2>1. faults' \in 0..MaxFaults /\ storeQueue' \in BOOLEAN
          /\ creating' = 0 /\ creating' \in 0..MaxStores
    BY <1>6, BoundsAssumption DEF Crash, TypeOK
  <2> QED BY <1>6, <2>1, IdleWorkers, AbsentShapes DEF Crash, TypeOK,
               apiVars, hostVars
<1> QED BY <1>1, <1>2, <1>3, <1>4, <1>5, <1>6 DEF AgentStep

(* One step of the whole system. *)
LEMMA TypeStep == TypeOK /\ [Next]_vars => TypeOK'
<1> SUFFICES ASSUME TypeOK, [Next]_vars PROVE TypeOK'
  OBVIOUS
<1>1. CASE UNCHANGED vars
  BY <1>1 DEF TypeOK, vars, apiVars, hostVars, cacheVars, storeWork, agentWork,
       history
<1>2. CASE Next
  BY <1>2, TypeEnvironment, TypePodAndInformers, TypeStoreStep, TypeAgentStep
     DEF Next, Faults
<1> QED BY <1>1, <1>2

(* The objects in the API server and in the caches, the workers and the
   driver keep their shape for every number of stores, agents, containers,
   revisions and faults: agent.go never leaves a revision on an agent that is
   not ready, and no object marked deleted is left without a finalizer. *)
THEOREM TypeCorrect == Spec => []TypeOK
BY TypeInit, TypeStep, PTL DEF Spec

-----------------------------------------------------------------------------
(* The inductive invariant *)

\* Nothing refers to an incarnation of the store that is not made yet, and
\* the incarnation that exists is the last one made.
StoresKnown ==
    /\ store.uid \in {0, stores}
    /\ storeCache.uid <= stores
    /\ sw.store.uid <= stores
    /\ aw.key <= stores
    /\ creating <= stores
    /\ \A u \in StoreUIDs :
          agents[u].uid # 0 \/ agentCache[u].uid # 0 => u <= stores

\* The agent of the existing store was created from the cache, so the cache
\* has that store; a pod, once cached, is missed only when it is gone.
CacheCovers ==
    /\ \A u \in StoreUIDs :
          /\ store.uid = u
          /\ agents[u].uid # 0 \/ agentCache[u].uid # 0 \/ creating = u
          => storeCache.uid = u
    /\ pod.found => podCache.found

\* A deletion is never undone: a copy that says "deleted" is right.
DeletionsStand ==
    storeCache.uid = store.uid /\ storeCache.deleting => store.deleting

\* What the AgentReconciler has decided is still justified when it acts.
DecisionsStand ==
    /\ aw.op = "delete" => ~(pod.found /\ store.uid = aw.key /\ ~store.deleting)
    /\ aw.op = "removeFinalizer" =>
          ~(pod.found /\ store.uid = aw.key /\ driver.up)

AgentInv == TypeOK /\ StoresKnown /\ CacheCovers /\ DeletionsStand /\ DecisionsStand

\* No later cached read of the store can return a configuration older than
\* revision r of incarnation u.
Past(u, r) ==
    /\ u <= stores
    /\ storeCache.uid # 0 => NotOlder(u, r, storeCache.uid, storeCache.rev)
    /\ store.uid # 0 => NotOlder(u, r, store.uid, store.rev)

\* Configurations reach the driver in the order of the store's history.
ConfigsOrdered ==
    /\ storeCache.uid # 0 => Past(storeCache.uid, storeCache.rev)
    /\ driver.up => Past(driver.uid, driver.rev)
    /\ aw.op \in {"start", "configure"} =>
          /\ Past(aw.uid, aw.rev)
          /\ driver.up => NotOlder(driver.uid, driver.rev, aw.uid, aw.rev)

\* Container IDs are read from the pod, so none is ahead of the container.
ContainersKnown ==
    /\ pod.cid <= container
    /\ podCache.cid <= container
    /\ aw.cid <= container
    /\ aw.agent.cid <= container
    /\ \A u \in StoreUIDs :
          agents[u].cid <= container /\ agentCache[u].cid <= container

\* Copies of agent u: c is the object as it was, or an earlier object of the
\* same name, and then the present one has not been started.
CopyOf(c, u) ==
    /\ c.uid <= made
    /\ agents[u].uid # 0 => c.uid <= agents[u].uid
    /\ c.uid # 0 /\ agents[u].ready => c.uid = agents[u].uid
    /\ c.uid # 0 /\ c.uid = agents[u].uid /\ c.deleting => agents[u].deleting

CopiesKnown ==
    /\ \A u \in StoreUIDs : agents[u].uid <= made /\ CopyOf(agentCache[u], u)
    /\ aw.op # "idle" =>
          /\ CopyOf(aw.agent, aw.key)
          /\ agentCache[aw.key].uid # 0 =>
                aw.agent.uid <= agentCache[aw.key].uid
    /\ aw.op = "stop" => aw.agent.deleting

\* A start or configure call that has been answered left the process running,
\* unless the container has changed since.
StartsLast ==
    /\ aw.op = "ready"
    /\ pod.found
    /\ aw.agent.cid = container
    => driver.up

RunInv ==
    /\ AgentInv
    /\ ContainersKnown
    /\ CopiesKnown
    /\ StartsLast
    /\ ReadyAgentRuns

-----------------------------------------------------------------------------
(* What deletions and writes do to the fields the invariant is about. *)

(* A deletion on the API server keeps the object's identity when a finalizer
   holds it, and marks it; otherwise the object is gone. *)
LEMMA DeletedFields ==
    ASSUME NEW a, AgentShape(a), NEW d, d = Deleted(a, NoAgent)
    PROVE  /\ d.uid = a.uid \/ d.uid = 0
           /\ a.fin => d.uid = a.uid /\ d.deleting
           /\ d.ready => a.ready
           /\ d.uid # 0 => d.uid = a.uid /\ d.deleting /\ d.cid = a.cid
           /\ d.cid = a.cid \/ d.cid = 0
BY DEF AgentShape, AgentObject, Deleted, NoAgent

(* A write of the AgentReconciler keeps the object's identity and its
   deletion, unless it drops the last finalizer of a deleted agent. *)
LEMMA WrittenFields ==
    ASSUME NEW w \in AgentWorker, AgentShape(w.agent), w.agent.uid # 0,
           w.op \in WriteOps, NEW d, d = Written(w)
    PROVE  /\ d.uid = w.agent.uid \/ d.uid = 0
           /\ d.uid = 0 => w.op = "removeFinalizer" /\ w.agent.deleting
           /\ d.uid # 0 => d.deleting = w.agent.deleting
           /\ d.ready => d.uid # 0 /\ (w.op = "ready" \/ (w.agent.ready /\ w.op # "rebind"))
           /\ w.op # "rebind" => d.cid = w.agent.cid \/ d.cid = 0
           /\ d.cid \in {w.agent.cid, w.cid, 0}
           /\ d.ready => d.cid = w.agent.cid
<1>1. CASE w.op = "addFinalizer"
  BY <1>1 DEF Written, AgentShape, AgentObject
<1>2. CASE w.op = "rebind"
  <2>1. d = Rebound(w.agent, w.cid)
    BY <1>2 DEF Written
  <2>2. PICK c \in {w.cid, w.agent.cid} :
            d = [w.agent EXCEPT !.cid = c, !.ready = FALSE, !.rev = 0]
    BY <2>1 DEF Rebound
  <2> QED BY <1>2, <2>2 DEF AgentShape, AgentObject
<1>3. CASE w.op = "ready"
  BY <1>3 DEF Written, AgentShape, AgentObject
<1>4. CASE w.op = "removeFinalizer"
  BY <1>4 DEF Written, Released, AgentShape, AgentObject, NoAgent
<1> QED BY <1>1, <1>2, <1>3, <1>4 DEF WriteOps

-----------------------------------------------------------------------------
(* The invariant is inductive *)

(* With nothing created and nothing cached the invariant holds. *)
LEMMA AgentInvInit == Init => AgentInv
<1> SUFFICES ASSUME Init PROVE AgentInv
  OBVIOUS
<1>1. \A u \in StoreUIDs : agents[u].uid = 0 /\ agentCache[u].uid = 0
  BY DEF Init, NoAgent
<1>2. StoresKnown
  BY <1>1 DEF Init, StoresKnown, NoStore, IdleStoreWorker, IdleAgentWorker
<1>3. CacheCovers
  BY <1>1 DEF Init, CacheCovers, NoStore, StoreUIDs
<1>4. DeletionsStand /\ DecisionsStand
  BY DEF Init, DeletionsStand, DecisionsStand, NoStore, IdleStoreWorker,
       IdleAgentWorker
<1> QED BY <1>2, <1>3, <1>4, TypeInit DEF AgentInv

(* The numbers the invariant compares are numbers. *)
LEMMA Numbers ==
    ASSUME TypeOK
    PROVE  /\ store.uid \in Nat /\ storeCache.uid \in Nat /\ sw.store.uid \in Nat
           /\ store.rev \in Nat /\ storeCache.rev \in Nat
           /\ stores \in Nat /\ made \in Nat /\ creating \in Nat
           /\ container \in Nat /\ pod.cid \in Nat /\ podCache.cid \in Nat
           /\ driver.uid \in Nat /\ driver.rev \in Nat
           /\ aw.key \in Nat /\ aw.uid \in Nat /\ aw.rev \in Nat /\ aw.cid \in Nat
           /\ aw.agent.uid \in Nat /\ aw.agent.cid \in Nat
           /\ \A u \in StoreUIDs : /\ u \in Nat
                                   /\ agents[u].uid \in Nat
                                   /\ agentCache[u].uid \in Nat
                                   /\ agents[u].cid \in Nat
                                   /\ agentCache[u].cid \in Nat
<1>1. /\ store.uid \in Nat /\ storeCache.uid \in Nat /\ sw.store.uid \in Nat
      /\ store.rev \in Nat /\ storeCache.rev \in Nat
  BY BoundsAssumption DEF TypeOK, StoreShape, StoreObject
<1>2. /\ stores \in Nat /\ made \in Nat /\ creating \in Nat /\ container \in Nat
      /\ pod.cid \in Nat /\ podCache.cid \in Nat
      /\ driver.uid \in Nat /\ driver.rev \in Nat
  BY BoundsAssumption DEF TypeOK, PodObject, DriverState
<1>3. aw.key \in Nat /\ aw.uid \in Nat /\ aw.rev \in Nat /\ aw.cid \in Nat
  BY BoundsAssumption DEF TypeOK, AgentWorker
<1>4. \A a \in AgentObject : a.uid \in Nat /\ a.cid \in Nat
  BY BoundsAssumption DEF AgentObject
<1>5. aw.agent \in AgentObject
        /\ \A u \in StoreUIDs : agents[u] \in AgentObject /\ agentCache[u] \in AgentObject
  BY DEF TypeOK, AgentShape
<1> QED BY <1>1, <1>2, <1>3, <1>4, <1>5, BoundsAssumption DEF StoreUIDs

(* Steps of users, kubelet, the core StoreReconciler and the garbage
   collector keep the invariant. *)
LEMMA AgentInvEnvironment ==
    ASSUME AgentInv, Environment \/ GarbageCollect
    PROVE  StoresKnown' /\ CacheCovers' /\ DeletionsStand' /\ DecisionsStand'
<1> USE Numbers DEF AgentInv
<1>1. CASE CreateStore
  <2>1. store'.uid = stores + 1 /\ stores' = stores + 1 /\ ~store'.deleting
    BY <1>1, AbsentShapes DEF CreateStore, StoreShape, StoreObject, NoStore
  <2>2. /\ storeCache.uid # store'.uid /\ sw.store.uid # store'.uid
        /\ aw.key # store'.uid /\ creating # store'.uid
        /\ \A u \in StoreUIDs : store'.uid = u =>
              agents[u].uid = 0 /\ agentCache[u].uid = 0
    BY <2>1 DEF StoresKnown
  <2>3. StoresKnown'
    BY <1>1, <2>1 DEF CreateStore, StoresKnown, cacheVars, storeWork, agentWork
  <2>4. CacheCovers'
    BY <1>1, <2>2 DEF CreateStore, CacheCovers, cacheVars
  <2>5. DeletionsStand' /\ DecisionsStand'
    BY <1>1, <2>2 DEF CreateStore, DeletionsStand, DecisionsStand, hostVars,
         cacheVars, storeWork, agentWork
  <2> QED BY <2>3, <2>4, <2>5
<1>2. CASE DeleteStore
  <2>1. store'.uid = 0 \/ (store'.uid = store.uid /\ store'.deleting)
    BY <1>2 DEF DeleteStore, Deleted, NoStore, TypeOK, StoreShape, StoreObject
  <2>2. storeCache.uid = 0 => ~storeCache.deleting
    BY DEF TypeOK, StoreShape, NoStore
  <2>3. sw.op # "idle" => sw.store.uid # 0
    BY DEF TypeOK
  <2>4. StoresKnown'
    BY <1>2, <2>1 DEF DeleteStore, StoresKnown, cacheVars, storeWork, agentWork,
         history
  <2>5. CacheCovers'
    BY <1>2, <2>1 DEF DeleteStore, CacheCovers, cacheVars, StoreUIDs
  <2>6. DeletionsStand'
    BY <1>2, <2>1, <2>2, <2>3 DEF DeleteStore, DeletionsStand, cacheVars, storeWork
  <2>7. DecisionsStand'
    <3>1. aw.op # "idle" => aw.key # 0
      BY DEF TypeOK
    <3> QED BY <1>2, <2>1, <3>1 DEF DeleteStore, DecisionsStand, hostVars, agentWork
  <2> QED BY <2>4, <2>5, <2>6, <2>7
<1>3. CASE ReportProtocol
  <2>1. store'.uid = store.uid /\ store'.deleting = store.deleting
    BY <1>3 DEF ReportProtocol, TypeOK, StoreShape, StoreObject
  <2>2. StoresKnown' /\ CacheCovers'
    BY <1>3, <2>1 DEF ReportProtocol, StoresKnown, CacheCovers, cacheVars,
         storeWork, agentWork, history
  <2>3. DeletionsStand' /\ DecisionsStand'
    BY <1>3, <2>1 DEF ReportProtocol, DeletionsStand, DecisionsStand, hostVars,
         cacheVars, storeWork, agentWork
  <2> QED BY <2>2, <2>3
<1>4. CASE StartContainer
  BY <1>4 DEF StartContainer, Stopped, StoresKnown, CacheCovers, DeletionsStand,
       DecisionsStand, apiVars, cacheVars, storeWork, agentWork, history
<1>5. CASE ReportStatus
  <2>1. pod'.found = pod.found
    BY <1>5 DEF ReportStatus, TypeOK, PodObject
  <2> QED BY <1>5, <2>1 DEF ReportStatus, StoresKnown, CacheCovers,
        DeletionsStand, DecisionsStand, hostVars, cacheVars, storeWork, agentWork,
        history
<1>6. CASE DeletePod
  BY <1>6 DEF DeletePod, NoPod, StoresKnown, CacheCovers, DeletionsStand,
       DecisionsStand, cacheVars, storeWork, agentWork, history
<1>7. CASE GarbageCollect
  <2>1. \A u \in StoreUIDs : agents'[u].uid # 0 => agents[u].uid # 0
    <3>1. PICK v \in StoreUIDs :
              agents' = [agents EXCEPT ![v] = Deleted(agents[v], NoAgent)]
      BY <1>7 DEF GarbageCollect
    <3> QED BY <3>1, DeletedFields DEF TypeOK
  <2> QED BY <1>7, <2>1 DEF GarbageCollect, StoresKnown, CacheCovers,
        DeletionsStand, DecisionsStand, hostVars, cacheVars, storeWork, agentWork,
        history
<1> QED BY <1>1, <1>2, <1>3, <1>4, <1>5, <1>6, <1>7 DEF Environment

(* Steps of the PodReconciler and of the informers keep the invariant. *)
LEMMA AgentInvPodAndInformers ==
    ASSUME AgentInv,
           \/ PodWorker \/ SyncStore \/ SyncPod
           \/ \E u \in StoreUIDs : SyncAgent(u)
    PROVE  StoresKnown' /\ CacheCovers' /\ DeletionsStand' /\ DecisionsStand'
<1> USE Numbers DEF AgentInv
<1>1. CASE PodReadsStore
  BY <1>1 DEF PodReadsStore, StoresKnown, CacheCovers, DeletionsStand,
       DecisionsStand, apiVars, hostVars, cacheVars, storeWork, agentWork, history
<1>2. CASE PodCreatesAgent
  <2>1. creating \in StoreUIDs /\ creating' = 0
    BY <1>2, BoundsAssumption DEF PodCreatesAgent, TypeOK, StoreUIDs
  <2>2. \A u \in StoreUIDs : u # creating => agents'[u] = agents[u]
    BY <1>2, <2>1 DEF PodCreatesAgent, TypeOK
  <2>3. StoresKnown'
    BY <1>2, <2>1, <2>2 DEF PodCreatesAgent, StoresKnown, cacheVars, storeWork,
         agentWork
  <2>4. CacheCovers'
    BY <1>2, <2>1, <2>2 DEF PodCreatesAgent, CacheCovers, cacheVars, StoreUIDs
  <2> QED BY <1>2, <2>3, <2>4 DEF PodCreatesAgent, DeletionsStand, DecisionsStand,
        hostVars, cacheVars, storeWork, agentWork
<1>3. CASE SyncStore
  BY <1>3 DEF SyncStore, StoresKnown, CacheCovers, DeletionsStand,
       DecisionsStand, apiVars, hostVars, history
<1>4. CASE SyncPod
  BY <1>4 DEF SyncPod, StoresKnown, CacheCovers, DeletionsStand,
       DecisionsStand, apiVars, hostVars, storeWork, history
<1>5. CASE \E u \in StoreUIDs : SyncAgent(u)
  <2>1. PICK v \in StoreUIDs : SyncAgent(v)
    BY <1>5
  <2>2. \A u \in StoreUIDs :
            agentCache'[u].uid # 0 => agents[u].uid # 0 \/ agentCache[u].uid # 0
    BY <2>1 DEF SyncAgent, TypeOK
  <2> QED BY <2>1, <2>2 DEF SyncAgent, StoresKnown, CacheCovers,
        DeletionsStand, DecisionsStand, apiVars, hostVars, storeWork, history
<1> QED BY <1>1, <1>2, <1>3, <1>4, <1>5 DEF PodWorker

(* Steps of the sidecar StoreReconciler keep the invariant. *)
LEMMA AgentInvStoreStep ==
    ASSUME AgentInv, StoreStep \/ StoreFault
    PROVE  StoresKnown' /\ CacheCovers' /\ DeletionsStand' /\ DecisionsStand'
<1> USE Numbers DEF AgentInv
<1> DEFINE Rest == sw'.op = "idle" /\ sw'.store.uid = 0
<1>1. CASE StoreBegin
  <2>1. \/ Rest
        \/ sw'.store = storeCache
    BY <1>1, IdleWorkers DEF StoreBegin, NoStore
  <2>2. StoresKnown' /\ CacheCovers'
    BY <1>1, <2>1 DEF StoreBegin, StoresKnown, CacheCovers, apiVars, cacheVars,
         agentWork, history
  <2>3. DeletionsStand'
    BY <1>1, <2>1 DEF StoreBegin, DeletionsStand, apiVars, cacheVars
  <2> QED BY <1>1, <2>2, <2>3 DEF StoreBegin, DecisionsStand, apiVars, hostVars,
        agentWork
<1>2. CASE StoreSweep
  <2>1. sw'.store = sw.store
    BY <1>2 DEF StoreSweep, TypeOK, StoreWorker
  <2> QED BY <1>2, <2>1 DEF StoreSweep, StoresKnown, CacheCovers, DeletionsStand,
        DecisionsStand, apiVars, hostVars, cacheVars, agentWork, history
<1>3. CASE StoreWrite
  <2>1. /\ Rest
        /\ \/ store'.uid = 0
           \/ store'.uid = store.uid /\ store'.deleting = store.deleting
    <3>1. Rest
      BY <1>3, IdleWorkers DEF StoreWrite, NoStore
    <3>2. store \in StoreObject
      BY DEF TypeOK, StoreShape
    <3>3. CASE sw.op = "addFinalizer"
      BY <1>3, <3>1, <3>2, <3>3 DEF StoreWrite, StoreObject
    <3>4. CASE sw.op # "addFinalizer"
      BY <1>3, <3>1, <3>2, <3>4 DEF StoreWrite, Released, NoStore, StoreObject
    <3> QED BY <3>3, <3>4
  <2>2. storeCache.uid = 0 => ~storeCache.deleting
    BY DEF TypeOK, StoreShape, NoStore
  <2>3. aw.op # "idle" => aw.key # 0
    BY DEF TypeOK
  <2>4. StoresKnown'
    BY <1>3, <2>1 DEF StoreWrite, StoresKnown, cacheVars, agentWork, history
  <2>5. CacheCovers'
    BY <1>3, <2>1 DEF StoreWrite, CacheCovers, cacheVars, StoreUIDs
  <2>6. DeletionsStand' /\ DecisionsStand'
    BY <1>3, <2>1, <2>2, <2>3 DEF StoreWrite, DeletionsStand, DecisionsStand,
         hostVars, cacheVars, agentWork
  <2> QED BY <2>4, <2>5, <2>6
<1>4. CASE StoreConflict \/ StoreFault
  <2>1. Rest /\ StoreRetry
    BY <1>4, IdleWorkers DEF StoreConflict, StoreFault, StoreRetry, NoStore
  <2> QED BY <2>1 DEF StoreRetry, StoresKnown, CacheCovers, DeletionsStand,
        DecisionsStand, apiVars, hostVars, cacheVars, agentWork
<1> QED BY <1>1, <1>2, <1>3, <1>4 DEF StoreStep

(* Steps of the AgentReconciler, and the controller's crash, keep it. *)
LEMMA AgentInvAgentStep ==
    ASSUME AgentInv, AgentStep \/ AgentFault \/ Crash
    PROVE  StoresKnown' /\ CacheCovers' /\ DeletionsStand' /\ DecisionsStand'
<1> USE Numbers DEF AgentInv
<1> DEFINE Rest == aw'.op = "idle" /\ aw'.key = 0
<1>1. CASE \E k \in StoreUIDs : AgentBegin(k)
  <2>1. PICK k \in StoreUIDs : AgentBegin(k)
    BY <1>1
  <2> DEFINE op == AgentReconcile(agentCache[k], podCache, storeCache)
  <2>2. CASE op = "idle"
    <3>1. Rest
      BY <2>1, <2>2 DEF AgentBegin, IdleAgentWorker
    <3> QED BY <2>1, <3>1 DEF AgentBegin, StoresKnown, CacheCovers,
          DeletionsStand, DecisionsStand, apiVars, hostVars, cacheVars, storeWork,
          history
  <2>3. CASE op # "idle"
    <3>1. aw'.op = op /\ aw'.key = k
      BY <2>1, <2>3 DEF AgentBegin
    <3>2. agentCache[k].uid # 0
      BY <2>3, Decisions
    <3>3. StoresKnown'
      BY <2>1, <3>1, <3>2 DEF AgentBegin, StoresKnown, apiVars, cacheVars,
           storeWork, history
    <3>4. pod.found /\ store.uid = k => podCache.found /\ storeCache.uid = k
      BY <3>2 DEF CacheCovers
    <3>5. op = "removeFinalizer" => ~(pod.found /\ store.uid = k)
      BY <3>4 DEF AgentReconcile, reconcileCreate, reconcileDelete, StoreUIDs
    <3>6. op = "delete" => ~(pod.found /\ store.uid = k /\ ~store.deleting)
      BY <3>4 DEF AgentReconcile, reconcileCreate, reconcileDelete, StoreUIDs,
           DeletionsStand
    <3>7. DecisionsStand'
      BY <2>1, <3>1, <3>5, <3>6 DEF AgentBegin, DecisionsStand, apiVars, hostVars
    <3> QED BY <2>1, <3>3, <3>7 DEF AgentBegin, CacheCovers, DeletionsStand,
          apiVars, cacheVars, storeWork
  <2> QED BY <2>2, <2>3
<1>2. CASE AgentDelete
  <2>1. aw.key \in StoreUIDs
    BY <1>2 DEF AgentDelete, TypeOK, AgentWorker, StoreUIDs
  <2>2. \A u \in StoreUIDs : agents'[u].uid # 0 => agents[u].uid # 0
    BY <1>2, <2>1, DeletedFields DEF AgentDelete, TypeOK
  <2>3. Rest
    BY <1>2 DEF AgentDelete, IdleAgentWorker
  <2> QED BY <1>2, <2>2, <2>3 DEF AgentDelete, StoresKnown, CacheCovers,
        DeletionsStand, DecisionsStand, hostVars, cacheVars, storeWork, history
<1>3. CASE StartAgent \/ ConfigureAgent
  <2>1. aw'.op = "ready" /\ aw'.key = aw.key
    BY <1>3 DEF StartAgent, ConfigureAgent, TypeOK, AgentWorker
  <2> QED BY <1>3, <2>1 DEF StartAgent, ConfigureAgent, StoresKnown, CacheCovers,
        DeletionsStand, DecisionsStand, apiVars, cacheVars, storeWork, history
<1>4. CASE StopAgent
  <2>1. aw'.op = "removeFinalizer" /\ aw'.key = aw.key /\ ~driver'.up
    BY <1>4 DEF StopAgent, Stopped, TypeOK, AgentWorker
  <2> QED BY <1>4, <2>1 DEF StopAgent, StoresKnown, CacheCovers,
        DeletionsStand, DecisionsStand, apiVars, cacheVars, storeWork, history
<1>5. CASE AgentWrite
  <2>1. aw.key \in StoreUIDs /\ aw.agent.uid # 0
    BY <1>5 DEF AgentWrite, WriteOps, TypeOK, AgentWorker, StoreUIDs
  <2>2. \A u \in StoreUIDs : agents'[u].uid # 0 => agents[u].uid # 0
    BY <1>5, <2>1, WrittenFields DEF AgentWrite, TypeOK
  <2>3. Rest
    BY <1>5 DEF AgentWrite, IdleAgentWorker
  <2> QED BY <1>5, <2>2, <2>3 DEF AgentWrite, StoresKnown, CacheCovers,
        DeletionsStand, DecisionsStand, hostVars, cacheVars, storeWork, history
<1>6. CASE AgentUnreachable \/ AgentConflict \/ AgentFault
  <2>1. AgentRetry /\ Rest
    BY <1>6 DEF AgentUnreachable, AgentConflict, AgentFault, AgentRetry,
         IdleAgentWorker
  <2> QED BY <2>1 DEF AgentRetry, StoresKnown, CacheCovers, DeletionsStand,
        DecisionsStand, apiVars, hostVars, cacheVars, storeWork
<1>7. CASE Crash
  <2>1. Rest /\ sw'.op = "idle" /\ sw'.store.uid = 0
    BY <1>7, IdleWorkers DEF Crash, IdleAgentWorker, NoStore
  <2> QED BY <1>7, <2>1 DEF Crash, StoresKnown, CacheCovers, DeletionsStand,
        DecisionsStand, apiVars, hostVars
<1> QED BY <1>1, <1>2, <1>3, <1>4, <1>5, <1>6, <1>7 DEF AgentStep

(* One step of the whole system keeps the invariant. *)
LEMMA AgentInvStep == AgentInv /\ [Next]_vars => AgentInv'
<1> SUFFICES ASSUME AgentInv, [Next]_vars PROVE AgentInv'
  OBVIOUS
<1>1. TypeOK'
  BY TypeStep DEF AgentInv
<1>2. StoresKnown' /\ CacheCovers' /\ DeletionsStand' /\ DecisionsStand'
  <2>1. CASE UNCHANGED vars
    BY <2>1 DEF AgentInv, StoresKnown, CacheCovers, DeletionsStand,
         DecisionsStand, vars, apiVars, hostVars, cacheVars, storeWork, agentWork,
         history
  <2>2. CASE Next
    BY <2>2, AgentInvEnvironment, AgentInvPodAndInformers, AgentInvStoreStep,
       AgentInvAgentStep DEF Next, Faults
  <2> QED BY <2>1, <2>2
<1> QED BY <1>1, <1>2 DEF AgentInv

(* The invariant holds in every reachable state. *)
LEMMA AgentInvHolds == Spec => []AgentInv
BY AgentInvInit, AgentInvStep, PTL DEF Spec

-----------------------------------------------------------------------------
(* A claimed agent goes only after its process, a live one not at all *)

\* A step of the AgentReconciler's writes, and every other step that touches
\* an agent, does one of these things to agent u.
AgentFate(u) ==
    \/ agents'[u] = agents[u]
    \/ agents[u].uid = 0
    \/ /\ agents'[u] = Deleted(agents[u], NoAgent)
       /\ ~(pod.found /\ store.uid = u /\ ~store.deleting)
    \/ /\ agents'[u].uid = agents[u].uid
       /\ agents'[u].deleting = agents[u].deleting
    \/ /\ agents[u].deleting
       /\ ~(pod.found /\ store.uid = u /\ driver.up)

(* What a step can do to an agent object: nothing that matters, a deletion of
   one whose store or pod is gone or going, or the end of a stopped one. *)
LEMMA Fates ==
    ASSUME AgentInv, [Next]_vars, NEW u \in StoreUIDs
    PROVE  AgentFate(u)
<1> USE Numbers DEF AgentInv
<1>1. CASE GarbageCollect
  BY <1>1 DEF GarbageCollect, AgentFate, TypeOK
<1>2. CASE PodCreatesAgent
  BY <1>2 DEF PodCreatesAgent, AgentFate, TypeOK
<1>3. CASE AgentDelete
  BY <1>3 DEF AgentDelete, AgentFate, DecisionsStand, TypeOK
<1>4. CASE AgentWrite
  <2>1. CASE aw.key = u
    <3>1. agents'[u] = Written(aw) /\ agents[u] = aw.agent
      BY <1>4, <2>1 DEF AgentWrite, TypeOK
    <3>2. /\ Written(aw).uid = aw.agent.uid \/ Written(aw).uid = 0
          /\ Written(aw).uid = 0 => aw.op = "removeFinalizer" /\ aw.agent.deleting
          /\ Written(aw).uid # 0 => Written(aw).deleting = aw.agent.deleting
      BY <1>4, WrittenFields DEF AgentWrite, TypeOK, WriteOps
    <3> QED BY <2>1, <3>1, <3>2 DEF AgentFate, DecisionsStand
  <2>2. CASE aw.key # u
    BY <1>4, <2>2 DEF AgentWrite, AgentFate, TypeOK
  <2> QED BY <2>1, <2>2
<1>5. CASE UNCHANGED agents
  BY <1>5 DEF AgentFate
<1>6. \/ GarbageCollect \/ PodCreatesAgent \/ AgentDelete \/ AgentWrite
      \/ UNCHANGED agents
  <2>1. Environment \/ UNCHANGED vars \/ PodReadsStore => UNCHANGED agents
    BY DEF Environment, CreateStore, DeleteStore, ReportProtocol, StartContainer,
         ReportStatus, DeletePod, PodReadsStore, vars, apiVars
  <2>2. SyncStore \/ SyncPod \/ (\E v \in StoreUIDs : SyncAgent(v)) => UNCHANGED agents
    BY DEF SyncStore, SyncPod, SyncAgent, apiVars
  <2>3. StoreStep \/ Faults => UNCHANGED agents
    BY DEF StoreStep, StoreBegin, StoreSweep, StoreWrite, StoreConflict, StoreRetry,
         Faults, StoreFault, AgentFault, AgentRetry, Crash, apiVars
  <2>4. \/ (\E k \in StoreUIDs : AgentBegin(k)) \/ StartAgent \/ ConfigureAgent
        \/ StopAgent \/ AgentUnreachable \/ AgentConflict
        => UNCHANGED agents
    BY DEF AgentBegin, StartAgent, ConfigureAgent, StopAgent, AgentUnreachable,
         AgentConflict, AgentRetry, apiVars
  <2> QED BY <2>1, <2>2, <2>3, <2>4 DEF Next, PodWorker, AgentStep
<1> QED BY <1>1, <1>2, <1>3, <1>4, <1>5, <1>6

(* Neither a reconciler nor the garbage collector deletes the agent of a store
   and a pod that exist and are not being deleted, for any number of incarnations
   of the store, restarts and faults: the decision in agent.go:119-149 is made
   on caches that lag, but a deletion that they show has happened. *)
THEOREM LiveAgentIsKept == Spec => LiveAgentKept
<1>1. AgentInv /\ [Next]_vars =>
        [\A u \in StoreUIDs :
          /\ store.uid = u
          /\ ~store.deleting
          /\ pod.found
          /\ agents[u].uid # 0
          /\ ~agents[u].deleting
          => agents'[u].uid = agents[u].uid /\ ~agents'[u].deleting]_vars
  BY Fates DEF AgentFate
<1> QED BY <1>1, AgentInvHolds, PTL DEF Spec, LiveAgentKept

(* An agent that has the finalizer is removed, while its store and pod exist,
   only when its process has been stopped: reconcileDelete's order (StopAgent,
   then removeFinalizer, agent.go:296-346) survives retries, crashes, restarts
   of the container and new incarnations of the store. *)
THEOREM StoppedFirst == Spec => StoppedBeforeFinalized
<1>1. AgentInv /\ [Next]_vars =>
        [\A u \in StoreUIDs :
          /\ agents[u].fin
          /\ agents'[u].uid # agents[u].uid
          /\ store.uid = u
          /\ pod.found
          => ~driver.up]_vars
  <2> SUFFICES ASSUME AgentInv, [Next]_vars, NEW u \in StoreUIDs,
                      agents[u].fin, agents'[u].uid # agents[u].uid,
                      store.uid = u, pod.found
               PROVE  ~driver.up
    OBVIOUS
  <2>1. AgentShape(agents[u])
    BY DEF AgentInv, TypeOK
  <2>2. agents[u].uid # 0
    BY <2>1 DEF AgentShape, NoAgent
  <2>3. Deleted(agents[u], NoAgent).uid = agents[u].uid
    BY <2>1, DeletedFields
  <2> QED BY <2>2, <2>3, Fates DEF AgentFate
<1> QED BY <1>1, AgentInvHolds, PTL DEF Spec, StoppedBeforeFinalized

-----------------------------------------------------------------------------
(* Configurations reach the driver in order *)

(* Only the store's history, the cache of it, the driver and the worker's
   pending call matter to ConfigsOrdered. *)
LEMMA ConfigFrame ==
    ASSUME ConfigsOrdered, UNCHANGED <<store, storeCache, stores>>,
           driver' = driver \/ ~driver'.up,
           aw' = aw \/ aw'.op \notin {"start", "configure"}
    PROVE  ConfigsOrdered'
BY DEF ConfigsOrdered, Past, NotOlder

(* The store's history only moves forward: a new status, a new incarnation or
   the removal of the store leaves every known configuration in the past. *)
LEMMA ConfigStoreForward ==
    ASSUME AgentInv, ConfigsOrdered,
           UNCHANGED <<storeCache, driver, aw>>,
           stores' \in Nat, stores' >= stores,
           \/ store'.uid = 0
           \/ store'.uid = store.uid /\ store.uid # 0
                /\ store'.rev \in Nat /\ store'.rev >= store.rev
           \/ store'.uid > stores /\ store'.uid \in Nat
    PROVE  ConfigsOrdered'
<1> USE Numbers DEF AgentInv
<1>1. ASSUME NEW u \in Nat, NEW r \in Nat, Past(u, r)
      PROVE  Past(u, r)'
  BY <1>1 DEF Past, NotOlder, StoresKnown
<1> QED BY <1>1 DEF ConfigsOrdered

(* A cache that catches up with the store is no older than before. *)
LEMMA ConfigSync ==
    ASSUME AgentInv, ConfigsOrdered, storeCache' = store,
           UNCHANGED <<store, stores, driver>>,
           aw' = aw \/ aw'.op = "idle"
    PROVE  ConfigsOrdered'
<1> USE Numbers DEF AgentInv
<1>1. ASSUME NEW u \in Nat, NEW r \in Nat, Past(u, r)
      PROVE  Past(u, r)'
  BY <1>1 DEF Past, NotOlder
<1>2. store.uid # 0 => Past(store.uid, store.rev)'
  BY DEF Past, NotOlder, StoresKnown
<1> QED BY <1>1, <1>2 DEF ConfigsOrdered

(* Every step keeps the configurations in order. *)
LEMMA ConfigStep ==
    AgentInv /\ ConfigsOrdered /\ [Next]_vars => ConfigsOrdered'
<1> SUFFICES ASSUME AgentInv, ConfigsOrdered, [Next]_vars PROVE ConfigsOrdered'
  OBVIOUS
<1> USE Numbers DEF AgentInv
<1>1. CASE CreateStore
  <2>1. store'.uid = stores + 1 /\ stores' = stores + 1
    BY <1>1, AbsentShapes DEF CreateStore, StoreShape, StoreObject
  <2> QED BY <1>1, <2>1, ConfigStoreForward DEF CreateStore, hostVars, cacheVars,
        agentWork
<1>2. CASE DeleteStore
  <2>1. store'.uid = 0 \/ (store'.uid = store.uid /\ store'.rev = store.rev)
    BY <1>2 DEF DeleteStore, Deleted, NoStore, TypeOK, StoreShape, StoreObject
  <2> QED BY <1>2, <2>1, ConfigStoreForward DEF DeleteStore, hostVars, cacheVars,
        agentWork, history
<1>3. CASE ReportProtocol
  <2>1. store'.uid = store.uid /\ store'.rev \in Nat /\ store'.rev >= store.rev
    BY <1>3, BoundsAssumption DEF ReportProtocol, TypeOK, StoreShape, StoreObject
  <2> QED BY <1>3, <2>1, ConfigStoreForward DEF ReportProtocol, hostVars,
        cacheVars, agentWork, history
<1>4. CASE StartContainer \/ DeletePod
  BY <1>4, ConfigFrame DEF StartContainer, DeletePod, Stopped, apiVars, cacheVars,
       agentWork, history
<1>5. CASE ReportStatus \/ GarbageCollect
  BY <1>5, ConfigFrame DEF ReportStatus, GarbageCollect, hostVars, cacheVars,
       agentWork, history
<1>6. CASE PodWorker
  BY <1>6, ConfigFrame DEF PodWorker, PodReadsStore, PodCreatesAgent, apiVars,
       hostVars, cacheVars, agentWork, history
<1>7. CASE SyncStore
  BY <1>7, ConfigSync DEF SyncStore, apiVars, hostVars, history
<1>8. CASE SyncPod \/ \E u \in StoreUIDs : SyncAgent(u)
  BY <1>8, ConfigFrame DEF SyncPod, SyncAgent, apiVars, hostVars, history
<1>9. CASE StoreBegin \/ StoreSweep \/ StoreConflict \/ StoreFault
  BY <1>9, ConfigFrame DEF StoreBegin, StoreSweep, StoreConflict, StoreFault,
       StoreRetry, apiVars, hostVars, cacheVars, agentWork, history
<1>10. CASE StoreWrite
  <2>1. store \in StoreObject /\ store.uid # 0
    BY <1>10 DEF StoreWrite, TypeOK, StoreShape
  <2>2. store'.uid = 0 \/ (store'.uid = store.uid /\ store'.rev = store.rev)
    <3>1. CASE sw.op = "addFinalizer"
      BY <1>10, <2>1, <3>1 DEF StoreWrite, StoreObject
    <3>2. CASE sw.op # "addFinalizer"
      BY <1>10, <2>1, <3>2 DEF StoreWrite, Released, NoStore, StoreObject
    <3> QED BY <3>1, <3>2
  <2> QED BY <1>10, <2>1, <2>2, ConfigStoreForward DEF StoreWrite, hostVars,
        cacheVars, agentWork, history
<1>11. CASE \E k \in StoreUIDs : AgentBegin(k)
  <2>1. PICK k \in StoreUIDs : AgentBegin(k)
    BY <1>11
  <2>2. CASE aw'.op \in {"start", "configure"}
    <3> DEFINE op == AgentReconcile(agentCache[k], podCache, storeCache)
    <3>1. op \in {"start", "configure"}
      BY <2>1, <2>2 DEF AgentBegin, IdleAgentWorker
    <3>2. storeCache.uid # 0
      BY <3>1 DEF AgentReconcile, reconcileCreate, reconcileDelete
    <3> HIDE DEF op
    <3>3. aw'.uid = storeCache.uid /\ aw'.rev = storeCache.rev
      BY <2>1, <3>1 DEF AgentBegin, CallOps, op
    <3> QED BY <2>1, <3>2, <3>3 DEF AgentBegin, ConfigsOrdered, Past, NotOlder,
          apiVars, hostVars, cacheVars, history
  <2>3. CASE aw'.op \notin {"start", "configure"}
    BY <2>1, <2>3, ConfigFrame DEF AgentBegin, apiVars, hostVars, cacheVars, history
  <2> QED BY <2>2, <2>3
<1>12. CASE StartAgent \/ ConfigureAgent
  <2>1. aw'.op = "ready" /\ aw.op \in {"start", "configure"}
    BY <1>12 DEF StartAgent, ConfigureAgent, TypeOK, AgentWorker
  <2>2. driver' = driver \/ (driver'.uid = aw.uid /\ driver'.rev = aw.rev)
    <3>1. CASE StartAgent
      BY <3>1 DEF StartAgent
    <3>2. CASE ConfigureAgent
      BY <3>2 DEF ConfigureAgent, TypeOK, DriverState
    <3> QED BY <1>12, <3>1, <3>2
  <2> QED BY <1>12, <2>1, <2>2 DEF StartAgent, ConfigureAgent, ConfigsOrdered, Past,
        NotOlder, apiVars, cacheVars, history
<1>13. CASE StopAgent
  <2>1. aw'.op = "removeFinalizer" /\ ~driver'.up
    BY <1>13 DEF StopAgent, Stopped, TypeOK, AgentWorker
  <2> QED BY <1>13, <2>1, ConfigFrame DEF StopAgent, apiVars, cacheVars, history
<1>14. CASE AgentDelete \/ AgentWrite \/ AgentUnreachable \/ AgentConflict \/ AgentFault
  <2>1. aw'.op = "idle"
    BY <1>14, IdleWorkers DEF AgentDelete, AgentWrite, AgentUnreachable,
         AgentConflict, AgentFault, AgentRetry
  <2> QED BY <1>14, <2>1, ConfigFrame DEF AgentDelete, AgentWrite, AgentUnreachable,
        AgentConflict, AgentFault, AgentRetry, apiVars, hostVars, cacheVars, history
<1>15. CASE Crash
  BY <1>15, ConfigSync, IdleWorkers DEF Crash, apiVars, hostVars
<1>16. CASE UNCHANGED vars
  BY <1>16, ConfigFrame DEF vars, apiVars, hostVars, cacheVars, agentWork, history
<1> QED BY <1>1, <1>2, <1>3, <1>4, <1>5, <1>6, <1>7, <1>8, <1>9, <1>10, <1>11,
        <1>12, <1>13, <1>14, <1>15, <1>16
     DEF Next, Environment, StoreStep, AgentStep, Faults

(* A running agent process is never given a configuration older than the one
   it runs, for any number of revisions and incarnations of the store, faults,
   crashes and restarts of the container. *)
THEOREM ConfigsNeverRegress == Spec => ConfigNeverRegresses
<1>1. Init => ConfigsOrdered
  BY DEF Init, ConfigsOrdered, NoStore, Stopped, IdleAgentWorker
<1>2. AgentInv /\ ConfigsOrdered /\ [Next]_vars =>
        [driver.up /\ driver'.up =>
          NotOlder(driver.uid, driver.rev, driver'.uid, driver'.rev)]_vars
  <2> SUFFICES ASSUME AgentInv, ConfigsOrdered, [Next]_vars, driver.up, driver'.up
               PROVE  NotOlder(driver.uid, driver.rev, driver'.uid, driver'.rev)
    OBVIOUS
  <2> USE Numbers DEF AgentInv
  <2>1. CASE StartAgent
    BY <2>1 DEF StartAgent, NotOlder
  <2>2. CASE ConfigureAgent
    <3>1. driver'.uid = aw.uid /\ driver'.rev = aw.rev /\ aw.op = "configure"
      BY <2>2 DEF ConfigureAgent, TypeOK, DriverState
    <3> QED BY <3>1 DEF ConfigsOrdered
  <2>3. CASE UNCHANGED driver
    BY <2>3 DEF NotOlder
  <2>4. StartAgent \/ ConfigureAgent \/ UNCHANGED driver
    <3>1. ~StopAgent /\ ~StartContainer /\ ~DeletePod
      BY DEF StopAgent, StartContainer, DeletePod, Stopped
    <3>2. \/ CreateStore \/ DeleteStore \/ ReportProtocol \/ ReportStatus
          \/ GarbageCollect \/ PodWorker \/ Faults \/ UNCHANGED vars
          => UNCHANGED driver
      BY DEF CreateStore, DeleteStore, ReportProtocol, ReportStatus,
           GarbageCollect, PodWorker, PodReadsStore, PodCreatesAgent, Faults,
           StoreFault, StoreRetry, AgentFault, AgentRetry, Crash, vars, hostVars
    <3>3. \/ SyncStore \/ SyncPod \/ (\E u \in StoreUIDs : SyncAgent(u))
          \/ StoreStep \/ (\E k \in StoreUIDs : AgentBegin(k))
          => UNCHANGED driver
      BY DEF SyncStore, SyncPod, SyncAgent, StoreStep, StoreBegin, StoreSweep,
           StoreWrite, StoreConflict, StoreRetry, AgentBegin, hostVars
    <3>4. AgentDelete \/ AgentWrite \/ AgentUnreachable \/ AgentConflict
          => UNCHANGED driver
      BY DEF AgentDelete, AgentWrite, AgentUnreachable, AgentConflict, AgentRetry,
           hostVars
    <3> QED BY <3>1, <3>2, <3>3, <3>4 DEF Next, Environment, AgentStep
  <2> QED BY <2>1, <2>2, <2>3, <2>4
<1> QED BY <1>1, <1>2, ConfigStep, AgentInvHolds, PTL DEF Spec, ConfigNeverRegresses

-----------------------------------------------------------------------------
(* A ready agent runs *)

(* A step that leaves the containers, the driver and the agents alone keeps
   RunInv's parts, when the worker comes to rest or keeps its operation. *)
LEMMA RunFrame ==
    ASSUME RunInv, UNCHANGED <<agents, agentCache, pod, podCache, container,
                               driver, made>>,
           stores' \in Nat, stores <= stores',
           aw' = aw \/ aw' = IdleAgentWorker
    PROVE  ContainersKnown' /\ CopiesKnown' /\ StartsLast' /\ ReadyAgentRuns'
<1> USE Numbers DEF RunInv, AgentInv
<1>1. IdleAgentWorker.op = "idle" /\ IdleAgentWorker.cid = 0
        /\ IdleAgentWorker.agent.cid = 0
  BY DEF IdleAgentWorker, NoAgent
<1>2. ContainersKnown'
  BY <1>1 DEF ContainersKnown
<1>3. CopiesKnown' /\ StartsLast'
  BY <1>1 DEF CopiesKnown, CopyOf, StartsLast
<1>4. ReadyAgentRuns'
  BY DEF ReadyAgentRuns
<1> QED BY <1>2, <1>3, <1>4

(* Deletions on the API server keep RunInv's parts. *)
LEMMA RunDeleted ==
    ASSUME RunInv, UNCHANGED <<agentCache, pod, podCache, container,
                               driver, made, stores>>,
           aw' = aw \/ aw' = IdleAgentWorker,
           \A u \in StoreUIDs : \/ agents'[u] = agents[u]
                                \/ agents'[u] = Deleted(agents[u], NoAgent)
    PROVE  ContainersKnown' /\ CopiesKnown' /\ StartsLast' /\ ReadyAgentRuns'
<1> USE Numbers DEF RunInv, AgentInv
<1>1. IdleAgentWorker.op = "idle" /\ IdleAgentWorker.cid = 0
        /\ IdleAgentWorker.agent.cid = 0
  BY DEF IdleAgentWorker, NoAgent
<1>2. \A u \in StoreUIDs :
        \/ agents'[u] = agents[u]
        \/ /\ agents'[u].uid = 0 \/ (agents'[u].uid = agents[u].uid /\ agents'[u].deleting)
           /\ agents'[u].ready => agents[u].ready /\ agents'[u].uid # 0
           /\ agents'[u].cid = agents[u].cid \/ agents'[u].cid = 0
  <2> SUFFICES ASSUME NEW u \in StoreUIDs, agents'[u] = Deleted(agents[u], NoAgent)
               PROVE  /\ agents'[u].uid = 0 \/ (agents'[u].uid = agents[u].uid /\ agents'[u].deleting)
                      /\ agents'[u].ready => agents[u].ready /\ agents'[u].uid # 0
                      /\ agents'[u].cid = agents[u].cid \/ agents'[u].cid = 0
    OBVIOUS
  <2>1. AgentShape(agents[u]) /\ AgentShape(agents'[u])
    BY DeletedShapes DEF TypeOK
  <2>2. agents'[u].uid = 0 => ~agents'[u].ready
    BY <2>1 DEF AgentShape, NoAgent
  <2> QED BY <2>1, <2>2, DeletedFields
<1>3. ContainersKnown'
  BY <1>1, <1>2 DEF ContainersKnown
<1>4. ASSUME NEW c, NEW u \in StoreUIDs, c.uid \in Nat, CopyOf(c, u)
      PROVE  CopyOf(c, u)'
  BY <1>2, <1>4 DEF CopyOf
<1>5. CopiesKnown'
  <2>1. \A u \in StoreUIDs : agents'[u].uid <= made
    BY <1>2 DEF CopiesKnown
  <2>2. \A u \in StoreUIDs : CopyOf(agentCache[u], u)'
    BY <1>4 DEF CopiesKnown
  <2>3. aw.op # "idle" => aw.key \in StoreUIDs
    BY DEF TypeOK, AgentWorker, StoreUIDs
  <2> QED BY <1>1, <1>4, <2>1, <2>2, <2>3 DEF CopiesKnown
<1>6. StartsLast'
  BY <1>1 DEF StartsLast
<1>7. ReadyAgentRuns'
  BY <1>2 DEF ReadyAgentRuns
<1> QED BY <1>3, <1>5, <1>6, <1>7

(* Steps of users, kubelet, the core StoreReconciler and the garbage
   collector. *)
LEMMA RunEnvironment ==
    ASSUME RunInv, Environment \/ GarbageCollect
    PROVE  ContainersKnown' /\ CopiesKnown' /\ StartsLast' /\ ReadyAgentRuns'
<1> USE Numbers DEF RunInv, AgentInv
<1>1. CASE CreateStore \/ DeleteStore \/ ReportProtocol
  <2>1. stores' \in Nat /\ stores <= stores'
    <3>1. stores' = stores + 1 \/ stores' = stores
      BY <1>1 DEF CreateStore, DeleteStore, ReportProtocol, history
    <3> QED BY <3>1
  <2> QED BY <1>1, <2>1, RunFrame DEF CreateStore, DeleteStore, ReportProtocol,
        hostVars, cacheVars, agentWork, apiVars, history
<1>2. CASE StartContainer
  BY <1>2 DEF StartContainer, ContainersKnown, CopiesKnown, CopyOf, StartsLast,
       ReadyAgentRuns, apiVars, cacheVars, agentWork, history
<1>3. CASE ReportStatus
  <2>1. pod'.found = pod.found /\ pod'.cid = container
    BY <1>3 DEF ReportStatus, TypeOK, PodObject
  <2> QED BY <1>3, <2>1 DEF ReportStatus, ContainersKnown, CopiesKnown, CopyOf,
        StartsLast, ReadyAgentRuns, hostVars, cacheVars, agentWork, history
<1>4. CASE DeletePod
  BY <1>4 DEF DeletePod, NoPod, ContainersKnown, CopiesKnown, CopyOf,
       StartsLast, ReadyAgentRuns, cacheVars, agentWork, history
<1>5. CASE GarbageCollect
  BY <1>5, RunDeleted DEF GarbageCollect, TypeOK, hostVars, cacheVars, agentWork,
       history
<1> QED BY <1>1, <1>2, <1>3, <1>4, <1>5 DEF Environment

(* Steps of the PodReconciler, the informers and the sidecar
   StoreReconciler. *)
LEMMA RunPodAndInformers ==
    ASSUME RunInv,
           \/ PodWorker \/ SyncStore \/ SyncPod \/ StoreStep \/ StoreFault
           \/ \E u \in StoreUIDs : SyncAgent(u)
    PROVE  ContainersKnown' /\ CopiesKnown' /\ StartsLast' /\ ReadyAgentRuns'
<1> USE Numbers DEF RunInv, AgentInv
<1>1. CASE PodReadsStore \/ SyncStore
  BY <1>1, RunFrame DEF PodReadsStore, SyncStore, apiVars, hostVars, cacheVars,
       agentWork, history
<1>2. CASE PodCreatesAgent
  <2>1. CASE agents' = agents
    BY <1>2, <2>1, RunFrame DEF PodCreatesAgent, hostVars, cacheVars, agentWork,
         ContainersKnown, CopiesKnown, CopyOf, StartsLast, ReadyAgentRuns
  <2>2. CASE agents' # agents
    <3>1. /\ creating \in StoreUIDs /\ agents[creating].uid = 0
          /\ made' = made + 1
          /\ agents' = [agents EXCEPT ![creating] = [NoAgent EXCEPT !.uid = made + 1]]
      BY <1>2, <2>2, BoundsAssumption DEF PodCreatesAgent, TypeOK, StoreUIDs
    <3>2. /\ agents'[creating].uid = made + 1 /\ ~agents'[creating].ready
          /\ agents'[creating].cid = 0
      <4>1. NoAgent \in AgentObject /\ ~NoAgent.ready /\ NoAgent.cid = 0
        BY AbsentShapes DEF AgentShape, NoAgent
      <4> QED BY <3>1, <4>1 DEF TypeOK, AgentObject
    <3>3. \A u \in StoreUIDs : u # creating => agents'[u] = agents[u]
      BY <3>1 DEF TypeOK
    <3>4. ASSUME NEW c, NEW u \in StoreUIDs, c.uid \in Nat, CopyOf(c, u)
          PROVE  CopyOf(c, u)'
      BY <3>1, <3>2, <3>3, <3>4 DEF CopyOf
    <3>5. aw.op # "idle" => aw.key \in StoreUIDs
      BY DEF TypeOK, AgentWorker, StoreUIDs
    <3>6. CopiesKnown'
      BY <1>2, <3>1, <3>2, <3>3, <3>4, <3>5 DEF PodCreatesAgent, CopiesKnown,
           cacheVars, agentWork
    <3>7. ContainersKnown'
      BY <1>2, <3>2, <3>3 DEF PodCreatesAgent, ContainersKnown, hostVars, cacheVars,
           agentWork
    <3> QED BY <1>2, <3>2, <3>3, <3>6, <3>7 DEF PodCreatesAgent, StartsLast,
          ReadyAgentRuns, hostVars, agentWork
  <2> QED BY <2>1, <2>2
<1>3. CASE SyncPod
  BY <1>3 DEF SyncPod, ContainersKnown, CopiesKnown, CopyOf, StartsLast,
       ReadyAgentRuns, apiVars, hostVars, history
<1>4. CASE \E u \in StoreUIDs : SyncAgent(u)
  <2>1. PICK v \in StoreUIDs : SyncAgent(v)
    BY <1>4
  <2>2. \A u \in StoreUIDs : agentCache'[u] = agentCache[u] \/ agentCache'[u] = agents[u]
    BY <2>1 DEF SyncAgent, TypeOK
  <2>3. aw.op # "idle" => aw.key \in StoreUIDs
    BY DEF TypeOK, AgentWorker, StoreUIDs
  <2>4. ContainersKnown'
    BY <2>1, <2>2 DEF SyncAgent, ContainersKnown, apiVars, hostVars
  <2>5. CopiesKnown'
    BY <2>1, <2>2, <2>3 DEF SyncAgent, CopiesKnown, CopyOf, apiVars, history
  <2> QED BY <2>1, <2>4, <2>5 DEF SyncAgent, StartsLast, ReadyAgentRuns, apiVars,
        hostVars, history
<1>5. CASE StoreStep \/ StoreFault
  BY <1>5, RunFrame DEF StoreStep, StoreBegin, StoreSweep, StoreWrite, StoreConflict,
       StoreFault, StoreRetry, apiVars, hostVars, cacheVars, agentWork, history
<1> QED BY <1>1, <1>2, <1>3, <1>4, <1>5 DEF PodWorker

(* Steps of the AgentReconciler, and the controller's crash. *)
LEMMA RunAgentStep ==
    ASSUME RunInv, AgentStep \/ AgentFault \/ Crash
    PROVE  ContainersKnown' /\ CopiesKnown' /\ StartsLast' /\ ReadyAgentRuns'
<1> USE Numbers DEF RunInv, AgentInv
<1>k. aw.op # "idle" => aw.key \in StoreUIDs
  BY DEF TypeOK, AgentWorker, StoreUIDs
<1>1. CASE \E k \in StoreUIDs : AgentBegin(k)
  <2>1. PICK k \in StoreUIDs : AgentBegin(k)
    BY <1>1
  <2> DEFINE op == AgentReconcile(agentCache[k], podCache, storeCache)
  <2>2. CASE op = "idle"
    BY <2>1, <2>2, RunFrame DEF AgentBegin, apiVars, hostVars, cacheVars, history
  <2>3. CASE op # "idle"
    <3>1. op # "ready" /\ (op = "stop" => agentCache[k].deleting)
      BY DEF AgentReconcile, reconcileCreate, reconcileDelete
    <3> HIDE DEF op
    <3>2. /\ aw'.op = op /\ aw'.key = k /\ aw'.agent = agentCache[k]
          /\ aw'.cid = podCache.cid \/ aw'.cid = 0
      BY <2>1, <2>3 DEF AgentBegin, op
    <3>3. ContainersKnown'
      BY <2>1, <3>2 DEF AgentBegin, ContainersKnown, apiVars, hostVars, cacheVars
    <3>4. CopiesKnown'
      BY <2>1, <3>1, <3>2 DEF AgentBegin, CopiesKnown, CopyOf, apiVars, cacheVars,
           history
    <3> QED BY <2>1, <3>1, <3>2, <3>3, <3>4 DEF AgentBegin, StartsLast,
          ReadyAgentRuns, apiVars, hostVars, history
  <2> QED BY <2>2, <2>3
<1>2. CASE AgentDelete
  BY <1>2, RunDeleted DEF AgentDelete, TypeOK, hostVars, cacheVars, history
<1>3. CASE StartAgent \/ ConfigureAgent
  <2>1. /\ aw'.op = "ready" /\ aw'.key = aw.key /\ aw'.agent = aw.agent
        /\ aw'.cid = aw.cid /\ aw.op # "idle"
    BY <1>3 DEF StartAgent, ConfigureAgent, TypeOK, AgentWorker
  <2>2. driver'.up
    <3>1. CASE StartAgent
      BY <3>1 DEF StartAgent
    <3>2. CASE ConfigureAgent
      BY <3>2 DEF ConfigureAgent, TypeOK, DriverState
    <3> QED BY <1>3, <3>1, <3>2
  <2>3. ContainersKnown'
    BY <1>3, <2>1 DEF StartAgent, ConfigureAgent, ContainersKnown, apiVars, cacheVars
  <2>4. CopiesKnown'
    BY <1>3, <2>1 DEF StartAgent, ConfigureAgent, CopiesKnown, CopyOf, apiVars,
         cacheVars, history
  <2> QED BY <2>2, <2>3, <2>4 DEF StartsLast, ReadyAgentRuns
<1>4. CASE StopAgent
  <2>1. /\ aw'.op = "removeFinalizer" /\ aw'.key = aw.key /\ aw'.agent = aw.agent
        /\ aw'.cid = aw.cid /\ aw.op # "idle"
    BY <1>4 DEF StopAgent, TypeOK, AgentWorker
  <2>2. ContainersKnown' /\ StartsLast'
    BY <1>4, <2>1 DEF StopAgent, ContainersKnown, StartsLast, apiVars, cacheVars
  <2>3. CopiesKnown'
    BY <1>4, <2>1 DEF StopAgent, CopiesKnown, CopyOf, apiVars, cacheVars, history
  <2>4. ASSUME NEW u \in StoreUIDs, stores <= 1, agents[u].ready
        PROVE  agents[u].deleting
    <3>1. agents[u].uid # 0
      BY <2>4 DEF TypeOK, AgentShape, NoAgent
    <3>2. u = aw.key
      BY <2>1, <2>4, <3>1, <1>k DEF StoresKnown, StoreUIDs
    <3>3. aw.agent.deleting /\ aw.agent.uid # 0 /\ CopyOf(aw.agent, u)
      BY <1>4, <2>1, <3>2 DEF StopAgent, CopiesKnown, TypeOK
    <3> QED BY <2>4, <3>3 DEF CopyOf
  <2>5. ReadyAgentRuns'
    BY <1>4, <2>4 DEF StopAgent, ReadyAgentRuns, apiVars, history
  <2> QED BY <2>2, <2>3, <2>5
<1>5. CASE AgentWrite
  <2>1. aw.key \in StoreUIDs /\ agents[aw.key] = aw.agent /\ aw.agent.uid # 0
          /\ aw.op \in WriteOps /\ aw.op # "idle"
    BY <1>5, <1>k DEF AgentWrite, WriteOps, TypeOK
  <2> DEFINE d == Written(aw)
  <2>2. /\ d.uid = aw.agent.uid \/ d.uid = 0
        /\ d.uid # 0 => d.deleting = aw.agent.deleting
        /\ d.ready => d.uid # 0 /\ (aw.op = "ready" \/ aw.agent.ready)
        /\ d.cid \in {aw.agent.cid, aw.cid, 0}
        /\ d.ready => d.cid = aw.agent.cid
    BY <2>1, WrittenFields DEF TypeOK
  <2>3. d \in AgentObject
    BY <2>1, WrittenShape DEF TypeOK, AgentShape
  <2> HIDE DEF d
  <2>4. /\ agents'[aw.key] = d
        /\ \A u \in StoreUIDs : u # aw.key => agents'[u] = agents[u]
    BY <1>5, <2>1 DEF AgentWrite, TypeOK, d
  <2>5. /\ aw'.op = "idle" /\ aw'.cid = 0 /\ aw'.agent.cid = 0
    BY <1>5 DEF AgentWrite, IdleAgentWorker, NoAgent
  <2>6. ContainersKnown'
    BY <1>5, <2>2, <2>4, <2>5 DEF AgentWrite, ContainersKnown, hostVars, cacheVars
  <2>7. ASSUME NEW u \in StoreUIDs, u = aw.key PROVE CopyOf(agentCache[u], u)'
    <3>1. agentCache[u].uid # 0 => agentCache[u].uid = aw.agent.uid
      BY <2>1, <2>7 DEF CopiesKnown, CopyOf
    <3>2. CopyOf(agentCache[u], u)
      BY <2>1 DEF CopiesKnown
    <3> QED BY <1>5, <2>1, <2>2, <2>4, <2>7, <3>1, <3>2 DEF AgentWrite, CopyOf,
          cacheVars, history
  <2>8. CopiesKnown'
    <3>1. \A u \in StoreUIDs : agents'[u].uid <= made /\ CopyOf(agentCache[u], u)'
      BY <1>5, <2>1, <2>2, <2>4, <2>7 DEF AgentWrite, CopiesKnown, CopyOf, cacheVars,
           history
    <3> QED BY <1>5, <2>5, <3>1 DEF AgentWrite, CopiesKnown, cacheVars, history
  <2>9. ReadyAgentRuns'
    BY <1>5, <2>1, <2>2, <2>4 DEF AgentWrite, ReadyAgentRuns, StartsLast, hostVars,
         history
  <2> QED BY <2>5, <2>6, <2>8, <2>9 DEF StartsLast
<1>6. CASE AgentUnreachable \/ AgentConflict \/ AgentFault
  BY <1>6, RunFrame DEF AgentUnreachable, AgentConflict, AgentFault, AgentRetry,
       apiVars, hostVars, cacheVars
<1>7. CASE Crash
  <2>1. /\ aw'.op = "idle" /\ aw'.cid = 0 /\ aw'.agent.cid = 0
    BY <1>7 DEF Crash, IdleAgentWorker, NoAgent
  <2> QED BY <1>7, <2>1 DEF Crash, ContainersKnown, CopiesKnown, CopyOf, StartsLast,
        ReadyAgentRuns, apiVars, hostVars
<1> QED BY <1>1, <1>2, <1>3, <1>4, <1>5, <1>6, <1>7 DEF AgentStep

(* One step of the whole system keeps RunInv. *)
LEMMA RunStep == RunInv /\ [Next]_vars => RunInv'
<1> SUFFICES ASSUME RunInv, [Next]_vars PROVE RunInv'
  OBVIOUS
<1>1. AgentInv'
  BY AgentInvStep DEF RunInv
<1>2. CASE UNCHANGED vars
  <2>1. ContainersKnown' /\ CopiesKnown' /\ StartsLast' /\ ReadyAgentRuns'
    BY <1>2, RunFrame, Numbers DEF RunInv, AgentInv, vars, apiVars, hostVars,
         cacheVars, agentWork, history
  <2> QED BY <1>1, <2>1 DEF RunInv
<1>3. CASE Next
  <2>1. ContainersKnown' /\ CopiesKnown' /\ StartsLast' /\ ReadyAgentRuns'
    BY <1>3, RunEnvironment, RunPodAndInformers, RunAgentStep DEF Next, Faults
  <2> QED BY <1>1, <2>1 DEF RunInv
<1> QED BY <1>2, <1>3

(* An agent reported ready in the running container has its process there,
   through container restarts, lost answers, conflicts, crashes and deletions,
   as long as the store's name is not reused. *)
THEOREM ReadyAgentsRun == Spec => []ReadyAgentRuns
<1>1. Init => RunInv
  <2> SUFFICES ASSUME Init PROVE RunInv
    OBVIOUS
  <2>1. AgentInv
    BY AgentInvInit
  <2>2. \A u \in StoreUIDs : agents[u] = NoAgent /\ agentCache[u] = NoAgent
    BY DEF Init
  <2>3. NoAgent.cid = 0 /\ NoAgent.uid = 0 /\ ~NoAgent.ready /\ ~NoAgent.deleting
    BY DEF NoAgent
  <2>4. ContainersKnown
    BY <2>2, <2>3 DEF Init, ContainersKnown, IdleAgentWorker
  <2>5. CopiesKnown /\ StartsLast
    BY <2>2, <2>3 DEF Init, CopiesKnown, CopyOf, StartsLast, IdleAgentWorker
  <2>6. ReadyAgentRuns
    BY <2>2, <2>3 DEF ReadyAgentRuns
  <2> QED BY <2>1, <2>4, <2>5, <2>6 DEF RunInv
<1>2. RunInv => ReadyAgentRuns
  BY DEF RunInv
<1> QED BY <1>1, <1>2, RunStep, PTL DEF Spec

-----------------------------------------------------------------------------
(* The store that the agents follow is a StoreLifecycle *)

(* The sidecar StoreReconciler claims only a store that is not deleted and
   releases only a deleted one. *)
SweepsDeleted ==
    /\ sw.op = "addFinalizer" => ~sw.store.deleting
    /\ sw.op \in {"sweep", "removeFinalizer"} => sw.store.deleting

(* The StoreReconciler's decisions keep to that. *)
LEMMA SweepsDeletedStep == SweepsDeleted /\ [Next]_vars => SweepsDeleted'
<1> SUFFICES ASSUME SweepsDeleted, [Next]_vars PROVE SweepsDeleted'
  OBVIOUS
<1>1. CASE StoreBegin
  <2>1. CASE StoreReconcile(storeCache) = "idle"
    BY <1>1, <2>1, IdleWorkers DEF StoreBegin, SweepsDeleted
  <2>2. CASE StoreReconcile(storeCache) # "idle"
    <3>1. sw' = [op |-> StoreReconcile(storeCache), store |-> storeCache]
      BY <1>1, <2>2 DEF StoreBegin
    <3>2. sw'.op = StoreReconcile(storeCache) /\ sw'.store = storeCache
      BY <3>1
    <3> QED BY <3>2 DEF StoreReconcile, SweepsDeleted
  <2> QED BY <2>1, <2>2
<1>2. CASE StoreSweep
  BY <1>2 DEF StoreSweep, SweepsDeleted
<1>3. CASE sw' = IdleStoreWorker
  BY <1>3, IdleWorkers DEF SweepsDeleted
<1>4. CASE UNCHANGED sw
  BY <1>4 DEF SweepsDeleted
<1>5. StoreBegin \/ StoreSweep \/ sw' = IdleStoreWorker \/ UNCHANGED sw
  <2>1. CASE UNCHANGED vars
    BY <2>1 DEF vars, storeWork
  <2>2. CASE Environment \/ GarbageCollect
    BY <2>2 DEF Environment, GarbageCollect, CreateStore, DeleteStore,
         ReportProtocol, StartContainer, ReportStatus, DeletePod, storeWork
  <2>3. CASE PodWorker \/ SyncStore \/ SyncPod \/ \E u \in StoreUIDs : SyncAgent(u)
    BY <2>3 DEF PodWorker, PodReadsStore, PodCreatesAgent, SyncStore, SyncPod,
         SyncAgent, storeWork
  <2>4. CASE StoreStep \/ StoreFault \/ Crash
    BY <2>4 DEF StoreStep, StoreWrite, StoreConflict, StoreFault, StoreRetry, Crash
  <2>5. CASE AgentStep \/ AgentFault
    BY <2>5 DEF AgentStep, AgentBegin, AgentDelete, StartAgent, ConfigureAgent,
         StopAgent, AgentWrite, AgentUnreachable, AgentConflict, AgentFault,
         AgentRetry, storeWork
  <2> QED BY <2>1, <2>2, <2>3, <2>4, <2>5 DEF Next, Faults
<1> QED BY <1>1, <1>2, <1>3, <1>4, <1>5

(* Each step changes the store as StoreLifecycle allows, or not at all. *)
LEMMA StoreStepIsALifecycleStep ==
    ASSUME TypeOK, SweepsDeleted, [Next]_vars
    PROVE  [Lifecycle!Next]_(Lifecycle!vars)
<1>0. NoStore = Lifecycle!Absent
  BY DEF NoStore, Lifecycle!Absent
<1>d. /\ \A x, y : Deleted(x, y) = Lifecycle!Deleted(x, y)
  BY DEF Deleted, Lifecycle!Deleted
<1>1. CASE CreateStore
  <2>1. store = NoStore
    BY <1>1 DEF CreateStore, TypeOK, StoreShape
  <2> QED BY <1>0, <1>1, <2>1 DEF CreateStore, Lifecycle!Next, Lifecycle!Create
<1>2. CASE DeleteStore
  BY <1>0, <1>d, <1>2 DEF DeleteStore, history, Lifecycle!Next, Lifecycle!Delete
<1>3. CASE ReportProtocol
  BY <1>3 DEF ReportProtocol, history, Lifecycle!Next, Lifecycle!Report
<1>4. CASE StoreWrite
  <2>1. store.uid # 0
    BY <1>4 DEF StoreWrite, TypeOK
  <2>2. CASE sw.op = "addFinalizer"
    <3>1. ~store.deleting /\ store' = [store EXCEPT !.fin = TRUE]
      BY <1>4, <2>2 DEF StoreWrite, SweepsDeleted
    <3> QED BY <1>4, <2>1, <3>1 DEF StoreWrite, history, Lifecycle!Next, Lifecycle!Claim
  <2>3. CASE sw.op = "removeFinalizer"
    <3>1. store.deleting
      BY <1>4, <2>3 DEF StoreWrite, SweepsDeleted
    <3>2. store' = NoStore
      BY <1>4, <2>3, <3>1 DEF StoreWrite, Released
    <3> QED BY <1>0, <1>4, <2>1, <3>1, <3>2
          DEF StoreWrite, history, Lifecycle!Next, Lifecycle!Release
  <2> QED BY <1>4, <2>2, <2>3 DEF StoreWrite
<1>5. CASE UNCHANGED <<store, stores>>
  BY <1>5 DEF Lifecycle!vars
<1>6. \/ CreateStore \/ DeleteStore \/ ReportProtocol \/ StoreWrite
      \/ UNCHANGED <<store, stores>>
  <2>1. CASE UNCHANGED vars
    BY <2>1 DEF vars, apiVars, history
  <2>2. CASE Environment \/ GarbageCollect
    BY <2>2 DEF Environment, GarbageCollect, StartContainer, ReportStatus,
         DeletePod, apiVars, history
  <2>3. CASE PodWorker \/ SyncStore \/ SyncPod \/ \E u \in StoreUIDs : SyncAgent(u)
    BY <2>3 DEF PodWorker, PodReadsStore, PodCreatesAgent, SyncStore, SyncPod,
         SyncAgent, apiVars, history
  <2>4. CASE StoreStep \/ StoreFault \/ Crash
    BY <2>4 DEF StoreStep, StoreBegin, StoreSweep, StoreConflict, StoreFault,
         StoreRetry, Crash, apiVars, history
  <2>5. CASE AgentStep \/ AgentFault
    BY <2>5 DEF AgentStep, AgentBegin, AgentDelete, StartAgent, ConfigureAgent,
         StopAgent, AgentWrite, AgentUnreachable, AgentConflict, AgentFault,
         AgentRetry, apiVars, history
  <2> QED BY <2>1, <2>2, <2>3, <2>4, <2>5 DEF Next, Faults
<1> QED BY <1>1, <1>2, <1>3, <1>4, <1>5, <1>6

(* The store that AgentController claims and releases is a StoreLifecycle, the
   specification that StoreController implements: what the two say of the
   store fits together. *)
THEOREM FollowsLifecycle == Spec => StoreIsALifecycle
<1>1. Init => SweepsDeleted /\ Lifecycle!Init
  BY IdleWorkers DEF Init, SweepsDeleted, NoStore, Lifecycle!Init, Lifecycle!Absent
<1>2. TypeOK /\ SweepsDeleted /\ [Next]_vars => [Lifecycle!Next]_(Lifecycle!vars)
  BY StoreStepIsALifecycleStep
<1> QED BY <1>1, <1>2, TypeCorrect, SweepsDeletedStep, PTL
     DEF Spec, StoreIsALifecycle, Lifecycle!Spec
=============================================================================
