------------------------ MODULE StoreControllerProofs ------------------------
(***************************************************************************)
(* Proofs about StoreController, for every number of stores, revisions,    *)
(* status changes and faults, and for every set of statuses: its types,    *)
(* and that its Store is a StoreLifecycle.                                 *)
(***************************************************************************)
EXTENDS StoreController, TLAPS

(* A status about to be written is at least as recent as the one in the copy
   of the store that it will replace. *)
WriteIsNewer == w.op = "write" => w.store.rev <= w.rev

StoreInv == TypeOK /\ WriteIsNewer

(* NoStore has the shape of a store. *)
LEMMA NoStoreShape == StoreShape(NoStore) /\ NoStore.uid = 0
<1>1. NoStatus \in Statuses
  BY StatusesAssumption
<1>2. NoStore \in StoreObject
  BY <1>1, BoundsAssumption DEF NoStore, StoreObject
<1> QED
  BY <1>2 DEF NoStore, StoreShape

(* Neither an absent protocol nor an idle worker is out of its type. *)
LEMMA NoWork == NoProtocol \in ProtocolObject /\ IdleWorker \in Worker
<1>1. NoStatus \in Statuses
  BY StatusesAssumption
<1> QED
  BY <1>1, NoStoreShape, BoundsAssumption
  DEF NoProtocol, ProtocolObject, IdleWorker, Worker, StoreShape

(* Init establishes the invariant. *)
LEMMA StoreInvInit == Init => StoreInv
<1> SUFFICES ASSUME Init PROVE StoreInv
  OBVIOUS
<1>1. w.op = "idle" /\ w.store = NoStore
  BY DEF Init, IdleWorker
<1>2. StoreShape(store) /\ StoreShape(storeCache) /\ StoreShape(w.store)
  BY <1>1, NoStoreShape DEF Init
<1>3. /\ stores \in 0..MaxStores /\ changes \in 0..MaxChanges
      /\ faults \in 0..MaxFaults
  BY BoundsAssumption DEF Init
<1> QED
  BY <1>1, <1>2, <1>3, NoWork DEF Init, StoreInv, TypeOK, WriteIsNewer

(* What a deletion, a claim and a report make of a store keeps its shape. *)
LEMMA Fates ==
    ASSUME NEW s, StoreShape(s), s.uid # 0
    PROVE  /\ StoreShape(Deleted(s, NoStore))
           /\ s.deleting => StoreShape(Released(s, NoStore))
           /\ StoreShape([s EXCEPT !.fin = TRUE])
<1> DEFINE t == [s EXCEPT !.fin = TRUE]
           d == [s EXCEPT !.deleting = TRUE]
<1>1. StoreShape(t)
  <2>1. t \in StoreObject /\ t.uid = s.uid /\ t.deleting = s.deleting
        /\ t.fin /\ t.ready = s.ready /\ t.status = s.status
    BY DEF StoreShape, StoreObject
  <2> QED
    BY <2>1 DEF StoreShape
<1>2. s.fin => StoreShape(d)
  <2>1. d \in StoreObject /\ d.uid = s.uid /\ d.fin = s.fin
        /\ d.ready = s.ready /\ d.status = s.status
    BY DEF StoreShape, StoreObject
  <2> QED
    BY <2>1 DEF StoreShape
<1> QED
  BY <1>1, <1>2, NoStoreShape DEF Deleted, Released

(* What a report makes of a store keeps its shape. *)
LEMMA ReportedShape ==
    ASSUME NEW s, StoreShape(s), s.uid # 0,
           NEW rev \in 0..MaxRevision, NEW status \in Statuses
    PROVE  /\ StoreShape(Reported(s, rev, status))
           /\ Reported(s, rev, status).uid = s.uid
           /\ Reported(s, rev, status).deleting = s.deleting
           /\ Reported(s, rev, status).fin = s.fin
           /\ Reported(s, rev, status).rev = rev
           /\ Reported(s, rev, status).ready \in BOOLEAN
<1> DEFINE up == AllReady(status.replicas) /\ AllReady(status.partitions)
           a  == [s EXCEPT !.rev = rev]
           b  == [a EXCEPT !.status = status]
           c  == [b EXCEPT !.ready = up]
<1>0. up \in BOOLEAN
  BY DEF AllReady
<1>1. a \in StoreObject /\ a.uid = s.uid /\ a.deleting = s.deleting
      /\ a.fin = s.fin /\ a.rev = rev
  BY BoundsAssumption DEF StoreShape, StoreObject
<1>2. b \in StoreObject /\ b.uid = a.uid /\ b.deleting = a.deleting
      /\ b.fin = a.fin /\ b.rev = a.rev /\ b.status = status
  BY <1>1 DEF StoreObject
<1> HIDE DEF up
<1>3. c \in StoreObject /\ c.uid = b.uid /\ c.deleting = b.deleting
      /\ c.fin = b.fin /\ c.rev = b.rev /\ c.status = b.status /\ c.ready = up
  BY <1>0, <1>2 DEF StoreObject
<1>4. Reported(s, rev, status) = c
  BY DEF Reported, up
<1> HIDE DEF a, b, c
<1>5. StoreShape(c)
  BY <1>1, <1>2, <1>3 DEF StoreShape, up
<1> QED
  BY <1>0, <1>1, <1>2, <1>3, <1>4, <1>5

(* A created store has the shape of one. *)
LEMMA CreatedShape ==
    ASSUME NEW u \in 1..MaxStores
    PROVE  StoreShape([NoStore EXCEPT !.uid = u])
<1> DEFINE t == [NoStore EXCEPT !.uid = u]
<1>1. NoStore \in StoreObject /\ ~NoStore.deleting /\ ~NoStore.ready
  BY NoStoreShape DEF StoreShape, NoStore
<1>2. t \in StoreObject /\ t.uid = u /\ ~t.deleting /\ ~t.ready
  BY <1>1, BoundsAssumption DEF StoreObject
<1>3. t.uid # 0
  BY <1>2, BoundsAssumption
<1> QED
  BY <1>2, <1>3 DEF StoreShape

(* The environment keeps the invariant. *)
LEMMA StoreInvEnvironment ==
    ASSUME StoreInv, Environment \/ GarbageCollect
    PROVE  StoreInv'
<1> USE BoundsAssumption
<1>1. CASE CreateStore
  <2>1. stores + 1 \in 1..MaxStores
    BY <1>1 DEF CreateStore, StoreInv, TypeOK
  <2>2. StoreShape(store')
    BY <1>1, <2>1, CreatedShape DEF CreateStore
  <2> QED
    BY <1>1, <2>1, <2>2
    DEF CreateStore, StoreInv, TypeOK, WriteIsNewer, seen, work
<1>2. CASE DeleteStore
  <2>1. StoreShape(store')
    BY <1>2, Fates DEF DeleteStore, StoreInv, TypeOK
  <2> QED
    BY <1>2, <2>1
    DEF DeleteStore, StoreInv, TypeOK, WriteIsNewer, seen, work, history
<1>3. CASE ClaimStore
  <2>1. StoreShape(store')
    BY <1>3, Fates DEF ClaimStore, StoreInv, TypeOK
  <2> QED
    BY <1>3, <2>1
    DEF ClaimStore, StoreInv, TypeOK, WriteIsNewer, seen, work, history
<1>4. CASE RemoveProtocol
  BY <1>4, NoWork
  DEF RemoveProtocol, StoreInv, TypeOK, WriteIsNewer, work
<1>5. CASE UpdateProtocol
  <2>1. protocol' \in ProtocolObject
    <3>1. PICK rev \in 1..MaxRevision, status \in Statuses :
             protocol' = [protocol EXCEPT !.rev = rev, !.status = status]
      BY <1>5 DEF UpdateProtocol
    <3>2. [protocol EXCEPT !.rev = rev] \in ProtocolObject
      BY DEF StoreInv, TypeOK, ProtocolObject
    <3> QED
      BY <3>1, <3>2 DEF ProtocolObject
  <2> QED
    BY <1>5, <2>1
    DEF UpdateProtocol, StoreInv, TypeOK, WriteIsNewer, work
<1>6. CASE GarbageCollect
  BY <1>4, <1>6 DEF GarbageCollect
<1> QED
  BY <1>1, <1>2, <1>3, <1>4, <1>5, <1>6 DEF Environment

(* The events keep the invariant. *)
LEMMA StoreInvEvents ==
    ASSUME StoreInv, SyncStore \/ AddPlugin \/ SyncProtocol
    PROVE  StoreInv'
<1>1. CASE SyncStore
  BY <1>1 DEF SyncStore, StoreInv, TypeOK, WriteIsNewer, apiVars, history
<1>2. CASE AddPlugin
  BY <1>2 DEF AddPlugin, StoreInv, TypeOK, WriteIsNewer, seen, history
<1>3. CASE SyncProtocol
  BY <1>3 DEF SyncProtocol, StoreInv, TypeOK, WriteIsNewer, apiVars, history
<1> QED
  BY <1>1, <1>2, <1>3

(* The reconciler, its faults and its crashes keep the invariant; a decision
   to write is a decision to write a status that is not older. *)
LEMMA StoreInvWork ==
    ASSUME StoreInv, Reconcile \/ Fault \/ Crash
    PROVE  StoreInv'
<1> USE BoundsAssumption
<1>0. IdleWorker.op = "idle" /\ IdleWorker.store = NoStore
  BY DEF IdleWorker
<1>1. CASE Begin
  <2> DEFINE op == reconcileProtocol(storeCache, protocol)
  <2>1. op \in {"idle", "create", "write"}
    BY DEF reconcileProtocol, reconcileProtocolStatus
  <2>2. op # "idle" => storeCache.uid # 0
    BY DEF reconcileProtocol
  <2>3. op = "write" => protocol.rev # 0 /\ storeCache.rev <= protocol.rev
    BY DEF reconcileProtocol, reconcileProtocolStatus, StoreInv, TypeOK,
           StoreShape, StoreObject, ProtocolObject
  <2>4. w' = IF op = "idle" THEN IdleWorker
             ELSE [op |-> op, store |-> storeCache,
                   rev |-> protocol.rev, status |-> protocol.status]
    BY <1>1 DEF Begin
  <2> HIDE DEF op
  <2>5. CASE op = "idle"
    BY <1>0, <1>1, <2>4, <2>5, NoWork, NoStoreShape
    DEF Begin, StoreInv, TypeOK, WriteIsNewer, apiVars, seen, history
  <2>6. CASE op # "idle"
    <3>1. /\ w' \in Worker
          /\ w'.op = op /\ w'.store = storeCache /\ w'.rev = protocol.rev
      BY <2>1, <2>4, <2>6
      DEF StoreInv, TypeOK, Worker, ProtocolObject, StoreShape
    <3> QED
      BY <1>1, <2>2, <2>3, <2>6, <3>1
      DEF Begin, StoreInv, TypeOK, WriteIsNewer, apiVars, seen, history
  <2> QED
    BY <2>5, <2>6
<1>2. CASE CreateProtocol
  <2>1. protocol' \in ProtocolObject
    <3>1. w.store.uid \in 0..MaxStores
      BY DEF StoreInv, TypeOK, StoreShape, StoreObject
    <3>2. [NoProtocol EXCEPT !.owner = w.store.uid] \in ProtocolObject
      BY <3>1, NoWork DEF ProtocolObject
    <3> QED
      BY <1>2, <3>2 DEF CreateProtocol, StoreInv, TypeOK
  <2> QED
    BY <1>0, <1>2, <2>1, NoWork, NoStoreShape
    DEF CreateProtocol, StoreInv, TypeOK, WriteIsNewer, history
<1>3. CASE WriteStatus
  <2>1. StoreShape(store')
    <3>1. w.rev \in 0..MaxRevision /\ w.status \in Statuses
      BY DEF StoreInv, TypeOK, Worker
    <3>2. StoreShape(Reported(w.store, w.rev, w.status))
      BY <1>3, <3>1, ReportedShape DEF WriteStatus, StoreInv, TypeOK
    <3> QED
      BY <1>3, <3>2 DEF WriteStatus, StoreInv, TypeOK
  <2>2. queue' \in BOOLEAN
    BY <1>3 DEF WriteStatus, StoreInv, TypeOK
  <2>3. /\ w' = IdleWorker
        /\ UNCHANGED <<protocol, plugin, seen, history>>
    BY <1>3 DEF WriteStatus
  <2> QED
    BY <1>0, <2>1, <2>2, <2>3, NoWork, NoStoreShape
    DEF StoreInv, TypeOK, WriteIsNewer, seen, history
<1>4. CASE Fault
  BY <1>0, <1>4, NoWork, NoStoreShape
  DEF Fault, StoreInv, TypeOK, WriteIsNewer, apiVars, seen
<1>5. CASE Crash
  <2>1. faults' \in 0..MaxFaults /\ queue' \in BOOLEAN
    BY <1>5 DEF Crash, StoreInv, TypeOK
  <2> QED
    BY <1>0, <1>5, <2>1, NoWork, NoStoreShape
    DEF Crash, StoreInv, TypeOK, WriteIsNewer, apiVars
<1> QED
  BY <1>1, <1>2, <1>3, <1>4, <1>5 DEF Reconcile

(* The invariant is inductive. *)
LEMMA StoreInvStep ==
    ASSUME StoreInv, [Next]_vars
    PROVE  StoreInv'
<1>1. CASE UNCHANGED vars
  BY <1>1
  DEF StoreInv, TypeOK, WriteIsNewer, vars, apiVars, seen, work, history
<1>2. CASE Next
  BY <1>2, StoreInvEnvironment, StoreInvEvents, StoreInvWork DEF Next
<1> QED
  BY <1>1, <1>2

(* It holds throughout. *)
LEMMA StoreInvHolds == Spec => []StoreInv
<1>1. StoreInv /\ [Next]_vars => StoreInv'
  BY StoreInvStep
<1> QED
  BY <1>1, StoreInvInit, PTL DEF Spec

(* Every reachable state of the StoreReconciler, its cache and its worker is
   well typed, and a ready store lists only ready members (store.go:281-287). *)
THEOREM TypeCorrect == Spec => []TypeOK
BY StoreInvHolds, PTL DEF StoreInv

(* What the rest of the system sees of the store. *)
Visible(s) == [uid |-> s.uid, deleting |-> s.deleting, fin |-> s.fin,
               ready |-> s.ready, rev |-> s.rev]

VisibleStore == [uid : 0..MaxStores, deleting : BOOLEAN, fin : BOOLEAN,
                 ready : BOOLEAN, rev : 0..MaxRevision]

(* Two visible stores with the same fields are the same. *)
LEMMA SameVisible ==
    ASSUME NEW x \in VisibleStore, NEW y \in VisibleStore,
           x.uid = y.uid, x.deleting = y.deleting, x.fin = y.fin,
           x.ready = y.ready, x.rev = y.rev
    PROVE  x = y
BY DEF VisibleStore

(* What is visible of a store. *)
LEMMA VisibleFields ==
    ASSUME NEW s, StoreShape(s)
    PROVE  /\ Visible(s) \in VisibleStore
           /\ Visible(s).uid = s.uid /\ Visible(s).deleting = s.deleting
           /\ Visible(s).fin = s.fin /\ Visible(s).ready = s.ready
           /\ Visible(s).rev = s.rev
BY DEF Visible, VisibleStore, StoreShape, StoreObject

(* Each step changes the store as StoreLifecycle allows, or not at all. *)
LEMMA StoreStepIsALifecycleStep ==
    ASSUME StoreInv, [Next]_vars
    PROVE  [Lifecycle!Next]_(Lifecycle!vars)
<1> USE BoundsAssumption
<1>s. StoreShape(store) /\ StoreShape(store')
  BY StoreInvStep DEF StoreInv, TypeOK
<1>v. /\ Visible(store) \in VisibleStore
      /\ Visible(store') \in VisibleStore
  BY <1>s, VisibleFields
<1>f. /\ Visible(store').uid = store'.uid
      /\ Visible(store').deleting = store'.deleting
      /\ Visible(store').fin = store'.fin
      /\ Visible(store').ready = store'.ready
      /\ Visible(store').rev = store'.rev
      /\ Visible(store).uid = store.uid
      /\ Visible(store).deleting = store.deleting
      /\ Visible(store).fin = store.fin
      /\ Visible(store).ready = store.ready
      /\ Visible(store).rev = store.rev
  BY <1>s, VisibleFields
<1>0. Visible(NoStore) = Lifecycle!Absent
  BY DEF Visible, NoStore, Lifecycle!Absent
<1>1. CASE CreateStore
  <2>1. Visible(store) = Lifecycle!Absent
    BY <1>0, <1>1 DEF CreateStore, StoreInv, TypeOK, StoreShape
  <2>2. Visible(store') = [Lifecycle!Absent EXCEPT !.uid = stores + 1]
    <3> DEFINE a == Lifecycle!Absent
               e == [a EXCEPT !.uid = stores + 1]
    <3>1. a \in VisibleStore /\ a = Visible(NoStore)
      BY <1>0, <1>v, <2>1
    <3>2. stores + 1 \in 0..MaxStores
      BY <1>1 DEF CreateStore, StoreInv, TypeOK
    <3> HIDE DEF a
    <3>3. e \in VisibleStore /\ e.uid = stores + 1 /\ e.deleting = a.deleting
          /\ e.fin = a.fin /\ e.ready = a.ready /\ e.rev = a.rev
      BY <3>1, <3>2 DEF VisibleStore
    <3>4. store'.uid = stores + 1 /\ store'.deleting = NoStore.deleting
          /\ store'.fin = NoStore.fin /\ store'.ready = NoStore.ready
          /\ store'.rev = NoStore.rev
      BY <1>1, NoStoreShape DEF CreateStore, StoreShape, StoreObject
    <3>5. a.deleting = NoStore.deleting /\ a.fin = NoStore.fin
          /\ a.ready = NoStore.ready /\ a.rev = NoStore.rev
      BY <3>1, NoStoreShape, VisibleFields
    <3> HIDE DEF e
    <3>6. Visible(store') = e
      BY <1>f, <1>v, <3>3, <3>4, <3>5, SameVisible
    <3> QED
      BY <3>6 DEF a, e
  <2> QED
    BY <1>1, <2>1, <2>2
    DEF CreateStore, Visible, Lifecycle!Next, Lifecycle!Create
<1>2. CASE DeleteStore
  <2>1. Visible(store') = Deleted(Visible(store), Lifecycle!Absent)
    <3>1. CASE store.fin
      <4>1. store' = [store EXCEPT !.deleting = TRUE]
        BY <1>2, <3>1 DEF DeleteStore, Deleted
      <4>2. /\ store'.uid = store.uid /\ store'.fin = store.fin
            /\ store'.ready = store.ready /\ store'.rev = store.rev
            /\ store'.deleting
        BY <4>1 DEF StoreInv, TypeOK, StoreShape, StoreObject
      <4> DEFINE v == Visible(store)
                 e == [v EXCEPT !.deleting = TRUE]
      <4>3. e \in VisibleStore /\ e.uid = v.uid /\ e.deleting = TRUE
            /\ e.fin = v.fin /\ e.ready = v.ready /\ e.rev = v.rev
        BY <1>v DEF VisibleStore
      <4>4. store'.deleting = TRUE
        BY <4>1, <1>s DEF StoreShape, StoreObject
      <4> HIDE DEF e
      <4>5. Visible(store') = e
        BY <1>f, <1>v, <4>2, <4>3, <4>4, SameVisible
      <4> QED
        BY <1>f, <3>1, <4>5 DEF Deleted, e
    <3>2. CASE ~store.fin
      BY <1>0, <1>2, <1>s, <3>2, VisibleFields DEF DeleteStore, Deleted
    <3> QED
      BY <3>1, <3>2
  <2>2. \A x, y : Deleted(x, y) = Lifecycle!Deleted(x, y)
    BY DEF Deleted, Lifecycle!Deleted
  <2>3. Visible(store') = Lifecycle!Deleted(Visible(store), Lifecycle!Absent)
    BY <2>1, <2>2
  <2> QED
    BY <1>2, <2>3
    DEF DeleteStore, Visible, history, Lifecycle!Next, Lifecycle!Delete
<1>3. CASE ClaimStore
  <2>1. CASE store.deleting
    <3>1. Visible(store') = Lifecycle!Absent
      BY <1>0, <1>3, <2>1 DEF ClaimStore, Released
    <3> QED
      BY <1>3, <2>1, <3>1
      DEF ClaimStore, Visible, history, Lifecycle!Next, Lifecycle!Release
  <2>2. CASE ~store.deleting
    <3>1. /\ store'.uid = store.uid /\ store'.deleting = store.deleting
          /\ store'.ready = store.ready /\ store'.rev = store.rev
          /\ store'.fin = TRUE
      BY <1>3, <2>2 DEF ClaimStore, StoreInv, TypeOK, StoreShape, StoreObject
    <3>2. Visible(store') = [Visible(store) EXCEPT !.fin = TRUE]
      <4> DEFINE v == Visible(store)
                 e == [v EXCEPT !.fin = TRUE]
      <4>1. e \in VisibleStore /\ e.uid = v.uid /\ e.deleting = v.deleting
            /\ e.fin = TRUE /\ e.ready = v.ready /\ e.rev = v.rev
        BY <1>v DEF VisibleStore
      <4> HIDE DEF e
      <4>2. Visible(store') = e
        BY <1>f, <1>v, <3>1, <4>1, SameVisible
      <4> QED
        BY <4>2 DEF e
    <3> QED
      BY <1>3, <2>2, <3>2
      DEF ClaimStore, Visible, history, Lifecycle!Next, Lifecycle!Claim
  <2> QED
    BY <2>1, <2>2
<1>4. CASE WriteStatus /\ store = w.store
  <2>1. w.rev \in 1..MaxRevision /\ w.status \in Statuses
    BY <1>4 DEF WriteStatus, StoreInv, TypeOK, Worker
  <2>2. w.store.rev <= w.rev
    BY <1>4 DEF WriteStatus, StoreInv, WriteIsNewer
  <2>3. store.uid # 0
    BY <1>4 DEF WriteStatus, StoreInv, TypeOK
  <2>4. store' = Reported(store, w.rev, w.status)
    BY <1>4, <2>3 DEF WriteStatus
  <2>5. /\ store'.uid = store.uid /\ store'.deleting = store.deleting
        /\ store'.fin = store.fin /\ store'.rev = w.rev
        /\ store'.ready \in BOOLEAN
    BY <2>1, <2>3, <2>4, ReportedShape DEF StoreInv, TypeOK
  <2>6. Visible(store') = [Visible(store) EXCEPT !.ready = store'.ready,
                                                 !.rev = w.rev]
    <3> DEFINE v == Visible(store)
               d == [v EXCEPT !.ready = store'.ready]
               e == [d EXCEPT !.rev = w.rev]
    <3>1. d \in VisibleStore /\ d.uid = v.uid /\ d.deleting = v.deleting
          /\ d.fin = v.fin /\ d.ready = store'.ready
      BY <1>v, <2>5 DEF VisibleStore
    <3> HIDE DEF v, d
    <3>2. e \in VisibleStore /\ e.uid = d.uid /\ e.deleting = d.deleting
          /\ e.fin = d.fin /\ e.ready = d.ready /\ e.rev = w.rev
      BY <2>1, <3>1 DEF VisibleStore
    <3> HIDE DEF e
    <3>3. v = Visible(store)
      BY DEF v
    <3>4. Visible(store') = e
      BY <1>f, <1>v, <2>5, <3>1, <3>2, <3>3, SameVisible
    <3>5. e = [Visible(store) EXCEPT !.ready = store'.ready, !.rev = w.rev]
      BY DEF e, d, v
    <3> QED
      BY <3>4, <3>5
  <2>7. stores' = stores
    BY <1>4 DEF WriteStatus, history
  <2> QED
    BY <1>4, <2>1, <2>2, <2>3, <2>5, <2>6, <2>7
    DEF Visible, Lifecycle!Next, Lifecycle!Report
<1>5. CASE UNCHANGED <<store, stores>>
  BY <1>5 DEF Lifecycle!vars
<1>6. \/ CreateStore \/ DeleteStore \/ ClaimStore
      \/ WriteStatus /\ store = w.store
      \/ UNCHANGED <<store, stores>>
  <2>1. CASE UNCHANGED vars
    BY <2>1 DEF vars, apiVars, history
  <2>2. CASE Environment \/ GarbageCollect
    BY <2>2 DEF Environment, GarbageCollect, RemoveProtocol, UpdateProtocol
  <2>3. CASE SyncStore \/ AddPlugin \/ SyncProtocol
    BY <2>3 DEF SyncStore, AddPlugin, SyncProtocol, apiVars, history
  <2>4. CASE Begin \/ CreateProtocol \/ Fault \/ Crash
    BY <2>4 DEF Begin, CreateProtocol, Fault, Crash, apiVars, history
  <2>5. CASE WriteStatus
    BY <2>5 DEF WriteStatus, history
  <2> QED
    BY <2>1, <2>2, <2>3, <2>4, <2>5 DEF Next, Reconcile
<1> QED
  BY <1>1, <1>2, <1>3, <1>4, <1>5, <1>6

(* StoreController implements StoreLifecycle: the store's revision never
   decreases and its deletion goes through the finalizer, through stale cached
   copies, conflicts, retries and crashes (store.go:137, 289). *)
THEOREM ImplementsLifecycle == Spec => StoreIsALifecycle
<1>1. Init => Lifecycle!Init
  BY DEF Init, NoStore, Lifecycle!Init, Lifecycle!Absent
<1>2. StoreInv /\ [Next]_vars => [Lifecycle!Next]_(Lifecycle!vars)
  BY StoreStepIsALifecycleStep
<1> QED
  BY <1>1, <1>2, StoreInvHolds, PTL
  DEF Spec, StoreIsALifecycle, Lifecycle!Spec
=============================================================================
