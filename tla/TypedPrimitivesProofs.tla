----------------------- MODULE TypedPrimitivesProofs -----------------------
(***************************************************************************)
(* Proofs about TypedPrimitives, for any set of kinds and any number of    *)
(* typed resources, deletions and faults: its type invariant, and that the *)
(* succession of Primitives of a name is a PrimitiveLifecycle.             *)
(***************************************************************************)
EXTENDS TypedPrimitives, TLAPS

-----------------------------------------------------------------------------
(* The shape of the Primitive                                              *)

(* The Primitive that is not found has the shape of one. *)
LEMMA AbsentShape ==
    ASSUME primitives \in Nat, objects \in Nat
    PROVE  PrimitiveShape(NoPrimitive)
BY DEF PrimitiveShape, NoPrimitive

(* A user's deletion, the garbage collector's, the sidecar controller's claim
   and its release leave a well-formed Primitive. *)
LEMMA TouchedShape ==
    ASSUME NEW m, PrimitiveShape(m), primitives \in Nat, objects \in Nat
    PROVE  /\ PrimitiveShape(Deleted(m, NoPrimitive))
           /\ m.uid # 0 => PrimitiveShape([m EXCEPT !.fin = TRUE])
           /\ m.deleting => PrimitiveShape(Released(m, NoPrimitive))
<1>1. m.uid # 0 => PrimitiveShape([m EXCEPT !.fin = TRUE])
  BY DEF PrimitiveShape
<1>2. PrimitiveShape(Deleted(m, NoPrimitive))
  BY AbsentShape DEF PrimitiveShape, Deleted, NoPrimitive
<1>3. m.deleting => PrimitiveShape(Released(m, NoPrimitive))
  BY AbsentShape DEF Released
<1> QED BY <1>1, <1>2, <1>3

(* The Primitive that the controller of kind k creates for the typed resource o
   is well-formed and owned by it. *)
LEMMA CreatedShape ==
    ASSUME NEW k \in Kinds, primitives \in Nat, objects \in Nat,
           NEW o \in 0..objects, primitives' = primitives + 1, objects' = objects,
           primitive' = [NoPrimitive EXCEPT !.uid = primitives + 1, !.kind = k,
                                            !.owner = o]
    PROVE  PrimitiveShape(primitive)' /\ primitive'.kind = k
<1>1. /\ primitives + 1 \in 0..primitives' /\ primitives + 1 # 0
      /\ o \in 0..objects' /\ k # "none"
  BY KindsAssumption
<1>2. /\ primitive'.uid = primitives + 1 /\ primitive'.kind = k
      /\ primitive'.deleting = FALSE /\ primitive'.fin = FALSE
      /\ primitive'.owner = o
  BY DEF NoPrimitive
<1>3. primitive' \in [uid : 0..primitives', deleting : BOOLEAN, fin : BOOLEAN,
                      kind : Kinds \cup {"none"}, owner : 0..objects']
  BY <1>1 DEF NoPrimitive
<1> QED BY <1>1, <1>2, <1>3 DEF PrimitiveShape

-----------------------------------------------------------------------------
(* Type correctness *)

(* The numbers of the history are numbers, and the owners of a Primitive that
   the watches are told about are kinds. *)
LEMMA TypeFacts ==
    ASSUME TypeOK
    PROVE  /\ objects \in Nat /\ primitives \in Nat
           /\ {primitive.kind} \ {"none"} \subseteq Kinds
           /\ primitive.kind = "none" <=> primitive.uid = 0
BY BoundsAssumption DEF TypeOK, PrimitiveShape

(* Nothing is there at first. *)
LEMMA TypeInit == Init => TypeOK
<1> SUFFICES ASSUME Init PROVE TypeOK
  OBVIOUS
<1>1. PrimitiveShape(primitive) /\ PrimitiveShape(primitiveCache)
  BY AbsentShape DEF Init
<1>2. worker \in [Kinds -> [op : {"idle", "read", "create"}, owner : 0..objects]]
  BY DEF Init, Idle
<1> QED BY <1>1, <1>2, BoundsAssumption DEF Init, TypeOK

(* Steps of users, of the garbage collector and of the sidecar controller. *)
LEMMA TypeEnvironment ==
    ASSUME TypeOK,
           \/ \E k \in Kinds : CreateTyped(k) \/ DeleteTyped(k)
           \/ DeletePrimitive \/ GarbageCollect
           \/ ClaimPrimitive \/ ReleasePrimitive
    PROVE  TypeOK'
<1> USE TypeFacts
<1>1. ASSUME NEW k \in Kinds, CreateTyped(k) PROVE TypeOK'
  <2>1. objects' = objects + 1 /\ objects' \in 0..MaxObjects
    BY <1>1, BoundsAssumption DEF CreateTyped, TypeOK
  <2>2. PrimitiveShape(primitive)' /\ PrimitiveShape(primitiveCache)'
    <3>1. UNCHANGED <<primitive, primitiveCache, primitives>>
      BY <1>1 DEF CreateTyped
    <3>2. PrimitiveShape(primitive) /\ PrimitiveShape(primitiveCache)
      BY DEF TypeOK
    <3> QED BY <2>1, <3>1, <3>2 DEF PrimitiveShape
  <2>3. typed' \in [Kinds -> 0..objects']
    BY <1>1, <2>1 DEF CreateTyped, TypeOK
  <2>4. worker' \in [Kinds -> [op : {"idle", "read", "create"}, owner : 0..objects']]
    <3>1. 0..objects \subseteq 0..objects' /\ worker' = worker
      BY <1>1, <2>1 DEF CreateTyped, work
    <3> QED BY <3>1 DEF TypeOK
  <2> QED BY <1>1, <2>1, <2>2, <2>3, <2>4 DEF CreateTyped, TypeOK, work
<1>2. ASSUME NEW k \in Kinds, DeleteTyped(k) PROVE TypeOK'
  BY <1>2 DEF DeleteTyped, TypeOK, PrimitiveShape, work
<1>3. CASE DeletePrimitive \/ GarbageCollect \/ ClaimPrimitive \/ ReleasePrimitive
  <2>1. /\ Notify
        /\ UNCHANGED <<typed, primitiveCache, news, work, objects, primitives, faults>>
    BY <1>3 DEF DeletePrimitive, GarbageCollect, ClaimPrimitive, ReleasePrimitive
  <2>2. PrimitiveShape(primitive')
    BY <1>3, TouchedShape DEF DeletePrimitive, GarbageCollect, ClaimPrimitive,
         ReleasePrimitive, TypeOK
  <2>3. PrimitiveShape(primitive)' /\ PrimitiveShape(primitiveCache)'
    BY <2>1, <2>2 DEF TypeOK, PrimitiveShape
  <2>4. owners' \subseteq Kinds
    BY <2>1, <2>3 DEF Notify, TypeOK, PrimitiveShape
  <2>5. deletes' \in 0..MaxDeletes
    BY <1>3, BoundsAssumption DEF DeletePrimitive, GarbageCollect, ClaimPrimitive,
         ReleasePrimitive, TypeOK
  <2> QED BY <2>1, <2>3, <2>4, <2>5 DEF TypeOK, work
<1> QED BY <1>1, <1>2, <1>3

(* Steps of the watches and of the typed controllers, and the crash. *)
LEMMA TypeController ==
    ASSUME TypeOK,
           \/ \E k \in Kinds : SyncTyped(k) \/ Resync(k) \/ Reconcile(k) \/ Fault(k)
           \/ SyncPrimitive \/ Crash
    PROVE  TypeOK'
<1> USE TypeFacts
<1>1. ASSUME NEW k \in Kinds, SyncTyped(k) \/ Resync(k) PROVE TypeOK'
  BY <1>1 DEF SyncTyped, Resync, TypeOK, PrimitiveShape, apiVars, events
<1>2. CASE SyncPrimitive
  BY <1>2 DEF SyncPrimitive, TypeOK, PrimitiveShape, apiVars
<1>3. ASSUME NEW k \in Kinds, ReadTyped(k) \/ ReadPrimitive(k) PROVE TypeOK'
  <2>1. worker' \in [Kinds -> [op : {"idle", "read", "create"}, owner : 0..objects]]
    BY <1>3 DEF ReadTyped, ReadPrimitive, Idle, TypeOK
  <2>2. queue' \subseteq Kinds /\ UNCHANGED <<apiVars, primitiveCache, events, objects,
                                               primitives, deletes, faults>>
    BY <1>3 DEF ReadTyped, ReadPrimitive, TypeOK
  <2> QED BY <2>1, <2>2 DEF TypeOK, PrimitiveShape, apiVars, events
<1>4. ASSUME NEW k \in Kinds, CreatePrimitive(k) PROVE TypeOK'
  <2>1. worker' \in [Kinds -> [op : {"idle", "read", "create"}, owner : 0..objects]]
    BY <1>4 DEF CreatePrimitive, Idle, TypeOK
  <2>2. CASE primitive.uid # 0
    BY <1>4, <2>1, <2>2 DEF CreatePrimitive, TypeOK, PrimitiveShape
  <2>3. CASE primitive.uid = 0
    <3>1. /\ primitives' = primitives + 1 /\ objects' = objects
          /\ primitive' = [NoPrimitive EXCEPT !.uid = primitives + 1, !.kind = k,
                                              !.owner = worker[k].owner]
          /\ Notify
      BY <1>4, <2>3 DEF CreatePrimitive
    <3>2. worker[k].owner \in 0..objects
      BY DEF TypeOK
    <3>3. PrimitiveShape(primitive)' /\ primitive'.kind = k
      BY <3>1, <3>2, CreatedShape
    <3>4. PrimitiveShape(primitiveCache)'
      <4>1. primitiveCache' = primitiveCache /\ PrimitiveShape(primitiveCache)
        BY <1>4 DEF CreatePrimitive, TypeOK
      <4>2. 0..primitives \subseteq 0..primitives'
        BY <3>1
      <4> QED BY <3>1, <4>1, <4>2 DEF PrimitiveShape
    <3>5. owners' \subseteq Kinds
      BY <3>1, <3>3 DEF Notify, TypeOK
    <3> QED BY <1>4, <2>1, <3>1, <3>3, <3>4, <3>5 DEF CreatePrimitive, TypeOK
  <2> QED BY <2>2, <2>3
<1>5. ASSUME NEW k \in Kinds, Fault(k) PROVE TypeOK'
  <2>1. worker' \in [Kinds -> [op : {"idle", "read", "create"}, owner : 0..objects]]
    BY <1>5 DEF Fault, Idle, TypeOK
  <2>2. faults' \in 0..MaxFaults
    BY <1>5, BoundsAssumption DEF Fault, TypeOK
  <2> QED BY <1>5, <2>1, <2>2 DEF Fault, TypeOK, PrimitiveShape, apiVars, events
<1>6. CASE Crash
  <2>1. worker' \in [Kinds -> [op : {"idle", "read", "create"}, owner : 0..objects]]
    BY <1>6 DEF Crash, Idle
  <2>2. faults' \in 0..MaxFaults
    BY <1>6, BoundsAssumption DEF Crash, TypeOK
  <2> QED BY <1>6, <2>1, <2>2 DEF Crash, TypeOK, PrimitiveShape, apiVars
<1> QED BY <1>1, <1>2, <1>3, <1>4, <1>5, <1>6 DEF Reconcile

(* One step of the whole system. *)
LEMMA TypeStep == TypeOK /\ [Next]_vars => TypeOK'
<1> SUFFICES ASSUME TypeOK, [Next]_vars PROVE TypeOK'
  OBVIOUS
<1>1. CASE UNCHANGED vars
  BY <1>1 DEF TypeOK, PrimitiveShape, vars, apiVars, events, work
<1>2. CASE Next
  BY <1>2, TypeEnvironment, TypeController DEF Next
<1> QED BY <1>1, <1>2

(* Whatever kinds there are and however many resources, deletions and faults,
   every Primitive that is made has an owner of the kind of the controller that
   made it (reconciler.go:101-104), so that the garbage collector finds it and
   the watch of that kind is told of it. *)
THEOREM TypeCorrect == Spec => []TypeOK
BY TypeInit, TypeStep, PTL DEF Spec

-----------------------------------------------------------------------------
(* The Primitives of a name are a PrimitiveLifecycle *)

(* The Primitive that is not found is seen as the absent object. *)
LEMMA SeenAbsent ==
    [uid |-> NoPrimitive.uid, deleting |-> NoPrimitive.deleting,
     fin |-> NoPrimitive.fin] = Lifecycle!Absent
BY DEF NoPrimitive, Lifecycle!Absent

(* Each step changes the Primitive as PrimitiveLifecycle allows, or not at
   all. *)
LEMMA StepIsALifecycleStep ==
    ASSUME TypeOK, [Next]_vars
    PROVE  [Lifecycle!Next]_(Lifecycle!vars)
<1> DEFINE seen(m) == [uid |-> m.uid, deleting |-> m.deleting, fin |-> m.fin]
<1>s. primitive \in [uid : 0..primitives, deleting : BOOLEAN, fin : BOOLEAN,
                     kind : Kinds \cup {"none"}, owner : 0..objects]
  BY DEF TypeOK, PrimitiveShape
<1>a. primitive.uid = 0 => primitive = NoPrimitive
  BY DEF TypeOK, PrimitiveShape
<1>d. ASSUME primitive' = Deleted(primitive, NoPrimitive), ~primitive.deleting,
             primitive.uid # 0, UNCHANGED primitives
      PROVE  Lifecycle!Next
  <2>1. seen(primitive') = Lifecycle!Deleted(seen(primitive), Lifecycle!Absent)
    BY <1>d, <1>s, SeenAbsent DEF Deleted, Lifecycle!Deleted
  <2> QED BY <1>d, <2>1 DEF Lifecycle!Next, Lifecycle!Delete
<1>1. CASE DeletePrimitive \/ GarbageCollect
  BY <1>1, <1>d, TypeFacts, KindsAssumption DEF DeletePrimitive, GarbageCollect
<1>2. CASE ClaimPrimitive
  <2>1. /\ primitive'.uid = primitive.uid /\ primitive'.deleting = primitive.deleting
        /\ primitive'.fin = TRUE
    BY <1>2, <1>s DEF ClaimPrimitive
  <2>2. \A f : [seen(primitive) EXCEPT !.fin = f] =
          [uid |-> primitive.uid, deleting |-> primitive.deleting, fin |-> f]
    OBVIOUS
  <2>3. seen(primitive') = [seen(primitive) EXCEPT !.fin = TRUE]
    BY <2>1, <2>2, Zenon
  <2>4. /\ primitives' = primitives
        /\ primitive.uid # 0 /\ ~primitive.deleting
    BY <1>2 DEF ClaimPrimitive
  <2>5. Lifecycle!Claim
    BY <2>3, <2>4 DEF Lifecycle!Claim
  <2> QED BY <2>5 DEF Lifecycle!Next
<1>3. CASE ReleasePrimitive
  <2>1. primitive' = NoPrimitive /\ primitive.deleting
    BY <1>3 DEF ReleasePrimitive, Released
  <2> QED BY <1>3, <2>1, SeenAbsent
        DEF ReleasePrimitive, Lifecycle!Next, Lifecycle!Release
<1>4. ASSUME NEW k \in Kinds, CreatePrimitive(k)
      PROVE  [Lifecycle!Next]_(Lifecycle!vars)
  <2>1. CASE primitive.uid # 0
    BY <1>4, <2>1 DEF CreatePrimitive, Lifecycle!vars
  <2>2. CASE primitive.uid = 0
    <3>1. /\ primitives' = primitives + 1
          /\ primitive' = [NoPrimitive EXCEPT !.uid = primitives + 1, !.kind = k,
                                              !.owner = worker[k].owner]
      BY <1>4, <2>2 DEF CreatePrimitive
    <3>2. seen(primitive) = Lifecycle!Absent
      BY <1>a, <2>2, SeenAbsent
    <3>3. /\ primitive'.uid = primitives + 1
          /\ primitive'.deleting = FALSE /\ primitive'.fin = FALSE
      BY <3>1 DEF NoPrimitive
    <3>4. seen(primitive') = [uid |-> primitives + 1, deleting |-> FALSE, fin |-> FALSE]
      BY <3>3
    <3>5. [Lifecycle!Absent EXCEPT !.uid = primitives + 1] = seen(primitive')
      <4>1. \A d, f, v : [[uid |-> 0, deleting |-> d, fin |-> f] EXCEPT !.uid = v]
                            = [uid |-> v, deleting |-> d, fin |-> f]
        OBVIOUS
      <4> QED BY <3>4, <4>1, Zenon DEF Lifecycle!Absent
    <3>6. Lifecycle!Create
      BY <2>2, <3>1, <3>2, <3>5 DEF Lifecycle!Create
    <3> QED BY <3>6 DEF Lifecycle!Next
  <2> QED BY <2>1, <2>2
<1>5. CASE UNCHANGED <<primitive, primitives>>
  BY <1>5 DEF Lifecycle!vars
<1>6. \/ DeletePrimitive \/ GarbageCollect \/ ClaimPrimitive \/ ReleasePrimitive
      \/ \E k \in Kinds : CreatePrimitive(k)
      \/ UNCHANGED <<primitive, primitives>>
  BY DEF Next, CreateTyped, DeleteTyped, SyncTyped, SyncPrimitive, Resync, Reconcile,
       ReadTyped, ReadPrimitive, Fault, Crash, vars, apiVars
<1> QED BY <1>1, <1>2, <1>3, <1>4, <1>5, <1>6

(* However many kinds create Primitives of one name, whoever deletes them and
   whatever is collected or crashes, a Primitive appears only when the one
   before is gone, has a UID of its own, and goes at once only when it was not
   claimed (reconciler.go:105-109): PrimitiveLifecycle, on which
   ProxyController relies. *)
THEOREM ImplementsLifecycle == Spec => PrimitiveIsALifecycle
<1>1. Init => Lifecycle!Init
  BY SeenAbsent DEF Init, Lifecycle!Init
<1>2. TypeOK /\ [Next]_vars => [Lifecycle!Next]_(Lifecycle!vars)
  BY StepIsALifecycleStep
<1> QED BY <1>1, <1>2, TypeCorrect, PTL
     DEF Spec, PrimitiveIsALifecycle, Lifecycle!Spec
=============================================================================
