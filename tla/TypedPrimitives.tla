-------------------------- MODULE TypedPrimitives --------------------------
(***************************************************************************)
(* The typed primitive controllers (pkg/controller/primitives/v2beta1):    *)
(* one controller per kind (Counter, Map, ...) that creates the Primitive  *)
(* for a typed resource of that kind and of the same name.                 *)
(*                                                                         *)
(* One name is modelled, for which every kind may have a typed resource.   *)
(* The reconciler reads the typed resource from the API server and the     *)
(* Primitive from the informer cache.  The garbage collector removes a     *)
(* Primitive whose owner is gone; the sidecar PrimitiveReconciler claims   *)
(* and releases it as ProxyController has it.                              *)
(***************************************************************************)
EXTENDS Integers, ApiObjects

CONSTANTS
    Kinds,          \* the kinds of typed resources
    MaxObjects,     \* typed resources ever created
    MaxDeletes,     \* Primitives that users delete
    MaxFaults       \* failed calls and controller crashes

ASSUME BoundsAssumption ==
    MaxObjects \in Nat /\ MaxDeletes \in Nat /\ MaxFaults \in Nat
ASSUME KindsAssumption == "none" \notin Kinds

VARIABLES
    typed,          \* the UID of the typed resource of each kind, 0 without one
    primitive,      \* the Primitive object in the API server
    primitiveCache, \* the informer cache of Primitives
    news,           \* kinds whose typed resource has an event under way
    owners,         \* kinds of which a Primitive has an event under way
    queue,          \* kinds whose controller has the name in its work queue
    worker,         \* the worker of each kind's controller
    objects,        \* history: typed resources and Primitives made,
    primitives,
    deletes,        \* Primitives deleted by users, faults
    faults

apiVars == <<typed, primitive>>
work    == <<queue, worker>>
events  == <<news, owners>>
vars == <<apiVars, primitiveCache, events, work, objects, primitives, deletes,
          faults>>

\* uid = 0 is the Primitive that is not found.
NoPrimitive == [uid |-> 0, deleting |-> FALSE, fin |-> FALSE,
                kind |-> "none", owner |-> 0]
Idle == [op |-> "idle", owner |-> 0]

Init ==
    /\ typed = [k \in Kinds |-> 0]
    /\ primitive = NoPrimitive
    /\ primitiveCache = NoPrimitive
    /\ news = {}
    /\ owners = {}
    /\ queue = {}
    /\ worker = [k \in Kinds |-> Idle]
    /\ objects = 0
    /\ primitives = 0
    /\ deletes = 0
    /\ faults = 0

\* A Primitive that appears, changes or goes away is news to its owner.
Notify ==
    owners' = owners \cup ({primitive.kind, primitive'.kind} \ {"none"})

-----------------------------------------------------------------------------
(* Users, the garbage collector and the sidecar PrimitiveReconciler *)

CreateTyped(k) ==
    /\ typed[k] = 0
    /\ objects < MaxObjects
    /\ objects' = objects + 1
    /\ typed' = [typed EXCEPT ![k] = objects + 1]
    /\ news' = news \cup {k}
    /\ UNCHANGED <<primitive, primitiveCache, owners, work, primitives, deletes, faults>>

DeleteTyped(k) ==
    /\ typed[k] # 0
    /\ typed' = [typed EXCEPT ![k] = 0]
    /\ news' = news \cup {k}
    /\ UNCHANGED <<primitive, primitiveCache, owners, work, objects, primitives, deletes,
                   faults>>

DeletePrimitive ==
    /\ primitive.uid # 0
    /\ ~primitive.deleting
    /\ deletes < MaxDeletes
    /\ deletes' = deletes + 1
    /\ primitive' = Deleted(primitive, NoPrimitive)
    /\ Notify
    /\ UNCHANGED <<typed, primitiveCache, news, work, objects, primitives, faults>>

HasOwner(m) == m.kind \in Kinds /\ typed[m.kind] = m.owner

GarbageCollect ==
    /\ primitive.kind \in Kinds
    /\ ~HasOwner(primitive)
    /\ ~primitive.deleting
    /\ primitive' = Deleted(primitive, NoPrimitive)
    /\ Notify
    /\ UNCHANGED <<typed, primitiveCache, news, work, objects, primitives, deletes,
                   faults>>

ClaimPrimitive ==
    /\ primitive.uid # 0
    /\ ~primitive.deleting
    /\ ~primitive.fin
    /\ primitive' = [primitive EXCEPT !.fin = TRUE]
    /\ Notify
    /\ UNCHANGED <<typed, primitiveCache, news, work, objects, primitives, deletes,
                   faults>>

ReleasePrimitive ==
    /\ primitive.deleting
    /\ primitive' = Released(primitive, NoPrimitive)
    /\ Notify
    /\ UNCHANGED <<typed, primitiveCache, news, work, objects, primitives, deletes,
                   faults>>

-----------------------------------------------------------------------------
(* The watches of the controllers.  The event of a Primitive goes to the
   controller of the kind that owns it, and to no other. *)

SyncTyped(k) ==
    /\ k \in news
    /\ news' = news \ {k}
    /\ queue' = queue \cup {k}
    /\ UNCHANGED <<apiVars, primitiveCache, owners, worker, objects, primitives, deletes,
                   faults>>

\* Mutant: Primitives are not watched.
SyncPrimitiveUnwatched ==
    /\ owners # {}
    /\ owners' = {}
    /\ primitiveCache' = primitive
    /\ UNCHANGED <<apiVars, news, work, objects, primitives, deletes, faults>>

SyncPrimitive ==
    /\ owners # {}
    /\ owners' = {}
    /\ primitiveCache' = primitive
    /\ queue' = queue \cup owners
    /\ UNCHANGED <<apiVars, news, worker, objects, primitives, deletes, faults>>

\* Every ten hours the informers deliver all objects again.
Resync(k) ==
    /\ typed[k] # 0
    /\ k \notin queue
    /\ queue' = queue \cup {k}
    /\ UNCHANGED <<apiVars, primitiveCache, events, worker, objects, primitives,
                   deletes, faults>>

-----------------------------------------------------------------------------
(* Reconcile, for the controller of kind k *)

\* The typed resource is read from the API server.
ReadTyped(k) ==
    /\ worker[k].op = "idle"
    /\ k \in queue
    /\ queue' = queue \ {k}
    /\ worker' = [worker EXCEPT ![k] = IF typed[k] = 0 THEN Idle
                                       ELSE [op |-> "read", owner |-> typed[k]]]
    /\ UNCHANGED <<apiVars, primitiveCache, events, objects, primitives, deletes,
                   faults>>

\* The Primitive is read from the cache; one that exists, whoever owns it, is
\* left alone.
ReadPrimitive(k) ==
    /\ worker[k].op = "read"
    /\ worker' = [worker EXCEPT ![k] = IF primitiveCache.uid # 0 THEN Idle
                                       ELSE [@ EXCEPT !.op = "create"]]
    /\ UNCHANGED <<apiVars, primitiveCache, events, queue, objects, primitives,
                   deletes, faults>>

\* Mutant: the controller reference is not set.
CreateUnowned(k) ==
    /\ worker[k].op = "create"
    /\ worker' = [worker EXCEPT ![k] = Idle]
    /\ primitive.uid = 0
    /\ primitive' = [NoPrimitive EXCEPT !.uid = primitives + 1]
    /\ primitives' = primitives + 1
    /\ Notify
    /\ UNCHANGED <<typed, primitiveCache, news, queue, objects, deletes, faults>>

\* Mutant: an existing Primitive is replaced.
CreateReplaces(k) ==
    /\ worker[k].op = "create"
    /\ worker' = [worker EXCEPT ![k] = Idle]
    /\ primitive' = [NoPrimitive EXCEPT !.uid = primitives + 1, !.kind = k,
                                        !.owner = worker[k].owner]
    /\ primitives' = primitives + 1
    /\ Notify
    /\ UNCHANGED <<typed, primitiveCache, news, queue, objects, deletes, faults>>

\* AlreadyExists is taken for success.
CreatePrimitive(k) ==
    /\ worker[k].op = "create"
    /\ worker' = [worker EXCEPT ![k] = Idle]
    /\ IF primitive.uid # 0 THEN UNCHANGED <<primitive, owners, primitives>>
       ELSE /\ primitive' = [NoPrimitive EXCEPT !.uid = primitives + 1, !.kind = k,
                                                !.owner = worker[k].owner]
            /\ primitives' = primitives + 1
            /\ Notify
    /\ UNCHANGED <<typed, primitiveCache, news, queue, objects, deletes, faults>>

\* A call fails and the request is tried again.
Fault(k) ==
    /\ worker[k].op # "idle"
    /\ faults < MaxFaults
    /\ faults' = faults + 1
    /\ worker' = [worker EXCEPT ![k] = Idle]
    /\ queue' = queue \cup {k}
    /\ UNCHANGED <<apiVars, primitiveCache, events, objects, primitives, deletes>>

\* The controller process dies and is restarted.
Crash ==
    /\ faults < MaxFaults
    /\ faults' = faults + 1
    /\ primitiveCache' = primitive
    /\ news' = {}
    /\ owners' = {}
    /\ queue' = {k \in Kinds : typed[k] # 0} \cup ({primitive.kind} \ {"none"})
    /\ worker' = [k \in Kinds |-> Idle]
    /\ UNCHANGED <<apiVars, objects, primitives, deletes>>

-----------------------------------------------------------------------------
Reconcile(k) == ReadTyped(k) \/ ReadPrimitive(k) \/ CreatePrimitive(k)

Next ==
    \/ \E k \in Kinds : CreateTyped(k) \/ DeleteTyped(k)
    \/ DeletePrimitive
    \/ GarbageCollect
    \/ ClaimPrimitive
    \/ ReleasePrimitive
    \/ \E k \in Kinds : SyncTyped(k)
    \/ SyncPrimitive
    \/ \E k \in Kinds : Resync(k)
    \/ \E k \in Kinds : Reconcile(k)
    \/ \E k \in Kinds : Fault(k)
    \/ Crash

Spec == Init /\ [][Next]_vars

\* Watches deliver, workers run, the garbage collector collects, and a deleted
\* Primitive is released.  Nothing is assumed of users or of the resync.
Fairness ==
    /\ WF_vars(GarbageCollect)
    /\ WF_vars(ReleasePrimitive)
    /\ WF_vars(SyncPrimitive)
    /\ \A k \in Kinds : WF_vars(SyncTyped(k)) /\ WF_vars(Reconcile(k))

FairSpec == Spec /\ Fairness

-----------------------------------------------------------------------------
(* Properties *)

PrimitiveShape(m) ==
    /\ m \in [uid : 0..primitives, deleting : BOOLEAN, fin : BOOLEAN,
              kind : Kinds \cup {"none"}, owner : 0..objects]
    /\ m.uid = 0 <=> m.kind = "none"
    /\ m.kind = "none" => m = NoPrimitive
    /\ m.deleting => m.fin

(* Type correctness, with what the garbage collector relies on: every Primitive
   has an owner of the kind of the controller that made it
   (reconciler.go:101-104). *)
TypeOK ==
    /\ typed \in [Kinds -> 0..objects]
    /\ PrimitiveShape(primitive)
    /\ PrimitiveShape(primitiveCache)
    /\ news \subseteq Kinds
    /\ owners \subseteq Kinds
    /\ queue \subseteq Kinds
    /\ worker \in [Kinds -> [op : {"idle", "read", "create"}, owner : 0..objects]]
    /\ objects \in 0..MaxObjects
    /\ primitives \in Nat
    /\ deletes \in 0..MaxDeletes
    /\ faults \in 0..MaxFaults

Alone(k) == \A j \in Kinds \ {k} : typed[j] = 0

Served(k) ==
    /\ primitive.uid # 0
    /\ primitive.kind = k
    /\ primitive.owner = typed[k]
    /\ ~primitive.deleting

(* A typed resource that stays gets a Primitive of its own, also when it has
   been created again while the Primitive of its predecessor was on its way out,
   as long as no other kind ever uses the name: the removal of that Primitive
   wakes the controller (reconciler.go:38-110, controller.go:75-81). *)
TypedIsServed ==
    \A k \in Kinds :
        []Alone(k) /\ <>[](typed[k] # 0) => <>[]Served(k)

(* Of two kinds under one name the loser gets a Primitive too, once the winner's
   typed resource is gone for good, if the informers are resynchronised: it is
   not woken when the winner's Primitive goes away, because the event is the
   winner's (controller.go:75-81). *)
LoserIsServed ==
    \A k \in Kinds :
        WF_vars(Resync(k)) => (<>[](typed[k] # 0 /\ Alone(k)) => <>[]Served(k))

(* No Primitive stays behind when the typed resources are gone for good, not
   even one that was created for a resource deleted in the meantime. *)
OrphanPrimitiveCollected ==
    <>[](\A k \in Kinds : typed[k] = 0) => <>[](primitive.uid = 0)

Lifecycle == INSTANCE PrimitiveLifecycle WITH
    visible <- [uid |-> primitive.uid, deleting |-> primitive.deleting,
                fin |-> primitive.fin],
    incarnations <- primitives

(* However many kinds create Primitives of one name and whoever deletes them,
   their succession is what PrimitiveLifecycle allows: a new one appears only
   when the last is gone (reconciler.go:105-109). *)
PrimitiveIsALifecycle == Lifecycle!Spec
=============================================================================
