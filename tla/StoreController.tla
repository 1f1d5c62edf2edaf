--------------------------- MODULE StoreController ---------------------------
(***************************************************************************)
(* The core StoreReconciler (pkg/controller/core/v2beta1/store.go) and its *)
(* protocolSource (core/v2beta1/protocol.go): for a Store it creates the   *)
(* protocol object that the Store embeds, and copies the protocol's status *)
(* into the Store's.                                                       *)
(*                                                                         *)
(* One store NAME is modelled; incarnation u of the store has UID u.  The  *)
(* protocol bears the store's name and is owned by the incarnation that    *)
(* created it; a controller of its own, outside this repository, gives it  *)
(* a status.  The store is read from the informer cache, the protocol, an  *)
(* unstructured object, from the API server; protocol events reach the     *)
(* reconciler only once a StoragePlugin for its kind exists.               *)
(*                                                                         *)
(* A status lists replicas and partitions; of each only readiness is kept. *)
(***************************************************************************)
EXTENDS Integers, Sequences, FiniteSets, ApiObjects

CONSTANTS
    MaxStores,    \* incarnations of the store name
    MaxRevision,  \* protocol revisions
    MaxChanges,   \* status changes the protocol's controller makes
    MaxFaults,    \* failed requests and controller crashes
    Statuses      \* the statuses a protocol ever reports

NoStatus == [replicas |-> <<>>, partitions |-> <<>>]

ASSUME BoundsAssumption ==
    /\ MaxStores \in Nat
    /\ MaxRevision \in Nat
    /\ MaxChanges \in Nat
    /\ MaxFaults \in Nat
ASSUME StatusesAssumption ==
    /\ Statuses \subseteq [replicas : Seq(BOOLEAN), partitions : Seq(BOOLEAN)]
    /\ NoStatus \in Statuses

VARIABLES
    store,      \* the Store object in the API server
    protocol,   \* the protocol object in the API server
    plugin,     \* has the protocol's StoragePlugin been installed?
    storeCache, \* the informer cache of stores
    notice,     \* are there protocol events yet to be delivered?
    queue,      \* work queue and worker of the StoreReconciler
    w,
    stores,     \* history: stores made, status changes, faults, and whether
    changes,    \* a protocol has ever been removed
    faults,
    lost

apiVars == <<store, protocol, plugin>>
seen    == <<storeCache, notice>>
work    == <<queue, w>>
history == <<stores, changes, faults, lost>>
vars    == <<apiVars, seen, work, history>>

-----------------------------------------------------------------------------
(* Objects *)

\* How many members of a status are ready, and whether all of them are.
ReadyCount(members) == Cardinality({i \in DOMAIN members : members[i]})
AllReady(members)   == ReadyCount(members) > 0 /\ ReadyCount(members) = Len(members)

StoreObject == [uid : 0..MaxStores, deleting : BOOLEAN, fin : BOOLEAN,
                ready : BOOLEAN, rev : 0..MaxRevision, status : Statuses]
\* rev = 0: the protocol has no status yet.
ProtocolObject == [owner : 0..MaxStores, rev : 0..MaxRevision, status : Statuses]

NoStore    == [uid |-> 0, deleting |-> FALSE, fin |-> FALSE,
               ready |-> FALSE, rev |-> 0, status |-> NoStatus]
NoProtocol == [owner |-> 0, rev |-> 0, status |-> NoStatus]

\* The worker: what it is about to do, with its copies of store and protocol.
Worker == [op : {"idle", "create", "write"}, store : StoreObject,
           rev : 0..MaxRevision, status : Statuses]
IdleWorker == [op |-> "idle", store |-> NoStore, rev |-> 0, status |-> NoStatus]

-----------------------------------------------------------------------------
(* What the reconciler decides. *)

\* Mutant: a change of readiness within a revision is not taken over.
OnlyNewRevisions(s, p) == IF p.rev > s.rev THEN "write" ELSE "idle"

\* A status of an older revision is ignored, and so is one of the same
\* revision with as many ready replicas and ready partitions.
reconcileProtocolStatus(s, p) ==
    IF p.rev = 0 \/ s.rev > p.rev THEN "idle"
    ELSE IF /\ p.rev = s.rev
            /\ ReadyCount(p.status.replicas) = ReadyCount(s.status.replicas)
            /\ ReadyCount(p.status.partitions) = ReadyCount(s.status.partitions)
      THEN "idle"
    ELSE "write"

reconcileProtocol(s, p) ==
    IF s.uid = 0 THEN "idle"
    ELSE IF p.owner = 0 THEN "create"
    ELSE reconcileProtocolStatus(s, p)

\* Mutant: a store without replicas or partitions is ready.
ReadyWhenEmpty(s, rev, status) ==
    [s EXCEPT !.rev = rev, !.status = status,
              !.ready = /\ ReadyCount(status.replicas) = Len(status.replicas)
                        /\ ReadyCount(status.partitions) = Len(status.partitions)]

\* The store with the status of a protocol at revision rev.
Reported(s, rev, status) ==
    [s EXCEPT !.rev = rev, !.status = status,
              !.ready = AllReady(status.replicas) /\ AllReady(status.partitions)]

-----------------------------------------------------------------------------
Init ==
    /\ store = NoStore
    /\ protocol = NoProtocol
    /\ plugin \in BOOLEAN
    /\ storeCache = store
    /\ notice = FALSE
    /\ queue = FALSE
    /\ w = IdleWorker
    /\ stores = 0
    /\ changes = 0
    /\ faults = 0
    /\ lost = FALSE

-----------------------------------------------------------------------------
(* The environment: users, the sidecar StoreReconciler, the garbage        *)
(* collector and the protocol's own controller.                            *)

CreateStore ==
    /\ store.uid = 0
    /\ stores < MaxStores
    /\ store' = [NoStore EXCEPT !.uid = stores + 1]
    /\ stores' = stores + 1
    /\ UNCHANGED <<protocol, plugin, seen, work, changes, faults, lost>>

DeleteStore ==
    /\ store.uid # 0
    /\ ~store.deleting
    /\ store' = Deleted(store, NoStore)
    /\ UNCHANGED <<protocol, plugin, seen, work, history>>

\* The sidecar StoreReconciler adds its finalizer to a live store and removes
\* it from a deleted one (AgentController).
ClaimStore ==
    /\ store.uid # 0
    /\ IF store.deleting THEN store' = Released(store, NoStore)
       ELSE ~store.fin /\ store' = [store EXCEPT !.fin = TRUE]
    /\ UNCHANGED <<protocol, plugin, seen, work, history>>

RemoveProtocol ==
    /\ protocol.owner # 0
    /\ protocol' = NoProtocol
    /\ notice' = plugin
    /\ lost' = TRUE
    /\ UNCHANGED <<store, plugin, storeCache, work, stores, changes, faults>>

\* The garbage collector removes the protocol of a store that is gone.
GarbageCollect ==
    /\ protocol.owner # store.uid
    /\ RemoveProtocol

\* A new set of replicas or partitions gets a new revision; their readiness
\* may change within one.
UpdateProtocol ==
    /\ protocol.owner # 0
    /\ changes < MaxChanges
    /\ changes' = changes + 1
    /\ \E rev \in 1..MaxRevision, status \in Statuses :
          /\ rev \in {protocol.rev, protocol.rev + 1}
          /\ rev = protocol.rev =>
                /\ Len(status.replicas) = Len(protocol.status.replicas)
                /\ Len(status.partitions) = Len(protocol.status.partitions)
          /\ protocol' = [protocol EXCEPT !.rev = rev, !.status = status]
    /\ notice' = plugin
    /\ UNCHANGED <<store, plugin, storeCache, work, stores, faults, lost>>

-----------------------------------------------------------------------------
(* Events *)

SyncStore ==
    /\ storeCache # store
    /\ storeCache' = store
    /\ queue' = TRUE
    /\ UNCHANGED <<apiVars, notice, w, history>>

\* The plugin handler starts a watch of the protocol's kind, which first
\* delivers the objects that exist.
AddPlugin ==
    /\ ~plugin
    /\ plugin' = TRUE
    /\ queue' = (queue \/ protocol.owner # 0)
    /\ UNCHANGED <<store, protocol, seen, w, history>>

\* Mutant: a deletion of the protocol is not an event.
SyncExistingProtocol ==
    /\ notice
    /\ notice' = FALSE
    /\ queue' = (queue \/ protocol.owner # 0)
    /\ UNCHANGED <<apiVars, storeCache, w, history>>

\* The owner reference maps every protocol event to the store's name.
SyncProtocol ==
    /\ notice
    /\ notice' = FALSE
    /\ queue' = TRUE
    /\ UNCHANGED <<apiVars, storeCache, w, history>>

-----------------------------------------------------------------------------
(* The worker *)

Begin ==
    /\ w.op = "idle"
    /\ queue
    /\ queue' = FALSE
    /\ LET op == reconcileProtocol(storeCache, protocol) IN
         w' = IF op = "idle" THEN IdleWorker
              ELSE [op |-> op, store |-> storeCache,
                    rev |-> protocol.rev, status |-> protocol.status]
    /\ UNCHANGED <<apiVars, seen, history>>

\* A success requeues the request.  When the protocol has come to exist in
\* the meantime, the status of an empty object is looked at: nothing to do.
CreateProtocol ==
    /\ w.op = "create"
    /\ w' = IdleWorker
    /\ IF protocol.owner = 0
         THEN /\ protocol' = [NoProtocol EXCEPT !.owner = w.store.uid]
              /\ notice' = plugin
              /\ queue' = TRUE
         ELSE UNCHANGED <<protocol, notice, queue>>
    /\ UNCHANGED <<store, plugin, storeCache, history>>

\* Mutant: the write does not notice that the store has changed.
WriteUnchecked ==
    /\ w.op = "write"
    /\ w' = IdleWorker
    /\ IF store.uid # 0
         THEN /\ store' = Reported(w.store, w.rev, w.status)
              /\ queue' = TRUE
         ELSE UNCHANGED <<store, queue>>
    /\ UNCHANGED <<protocol, plugin, seen, history>>

\* The status is written unless the store has changed since it was read; a
\* store that is not found needs no status.
WriteStatus ==
    /\ w.op = "write"
    /\ w' = IdleWorker
    /\ \/ /\ store = w.store
          /\ store' = Reported(w.store, w.rev, w.status)
          /\ queue' = TRUE
       \/ /\ store.uid = 0
          /\ UNCHANGED <<store, queue>>
       \/ /\ store.uid # 0
          /\ store # w.store
          /\ queue' = TRUE
          /\ UNCHANGED store
    /\ UNCHANGED <<protocol, plugin, seen, history>>

Fault ==
    /\ w.op # "idle"
    /\ faults < MaxFaults
    /\ faults' = faults + 1
    /\ w' = IdleWorker
    /\ queue' = TRUE
    /\ UNCHANGED <<apiVars, seen, stores, changes, lost>>

Crash ==
    /\ faults < MaxFaults
    /\ faults' = faults + 1
    /\ storeCache' = store
    /\ notice' = FALSE
    /\ queue' = (store.uid # 0 \/ (plugin /\ protocol.owner # 0))
    /\ w' = IdleWorker
    /\ UNCHANGED <<apiVars, stores, changes, lost>>

-----------------------------------------------------------------------------
Environment ==
    \/ CreateStore
    \/ DeleteStore
    \/ ClaimStore
    \/ RemoveProtocol
    \/ UpdateProtocol

Reconcile == Begin \/ CreateProtocol \/ WriteStatus

Next ==
    \/ Environment
    \/ GarbageCollect
    \/ SyncStore
    \/ AddPlugin
    \/ SyncProtocol
    \/ Reconcile
    \/ Fault
    \/ Crash

Spec == Init /\ [][Next]_vars

\* Watches deliver, the worker runs, the garbage collector collects.  Nothing
\* is assumed of users or of the protocol's controller.
Fairness ==
    /\ WF_vars(GarbageCollect)
    /\ WF_vars(SyncStore)
    /\ WF_vars(SyncProtocol)
    /\ WF_vars(Reconcile)

FairSpec == Spec /\ Fairness

-----------------------------------------------------------------------------
(* Properties *)

StoreShape(s) ==
    /\ s \in StoreObject
    /\ s.uid = 0 => s = NoStore
    /\ s.deleting => s.fin
    /\ s.ready => AllReady(s.status.replicas) /\ AllReady(s.status.partitions)

(* Type correctness, with the shape of a store: a deleted store is held by its
   finalizer, and a ready one lists at least one replica and one partition, all
   of them ready (store.go:281-287). *)
TypeOK ==
    /\ StoreShape(store)
    /\ StoreShape(storeCache)
    /\ StoreShape(w.store)
    /\ protocol \in ProtocolObject
    /\ notice \in BOOLEAN
    /\ plugin \in BOOLEAN
    /\ queue \in BOOLEAN
    /\ w \in Worker
    /\ w.op # "idle" => w.store.uid # 0
    /\ w.op = "write" => w.rev # 0
    /\ stores \in 0..MaxStores
    /\ changes \in 0..MaxChanges
    /\ faults \in 0..MaxFaults
    /\ lost \in BOOLEAN

Lifecycle == INSTANCE StoreLifecycle
    WITH visible <- [uid |-> store.uid, deleting |-> store.deleting,
                     fin |-> store.fin, ready |-> store.ready, rev |-> store.rev],
         incarnations <- stores

(* The Store is what StoreLifecycle promises to the sidecar controllers: its
   revision never decreases while it exists, whatever the order in which stale
   copies, retries and protocol updates meet (store.go:137, 289). *)
StoreIsALifecycle == Lifecycle!Spec

\* The store reports what the protocol says of itself.
Agrees ==
    /\ store.rev = protocol.rev
    /\ store.ready = (/\ AllReady(protocol.status.replicas)
                      /\ AllReady(protocol.status.partitions))

(* Once the protocol's status has stopped changing and is watched, the store
   ends up at the protocol's revision and is ready exactly when all replicas
   and partitions are, although a change that leaves the number of ready
   members alone is skipped (store.go:276).  The protocol must never have been
   replaced: a new one starts again from the first revision, and is ignored up
   to the revision of the old one. *)
StoreAgrees ==
    <>[](store.uid # 0 /\ plugin /\ ~lost /\ protocol.rev # 0) => <>[]Agrees

(* Every store that stays gets a protocol object of its own, again and again
   if that is removed, and even when a protocol left over from an earlier
   store of the same name was in its place (store.go:86-125).  The plugin must
   have been there all along: a removal that nobody watches is not made up for
   when the plugin arrives. *)
StoreGetsProtocol ==
    \A u \in 1..MaxStores :
        []plugin /\ <>[](store.uid = u) => []<>(protocol.owner = u)
=============================================================================
