--------------------------- MODULE LeaderElection ---------------------------
(***************************************************************************)
(* leader.Become (pkg/controller/util/leader/leader.go) as main            *)
(* (cmd/atomix-controller/main.go) calls it: each controller pod looks for *)
(* a ConfigMap that serves as the lock, creates it when it can, and goes   *)
(* on to run the controllers when Become returns - with or without an      *)
(* error, which main discards.                                             *)
(*                                                                         *)
(* Pods are pod objects (UIDs); several of them may bear one name, one     *)
(* after the other, as the replicas of a StatefulSet do.  A container of a *)
(* pod may be restarted in place.  The lock is the ConfigMap whose name is *)
(* the environment variable POD_NAME, which the deployment sets to the     *)
(* pod's own metadata.name; the API server holds one per name.             *)
(***************************************************************************)
CONSTANTS
    Pods,     \* the controller pods, by UID
    NameOf,   \* the name of each pod, the value of POD_NAME in it
    NoOwner,  \* the lock that does not exist
    MayFail   \* do API requests of Become fail?

Names == {NameOf[p] : p \in Pods}

ASSUME PodsAssumption ==
    /\ NoOwner \notin Pods
    /\ MayFail \in BOOLEAN

VARIABLES
    phase,   \* where each pod's process is in Become and main
    lock,    \* by name: the pod the ConfigMap's owner reference names by UID
    how      \* how the last Become of a pod returned

vars == <<phase, lock, how>>

Phases == {"absent", "started", "checking", "creating", "running", "gone"}
Alive(p) == phase[p] \notin {"absent", "gone"}

(* The process, its lock and how it came to run are what they may be. *)
TypeOK ==
    /\ phase \in [Pods -> Phases]
    /\ lock \in [Names -> Pods \cup {NoOwner}]
    /\ how \in [Pods -> {"none", "created", "resumed", "failed"}]

Init ==
    /\ phase = [p \in Pods |-> "absent"]
    /\ lock = [n \in Names |-> NoOwner]
    /\ how = [p \in Pods |-> "none"]

-----------------------------------------------------------------------------
(* Kubernetes *)

\* A pod is created under a name that no living pod bears.
StartPod(p) ==
    /\ phase[p] = "absent"
    /\ \A q \in Pods : Alive(q) => NameOf[q] # NameOf[p]
    /\ phase' = [phase EXCEPT ![p] = "started"]
    /\ UNCHANGED <<lock, how>>

RestartContainer(p) ==
    /\ Alive(p)
    /\ phase' = [phase EXCEPT ![p] = "started"]
    /\ how' = [how EXCEPT ![p] = "none"]
    /\ UNCHANGED lock

DeletePod(p) ==
    /\ Alive(p)
    /\ phase' = [phase EXCEPT ![p] = "gone"]
    /\ UNCHANGED <<lock, how>>

\* The garbage collector deletes a ConfigMap whose owner no longer exists.
GarbageCollect(n) ==
    /\ lock[n] # NoOwner
    /\ ~Alive(lock[n])
    /\ lock' = [lock EXCEPT ![n] = NoOwner]
    /\ UNCHANGED <<phase, how>>

-----------------------------------------------------------------------------
(* Become *)

Returns(p, result) ==
    /\ phase' = [phase EXCEPT ![p] = "running"]
    /\ how' = [how EXCEPT ![p] = result]

\* myOwnerRef reads the pod.
FindOwner(p) ==
    /\ phase[p] = "started"
    /\ phase' = [phase EXCEPT ![p] = "checking"]
    /\ UNCHANGED <<lock, how>>

\* Mutant: a restarted pod does not look for the lock it holds.
SkipCheck(p) ==
    /\ phase[p] = "checking"
    /\ phase' = [phase EXCEPT ![p] = "creating"]
    /\ UNCHANGED <<lock, how>>

\* A lock whose owner has this pod's NAME is taken for this pod's.
CheckLock(p) ==
    /\ phase[p] = "checking"
    /\ IF lock[NameOf[p]] # NoOwner /\ NameOf[lock[NameOf[p]]] = NameOf[p]
         THEN Returns(p, "resumed")
         ELSE /\ phase' = [phase EXCEPT ![p] = "creating"]
              /\ UNCHANGED how
    /\ UNCHANGED lock

\* Mutant: the owner reference names the pod instead of identifying it.
CreateOwnedByName(p) ==
    /\ phase[p] = "creating"
    /\ lock[NameOf[p]] = NoOwner
    /\ lock' = [lock EXCEPT ![NameOf[p]] = NameOf[p]]
    /\ Returns(p, "created")

\* While the ConfigMap exists the pod waits and tries again.
CreateLock(p) ==
    /\ phase[p] = "creating"
    /\ lock[NameOf[p]] = NoOwner
    /\ lock' = [lock EXCEPT ![NameOf[p]] = p]
    /\ Returns(p, "created")

\* A request fails otherwise; main ignores the error and goes on.
BecomeFails(p) ==
    /\ MayFail
    /\ phase[p] \in {"started", "checking", "creating"}
    /\ Returns(p, "failed")
    /\ UNCHANGED lock

Become(p) == FindOwner(p) \/ CheckLock(p) \/ CreateLock(p)

Next ==
    \/ \E p \in Pods :
          StartPod(p) \/ RestartContainer(p) \/ DeletePod(p) \/ Become(p)
            \/ BecomeFails(p)
    \/ \E n \in Names : GarbageCollect(n)

Spec == Init /\ [][Next]_vars

\* A pod's process runs, and the garbage collector collects.
Fairness ==
    /\ \A p \in Pods : WF_vars(Become(p))
    /\ \A n \in Names : WF_vars(GarbageCollect(n))

FairSpec == Spec /\ Fairness

-----------------------------------------------------------------------------
(* Properties *)

(* Nobody ever finds the lock taken: a pod that gets as far as creating its
   ConfigMap can create it, whatever restarts, deletions and failed requests
   came before.  The wait loop (leader.go:107-128) is never entered, because
   each pod's lock has the pod's own name: the lock excludes no other pod. *)
NeverContended ==
    \A p \in Pods : phase[p] = "creating" => lock[NameOf[p]] = NoOwner

(* No pod stays in Become: a restarted container finds the lock its pod holds
   instead of waiting for it forever (leader.go:66-84), and the lock of a
   deleted pod of the same name does not block its successor. *)
BecomeReturns ==
    \A p \in Pods, ph \in {"started", "checking", "creating"} :
        ~<>[](phase[p] = ph)

(* leader.go:32-34: "Only one can exist at a time with the same name, so the
   pod that successfully creates the ConfigMap is the leader": no two running
   pods have both created it. *)
OneLeader ==
    \A p, q \in Pods :
        /\ phase[p] = "running" /\ how[p] = "created"
        /\ phase[q] = "running" /\ how[q] = "created"
        => p = q
=============================================================================
