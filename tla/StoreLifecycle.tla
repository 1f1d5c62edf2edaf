--------------------------- MODULE StoreLifecycle ---------------------------
(***************************************************************************)
(* What the rest of the system may rely on about a Store object: it is     *)
(* created with no status, claimed by the sidecar StoreReconciler's        *)
(* finalizer, and removed only by a deletion that the finalizer may hold   *)
(* back; while it exists its protocol revision never decreases, and it is  *)
(* never ready without one.                                                *)
(*                                                                         *)
(* AgentController and StoreController both keep a Store; each is shown to *)
(* implement this specification, AgentController without the module that   *)
(* writes the status and StoreController without the one that claims it.   *)
(***************************************************************************)
EXTENDS Integers, ApiObjects

CONSTANTS
    MaxStores,    \* incarnations of the store name
    MaxRevision   \* protocol revisions the store ever reports

VARIABLES
    visible,      \* the Store object that everyone sees
    incarnations  \* how many there have been

vars == <<visible, incarnations>>

Absent == [uid |-> 0, deleting |-> FALSE, fin |-> FALSE,
           ready |-> FALSE, rev |-> 0]

Init ==
    /\ visible = Absent
    /\ incarnations = 0

Create ==
    /\ visible = Absent
    /\ incarnations < MaxStores
    /\ incarnations' = incarnations + 1
    /\ visible' = [Absent EXCEPT !.uid = incarnations + 1]

Claim ==
    /\ visible.uid # 0
    /\ ~visible.deleting
    /\ visible' = [visible EXCEPT !.fin = TRUE]
    /\ UNCHANGED incarnations

Delete ==
    /\ visible.uid # 0
    /\ ~visible.deleting
    /\ visible' = Deleted(visible, Absent)
    /\ UNCHANGED incarnations

Release ==
    /\ visible.uid # 0
    /\ visible.deleting
    /\ visible' = Absent
    /\ UNCHANGED incarnations

Report ==
    /\ visible.uid # 0
    /\ \E ready \in BOOLEAN, rev \in 1..MaxRevision :
          /\ rev >= visible.rev
          /\ visible' = [visible EXCEPT !.ready = ready, !.rev = rev]
    /\ UNCHANGED incarnations

Next == Create \/ Claim \/ Delete \/ Release \/ Report

Spec == Init /\ [][Next]_vars
=============================================================================
