------------------------- MODULE PrimitiveLifecycle -------------------------
(***************************************************************************)
(* What the rest of the system may rely on about the Primitive object of a *)
(* name: every incarnation has a UID of its own and appears only when the  *)
(* one before is gone; it is claimed by the finalizer of the sidecar       *)
(* PrimitiveReconciler, is deleted once and for good, and goes away at     *)
(* once only when it was not claimed.                                      *)
(*                                                                         *)
(* TypedPrimitives, in which Primitives are created and collected, and     *)
(* ProxyController, in which they are claimed and swept, are each shown to *)
(* implement this specification.                                           *)
(***************************************************************************)
EXTENDS Integers, ApiObjects

VARIABLES
    visible,      \* the Primitive object that everyone sees
    incarnations  \* how many there have been

vars == <<visible, incarnations>>

Absent == [uid |-> 0, deleting |-> FALSE, fin |-> FALSE]

Init ==
    /\ visible = Absent
    /\ incarnations = 0

Create ==
    /\ visible = Absent
    /\ incarnations' = incarnations + 1
    /\ visible' = [Absent EXCEPT !.uid = incarnations + 1]

Claim ==
    /\ visible.uid # 0
    /\ ~visible.deleting
    /\ visible' = [visible EXCEPT !.fin = TRUE]
    /\ UNCHANGED incarnations

Delete ==
    /\ visible.uid # 0
    /\ ~visible.deleting
    /\ visible' = Deleted(visible, Absent)
    /\ UNCHANGED incarnations

Release ==
    /\ visible.deleting
    /\ visible' = Absent
    /\ UNCHANGED incarnations

Next == Create \/ Claim \/ Delete \/ Release

Spec == Init /\ [][Next]_vars
=============================================================================
