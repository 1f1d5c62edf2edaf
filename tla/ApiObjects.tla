----------------------------- MODULE ApiObjects -----------------------------
(***************************************************************************)
(* What the API server does to an object that the controllers delete or    *)
(* whose finalizer they drop (pkg/controller/util/k8s/finalizers.go).  An  *)
(* object is a record with fields deleting (the deletion timestamp) and    *)
(* fin (the one finalizer that the component's reconciler puts on it);     *)
(* absent is the object that is not found.                                 *)
(***************************************************************************)

\* Delete: a finalizer turns it into a deletion timestamp.
Deleted(object, absent) ==
    IF object.fin THEN [object EXCEPT !.deleting = TRUE] ELSE absent

\* An update that removes the last finalizer of a deleted object removes it.
Released(object, absent) ==
    IF object.deleting THEN absent ELSE [object EXCEPT !.fin = FALSE]
=============================================================================
