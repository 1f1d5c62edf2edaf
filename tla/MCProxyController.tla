-------------------------- MODULE MCProxyController --------------------------
(***************************************************************************)
(* ProxyController with bounds that depend on each other, for the run of   *)
(* its safety properties.  Either a primitive's proxy is replaced, because *)
(* permissions change, in the midst of a restarted broker and a fault; or  *)
(* a proxy meets two containers and two primitives of one name.  A state   *)
(* outside these bounds is not continued.                                  *)
(***************************************************************************)
EXTENDS ProxyController

Replaced == primitives <= 1 /\ container <= 1

Reused ==
    /\ made <= 1
    /\ dw.op = "create" => made = 0
    /\ grants = 0 /\ brokerRestarts = 0 /\ faults = 0

Bounds == Replaced \/ Reused
=============================================================================
