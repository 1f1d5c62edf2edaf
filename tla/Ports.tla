------------------------------- MODULE Ports -------------------------------
(***************************************************************************)
(* The next port, as the driver webhook finds it among the annotations of  *)
(* a pod (getNextPort in driver.go) and the PodReconciler among the agents *)
(* of a pod (getPort in pod.go): starting from a base port, every port in  *)
(* use that is above the result raises the result above it.                *)
(***************************************************************************)
EXTENDS Integers, SequencesExt

Raise(port, used) == IF used > port THEN used + 1 ELSE port

NextPort(base, order) == FoldLeft(Raise, base, order)

\* Both visit the ports in use in an order of chance: every result that some
\* order leads to.  A port that equals the result does not raise it, so the
\* result may be a port in use.
NextPorts(base, inUse) == {NextPort(base, order) : order \in SetToSeqs(inUse)}
=============================================================================
