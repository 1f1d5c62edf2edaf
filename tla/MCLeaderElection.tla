-------------------------- MODULE MCLeaderElection --------------------------
(* Three controller pods: two replicas, a and b, and a pod that replaces a  *)
(* under its name.                                                          *)
EXTENDS LeaderElection

CONSTANTS a, b, aAgain, nameA, nameB

MCPods == {a, b, aAgain}
MCNameOf == [p \in MCPods |-> IF p = b THEN nameB ELSE nameA]
=============================================================================
