---------------------------- MODULE Permissions ----------------------------
(***************************************************************************)
(* What a pod may do with a primitive: getPermissions in                   *)
(* pkg/controller/sidecar/v2beta1/pod.go.                                  *)
(*                                                                         *)
(* A cluster is a record [accounts, bindings, roles]: the service accounts *)
(* of the pod's namespace, the RoleBindings of all namespaces, and the     *)
(* rules of each role by its key.  A binding is [namespace, accounts,      *)
(* roleKind, role], where accounts are the names of its service account    *)
(* subjects; a rule is [apiGroups, resources, resourceNames, verbs]; a     *)
(* primitive is described by [group, kind, name], the type of its owner    *)
(* and its own name.                                                       *)
(***************************************************************************)

Denied    == [error |-> FALSE, read |-> FALSE, write |-> FALSE]
Permitted == [error |-> FALSE, read |-> TRUE, write |-> TRUE]
Failed    == [error |-> TRUE, read |-> FALSE, write |-> FALSE]

isPrimitiveGroupRule(rule, m) == {"*", m.group} \cap rule.apiGroups # {}
isPrimitiveTypeRule(rule, m)  == {"*", m.kind} \cap rule.resources # {}
isPrimitiveRule(rule, m) ==
    rule.resourceNames = {} \/ m.name \in rule.resourceNames
isPrimitiveReadRule(rule)  == {"*", "read"} \cap rule.verbs # {}
isPrimitiveWriteRule(rule) == {"*", "write"} \cap rule.verbs # {}

Applies(rule, m) ==
    /\ isPrimitiveGroupRule(rule, m)
    /\ isPrimitiveTypeRule(rule, m)
    /\ isPrimitiveRule(rule, m)

\* Where the role of a binding is looked up.
RoleKey(b) ==
    IF b.roleKind = "ClusterRole" THEN <<"ClusterRole", "", b.role>>
    ELSE <<"Role", b.namespace, b.role>>

\* What the bindings give to an account; one binding whose role is not found
\* makes the whole evaluation fail.
BoundPermissions(cluster, bindings, account, m) ==
    LET bound == {b \in bindings : account \in b.accounts}
        rules == UNION {{r \in cluster.roles[RoleKey(b)] : Applies(r, m)} : b \in bound}
    IN IF \E b \in bound : RoleKey(b) \notin DOMAIN cluster.roles THEN Failed
       ELSE [error |-> FALSE,
             read  |-> \E r \in rules : isPrimitiveReadRule(r),
             write |-> \E r \in rules : isPrimitiveWriteRule(r)]

getNamespaceScopedPermissions(cluster, pod, m) ==
    BoundPermissions(cluster, {b \in cluster.bindings : b.namespace = pod.namespace},
                     pod.account, m)

\* The RoleBindings of every namespace are listed here; ClusterRoleBindings are
\* not.
getClusterScopedPermissions(cluster, pod, m) ==
    BoundPermissions(cluster, cluster.bindings, pod.account, m)

getPermissions(cluster, pod, m) ==
    LET inNamespace == getNamespaceScopedPermissions(cluster, pod, m)
        inCluster   == getClusterScopedPermissions(cluster, pod, m)
    IN IF pod.account = "" THEN Permitted
       ELSE IF pod.account \notin cluster.accounts THEN Denied
       ELSE IF inNamespace.error \/ inCluster.error THEN Failed
       ELSE [error |-> FALSE,
             read  |-> inNamespace.read \/ inCluster.read,
             write |-> inNamespace.write \/ inCluster.write]
=============================================================================
