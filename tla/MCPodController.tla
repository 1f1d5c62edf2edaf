-------------------------- MODULE MCPodController --------------------------
(***************************************************************************)
(* A pod with a profile and a service account, and the worlds it may find  *)
(* itself in: everything is open to it; primitive 1 may only be read; a    *)
(* role that is bound is missing; or the profile selects primitive 1 only  *)
(* and the plugin is not installed.                                        *)
(***************************************************************************)
EXTENDS PodController

MCDescription ==
    [p \in Primitives |-> [group |-> "primitives.atomix.io", kind |-> "Counter",
                           name |-> p]]
MCRaft == [name |-> "raft.storage.atomix.io", protocol |-> "MultiRaft",
           drivers |-> <<"v2beta1">>, deprecatedProtocol |-> "Raft",
           deprecatedVersions |-> <<"v1">>]
MCProtocol == [kind |-> "MultiRaft", version |-> "v2beta1"]
MCPod == [namespace |-> "apps", account |-> "app", profiled |-> TRUE,
          injected |-> {[plugin |-> "raft.storage.atomix.io", version |-> "v2beta1"]}]

MCRule(names, verbs) == [apiGroups |-> {"primitives.atomix.io"},
                         resources |-> {"Counter"}, resourceNames |-> names,
                         verbs |-> verbs]
MCKey == <<"Role", "apps", "counters">>
MCElsewhere == <<"ClusterRole", "", "writers">>

\* A role of the pod's own namespace, and a cluster role that is bound in
\* another namespace.
MCCluster(counters, writers) ==
    [accounts |-> {"app"},
     bindings |-> {[namespace |-> "apps", accounts |-> {"app"}, roleKind |-> "Role",
                    role |-> "counters"],
                   [namespace |-> "other", accounts |-> {"app"},
                    roleKind |-> "ClusterRole", role |-> "writers"]},
     roles |-> [k \in {MCKey, MCElsewhere} |-> IF k = MCKey THEN counters ELSE writers]]

MCOpen == [profile |-> [found |-> TRUE, selects |-> Primitives],
           plugins |-> {MCRaft},
           cluster |-> MCCluster({MCRule({}, {"read", "write"})}, {})]
MCReadOnly ==
    [MCOpen EXCEPT !.cluster = MCCluster({MCRule({}, {"read"})},
                                         {MCRule(Primitives \ {1}, {"*"})})]
MCDangling == [MCOpen EXCEPT !.cluster.roles = [k \in {} |-> {}]]
MCClosed == [MCOpen EXCEPT !.profile.selects = {1}, !.plugins = {}]

MCWorlds == [open |-> MCOpen, readOnly |-> MCReadOnly, dangling |-> MCDangling,
             closed |-> MCClosed]
=============================================================================
