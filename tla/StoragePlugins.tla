--------------------------- MODULE StoragePlugins ---------------------------
(***************************************************************************)
(* Which driver serves the protocol of a store.  Three handlers search the *)
(* StoragePlugins for it: the driver webhook (isDriver in driver.go), the  *)
(* PodReconciler (isProtocolSupported in pod.go) and the AgentReconciler   *)
(* (getDriverContainerAndPort in agent.go).                                *)
(*                                                                         *)
(* A plugin is a record [name, protocol, drivers, deprecatedProtocol,      *)
(* deprecatedVersions]; its drivers and deprecated versions are sequences  *)
(* of versions.  A driver is a record [plugin, version].  A store's        *)
(* protocol is a record [kind, version], where kind stands for group and   *)
(* kind.  No two plugins have the same name or serve the same kind.        *)
(***************************************************************************)
EXTENDS SequencesExt

\* The versions of a plugin in the order in which drivers are injected.
Versions(plugin) == plugin.drivers \o plugin.deprecatedVersions

DriversOf(plugin) ==
    [i \in DOMAIN Versions(plugin) |->
        [plugin |-> plugin.name, version |-> Versions(plugin)[i]]]

isDriver(plugins, d) ==
    \E plugin \in plugins : d \in ToSet(DriversOf(plugin))

\* A plugin that serves the kind, but not the version, ends the search: the
\* deprecated versions count for the deprecated kind only.
Serves(plugin, protocol) ==
    \/ /\ plugin.protocol = protocol.kind
       /\ protocol.version \in ToSet(plugin.drivers)
    \/ /\ plugin.protocol # protocol.kind
       /\ plugin.deprecatedProtocol = protocol.kind
       /\ protocol.version \in ToSet(plugin.deprecatedVersions)

DriversFor(plugins, protocol) ==
    {[plugin |-> plugin.name, version |-> protocol.version] :
        plugin \in {g \in plugins : Serves(g, protocol)}}

\* Does the pod, whose annotations call the drivers in injected so, have the
\* driver of the protocol?
isProtocolSupported(plugins, injected, protocol) ==
    \E d \in DriversFor(plugins, protocol) : d \in injected

\* The driver whose container and port annotations the pod has; an error, the
\* empty set, when there is none.  NoPort and BadPort are no port numbers.
getDriverContainerAndPort(plugins, pod, protocol) ==
    {d \in DriversFor(plugins, protocol) :
        d \in pod.container /\ pod.port[d] > 0}
=============================================================================
