--------------------------- MODULE MCPodInjection ---------------------------
(***************************************************************************)
(* Two plugins: raft serves a deprecated version besides its own, gossip   *)
(* one version that has the same name as raft's.                           *)
(***************************************************************************)
EXTENDS PodInjection

MCRaft == [name |-> "raft.storage.atomix.io", protocol |-> "MultiRaft",
           drivers |-> <<"v2beta1">>, deprecatedProtocol |-> "Raft",
           deprecatedVersions |-> <<"v1">>]
MCGossip == [name |-> "gossip.storage.atomix.io", protocol |-> "Gossip",
             drivers |-> <<"v1">>, deprecatedProtocol |-> "none",
             deprecatedVersions |-> <<>>]
MCPlugins == {MCRaft, MCGossip}
MCUserPorts == {NoPort, BadPort, basePort + 10}
=============================================================================
