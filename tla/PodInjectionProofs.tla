-------------------------- MODULE PodInjectionProofs --------------------------
(***************************************************************************)
(* The webhooks inject nothing twice, what counts as supported is served,  *)
(* what is asked for is injected, and a pod passes them a second time as   *)
(* it is, for every set of plugins and every manifest.                     *)
(*                                                                         *)
(* First what one visit of the driver webhook makes of a pod, along its    *)
(* two loops; then two inductive invariants: the pod is sound, whatever    *)
(* happens to it, and while plugins and profile stay the same its status   *)
(* annotations say the truth.                                              *)
(***************************************************************************)
EXTENDS PodInjection, PortsProofs

Containers == [driver : Drivers \cup {BrokerContainer.driver}, port : Nat]

Pods == [inject : [Domains -> InjectValues], status : SUBSET (Domains \cup {"profile"}),
         injected : SUBSET Drivers, container : SUBSET Drivers, port : [Drivers -> Int],
         appPort : UserPorts, profile : BOOLEAN, containers : Seq(Containers), gates : Nat]

\* Containers and annotations of a pod fit together.
Sound(p) ==
    /\ p \in Pods
    /\ p.container = p.injected
    /\ \A d \in Drivers : p.port[d] \in Nat \cup {BadPort}
    /\ \A i, j \in DOMAIN p.containers :
          p.containers[i].driver = p.containers[j].driver => i = j
    /\ \A i \in DOMAIN p.containers :
          \/ p.containers[i] = BrokerContainer /\ "broker" \in p.status
          \/ p.containers[i].driver \in p.injected /\ p.containers[i].port # NoPort
    /\ \A d \in p.injected : /\ p.port[d] > 0
                             /\ \E i \in DOMAIN p.containers :
                                   p.containers[i] = DriverContainer(d, p.port[d])
    /\ p.gates <= 1
    /\ "broker" \notin p.status => p.gates = 0

\* The drivers a domain stands for are injected.
Has(p, dom) == ToSet(InjectionOrder(dom)) \subseteq p.injected

\* q is what the driver webhook may have made of p so far.
Driven(p, q) ==
    /\ Sound(q)
    /\ q.inject = p.inject
    /\ q.profile = p.profile
    /\ q.appPort = p.appPort
    /\ p.status \subseteq q.status
    /\ q.status \subseteq p.status \cup Domains
    /\ \A dom \in q.status \ p.status : Has(q, dom)
    /\ p.injected \subseteq q.injected
    /\ \A d \in q.injected : \/ d \in p.injected
                             \/ \E dom \in Domains : /\ Asks(p, dom)
                                                     /\ d \in ToSet(InjectionOrder(dom))
    /\ \A d \in Drivers : \/ q.port[d] = p.port[d]
                          \/ p.port[d] = NoPort /\ q.port[d] > 0

-----------------------------------------------------------------------------
(* Inductive invariants                                                    *)

SoundInv ==
    /\ Sound(pod)
    /\ phase \in Webhooks \cup {"admitted", "refused"}
    /\ plugins \subseteq Plugins
    /\ profile \in [found : BOOLEAN, drivers : SUBSET PluginNames]
    /\ missed \subseteq Webhooks
    /\ missedBefore \subseteq Webhooks
    /\ changed \in BOOLEAN
    /\ submissions \in 1..MaxSubmissions
    /\ changes \in 0..MaxChanges

BrokerDone  == pod.inject["broker"] \in ParsesTrue => "broker" \in pod.status
ProfileDone == pod.profile => "profile" \in pod.status
DriversDone ==
    \A dom \in Domains : pod.inject[dom] = "true" => Has(pod, dom)

\* What a status annotation says has been done.
StatusMeans ==
    /\ \A dom \in Domains : dom \in pod.status => Has(pod, dom)
    /\ "profile" \in pod.status =>
          \A dom \in profile.drivers : pod.inject[dom] # "none"

\* A webhook that was reached has done its work.
ReachedInv ==
    /\ phase # "broker" /\ "broker" \notin missed => BrokerDone
    /\ phase \in {"drivers", "admitted"} /\ "profile" \notin missed => ProfileDone
    /\ ~changed => /\ StatusMeans
                   /\ phase = "admitted" /\ "drivers" \notin missed => DriversDone
                   /\ submissions > 1 /\ missedBefore = {} =>
                         BrokerDone /\ ProfileDone /\ DriversDone

InjectionInv == SoundInv /\ ReachedInv

-----------------------------------------------------------------------------
(* Plugins and drivers                                                     *)

LEMMA DriversOfAPlugin ==
    ASSUME NEW g \in Plugins
    PROVE  /\ \E n \in Nat : DOMAIN DriversOf(g) = 1..n
           /\ \A i \in DOMAIN DriversOf(g) : DriversOf(g)[i].plugin = g.name
           /\ ToSet(DriversOf(g)) \subseteq Drivers
           /\ IsFiniteSet(ToSet(DriversOf(g)))
<1>1. g.drivers \in Seq(ToSet(g.drivers))
      /\ g.deprecatedVersions \in Seq(ToSet(g.deprecatedVersions))
  BY PluginsAssumption
<1>2. PICK n \in Nat : DOMAIN Versions(g) = 1..n
  <2> DEFINE V == ToSet(g.drivers) \cup ToSet(g.deprecatedVersions)
             a == g.drivers
             b == g.deprecatedVersions
  <2>1. a \in Seq(V) /\ b \in Seq(V)
    BY <1>1
  <2> HIDE DEF V, a, b
  <2>2. a \o b \in Seq(V)
    BY <2>1
  <2>3. DOMAIN (a \o b) = 1..Len(a \o b) /\ Len(a \o b) \in Nat
    BY <2>2
  <2>4. Versions(g) = a \o b
    BY DEF Versions, a, b
  <2> QED BY <2>3, <2>4
<1>3. DOMAIN DriversOf(g) = 1..n
  BY <1>2 DEF DriversOf
<1>4. \A i \in DOMAIN DriversOf(g) : DriversOf(g)[i].plugin = g.name
  BY DEF DriversOf
<1>5. ToSet(DriversOf(g)) \subseteq Drivers
  BY DEF Drivers
<1>6. IsFiniteSet(ToSet(DriversOf(g)))
  <2>1. IsFiniteSet(1..n)
    BY FS_Interval
  <2>2. ToSet(DriversOf(g)) = {DriversOf(g)[i] : i \in 1..n}
    BY <1>3 DEF ToSet
  <2> DEFINE f == [i \in 1..n |-> DriversOf(g)[i]]
  <2>3. f \in Surjection(1..n, ToSet(DriversOf(g)))
    BY <2>2 DEF Surjection
  <2> QED BY <2>1, <2>3, FS_Surjection
<1> QED BY <1>3, <1>4, <1>5, <1>6

LEMMA DriversAreFinite == IsFiniteSet(Drivers)
<1> DEFINE Sets == {ToSet(DriversOf(g)) : g \in Plugins}
<1>1. IsFiniteSet(Sets)
  <2> DEFINE f == [g \in Plugins |-> ToSet(DriversOf(g))]
  <2>1. f \in Surjection(Plugins, Sets)
    BY DEF Surjection
  <2>2. IsFiniteSet(Plugins)
    BY PluginsAssumption
  <2> HIDE DEF f, Sets
  <2> QED BY <2>1, <2>2, FS_Surjection
<1>2. \A T \in Sets : IsFiniteSet(T)
  BY DriversOfAPlugin
<1> QED BY <1>1, <1>2, FS_UNION DEF Drivers

(* The broker is none of the drivers, and the profile no domain. *)
LEMMA Names ==
    /\ BrokerContainer.driver \notin Drivers
    /\ "profile" \notin Domains
    /\ "broker" \notin PluginNames
    /\ PluginNames \subseteq Domains
    /\ "broker" \in Domains
<1>1. "profile" \notin PluginNames /\ "broker" \notin PluginNames
  BY PluginsAssumption DEF PluginNames
<1>2. ASSUME BrokerContainer.driver \in Drivers
      PROVE  FALSE
  <2>1. PICK g \in Plugins : BrokerContainer.driver \in ToSet(DriversOf(g))
    BY <1>2 DEF Drivers
  <2>2. PICK i \in DOMAIN DriversOf(g) : BrokerContainer.driver = DriversOf(g)[i]
    BY <2>1 DEF ToSet
  <2>3. BrokerContainer.driver.plugin = g.name
    BY <2>2, DriversOfAPlugin
  <2>4. BrokerContainer.driver.plugin = "broker"
    BY DEF BrokerContainer, DriverContainer
  <2> QED BY <2>3, <2>4, PluginsAssumption
<1> QED BY <1>1, <1>2 DEF Domains

LEMMA OrderOfADomain ==
    ASSUME plugins \subseteq Plugins, NEW dom
    PROVE  /\ \E n \in Nat : InjectionOrder(dom) \in [1..n -> Drivers]
           /\ ToSet(InjectionOrder(dom)) \subseteq Drivers
           /\ \A g \in plugins : g.name = dom => InjectionOrder(dom) = DriversOf(g)
           /\ dom \notin PluginNames => InjectionOrder(dom) = <<>>
<1>1. CASE \E g \in plugins : g.name = dom
  <2>1. PICK g \in plugins : g.name = dom
    BY <1>1
  <2>2. \A h \in plugins : h.name = dom => h = g
    BY <2>1, PluginsAssumption
  <2>3. (CHOOSE h \in plugins : h.name = dom) = g
    BY <2>1, <2>2
  <2>4. InjectionOrder(dom) = DriversOf(g)
    BY <1>1, <2>3 DEF InjectionOrder
  <2>5. PICK n \in Nat : DOMAIN DriversOf(g) = 1..n
    BY DriversOfAPlugin
  <2>6. ToSet(DriversOf(g)) \subseteq Drivers
    BY DriversOfAPlugin
  <2>7. DriversOf(g) \in [1..n -> Drivers]
    <3>1. DriversOf(g) = [i \in DOMAIN DriversOf(g) |-> DriversOf(g)[i]]
      BY DEF DriversOf
    <3>2. \A i \in DOMAIN DriversOf(g) : DriversOf(g)[i] \in Drivers
      BY <2>6 DEF ToSet
    <3> HIDE DEF DriversOf
    <3> QED BY <2>5, <3>1, <3>2
  <2>8. dom \in PluginNames
    BY <2>1 DEF PluginNames
  <2> QED BY <2>2, <2>4, <2>6, <2>7, <2>8
<1>2. CASE ~\E g \in plugins : g.name = dom
  <2>1. InjectionOrder(dom) = <<>>
    BY <1>2 DEF InjectionOrder
  <2>2. ToSet(InjectionOrder(dom)) = {}
    BY <2>1 DEF ToSet
  <2>3. InjectionOrder(dom) \in [1..0 -> Drivers]
    BY <2>1
  <2> QED BY <1>2, <2>1, <2>2, <2>3
<1> QED BY <1>1, <1>2

-----------------------------------------------------------------------------
(* What the webhooks make of a sound pod                                   *)

LEMMA PodFields ==
    ASSUME NEW p, p \in Pods
    PROVE  /\ p.inject \in [Domains -> InjectValues]
           /\ p.status \subseteq Domains \cup {"profile"}
           /\ p.injected \subseteq Drivers
           /\ p.container \subseteq Drivers
           /\ p.port \in [Drivers -> Int]
           /\ p.appPort \in UserPorts
           /\ p.profile \in BOOLEAN
           /\ p.containers \in Seq(Containers)
           /\ Len(p.containers) \in Nat
           /\ DOMAIN p.containers = 1..Len(p.containers)
           /\ p.gates \in Nat
  BY DEF Pods

LEMMA BrokerIsSound ==
    ASSUME NEW p, Sound(p), "broker" \notin p.status
    PROVE  LET q == WithBroker(p) IN
           /\ Sound(q)
           /\ q.status = p.status \cup {"broker"}
           /\ q.inject = p.inject /\ q.profile = p.profile /\ q.injected = p.injected
<1> DEFINE q == WithBroker(p)
           n == Len(p.containers)
<1>1. p \in Pods
  BY DEF Sound
<1>2. /\ q.status = p.status \cup {"broker"} /\ q.gates = p.gates + 1
      /\ q.containers = Append(p.containers, BrokerContainer)
      /\ q.inject = p.inject /\ q.profile = p.profile /\ q.appPort = p.appPort
      /\ q.injected = p.injected /\ q.container = p.container /\ q.port = p.port
      /\ q = [p EXCEPT !.status = q.status, !.gates = q.gates, !.containers = q.containers]
  BY <1>1 DEF WithBroker, Pods
<1> HIDE DEF q
<1>3. p.gates = 0
  BY DEF Sound
<1>4. BrokerContainer \in Containers /\ BrokerContainer.driver \notin Drivers
  BY Names DEF BrokerContainer, DriverContainer, Containers, NoPort
<1>5. /\ q.containers \in Seq(Containers) /\ n \in Nat
      /\ DOMAIN q.containers = 1..n+1
      /\ \A i \in 1..n : q.containers[i] = p.containers[i]
      /\ q.containers[n + 1] = BrokerContainer
      /\ DOMAIN p.containers = 1..n
  BY <1>1, <1>2, <1>4, PodFields
<1>6. q \in Pods
  <2>1. q.status \in SUBSET (Domains \cup {"profile"})
    BY <1>1, <1>2, PodFields, Names
  <2>2. q.gates \in Nat
    BY <1>2, <1>3
  <2>3. q.containers \in Seq(Containers)
    BY <1>5
  <2> QED BY <1>1, <1>2, <2>1, <2>2, <2>3 DEF Pods
<1>7. \A i \in 1..n : p.containers[i].driver # BrokerContainer.driver
  <2> TAKE i \in 1..n
  <2>1. p.containers[i].driver \in p.injected
    BY <1>5 DEF Sound
  <2> QED BY <1>1, <1>4, <2>1, PodFields
<1>8. \A i, j \in DOMAIN q.containers :
         q.containers[i].driver = q.containers[j].driver => i = j
  <2>1. \A i, j \in 1..n :
           p.containers[i].driver = p.containers[j].driver => i = j
    BY <1>5 DEF Sound
  <2>2. \A i \in 1..n+1 : i \in 1..n \/ i = n + 1
    BY <1>5
  <2> QED BY <1>5, <1>7, <2>1, <2>2
<1>9. \A i \in DOMAIN q.containers :
         \/ q.containers[i] = BrokerContainer /\ "broker" \in q.status
         \/ q.containers[i].driver \in q.injected /\ q.containers[i].port # NoPort
  <2>1. \A i \in 1..n+1 : i \in 1..n \/ i = n + 1
    BY <1>5
  <2> QED BY <1>2, <1>5, <2>1 DEF Sound
<1>10. \A d \in q.injected : /\ q.port[d] > 0
                             /\ \E i \in DOMAIN q.containers :
                                   q.containers[i] = DriverContainer(d, q.port[d])
  BY <1>2, <1>5 DEF Sound
<1>11. Sound(q)
  BY <1>2, <1>3, <1>6, <1>8, <1>9, <1>10 DEF Sound
<1> QED BY <1>2, <1>11 DEF q

LEMMA ProfileIsSound ==
    ASSUME NEW p, Sound(p)
    PROVE  LET q == WithProfile(p) IN
           /\ Sound(q)
           /\ q.status = p.status \cup {"profile"}
           /\ q.inject = [dom \in Domains |-> IF p.inject[dom] = "none" /\ dom \in profile.drivers
                                              THEN "true" ELSE p.inject[dom]]
           /\ q.profile = p.profile /\ q.injected = p.injected
<1> DEFINE q == WithProfile(p)
<1>1. p \in Pods
  BY DEF Sound
<1>2. /\ q.status = p.status \cup {"profile"}
      /\ q.inject = [dom \in Domains |-> IF p.inject[dom] = "none" /\ dom \in profile.drivers
                                         THEN "true" ELSE p.inject[dom]]
      /\ q.containers = p.containers /\ q.gates = p.gates
      /\ q.profile = p.profile /\ q.appPort = p.appPort
      /\ q.injected = p.injected /\ q.container = p.container /\ q.port = p.port
      /\ q = [p EXCEPT !.inject = q.inject, !.status = q.status]
  BY <1>1 DEF WithProfile, Pods
<1> HIDE DEF q
<1>3. q.inject \in [Domains -> InjectValues]
  <2>1. p.inject \in [Domains -> InjectValues] /\ "true" \in InjectValues
    BY <1>1, PodFields DEF InjectValues
  <2>2. \A dom \in Domains : q.inject[dom] \in InjectValues
    BY <1>2, <2>1
  <2> QED BY <1>2, <2>2
<1>4. q \in Pods
  <2>1. q.status \in SUBSET (Domains \cup {"profile"})
    BY <1>1, <1>2, PodFields
  <2> QED BY <1>1, <1>2, <1>3, <2>1 DEF Pods
<1>5. "broker" \in q.status <=> "broker" \in p.status
  BY <1>2
<1>6. Sound(q)
  <2>1. \A i \in DOMAIN q.containers :
           \/ q.containers[i] = BrokerContainer /\ "broker" \in q.status
           \/ q.containers[i].driver \in q.injected /\ q.containers[i].port # NoPort
    BY <1>2, <1>5 DEF Sound
  <2>2. \A d \in q.injected : /\ q.port[d] > 0
                              /\ \E i \in DOMAIN q.containers :
                                    q.containers[i] = DriverContainer(d, q.port[d])
    <3>1. \A d \in p.injected : /\ p.port[d] > 0
                                /\ \E i \in DOMAIN p.containers :
                                      p.containers[i] = DriverContainer(d, p.port[d])
      BY DEF Sound
    <3>2. q.injected = p.injected /\ q.port = p.port /\ q.containers = p.containers
      BY <1>2
    <3> QED BY <3>1, <3>2
  <2>3. \A i, j \in DOMAIN q.containers :
           q.containers[i].driver = q.containers[j].driver => i = j
    <3>1. \A i, j \in DOMAIN p.containers :
             p.containers[i].driver = p.containers[j].driver => i = j
      BY DEF Sound
    <3> QED BY <1>2, <3>1
  <2>4. /\ q.container = q.injected
        /\ \A d \in Drivers : q.port[d] \in Nat \cup {BadPort}
        /\ q.gates <= 1
        /\ "broker" \notin q.status => q.gates = 0
    BY <1>2, <1>5 DEF Sound
  <2> QED BY <1>4, <2>1, <2>2, <2>3, <2>4 DEF Sound
<1> QED BY <1>2, <1>6 DEF q

LEMMA InjectedIsSound ==
    ASSUME NEW p, Sound(p), NEW d \in Drivers, NEW port \in Nat, port > 0
    PROVE  LET q == injectDriver(p, d, port) IN
           /\ Sound(q)
           /\ q.status = p.status /\ q.inject = p.inject
           /\ q.profile = p.profile /\ q.appPort = p.appPort
           /\ q.injected = p.injected \cup {d}
           /\ \A e \in Drivers :
                 q.port[e] = IF e = d /\ d \notin p.injected THEN port ELSE p.port[e]
<1> DEFINE q == injectDriver(p, d, port)
           n == Len(p.containers)
           c == DriverContainer(d, port)
<1>1. p \in Pods
  BY DEF Sound
<1>2. CASE d \in p.injected
  BY <1>2 DEF injectDriver
<1>3. CASE d \notin p.injected
  <2>1. /\ q.injected = p.injected \cup {d} /\ q.container = p.container \cup {d}
        /\ q.containers = Append(p.containers, c)
        /\ q.port = [p.port EXCEPT ![d] = port]
        /\ q.status = p.status /\ q.inject = p.inject /\ q.gates = p.gates
        /\ q.profile = p.profile /\ q.appPort = p.appPort
        /\ q = [p EXCEPT !.injected = q.injected, !.container = q.container,
                         !.containers = q.containers, !.port = q.port]
    BY <1>1, <1>3 DEF injectDriver, Pods
  <2> HIDE DEF q
  <2>2. c \in Containers /\ c.driver = d /\ c.port = port
    BY DEF DriverContainer, Containers
  <2>3. /\ q.containers \in Seq(Containers) /\ n \in Nat
        /\ DOMAIN q.containers = 1..n+1
        /\ \A i \in 1..n : q.containers[i] = p.containers[i]
        /\ q.containers[n + 1] = c
        /\ DOMAIN p.containers = 1..n
    <3> HIDE DEF c
    <3> QED BY <1>1, <2>1, <2>2, PodFields
  <2>4. q.port \in [Drivers -> Int] /\ \A e \in Drivers :
           q.port[e] = IF e = d THEN port ELSE p.port[e]
    BY <1>1, <2>1, PodFields
  <2>5. q \in Pods
    BY <1>1, <2>1, <2>3, <2>4, PodFields DEF Pods
  <2>6. \A i \in 1..n : p.containers[i].driver # d
    <3> TAKE i \in 1..n
    <3>1. p.containers[i].driver \in p.injected \/ p.containers[i].driver \notin Drivers
      BY <2>3, Names DEF Sound
    <3> QED BY <1>3, <3>1
  <2>7. \A i \in 1..n+1 : i \in 1..n \/ i = n + 1
    BY <2>3
  <2>8. \A i, j \in DOMAIN q.containers :
           q.containers[i].driver = q.containers[j].driver => i = j
    <3>1. \A i, j \in 1..n :
             p.containers[i].driver = p.containers[j].driver => i = j
      BY <2>3 DEF Sound
    <3> QED BY <2>2, <2>3, <2>6, <2>7, <3>1
  <2>9. \A i \in DOMAIN q.containers :
           \/ q.containers[i] = BrokerContainer /\ "broker" \in q.status
           \/ q.containers[i].driver \in q.injected /\ q.containers[i].port # NoPort
    BY <2>1, <2>2, <2>3, <2>7 DEF Sound, NoPort
  <2>10. \A e \in q.injected : /\ q.port[e] > 0
                               /\ \E i \in DOMAIN q.containers :
                                     q.containers[i] = DriverContainer(e, q.port[e])
    <3> TAKE e \in q.injected
    <3>1. CASE e = d
      <4>1. n + 1 \in DOMAIN q.containers /\ q.containers[n + 1] = c
        BY <2>3
      <4>2. q.port[d] = port
        BY <2>4
      <4> QED BY <3>1, <4>1, <4>2
    <3>2. CASE e # d
      <4>1. e \in p.injected /\ e \in Drivers /\ q.port[e] = p.port[e]
        BY <1>1, <2>1, <2>4, <3>2, PodFields
      <4> QED BY <2>3, <4>1 DEF Sound
    <3> QED BY <3>1, <3>2
  <2>11. Sound(q)
    BY <2>1, <2>4, <2>5, <2>8, <2>9, <2>10 DEF Sound
  <2> QED BY <1>3, <2>1, <2>4, <2>11 DEF q
<1> QED BY <1>2, <1>3

-----------------------------------------------------------------------------
(* The port of a driver                                                    *)

LEMMA PortsSeenAreFinite ==
    ASSUME NEW p, Sound(p)
    PROVE  PortsSeen(p) \in SUBSET Int /\ IsFiniteSet(PortsSeen(p))
<1> DEFINE Seen == {e \in Drivers : isDriver(plugins, e)}
           PortsOf == {p.port[d] : d \in Seen}
           port == [d \in Seen |-> p.port[d]]
<1>1. p.port \in [Drivers -> Int] /\ p.appPort \in Int
  <2>1. p \in Pods
    BY DEF Sound
  <2>2. p.port \in [Drivers -> Int] /\ p.appPort \in UserPorts
    BY <2>1, PodFields
  <2>3. UserPorts \subseteq Int
    BY PortsAssumption DEF BadPort
  <2> QED BY <2>2, <2>3
<1>2. IsFiniteSet(Seen)
  BY DriversAreFinite, FS_Subset
<1>3. IsFiniteSet(PortsOf)
  <2>1. port \in Surjection(Seen, PortsOf)
    BY DEF Surjection
  <2> HIDE DEF port, Seen, PortsOf
  <2> QED BY <1>2, <2>1, FS_Surjection
<1>4. IsFiniteSet(PortsOf \cup {p.appPort})
  <2> HIDE DEF PortsOf
  <2> QED BY <1>3, FS_AddElement
<1>5. PortsSeen(p) \subseteq PortsOf \cup {p.appPort}
  BY DEF PortsSeen
<1>6. PortsOf \cup {p.appPort} \subseteq Int
  BY <1>1
<1> HIDE DEF PortsOf
<1> QED BY <1>4, <1>5, <1>6, FS_Subset

(* A port that is searched for is above the base port. *)
LEMMA SearchedPort ==
    ASSUME NEW p, Sound(p), NEW port \in NextPorts(basePort, PortsSeen(p))
    PROVE  port \in Nat /\ port > 0
<1>1. basePort \in Int /\ basePort > 0
  BY DEF basePort
<1>2. port \in Int /\ (port = basePort \/ port > basePort)
  BY <1>1, PortsSeenAreFinite, NextPortIsAbove
<1> QED BY <1>1, <1>2

LEMMA DriverPort ==
    ASSUME NEW p, Sound(p), NEW d \in Drivers, BadPort \notin getNextPort(p, d),
           NEW port \in getNextPort(p, d)
    PROVE  /\ port \in Nat /\ port > 0
           /\ p.port[d] # NoPort => port = p.port[d]
<1>1. CASE p.port[d] # NoPort
  <2>1. getNextPort(p, d) = {p.port[d]}
    BY <1>1 DEF getNextPort
  <2>2. p.port[d] \in Nat \cup {BadPort}
    BY DEF Sound
  <2>3. port = p.port[d] /\ port # BadPort
    BY <2>1
  <2> QED BY <1>1, <2>2, <2>3 DEF NoPort
<1>2. CASE p.port[d] = NoPort
  <2>1. BadPort \notin PortsSeen(p)
    BY <1>2 DEF getNextPort
  <2>2. port \in NextPorts(basePort, PortsSeen(p))
    BY <1>2, <2>1 DEF getNextPort
  <2> QED BY <1>2, <2>2, SearchedPort
<1> QED BY <1>1, <1>2

(* The webhook writes no annotation that cannot be parsed. *)
LEMMA PortsStayGood ==
    ASSUME NEW p, NEW q, Sound(p), Driven(p, q), NEW d \in Drivers,
           BadPort \notin getNextPort(p, d)
    PROVE  BadPort \notin getNextPort(q, d)
<1>1. /\ \A e \in Drivers : q.port[e] = p.port[e] \/ (p.port[e] = NoPort /\ q.port[e] > 0)
      /\ q.appPort = p.appPort
      /\ Sound(q)
  BY DEF Driven
<1>2. ~(BadPort > 0) /\ BadPort # NoPort
  BY DEF BadPort, NoPort
<1>3. CASE q.port[d] # NoPort
  <2>1. getNextPort(q, d) = {q.port[d]}
    BY <1>3 DEF getNextPort
  <2>2. q.port[d] # BadPort
    <3>1. CASE q.port[d] = p.port[d]
      BY <1>3, <3>1 DEF getNextPort
    <3>2. CASE q.port[d] # p.port[d]
      BY <1>1, <1>2, <3>2
    <3> QED BY <3>1, <3>2
  <2> QED BY <2>1, <2>2
<1>4. CASE q.port[d] = NoPort
  <2>1. p.port[d] = NoPort
    BY <1>1, <1>4 DEF NoPort
  <2>2. BadPort \notin PortsSeen(p)
    BY <2>1 DEF getNextPort
  <2>3. BadPort \notin PortsSeen(q)
    BY <1>1, <1>2, <2>2 DEF PortsSeen
  <2>4. getNextPort(q, d) = NextPorts(basePort, PortsSeen(q))
    BY <1>4, <2>3 DEF getNextPort
  <2>5. ASSUME BadPort \in NextPorts(basePort, PortsSeen(q))
        PROVE  FALSE
    <3>1. BadPort > 0
      BY <1>1, <2>5, SearchedPort
    <3> QED BY <1>2, <3>1
  <2> QED BY <2>4, <2>5
<1> QED BY <1>3, <1>4

-----------------------------------------------------------------------------
(* One visit of the driver webhook                                         *)

LEMMA DrivenAtFirst ==
    ASSUME NEW p, Sound(p)
    PROVE  Driven(p, p)
  BY DEF Driven

LEMMA DrivenIsTransitive ==
    ASSUME NEW p, NEW q, NEW t, Driven(p, q), Driven(q, t)
    PROVE  Driven(p, t)
<1>1. /\ Sound(t) /\ t.inject = p.inject /\ t.profile = p.profile
      /\ t.appPort = p.appPort
      /\ p.status \subseteq t.status /\ t.status \subseteq p.status \cup Domains
      /\ p.injected \subseteq t.injected
  BY DEF Driven
<1>2. \A dom \in t.status \ p.status : Has(t, dom)
  <2> TAKE dom \in t.status \ p.status
  <2>1. CASE dom \in q.status
    BY <2>1 DEF Driven, Has
  <2>2. CASE dom \notin q.status
    BY <2>2 DEF Driven
  <2> QED BY <2>1, <2>2
<1>3. \A dom \in Domains : Asks(q, dom) => Asks(p, dom)
  BY DEF Driven, Asks
<1>4. \A d \in t.injected : \/ d \in p.injected
                            \/ \E dom \in Domains : /\ Asks(p, dom)
                                                    /\ d \in ToSet(InjectionOrder(dom))
  <2> TAKE d \in t.injected
  <2>1. CASE d \in q.injected
    BY <2>1 DEF Driven
  <2>2. CASE d \notin q.injected
    <3>1. PICK dom \in Domains : Asks(q, dom) /\ d \in ToSet(InjectionOrder(dom))
      BY <2>2 DEF Driven
    <3> QED BY <1>3, <3>1
  <2> QED BY <2>1, <2>2
<1>5. \A d \in Drivers : \/ t.port[d] = p.port[d]
                         \/ p.port[d] = NoPort /\ t.port[d] > 0
  <2> TAKE d \in Drivers
  <2>1. q.port[d] = p.port[d] \/ (p.port[d] = NoPort /\ q.port[d] > 0)
    BY DEF Driven
  <2>2. t.port[d] = q.port[d] \/ (q.port[d] = NoPort /\ t.port[d] > 0)
    BY DEF Driven
  <2> QED BY <2>1, <2>2 DEF NoPort
<1> QED BY <1>1, <1>2, <1>4, <1>5 DEF Driven

LEMMA InjectNextDrives ==
    ASSUME NEW p, Sound(p), NEW dom \in Domains, Asks(p, dom),
           NEW d \in ToSet(InjectionOrder(dom)), d \in Drivers,
           BadPort \notin getNextPort(p, d),
           NEW pods, \A o \in pods : Driven(p, o),
           NEW q \in InjectNext(pods, d)
    PROVE  /\ Driven(p, q)
           /\ \E o \in pods : q.status = o.status /\ q.injected = o.injected \cup {d}
<1>1. PICK o \in pods : \E port \in getNextPort(o, d) : q = injectDriver(o, d, port)
  BY DEF InjectNext
<1>2. PICK port \in getNextPort(o, d) : q = injectDriver(o, d, port)
  BY <1>1
<1>3. Driven(p, o) /\ Sound(o)
  BY <1>1 DEF Driven
<1>4. BadPort \notin getNextPort(o, d)
  BY <1>3, PortsStayGood
<1>5. /\ port \in Nat /\ port > 0
      /\ o.port[d] # NoPort => port = o.port[d]
  BY <1>2, <1>3, <1>4, DriverPort
<1>6. /\ Sound(q)
      /\ q.status = o.status /\ q.inject = o.inject
      /\ q.profile = o.profile /\ q.appPort = o.appPort
      /\ q.injected = o.injected \cup {d}
      /\ \A e \in Drivers :
            q.port[e] = IF e = d /\ d \notin o.injected THEN port ELSE o.port[e]
  BY <1>2, <1>3, <1>5, InjectedIsSound
<1>7. \A e \in Drivers : \/ q.port[e] = p.port[e]
                         \/ p.port[e] = NoPort /\ q.port[e] > 0
  <2> TAKE e \in Drivers
  <2>1. o.port[e] = p.port[e] \/ (p.port[e] = NoPort /\ o.port[e] > 0)
    BY <1>3 DEF Driven
  <2>2. CASE e = d /\ d \notin o.injected
    BY <1>5, <1>6, <2>1, <2>2 DEF NoPort
  <2>3. CASE ~(e = d /\ d \notin o.injected)
    BY <1>6, <2>1, <2>3
  <2> QED BY <2>2, <2>3
<1>8. \A e \in q.status \ p.status : Has(q, e)
  BY <1>3, <1>6 DEF Driven, Has
<1>9. \A e \in q.injected : \/ e \in p.injected
                            \/ \E x \in Domains : Asks(p, x) /\ e \in ToSet(InjectionOrder(x))
  <2> TAKE e \in q.injected
  <2>1. CASE e = d
    BY <2>1
  <2>2. CASE e \in o.injected
    BY <1>3, <2>2 DEF Driven
  <2> QED BY <1>6, <2>1, <2>2
<1>10. Driven(p, q)
  BY <1>3, <1>6, <1>7, <1>8, <1>9 DEF Driven
<1> QED BY <1>6, <1>10

\* h is the function that InjectAll is defined by.
IsInjecting(n, p, order, h) ==
    h = [s \in SUBSET (1..n) |->
           IF s = {} THEN {p} ELSE InjectNext(h[s \ {Max(s)}], order[Max(s)])]

LEMMA InjectingExists ==
    ASSUME plugins \subseteq Plugins,
           NEW p, Sound(p), NEW dom \in Domains, Asks(p, dom),
           \A d \in ToSet(InjectionOrder(dom)) : BadPort \notin getNextPort(p, d),
           NEW n \in Nat, InjectionOrder(dom) \in [1..n -> Drivers]
    PROVE  \E h : IsInjecting(n, p, InjectionOrder(dom), h)
<1> DEFINE order == InjectionOrder(dom)
           V == SUBSET {q \in Pods : Driven(p, q)}
           W == ToSet(order)
           F == [x \in V \X W |-> InjectNext(x[1], x[2])]
<1>1. W \subseteq Drivers
  BY OrderOfADomain
<1>2. ASSUME NEW pods \in V, NEW d \in W
      PROVE  InjectNext(pods, d) \in V
  <2>1. \A q \in InjectNext(pods, d) : Driven(p, q)
    BY <1>1, <1>2, InjectNextDrives
  <2>2. \A q \in InjectNext(pods, d) : q \in Pods
    BY <2>1 DEF Driven, Sound
  <2> QED BY <2>1, <2>2
<1>3. F \in [V \X W -> V]
  <2> HIDE DEF V, W
  <2> QED BY <1>2
<1>4. order \in [1..n -> W]
  BY DEF ToSet
<1>5. {p} \in V
  BY DrivenAtFirst DEF Sound
<1>6. PICK h \in [SUBSET (1..n) -> V] : IsFold(n, F, {p}, order, h)
  <2> HIDE DEF F, V, W, order
  <2> QED BY <1>3, <1>4, <1>5, FoldExists
<1>7. ASSUME NEW s \in SUBSET (1..n)
      PROVE  h[s] = IF s = {} THEN {p} ELSE InjectNext(h[s \ {Max(s)}], order[Max(s)])
  <2>1. CASE s = {}
    BY <1>6, <2>1 DEF IsFold
  <2>2. CASE s # {}
    <3>1. Max(s) \in 1..n
      BY <2>2, LastIsIndex
    <3> HIDE DEF V, W, order
    <3>2. h[s \ {Max(s)}] \in V /\ order[Max(s)] \in W
      BY <1>4, <3>1
    <3>3. h[s] = F[<<h[s \ {Max(s)}], order[Max(s)]>>]
      BY <1>6, <2>2 DEF IsFold
    <3> QED BY <2>2, <3>2, <3>3
  <2> QED BY <2>1, <2>2
<1>8. IsInjecting(n, p, order, h)
  <2> HIDE DEF V, W, F, order
  <2> QED BY <1>6, <1>7 DEF IsInjecting
<1> QED BY <1>8

(* The visit of one annotation injects the drivers of its domain. *)
LEMMA InjectAllDrives ==
    ASSUME plugins \subseteq Plugins,
           NEW p, Sound(p), NEW dom \in Domains, Asks(p, dom),
           \A d \in ToSet(InjectionOrder(dom)) : BadPort \notin getNextPort(p, d),
           NEW q \in InjectAll(p, InjectionOrder(dom))
    PROVE  /\ Driven(p, q)
           /\ q.status = p.status
           /\ Has(q, dom)
<1> DEFINE order == InjectionOrder(dom)
<1>1. PICK n \in Nat : order \in [1..n -> Drivers]
  BY OrderOfADomain
<1> DEFINE iter == CHOOSE h : IsInjecting(n, p, order, h)
<1>2. InjectAll(p, order) = iter[1..n]
  <2>1. DOMAIN order = 1..n
    BY <1>1
  <2> HIDE DEF order
  <2> QED BY <2>1 DEF InjectAll, FoldLeft, MapThenFoldSet, IsInjecting
<1>3. IsInjecting(n, p, order, iter)
  BY <1>1, InjectingExists
<1> HIDE DEF iter
<1> DEFINE Good(m) == \A o \in iter[1..m] : /\ Driven(p, o)
                                            /\ o.status = p.status
                                            /\ \A i \in 1..m : order[i] \in o.injected
           Goods == {m \in Nat : m <= n => Good(m)}
<1>4. 0 \in Goods
  <2>1. 1..0 = {}
    OBVIOUS
  <2>2. iter[1..0] = {p}
    BY <1>3, <2>1 DEF IsInjecting
  <2> QED BY <2>1, <2>2, DrivenAtFirst
<1>5. ASSUME NEW m \in Nat, m \in Goods, m + 1 <= n
      PROVE  Good(m + 1)
  <2>1. Good(m)
    BY <1>5
  <2>2. 1..m+1 \in SUBSET (1..n) /\ m + 1 \in 1..m+1 /\ m + 1 \in 1..n
    BY <1>5
  <2>3. Max(1..m+1) = m + 1
    BY <2>2, LastIndex
  <2>4. (1..m+1) \ {m + 1} = 1..m
    OBVIOUS
  <2>5. iter[1..m+1] = InjectNext(iter[1..m], order[m + 1])
    BY <1>3, <2>2, <2>3, <2>4 DEF IsInjecting
  <2>6. order[m + 1] \in ToSet(order) /\ order[m + 1] \in Drivers
    BY <1>1, <2>2 DEF ToSet
  <2>7. BadPort \notin getNextPort(p, order[m + 1])
    BY <2>6
  <2>8. ASSUME NEW o \in iter[1..m+1]
        PROVE  /\ Driven(p, o)
               /\ o.status = p.status
               /\ \A i \in 1..m+1 : order[i] \in o.injected
    <3>1. o \in InjectNext(iter[1..m], order[m + 1])
      BY <2>5
    <3>2. \A x \in iter[1..m] : Driven(p, x)
      BY <2>1
    <3>3. /\ Driven(p, o)
          /\ \E x \in iter[1..m] : /\ o.status = x.status
                                   /\ o.injected = x.injected \cup {order[m + 1]}
      BY <2>6, <2>7, <3>1, <3>2, InjectNextDrives
    <3>4. PICK x \in iter[1..m] : /\ o.status = x.status
                                  /\ o.injected = x.injected \cup {order[m + 1]}
      BY <3>3
    <3>5. x.status = p.status /\ \A i \in 1..m : order[i] \in x.injected
      BY <2>1
    <3>6. \A i \in 1..m+1 : i \in 1..m \/ i = m + 1
      OBVIOUS
    <3> QED BY <3>3, <3>4, <3>5, <3>6
  <2> QED BY <2>8
<1>6. \A m \in Nat : m \in Goods => m + 1 \in Goods
  <2> HIDE DEF Good
  <2> QED BY <1>5
<1>7. Nat \subseteq Goods
  <2> HIDE DEF Goods
  <2> QED BY <1>4, <1>6, SetInduction
<1>8. Good(n)
  <2> HIDE DEF Good
  <2> QED BY <1>7
<1>9. Driven(p, q) /\ q.status = p.status /\ \A i \in 1..n : order[i] \in q.injected
  BY <1>2, <1>8
<1>10. Has(q, dom)
  BY <1>1, <1>9 DEF Has, ToSet
<1> QED BY <1>9, <1>10

-----------------------------------------------------------------------------
(* All visits of the driver webhook                                        *)

LEMMA StatusIsDriven ==
    ASSUME NEW p, NEW q, Driven(p, q), NEW dom \in Domains, Has(q, dom)
    PROVE  LET t == [q EXCEPT !.status = @ \cup {dom}] IN
           Driven(p, t) /\ dom \in t.status /\ q.status \subseteq t.status
<1> DEFINE t == [q EXCEPT !.status = @ \cup {dom}]
<1>1. Sound(q) /\ q \in Pods
  BY DEF Driven, Sound
<1>2. /\ t.status = q.status \cup {dom}
      /\ t.inject = q.inject /\ t.profile = q.profile /\ t.appPort = q.appPort
      /\ t.containers = q.containers /\ t.gates = q.gates
      /\ t.injected = q.injected /\ t.container = q.container /\ t.port = q.port
  BY <1>1 DEF Pods
<1>3. t \in Pods
  <2>1. t.status \in SUBSET (Domains \cup {"profile"})
    BY <1>1, <1>2, PodFields
  <2> QED BY <1>1, <1>2, <2>1 DEF Pods
<1> HIDE DEF t
<1>4. Sound(t)
  <2>1. \A i, j \in DOMAIN t.containers :
           t.containers[i].driver = t.containers[j].driver => i = j
    BY <1>1, <1>2 DEF Sound
  <2>2. \A i \in DOMAIN t.containers :
           \/ t.containers[i] = BrokerContainer /\ "broker" \in t.status
           \/ t.containers[i].driver \in t.injected /\ t.containers[i].port # NoPort
    BY <1>1, <1>2 DEF Sound
  <2>3. \A d \in t.injected : /\ t.port[d] > 0
                              /\ \E i \in DOMAIN t.containers :
                                    t.containers[i] = DriverContainer(d, t.port[d])
    <3>1. \A d \in q.injected : /\ q.port[d] > 0
                                /\ \E i \in DOMAIN q.containers :
                                      q.containers[i] = DriverContainer(d, q.port[d])
      BY <1>1 DEF Sound
    <3> QED BY <1>2, <3>1
  <2>4. /\ t.container = t.injected
        /\ \A d \in Drivers : t.port[d] \in Nat \cup {BadPort}
        /\ t.gates <= 1
        /\ "broker" \notin t.status => t.gates = 0
    BY <1>1, <1>2 DEF Sound
  <2> QED BY <1>3, <2>1, <2>2, <2>3, <2>4 DEF Sound
<1>5. \A e \in t.status \ p.status : Has(t, e)
  BY <1>2 DEF Driven, Has
<1>6. Driven(p, t)
  BY <1>2, <1>4, <1>5 DEF Driven
<1> QED BY <1>2, <1>6 DEF t

LEMMA VisitDrives ==
    ASSUME plugins \subseteq Plugins,
           NEW p, Sound(p), ~PortError(p), NEW dom \in Domains,
           NEW pods, \A o \in pods : Driven(p, o),
           NEW q \in Visit(pods, dom)
    PROVE  /\ Driven(p, q)
           /\ q.inject[dom] = "true" => dom \in q.status
           /\ \E o \in pods : o.status \subseteq q.status
<1>1. PICK o \in pods : q \in IF Asks(o, dom)
                              THEN {[t EXCEPT !.status = @ \cup {dom}] :
                                       t \in InjectAll(o, InjectionOrder(dom))}
                              ELSE {o}
  BY DEF Visit
<1>2. Driven(p, o) /\ Sound(o)
  BY DEF Driven
<1>3. CASE Asks(o, dom)
  <2>1. PICK t \in InjectAll(o, InjectionOrder(dom)) :
           q = [t EXCEPT !.status = @ \cup {dom}]
    BY <1>1, <1>3
  <2>2. Asks(p, dom)
    BY <1>2, <1>3 DEF Driven, Asks
  <2>3. ASSUME NEW d \in ToSet(InjectionOrder(dom))
        PROVE  BadPort \notin getNextPort(o, d)
    <3>1. BadPort \notin getNextPort(p, d)
      BY <2>2 DEF PortError
    <3>2. d \in Drivers
      BY OrderOfADomain
    <3> QED BY <1>2, <3>1, <3>2, PortsStayGood
  <2>4. Driven(o, t) /\ t.status = o.status /\ Has(t, dom)
    BY <1>2, <1>3, <2>1, <2>3, InjectAllDrives
  <2>5. Driven(p, t)
    BY <1>2, <2>4, DrivenIsTransitive
  <2>6. Driven(p, q) /\ dom \in q.status /\ t.status \subseteq q.status
    BY <2>1, <2>4, <2>5, StatusIsDriven
  <2> QED BY <2>4, <2>6
<1>4. CASE ~Asks(o, dom)
  <2>1. q = o
    BY <1>1, <1>4
  <2> QED BY <1>2, <1>4, <2>1 DEF Asks
<1> QED BY <1>3, <1>4

\* h is the function that VisitAll is defined by.
IsVisiting(n, p, order, h) ==
    h = [s \in SUBSET (1..n) |->
           IF s = {} THEN {p} ELSE Visit(h[s \ {Max(s)}], order[Max(s)])]

LEMMA VisitingExists ==
    ASSUME plugins \subseteq Plugins, NEW p, Sound(p), ~PortError(p),
           NEW n \in Nat, NEW order \in [1..n -> Domains]
    PROVE  \E h : IsVisiting(n, p, order, h)
<1> DEFINE V == SUBSET {q \in Pods : Driven(p, q)}
           F == [x \in V \X Domains |-> Visit(x[1], x[2])]
<1>1. ASSUME NEW pods \in V, NEW dom \in Domains
      PROVE  Visit(pods, dom) \in V
  <2>1. \A q \in Visit(pods, dom) : Driven(p, q)
    BY <1>1, VisitDrives
  <2>2. \A q \in Visit(pods, dom) : q \in Pods
    BY <2>1 DEF Driven, Sound
  <2> QED BY <2>1, <2>2
<1>2. F \in [V \X Domains -> V]
  <2> HIDE DEF V
  <2> QED BY <1>1
<1>3. {p} \in V
  BY DrivenAtFirst DEF Sound
<1>4. PICK h \in [SUBSET (1..n) -> V] : IsFold(n, F, {p}, order, h)
  <2> HIDE DEF F, V
  <2> QED BY <1>2, <1>3, FoldExists
<1>5. ASSUME NEW s \in SUBSET (1..n)
      PROVE  h[s] = IF s = {} THEN {p} ELSE Visit(h[s \ {Max(s)}], order[Max(s)])
  <2>1. CASE s = {}
    BY <1>4, <2>1 DEF IsFold
  <2>2. CASE s # {}
    <3>1. Max(s) \in 1..n
      BY <2>2, LastIsIndex
    <3> HIDE DEF V
    <3>2. h[s \ {Max(s)}] \in V /\ order[Max(s)] \in Domains
      BY <3>1
    <3>3. h[s] = F[<<h[s \ {Max(s)}], order[Max(s)]>>]
      BY <1>4, <2>2 DEF IsFold
    <3> QED BY <2>2, <3>2, <3>3
  <2> QED BY <2>1, <2>2
<1>6. IsVisiting(n, p, order, h)
  <2> HIDE DEF V, F
  <2> QED BY <1>4, <1>5 DEF IsVisiting
<1> QED BY <1>6

LEMMA VisitAllDrives ==
    ASSUME plugins \subseteq Plugins, NEW p, Sound(p), ~PortError(p),
           NEW n \in Nat, NEW order \in [1..n -> Domains],
           NEW q \in VisitAll(p, order)
    PROVE  /\ Driven(p, q)
           /\ \A i \in 1..n : q.inject[order[i]] = "true" => order[i] \in q.status
<1> DEFINE iter == CHOOSE h : IsVisiting(n, p, order, h)
<1>1. VisitAll(p, order) = iter[1..n]
  <2>1. DOMAIN order = 1..n
    OBVIOUS
  <2> QED BY <2>1 DEF VisitAll, FoldLeft, MapThenFoldSet, IsVisiting
<1>2. IsVisiting(n, p, order, iter)
  BY VisitingExists
<1> HIDE DEF iter
<1> DEFINE Good(m) == \A o \in iter[1..m] :
                         /\ Driven(p, o)
                         /\ \A i \in 1..m : p.inject[order[i]] = "true" => order[i] \in o.status
           Goods == {m \in Nat : m <= n => Good(m)}
<1>3. 0 \in Goods
  <2>1. 1..0 = {}
    OBVIOUS
  <2>2. iter[1..0] = {p}
    BY <1>2, <2>1 DEF IsVisiting
  <2> QED BY <2>1, <2>2, DrivenAtFirst
<1>4. ASSUME NEW m \in Nat, m \in Goods, m + 1 <= n
      PROVE  Good(m + 1)
  <2>1. Good(m)
    BY <1>4
  <2>2. 1..m+1 \in SUBSET (1..n) /\ m + 1 \in 1..m+1 /\ m + 1 \in 1..n
    BY <1>4
  <2>3. Max(1..m+1) = m + 1
    BY <2>2, LastIndex
  <2>4. (1..m+1) \ {m + 1} = 1..m
    OBVIOUS
  <2>5. iter[1..m+1] = Visit(iter[1..m], order[m + 1])
    BY <1>2, <2>2, <2>3, <2>4 DEF IsVisiting
  <2>6. order[m + 1] \in Domains
    BY <2>2
  <2>7. ASSUME NEW o \in iter[1..m+1]
        PROVE  /\ Driven(p, o)
               /\ \A i \in 1..m+1 : p.inject[order[i]] = "true" => order[i] \in o.status
    <3>1. o \in Visit(iter[1..m], order[m + 1])
      BY <2>5
    <3>2. \A x \in iter[1..m] : Driven(p, x)
      BY <2>1
    <3>3. /\ Driven(p, o)
          /\ o.inject[order[m + 1]] = "true" => order[m + 1] \in o.status
          /\ \E x \in iter[1..m] : x.status \subseteq o.status
      BY <2>6, <3>1, <3>2, VisitDrives
    <3>4. PICK x \in iter[1..m] : x.status \subseteq o.status
      BY <3>3
    <3>5. \A i \in 1..m : p.inject[order[i]] = "true" => order[i] \in x.status
      BY <2>1
    <3>6. \A i \in 1..m+1 : i \in 1..m \/ i = m + 1
      OBVIOUS
    <3>7. o.inject = p.inject
      BY <3>3 DEF Driven
    <3> QED BY <3>3, <3>4, <3>5, <3>6, <3>7
  <2> QED BY <2>7
<1>5. \A m \in Nat : m \in Goods => m + 1 \in Goods
  <2> HIDE DEF Good
  <2> QED BY <1>4
<1>6. Nat \subseteq Goods
  <2> HIDE DEF Goods
  <2> QED BY <1>3, <1>5, SetInduction
<1>7. Good(n)
  <2> HIDE DEF Good
  <2> QED BY <1>6
<1>8. q.inject = p.inject
  BY <1>1, <1>7 DEF Driven
<1> QED BY <1>1, <1>7, <1>8

LEMMA DomainsAreFinite == IsFiniteSet(Domains)
<1> DEFINE f == [g \in Plugins |-> g.name]
<1>1. f \in Surjection(Plugins, PluginNames)
  BY DEF Surjection, PluginNames
<1>2. IsFiniteSet(PluginNames)
  <2>1. IsFiniteSet(Plugins)
    BY PluginsAssumption
  <2> HIDE DEF f
  <2> QED BY <1>1, <2>1, FS_Surjection
<1> QED BY <1>2, FS_AddElement DEF Domains

(* The driver webhook injects what is asked for, and only that: it leaves a pod
   that has what it asks for as it is. *)
LEMMA WithDriversDrives ==
    ASSUME plugins \subseteq Plugins, NEW p, Sound(p), ~PortError(p),
           NEW q \in WithDrivers(p)
    PROVE  /\ Driven(p, q)
           /\ \A dom \in Domains : Asks(p, dom) => Has(q, dom)
           /\ (\A dom \in Domains : Asks(p, dom) => Has(p, dom)) => q = p
<1>1. PICK order \in SetToSeqs(Domains) :
         \E t \in VisitAll(p, order) : q = IF t.injected = p.injected THEN p ELSE t
  BY DEF WithDrivers
<1>2. PICK t \in VisitAll(p, order) : q = IF t.injected = p.injected THEN p ELSE t
  BY <1>1
<1>3. PICK n \in Nat : /\ order \in [1..n -> Domains]
                       /\ \A dom \in Domains : \E i \in 1..n : order[i] = dom
  BY DomainsAreFinite, SequencesOfASet
<1>4. /\ Driven(p, t)
      /\ \A i \in 1..n : t.inject[order[i]] = "true" => order[i] \in t.status
  BY <1>2, <1>3, VisitAllDrives
<1>5. \A dom \in Domains : Asks(p, dom) => Has(t, dom)
  BY <1>3, <1>4 DEF Driven, Asks
<1>6. Driven(p, q)
  BY <1>2, <1>4, DrivenAtFirst
<1>7. \A dom \in Domains : Asks(p, dom) => Has(q, dom)
  BY <1>2, <1>5 DEF Has
<1>8. ASSUME \A dom \in Domains : Asks(p, dom) => Has(p, dom)
      PROVE  q = p
  <2>1. \A d \in t.injected : d \in p.injected
    BY <1>4, <1>8 DEF Driven, Has
  <2>2. t.injected = p.injected
    BY <1>4, <2>1 DEF Driven
  <2> QED BY <1>2, <2>2
<1> QED BY <1>6, <1>7, <1>8

-----------------------------------------------------------------------------
(* What each webhook does                                                  *)

LEMMA FirstPodIsSound == Init => Sound(pod) /\ pod.status = {}
<1> SUFFICES ASSUME Init PROVE Sound(pod) /\ pod.status = {}
  OBVIOUS
<1>1. PICK inject \in [Domains -> InjectValues], named \in BOOLEAN,
           d \in Drivers, port \in UserPorts, appPort \in UserPorts :
         pod = Submitted(inject, [[e \in Drivers |-> NoPort] EXCEPT ![d] = port],
                         appPort, named)
  BY DEF Init
<1> DEFINE ports == [[e \in Drivers |-> NoPort] EXCEPT ![d] = port]
<1>2. UserPorts \subseteq Int /\ port \in Nat \cup {BadPort} /\ BadPort \in Int
  BY PortsAssumption DEF BadPort
<1>3. ports \in [Drivers -> Int] /\ \A e \in Drivers : ports[e] \in Nat \cup {BadPort}
  BY <1>2 DEF NoPort
<1> HIDE DEF ports
<1>4. /\ pod.inject = inject /\ pod.status = {} /\ pod.injected = {} /\ pod.container = {}
      /\ pod.port = ports /\ pod.appPort = appPort /\ pod.profile = named
      /\ pod.containers = <<>> /\ pod.gates = 0
  BY <1>1 DEF Submitted, ports
<1>5. pod \in Pods
  <2>1. <<>> \in Seq(Containers)
    OBVIOUS
  <2> QED BY <1>1, <1>3, <2>1 DEF Submitted, Pods, ports
<1>6. DOMAIN pod.containers = {}
  BY <1>4
<1> QED BY <1>3, <1>4, <1>5, <1>6 DEF Sound

LEMMA BrokerStep ==
    ASSUME Sound(pod), InjectBroker
    PROVE  /\ Sound(pod')
           /\ pod'.inject = pod.inject /\ pod'.profile = pod.profile
           /\ pod'.injected = pod.injected
           /\ pod.status \subseteq pod'.status
           /\ pod'.status \subseteq pod.status \cup {"broker"}
           /\ pod'.inject["broker"] \in ParsesTrue => "broker" \in pod'.status
           /\ ("broker" \in pod.status \/ pod.inject["broker"] \notin ParsesTrue) => pod' = pod
<1>1. CASE pod.inject["broker"] \in ParsesTrue /\ "broker" \notin pod.status
  <2>1. pod' = WithBroker(pod)
    BY <1>1 DEF InjectBroker
  <2> QED BY <1>1, <2>1, BrokerIsSound
<1>2. CASE ~(pod.inject["broker"] \in ParsesTrue /\ "broker" \notin pod.status)
  <2>1. pod' = pod
    BY <1>2 DEF InjectBroker, WithBroker
  <2> QED BY <1>2, <2>1
<1> QED BY <1>1, <1>2

LEMMA ProfileStep ==
    ASSUME Sound(pod), InjectProfile, profile.drivers \subseteq PluginNames
    PROVE  /\ Sound(pod')
           /\ pod'.profile = pod.profile /\ pod'.injected = pod.injected
           /\ pod.status \subseteq pod'.status
           /\ pod'.status \subseteq pod.status \cup {"profile"}
           /\ pod'.inject["broker"] = pod.inject["broker"]
           /\ phase' = "drivers" /\ pod'.profile => "profile" \in pod'.status
           /\ "profile" \in pod'.status /\ "profile" \notin pod.status =>
                 \A dom \in profile.drivers : pod'.inject[dom] # "none"
           /\ ("profile" \in pod.status \/ ~pod.profile) => pod' = pod
           /\ phase' \in {"drivers", "refused"}
<1>1. CASE pod.profile /\ "profile" \notin pod.status /\ profile.found
  <2>1. pod' = WithProfile(pod)
    BY <1>1 DEF InjectProfile
  <2>2. /\ Sound(pod')
        /\ pod'.status = pod.status \cup {"profile"}
        /\ pod'.inject = [dom \in Domains |->
                            IF pod.inject[dom] = "none" /\ dom \in profile.drivers
                            THEN "true" ELSE pod.inject[dom]]
        /\ pod'.profile = pod.profile /\ pod'.injected = pod.injected
    BY <2>1, ProfileIsSound
  <2>3. \A dom \in profile.drivers : pod'.inject[dom] # "none"
    BY <2>2, Names
  <2>4. pod'.inject["broker"] = pod.inject["broker"]
    BY <2>2, Names
  <2>5. phase' = "drivers"
    BY <1>1 DEF InjectProfile
  <2> QED BY <1>1, <2>2, <2>3, <2>4, <2>5
<1>2. CASE ~(pod.profile /\ "profile" \notin pod.status /\ profile.found)
  <2>1. pod' = pod
    BY <1>2 DEF InjectProfile
  <2>2. phase' \in {"drivers", "refused"}
    BY DEF InjectProfile
  <2>3. phase' = "drivers" /\ pod.profile => "profile" \in pod.status
    BY <1>2 DEF InjectProfile
  <2> QED BY <2>1, <2>2, <2>3
<1> QED BY <1>1, <1>2

LEMMA DriversStep ==
    ASSUME Sound(pod), InjectDrivers, plugins \subseteq Plugins
    PROVE  /\ Driven(pod, pod')
           /\ phase' \in {"admitted", "refused"}
           /\ phase' = "admitted" => \A dom \in Domains : Asks(pod, dom) => Has(pod', dom)
           /\ (\A dom \in Domains : Asks(pod, dom) => Has(pod, dom)) => pod' = pod
<1>1. CASE PortError(pod)
  <2>1. pod' = pod /\ phase' = "refused"
    BY <1>1 DEF InjectDrivers
  <2> QED BY <2>1, DrivenAtFirst
<1>2. CASE ~PortError(pod)
  <2>1. pod' \in WithDrivers(pod) /\ phase' = "admitted"
    BY <1>2 DEF InjectDrivers
  <2> QED BY <1>2, <2>1, WithDriversDrives
<1> QED BY <1>1, <1>2

-----------------------------------------------------------------------------
(* The inductive invariants                                                *)

LEMMA Profiles ==
    /\ NoProfile \in [found : BOOLEAN, drivers : SUBSET PluginNames]
    /\ \A ds \in SUBSET PluginNames :
          [found |-> TRUE, drivers |-> ds] \in [found : BOOLEAN, drivers : SUBSET PluginNames]
  BY DEF NoProfile

LEMMA InitInjection == Init => InjectionInv
<1> SUFFICES ASSUME Init PROVE InjectionInv
  OBVIOUS
<1>1. Sound(pod) /\ pod.status = {}
  BY FirstPodIsSound
<1>2. /\ phase = "broker" /\ missed = {} /\ missedBefore = {} /\ changed = FALSE
      /\ submissions = 1 /\ changes = 0
      /\ plugins \subseteq Plugins
      /\ profile \in [found : BOOLEAN, drivers : SUBSET PluginNames]
  <2>1. profile \in {NoProfile} \cup
                    {[found |-> TRUE, drivers |-> ds] : ds \in SUBSET PluginNames}
    BY DEF Init
  <2>2. profile \in [found : BOOLEAN, drivers : SUBSET PluginNames]
    BY <2>1, Profiles
  <2> QED BY <2>2 DEF Init
<1>3. SoundInv
  <2>1. submissions \in 1..MaxSubmissions /\ changes \in 0..MaxChanges
    BY <1>2, BoundsAssumption
  <2> QED BY <1>1, <1>2, <2>1 DEF SoundInv, Webhooks
<1>4. ReachedInv
  <2>1. StatusMeans
    BY <1>1 DEF StatusMeans
  <2>2. ~(submissions > 1)
    BY <1>2
  <2> QED BY <1>2, <2>1, <2>2 DEF ReachedInv
<1> QED BY <1>3, <1>4 DEF InjectionInv

LEMMA SoundStays == SoundInv /\ [Next]_vars => SoundInv'
<1> SUFFICES ASSUME SoundInv, [Next]_vars PROVE SoundInv'
  OBVIOUS
<1>1. Sound(pod) /\ plugins \subseteq Plugins /\ profile.drivers \subseteq PluginNames
  BY DEF SoundInv
<1>2. CASE InjectBroker
  <2>1. Sound(pod')
    BY <1>1, <1>2, BrokerStep
  <2>2. phase' = "profile" /\ UNCHANGED <<plugins, profile, missed, history>>
    BY <1>2 DEF InjectBroker
  <2>3. Sound(pod)'
    BY <2>1 DEF Sound, Pods
  <2> QED BY <2>2, <2>3 DEF SoundInv, history, Webhooks
<1>3. CASE InjectProfile
  <2>1. Sound(pod') /\ phase' \in {"drivers", "refused"}
    BY <1>1, <1>3, ProfileStep
  <2>2. UNCHANGED <<plugins, profile, missed, history>>
    BY <1>3 DEF InjectProfile
  <2>3. Sound(pod)'
    BY <2>1 DEF Sound, Pods
  <2> QED BY <2>1, <2>2, <2>3 DEF SoundInv, history, Webhooks
<1>4. CASE InjectDrivers
  <2>1. Sound(pod') /\ phase' \in {"admitted", "refused"}
    BY <1>1, <1>4, DriversStep DEF Driven
  <2>2. UNCHANGED <<plugins, profile, missed, history>>
    BY <1>4 DEF InjectDrivers
  <2>3. Sound(pod)'
    BY <2>1 DEF Sound, Pods
  <2> QED BY <2>1, <2>2, <2>3 DEF SoundInv, history, Webhooks
<1>5. CASE PassOver
  <2>1. /\ phase \in Webhooks /\ missed' = missed \cup {phase}
        /\ UNCHANGED <<pod, plugins, profile, history>>
        /\ phase' \in Webhooks \cup {"admitted", "refused"}
    BY <1>5 DEF PassOver, Webhooks
  <2>2. Sound(pod)'
    BY <1>1, <2>1 DEF Sound, Pods
  <2> QED BY <2>1, <2>2 DEF SoundInv, history
<1>6. CASE Resubmit
  <2>1. /\ submissions < MaxSubmissions /\ submissions' = submissions + 1
        /\ phase' = "broker" /\ missed' = {} /\ missedBefore' = missedBefore \cup missed
        /\ UNCHANGED <<pod, plugins, profile, changed, changes>>
    BY <1>6 DEF Resubmit
  <2>2. Sound(pod)'
    BY <1>1, <2>1 DEF Sound, Pods
  <2>3. submissions' \in 1..MaxSubmissions
    BY <2>1, BoundsAssumption DEF SoundInv
  <2> QED BY <2>1, <2>2, <2>3 DEF SoundInv, Webhooks
<1>7. CASE ChangePlugins \/ ChangeProfile
  <2>1. /\ changes < MaxChanges /\ changes' = changes + 1 /\ changed' = TRUE
        /\ UNCHANGED <<pod, phase, missed, missedBefore, submissions>>
    BY <1>7 DEF ChangePlugins, ChangeProfile, Change
  <2>2. Sound(pod)'
    BY <1>1, <2>1 DEF Sound, Pods
  <2>3. changes' \in 0..MaxChanges
    BY <2>1, BoundsAssumption DEF SoundInv
  <2>4. plugins' \subseteq Plugins
    BY <1>1, <1>7 DEF ChangePlugins, ChangeProfile
  <2>5. profile' \in [found : BOOLEAN, drivers : SUBSET PluginNames]
    <3>1. \/ profile' = profile
          \/ profile' = NoProfile
          \/ profile' = [found |-> TRUE, drivers |-> PluginNames]
      BY <1>7 DEF ChangePlugins, ChangeProfile
    <3> QED BY <3>1, Profiles DEF SoundInv
  <2> QED BY <2>1, <2>2, <2>3, <2>4, <2>5 DEF SoundInv
<1>8. CASE UNCHANGED vars
  <2>1. Sound(pod)'
    BY <1>1, <1>8 DEF Sound, Pods, vars
  <2> QED BY <1>8, <2>1 DEF SoundInv, vars
<1> QED BY <1>2, <1>3, <1>4, <1>5, <1>6, <1>7, <1>8 DEF Next

LEMMA ReachedStays == SoundInv /\ ReachedInv /\ [Next]_vars => ReachedInv'
<1> SUFFICES ASSUME SoundInv, ReachedInv, [Next]_vars PROVE ReachedInv'
  OBVIOUS
<1>1. Sound(pod) /\ plugins \subseteq Plugins /\ profile.drivers \subseteq PluginNames
  BY DEF SoundInv
<1>2. ASSUME plugins' = plugins
      PROVE  \A dom : InjectionOrder(dom)' = InjectionOrder(dom)
  BY <1>2 DEF InjectionOrder
<1>3. "profile" \notin Domains /\ "broker" \in Domains /\ PluginNames \subseteq Domains
  BY Names
<1>4. CASE InjectBroker
  <2>1. /\ pod'.inject = pod.inject /\ pod'.profile = pod.profile
        /\ pod'.injected = pod.injected
        /\ pod.status \subseteq pod'.status
        /\ pod'.status \subseteq pod.status \cup {"broker"}
        /\ pod'.inject["broker"] \in ParsesTrue => "broker" \in pod'.status
    BY <1>1, <1>4, BrokerStep
  <2>2. /\ phase = "broker" /\ phase' = "profile"
        /\ UNCHANGED <<plugins, profile, missed, missedBefore, changed, submissions>>
    BY <1>4 DEF InjectBroker, history
  <2>3. BrokerDone'
    BY <2>1 DEF BrokerDone
  <2>4. InjectionOrder("broker") = <<>>
    BY <1>1, OrderOfADomain, Names
  <2>5. Has(pod, "broker")'
    BY <1>2, <2>2, <2>4 DEF Has, ToSet
  <2>6. \A dom \in Domains : Has(pod, dom) => Has(pod, dom)'
    BY <1>2, <2>1, <2>2 DEF Has
  <2>7. StatusMeans => StatusMeans'
    BY <2>1, <2>2, <2>5, <2>6 DEF StatusMeans
  <2>8. DriversDone => DriversDone'
    BY <2>1, <2>6 DEF DriversDone
  <2>9. ProfileDone => ProfileDone'
    BY <2>1 DEF ProfileDone
  <2> QED BY <2>2, <2>3, <2>7, <2>8, <2>9 DEF ReachedInv
<1>5. CASE InjectProfile
  <2>1. /\ pod'.profile = pod.profile /\ pod'.injected = pod.injected
        /\ pod.status \subseteq pod'.status
        /\ pod'.status \subseteq pod.status \cup {"profile"}
        /\ pod'.inject["broker"] = pod.inject["broker"]
        /\ phase' = "drivers" /\ pod'.profile => "profile" \in pod'.status
        /\ "profile" \in pod'.status /\ "profile" \notin pod.status =>
              \A dom \in profile.drivers : pod'.inject[dom] # "none"
        /\ ("profile" \in pod.status \/ ~pod.profile) => pod' = pod
        /\ phase' \in {"drivers", "refused"}
    BY <1>1, <1>5, ProfileStep
  <2>2. /\ phase = "profile"
        /\ UNCHANGED <<plugins, profile, missed, missedBefore, changed, submissions>>
    BY <1>5 DEF InjectProfile, history
  <2>3. BrokerDone => BrokerDone'
    BY <2>1 DEF BrokerDone
  <2>4. \A dom \in Domains : Has(pod, dom) => Has(pod, dom)'
    BY <1>2, <2>1, <2>2 DEF Has
  <2>5. StatusMeans => StatusMeans'
    <3> SUFFICES ASSUME StatusMeans PROVE StatusMeans'
      OBVIOUS
    <3>1. \A dom \in Domains : dom \in pod'.status => Has(pod, dom)'
      BY <1>3, <2>1, <2>4 DEF StatusMeans
    <3>2. ASSUME "profile" \in pod'.status
          PROVE  \A dom \in profile.drivers : pod'.inject[dom] # "none"
      <4>1. CASE "profile" \in pod.status
        <5>1. pod' = pod
          BY <2>1, <4>1
        <5> QED BY <4>1, <5>1 DEF StatusMeans
      <4>2. CASE "profile" \notin pod.status
        BY <2>1, <3>2, <4>2
      <4> QED BY <4>1, <4>2
    <3> QED BY <2>2, <3>1, <3>2 DEF StatusMeans
  <2>6. phase' = "drivers" => ProfileDone'
    BY <2>1 DEF ProfileDone
  <2>7. ProfileDone /\ DriversDone => ProfileDone' /\ DriversDone'
    <3> SUFFICES ASSUME ProfileDone, DriversDone PROVE ProfileDone' /\ DriversDone'
      OBVIOUS
    <3>1. pod' = pod
      BY <2>1 DEF ProfileDone
    <3> QED BY <2>4, <3>1 DEF ProfileDone, DriversDone
  <2> QED BY <2>1, <2>2, <2>3, <2>5, <2>6, <2>7 DEF ReachedInv
<1>6. CASE InjectDrivers
  <2>1. /\ Driven(pod, pod')
        /\ phase' \in {"admitted", "refused"}
        /\ phase' = "admitted" => \A dom \in Domains : Asks(pod, dom) => Has(pod', dom)
    BY <1>1, <1>6, DriversStep
  <2>2. /\ phase = "drivers"
        /\ UNCHANGED <<plugins, profile, missed, missedBefore, changed, submissions>>
    BY <1>6 DEF InjectDrivers, history
  <2>3. /\ pod'.inject = pod.inject /\ pod'.profile = pod.profile
        /\ pod.status \subseteq pod'.status
        /\ pod'.status \subseteq pod.status \cup Domains
        /\ pod.injected \subseteq pod'.injected
    BY <2>1 DEF Driven
  <2>4. \A dom : Has(pod, dom)' <=> Has(pod', dom)
    BY <1>2, <2>2 DEF Has
  <2>5. \A dom : Has(pod, dom) => Has(pod', dom)
    BY <2>3 DEF Has
  <2>6. BrokerDone => BrokerDone'
    BY <2>3 DEF BrokerDone
  <2>7. ProfileDone => ProfileDone'
    BY <2>3 DEF ProfileDone
  <2>8. DriversDone => DriversDone'
    BY <2>3, <2>4, <2>5 DEF DriversDone
  <2>9. StatusMeans => StatusMeans'
    <3> SUFFICES ASSUME StatusMeans PROVE StatusMeans'
      OBVIOUS
    <3>1. \A dom \in pod'.status \ pod.status : Has(pod', dom)
      BY <2>1 DEF Driven
    <3>2. \A dom \in Domains : dom \in pod'.status => Has(pod, dom)'
      BY <2>4, <2>5, <3>1 DEF StatusMeans
    <3>3. "profile" \in pod'.status => "profile" \in pod.status
      BY <1>3, <2>3
    <3> QED BY <2>2, <2>3, <3>2, <3>3 DEF StatusMeans
  <2>10. phase' = "admitted" /\ StatusMeans => DriversDone'
    <3> SUFFICES ASSUME phase' = "admitted", StatusMeans, NEW dom \in Domains,
                        pod'.inject[dom] = "true"
                 PROVE  Has(pod, dom)'
      BY DEF DriversDone
    <3>1. CASE dom \in pod.status
      BY <2>4, <2>5, <3>1 DEF StatusMeans
    <3>2. CASE dom \notin pod.status
      BY <2>1, <2>3, <2>4, <3>2 DEF Asks
    <3> QED BY <3>1, <3>2
  <2> QED BY <2>1, <2>2, <2>6, <2>7, <2>8, <2>9, <2>10 DEF ReachedInv
<1>7. CASE PassOver
  <2>1. /\ phase \in Webhooks /\ missed' = missed \cup {phase}
        /\ UNCHANGED <<pod, plugins, profile, missedBefore, changed, submissions>>
        /\ phase = "broker" => phase' = "profile"
        /\ phase = "profile" => phase' = "drivers"
        /\ phase = "drivers" => phase' = "admitted"
    BY <1>7 DEF PassOver, Webhooks, history
  <2>2. \A dom \in Domains : Has(pod, dom) => Has(pod, dom)'
    BY <1>2, <2>1 DEF Has
  <2>3. (BrokerDone => BrokerDone') /\ (ProfileDone => ProfileDone')
    BY <2>1 DEF BrokerDone, ProfileDone
  <2>4. (DriversDone => DriversDone') /\ (StatusMeans => StatusMeans')
    BY <2>1, <2>2 DEF DriversDone, StatusMeans
  <2> QED BY <2>1, <2>3, <2>4 DEF ReachedInv, Webhooks
<1>8. CASE Resubmit
  <2>1. /\ phase = "admitted" /\ phase' = "broker" /\ missed' = {}
        /\ missedBefore' = missedBefore \cup missed
        /\ UNCHANGED <<pod, plugins, profile, changed>>
    BY <1>8 DEF Resubmit
  <2>2. \A dom \in Domains : Has(pod, dom) => Has(pod, dom)'
    BY <1>2, <2>1 DEF Has
  <2>3. (BrokerDone => BrokerDone') /\ (ProfileDone => ProfileDone')
    BY <2>1 DEF BrokerDone, ProfileDone
  <2>4. (DriversDone => DriversDone') /\ (StatusMeans => StatusMeans')
    BY <2>1, <2>2 DEF DriversDone, StatusMeans
  <2>5. ~changed /\ missedBefore' = {} => BrokerDone /\ ProfileDone /\ DriversDone
    BY <2>1 DEF ReachedInv
  <2> QED BY <2>1, <2>3, <2>4, <2>5 DEF ReachedInv
<1>9. CASE ChangePlugins \/ ChangeProfile
  <2>1. changed' /\ UNCHANGED <<pod, phase, missed>>
    BY <1>9 DEF ChangePlugins, ChangeProfile, Change
  <2>2. (BrokerDone => BrokerDone') /\ (ProfileDone => ProfileDone')
    BY <2>1 DEF BrokerDone, ProfileDone
  <2> QED BY <2>1, <2>2 DEF ReachedInv
<1>10. CASE UNCHANGED vars
  <2>1. UNCHANGED <<pod, phase, plugins, profile, missed, missedBefore, changed, submissions>>
    BY <1>10 DEF vars
  <2>2. \A dom \in Domains : Has(pod, dom) => Has(pod, dom)'
    BY <1>2, <2>1 DEF Has
  <2>3. (BrokerDone => BrokerDone') /\ (ProfileDone => ProfileDone')
    BY <2>1 DEF BrokerDone, ProfileDone
  <2>4. (DriversDone => DriversDone') /\ (StatusMeans => StatusMeans')
    BY <2>1, <2>2 DEF DriversDone, StatusMeans
  <2> QED BY <2>1, <2>3, <2>4 DEF ReachedInv
<1> QED BY <1>4, <1>5, <1>6, <1>7, <1>8, <1>9, <1>10 DEF Next

LEMMA InjectionHolds == Spec => []InjectionInv
<1>1. InjectionInv /\ [Next]_vars => InjectionInv'
  BY SoundStays, ReachedStays DEF InjectionInv
<1> QED BY InitInjection, <1>1, PTL DEF Spec

-----------------------------------------------------------------------------
(* Theorems                                                                *)

(* The variables have their types, and no driver is injected without a port to
   listen on (driver.go:121-139). *)
THEOREM TypeCorrect == Spec => []TypeOK
<1>1. SoundInv => TypeOK
  <2> SUFFICES ASSUME SoundInv PROVE TypeOK
    OBVIOUS
  <2>1. Sound(pod) /\ pod \in Pods
    BY DEF SoundInv, Sound
  <2>2. ASSUME NEW i \in DOMAIN pod.containers
        PROVE  \/ pod.containers[i] = BrokerContainer
               \/ pod.containers[i] \in [driver : Drivers, port : Nat \ {NoPort}]
    <3>1. pod.containers[i] \in Containers
      BY <2>1, PodFields
    <3>2. CASE pod.containers[i].driver \in pod.injected /\ pod.containers[i].port # NoPort
      <4>1. pod.containers[i].driver \in Drivers
        BY <2>1, <3>2, PodFields
      <4> QED BY <3>1, <3>2, <4>1 DEF Containers
    <3> QED BY <2>1, <3>2 DEF Sound
  <2> QED BY <2>1, <2>2, PodFields DEF SoundInv, TypeOK
<1> QED BY <1>1, InjectionHolds, PTL DEF InjectionInv

(* No container and no readiness gate is injected twice (broker.go:101-142,
   driver.go:202-249). *)
THEOREM NothingTwice == Spec => []InjectedOnce
<1>1. SoundInv => InjectedOnce
  BY DEF SoundInv, Sound, InjectedOnce
<1> QED BY <1>1, InjectionHolds, PTL DEF InjectionInv

(* A protocol that counts as supported has a container that listens on the port
   which its annotation says (pod.go:472-512, agent.go:366-429). *)
THEOREM SupportedIsServed == Spec => []SupportedIsReachable
<1>1. SoundInv => SupportedIsReachable
  <2> SUFFICES ASSUME SoundInv,
                      NEW kind \in {g.protocol : g \in Plugins}
                                     \cup {g.deprecatedProtocol : g \in Plugins},
                      NEW v \in {d.version : d \in Drivers},
                      isProtocolSupported(plugins, pod.injected,
                                          [kind |-> kind, version |-> v])
               PROVE  \E d \in getDriverContainerAndPort(plugins, pod,
                                                          [kind |-> kind, version |-> v]) :
                         DriverContainer(d, pod.port[d]) \in ToSet(pod.containers)
    BY DEF SupportedIsReachable
  <2> DEFINE protocol == [kind |-> kind, version |-> v]
  <2>1. PICK d \in DriversFor(plugins, protocol) : d \in pod.injected
    BY DEF isProtocolSupported
  <2>2. /\ d \in pod.container
        /\ pod.port[d] > 0
        /\ \E i \in DOMAIN pod.containers :
              pod.containers[i] = DriverContainer(d, pod.port[d])
    BY <2>1 DEF SoundInv, Sound
  <2>3. d \in getDriverContainerAndPort(plugins, pod, protocol)
    BY <2>1, <2>2 DEF getDriverContainerAndPort
  <2> QED BY <2>2, <2>3 DEF ToSet
<1> QED BY <1>1, InjectionHolds, PTL DEF InjectionInv

(* An admitted pod has every driver of the installed plugins it asks for, once
   the profile and driver webhooks were reached (driver.go:96-149,
   profile.go:71-97). *)
THEOREM AskedGetsInjected == Spec => []AskedIsInjected
<1>1. InjectionInv => AskedIsInjected
  <2> SUFFICES ASSUME InjectionInv, phase = "admitted", ~changed, missed \subseteq {"broker"},
                      NEW g \in plugins,
                      \/ pod.inject[g.name] = "true"
                      \/ /\ pod.profile /\ g.name \in profile.drivers
                         /\ pod.inject[g.name] = "none"
               PROVE  ToSet(DriversOf(g)) \subseteq pod.injected
    BY DEF AskedIsInjected
  <2>1. "profile" \notin missed /\ "drivers" \notin missed
    OBVIOUS
  <2>2. ProfileDone /\ StatusMeans /\ DriversDone
    BY <2>1 DEF InjectionInv, ReachedInv
  <2>3. pod.inject[g.name] = "true"
    BY <2>2 DEF ProfileDone, StatusMeans
  <2>4. plugins \subseteq Plugins
    BY DEF InjectionInv, SoundInv
  <2>5. g.name \in Domains
    BY <2>4 DEF Domains, PluginNames
  <2>6. InjectionOrder(g.name) = DriversOf(g)
    BY <2>4, OrderOfADomain
  <2> QED BY <2>2, <2>3, <2>5, <2>6 DEF DriversDone, Has
<1> QED BY <1>1, InjectionHolds, PTL

(* A pod that passed all webhooks passes them again unchanged. *)
THEOREM SecondPassChangesNothing == Spec => SecondPassIsIdle
<1>1. InjectionInv /\ [Next]_vars
      => [submissions > 1 /\ ~changed /\ missedBefore = {} => pod' = pod]_vars
  <2> SUFFICES ASSUME InjectionInv, Next, submissions > 1, ~changed, missedBefore = {}
               PROVE  pod' = pod
    BY DEF vars
  <2>1. /\ Sound(pod) /\ plugins \subseteq Plugins
        /\ profile.drivers \subseteq PluginNames
    BY DEF InjectionInv, SoundInv
  <2>2. BrokerDone /\ ProfileDone /\ DriversDone
    BY DEF InjectionInv, ReachedInv
  <2>3. CASE InjectBroker
    BY <2>1, <2>2, <2>3, BrokerStep DEF BrokerDone
  <2>4. CASE InjectProfile
    BY <2>1, <2>2, <2>4, ProfileStep DEF ProfileDone
  <2>5. CASE InjectDrivers
    <3>1. \A dom \in Domains : Asks(pod, dom) => Has(pod, dom)
      BY <2>2 DEF DriversDone, Asks
    <3> QED BY <2>1, <2>5, <3>1, DriversStep
  <2>6. CASE PassOver \/ Resubmit \/ ChangePlugins \/ ChangeProfile
    BY <2>6 DEF PassOver, Resubmit, ChangePlugins, ChangeProfile, Change
  <2> QED BY <2>3, <2>4, <2>5, <2>6 DEF Next
<1> QED BY <1>1, InjectionHolds, PTL DEF Spec, SecondPassIsIdle
=============================================================================
