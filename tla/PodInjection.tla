---------------------------- MODULE PodInjection ----------------------------
(***************************************************************************)
(* The mutating webhooks that a pod passes when it is created: the         *)
(* BrokerInjector, the ProfileInjector and the DriverInjector              *)
(* (pkg/controller/sidecar/v2beta1/broker.go, profile.go, driver.go), in   *)
(* the order in which deploy/atomix-controller.yaml registers them.  A     *)
(* webhook that cannot be reached in time is passed over (failurePolicy    *)
(* Ignore); one that answers with an error refuses the pod.                *)
(*                                                                         *)
(* One pod is followed.  It is submitted, admitted, and may be submitted   *)
(* again from its own manifest, with the annotations and containers of     *)
(* the first time.  StoragePlugins and the StorageProfile of the pod come  *)
(* and change in between.                                                  *)
(***************************************************************************)
EXTENDS Integers, StoragePlugins, Ports

CONSTANTS
    Plugins,            \* the StoragePlugins there can be
    UserPorts,          \* values of port annotations that users write
    MaxSubmissions,     \* times the pod is submitted
    MaxChanges          \* changes of the plugins and of the profile

NoPort == 0             \* no annotation
BadPort == -1           \* an annotation that is not a number
basePort == 5680

ASSUME BoundsAssumption == MaxSubmissions \in Nat \ {0} /\ MaxChanges \in Nat
\* A container that listens on a number below 1 is refused by the API server.
ASSUME PortsAssumption ==
    NoPort \in UserPorts /\ UserPorts \subseteq Nat \cup {BadPort}
\* No plugin has the name of a domain of the other two webhooks.
ASSUME PluginsAssumption ==
    /\ IsFiniteSet(Plugins)
    /\ \A g \in Plugins : /\ g.name \notin {"broker", "profile"}
                          /\ g.drivers \in Seq(ToSet(g.drivers))
                          /\ g.deprecatedVersions \in Seq(ToSet(g.deprecatedVersions))
    /\ \A g, h \in Plugins : g.name = h.name \/ g.protocol = h.protocol => g = h

VARIABLES
    pod,            \* the pod: its annotations, containers and readiness gates
    phase,          \* the webhook that is called next
    plugins,        \* the StoragePlugins that are installed
    profile,        \* the drivers of the StorageProfile, NoProfile without one
    missed,         \* history: webhooks that were passed over this time,
    missedBefore,   \* or when the pod was submitted earlier;
    changed,        \* have plugins or profile changed since the first time?
    submissions,
    changes

vars == <<pod, phase, plugins, profile, missed, missedBefore, changed,
          submissions, changes>>
history == <<missedBefore, changed, submissions, changes>>

Webhooks == {"broker", "profile", "drivers"}
PluginNames == {g.name : g \in Plugins}
Domains == PluginNames \cup {"broker"}
Drivers == UNION {ToSet(DriversOf(g)) : g \in Plugins}
NoProfile == [found |-> FALSE, drivers |-> {}]

\* The broker webhook parses "1" as true (strconv.ParseBool), the driver webhook
\* compares with "true"; any other value is to both of them like one of these.
InjectValues == {"none", "true", "1"}
ParsesTrue == {"true", "1"}

\* A driver's container, by its driver and the port it listens on.
DriverContainer(d, port) == [driver |-> d, port |-> port]
BrokerContainer == DriverContainer([plugin |-> "broker", version |-> "none"], NoPort)

\* inject is the value of "<domain>/inject", status the set of domains whose
\* "<domain>/status" is "injected", injected, container and port the status,
\* container and port annotations of drivers, appPort a "<name>/port"
\* annotation whose domain has no dot.
Submitted(inject, ports, appPort, named) ==
    [inject |-> inject, status |-> {}, injected |-> {}, container |-> {},
     port |-> ports, appPort |-> appPort, profile |-> named,
     containers |-> <<>>, gates |-> 0]

-----------------------------------------------------------------------------
(* What the webhooks compute. *)

\* Mutant: the broker is injected again.
InjectBrokerAlways(p) ==
    [p EXCEPT !.containers = Append(@, BrokerContainer),
              !.gates = @ + 1,
              !.status = @ \cup {"broker"}]

WithBroker(p) ==
    IF "broker" \in p.status THEN p
    ELSE [p EXCEPT !.containers = Append(@, BrokerContainer),
                   !.gates = @ + 1,
                   !.status = @ \cup {"broker"}]

\* An inject annotation that the user wrote is kept, whatever its value.
WithProfile(p) ==
    [p EXCEPT !.inject = [dom \in Domains |->
                            IF @[dom] = "none" /\ dom \in profile.drivers
                            THEN "true" ELSE @[dom]],
              !.status = @ \cup {"profile"}]

\* The port annotations that getNextPort looks at: those of drivers of
\* installed plugins, and those whose domain has no dot.
PortsSeen(p) ==
    ({p.port[d] : d \in {e \in Drivers : isDriver(plugins, e)}}
        \cup {p.appPort}) \ {NoPort}

\* The port of a driver: the one its annotation says, else the next one.
getNextPort(p, d) ==
    IF p.port[d] # NoPort THEN {p.port[d]}
    ELSE IF BadPort \in PortsSeen(p) THEN {BadPort}
    ELSE NextPorts(basePort, PortsSeen(p))

\* Mutant: the port annotation is not written.
InjectWithoutPort(p, d, port) ==
    IF d \in p.injected THEN p
    ELSE [p EXCEPT !.containers = Append(@, DriverContainer(d, port)),
                   !.injected = @ \cup {d},
                   !.container = @ \cup {d}]

injectDriver(p, d, port) ==
    IF d \in p.injected THEN p
    ELSE [p EXCEPT !.containers = Append(@, DriverContainer(d, port)),
                   !.injected = @ \cup {d},
                   !.container = @ \cup {d},
                   !.port[d] = port]

Asks(p, dom) == p.inject[dom] = "true" /\ dom \notin p.status

\* The drivers of the installed plugin of a domain, none for another domain.
InjectionOrder(dom) ==
    IF \E g \in plugins : g.name = dom
    THEN DriversOf(CHOOSE g \in plugins : g.name = dom)
    ELSE <<>>

InjectNext(pods, d) ==
    UNION {{injectDriver(p, d, port) : port \in getNextPort(p, d)} : p \in pods}

InjectAll(p, drivers) == FoldLeft(InjectNext, {p}, drivers)

\* The pods that a pod may become by the visit of one inject annotation.
Visit(pods, dom) ==
    UNION {IF Asks(p, dom)
           THEN {[q EXCEPT !.status = @ \cup {dom}] :
                    q \in InjectAll(p, InjectionOrder(dom))}
           ELSE {p} : p \in pods}

VisitAll(p, domains) == FoldLeft(Visit, {p}, domains)

\* Mutant: the error of getNextPort is dropped.
IgnorePortError(p) == FALSE

\* The visit ends with an error as soon as it needs a port that is no number.
PortError(p) ==
    \E dom \in Domains : Asks(p, dom) /\
        \E d \in ToSet(InjectionOrder(dom)) : BadPort \in getNextPort(p, d)

\* Mutant: the search ends with the first domain that is visited.
FirstDomainOnly(p) ==
    {IF q.injected = p.injected THEN p ELSE q :
        q \in UNION {Visit({p}, dom) : dom \in Domains}}

\* Every answer to the pod: the annotations are visited in any order, and
\* without a driver to inject no patch is sent, so no status is kept either.
WithDrivers(p) ==
    {IF q.injected = p.injected THEN p ELSE q :
        q \in UNION {VisitAll(p, order) : order \in SetToSeqs(Domains)}}

-----------------------------------------------------------------------------
(* A pod is submitted as its user wrote it, with at most one port annotation.
   Whether a profile exists that the pod does not name makes no difference. *)

Init ==
    /\ \E inject \in [Domains -> InjectValues], named \in BOOLEAN,
          d \in Drivers, port, appPort \in UserPorts :
          /\ port = NoPort \/ appPort = NoPort
          /\ pod = Submitted(inject, [[e \in Drivers |-> NoPort] EXCEPT ![d] = port],
                             appPort, named)
    /\ phase = "broker"
    /\ plugins \in SUBSET Plugins
    /\ profile \in {NoProfile} \cup
                   {[found |-> TRUE, drivers |-> ds] : ds \in SUBSET PluginNames}
    /\ profile = NoProfile \/ pod.profile
    /\ missed = {}
    /\ missedBefore = {}
    /\ changed = FALSE
    /\ submissions = 1
    /\ changes = 0

-----------------------------------------------------------------------------
(* The webhooks *)

InjectBroker ==
    /\ phase = "broker"
    /\ phase' = "profile"
    /\ pod' = IF pod.inject["broker"] \in ParsesTrue THEN WithBroker(pod) ELSE pod
    /\ UNCHANGED <<plugins, profile, missed, history>>

\* A pod that names a profile that does not exist is refused.
InjectProfile ==
    /\ phase = "profile"
    /\ LET asked == pod.profile /\ "profile" \notin pod.status IN
         /\ phase' = IF asked /\ ~profile.found THEN "refused" ELSE "drivers"
         /\ pod' = IF asked /\ profile.found THEN WithProfile(pod) ELSE pod
    /\ UNCHANGED <<plugins, profile, missed, history>>

InjectDrivers ==
    /\ phase = "drivers"
    /\ IF PortError(pod)
         THEN phase' = "refused" /\ UNCHANGED pod
         ELSE phase' = "admitted" /\ pod' \in WithDrivers(pod)
    /\ UNCHANGED <<plugins, profile, missed, history>>

\* The call does not come back in time, and the pod goes on as it was.
PassOver ==
    /\ phase \in Webhooks
    /\ missed' = missed \cup {phase}
    /\ phase' = CASE phase = "broker" -> "profile"
                  [] phase = "profile" -> "drivers"
                  [] phase = "drivers" -> "admitted"
    /\ UNCHANGED <<pod, plugins, profile, history>>

-----------------------------------------------------------------------------
(* The environment *)

\* The pod is created again from the manifest of the admitted one.
Resubmit ==
    /\ phase = "admitted"
    /\ submissions < MaxSubmissions
    /\ submissions' = submissions + 1
    /\ phase' = "broker"
    /\ missed' = {}
    /\ missedBefore' = missedBefore \cup missed
    /\ UNCHANGED <<pod, plugins, profile, changed, changes>>

Change ==
    /\ changes < MaxChanges
    /\ changes' = changes + 1
    /\ changed' = TRUE
    /\ UNCHANGED <<pod, phase, missed, missedBefore, submissions>>

ChangePlugins ==
    /\ Change
    /\ \E g \in Plugins : plugins' = IF g \in plugins THEN plugins \ {g}
                                     ELSE plugins \cup {g}
    /\ UNCHANGED profile

ChangeProfile ==
    /\ Change
    /\ profile' = IF profile.found THEN NoProfile
                  ELSE [found |-> TRUE, drivers |-> PluginNames]
    /\ UNCHANGED plugins

Next ==
    \/ InjectBroker
    \/ InjectProfile
    \/ InjectDrivers
    \/ PassOver
    \/ Resubmit
    \/ ChangePlugins
    \/ ChangeProfile

Spec == Init /\ [][Next]_vars

-----------------------------------------------------------------------------
(* Properties *)

(* Type correctness, and no driver is injected without a port to listen on: a
   port annotation that cannot be parsed refuses the pod (driver.go:121-139,
   driver.go:164-197). *)
TypeOK ==
    /\ pod.inject \in [Domains -> InjectValues]
    /\ pod.status \subseteq Domains \cup {"profile"}
    /\ pod.injected \subseteq Drivers
    /\ pod.container \subseteq Drivers
    /\ pod.port \in [Drivers -> Int]
    /\ pod.appPort \in UserPorts
    /\ pod.profile \in BOOLEAN
    /\ \A i \in DOMAIN pod.containers :
          \/ pod.containers[i] = BrokerContainer
          \/ pod.containers[i] \in [driver : Drivers, port : Nat \ {NoPort}]
    /\ pod.gates \in Nat
    /\ phase \in Webhooks \cup {"admitted", "refused"}
    /\ plugins \subseteq Plugins
    /\ profile \in [found : BOOLEAN, drivers : SUBSET PluginNames]
    /\ missed \subseteq Webhooks
    /\ missedBefore \subseteq Webhooks
    /\ changed \in BOOLEAN
    /\ submissions \in 1..MaxSubmissions
    /\ changes \in 0..MaxChanges

(* No container and no readiness gate is injected twice, however often the pod
   passes the webhooks and whichever of them are passed over: the status
   annotation comes with the container in one patch (broker.go:98-142,
   driver.go:199-249). *)
InjectedOnce ==
    /\ \A i, j \in DOMAIN pod.containers :
          pod.containers[i].driver = pod.containers[j].driver => i = j
    /\ pod.gates <= 1

(* What the PodReconciler takes for a supported protocol (pod.go:472-512) the
   AgentReconciler finds a container and a port for (agent.go:366-429), and the
   pod has that container, listening on that port, although the plugins may
   have changed since the pod was admitted. *)
SupportedIsReachable ==
    \A kind \in {g.protocol : g \in Plugins} \cup {g.deprecatedProtocol : g \in Plugins},
       v \in {d.version : d \in Drivers} :
        LET protocol == [kind |-> kind, version |-> v] IN
        isProtocolSupported(plugins, pod.injected, protocol) =>
            \E d \in getDriverContainerAndPort(plugins, pod, protocol) :
                DriverContainer(d, pod.port[d]) \in ToSet(pod.containers)

(* An admitted pod has every driver of the installed plugins it asks for, itself
   or through its profile, once the profile and driver webhooks were reached,
   whatever was passed over when the pod was submitted before: no status
   annotation of an earlier time stands in the way (driver.go:96-149,
   profile.go:71-97). *)
AskedIsInjected ==
    /\ phase = "admitted"
    /\ ~changed
    /\ missed \subseteq {"broker"}
    => \A g \in plugins :
          \/ pod.inject[g.name] = "true"
          \/ pod.profile /\ g.name \in profile.drivers /\ pod.inject[g.name] = "none"
          => ToSet(DriversOf(g)) \subseteq pod.injected

(* A pod that passed all webhooks passes them again unchanged while plugins and
   profile stay the same: what they inject is injected at once. *)
SecondPassIsIdle ==
    [][/\ submissions > 1
       /\ ~changed
       /\ missedBefore = {}
       => pod' = pod]_vars
=============================================================================
