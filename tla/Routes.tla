------------------------------- MODULE Routes -------------------------------
(***************************************************************************)
(* The routes of an app on their way: from the flags of create and update  *)
(* to what the receptor keeps for the routers, and from there to what ltc  *)
(* list and ltc status show.                                               *)
(*                                                                         *)
(* The receptor keeps what it is given, one entry per router.              *)
(***************************************************************************)
EXTENDS Integers, SequencesExt, FiniteSetsExt

CONSTANTS
    Nil,    \* no routes of a kind, which is not the same as none
    Own     \* the app's own hostname

Routers == {"cf-router", "tcp-router", "diego-ssh"}

Each(routes) == IF routes = Nil THEN <<>> ELSE routes
\* Those on some ports, in the order they come in.
OnPorts(routes, ports) ==
    LET all == Each(routes)
    IN  FlattenSeq([i \in DOMAIN all |-> IF all[i].port \in ports THEN <<all[i]>> ELSE <<>>])
Hostnames(routes) == [i \in DOMAIN routes |-> routes[i].from]

\* Faulty variants: every flag is a route of its own, with its hostname or with
\* all those of its port.
RoutesPerFlag(overrides) ==
    [i \in DOMAIN overrides |-> [hostnames |-> <<overrides[i].from>>, port |-> overrides[i].port]]
RoutesPerFlagTogether(overrides) ==
    [i \in DOMAIN overrides |-> [hostnames |-> Hostnames(OnPorts(overrides, {overrides[i].port})),
                                 port |-> overrides[i].port]]
\* One route per container port, in any order (they come out of a map), with all
\* the hostnames that go there, as often as the flags name them.
RoutesPerPort(overrides) ==
    SetToSeq({[hostnames |-> Hostnames(OnPorts(overrides, {n})), port |-> n] :
                  n \in {r.port : r \in ToSet(overrides)}})

BuildRoutes(noRoutes, overrides, tcp) ==
    [cf |-> IF noRoutes THEN <<>> ELSE IF overrides = <<>> THEN Nil ELSE RoutesPerPort(overrides),
     tcp |-> IF noRoutes \/ tcp = <<>> THEN Nil ELSE tcp,
     ssh |-> Nil]

\* Every exposed port gets a hostname with its number, the primary one also
\* the app's own; one that is exposed twice gets them twice.
BuildDefaultRoutingInfo(exposed, primary) ==
    [i \in DOMAIN exposed |->
        [hostnames |-> (IF exposed[i] = primary THEN <<Own>> ELSE <<>>) \o <<exposed[i]>>,
         port |-> exposed[i]]]

BuildRoutesWithDefaults(noRoutes, overrides, tcp, exposed, primary) ==
    LET routes == BuildRoutes(noRoutes, overrides, tcp)
    IN IF routes.cf = Nil /\ routes.tcp = Nil
       THEN [routes EXCEPT !.cf = BuildDefaultRoutingInfo(exposed, primary)] ELSE routes

\* What is nil is not sent; what is empty is.
RoutingInfo(routes) ==
    LET of(router) == CASE router = "cf-router" -> routes.cf
                        [] router = "tcp-router" -> routes.tcp
                        [] router = "diego-ssh" -> routes.ssh
    IN [router \in {x \in Routers : of(x) # Nil} |-> of(router)]

RoutesFromRoutingInfo(info) ==
    LET of(router) == IF router \in DOMAIN info THEN info[router] ELSE Nil
    IN [cf |-> of("cf-router"), tcp |-> of("tcp-router"), ssh |-> of("diego-ssh")]

-----------------------------------------------------------------------------
\* The last route of a port stands for all of them.
HostnamesByPort(routes, n) ==
    LET on == OnPorts(routes, {n}) IN IF on = <<>> THEN <<>> ELSE Last(on).hostnames
To(froms, n) == [i \in DOMAIN froms |-> [from |-> froms[i], port |-> n]]

\* ltc list: route by route, those on ports the app exposes.
GetRoutes(info, ports) ==
    LET routes == RoutesFromRoutingInfo(info)
        cf == OnPorts(routes.cf, ports)
    IN [http |-> FlattenSeq([i \in DOMAIN cf |-> To(HostnamesByPort(routes.cf, cf[i].port), cf[i].port)]),
        tcp |-> OnPorts(routes.tcp, ports)]

\* The numbers of a set from the least to the greatest.
Sorted(S) == CHOOSE s \in [1 .. Cardinality(S) -> S] : \A i, j \in DOMAIN s : i < j => s[i] < s[j]

\* ltc status: port by port.
PrintAppRoutes(info, ports) ==
    LET routes == RoutesFromRoutingInfo(info)
        sorted == Sorted(ports)
    IN [http |-> FlattenSeq([i \in DOMAIN sorted |-> To(HostnamesByPort(routes.cf, sorted[i]), sorted[i])]),
        tcp |-> FlattenSeq([i \in DOMAIN sorted |-> OnPorts(routes.tcp, {sorted[i]})])]

\* The word "Routes" is printed with the first route, if it is one of the first port.
SaysRoutes(info, ports) ==
    LET routes == RoutesFromRoutingInfo(info)
    IN ports # {} /\ \/ HostnamesByPort(routes.cf, Min(ports)) # <<>>
                     \/ OnPorts(routes.tcp, {Min(ports)}) # <<>>

\* How often x is there.
Times(s, x) == Cardinality({i \in DOMAIN s : s[i] = x})
=============================================================================
