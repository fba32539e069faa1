----------------------------- MODULE MCRouting ------------------------------
(* Routing: the outbound registry with its leases, a balancer's choice     *)
(* among its members (which the registry leaves open), the rules and their *)
(* two evaluations, the geodata they are built from, and the local TUN.    *)
(* They share no state here, so one of them runs, the others stand still.  *)
EXTENDS OutboundRegistry, Balancer, TunManager, GeoData, RouteRules, TLC

CONSTANTS direct, upstream, bal

VARIABLE part

otherVars == <<balancerVars, tunVars, geoVars, routeVars>>
allVars == <<vars, otherVars, part>>

MCMembersOf == [b \in {bal} |-> {direct, upstream}]
\* A bare server, the balancer as default, and a row set
\* Reload must refuse: the balancer's member is missing.
MCConfigs == {<<{direct}, direct>>, <<{direct, upstream, bal}, bal>>,
              <<{direct, bal}, direct>>}

\* Below the recovery threshold of 9 (and at it), and above the threshold of 10.
MCRtts == {9, 11}

\* "d" is a domain, "s" a name below it, "x" one that only contains it and shares its
\* address with "s"; "k" is a keyword without a dot.  "a3" is an address without a name.
MCResolvesTo == [d |-> "a1", s |-> "a2", x |-> "a2"]
MCUnder == [d |-> {"d", "s"}, s |-> {"s"}, x |-> {"x"}, k |-> {}]
MCContaining == [d |-> {"d", "s", "x"}, s |-> {"s"}, x |-> {"x"}, k |-> {"s", "x"}]
MCDotless == {"k"}

\* Rows that overlap in their names, differ in one condition each, sit in the folder or
\* outside it, do not compile, or cannot be turned into a classifier.
Base == [id |-> 0, inFolder |-> FALSE, prio |-> 2, user |-> "", net |-> "", port |-> "",
         src |-> {}, dom |-> {}, ip |-> {}, out |-> "direct", bad |-> FALSE]
Plain(kind, val) == [kind |-> kind, val |-> val, geo |-> FALSE]
Geo(kind, val) == [kind |-> kind, val |-> val, geo |-> TRUE]
MCRows == {
    [Base EXCEPT !.id = 1, !.prio = 1, !.inFolder = TRUE, !.dom = {Plain("domain", "d")}, !.out = "vpn"],
    [Base EXCEPT !.id = 2, !.dom = {Plain("full", "s"), Plain("full", "x")}, !.out = "block"],
    [Base EXCEPT !.id = 3, !.dom = {Plain("domain", "s")}, !.out = "vpn"],
    [Base EXCEPT !.id = 4, !.dom = {Plain("domain", "d")}, !.out = "vpn", !.net = "tcp"],
    [Base EXCEPT !.id = 5, !.ip = {<<"a3", 4>>}, !.out = "vpn", !.port = "web"],
    [Base EXCEPT !.id = 6, !.inFolder = TRUE, !.ip = {<<"a2", 4>>, <<"a3", 6>>}, !.out = "block", !.src = {4}],
    [Base EXCEPT !.id = 7, !.dom = {Geo("full", "d"), Geo("regexp", "x")}, !.src = {6}],
    [Base EXCEPT !.id = 8, !.out = "vpn", !.user = "lan", !.prio = 4],
    [Base EXCEPT !.id = 9, !.out = "block", !.user = "other", !.prio = 1],
    [Base EXCEPT !.id = 10, !.out = "vpn2", !.dom = {Plain("domain", "x")}, !.prio = 4],
    [Base EXCEPT !.id = 11, !.dom = {Plain("regexp", "d")}, !.prio = 4],
    [Base EXCEPT !.id = 12, !.bad = TRUE, !.dom = {Plain("domain", "x")}, !.prio = 4],
    [Base EXCEPT !.id = 13, !.dom = {Geo("keyword", "k"), Geo("domain", "x")}, !.src = {4, 6}, !.out = "block", !.prio = 4],
    [Base EXCEPT !.id = 14, !.src = {6}, !.port = "other", !.out = "block", !.prio = 3],
    [Base EXCEPT !.id = 15, !.dom = {Geo("keyword", "k")}, !.prio = 3],
    [Base EXCEPT !.id = 16, !.dom = {Geo("keyword", "x"), Geo("domain", "s")}, !.prio = 1] }

MCInit ==
    /\ Init /\ BalancerInit /\ TunInit /\ GeoInit /\ RouteInit
    /\ part \in {"registry", "balancer", "tun", "geo", "rules"}
    /\ part # "registry" => defaultTag = direct
    /\ part # "balancer" => mode = "alive" /\ up = {} /\ \A m \in MemberIds : rtt[m] = 9
    /\ part # "geo" => dir["target"] = NoFile

RegistryPart == part = "registry" /\ Next /\ UNCHANGED <<otherVars, part>>
BalancerPart ==
    part = "balancer" /\ BalancerNext
    /\ UNCHANGED <<vars, tunVars, geoVars, routeVars, part>>
TunPart ==
    part = "tun" /\ TunNext
    /\ UNCHANGED <<vars, balancerVars, geoVars, routeVars, part>>
GeoPart ==
    part = "geo" /\ GeoNext
    /\ UNCHANGED <<vars, balancerVars, tunVars, routeVars, part>>
RulesPart ==
    part = "rules" /\ RouteNext
    /\ UNCHANGED <<vars, balancerVars, tunVars, geoVars, part>>
MCNext == RegistryPart \/ BalancerPart \/ TunPart \/ GeoPart \/ RulesPart

MCSpec ==
    /\ MCInit /\ [][MCNext]_allVars
    /\ Fairness /\ BalancerFairness /\ GeoFairness
=============================================================================
