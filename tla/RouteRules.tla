----------------------------- MODULE RouteRules -----------------------------
(***************************************************************************)
(* One table of routing rules, evaluated twice.                            *)
(*                                                                         *)
(* The panel's routing_rules rows, ordered with their folders              *)
(* (internal/rulesdb), are compiled for the userspace dispatcher           *)
(* (node/rules.go, node/dispatcher.go) and, for the local TUN's user, into *)
(* an nftables classifier whose domain rules are fed by ChinaDNS           *)
(* (internal/localtun/policy.go, selective_linux.go).  The dispatcher sees *)
(* a name or a literal address, the kernel an address only: ChinaDNS puts  *)
(* the addresses of a name into the nft sets of the group that lists it.   *)
(*                                                                         *)
(* A rule's sources are represented by the families they have entries in.  *)
(* A rule has at most one geosite list.  The local TUN has AutoRoute on.   *)
(* A tunnelled IPv6 flow is rejected so that the client turns to IPv4,     *)
(* which is the tunnel verdict here.  Every name has been asked for, so    *)
(* the nft sets are as full as they can be.                                *)
(***************************************************************************)
EXTENDS Naturals, FiniteSets, Sequences, SequencesExt

CONSTANTS
    RowPool,      \* the rows the panel may insert
    MaxRows,      \* bound: rows in the table
    RouteUser,    \* the local TUN's user
    Fallback,     \* that user's outbound_tag: "direct", "block" or a tunnel
    MaxGroups,    \* maxChinaDNSGroups (6 in the code)
    ResolvesTo,   \* the address DNS gives each name, in both families
    Under,        \* for the value of a pattern: that name and the names below it
    Containing,   \* ... and the names it is a part of, or that it matches as a regexp
    Dotless       \* values without a dot

Names == DOMAIN ResolvesTo
Addresses == {ResolvesTo[n] : n \in Names} \cup UNION {{e[1] : e \in r.ip} : r \in RowPool}
Families == {4, 6}
FolderPrios == {1, 3}                \* above and below the ungrouped rows

\* A new flow: the host the dispatcher is given, and what both see besides.
Packets == [host : Names \cup Addresses, fam : Families, net : {"tcp", "udp"},
            port : {"web", "other"}, listed : BOOLEAN]

\* The destination address the kernel sees.
Daddr(p) == IF p.host \in Names THEN ResolvesTo[p.host] ELSE p.host

VARIABLES
    table,      \* the rows
    folder,     \* the folder: its priority and whether it is enabled
    snapshot,   \* routingStore: the rules last published, or the mark that none were
    ingress     \* the running local TUN: the rules it was built from and its classifier

routeVars == <<table, folder, snapshot, ingress>>

-----------------------------------------------------------------------------
(* Loading and matching: rulesdb.Load, CompiledRule.Match, Dispatcher.ResolveRule *)

\* ORDER BY gp, ip, id: an ungrouped row's own priority is global, a folder's rows share
\* the folder's and are ordered by theirs.
RowKey(f, r) ==
    <<IF r.inFolder THEN f.prio ELSE r.prio, IF r.inFolder THEN r.prio ELSE 0, r.id>>

KeyLess(a, b) ==
    \/ a[1] < b[1]
    \/ a[1] = b[1] /\ a[2] < b[2]
    \/ a[1] = b[1] /\ a[2] = b[2] /\ a[3] < b[3]

Load(t, f) ==
    SetToSortSeq({r \in t : r.inFolder => f.enabled},
                 LAMBDA a, b : KeyLess(RowKey(f, a), RowKey(f, b)))

\* parseDomainMatcher and domainRuleToMatcher: full is the name itself (a bare value is
\* one too), domain a suffix, keyword (a geosite's plain) and regexp anything they occur in.
Matches(pattern, host) ==
    CASE pattern.kind = "full" -> host = pattern.val
      [] pattern.kind = "domain" -> host \in Under[pattern.val]
      [] OTHER -> host \in Containing[pattern.val]

\* AND across the categories, OR within each, an empty one matching everything.  Address
\* lists match a literal host only.
Match(r, p, user) ==
    /\ r.user \in {"", user}
    /\ r.net \in {"", p.net}
    /\ r.port \in {"", p.port}
    /\ r.src = {} \/ (p.fam \in r.src /\ p.listed)
    /\ r.dom = {} \/ \E pattern \in r.dom : Matches(pattern, p.host)
    /\ r.ip = {} \/ (p.host \notin Names /\ <<p.host, p.fam>> \in r.ip)

\* The first rule that matches, or the fallback.
ResolveRule(rules, p, user) ==
    LET hit == {i \in DOMAIN rules : Match(rules[i], p, user)} IN
    IF hit = {} THEN Fallback ELSE rules[CHOOSE i \in hit : \A j \in hit : i <= j].out

-----------------------------------------------------------------------------
(* The classifier: localTunnelOutbound, buildIngressPolicy, startManagedDNS, nftRuleLines *)

Tunnels(rules) == {rules[i].out : i \in DOMAIN rules} \ {"direct", "block"}
Kept(rules) == SelectSeq(rules, LAMBDA r : r.user \in {"", RouteUser})

\* Fault: rules that differ in their network and ports are merged too.
MergeableAnyPort(a, b) ==
    a.dom # {} /\ b.dom # {} /\ a.ip = {} /\ b.ip = {} /\ a.out = b.out /\ a.src = b.src

\* mergeableDomainRules
Mergeable(a, b) ==
    /\ a.dom # {} /\ b.dom # {} /\ a.ip = {} /\ b.ip = {}
    /\ a.out = b.out /\ a.net = b.net /\ a.port = b.port /\ a.src = b.src

BuildError == [ok |-> FALSE, rules |-> <<>>]

\* ingressDomain and appendGeoDomains: what is left of a rule's patterns is a list of
\* suffixes, whatever their kind was; a geosite's regexps and dotless keywords are skipped.
NameSuffixes(r) ==
    {pattern.val : pattern \in
        {q \in r.dom : q.geo => /\ q.kind # "regexp"
                                /\ q.kind = "keyword" => q.val \notin Dotless}}

\* A regexp or keyword of the rule itself has no form in ChinaDNS, a geosite of which nothing
\* is left is refused, and so is a token that does not parse.
HasIngressForm(r) ==
    /\ ~r.bad
    /\ \A q \in r.dom : ~q.geo => q.kind \in {"domain", "full"}
    /\ r.dom # {} => NameSuffixes(r) # {}

IngressRule(r) == [r EXCEPT !.dom = NameSuffixes(r)]

\* One iteration of buildIngressPolicy.  A domain rule joins the rule before it when the
\* two differ in their domains only; each one left takes a ChinaDNS group.  A rule
\* without a form here, or with domains and addresses, is refused.
BuildRule(policy, r) ==
    LET rule == IngressRule(r)
        last == Last(policy.rules)
        groups == Cardinality({i \in DOMAIN policy.rules : policy.rules[i].dom # {}}) IN
    CASE ~policy.ok \/ ~HasIngressForm(r) \/ (r.dom # {} /\ r.ip # {}) -> BuildError
      [] OTHER ->
            IF policy.rules # <<>> /\ Mergeable(last, rule)
            THEN [policy EXCEPT !.rules = Append(Front(@), [last EXCEPT !.dom = @ \cup rule.dom])]
            ELSE IF r.dom # {} /\ groups = MaxGroups THEN BuildError
            ELSE [policy EXCEPT !.rules = Append(@, rule)]

BuildIngressPolicy(rules) == FoldLeft(BuildRule, [ok |-> TRUE, rules |-> <<>>], Kept(rules))

\* The group ChinaDNS answers a name in: the last declared one with a suffix of it, and the
\* declarations are reversed.  Its answers go into that rule's sets and no other's.
Owner(rules, n) ==
    LET in == {i \in DOMAIN rules : \E val \in rules[i].dom : n \in Under[val]} IN
    IF in = {} THEN 0 ELSE CHOOSE i \in in : \A j \in in : i <= j

\* The addresses in a domain rule's sets.
SetOf(rules, i) == {ResolvesTo[n] : n \in {m \in Names : Owner(rules, m) = i}}

\* nftRuleLines: the families a rule has a line for.
LineFamilies(r) ==
    IF r.dom = {} /\ r.ip = {}
    THEN IF r.src = {} THEN Families ELSE r.src
    ELSE {f \in Families : (r.dom # {} \/ \E e \in r.ip : e[2] = f) /\ r.src \subseteq {f}}

LineMatches(rules, i, p) ==
    LET r == rules[i] IN
    /\ p.fam \in LineFamilies(r)
    /\ r.net \in {"", p.net} /\ r.port \in {"", p.port}
    /\ r.src = {} \/ p.listed
    /\ r.dom # {} => Daddr(p) \in SetOf(rules, i)
    /\ r.ip # {} => <<Daddr(p), p.fam>> \in r.ip

\* nftConfig's classify chain: the first line that matches, or the fallback's.
Classify(rules, p) ==
    LET hit == {i \in DOMAIN rules : LineMatches(rules, i, p)} IN
    IF hit = {} THEN Fallback ELSE rules[CHOOSE i \in hit : \A j \in hit : i <= j].out

-----------------------------------------------------------------------------
(* Edits, and the SIGHUP that follows each one *)

NoTun == [rules |-> <<>>, built |-> BuildError]

RouteInit ==
    /\ table = {}
    /\ folder = [prio |-> 1, enabled |-> TRUE]
    /\ snapshot = <<>>
    /\ ingress = NoTun

\* compileRule accepts every rule.
Compiles(rules) == \A i \in DOMAIN rules : ~rules[i].bad

\* What publishRouting leaves in the store: the rows as loaded, built into a dispatcher,
\* or the published ones when a rule does not compile.
Published(t, f) == IF Compiles(Load(t, f)) THEN Load(t, f) ELSE snapshot

\* publishRouting and reconcileLocalTUN.  prepareEnabledConfig wants exactly one tunnel
\* outbound and buildIngressPolicy a classifier; only then is the running generation stopped.
Sighup(t, f) ==
    LET rules == Published(t, f)
        built == BuildIngressPolicy(rules)
        tunnels == Tunnels(Kept(rules)) IN
    /\ snapshot' = rules
    /\ ingress' = IF \/ Cardinality(tunnels) > 1
                     \/ tunnels = {} /\ Fallback \in {"direct", "block"}
                     \/ ~built.ok
                  THEN ingress
                  ELSE [rules |-> rules, built |-> built]

\* The panel's edits are external: rows are inserted, the folder is moved or switched.
AddRow(r) ==
    /\ r \notin table /\ Cardinality(table) < MaxRows
    /\ table' = table \cup {r}
    /\ Sighup(table', folder)
    /\ UNCHANGED folder

EditFolder ==
    /\ \E p \in FolderPrios, e \in BOOLEAN : folder' = [prio |-> p, enabled |-> e]
    /\ folder' # folder
    /\ Sighup(table, folder')
    /\ UNCHANGED table

RouteNext == EditFolder \/ \E r \in RowPool : AddRow(r)

RouteSpec == RouteInit /\ [][RouteNext]_routeVars

-----------------------------------------------------------------------------
(* Properties *)

\* What a rule asks besides its destination.
Besides(r) == <<r.user, r.net, r.port, r.src>>

\* A name of the packet's address is listed by two rules that differ in more than their
\* domains: ChinaDNS puts its addresses into the first one's sets only.
Shared(rules, p) ==
    \E n \in Names, i, j \in DOMAIN rules :
        /\ ResolvesTo[n] = Daddr(p)
        /\ \A k \in {i, j} : \E val \in NameSuffixes(rules[k]) : n \in Under[val]
        /\ Besides(rules[i]) # Besides(rules[j])

\* Taken alone, every rule is for this packet in both evaluations or in neither.
AloneAgrees(rules, p) ==
    \A i \in DOMAIN rules :
        Match(rules[i], p, RouteUser) <=> LineMatches(<<IngressRule(rules[i])>>, 1, p)

Agrees(p) ==
    Classify(ingress.built.rules, p) = ResolveRule(Kept(ingress.rules), p, RouteUser)

\* Putting the rules together keeps "first match wins" (policy.go:207,
\* selective_linux.go:634): for every packet about which the two evaluators agree rule by
\* rule, merging domain rules, reversing ChinaDNS's groups, splitting rules into nft lines and
\* letting a name into one group's sets only change no verdict, unless the name is in rules
\* that differ in their other conditions.
KernelAgrees ==
    ingress.built.ok =>
        \A p \in Packets :
            AloneAgrees(Kept(ingress.rules), p) /\ ~Shared(Kept(ingress.rules), p)
            => Agrees(p)
=============================================================================
