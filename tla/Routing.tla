------------------------------ MODULE Routing ------------------------------
(***************************************************************************)
(* The resource list and what is decided from it: resource.rs parses the   *)
(* server's addresses into a snapshot and routes a destination by it,      *)
(* pac.rs writes the same rules as a PAC script, proxy_service.rs routes a *)
(* name also by its addresses, and transport.rs picks a keepalive target.  *)
(*                                                                         *)
(* A name is a sequence of labels, split at its dots (the empty string is  *)
(* <<"">>); case, and white space at its ends, are left out.  An address is a number, Block of them       *)
(* standing for the 256 that share three octets.  The list is read one     *)
(* address at a time; a list that does not parse leaves no snapshot.       *)
(* A snapshot holds its domain rules in hash order: a lookup may meet them *)
(* in any order.                                                           *)
(***************************************************************************)
EXTENDS Naturals, Sequences

CONSTANTS
    Offered,        \* addresses the server may list
    MaxListed,      \* how many it lists
    Nodes,          \* endpoints of the node groups: host and port
    HostNames,      \* host names asked for, as sequences of labels
    Ips,            \* IPv4 addresses, 0..n
    Ports,
    Resolve,        \* the addresses of each name
    Unstar,         \* what is left of each label that holds a wildcard
    Odd,            \* labels with other than letters, digits, '-' and '_'
    Block,          \* addresses in a block
    None            \* no address

\* What stands between two dots in a row, and at a dot that is first or last.
NoLabel == ""
\* (That it is a string is not a fact the provers have.)
Labels == STRING \cup {NoLabel}

Protocols == {"tcp", "udp", "icmp"}
Hosts == [name : HostNames] \cup [ip : Ips] \cup {[v6 |-> "literal"]}
IsName(host) == "name" \in DOMAIN host
IsIp(host) == "ip" \in DOMAIN host

\* The addresses the server can list: ranges, domains, and what is IPv6.
RangeEntries == [min : Nat, max : Nat, ports : Nat \X Nat,
                 protocol : STRING, app : STRING]
DomainEntries == [text : Seq(Labels), static : Nat \cup {None}, ports : Nat \X Nat,
                  protocol : STRING, app : STRING]
Ipv6Entries == [v6 : STRING]

ASSUME RoutingAssumption ==
    /\ Block \in Nat \ {0, 1} /\ MaxListed \in Nat
    /\ Ips \subseteq Nat /\ Ports \subseteq Nat /\ None \notin Nat
    /\ Offered \subseteq RangeEntries \cup DomainEntries \cup Ipv6Entries

ASSUME LabelsAssumption ==
    /\ \A label \in DOMAIN Unstar : Unstar[label] \in Labels
    /\ NoLabel \notin Odd

\* A host name has labels between its dots, of which it may have a final one.
\* Looking one up gives IPv4 addresses; the final dot makes a difference only to
\* a name of one label.
Dotless(name) ==
    IF Len(name) > 1 /\ name[Len(name)] = NoLabel THEN SubSeq(name, 1, Len(name) - 1) ELSE name

ASSUME HostNamesAssumption ==
    /\ HostNames \subseteq Seq(Labels)
    /\ \A name \in HostNames : /\ name # <<>>
                               /\ \A i \in DOMAIN name : name[i] = NoLabel => i = Len(name) /\ i > 1
    /\ Resolve \in [HostNames -> Seq(Nat)]
    /\ \A name \in HostNames : Len(Dotless(name)) > 1 =>
          Dotless(name) \in HostNames /\ Resolve[Dotless(name)] = Resolve[name]

\* Nothing listens on port 0, where route_icmp asks.
ASSUME NodesAssumption == \A endpoint \in Nodes : endpoint[2] # 0

VARIABLES
    listed,             \* the addresses read so far
    ip_resources,       \* sequence of ranges
    domain_resources,   \* rules by domain
    dns_resource        \* static addresses by name

routingVars == <<listed, ip_resources, domain_resources, dns_resource>>

RoutingInit ==
    /\ listed = <<>>
    /\ ip_resources = <<>>
    /\ domain_resources = <<>>
    /\ dns_resource = <<>>
----------------------------------------------------------------------------
(* parse_resource_bytes *)

\* trim_end_matches('.') and trim_start_matches('.')
Filled(name) == {i \in DOMAIN name : name[i] # NoLabel}
TrimEnd(name) ==
    IF Filled(name) = {} THEN <<NoLabel>> ELSE SubSeq(name, 1, CHOOSE i \in Filled(name) :
                                                             \A j \in Filled(name) : j <= i)
TrimStart(name) ==
    IF Filled(name) = {} THEN <<NoLabel>>
    ELSE SubSeq(name, CHOOSE i \in Filled(name) : \A j \in Filled(name) : i <= j, Len(name))

\* replace('*', "")
WithoutStars(text) ==
    [i \in DOMAIN text |-> IF text[i] \in DOMAIN Unstar THEN Unstar[text[i]] ELSE text[i]]

Rule(a) == [ports |-> a.ports, protocol |-> a.protocol, app |-> a.app]

Put(f, key, value) == [k \in DOMAIN f \cup {key} |-> IF k = key THEN value ELSE f[k]]

\* Mutant: the first rule of a domain stays.
WithDomainFirst(rules, domain, rule) ==
    IF domain \in DOMAIN rules THEN rules ELSE Put(rules, domain, rule)

WithDomain(rules, domain, rule) == Put(rules, domain, rule)

\* An address, a CIDR block or a range.  (A static address listed with a block
\* enters dns_resource under the block's text, which is no host's name.)
ParseIp(a) ==
    /\ "min" \in DOMAIN a
    /\ ip_resources' = Append(ip_resources, [min |-> a.min, max |-> a.max, ports |-> a.ports,
                                             protocol |-> a.protocol, app |-> a.app])
    /\ UNCHANGED <<domain_resources, dns_resource>>

\* A domain; the first address that parses is its static address.
ParseDomain(a) ==
    /\ "text" \in DOMAIN a
    /\ domain_resources' = WithDomain(domain_resources, WithoutStars(a.text), Rule(a))
    /\ dns_resource' = IF a.static = None THEN dns_resource
                       ELSE Put(dns_resource, a.text, a.static)
    /\ UNCHANGED ip_resources

\* An IPv6 address, block or range is skipped.
ParseIpv6(a) ==
    /\ "v6" \in DOMAIN a
    /\ UNCHANGED <<ip_resources, domain_resources, dns_resource>>

ParseAddress ==
    /\ Len(listed) < MaxListed
    /\ \E a \in Offered :
          /\ ParseIp(a) \/ ParseDomain(a) \/ ParseIpv6(a)
          /\ listed' = Append(listed, a)

RoutingNext == ParseAddress

RoutingSpec == RoutingInit /\ [][RoutingNext]_routingVars
----------------------------------------------------------------------------
(* route *)

ProtocolMatches(rule, protocol) == rule.protocol \in {"all", protocol}

PortsMatch(rule, port, protocol) ==
    protocol = "icmp" \/ (rule.ports[1] <= port /\ port <= rule.ports[2])

IpBetween(ip, r) == r.min <= ip /\ ip <= r.max

\* host.ends_with, of whole labels, and of a dot and whole labels.
EndsWith(host, domain) ==
    /\ Len(domain) <= Len(host)
    /\ \A i \in DOMAIN domain : domain[i] = host[Len(host) - Len(domain) + i]
Subdomain(host, domain) == EndsWith(host, domain) /\ host # domain

\* The test of match_domain_ports.
DomainMatches(host, domain) ==
    LET h == TrimEnd(host)
        d == TrimEnd(domain)
    IN  IF Len(d) > 1 /\ d[1] = NoLabel
        THEN Subdomain(h, Tail(d)) \/ h = TrimStart(d)
        ELSE h = d \/ Subdomain(h, d)

\* match_domain, match_ip: the rules that can be hit.
MatchDomain(name, port, protocol) ==
    {d \in DOMAIN domain_resources :
        /\ ProtocolMatches(domain_resources[d], protocol)
        /\ PortsMatch(domain_resources[d], port, protocol)
        /\ DomainMatches(name, d)}

MatchIp(ip, port, protocol) ==
    {i \in DOMAIN ip_resources :
        /\ IpBetween(ip, ip_resources[i])
        /\ ProtocolMatches(ip_resources[i], protocol)
        /\ PortsMatch(ip_resources[i], port, protocol)}

IsNodeEndpoint(host, port) == <<host, port>> \in Nodes

\* The decision is Managed.
Route(host, port, protocol) ==
    /\ ~IsNodeEndpoint(host, port)
    /\ \/ IsIp(host) /\ MatchIp(host.ip, port, protocol) # {}
       \/ IsName(host) /\ MatchDomain(host.name, port, protocol) # {}

\* domain_managed
DomainManaged(name, protocol) ==
    \E d \in DOMAIN domain_resources :
       ProtocolMatches(domain_resources[d], protocol) /\ DomainMatches(name, d)

\* resolved_tcp_route of the proxy: a name is also routed by its addresses.
ResolvedTcpRoute(host, port) ==
    \/ Route(host, port, "tcp")
    \/ IsName(host) /\ \E i \in DOMAIN Resolve[host.name] :
          Route([ip |-> Resolve[host.name][i]], port, "tcp")
----------------------------------------------------------------------------
(* generate_pac and the script it writes *)

\* Mutant: rules for UDP and ICMP make it into the script.
CarriesAny(rule) == rule.protocol \in {"all", "tcp", "udp", "icmp"}

CarriesTcp(rule) == rule.protocol \in {"all", "tcp"}

\* normalize_domain, and its test of the characters.
NormalizeDomain(domain) == TrimStart(TrimEnd(domain))
Valid(name) == \A i \in DOMAIN name : name[i] \notin Odd

PacDomains ==
    {NormalizeDomain(d) : d \in {e \in DOMAIN domain_resources :
        CarriesTcp(domain_resources[e]) /\ Valid(NormalizeDomain(e))}} \ {<<NoLabel>>}
PacRanges == {i \in DOMAIN ip_resources :
                CarriesTcp(ip_resources[i]) /\ ip_resources[i].min <= ip_resources[i].max}
InRanges(ip) == \E i \in PacRanges : IpBetween(ip, ip_resources[i])

\* The script drops one final dot and walks up the labels.
PacDomainHit(name) ==
    LET h == Dotless(name)
    IN  \E k \in DOMAIN h : SubSeq(h, k, Len(h)) \in PacDomains

\* The script's answer is the proxy; it looks at one address of a name, and at
\* none of one that is plain without its final dot.
FindProxyForURL(host) ==
    \/ IsIp(host) /\ InRanges(host.ip)
    \/ /\ IsName(host)
       /\ \/ PacDomainHit(host.name)
          \/ LET h == Dotless(host.name)
             IN  Len(h) > 1 /\ Resolve[h] # <<>> /\ InRanges(Head(Resolve[h]))
----------------------------------------------------------------------------
(* select_icmp_keepalive_target *)

AllowsIcmp(rule) == rule.protocol \in {"icmp", "all"}
RouteIcmp(ip) == Route([ip |-> ip], 0, "icmp")

\* Mutant: a range of one address is moved off the end of its block too.
RepresentativeMoved(r) ==
    LET middle == r.min + (r.max - r.min) \div 2
    IN  IF r.min > r.max THEN None
        ELSE IF middle % Block \in {0, Block - 1} THEN middle + 1 ELSE middle

\* representative_ipv4
Representative(r) ==
    LET middle == r.min + (r.max - r.min) \div 2
    IN  IF r.min > r.max THEN None
        ELSE IF r.min < r.max /\ middle % Block \in {0, Block - 1}
             THEN IF middle + 1 < r.max THEN middle + 1 ELSE r.max
             ELSE middle

StaticTargets ==
    {dns_resource[d] : d \in {e \in DOMAIN dns_resource \cap DOMAIN domain_resources :
        AllowsIcmp(domain_resources[e]) /\ RouteIcmp(dns_resource[e])}}

\* The ranges at which the second loop returns: one that has no representative
\* ends it with nothing.
Stops == {i \in DOMAIN ip_resources :
            /\ AllowsIcmp(ip_resources[i])
            /\ LET ip == Representative(ip_resources[i]) IN ip = None \/ RouteIcmp(ip)}

\* The targets that can be chosen.
KeepaliveTargets ==
    IF StaticTargets # {} THEN StaticTargets
    ELSE IF Stops = {} THEN {None}
    ELSE {Representative(ip_resources[CHOOSE i \in Stops : \A j \in Stops : i <= j])}
----------------------------------------------------------------------------
\* A listed address covers a destination: the reference for route.
Covers(a, host, port, protocol) ==
    /\ "v6" \notin DOMAIN a
    /\ ProtocolMatches(a, protocol) /\ PortsMatch(a, port, protocol)
    /\ \/ IsIp(host) /\ "min" \in DOMAIN a /\ IpBetween(host.ip, a)
       \/ /\ IsName(host) /\ "text" \in DOMAIN a
          /\ EndsWith(TrimEnd(host.name), NormalizeDomain(WithoutStars(a.text)))

\* A domain rule that no later one of the same domain replaces.
Newest(i) ==
    /\ "text" \in DOMAIN listed[i]
    /\ \A j \in DOMAIN listed : i < j /\ "text" \in DOMAIN listed[j] =>
          WithoutStars(listed[i].text) # WithoutStars(listed[j].text)

\* route follows the list.  Only what the server lists is taken into the tunnel:
\* a name that is a listed domain or below it, or an address of a listed range,
\* with the listed ports and protocol; never IPv6, and never a node's own
\* endpoint, asked for as it is listed (with a final dot it is not known for
\* one).  And the newest rule of a domain is in force: unless a later address
\* of the list has the same domain, the domain itself is managed as listed.
RouteFollowsList ==
    /\ \A host \in Hosts, port \in Ports, protocol \in Protocols :
          Route(host, port, protocol) =>
             /\ <<host, port>> \notin Nodes
             /\ \E i \in DOMAIN listed : Covers(listed[i], host, port, protocol)
    /\ \A i \in DOMAIN listed :
          Newest(i) => \A host \in [name : HostNames], port \in Ports, protocol \in Protocols :
             /\ TrimEnd(host.name) = NormalizeDomain(WithoutStars(listed[i].text))
             /\ Covers(listed[i], host, port, protocol)
             /\ <<host, port>> \notin Nodes
             => Route(host, port, protocol)

\* A rule that begins with two dots.
TwoDots(domain) == Len(domain) > 1 /\ domain[1] = NoLabel /\ domain[2] = NoLabel

\* The PAC script agrees with the proxy.  What the proxy would take into the
\* tunnel, the script sends to it: for addresses, and for names of letters,
\* digits, '-' and '_' that are managed themselves, or that are not plain and have
\* at most one address (the script asks for one).  And normalize_domain mirrors
\* the matching in resource::match_domain: the script has such a name for managed
\* exactly when the list does, unless a rule begins with two dots once its
\* wildcards are gone, both of which only normalize_domain drops.  (Names with
\* other characters route may have for managed; the script has no rule for them.)
PacAgrees ==
    /\ \A host \in Hosts, port \in Ports :
          /\ ResolvedTcpRoute(host, port)
          /\ IsName(host) =>
                /\ Valid(host.name)
                /\ \/ Route(host, port, "tcp")
                   \/ Len(Dotless(host.name)) > 1 /\ Len(Resolve[host.name]) < 2
          => FindProxyForURL(host)
    /\ (\A i \in DOMAIN listed : "text" \in DOMAIN listed[i] =>
           ~TwoDots(WithoutStars(listed[i].text)))
       => \A name \in HostNames :
             Valid(name) => (PacDomainHit(name) <=> DomainManaged(name, "tcp"))

\* A keepalive target is chosen whenever some managed address takes ICMP, unless
\* a range that takes ICMP is reversed: select_icmp_keepalive_target gives up
\* there.
KeepaliveTargetFound ==
    /\ \E ip \in Ips : RouteIcmp(ip)
    /\ \A i \in DOMAIN ip_resources :
          AllowsIcmp(ip_resources[i]) => ip_resources[i].min <= ip_resources[i].max
    => None \notin KeepaliveTargets
=============================================================================
