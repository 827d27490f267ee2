------------------------------ MODULE DnsCache ------------------------------
(***************************************************************************)
(* How the proxy decides whether a host name goes through a tunnel:        *)
(* resolved_tcp_route and resolve_ipv4_addresses (proxy_service.rs), the   *)
(* cache of the resolver's answers that all connections share, and the     *)
(* direct path of open_proxy_target, which asks the resolver once more.    *)
(*                                                                         *)
(* The mutex of the cache is held for the lookup and for the store, not    *)
(* while the resolver is asked.                                            *)
(***************************************************************************)
EXTENDS Naturals, FiniteSets, Sequences

CONSTANTS
    Threads,        \* connections that open a target
    Names,          \* host names asked for
    ManagedNames,   \* names the resource list routes by themselves
    ManagedIps,     \* addresses it routes
    Zones,          \* what the resolver may say of a name: sequences of addresses
    NoName,         \* a thread that opens nothing
    TTL,            \* DNS_CACHE_TTL
    MaxEntries,     \* DNS_CACHE_MAX_ENTRIES
    MaxLookup,      \* the longest a lookup and the store after it take
    MaxTime, MaxMoves   \* bounds of the model

ASSUME DnsCacheAssumption ==
    /\ TTL \in Nat \ {0} /\ MaxEntries \in Nat \ {0}
    /\ MaxLookup \in Nat /\ MaxTime \in Nat /\ MaxMoves \in Nat
    /\ ManagedNames \subseteq Names /\ NoName \notin Names

VARIABLES
    now,
    zone,       \* the resolver's answer for each name
    since,      \* history: when a name last changed or could not be resolved
    moves,
    cache,      \* DNS_CACHE: a set of entries, at most one of a name
    pc, name,
    asked,      \* when a thread asked the resolver
    answer,     \* what it said
    used,       \* the answer the route was decided by, and when
    dialed      \* the addresses of a direct connect

envVars == <<now, zone, since, moves>>
vars == <<envVars, cache, pc, name, asked, answer, used, dialed>>

Unmanaged == Names \ ManagedNames
Undecided == [ips |-> <<>>, at |-> 0]

Init ==
    /\ now = 0 /\ moves = 0
    /\ zone \in [Unmanaged -> Zones]
    /\ since = [n \in Unmanaged |-> 0]
    /\ cache = {}
    /\ pc = [t \in Threads |-> "idle"]
    /\ name = [t \in Threads |-> NoName]
    /\ asked = [t \in Threads |-> 0]
    /\ answer = [t \in Threads |-> <<>>]
    /\ used = [t \in Threads |-> Undecided]
    /\ dialed = [t \in Threads |-> <<>>]
-----------------------------------------------------------------------------
(* resolve_ipv4_addresses *)

\* Mutant: an entry is good for as long as it is there.
FreshAlways(e) == TRUE

Fresh(e) == now - e.at < TTL

Hits(n) == {e \in cache : e.name = n /\ Fresh(e)}

\* The addresses a route is decided by: the first one that is managed counts.
ManagedIn(ips) == {i \in DOMAIN ips : ips[i] \in ManagedIps}

Decided(t, ips) ==
    /\ used' = [used EXCEPT ![t] = [ips |-> ips, at |-> now]]
    /\ pc' = [pc EXCEPT ![t] = IF ManagedIn(ips) # {} THEN "managed" ELSE "direct"]

\* A name that is managed by itself is not resolved.
RouteByName(t) ==
    /\ pc[t] = "idle"
    /\ \E n \in ManagedNames : name' = [name EXCEPT ![t] = n]
    /\ pc' = [pc EXCEPT ![t] = "named"]
    /\ UNCHANGED <<envVars, cache, asked, answer, used, dialed>>

\* The first lock: a fresh entry decides.
Hit(t) ==
    /\ pc[t] = "idle"
    /\ \E n \in Unmanaged : \E e \in Hits(n) :
          name' = [name EXCEPT ![t] = n] /\ Decided(t, e.ips)
    /\ UNCHANGED <<envVars, cache, asked, answer, dialed>>

Miss(t) ==
    /\ pc[t] = "idle"
    /\ \E n \in Unmanaged : Hits(n) = {} /\ name' = [name EXCEPT ![t] = n]
    /\ asked' = [asked EXCEPT ![t] = now]
    /\ pc' = [pc EXCEPT ![t] = "resolve"]
    /\ UNCHANGED <<envVars, cache, answer, used, dialed>>

\* to_socket_addrs: what the resolver says at some time of the lookup.
Resolved(t) ==
    /\ pc[t] = "resolve"
    /\ answer' = [answer EXCEPT ![t] = zone[name[t]]]
    /\ pc' = [pc EXCEPT ![t] = "store"]
    /\ UNCHANGED <<envVars, cache, name, asked, used, dialed>>

\* unwrap_or_default: a failure is an answer without addresses.
ResolveFailed(t) ==
    /\ pc[t] = "resolve" /\ moves < MaxMoves /\ moves' = moves + 1
    /\ answer' = [answer EXCEPT ![t] = <<>>]
    /\ since' = [since EXCEPT ![name[t]] = now + 1]
    /\ pc' = [pc EXCEPT ![t] = "store"]
    /\ UNCHANGED <<now, zone, cache, name, asked, used, dialed>>

\* Mutant: a full cache makes room only where entries have expired.
RoomIfExpired(entries) ==
    IF Cardinality(entries) < MaxEntries THEN entries ELSE {e \in entries : Fresh(e)}

\* A full cache drops what has expired, and everything if that is nothing.
Room(entries) ==
    LET fresh == {e \in entries : Fresh(e)}
    IN  IF Cardinality(entries) < MaxEntries THEN entries
        ELSE IF Cardinality(fresh) < MaxEntries THEN fresh ELSE {}

\* The second lock: whatever another thread has stored since is replaced.
Store(t) ==
    /\ pc[t] = "store"
    /\ cache' = {e \in Room(cache) : e.name # name[t]}
                  \cup {[name |-> name[t], ips |-> answer[t], at |-> now]}
    /\ Decided(t, answer[t])
    /\ asked' = [asked EXCEPT ![t] = 0] /\ answer' = [answer EXCEPT ![t] = <<>>]
    /\ UNCHANGED <<envVars, name, dialed>>
-----------------------------------------------------------------------------
(* open_proxy_target *)

\* The direct path resolves the name again, without the cache.
Dial(t) ==
    /\ pc[t] = "direct"
    /\ dialed' = [dialed EXCEPT ![t] = zone[name[t]]]
    /\ pc' = [pc EXCEPT ![t] = "dialed"]
    /\ UNCHANGED <<envVars, cache, name, asked, answer, used>>

\* A tunnel to connect_host, or the connection's end: the next connection.
Return(t) ==
    /\ pc[t] \in {"named", "managed", "direct", "dialed"}
    /\ pc' = [pc EXCEPT ![t] = "idle"]
    /\ name' = [name EXCEPT ![t] = NoName]
    /\ used' = [used EXCEPT ![t] = Undecided]
    /\ dialed' = [dialed EXCEPT ![t] = <<>>]
    /\ UNCHANGED <<envVars, cache, asked, answer>>
-----------------------------------------------------------------------------
(* Time and the resolver (external) *)

Tick ==
    /\ now < MaxTime
    /\ \A t \in Threads : pc[t] \in {"resolve", "store"} => now - asked[t] < MaxLookup
    /\ now' = now + 1
    /\ UNCHANGED <<zone, since, moves, cache, pc, name, asked, answer, used, dialed>>

ZoneMoves ==
    /\ moves < MaxMoves /\ moves' = moves + 1
    /\ \E n \in Unmanaged, z \in Zones :
          /\ z # zone[n]
          /\ zone' = [zone EXCEPT ![n] = z]
          /\ since' = [since EXCEPT ![n] = now + 1]
    /\ UNCHANGED <<now, cache, pc, name, asked, answer, used, dialed>>

Next ==
    \/ \E t \in Threads :
          \/ RouteByName(t) \/ Hit(t) \/ Miss(t) \/ Resolved(t) \/ ResolveFailed(t)
          \/ Store(t) \/ Dial(t) \/ Return(t)
    \/ Tick \/ ZoneMoves

Spec == Init /\ [][Next]_vars
-----------------------------------------------------------------------------
(* Properties *)

\* Every variable has its type.
TypeOK ==
    /\ now \in Nat /\ moves \in Nat
    /\ zone \in [Unmanaged -> Zones] /\ since \in [Unmanaged -> Nat]
    /\ cache \subseteq [name : Unmanaged, ips : Zones \cup {<<>>}, at : Nat]
    /\ pc \in [Threads -> {"idle", "resolve", "store", "named", "managed", "direct", "dialed"}]
    /\ name \in [Threads -> Names \cup {NoName}] /\ asked \in [Threads -> Nat]
    /\ \A t \in Threads : pc[t] \notin {"idle", "named"} => name[t] \in Unmanaged
    /\ answer \in [Threads -> Zones \cup {<<>>}]
    /\ used \in [Threads -> [ips : Zones \cup {<<>>}, at : Nat]]
    /\ dialed \in [Threads -> Zones \cup {<<>>}]

\* The cache never holds more than DNS_CACHE_MAX_ENTRIES names, nor a name twice.
CacheBounded ==
    /\ Cardinality(cache) <= MaxEntries
    /\ \A d, e \in cache : d.name = e.name => d = e

\* The resolver's answers for the name have been the same, and have come, for so
\* long before the route was decided that no older one can be in the cache.
Steady(t) == since[name[t]] + TTL + MaxLookup <= used[t].at

\* A route is decided by what the resolver says, once it has said so for the
\* lifetime of an entry and of a lookup: also if two threads resolve a name at
\* the same time and the older answer is stored last, or a failure was cached.
\* So a managed address is not connected to directly, although the direct path
\* resolves the name a second time and may be told something else.
DecisionCurrent ==
    \A t \in Threads :
        pc[t] \in {"managed", "direct", "dialed"} /\ Steady(t) =>
            /\ used[t].ips = zone[name[t]]
            /\ pc[t] = "dialed" => ManagedIn(dialed[t]) = {}
=============================================================================
