--------------------------- MODULE RoutingProofs ---------------------------
(***************************************************************************)
(* Proofs about where a destination goes.  For any number of connections,  *)
(* names and answers, any lifetime and size of the cache, the proxy's      *)
(* decision follows the resolver (DnsCache).  Whatever addresses are       *)
(* listed and names asked for, route, the PAC script and the choice of a   *)
(* keepalive target follow the list (Routing).                             *)
(***************************************************************************)
EXTENDS Routing, DnsCache, FiniteSetTheorems, TLAPS
-----------------------------------------------------------------------------
(* resolve_ipv4_addresses and resolved_tcp_route *)

\* The threads that use the name they hold, and those that have decided by it.
Resolving(t) == pc[t] \in {"resolve", "store"}
Routed(t) == pc[t] \in {"managed", "direct", "dialed"}

\* A lookup takes no longer than MaxLookup, and nothing is of the future.
ThreadsInTime ==
    \A t \in Threads :
        /\ Resolving(t) => asked[t] <= now /\ now <= asked[t] + MaxLookup
        /\ Routed(t) => used[t].at <= now

\* An answer that is not the resolver's any more is younger than the change: in
\* a thread's hands, in the cache, and in a decision, which may be one lifetime
\* of an entry older.
HeldIsRecent ==
    \A t \in Threads :
        pc[t] = "store" => answer[t] = zone[name[t]] \/ since[name[t]] > asked[t]
CachedIsRecent ==
    \A e \in cache :
        /\ e.at <= now
        /\ e.ips = zone[e.name] \/ since[e.name] + MaxLookup > e.at
UsedIsRecent ==
    \A t \in Threads :
        Routed(t) => used[t].ips = zone[name[t]] \/ ~Steady(t)
DirectIsUnmanaged ==
    \A t \in Threads :
        /\ pc[t] = "direct" => ManagedIn(used[t].ips) = {}
        /\ pc[t] = "dialed" => ManagedIn(dialed[t]) = {} \/ ~Steady(t)

Recent == ThreadsInTime /\ HeldIsRecent /\ CachedIsRecent /\ UsedIsRecent /\ DirectIsUnmanaged
-----------------------------------------------------------------------------
\* Every variable keeps its type.
THEOREM Typing == Spec => []TypeOK
<1> USE DnsCacheAssumption
<1>1. Init => TypeOK
  BY DEF Init, TypeOK, Undecided, Unmanaged
<1>2. TypeOK /\ [Next]_vars => TypeOK'
  <2> SUFFICES ASSUME TypeOK, [Next]_vars PROVE TypeOK'
    OBVIOUS
  <2>1. ASSUME NEW t \in Threads, RouteByName(t) PROVE TypeOK'
    BY <2>1 DEF RouteByName, TypeOK, envVars, Unmanaged
  <2>2. ASSUME NEW t \in Threads, Hit(t) PROVE TypeOK'
    BY <2>2 DEF Hit, Hits, Decided, TypeOK, envVars, Unmanaged
  <2>3. ASSUME NEW t \in Threads, Miss(t) PROVE TypeOK'
    BY SMTT(30), <2>3 DEF Miss, TypeOK, envVars, Unmanaged
  <2>4. ASSUME NEW t \in Threads, Resolved(t) PROVE TypeOK'
    BY ZenonT(30), <2>4 DEF Resolved, TypeOK, envVars, Unmanaged
  <2>5. ASSUME NEW t \in Threads, ResolveFailed(t) PROVE TypeOK'
    BY SMTT(30), <2>5 DEF ResolveFailed, TypeOK, Unmanaged
  <2>6. ASSUME NEW t \in Threads, Store(t) PROVE TypeOK'
    BY <2>6 DEF Store, Decided, Room, TypeOK, envVars, Unmanaged
  <2>7. ASSUME NEW t \in Threads, Dial(t) PROVE TypeOK'
    BY <2>7, Zenon DEF Dial, TypeOK, envVars, Unmanaged
  <2>8. ASSUME NEW t \in Threads, Return(t) PROVE TypeOK'
    BY <2>8, Zenon DEF Return, Undecided, TypeOK, envVars, Unmanaged
  <2>9. CASE Tick
    BY <2>9 DEF Tick, TypeOK
  <2>10. CASE ZoneMoves
    BY <2>10 DEF ZoneMoves, TypeOK
  <2>11. CASE UNCHANGED vars
    BY <2>11, Zenon DEF vars, envVars, TypeOK
  <2> QED
    BY <2>1, <2>2, <2>3, <2>4, <2>5, <2>6, <2>7, <2>8, <2>9, <2>10, <2>11, Zenon DEF Next
<1> QED
  BY <1>1, <1>2, PTL DEF Spec
-----------------------------------------------------------------------------
\* A step of one thread that leaves the resolver alone disturbs only what is said
\* of this thread and of the cache.
LEMMA RecentStep ==
    ASSUME TypeOK, Recent, NEW t \in Threads,
           UNCHANGED envVars, CachedIsRecent',
           \A u \in Threads \ {t} :
               /\ pc'[u] = pc[u] /\ name'[u] = name[u] /\ asked'[u] = asked[u]
               /\ answer'[u] = answer[u] /\ used'[u] = used[u] /\ dialed'[u] = dialed[u],
           Resolving(t)' => asked'[t] <= now /\ now <= asked'[t] + MaxLookup,
           Routed(t)' => used'[t].at <= now,
           pc'[t] = "store" => answer'[t] = zone[name'[t]] \/ since[name'[t]] > asked'[t],
           Routed(t)' => used'[t].ips = zone[name'[t]] \/ ~Steady(t)',
           pc'[t] = "direct" => ManagedIn(used'[t].ips) = {},
           pc'[t] = "dialed" => ManagedIn(dialed'[t]) = {} \/ ~Steady(t)'
    PROVE  Recent'
<1>1. ThreadsInTime'
  BY Zenon DEF Recent, envVars, ThreadsInTime, Resolving, Routed
<1>2. HeldIsRecent'
  BY Zenon DEF Recent, envVars, HeldIsRecent
<1>3. CachedIsRecent'
  OBVIOUS
<1>4. UsedIsRecent'
  BY DEF Recent, envVars, UsedIsRecent, Routed, Steady
<1>5. DirectIsUnmanaged'
  BY DEF Recent, envVars, DirectIsUnmanaged, Steady, ManagedIn
<1> QED
  BY <1>1, <1>2, <1>3, <1>4, <1>5, Zenon DEF Recent

\* What the resolver says changes, or is not to be had, only at the price of a
\* new time in since, and the answers held, cached and used are older than that.
LEMMA RecentMove ==
    ASSUME TypeOK, TypeOK', Recent,
           now' = now, UNCHANGED <<cache, name, asked, used, dialed>>,
           \A n \in Unmanaged :
               \/ since'[n] = since[n] /\ zone'[n] = zone[n]
               \/ since'[n] = now + 1,
           \A u \in Threads :
               \/ pc'[u] = pc[u] /\ answer'[u] = answer[u]
               \/ pc[u] = "resolve" /\ pc'[u] = "store" /\ since'[name[u]] = now + 1
    PROVE  Recent'
<1> USE DnsCacheAssumption
<1>1. ThreadsInTime'
  BY Zenon DEF Recent, ThreadsInTime, Resolving, Routed
<1>2. /\ now \in Nat /\ since \in [Unmanaged -> Nat] /\ since' \in [Unmanaged -> Nat]
      /\ asked \in [Threads -> Nat]
  BY Zenon DEF TypeOK
<1>3. HeldIsRecent'
  <2> SUFFICES ASSUME NEW u \in Threads, pc'[u] = "store"
               PROVE  answer'[u] = zone'[name[u]] \/ since'[name[u]] > asked[u]
    BY Zenon DEF HeldIsRecent
  <2>1. name[u] \in Unmanaged
    BY ZenonT(30) DEF TypeOK
  <2>2. asked[u] <= now
    BY SMTT(30) DEF Recent, ThreadsInTime, Resolving
  <2>3. pc[u] = "store" /\ answer'[u] = answer[u] =>
            answer'[u] = zone[name[u]] \/ since[name[u]] > asked[u]
    BY SMTT(30) DEF Recent, HeldIsRecent
  <2> QED
    BY <1>2, <2>1, <2>2, <2>3
<1>4. CachedIsRecent'
  <2> SUFFICES ASSUME NEW e \in cache
               PROVE  /\ e.at <= now
                      /\ e.ips = zone'[e.name] \/ since'[e.name] + MaxLookup > e.at
    BY Zenon DEF CachedIsRecent
  <2>1. e.name \in Unmanaged /\ e.at \in Nat
    BY Zenon DEF TypeOK
  <2>2. e.at <= now /\ (e.ips = zone[e.name] \/ since[e.name] + MaxLookup > e.at)
    BY Zenon DEF Recent, CachedIsRecent
  <2> QED
    BY <1>2, <2>1, <2>2
<1>5. ASSUME NEW u \in Threads, Routed(u)'
      PROVE  /\ Routed(u) /\ pc'[u] = pc[u] /\ name[u] \in Unmanaged
             /\ used[u].at \in Nat /\ used[u].at <= now
  BY ZenonT(30), <1>5 DEF Recent, ThreadsInTime, Routed, TypeOK
<1>6. ASSUME NEW u \in Threads, Routed(u)', Steady(u)'
      PROVE  Steady(u) /\ zone'[name[u]] = zone[name[u]]
  BY SMTT(30), <1>2, <1>5, <1>6 DEF Steady
<1>7. UsedIsRecent'
  BY <1>5, <1>6, Zenon DEF Recent, UsedIsRecent
<1>8. DirectIsUnmanaged'
  BY <1>5, <1>6 DEF Recent, DirectIsUnmanaged, Routed, ManagedIn
<1> QED
  BY <1>1, <1>3, <1>4, <1>7, <1>8, Zenon DEF Recent

\* The inductive step, action by action.
LEMMA RecentNext == TypeOK /\ TypeOK' /\ Recent /\ [Next]_vars => Recent'
<1> SUFFICES ASSUME TypeOK, TypeOK', Recent, [Next]_vars PROVE Recent'
  OBVIOUS
<1> USE DnsCacheAssumption
<1>1. ASSUME UNCHANGED <<envVars, cache>> PROVE CachedIsRecent'
  BY SMTT(30), <1>1 DEF Recent, CachedIsRecent, envVars
<1>2. ASSUME NEW t \in Threads, RouteByName(t) PROVE Recent'
  <2>1. CachedIsRecent'
    BY <1>1, <1>2, Zenon DEF RouteByName
  <2> QED
    BY SMTT(30), <1>2, <2>1, RecentStep DEF RouteByName, Resolving, Routed, TypeOK
<1>3. ASSUME NEW t \in Threads, Hit(t) PROVE Recent'
  <2>1. PICK n \in Unmanaged : \E e \in Hits(n) :
            name' = [name EXCEPT ![t] = n] /\ Decided(t, e.ips)
    BY ZenonT(30), <1>3 DEF Hit
  <2>2. PICK e \in Hits(n) : name' = [name EXCEPT ![t] = n] /\ Decided(t, e.ips)
    BY <2>1, Zenon
  <2>3. CachedIsRecent'
    BY <1>1, <1>3, Zenon DEF Hit
  <2>4. e \in cache /\ e.name = n /\ now - e.at < TTL
    BY <2>2, Zenon DEF Hits, Fresh
  <2>5. e.at \in Nat /\ now \in Nat /\ since[n] \in Nat
    BY SMTT(30), <2>4 DEF TypeOK
  <2>6. e.ips = zone[n] \/ since[n] + MaxLookup > e.at
    BY SMTT(30), <2>4 DEF Recent, CachedIsRecent
  <2>7. /\ used'[t] = [ips |-> e.ips, at |-> now] /\ name'[t] = n
        /\ zone' = zone /\ since' = since
    BY SMTT(30), <1>3, <2>2 DEF Hit, Decided, envVars, TypeOK
  <2>8. used'[t].ips = zone[name'[t]] \/ ~Steady(t)'
    BY SMTT(30), <2>4, <2>5, <2>6, <2>7 DEF Steady
  <2> QED
    BY <1>3, <2>2, <2>3, <2>7, <2>8, RecentStep DEF Hit, Decided, Resolving, Routed, TypeOK
<1>4. ASSUME NEW t \in Threads, Miss(t) PROVE Recent'
  <2>1. CachedIsRecent'
    BY <1>1, <1>4, Zenon DEF Miss
  <2> QED
    BY SMTT(30), <1>4, <2>1, RecentStep DEF Miss, Resolving, Routed, TypeOK
<1>5. ASSUME NEW t \in Threads, Resolved(t) PROVE Recent'
  <2>1. CachedIsRecent'
    BY SMTT(30), <1>1, <1>5 DEF Resolved
  <2> QED
    BY ZenonT(30), <1>5, <2>1, RecentStep DEF Resolved, Resolving, Routed, Recent, ThreadsInTime, TypeOK
<1>6. ASSUME NEW t \in Threads, ResolveFailed(t) PROVE Recent'
  BY SMTT(30), <1>6, RecentMove DEF ResolveFailed, TypeOK
<1>7. ASSUME NEW t \in Threads, Store(t) PROVE Recent'
  <2>1. pc[t] = "store" /\ now <= asked[t] + MaxLookup
    BY SMTT(30), <1>7 DEF Store, Recent, ThreadsInTime, Resolving
  <2>2. answer[t] = zone[name[t]] \/ since[name[t]] > asked[t]
    BY SMTT(30), <2>1 DEF Recent, HeldIsRecent
  <2>3. CachedIsRecent'
    <3> SUFFICES ASSUME NEW e \in cache'
                 PROVE  /\ e.at <= now
                        /\ e.ips = zone[e.name] \/ since[e.name] + MaxLookup > e.at
      BY <1>7, Zenon DEF Store, CachedIsRecent, envVars
    <3>1. CASE e \in cache
      BY <3>1, Zenon DEF Recent, CachedIsRecent
    <3>2. CASE e = [name |-> name[t], ips |-> answer[t], at |-> now]
      <4>1. now \in Nat /\ asked[t] \in Nat /\ since[name[t]] \in Nat
        BY ZenonT(30), <2>1 DEF TypeOK
      <4> QED
        BY <2>1, <2>2, <3>2, <4>1
    <3> QED
      BY <1>7, <3>1, <3>2, Zenon DEF Store, Room
  <2>4. used'[t].ips = zone[name'[t]] \/ ~Steady(t)'
    BY SMTT(30), <1>7, <2>1, <2>2 DEF Store, Decided, envVars, Steady, TypeOK
  <2> QED
    BY SMTT(30), <1>7, <2>3, <2>4, RecentStep DEF Store, Decided, Resolving, Routed, TypeOK
<1>8. ASSUME NEW t \in Threads, Dial(t) PROVE Recent'
  <2>1. CachedIsRecent'
    BY SMTT(30), <1>1, <1>8 DEF Dial
  <2>2. Routed(t) /\ ManagedIn(used[t].ips) = {} /\ used[t].at <= now
        /\ (used[t].ips = zone[name[t]] \/ ~Steady(t))
    BY SMTT(30), <1>8 DEF Dial, Recent, ThreadsInTime, UsedIsRecent, DirectIsUnmanaged, Routed
  <2>3. ManagedIn(dialed'[t]) = {} \/ ~Steady(t)'
    BY SMTT(30), <1>8, <2>2 DEF Dial, envVars, Steady, ManagedIn, TypeOK
  <2>4. used'[t].ips = zone[name'[t]] \/ ~Steady(t)'
    BY SMTT(30), <1>8, <2>2 DEF Dial, envVars, Steady
  <2> QED
    BY SMTT(30), <1>8, <2>1, <2>2, <2>3, <2>4, RecentStep DEF Dial, Resolving, Routed, TypeOK
<1>9. ASSUME NEW t \in Threads, Return(t) PROVE Recent'
  <2>1. CachedIsRecent'
    BY SMTT(30), <1>1, <1>9 DEF Return
  <2> QED
    BY SMTT(30), <1>9, <2>1, RecentStep DEF Return, Resolving, Routed, TypeOK
<1>10. CASE Tick
  BY SMTT(30), <1>10 DEF Tick, Recent, ThreadsInTime, HeldIsRecent, CachedIsRecent, UsedIsRecent,
         DirectIsUnmanaged, Resolving, Routed, Steady, ManagedIn, TypeOK
<1>11. CASE ZoneMoves
  BY <1>11, RecentMove, Zenon DEF ZoneMoves, TypeOK
<1>12. CASE UNCHANGED vars
  BY ZenonT(30), <1>12 DEF vars, envVars, Recent, ThreadsInTime, HeldIsRecent, CachedIsRecent, UsedIsRecent,
         DirectIsUnmanaged, Resolving, Routed, Steady, ManagedIn
<1> QED
  BY <1>2, <1>3, <1>4, <1>5, <1>6, <1>7, <1>8, <1>9, <1>10, <1>11, <1>12, Zenon DEF Next

\* A route is decided by what the resolver says once it has said so for the
\* lifetime of an entry and of a lookup, and no managed address is dialled then,
\* for any number of threads that look up and store in any order.
THEOREM RoutesAreCurrent == Spec => []DecisionCurrent
<1>1. Init => Recent
  BY SMTT(30) DEF Init, Recent, ThreadsInTime, HeldIsRecent, CachedIsRecent, UsedIsRecent,
         DirectIsUnmanaged, Resolving, Routed
<1>2. Recent => DecisionCurrent
  BY Zenon DEF Recent, UsedIsRecent, DirectIsUnmanaged, Routed, DecisionCurrent
<1> QED
  BY <1>1, <1>2, Typing, RecentNext, PTL DEF Spec
-----------------------------------------------------------------------------
\* CacheBounded is inductive once the cache is known to be finite.
BoundedInv == IsFiniteSet(cache) /\ CacheBounded

\* After eviction there is room for one more entry, and what is left was there.
LEMMA RoomIsLess ==
    ASSUME NEW S, IsFiniteSet(S), Cardinality(S) <= MaxEntries
    PROVE  /\ Room(S) \subseteq S /\ IsFiniteSet(Room(S))
           /\ Cardinality(Room(S)) < MaxEntries
<1> USE DnsCacheAssumption
<1> DEFINE fresh == {e \in S : Fresh(e)}
<1>1. IsFiniteSet(fresh) /\ IsFiniteSet({}) /\ Cardinality({}) = 0
  BY FS_Subset, FS_EmptySet, Zenon
<1> QED
  BY <1>1 DEF Room

\* The cache never holds more than DNS_CACHE_MAX_ENTRIES names, nor a name twice,
\* whatever the size and however many threads store at the same time.
THEOREM CacheStaysBounded == Spec => []CacheBounded
<1> USE DnsCacheAssumption
<1>1. Init => BoundedInv
  BY FS_EmptySet DEF Init, BoundedInv, CacheBounded
<1>2. BoundedInv /\ [Next]_vars => BoundedInv'
  <2> SUFFICES ASSUME BoundedInv, [Next]_vars PROVE BoundedInv'
    OBVIOUS
  <2>1. ASSUME NEW t \in Threads, Store(t) PROVE BoundedInv'
    <3> DEFINE kept == {e \in Room(cache) : e.name # name[t]}
               new == [name |-> name[t], ips |-> answer[t], at |-> now]
    <3>1. /\ Room(cache) \subseteq cache /\ IsFiniteSet(Room(cache))
          /\ Cardinality(Room(cache)) < MaxEntries
      BY RoomIsLess, Zenon DEF BoundedInv, CacheBounded
    <3>2. IsFiniteSet(kept) /\ Cardinality(kept) <= Cardinality(Room(cache))
      BY SMTT(30), <3>1, FS_Subset
    <3>3. new \notin kept
      OBVIOUS
    <3>4. IsFiniteSet(kept \cup {new}) /\ Cardinality(kept \cup {new}) = Cardinality(kept) + 1
      BY ZenonT(30), <3>2, <3>3, FS_AddElement
    <3>5. cache' = kept \cup {new}
      BY <2>1, Zenon DEF Store
    <3>6. Cardinality(cache') <= MaxEntries
      BY <3>1, <3>2, <3>4, <3>5, FS_CardinalityType
    <3>7. \A d, e \in cache' : d.name = e.name => d = e
      BY <3>1, <3>5 DEF BoundedInv, CacheBounded
    <3> QED
      BY <3>4, <3>5, <3>6, <3>7, Zenon DEF BoundedInv, CacheBounded
  <2>2. CASE UNCHANGED cache
    BY SMTT(30), <2>2 DEF BoundedInv, CacheBounded
  <2>3. ASSUME NEW t \in Threads,
               \/ RouteByName(t) \/ Hit(t) \/ Miss(t) \/ Resolved(t) \/ ResolveFailed(t)
               \/ Dial(t) \/ Return(t)
        PROVE  UNCHANGED cache
    BY <2>3, Zenon DEF RouteByName, Hit, Miss, Resolved, ResolveFailed, Dial, Return
  <2>4. Tick \/ ZoneMoves \/ UNCHANGED vars => UNCHANGED cache
    BY Zenon DEF Tick, ZoneMoves, vars
  <2> QED
    BY SMTT(30), <2>1, <2>2, <2>3, <2>4 DEF Next
<1>3. BoundedInv => CacheBounded
  BY Zenon DEF BoundedInv
<1> QED
  BY <1>1, <1>2, <1>3, PTL DEF Spec
-----------------------------------------------------------------------------
(* Ends of sequences of labels *)

\* A non-empty set of numbers has a least one.  The intervals 1..x are finite
\* sets, and strict inclusion of those is well founded.
LEMMA LeastNumber ==
    ASSUME NEW T, T \subseteq Nat, T # {}
    PROVE  \E x \in T : \A y \in T : x <= y
<1> DEFINE Below == {1..x : x \in T}
<1>1. Below \subseteq FiniteSubsetsOf(Nat) /\ Below # {}
  <2>1. \A x \in T : 1..x \subseteq Nat /\ IsFiniteSet(1..x)
    BY FS_Interval
  <2> QED
    BY <2>1, Zenon DEF FiniteSubsetsOf
<1>2. PICK b \in Below : \A c \in Below : <<c, b>> \notin StrictSubsetOrdering(Nat)
  BY <1>1, FS_StrictSubsetOrderingWellFounded, WFMin, Zenon
<1>3. PICK x \in T : b = 1..x
  OBVIOUS
<1>4. ASSUME NEW y \in T, y < x PROVE FALSE
  <2>1. 1..y \subseteq 1..x /\ x \notin 1..y /\ x \in 1..x
    BY <1>4
  <2>2. 1..y \in Below /\ 1..y \in SUBSET Nat /\ 1..x \in SUBSET Nat
    OBVIOUS
  <2>3. <<1..y, 1..x>> \in StrictSubsetOrdering(Nat)
    BY <2>1, <2>2, Zenon DEF StrictSubsetOrdering
  <2> QED
    BY <1>2, <1>3, <2>2, <2>3, Zenon
<1> QED
  BY <1>4

\* A bounded one has a greatest.
LEMMA GreatestNumber ==
    ASSUME NEW n \in Nat, NEW T, T \subseteq 1..n, T # {}
    PROVE  \E x \in T : \A y \in T : y <= x
<1> DEFINE Above == {n - x : x \in T}
<1>1. Above \subseteq Nat /\ Above # {}
  <2>1. \A x \in T : n - x \in Nat
    OBVIOUS
  <2> QED
    BY <2>1, Zenon
<1>2. PICK z \in Above : \A y \in Above : z <= y
  BY <1>1, LeastNumber, Zenon
<1>3. PICK x \in T : z = n - x
  OBVIOUS
<1>4. \A y \in T : z <= n - y
  BY <1>2
<1> QED
  BY <1>3, <1>4

\* EndsWith, with the positions as numbers.
LEMMA SuffixMeans ==
    ASSUME NEW s \in Seq(Labels), NEW t \in Seq(Labels)
    PROVE  EndsWith(t, s) <=> /\ Len(s) <= Len(t)
                              /\ \A i \in 1..Len(s) : s[i] = t[Len(t) - Len(s) + i]
<1>1. DOMAIN s = 1..Len(s)
  OBVIOUS
<1> QED
  BY <1>1, Zenon DEF EndsWith

\* What is left of a name from a label on is a suffix of it, and a proper one
\* unless the label is the first.
LEMMA TailIsSuffix ==
    ASSUME NEW t \in Seq(Labels), NEW k \in 1..Len(t)
    PROVE  /\ SubSeq(t, k, Len(t)) \in Seq(Labels)
           /\ Len(SubSeq(t, k, Len(t))) = Len(t) - k + 1
           /\ \A i \in 1..(Len(t) - k + 1) : SubSeq(t, k, Len(t))[i] = t[k + i - 1]
           /\ EndsWith(t, SubSeq(t, k, Len(t)))
<1> DEFINE s == SubSeq(t, k, Len(t))
<1>1. /\ s \in Seq(Labels) /\ Len(s) = Len(t) - k + 1
      /\ \A i \in 1..(Len(t) - k + 1) : s[i] = t[k + i - 1]
  OBVIOUS
<1> HIDE DEF s
<1>2. Len(s) <= Len(t) /\ \A i \in 1..Len(s) : s[i] = t[Len(t) - Len(s) + i]
  BY <1>1
<1>3. EndsWith(t, s)
  BY <1>1, <1>2, SuffixMeans, Zenon
<1> QED
  BY <1>1, <1>3, Zenon DEF s

\* Being a suffix is transitive.
LEMMA SuffixTransitive ==
    ASSUME NEW r \in Seq(Labels), NEW s \in Seq(Labels), NEW t \in Seq(Labels),
           EndsWith(s, r), EndsWith(t, s)
    PROVE  EndsWith(t, r)
<1>1. /\ Len(r) <= Len(s) /\ \A i \in 1..Len(r) : r[i] = s[Len(s) - Len(r) + i]
      /\ Len(s) <= Len(t) /\ \A i \in 1..Len(s) : s[i] = t[Len(t) - Len(s) + i]
  BY SuffixMeans, Zenon
<1>2. ASSUME NEW i \in 1..Len(r) PROVE r[i] = t[Len(t) - Len(r) + i]
  <2>1. /\ Len(s) - Len(r) + i \in 1..Len(s)
        /\ Len(t) - Len(s) + (Len(s) - Len(r) + i) = Len(t) - Len(r) + i
    BY <1>1
  <2> QED
    BY <1>1, <2>1, Zenon
<1>3. Len(r) <= Len(t)
  BY <1>1
<1> QED
  BY <1>2, <1>3, SuffixMeans, Zenon
-----------------------------------------------------------------------------
(* Trimming dots *)

\* The empty label is a label.
LEMMA NoLabelIsLabel == NoLabel \in Labels
BY Zenon DEF Labels

\* A name that has a label keeps it: TrimEnd cuts after the last one,
LEMMA TrimEndMeans ==
    ASSUME NEW labels \in Seq(Labels)
    PROVE  /\ TrimEnd(labels) \in Seq(Labels) /\ Len(TrimEnd(labels)) >= 1
           /\ Filled(labels) = {} => TrimEnd(labels) = <<NoLabel>>
           /\ Filled(labels) # {} =>
                 /\ Len(TrimEnd(labels)) <= Len(labels)
                 /\ \A i \in 1..Len(TrimEnd(labels)) : TrimEnd(labels)[i] = labels[i]
                 /\ TrimEnd(labels)[Len(TrimEnd(labels))] # NoLabel
                 /\ \A i \in 1..Len(labels) : Len(TrimEnd(labels)) < i => labels[i] = NoLabel
<1>1. CASE Filled(labels) = {}
  <2>1. TrimEnd(labels) = <<NoLabel>>
    BY <1>1, Zenon DEF TrimEnd
  <2>2. <<NoLabel>> \in Seq(Labels) /\ Len(<<NoLabel>>) = 1
    BY NoLabelIsLabel
  <2> QED
    BY <1>1, <2>1, <2>2
<1>2. CASE Filled(labels) # {}
  <2> DEFINE last == CHOOSE i \in Filled(labels) : \A j \in Filled(labels) : j <= i
             h == SubSeq(labels, 1, last)
  <2>1. Filled(labels) \subseteq 1..Len(labels) /\ Len(labels) \in Nat
    BY DEF Filled
  <2>2. last \in Filled(labels) /\ \A j \in Filled(labels) : j <= last
    BY <1>2, <2>1, GreatestNumber, Zenon
  <2>3. TrimEnd(labels) = h
    BY <1>2, Zenon DEF TrimEnd
  <2> HIDE DEF last
  <2>4. last \in 1..Len(labels) /\ labels[last] # NoLabel
    BY <2>2 DEF Filled
  <2>5. h \in Seq(Labels) /\ Len(h) = last /\ \A i \in 1..last : h[i] = labels[i]
    BY <2>4
  <2>6. \A i \in 1..Len(labels) : last < i => labels[i] = NoLabel
    BY <2>2, <2>4 DEF Filled
  <2> HIDE DEF h
  <2> QED
    BY <1>2, <2>3, <2>4, <2>5, <2>6
<1> QED
  BY <1>1, <1>2, Zenon

\* and TrimStart before the first.
LEMMA TrimStartMeans ==
    ASSUME NEW labels \in Seq(Labels), Filled(labels) # {}
    PROVE  \E k \in 1..Len(labels) : /\ TrimStart(labels) = SubSeq(labels, k, Len(labels))
                                  /\ labels[k] # NoLabel
                                  /\ \A j \in 1..Len(labels) : j < k => labels[j] = NoLabel
<1> DEFINE first == CHOOSE i \in Filled(labels) : \A j \in Filled(labels) : i <= j
<1>1. Filled(labels) \subseteq Nat
  BY DEF Filled
<1>2. first \in Filled(labels) /\ \A j \in Filled(labels) : first <= j
  BY <1>1, LeastNumber, Zenon
<1>3. TrimStart(labels) = SubSeq(labels, first, Len(labels))
  BY Zenon DEF TrimStart
<1> HIDE DEF first
<1>4. first \in 1..Len(labels) /\ labels[first] # NoLabel
  BY <1>2 DEF Filled
<1>5. \A j \in 1..Len(labels) : j < first => labels[j] = NoLabel
  BY <1>2, <1>4 DEF Filled
<1> QED
  BY <1>3, <1>4, <1>5, Zenon

\* A rule without its final dots: it is empty, or ends in a label.  Then
\* normalize_domain leaves what follows the leading dots.
LEMMA NormalMeans ==
    ASSUME NEW domain \in Seq(Labels), NEW d, d = TrimEnd(domain)
    PROVE  /\ d \in Seq(Labels) /\ Len(d) \in Nat \ {0}
           /\ \/ d = <<NoLabel>> /\ NormalizeDomain(domain) = <<NoLabel>>
              \/ \E k \in 1..Len(d) : /\ NormalizeDomain(domain) = SubSeq(d, k, Len(d))
                                      /\ d[k] # NoLabel /\ \A j \in 1..Len(d) : j < k => d[j] = NoLabel
                                      /\ d[Len(d)] # NoLabel
<1>1. d \in Seq(Labels) /\ Len(d) \in Nat \ {0}
  BY TrimEndMeans
<1>2. CASE Filled(domain) = {}
  <2>1. d = <<NoLabel>>
    BY <1>2, TrimEndMeans, Zenon
  <2>2. Filled(<<NoLabel>>) = {}
    BY DEF Filled
  <2>3. NormalizeDomain(domain) = <<NoLabel>>
    BY <2>1, <2>2, Zenon DEF NormalizeDomain, TrimStart
  <2> QED
    BY <1>1, <2>1, <2>3, Zenon
<1>3. CASE Filled(domain) # {}
  <2>1. d[Len(d)] # NoLabel
    BY <1>3, TrimEndMeans, Zenon
  <2>2. Filled(d) # {}
    <3>1. Len(d) \in DOMAIN d
      BY <1>1
    <3> QED
      BY <2>1, <3>1, Zenon DEF Filled
  <2>3. PICK k \in 1..Len(d) : /\ TrimStart(d) = SubSeq(d, k, Len(d))
                               /\ d[k] # NoLabel
                               /\ \A j \in 1..Len(d) : j < k => d[j] = NoLabel
    BY <1>1, <2>2, TrimStartMeans, Zenon
  <2> QED
    BY <1>1, <2>1, <2>3, Zenon DEF NormalizeDomain
<1> QED
  BY <1>2, <1>3, Zenon
-----------------------------------------------------------------------------
(* Matching *)

\* Every name is a suffix of itself.
LEMMA SuffixReflexive == ASSUME NEW s \in Seq(Labels) PROVE EndsWith(s, s)
<1>1. Len(s) <= Len(s) /\ \A i \in 1..Len(s) : s[i] = s[Len(s) - Len(s) + i]
  OBVIOUS
<1> QED
  BY <1>1, SuffixMeans, Zenon

\* A suffix with a label in it is what is left from one of the labels on.
LEMMA SuffixIsTail ==
    ASSUME NEW s \in Seq(Labels), NEW t \in Seq(Labels), EndsWith(t, s), Len(s) >= 1
    PROVE  \E k \in 1..Len(t) : s = SubSeq(t, k, Len(t))
<1> DEFINE k == Len(t) - Len(s) + 1
<1>1. Len(s) <= Len(t) /\ \A i \in 1..Len(s) : s[i] = t[Len(t) - Len(s) + i]
  BY SuffixMeans, Zenon
<1>2. k \in 1..Len(t)
  BY <1>1
<1>3. /\ SubSeq(t, k, Len(t)) \in Seq(Labels) /\ Len(SubSeq(t, k, Len(t))) = Len(s)
      /\ \A i \in 1..Len(s) : SubSeq(t, k, Len(t))[i] = s[i]
  BY <1>1, <1>2
<1>4. SubSeq(t, k, Len(t)) = s
  BY <1>3
<1> QED
  BY <1>2, <1>4, Zenon

\* The cases of a rule: without a leading dot normalize_domain changes it no
\* more; with one, it drops that dot and those that follow.
LEMMA NormalCases ==
    ASSUME NEW domain \in Seq(Labels), NEW d, d = TrimEnd(domain)
    PROVE  /\ NormalizeDomain(domain) \in Seq(Labels) /\ Len(NormalizeDomain(domain)) >= 1
           /\ ~(Len(d) > 1 /\ d[1] = NoLabel) => NormalizeDomain(domain) = d
           /\ Len(d) > 1 /\ d[1] = NoLabel =>
                 /\ Tail(d) \in Seq(Labels) /\ EndsWith(Tail(d), NormalizeDomain(domain))
                 /\ d[2] # NoLabel => NormalizeDomain(domain) = Tail(d)
<1>0. d \in Seq(Labels) /\ Len(d) \in Nat \ {0}
  BY NormalMeans, Zenon
<1>1. CASE d = <<NoLabel>> /\ NormalizeDomain(domain) = <<NoLabel>>
  <2>1. <<NoLabel>> \in Seq(Labels) /\ Len(<<NoLabel>>) = 1
    BY NoLabelIsLabel
  <2> QED
    BY <1>1, <2>1
<1>2. ASSUME NEW k \in 1..Len(d), NormalizeDomain(domain) = SubSeq(d, k, Len(d)),
             d[k] # NoLabel, \A j \in 1..Len(d) : j < k => d[j] = NoLabel
      PROVE  /\ NormalizeDomain(domain) \in Seq(Labels) /\ Len(NormalizeDomain(domain)) >= 1
             /\ ~(Len(d) > 1 /\ d[1] = NoLabel) => NormalizeDomain(domain) = d
             /\ Len(d) > 1 /\ d[1] = NoLabel =>
                   /\ Tail(d) \in Seq(Labels) /\ EndsWith(Tail(d), NormalizeDomain(domain))
                   /\ d[2] # NoLabel => NormalizeDomain(domain) = Tail(d)
  <2> DEFINE s == SubSeq(d, k, Len(d))
  <2>1. /\ s \in Seq(Labels) /\ Len(s) = Len(d) - k + 1
        /\ \A i \in 1..(Len(d) - k + 1) : s[i] = d[k + i - 1]
    BY <1>0, TailIsSuffix, Zenon
  <2> HIDE DEF s
  <2>2. Len(s) >= 1
    BY <1>0, <2>1
  <2>3. ASSUME ~(Len(d) > 1 /\ d[1] = NoLabel) PROVE s = d
    <3>1. k = 1
      BY <1>0, <1>2, <2>3
    <3>2. Len(s) = Len(d) /\ \A i \in 1..Len(d) : s[i] = d[i]
      BY <1>0, <2>1, <3>1
    <3> QED
      BY <1>0, <2>1, <3>2
  <2>4. ASSUME Len(d) > 1, d[1] = NoLabel
        PROVE  Tail(d) \in Seq(Labels) /\ EndsWith(Tail(d), s) /\ (d[2] # NoLabel => s = Tail(d))
    <3> DEFINE t == Tail(d)
    <3>1. t \in Seq(Labels) /\ Len(t) = Len(d) - 1 /\ \A i \in 1..(Len(d) - 1) : t[i] = d[i + 1]
      BY <1>0, <2>4
    <3> HIDE DEF t
    <3>2. k >= 2
      BY <1>0, <1>2, <2>4
    <3>3. Len(s) <= Len(t) /\ \A i \in 1..Len(s) : s[i] = t[Len(t) - Len(s) + i]
      <4>1. Len(s) <= Len(t) /\ Len(t) - Len(s) = k - 2
        BY <1>0, <2>1, <3>1, <3>2
      <4>2. ASSUME NEW i \in 1..Len(s) PROVE s[i] = t[Len(t) - Len(s) + i]
        <5>1. /\ i \in 1..(Len(d) - k + 1) /\ k - 2 + i \in 1..(Len(d) - 1)
              /\ k - 2 + i + 1 = k + i - 1
          BY <1>0, <2>1, <3>2
        <5> QED
          BY <2>1, <3>1, <4>1, <5>1, Zenon
      <4> QED
        BY <4>1, <4>2, Zenon
    <3>4. EndsWith(t, s)
      BY <2>1, <3>1, <3>3, SuffixMeans, Zenon
    <3>5. ASSUME d[2] # NoLabel PROVE s = t
      <4>1. k = 2
        BY <1>0, <1>2, <2>4, <3>2, <3>5
      <4>2. Len(s) = Len(t) /\ \A i \in 1..Len(s) : s[i] = t[i]
        BY <1>0, <2>1, <3>1, <3>3, <4>1
      <4> QED
        BY <2>1, <3>1, <4>2
    <3> QED
      BY <3>1, <3>4, <3>5, Zenon DEF t
  <2>5. NormalizeDomain(domain) = s
    BY <1>2, Zenon DEF s
  <2> QED
    BY <2>1, <2>2, <2>3, <2>4, <2>5, Zenon
<1>3. CASE \E k \in 1..Len(d) : /\ NormalizeDomain(domain) = SubSeq(d, k, Len(d))
                                 /\ d[k] # NoLabel
                                 /\ \A j \in 1..Len(d) : j < k => d[j] = NoLabel
  <2>1. PICK k \in 1..Len(d) : /\ NormalizeDomain(domain) = SubSeq(d, k, Len(d))
                               /\ d[k] # NoLabel
                               /\ \A j \in 1..Len(d) : j < k => d[j] = NoLabel
    BY <1>3, Zenon
  <2> QED
    BY <1>2, <2>1, Zenon
<1>4. \/ d = <<NoLabel>> /\ NormalizeDomain(domain) = <<NoLabel>>
      \/ \E k \in 1..Len(d) : /\ NormalizeDomain(domain) = SubSeq(d, k, Len(d))
                              /\ d[k] # NoLabel
                              /\ \A j \in 1..Len(d) : j < k => d[j] = NoLabel
  BY NormalMeans, Zenon
<1> QED
  BY <1>1, <1>3, <1>4, Zenon

\* A rule is met only at the domain it names or below it,
LEMMA MatchIsSuffix ==
    ASSUME NEW host \in Seq(Labels), NEW domain \in Seq(Labels), DomainMatches(host, domain)
    PROVE  EndsWith(TrimEnd(host), NormalizeDomain(domain))
<1> DEFINE h == TrimEnd(host)
           d == TrimEnd(domain)
           n == NormalizeDomain(domain)
<1>1. h \in Seq(Labels) /\ n \in Seq(Labels)
  BY TrimEndMeans, NormalCases, Zenon
<1>2. CASE Len(d) > 1 /\ d[1] = NoLabel
  <2>1. Subdomain(h, Tail(d)) \/ h = n
    BY <1>2, Zenon DEF DomainMatches, NormalizeDomain
  <2>2. Tail(d) \in Seq(Labels) /\ EndsWith(Tail(d), n)
    BY <1>2, NormalCases, Zenon
  <2>3. CASE Subdomain(h, Tail(d))
    BY <1>1, <2>2, <2>3, SuffixTransitive, Zenon DEF Subdomain
  <2> QED
    BY <1>1, <2>1, <2>3, SuffixReflexive, Zenon
<1>3. CASE ~(Len(d) > 1 /\ d[1] = NoLabel)
  <2>1. h = d \/ Subdomain(h, d)
    BY <1>3, Zenon DEF DomainMatches
  <2>2. n = d
    BY <1>3, NormalCases, Zenon
  <2> QED
    BY <1>1, <2>1, <2>2, SuffixReflexive, Zenon DEF Subdomain
<1> QED
  BY <1>2, <1>3, Zenon

\* and always at the domain;
LEMMA DomainIsMatched ==
    ASSUME NEW host \in Seq(Labels), NEW domain \in Seq(Labels),
           TrimEnd(host) = NormalizeDomain(domain)
    PROVE  DomainMatches(host, domain)
<1> DEFINE d == TrimEnd(domain)
<1>1. CASE Len(d) > 1 /\ d[1] = NoLabel
  BY <1>1, Zenon DEF DomainMatches, NormalizeDomain
<1>2. CASE ~(Len(d) > 1 /\ d[1] = NoLabel)
  <2>1. NormalizeDomain(domain) = d
    BY <1>2, NormalCases, Zenon
  <2> QED
    BY <1>2, <2>1, Zenon DEF DomainMatches
<1> QED
  BY <1>1, <1>2, Zenon

\* below it, unless the rule has two leading dots, which ends_with keeps both.
LEMMA SuffixIsMatched ==
    ASSUME NEW host \in Seq(Labels), NEW domain \in Seq(Labels),
           EndsWith(TrimEnd(host), NormalizeDomain(domain)),
           ~TwoDots(domain)
    PROVE  DomainMatches(host, domain)
<1> DEFINE h == TrimEnd(host)
           d == TrimEnd(domain)
<1>1. CASE Len(d) > 1 /\ d[1] = NoLabel
  <2>1. d[2] # NoLabel
    <3>1. SUFFICES ASSUME d[2] = NoLabel PROVE FALSE
      OBVIOUS
    <3>2. Filled(domain) # {}
      <4>1. Len(<<NoLabel>>) = 1 /\ ~(1 > 1)
        OBVIOUS
      <4>2. d # <<NoLabel>>
        BY <1>1, <4>1, Zenon
      <4> QED
        BY <4>2, TrimEndMeans, Zenon
    <3>3. /\ Len(d) \in Nat /\ Len(domain) \in Nat /\ Len(d) <= Len(domain)
          /\ \A i \in 1..Len(d) : d[i] = domain[i]
      <4>1. d \in Seq(Labels)
        BY TrimEndMeans, Zenon
      <4>2. Len(d) \in Nat /\ Len(domain) \in Nat
        BY <4>1
      <4> QED
        BY <3>2, <4>2, TrimEndMeans, Zenon
    <3>4. Len(domain) >= 2 /\ domain[1] = NoLabel /\ domain[2] = NoLabel
      BY <1>1, <3>1, <3>3
    <3> QED
      BY <3>4 DEF TwoDots
  <2>2. NormalizeDomain(domain) = Tail(d)
    BY <1>1, <2>1, NormalCases, Zenon
  <2> QED
    BY <1>1, <2>2, Zenon DEF DomainMatches, Subdomain, NormalizeDomain
<1>2. CASE ~(Len(d) > 1 /\ d[1] = NoLabel)
  <2>1. NormalizeDomain(domain) = d
    BY <1>2, NormalCases, Zenon
  <2> QED
    BY <1>2, <2>1, Zenon DEF DomainMatches, Subdomain
<1> QED
  BY <1>1, <1>2, Zenon
-----------------------------------------------------------------------------
(* The snapshot and the list *)

\* What a listed domain says is in the snapshot.
InForce(i) ==
    /\ WithoutStars(listed[i].text) \in DOMAIN domain_resources
    /\ domain_resources[WithoutStars(listed[i].text)] = Rule(listed[i])

\* Every range and every domain rule of the snapshot is one of the list, the
\* newest rule of a domain is in force, and a static address is an address.
SnapshotInv ==
    /\ listed \in Seq(Offered)
    /\ ip_resources \in Seq(RangeEntries)
    /\ \A i \in DOMAIN ip_resources : \E j \in DOMAIN listed : ip_resources[i] = listed[j]
    /\ \A d \in DOMAIN domain_resources : \E j \in DOMAIN listed :
          /\ listed[j] \in DomainEntries /\ d = WithoutStars(listed[j].text)
          /\ domain_resources[d] = Rule(listed[j])
    /\ \A i \in DOMAIN listed : Newest(i) => InForce(i)
    /\ \A e \in DOMAIN dns_resource : dns_resource[e] # None

\* An address is of one kind.
LEMMA Kinds ==
    /\ \A a \in RangeEntries : "min" \in DOMAIN a /\ "text" \notin DOMAIN a /\ "v6" \notin DOMAIN a
    /\ \A a \in DomainEntries : "min" \notin DOMAIN a /\ "text" \in DOMAIN a /\ "v6" \notin DOMAIN a
    /\ \A a \in Ipv6Entries : "min" \notin DOMAIN a /\ "text" \notin DOMAIN a /\ "v6" \in DOMAIN a
BY DEF RangeEntries, DomainEntries, Ipv6Entries

\* Each address offered is of one of the three.
LEMMA OfferedKinds ==
    ASSUME NEW a \in Offered
    PROVE  a \in RangeEntries \/ a \in DomainEntries \/ a \in Ipv6Entries
BY RoutingAssumption, Zenon

\* The range stored is the range listed.
LEMMA RangeIsStored ==
    ASSUME NEW a \in RangeEntries
    PROVE  [min |-> a.min, max |-> a.max, ports |-> a.ports,
            protocol |-> a.protocol, app |-> a.app] = a
BY DEF RangeEntries

\* A domain without its wildcards is a sequence of labels.
LEMMA WithoutStarsTyped ==
    ASSUME NEW text \in Seq(Labels)
    PROVE  WithoutStars(text) \in Seq(Labels)
<1> DEFINE left(i) == IF text[i] \in DOMAIN Unstar THEN Unstar[text[i]] ELSE text[i]
<1>1. \A i \in DOMAIN text : left(i) \in Labels
  BY LabelsAssumption
<1> HIDE DEF left
<1>2. [i \in DOMAIN text |-> left(i)] \in Seq(Labels)
  BY <1>1
<1> QED
  BY <1>2, Zenon DEF WithoutStars, left

\* The empty snapshot follows the empty list.
LEMMA SnapshotInit == RoutingInit => SnapshotInv
BY DEF RoutingInit, SnapshotInv

\* What reading one more address does to the list.
LEMMA ListGrows ==
    ASSUME listed \in Seq(Offered), NEW a \in Offered, listed' = Append(listed, a)
    PROVE  /\ listed' \in Seq(Offered)
           /\ DOMAIN listed' = DOMAIN listed \cup {Len(listed) + 1}
           /\ \A j \in DOMAIN listed : listed'[j] = listed[j] /\ j < Len(listed) + 1
           /\ listed'[Len(listed) + 1] = a
OBVIOUS

\* Parsing one more address, of whatever kind, keeps the snapshot to the list.
LEMMA SnapshotStep == ASSUME SnapshotInv, RoutingNext PROVE SnapshotInv'
<1>1. PICK a \in Offered : /\ ParseIp(a) \/ ParseDomain(a) \/ ParseIpv6(a)
                           /\ listed' = Append(listed, a)
  BY Zenon DEF RoutingNext, ParseAddress
<1> DEFINE n == Len(listed) + 1
<1>2. /\ listed' \in Seq(Offered) /\ DOMAIN listed' = DOMAIN listed \cup {n}
      /\ \A j \in DOMAIN listed : listed'[j] = listed[j] /\ j < n
      /\ listed'[n] = a
  BY <1>1, ListGrows, Zenon DEF SnapshotInv
<1> HIDE DEF n
<1>3. ASSUME NEW i \in DOMAIN listed, Newest(i)' PROVE Newest(i)
  BY <1>2, <1>3, Zenon DEF Newest
<1>4. ASSUME "text" \notin DOMAIN a, UNCHANGED domain_resources
      PROVE  /\ \A d \in DOMAIN domain_resources' : \E j \in DOMAIN listed' :
                   /\ listed'[j] \in DomainEntries /\ d = WithoutStars(listed'[j].text)
                   /\ domain_resources'[d] = Rule(listed'[j])
             /\ \A i \in DOMAIN listed' : Newest(i)' => InForce(i)'
  <2>1. ASSUME NEW d \in DOMAIN domain_resources
        PROVE  \E j \in DOMAIN listed' :
                   /\ listed'[j] \in DomainEntries /\ d = WithoutStars(listed'[j].text)
                   /\ domain_resources[d] = Rule(listed'[j])
    <3>1. PICK j \in DOMAIN listed : /\ listed[j] \in DomainEntries
                                     /\ d = WithoutStars(listed[j].text)
                                     /\ domain_resources[d] = Rule(listed[j])
      BY Zenon DEF SnapshotInv
    <3> QED
      BY <1>2, <3>1, Zenon
  <2>2. ASSUME NEW i \in DOMAIN listed', Newest(i)' PROVE InForce(i)'
    <3>1. i # n
      BY <1>2, <1>4, <2>2, Zenon DEF Newest
    <3>2. i \in DOMAIN listed /\ InForce(i)
      BY <1>2, <1>3, <2>2, <3>1, Zenon DEF SnapshotInv
    <3> QED
      BY <1>2, <1>4, <3>2, Zenon DEF InForce
  <2> QED
    BY <1>4, <2>1, <2>2, Zenon
<1>5. ASSUME UNCHANGED ip_resources
      PROVE  /\ ip_resources' \in Seq(RangeEntries)
             /\ \A i \in DOMAIN ip_resources' :
                   \E j \in DOMAIN listed' : ip_resources'[i] = listed'[j]
  <2>1. ASSUME NEW i \in DOMAIN ip_resources
        PROVE  \E j \in DOMAIN listed' : ip_resources[i] = listed'[j]
    <3>1. PICK j \in DOMAIN listed : ip_resources[i] = listed[j]
      BY Zenon DEF SnapshotInv
    <3> QED
      BY <1>2, <3>1, Zenon
  <2> QED
    BY <1>5, <2>1, Zenon DEF SnapshotInv
<1>6. CASE ParseIp(a)
  <2>1. a \in RangeEntries /\ "text" \notin DOMAIN a
    BY <1>6, Kinds, OfferedKinds, Zenon DEF ParseIp
  <2>2. ip_resources' = Append(ip_resources, a)
    BY <1>6, <2>1, RangeIsStored, Zenon DEF ParseIp
  <2>3. /\ ip_resources' \in Seq(RangeEntries)
        /\ DOMAIN ip_resources' = DOMAIN ip_resources \cup {Len(ip_resources) + 1}
        /\ \A i \in DOMAIN ip_resources : ip_resources'[i] = ip_resources[i]
        /\ ip_resources'[Len(ip_resources) + 1] = a
    BY <2>1, <2>2 DEF SnapshotInv
  <2>4. \A i \in DOMAIN ip_resources' : \E j \in DOMAIN listed' : ip_resources'[i] = listed'[j]
    <3>1. ASSUME NEW i \in DOMAIN ip_resources
          PROVE  \E j \in DOMAIN listed' : ip_resources[i] = listed'[j]
      <4>1. PICK j \in DOMAIN listed : ip_resources[i] = listed[j]
        BY Zenon DEF SnapshotInv
      <4> QED
        BY <1>2, <4>1, Zenon
    <3>2. n \in DOMAIN listed' /\ listed'[n] = a
      BY <1>2, Zenon
    <3> QED
      BY <2>3, <3>1, <3>2, Zenon
  <2>5. UNCHANGED <<domain_resources, dns_resource>>
    BY <1>6, Zenon DEF ParseIp
  <2> QED
    BY <1>2, <1>4, <2>1, <2>3, <2>4, <2>5, Zenon DEF SnapshotInv
<1>7. CASE ParseDomain(a)
  <2> DEFINE t == WithoutStars(a.text)
  <2>1. a \in DomainEntries /\ "text" \in DOMAIN a
    BY <1>7, Kinds, OfferedKinds, Zenon DEF ParseDomain
  <2>2. /\ DOMAIN domain_resources' = DOMAIN domain_resources \cup {t}
        /\ domain_resources'[t] = Rule(a)
        /\ \A d \in DOMAIN domain_resources : d # t => domain_resources'[d] = domain_resources[d]
    BY <1>7, Zenon DEF ParseDomain, WithDomain, Put
  <2>3. ASSUME NEW d \in DOMAIN domain_resources'
        PROVE  \E j \in DOMAIN listed' :
                   /\ listed'[j] \in DomainEntries /\ d = WithoutStars(listed'[j].text)
                   /\ domain_resources'[d] = Rule(listed'[j])
    <3>1. CASE d = t
      BY <1>2, <2>1, <2>2, <3>1, Zenon
    <3>2. CASE d # t
      <4>1. d \in DOMAIN domain_resources /\ domain_resources'[d] = domain_resources[d]
        BY <2>2, <3>2, Zenon
      <4>2. PICK j \in DOMAIN listed : /\ listed[j] \in DomainEntries
                                       /\ d = WithoutStars(listed[j].text)
                                       /\ domain_resources[d] = Rule(listed[j])
        BY <4>1, Zenon DEF SnapshotInv
      <4> QED
        BY <1>2, <4>1, <4>2, Zenon
    <3> QED
      BY <3>1, <3>2, Zenon
  <2>4. ASSUME NEW i \in DOMAIN listed', Newest(i)' PROVE InForce(i)'
    <3>1. CASE i = n
      BY <1>2, <2>2, <3>1, Zenon DEF InForce
    <3>2. CASE i # n
      <4>1. i \in DOMAIN listed /\ InForce(i)
        BY <1>2, <1>3, <2>4, <3>2, Zenon DEF SnapshotInv
      <4>2. WithoutStars(listed[i].text) # t
        BY <1>2, <2>1, <2>4, <4>1, Zenon DEF Newest
      <4> QED
        BY <1>2, <2>2, <4>1, <4>2, Zenon DEF InForce
    <3> QED
      BY <3>1, <3>2, Zenon
  <2>5. \A e \in DOMAIN dns_resource' : dns_resource'[e] # None
    <3>1. CASE a.static = None
      BY <1>7, <3>1, Zenon DEF ParseDomain, SnapshotInv
    <3>2. CASE a.static # None
      BY <1>7, <3>2, Zenon DEF ParseDomain, Put, SnapshotInv
    <3> QED
      BY <3>1, <3>2, Zenon
  <2>6. UNCHANGED ip_resources
    BY <1>7, Zenon DEF ParseDomain
  <2> QED
    BY <1>2, <1>5, <2>3, <2>4, <2>5, <2>6, Zenon DEF SnapshotInv
<1>8. CASE ParseIpv6(a)
  <2>1. "text" \notin DOMAIN a
    BY <1>8, Kinds, OfferedKinds, Zenon DEF ParseIpv6
  <2>2. UNCHANGED <<ip_resources, domain_resources, dns_resource>>
    BY <1>8, Zenon DEF ParseIpv6
  <2> QED
    BY <1>2, <1>4, <1>5, <2>1, <2>2, Zenon DEF SnapshotInv
<1> QED
  BY <1>1, <1>6, <1>7, <1>8, Zenon

\* The snapshot follows the list as it is read.
LEMMA SnapshotInvariant == RoutingSpec => []SnapshotInv
<1>1. ASSUME SnapshotInv, UNCHANGED routingVars PROVE SnapshotInv'
  BY <1>1, Zenon DEF SnapshotInv, Newest, InForce, routingVars
<1> QED
  BY <1>1, SnapshotInit, SnapshotStep, PTL DEF RoutingSpec
-----------------------------------------------------------------------------
(* route *)

\* The domain of a rule, and the rule, as the list has them.
LEMMA RulesAreListed ==
    ASSUME SnapshotInv, NEW d \in DOMAIN domain_resources
    PROVE  /\ d \in Seq(Labels)
           /\ \E j \in DOMAIN listed :
                 /\ listed[j] \in DomainEntries /\ d = WithoutStars(listed[j].text)
                 /\ domain_resources[d].protocol = listed[j].protocol
                 /\ domain_resources[d].ports = listed[j].ports
<1>1. PICK j \in DOMAIN listed : /\ listed[j] \in DomainEntries
                                 /\ d = WithoutStars(listed[j].text)
                                 /\ domain_resources[d] = Rule(listed[j])
  BY Zenon DEF SnapshotInv
<1>2. listed[j].text \in Seq(Labels)
  BY <1>1 DEF DomainEntries
<1>3. Rule(listed[j]).protocol = listed[j].protocol /\ Rule(listed[j]).ports = listed[j].ports
  BY DEF Rule
<1> QED
  BY <1>1, <1>2, <1>3, WithoutStarsTyped, Zenon

\* A host is a name, an address or IPv6.
LEMMA HostKinds ==
    /\ \A host \in Hosts : IsName(host) => host.name \in HostNames /\ ~IsIp(host)
    /\ \A host \in Hosts : IsIp(host) => host.ip \in Nat /\ ~IsName(host)
    /\ \A host \in [name : HostNames] : IsName(host) /\ ~IsIp(host) /\ host.name \in HostNames
    /\ \A ip : IsIp([ip |-> ip]) /\ ~IsName([ip |-> ip]) /\ [ip |-> ip].ip = ip
<1>1. \A host \in [name : HostNames] : DOMAIN host = {"name"} /\ host.name \in HostNames
  OBVIOUS
<1>2. \A host \in [ip : Ips] : DOMAIN host = {"ip"} /\ host.ip \in Nat
  <2>1. \A host \in [ip : Ips] : DOMAIN host = {"ip"} /\ host.ip \in Ips
    OBVIOUS
  <2> QED
    BY <2>1, RoutingAssumption, Zenon
<1>3. /\ DOMAIN [v6 |-> "literal"] = {"v6"}
      /\ \A ip : DOMAIN [ip |-> ip] = {"ip"} /\ [ip |-> ip].ip = ip
  OBVIOUS
<1>4. "name" # "ip" /\ "name" # "v6" /\ "ip" # "v6"
  OBVIOUS
<1> QED
  BY <1>1, <1>2, <1>3, <1>4, Zenon DEF Hosts, IsName, IsIp

\* A host name is a sequence of labels.
LEMMA NamesAreLabels == ASSUME NEW labels \in HostNames PROVE labels \in Seq(Labels)
BY HostNamesAssumption, Zenon

\* Whatever the list and the names asked for, route takes into the tunnel only
\* what is listed, and by the newest rule of a domain all that it lists.
THEOREM RoutesFollowList == RoutingSpec => []RouteFollowsList
<1>1. ASSUME SnapshotInv, NEW host \in Hosts, NEW port \in Ports, NEW protocol \in Protocols,
             Route(host, port, protocol)
      PROVE  /\ <<host, port>> \notin Nodes
             /\ \E i \in DOMAIN listed : Covers(listed[i], host, port, protocol)
  <2>1. <<host, port>> \notin Nodes
    BY <1>1, Zenon DEF Route, IsNodeEndpoint
  <2>2. CASE IsIp(host) /\ MatchIp(host.ip, port, protocol) # {}
    <3>1. PICK i \in DOMAIN ip_resources : /\ IpBetween(host.ip, ip_resources[i])
                                           /\ ProtocolMatches(ip_resources[i], protocol)
                                           /\ PortsMatch(ip_resources[i], port, protocol)
      BY <2>2, Zenon DEF MatchIp
    <3>2. PICK j \in DOMAIN listed : ip_resources[i] = listed[j]
      BY <1>1, Zenon DEF SnapshotInv
    <3>3. ip_resources[i] \in RangeEntries
      BY <1>1 DEF SnapshotInv
    <3> QED
      BY <2>1, <2>2, <3>1, <3>2, <3>3, Kinds, Zenon DEF Covers
  <2>3. CASE IsName(host) /\ MatchDomain(host.name, port, protocol) # {}
    <3>1. PICK d \in DOMAIN domain_resources :
                  /\ ProtocolMatches(domain_resources[d], protocol)
                  /\ PortsMatch(domain_resources[d], port, protocol)
                  /\ DomainMatches(host.name, d)
      BY <2>3, Zenon DEF MatchDomain
    <3>2. PICK j \in DOMAIN listed :
                  /\ listed[j] \in DomainEntries /\ d = WithoutStars(listed[j].text)
                  /\ domain_resources[d].protocol = listed[j].protocol
                  /\ domain_resources[d].ports = listed[j].ports
      BY <1>1, RulesAreListed, Zenon
    <3>3. ProtocolMatches(listed[j], protocol) /\ PortsMatch(listed[j], port, protocol)
      BY <3>1, <3>2, Zenon DEF ProtocolMatches, PortsMatch
    <3>4. host.name \in Seq(Labels) /\ d \in Seq(Labels)
      BY <1>1, <2>3, HostKinds, NamesAreLabels, RulesAreListed, Zenon
    <3>5. EndsWith(TrimEnd(host.name), NormalizeDomain(d))
      BY <3>1, <3>4, MatchIsSuffix, Zenon
    <3> QED
      BY <2>1, <2>3, <3>2, <3>3, <3>5, Kinds, Zenon DEF Covers
  <2> QED
    BY <1>1, <2>2, <2>3, Zenon DEF Route
<1>2. ASSUME SnapshotInv, NEW i \in DOMAIN listed, Newest(i), NEW host \in [name : HostNames],
             NEW port \in Ports, NEW protocol \in Protocols,
             TrimEnd(host.name) = NormalizeDomain(WithoutStars(listed[i].text)),
             Covers(listed[i], host, port, protocol), <<host, port>> \notin Nodes
      PROVE  Route(host, port, protocol)
  <2> DEFINE d == WithoutStars(listed[i].text)
  <2>1. d \in DOMAIN domain_resources /\ domain_resources[d] = Rule(listed[i])
    BY <1>2, Zenon DEF SnapshotInv, InForce
  <2>2. Rule(listed[i]).protocol = listed[i].protocol /\ Rule(listed[i]).ports = listed[i].ports
    BY DEF Rule
  <2>3. /\ ProtocolMatches(domain_resources[d], protocol)
        /\ PortsMatch(domain_resources[d], port, protocol)
    BY <1>2, <2>1, <2>2, Zenon DEF Covers, ProtocolMatches, PortsMatch
  <2>4. IsName(host) /\ host.name \in Seq(Labels) /\ d \in Seq(Labels)
    BY <1>2, <2>1, HostKinds, NamesAreLabels, RulesAreListed, Zenon
  <2>5. DomainMatches(host.name, d)
    BY <1>2, <2>4, DomainIsMatched, Zenon
  <2>6. d \in MatchDomain(host.name, port, protocol)
    BY <2>1, <2>3, <2>5, Zenon DEF MatchDomain
  <2> QED
    BY <1>2, <2>4, <2>6, Zenon DEF Route, IsNodeEndpoint
<1>3. SnapshotInv => RouteFollowsList
  BY <1>1, <1>2, Zenon DEF RouteFollowsList
<1> QED
  BY <1>3, SnapshotInvariant, PTL
-----------------------------------------------------------------------------
(* select_icmp_keepalive_target *)

\* The representative of a range is in it, blocks of any size notwithstanding.
LEMMA RepresentativeInside ==
    ASSUME NEW r \in RangeEntries, r.min <= r.max
    PROVE  /\ Representative(r) \in Nat
           /\ r.min <= Representative(r) /\ Representative(r) <= r.max
<1> DEFINE middle == r.min + (r.max - r.min) \div 2
<1>1. r.min \in Nat /\ r.max \in Nat /\ ~(r.min > r.max)
  BY DEF RangeEntries
<1>2. middle \in Nat /\ r.min <= middle /\ middle <= r.max
  BY <1>1
<1>3. Representative(r) = IF r.min < r.max /\ middle % Block \in {0, Block - 1}
                          THEN IF middle + 1 < r.max THEN middle + 1 ELSE r.max
                          ELSE middle
  BY <1>1, Zenon DEF Representative
<1> HIDE DEF middle
<1>4. \/ Representative(r) \in {middle, r.max}
      \/ Representative(r) = middle + 1 /\ middle + 1 < r.max
  BY <1>3, Zenon
<1> QED
  BY <1>1, <1>2, <1>4

\* Whatever the list, a keepalive target is found when one is managed and no
\* range for ICMP is reversed.
THEOREM KeepaliveTargetIsFound == RoutingSpec => []KeepaliveTargetFound
<1>1. ASSUME SnapshotInv, NEW ip \in Ips, RouteIcmp(ip),
             \A i \in DOMAIN ip_resources :
                AllowsIcmp(ip_resources[i]) => ip_resources[i].min <= ip_resources[i].max
      PROVE  None \notin KeepaliveTargets
  <2>1. \A i \in DOMAIN ip_resources : ip_resources[i] \in RangeEntries /\ i \in Nat
    BY <1>1 DEF SnapshotInv
  <2>2. ASSUME NEW i \in DOMAIN ip_resources, AllowsIcmp(ip_resources[i])
        PROVE  /\ Representative(ip_resources[i]) \in Nat
               /\ IpBetween(Representative(ip_resources[i]), ip_resources[i])
    BY <1>1, <2>1, <2>2, RepresentativeInside, Zenon DEF IpBetween
  <2>3. None \notin StaticTargets
    BY <1>1, Zenon DEF SnapshotInv, StaticTargets
  <2>4. PICK i \in DOMAIN ip_resources : ProtocolMatches(ip_resources[i], "icmp")
    BY <1>1, HostKinds, Zenon DEF RouteIcmp, Route, MatchIp
  <2>5. AllowsIcmp(ip_resources[i])
    BY <2>4, Zenon DEF AllowsIcmp, ProtocolMatches
  <2>6. RouteIcmp(Representative(ip_resources[i]))
    <3> DEFINE rep == Representative(ip_resources[i])
    <3>1. <<[ip |-> rep], 0>> \notin Nodes
      <4>1. <<[ip |-> rep], 0>>[2] = 0
        OBVIOUS
      <4> QED
        BY <4>1, NodesAssumption, Zenon
    <3>2. i \in MatchIp(rep, 0, "icmp")
      BY <2>2, <2>4, <2>5, Zenon DEF MatchIp, PortsMatch
    <3> QED
      BY <3>1, <3>2, HostKinds, Zenon DEF RouteIcmp, Route, IsNodeEndpoint
  <2>7. i \in Stops /\ Stops \subseteq Nat
    BY <2>1, <2>5, <2>6, Zenon DEF Stops
  <2> DEFINE least == CHOOSE s \in Stops : \A j \in Stops : s <= j
  <2>8. least \in Stops
    <3>1. \E s \in Stops : \A j \in Stops : s <= j
      BY <2>7, LeastNumber, Zenon
    <3> QED
      BY <3>1, Zenon
  <2>9. least \in DOMAIN ip_resources /\ AllowsIcmp(ip_resources[least])
    BY <2>8, Zenon DEF Stops
  <2>10. Representative(ip_resources[least]) # None
    BY <2>2, <2>9, RoutingAssumption, Zenon
  <2> HIDE DEF least
  <2>11. KeepaliveTargets \in {StaticTargets, {Representative(ip_resources[least])}}
    BY <2>7, Zenon DEF KeepaliveTargets, least
  <2> QED
    BY <2>3, <2>10, <2>11, Zenon
<1>2. SnapshotInv => KeepaliveTargetFound
  BY <1>1, Zenon DEF KeepaliveTargetFound
<1> QED
  BY <1>2, SnapshotInvariant, PTL
-----------------------------------------------------------------------------
(* The PAC script *)

\* Of a host name, the script and route drop the same: the final dot, if any.
LEMMA ScriptTrims ==
    ASSUME NEW labels \in HostNames
    PROVE  Dotless(labels) = TrimEnd(labels)
<1> DEFINE h == TrimEnd(labels)
<1>1. labels \in Seq(Labels) /\ Len(labels) \in Nat \ {0}
  BY HostNamesAssumption
<1>2. \A i \in 1..Len(labels) : labels[i] = NoLabel => i = Len(labels) /\ i > 1
  BY <1>1, HostNamesAssumption
<1>3. Filled(labels) # {}
  <2>1. 1 \in DOMAIN labels /\ labels[1] # NoLabel
    BY <1>1, <1>2
  <2> QED
    BY <2>1, Zenon DEF Filled
<1>4. /\ h \in Seq(Labels) /\ Len(h) >= 1 /\ Len(h) <= Len(labels)
      /\ \A i \in 1..Len(h) : h[i] = labels[i]
      /\ h[Len(h)] # NoLabel
      /\ \A i \in 1..Len(labels) : Len(h) < i => labels[i] = NoLabel
  BY <1>1, <1>3, TrimEndMeans, Zenon
<1> HIDE DEF h
<1>5. CASE Len(labels) > 1 /\ labels[Len(labels)] = NoLabel
  <2>1. Len(h) = Len(labels) - 1
    BY <1>1, <1>2, <1>4, <1>5
  <2> DEFINE m == Len(labels) - 1
  <2>2. m \in 1..Len(labels)
    BY <1>1, <1>5
  <2> HIDE DEF m
  <2>3. /\ SubSeq(labels, 1, m) \in Seq(Labels) /\ Len(SubSeq(labels, 1, m)) = m
        /\ \A i \in 1..m : SubSeq(labels, 1, m)[i] = labels[i]
    BY <1>1, <2>2
  <2>4. Len(h) = m
    BY <2>1, Zenon DEF m
  <2>5. SubSeq(labels, 1, m) = h
    BY <1>4, <2>3, <2>4
  <2> QED
    BY <1>5, <2>5, Zenon DEF Dotless, h, m
<1>6. CASE ~(Len(labels) > 1 /\ labels[Len(labels)] = NoLabel)
  <2>1. Len(h) = Len(labels)
    BY <1>1, <1>2, <1>4, <1>6
  <2>2. labels = h
    BY <1>1, <1>4, <2>1
  <2> QED
    BY <1>6, <2>2, Zenon DEF Dotless, h
<1> QED
  BY <1>5, <1>6, Zenon

\* A suffix of a name has no other labels than the name.
LEMMA SuffixIsValid ==
    ASSUME NEW labels \in HostNames, Valid(labels),
           NEW s \in Seq(Labels), EndsWith(TrimEnd(labels), s)
    PROVE  Valid(s)
<1> DEFINE h == TrimEnd(labels)
<1>1. labels \in Seq(Labels) /\ labels[1] # NoLabel /\ 1 \in DOMAIN labels
  <2>1. labels \in Seq(Labels) /\ Len(labels) \in Nat \ {0}
    BY HostNamesAssumption
  <2> QED
    BY <2>1, HostNamesAssumption
<1>2. Filled(labels) # {}
  BY <1>1, Zenon DEF Filled
<1>3. /\ h \in Seq(Labels) /\ Len(h) <= Len(labels)
      /\ \A i \in 1..Len(h) : h[i] = labels[i]
  BY <1>1, <1>2, TrimEndMeans, Zenon
<1>4. Len(s) <= Len(h) /\ \A i \in 1..Len(s) : s[i] = h[Len(h) - Len(s) + i]
  BY <1>3, SuffixMeans, Zenon
<1> HIDE DEF h
<1>5. \A i \in DOMAIN labels : labels[i] \notin Odd
  BY Zenon DEF Valid
<1>6. ASSUME NEW i \in DOMAIN s PROVE s[i] \notin Odd
  <2> DEFINE j == Len(h) - Len(s) + i
  <2>1. i \in 1..Len(s)
    OBVIOUS
  <2>2. j \in 1..Len(h) /\ j \in DOMAIN labels
    BY <1>1, <1>3, <1>4, <2>1
  <2>3. s[i] = labels[j]
    BY <1>3, <1>4, <2>1, <2>2, Zenon
  <2> QED
    BY <1>5, <2>2, <2>3, Zenon
<1> QED
  BY <1>6, Zenon DEF Valid

\* No suffix of a host name is the empty name, which the script does not list.
LEMMA SuffixHasLabel ==
    ASSUME NEW labels \in HostNames, NEW s \in Seq(Labels), EndsWith(TrimEnd(labels), s)
    PROVE  s # <<NoLabel>>
<1> DEFINE h == TrimEnd(labels)
<1>1. SUFFICES ASSUME s = <<NoLabel>> PROVE FALSE
  OBVIOUS
<1>2. labels \in Seq(Labels) /\ Len(labels) \in Nat \ {0}
  BY HostNamesAssumption
<1>3. labels[1] # NoLabel /\ 1 \in DOMAIN labels
  BY <1>2, HostNamesAssumption
<1>4. Filled(labels) # {}
  BY <1>3, Zenon DEF Filled
<1>5. h \in Seq(Labels) /\ h[Len(h)] # NoLabel
  BY <1>2, <1>4, TrimEndMeans, Zenon
<1>6. Len(<<NoLabel>>) = 1 /\ <<NoLabel>>[1] = NoLabel /\ 1 \in 1..1
  OBVIOUS
<1>7. s[1] = h[Len(h) - 1 + 1]
  BY <1>1, <1>5, <1>6, SuffixMeans, Zenon
<1>8. Len(h) - 1 + 1 = Len(h)
  BY <1>5
<1> QED
  BY <1>1, <1>5, <1>6, <1>7, <1>8, Zenon

\* The script has a name for managed by the rules for TCP whose domain it is in.
LEMMA ScriptHits ==
    ASSUME SnapshotInv, NEW labels \in HostNames, Valid(labels)
    PROVE  PacDomainHit(labels) <=>
              \E d \in DOMAIN domain_resources :
                 /\ CarriesTcp(domain_resources[d])
                 /\ EndsWith(TrimEnd(labels), NormalizeDomain(d))
<1> DEFINE h == TrimEnd(labels)
<1>1. h \in Seq(Labels) /\ DOMAIN h = 1..Len(h)
  <2>1. h \in Seq(Labels)
    BY NamesAreLabels, TrimEndMeans, Zenon
  <2> QED
    BY <2>1
<1>2. PacDomainHit(labels) <=> \E k \in 1..Len(h) : SubSeq(h, k, Len(h)) \in PacDomains
  BY <1>1, ScriptTrims, Zenon DEF PacDomainHit
<1>3. ASSUME NEW k \in 1..Len(h), SubSeq(h, k, Len(h)) \in PacDomains
      PROVE  \E d \in DOMAIN domain_resources :
                CarriesTcp(domain_resources[d]) /\ EndsWith(h, NormalizeDomain(d))
  <2>1. EndsWith(h, SubSeq(h, k, Len(h)))
    BY <1>1, TailIsSuffix, Zenon
  <2>2. PICK d \in DOMAIN domain_resources :
               CarriesTcp(domain_resources[d]) /\ NormalizeDomain(d) = SubSeq(h, k, Len(h))
    BY <1>3, Zenon DEF PacDomains
  <2> QED
    BY <2>1, <2>2, Zenon
<1>4. ASSUME NEW d \in DOMAIN domain_resources, CarriesTcp(domain_resources[d]),
             EndsWith(h, NormalizeDomain(d))
      PROVE  \E k \in 1..Len(h) : SubSeq(h, k, Len(h)) \in PacDomains
  <2>1. NormalizeDomain(d) \in Seq(Labels) /\ Len(NormalizeDomain(d)) >= 1
    BY RulesAreListed, NormalCases, Zenon
  <2>2. NormalizeDomain(d) # <<NoLabel>>
    BY <1>4, <2>1, SuffixHasLabel, Zenon
  <2>3. NormalizeDomain(d) \in PacDomains
    <3>1. Valid(NormalizeDomain(d))
      BY <1>4, <2>1, SuffixIsValid, Zenon
    <3> QED
      BY <1>4, <2>2, <3>1, Zenon DEF PacDomains
  <2>4. \E k \in 1..Len(h) : NormalizeDomain(d) = SubSeq(h, k, Len(h))
    BY <1>1, <1>4, <2>1, SuffixIsTail, Zenon
  <2> QED
    BY <2>3, <2>4, Zenon
<1> QED
  BY <1>2, <1>3, <1>4, Zenon

\* The two tests for TCP are the same.
LEMMA TcpCarried == \A rule : CarriesTcp(rule) <=> ProtocolMatches(rule, "tcp")
BY Zenon DEF CarriesTcp, ProtocolMatches

\* The script misses no name that route has for managed,
LEMMA ManagedIsHit ==
    ASSUME SnapshotInv, NEW labels \in HostNames, Valid(labels), NEW d \in DOMAIN domain_resources,
           ProtocolMatches(domain_resources[d], "tcp"), DomainMatches(labels, d)
    PROVE  PacDomainHit(labels)
<1>1. labels \in Seq(Labels) /\ d \in Seq(Labels)
  BY NamesAreLabels, RulesAreListed, Zenon
<1>2. EndsWith(TrimEnd(labels), NormalizeDomain(d))
  BY <1>1, MatchIsSuffix, Zenon
<1> QED
  BY <1>2, ScriptHits, TcpCarried, Zenon

\* and no address.
LEMMA ManagedIsInRange ==
    ASSUME SnapshotInv, NEW ip \in Nat, NEW port, MatchIp(ip, port, "tcp") # {}
    PROVE  InRanges(ip)
<1>1. PICK i \in DOMAIN ip_resources : /\ IpBetween(ip, ip_resources[i])
                                       /\ ProtocolMatches(ip_resources[i], "tcp")
  BY Zenon DEF MatchIp
<1>2. ip_resources[i].min \in Nat /\ ip_resources[i].max \in Nat
  <2>1. ip_resources[i] \in RangeEntries
    BY DEF SnapshotInv
  <2> QED
    BY <2>1 DEF RangeEntries
<1>3. ip_resources[i].min <= ip_resources[i].max
  BY <1>1, <1>2 DEF IpBetween
<1> QED
  BY <1>1, <1>3, TcpCarried, Zenon DEF InRanges, PacRanges

\* Whatever the list, for addresses and for names of letters, digits, '-' and '_'
\* the script sends to the proxy what the proxy takes into the tunnel, unless it
\* takes it for the address of a plain name or for one of several addresses; and
\* of such names it knows the managed ones.
THEOREM ScriptAgrees == RoutingSpec => []PacAgrees
<1>1. ASSUME SnapshotInv, NEW host \in Hosts, NEW port \in Ports, ResolvedTcpRoute(host, port),
             IsName(host) =>
                /\ Valid(host.name)
                /\ \/ Route(host, port, "tcp")
                   \/ Len(Dotless(host.name)) > 1 /\ Len(Resolve[host.name]) < 2
      PROVE  FindProxyForURL(host)
  <2>1. CASE IsIp(host)
    <3>1. ~IsName(host) /\ host.ip \in Nat
      BY <2>1, HostKinds, Zenon
    <3>2. MatchIp(host.ip, port, "tcp") # {}
      BY <1>1, <3>1, Zenon DEF ResolvedTcpRoute, Route
    <3> QED
      BY <1>1, <2>1, <3>1, <3>2, ManagedIsInRange, Zenon DEF FindProxyForURL
  <2>2. CASE IsName(host)
    <3>1. ~IsIp(host) /\ host.name \in HostNames
      BY <2>2, HostKinds, Zenon
    <3>2. CASE Route(host, port, "tcp")
      <4>1. PICK d \in DOMAIN domain_resources :
                   ProtocolMatches(domain_resources[d], "tcp") /\ DomainMatches(host.name, d)
        BY <3>1, <3>2, Zenon DEF Route, MatchDomain
      <4> QED
        BY <1>1, <2>2, <3>1, <4>1, ManagedIsHit, Zenon DEF FindProxyForURL
    <3>3. CASE ~Route(host, port, "tcp")
      <4> DEFINE ips == Resolve[host.name]
      <4>1. Len(Dotless(host.name)) > 1 /\ Len(ips) < 2
        BY <1>1, <2>2, <3>3, Zenon
      <4>2. PICK i \in DOMAIN ips : Route([ip |-> ips[i]], port, "tcp")
        BY <1>1, <3>3, Zenon DEF ResolvedTcpRoute
      <4>3. ips \in Seq(Nat) /\ Resolve[Dotless(host.name)] = ips
        BY <3>1, <4>1, HostNamesAssumption, Zenon
      <4> HIDE DEF ips
      <4>4. ips # <<>> /\ Head(ips) = ips[i] /\ ips[i] \in Nat
        BY <4>1, <4>3
      <4>5. MatchIp(ips[i], port, "tcp") # {}
        BY <4>2, HostKinds, Zenon DEF Route
      <4>6. InRanges(Head(ips))
        BY <1>1, <4>4, <4>5, ManagedIsInRange, Zenon
      <4> QED
        BY <2>2, <4>1, <4>3, <4>4, <4>6, Zenon DEF FindProxyForURL
    <3> QED
      BY <3>2, <3>3, Zenon
  <2>3. IsIp(host) \/ IsName(host)
    BY <1>1, Zenon DEF ResolvedTcpRoute, Route
  <2> QED
    BY <2>1, <2>2, <2>3, Zenon
<1>2. ASSUME SnapshotInv, NEW labels \in HostNames, Valid(labels),
             \A i \in DOMAIN listed : "text" \in DOMAIN listed[i] =>
                ~TwoDots(WithoutStars(listed[i].text))
      PROVE  PacDomainHit(labels) <=> DomainManaged(labels, "tcp")
  <2>1. DomainManaged(labels, "tcp") => PacDomainHit(labels)
    BY <1>2, ManagedIsHit, Zenon DEF DomainManaged
  <2>2. ASSUME PacDomainHit(labels) PROVE DomainManaged(labels, "tcp")
    <3>1. PICK d \in DOMAIN domain_resources : /\ CarriesTcp(domain_resources[d])
                                               /\ EndsWith(TrimEnd(labels), NormalizeDomain(d))
      BY <1>2, <2>2, ScriptHits, Zenon
    <3>2. d \in Seq(Labels) /\ labels \in Seq(Labels)
      BY <1>2, NamesAreLabels, RulesAreListed, Zenon
    <3>3. ~TwoDots(d)
      <4>1. PICK j \in DOMAIN listed : /\ listed[j] \in DomainEntries
                                       /\ d = WithoutStars(listed[j].text)
        BY <1>2, Zenon DEF SnapshotInv
      <4> QED
        BY <1>2, <4>1, Kinds, Zenon
    <3>4. DomainMatches(labels, d)
      BY <3>1, <3>2, <3>3, SuffixIsMatched, Zenon
    <3> QED
      BY <3>1, <3>4, TcpCarried, Zenon DEF DomainManaged
  <2> QED
    BY <2>1, <2>2, Zenon
<1>3. SnapshotInv => PacAgrees
  BY <1>1, <1>2, Zenon DEF PacAgrees
<1> QED
  BY <1>3, SnapshotInvariant, PTL
=============================================================================
