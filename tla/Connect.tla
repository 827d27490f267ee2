------------------------------ MODULE Connect ------------------------------
(***************************************************************************)
(* Outbound TCP connections of transport.rs: connect_tcp_any walks the     *)
(* resolver's addresses under one deadline, connect_tcp_bound binds each   *)
(* attempt to the default physical interface and retries an address once   *)
(* if a fresh look at the routing table gives another interface, and the   *)
(* interface is cached, per address family, for all callers of the         *)
(* process.                                                                *)
(*                                                                         *)
(* Looking up the interface takes no time here (the code runs a            *)
(* subprocess), but it is several steps: others run between the lookup and *)
(* the store.  Only a pending connect lets time pass, and poll returns as  *)
(* soon as its timeout has.                                                *)
(***************************************************************************)
EXTENDS Naturals, FiniteSets

CONSTANTS
    Callers,            \* threads that connect
    Modes,              \* configurations: "auto", "off" or the interface bind_interface names
    Ifaces,             \* physical interfaces
    Unbound,            \* no interface: the socket is not bound
    NumAddrs,           \* length of the resolver's answer
    FamilyOf,           \* family of each address
    Reaches,            \* what may answer: functions of address and interface
    Timeout,            \* connect_timeout_ms
    AttemptTimeout,     \* CONNECT_ATTEMPT_TIMEOUT
    TTL,                \* DEFAULT_INTERFACE_CACHE_TTL
    MaxTime, MaxMoves, MaxSignals   \* bounds of the model

ASSUME ConnectAssumption ==
    /\ {Timeout, AttemptTimeout, TTL, NumAddrs} \subseteq Nat \ {0}
    /\ {MaxTime, MaxMoves, MaxSignals} \subseteq Nat
    /\ Unbound \notin Ifaces
    /\ Modes \subseteq Ifaces \cup {"auto", "off"} /\ "auto" \notin Ifaces

Addrs == 1..NumAddrs
Families == {FamilyOf[a] : a \in Addrs}
Indexes == Ifaces \cup {Unbound}
Empty == [iface |-> Unbound, at |-> 0]

VARIABLES
    now,
    mode,       \* the process's configuration
    reach,      \* "answers", "resets", "refuses" or "silent", for address and interface
    route,      \* the interface of the default route, per family
    moves,      \* how often it changed
    cache,      \* DEFAULT_INTERFACE_CACHE
    pc,         \* where each caller is
    index,      \* the address it is at
    began,      \* when connect_tcp_any was called
    limit,      \* attempt_timeout of the address
    end,        \* when the pending poll gives up
    selected,   \* the interface of the attempt
    found,      \* an interface computed and not yet stored
    second,     \* after the refresh
    signals,    \* interruptions of poll
    moved,      \* the route changed during the call
    gaveUp      \* addresses that failed

envVars == <<mode, reach, route, moves>>
callVars == <<index, began, limit, signals, moved, gaveUp>>
tryVars == <<end, selected, found, second>>
connectVars == <<now, envVars, cache, pc, callVars, tryVars>>

ConnectInit ==
    /\ now = 0 /\ moves = 0
    /\ mode \in Modes /\ reach \in Reaches
    /\ route \in [Families -> Indexes]
    /\ cache = [f \in Families |-> Empty]
    /\ pc = [c \in Callers |-> "idle"]
    /\ index = [c \in Callers |-> 1]
    /\ began = [c \in Callers |-> 0]
    /\ limit = [c \in Callers |-> 0]
    /\ end = [c \in Callers |-> 0]
    /\ selected = [c \in Callers |-> Unbound]
    /\ found = [c \in Callers |-> Unbound]
    /\ second = [c \in Callers |-> FALSE]
    /\ signals = [c \in Callers |-> 0]
    /\ moved = [c \in Callers |-> FALSE]
    /\ gaveUp = [c \in Callers |-> {}]

Family(c) == FamilyOf[index[c]]
Waiting(c) == pc[c] = "wait"
----------------------------------------------------------------------------
(* connect_tcp_any *)

Begin(c) ==
    /\ pc[c] = "idle" /\ now + (2 + MaxSignals) * Timeout <= MaxTime
    /\ pc' = [pc EXCEPT ![c] = "next"]
    /\ index' = [index EXCEPT ![c] = 1]
    /\ began' = [began EXCEPT ![c] = now]
    /\ signals' = [signals EXCEPT ![c] = 0]
    /\ moved' = [moved EXCEPT ![c] = FALSE]
    /\ gaveUp' = [gaveUp EXCEPT ![c] = {}]
    /\ UNCHANGED <<now, envVars, cache, limit, tryVars>>

\* Mutant: the deadline is taken anew for each address.
RemainingAnew(c) == Timeout

Remaining(c) == LET deadline == began[c] + Timeout
                IN  IF now < deadline THEN deadline - now ELSE 0

Least(m, n) == IF m < n THEN m ELSE n

AttemptLimit(c) ==
    IF index[c] = NumAddrs THEN Remaining(c) ELSE Least(Remaining(c), AttemptTimeout)

NextAddress(c) ==
    /\ pc[c] = "next"
    /\ index[c] <= NumAddrs /\ Remaining(c) # 0
    /\ limit' = [limit EXCEPT ![c] = AttemptLimit(c)]
    /\ second' = [second EXCEPT ![c] = FALSE]
    /\ pc' = [pc EXCEPT ![c] = "select"]
    /\ UNCHANGED <<now, envVars, cache, index, began, signals, moved, gaveUp,
                   end, selected, found>>

\* The addresses, or the time, are used up.
GiveUp(c) ==
    /\ pc[c] = "next"
    /\ index[c] > NumAddrs \/ Remaining(c) = 0
    /\ pc' = [pc EXCEPT ![c] = "failed"]
    /\ UNCHANGED <<now, envVars, cache, callVars, tryVars>>

\* The caller has its stream or its error, and may connect again.
Return(c) ==
    /\ pc[c] \in {"connected", "failed"}
    /\ pc' = [pc EXCEPT ![c] = "idle"]
    /\ UNCHANGED <<now, envVars, cache, callVars, tryVars>>

\* The error of connect_tcp_bound: on to the next address.
AddressFailed(c) ==
    /\ pc' = [pc EXCEPT ![c] = "next"]
    /\ index' = [index EXCEPT ![c] = @ + 1]
    /\ gaveUp' = [gaveUp EXCEPT ![c] = @ \cup {index[c]}]
    /\ UNCHANGED <<began, limit, signals, moved>>
----------------------------------------------------------------------------
(* connect_tcp_bound and the cache of the default interface *)

Cached(f) ==
    IF cache[f].iface # Unbound /\ now - cache[f].at < TTL THEN cache[f].iface ELSE Unbound

\* connect_tcp_bound_once up to its poll.
Attempt(c, iface) ==
    /\ selected' = [selected EXCEPT ![c] = iface]
    /\ end' = [end EXCEPT ![c] = now + limit[c]]
    /\ pc' = [pc EXCEPT ![c] = "wait"]

SelectCached(c) ==
    /\ pc[c] = "select" /\ mode = "auto" /\ Cached(Family(c)) # Unbound
    /\ Attempt(c, Cached(Family(c)))
    /\ UNCHANGED <<now, envVars, cache, callVars, found, second>>

SelectMissed(c) ==
    /\ pc[c] = "select" /\ mode = "auto" /\ Cached(Family(c)) = Unbound
    /\ pc' = [pc EXCEPT ![c] = "compute"]
    /\ UNCHANGED <<now, envVars, cache, callVars, tryVars>>

\* bind_interface names an interface, or nothing is bound at all.
SelectConfigured(c) ==
    /\ pc[c] = "select" /\ mode # "auto"
    /\ Attempt(c, IF mode = "off" THEN Unbound ELSE mode)
    /\ UNCHANGED <<now, envVars, cache, callVars, found, second>>

\* The named interface does not exist.
SelectUnknown(c) ==
    /\ pc[c] = "select" /\ mode \in Ifaces
    /\ AddressFailed(c)
    /\ UNCHANGED <<now, envVars, cache, tryVars>>

\* What connect_tcp_bound does with the interface it looked up: the first time
\* it connects, after a failure only if the interface is another one.
Proceed(c, iface) ==
    IF second[c] /\ iface = selected[c]
    THEN AddressFailed(c) /\ UNCHANGED <<end, selected>>
    ELSE Attempt(c, iface) /\ UNCHANGED callVars

\* Mutant: the refresh after a failure is content with the cache.
ComputeCached(c) ==
    /\ pc[c] = "compute"
    /\ LET cached == Cached(Family(c))
           iface == IF second[c] /\ cached # Unbound THEN cached ELSE route[Family(c)]
       IN  IF iface = Unbound
           THEN Proceed(c, Unbound) /\ found' = found
           ELSE /\ found' = [found EXCEPT ![c] = iface]
                /\ pc' = [pc EXCEPT ![c] = "store"]
                /\ UNCHANGED <<callVars, end, selected>>
    /\ UNCHANGED <<now, envVars, cache, second>>

\* compute_default_interface_index; no answer is not stored.
Compute(c) ==
    /\ pc[c] = "compute"
    /\ LET iface == route[Family(c)]
       IN  IF iface = Unbound
           THEN Proceed(c, Unbound) /\ found' = found
           ELSE /\ found' = [found EXCEPT ![c] = iface]
                /\ pc' = [pc EXCEPT ![c] = "store"]
                /\ UNCHANGED <<callVars, end, selected>>
    /\ UNCHANGED <<now, envVars, cache, second>>

Stored(f, iface) == [cache EXCEPT ![f] = [iface |-> iface, at |-> now]]

\* store_default_interface_index, under the cache's lock.
Store(c) ==
    /\ pc[c] = "store"
    /\ cache' = Stored(Family(c), found[c])
    /\ Proceed(c, found[c])
    /\ UNCHANGED <<now, envVars, found, second>>
----------------------------------------------------------------------------
(* wait_for_connect *)

Outcome(c) == reach[index[c], selected[c]]

Connected(c) ==
    /\ Waiting(c) /\ Outcome(c) = "answers"
    /\ pc' = [pc EXCEPT ![c] = "connected"]
    /\ UNCHANGED <<now, envVars, cache, callVars, tryVars>>

\* Connected, and reset before configure_connected_tcp: the address failed.
ConfigureFailed(c) ==
    /\ Waiting(c) /\ Outcome(c) = "resets"
    /\ AddressFailed(c)
    /\ UNCHANGED <<now, envVars, cache, tryVars>>

\* The connection is refused, or poll times out.
AttemptFailed(c) ==
    /\ Waiting(c)
    /\ Outcome(c) = "refuses" \/ (Outcome(c) = "silent" /\ now >= end[c])
    /\ IF mode = "auto" /\ ~second[c]
       THEN /\ second' = [second EXCEPT ![c] = TRUE]
            /\ pc' = [pc EXCEPT ![c] = "compute"]
            /\ UNCHANGED callVars
       ELSE AddressFailed(c) /\ second' = second
    /\ UNCHANGED <<now, envVars, cache, end, selected, found>>

\* EINTR: poll starts over with the whole timeout.
Interrupted(c) ==
    /\ Waiting(c) /\ signals[c] < MaxSignals
    /\ signals' = [signals EXCEPT ![c] = @ + 1]
    /\ end' = [end EXCEPT ![c] = now + limit[c]]
    /\ UNCHANGED <<now, envVars, cache, pc, index, began, limit, moved, gaveUp,
                   selected, found, second>>
----------------------------------------------------------------------------
(* Time and the network *)

Tick ==
    /\ now < MaxTime
    /\ \A c \in Callers :
          \/ pc[c] = "idle"
          \/ Waiting(c) /\ Outcome(c) # "refuses" /\ now < end[c]
    /\ now' = now + 1
    /\ UNCHANGED <<envVars, cache, pc, callVars, tryVars>>

RouteMoves ==
    /\ moves < MaxMoves
    /\ \E f \in Families : \E iface \in Indexes \ {route[f]} :
          route' = [route EXCEPT ![f] = iface]
    /\ moves' = moves + 1
    /\ moved' = [c \in Callers |-> TRUE]
    /\ UNCHANGED <<now, mode, reach, cache, pc, index, began, limit, signals,
                   gaveUp, tryVars>>

Caller(c) ==
    \/ Begin(c) \/ NextAddress(c) \/ GiveUp(c) \/ Return(c)
    \/ SelectCached(c) \/ SelectMissed(c) \/ SelectConfigured(c) \/ SelectUnknown(c)
    \/ Compute(c) \/ Store(c)
    \/ Connected(c) \/ ConfigureFailed(c) \/ AttemptFailed(c) \/ Interrupted(c)

ConnectNext == (\E c \in Callers : Caller(c)) \/ Tick \/ RouteMoves

ConnectSpec == ConnectInit /\ [][ConnectNext]_connectVars
----------------------------------------------------------------------------
\* connect_tcp_any returns within twice connect_timeout_ms, the second half
\* being the retry of the last address on another interface; each interruption
\* of poll adds at most one more timeout.
CallTime ==
    \A c \in Callers : pc[c] # "idle" => now - began[c] <= (2 + signals[c]) * Timeout

\* "Connects to the first reachable address": while the default route stays what
\* it was during the call, an address that answers on the current interface is
\* not given up, whatever older interface the cache, or another caller's late
\* store, still names.  (An address reached and reset on that older interface
\* is given up without a retry.)
FirstReachable ==
    \A c \in Callers :
       mode = "auto" /\ ~moved[c] =>
          \A a \in gaveUp[c] :
             reach[a, route[FamilyOf[a]]] = "answers" => \E i \in Indexes : reach[a, i] = "resets"

=============================================================================
