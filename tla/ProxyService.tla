---------------------------- MODULE ProxyService ----------------------------
(***************************************************************************)
(* ProxyService (proxy_service.rs): the listener thread, one thread for    *)
(* each connection, and stop(), which shuts the registered sockets down    *)
(* and joins every thread.  What a connection thread does with its client  *)
(* is reduced to whether it waits for it, is opening the target, or is     *)
(* over; ProxyRelay has the relay.                                         *)
(***************************************************************************)
EXTENDS Naturals, FiniteSets

CONSTANTS
    Stoppers,    \* threads that call stop(), Drop included
    NoThread,
    MaxHandles,  \* 256: finished handles are dropped from here on
    Tunnels,     \* whether the service starts with keepalive_l3
    MaxConns     \* bound: connections accepted

Conns == 1..MaxConns

ASSUME ProxyServiceAssumption ==
    /\ NoThread \notin Stoppers /\ MaxHandles \in Nat /\ MaxConns \in Nat
    /\ Tunnels \subseteq BOOLEAN

VARIABLES
    stop,                   \* ProxyService.stop
    listener, n,            \* the listener thread and its connection_id
    clients, pokes,         \* connections to accept: of clients, of stop()
    conn,                   \* the connection threads
    gone,                   \* connections whose client or target has hung up
    sockets, active,        \* active_sockets, active_connections
    handles,                \* connections: the join handles
    unregistered,           \* history: connections whose try_clone failed
    shut,                   \* connections stop() has shut down
    unwoken,                \* history: a connect of stop() to the listener failed
    pc, mine,               \* the stoppers and the handles each has taken
    worker, joining,        \* the listener's handle; who holds its mutex
    tunnel, tunnelLock      \* keepalive_l3 is open; who holds its mutex

acceptVars == <<listener, n, clients, pokes>>
connVars == <<conn, gone>>
tableVars == <<sockets, active, handles, unregistered>>
stopVars == <<stop, shut, unwoken, pc, mine, worker, joining, tunnel, tunnelLock>>
vars == <<acceptVars, connVars, tableVars, stopVars>>

Init ==
    /\ stop = FALSE /\ listener = "check" /\ n = 0
    /\ clients = 0 /\ pokes = 0
    /\ conn = [i \in Conns |-> "none"] /\ gone = {}
    /\ sockets = {} /\ active = 0 /\ handles = {} /\ unregistered = {}
    /\ shut = {} /\ unwoken = FALSE
    /\ pc = [s \in Stoppers |-> "idle"] /\ mine = [s \in Stoppers |-> {}]
    /\ worker = TRUE /\ joining = NoThread
    /\ tunnel \in Tunnels /\ tunnelLock = NoThread

Running == {i \in Conns : conn[i] \notin {"none", "done"}}
Waiting == {i \in Conns : conn[i] \in {"serve", "open", "relay"}}
-----------------------------------------------------------------------------
(* run_listener *)

ListenerCheck ==
    /\ listener = "check"
    /\ listener' = IF stop THEN "done" ELSE "accept"
    /\ UNCHANGED <<n, clients, pokes, connVars, tableVars, stopVars>>

Accept ==
    /\ listener = "accept"
    /\ \/ clients > 0 /\ clients' = clients - 1 /\ UNCHANGED pokes
       \/ pokes > 0 /\ pokes' = pokes - 1 /\ UNCHANGED clients
    /\ listener' = "recheck"
    /\ UNCHANGED <<n, connVars, tableVars, stopVars>>

\* accept() fails: the error is recorded unless the service is stopping.
AcceptFails ==
    /\ listener = "accept"
    /\ listener' = "check"
    /\ UNCHANGED <<n, clients, pokes, connVars, tableVars, stopVars>>

Recheck ==
    /\ listener = "recheck"
    /\ listener' = IF stop THEN "done" ELSE "insert"
    /\ UNCHANGED <<n, clients, pokes, connVars, tableVars, stopVars>>

\* try_clone may fail, and the connection is then not registered.
Insert ==
    /\ listener = "insert"
    /\ n' = n + 1
    /\ \/ sockets' = sockets \cup {n + 1} /\ UNCHANGED unregistered
       \/ unregistered' = unregistered \cup {n + 1} /\ UNCHANGED sockets
    /\ listener' = "count"
    /\ UNCHANGED <<clients, pokes, connVars, active, handles, stopVars>>

Count ==
    /\ listener = "count"
    /\ active' = active + 1 /\ listener' = "spawn"
    /\ UNCHANGED <<n, clients, pokes, connVars, sockets, handles, unregistered, stopVars>>

Spawn ==
    /\ listener = "spawn"
    /\ conn' = [conn EXCEPT ![n] = "serve"] /\ listener' = "push"
    /\ UNCHANGED <<n, clients, pokes, gone, tableVars, stopVars>>

SpawnFails ==
    /\ listener = "spawn"
    /\ sockets' = sockets \ {n} /\ active' = active - 1 /\ listener' = "check"
    /\ UNCHANGED <<n, clients, pokes, connVars, handles, unregistered, stopVars>>

Finished(i) == conn[i] = "done"

\* Mutant: at the limit the whole list is dropped.
PushClears ==
    /\ listener = "push"
    /\ handles' = {n} \cup (IF Cardinality(handles) >= MaxHandles THEN {} ELSE handles)
    /\ listener' = "check"
    /\ UNCHANGED <<n, clients, pokes, connVars, sockets, active, unregistered, stopVars>>

Push ==
    /\ listener = "push"
    /\ handles' = {n} \cup
           IF Cardinality(handles) >= MaxHandles
           THEN {i \in handles : ~Finished(i)} ELSE handles
    /\ listener' = "check"
    /\ UNCHANGED <<n, clients, pokes, connVars, sockets, active, unregistered, stopVars>>

ListenerStep ==
    \/ ListenerCheck \/ Accept \/ Recheck \/ Insert \/ Count \/ Spawn \/ SpawnFails \/ Push
-----------------------------------------------------------------------------
(* A connection thread *)

\* handle_connection has a request: it opens the target, or serves the PAC file
\* and ends, or refuses what it cannot parse.
Request(i) ==
    /\ conn[i] = "serve"
    /\ \E next \in {"open", "remove"} : conn' = [conn EXCEPT ![i] = next]
    /\ UNCHANGED <<acceptVars, gone, tableVars, stopVars>>

\* The target is open or cannot be opened.  A node that is silent keeps a
\* managed target here: its status is waited for without a limit.
TargetOpened(i) ==
    /\ conn[i] = "open"
    /\ \E next \in {"relay", "remove"} : conn' = [conn EXCEPT ![i] = next]
    /\ UNCHANGED <<acceptVars, gone, tableVars, stopVars>>

\* A read of the client returns when the client or stop() closes the socket.
\* An error is recorded for take_event, which nothing here depends on.
RequestFails(i) ==
    /\ conn[i] = "serve" /\ i \in gone \cup shut
    /\ conn' = [conn EXCEPT ![i] = "remove"]
    /\ UNCHANGED <<acceptVars, gone, tableVars, stopVars>>

\* So does a read in the relay, but the other copy may be in a write to a direct
\* remote that takes nothing, and the close of a tunnel joins a worker that is
\* in the middle of a frame: the thread ends when the remote lets it go.
ConnectionEnds(i) ==
    /\ conn[i] = "relay" /\ i \in gone \cup shut
    /\ conn' = [conn EXCEPT ![i] = "remove"]
    /\ UNCHANGED <<acceptVars, gone, tableVars, stopVars>>

Remove(i) ==
    /\ conn[i] = "remove" /\ conn' = [conn EXCEPT ![i] = "uncount"]
    /\ sockets' = sockets \ {i}
    /\ UNCHANGED <<acceptVars, gone, active, handles, unregistered, stopVars>>

Uncount(i) ==
    /\ conn[i] = "uncount" /\ conn' = [conn EXCEPT ![i] = "done"]
    /\ active' = active - 1
    /\ UNCHANGED <<acceptVars, gone, sockets, handles, unregistered, stopVars>>

ConnStep(i) == RequestFails(i) \/ Remove(i) \/ Uncount(i)
RemoteStep(i) == TargetOpened(i) \/ ConnectionEnds(i)
-----------------------------------------------------------------------------
(* stop() *)

StopGoto(s, label) == pc' = [pc EXCEPT ![s] = label]

StopStore(s) ==
    /\ pc[s] = "idle" /\ StopGoto(s, "shut") /\ stop' = TRUE
    /\ UNCHANGED <<acceptVars, connVars, tableVars, shut, mine, worker, joining,
                   tunnel, tunnelLock, unwoken>>

\* Mutant: the newest socket is left out.
StopShutShort(s) ==
    /\ pc[s] = "shut" /\ StopGoto(s, "poke") /\ shut' = shut \cup (sockets \ {n})
    /\ UNCHANGED <<acceptVars, connVars, tableVars, stop, mine, worker, joining,
                   tunnel, tunnelLock, unwoken>>

StopShut(s) ==
    /\ pc[s] = "shut" /\ StopGoto(s, "poke") /\ shut' = shut \cup sockets
    /\ UNCHANGED <<acceptVars, connVars, tableVars, stop, mine, worker, joining,
                   tunnel, tunnelLock, unwoken>>

\* Mutant: nothing wakes the listener.
StopPokeSkipped(s) ==
    /\ pc[s] = "poke" /\ StopGoto(s, "join")
    /\ UNCHANGED <<acceptVars, connVars, tableVars, stop, shut, mine, worker, joining,
                   tunnel, tunnelLock, unwoken>>

\* A connection of its own wakes the listener out of accept(); whether connect
\* succeeded within its 100 ms is not looked at.
StopPoke(s) ==
    /\ pc[s] = "poke" /\ StopGoto(s, "join")
    /\ \/ listener # "done" /\ pokes' = pokes + 1 /\ UNCHANGED unwoken
       \/ unwoken' = TRUE /\ UNCHANGED pokes
    /\ UNCHANGED <<listener, n, clients, connVars, tableVars, stop, shut, mine, worker,
                   joining, tunnel, tunnelLock>>

\* The guard of `worker` lives until the join is over.
StopJoin(s) ==
    /\ pc[s] = "join" /\ joining = NoThread
    /\ \/ worker /\ joining' = s /\ StopGoto(s, "joining")
       \/ ~worker /\ StopGoto(s, "take") /\ UNCHANGED joining
    /\ worker' = FALSE
    /\ UNCHANGED <<acceptVars, connVars, tableVars, stop, shut, mine, tunnel, tunnelLock, unwoken>>

StopJoined(s) ==
    /\ pc[s] = "joining" /\ listener = "done"
    /\ joining' = NoThread /\ StopGoto(s, "take")
    /\ UNCHANGED <<acceptVars, connVars, tableVars, stop, shut, mine, worker, tunnel,
                   tunnelLock, unwoken>>

StopTake(s) ==
    /\ pc[s] = "take" /\ StopGoto(s, "conns")
    /\ mine' = [mine EXCEPT ![s] = handles] /\ handles' = {}
    /\ UNCHANGED <<acceptVars, connVars, sockets, active, unregistered, stop, shut,
                   worker, joining, tunnel, tunnelLock, unwoken>>

\* Mutant: stop() does not join the connection threads.
StopConnsUnjoined(s) ==
    /\ pc[s] = "conns" /\ StopGoto(s, "tunnel")
    /\ UNCHANGED <<acceptVars, connVars, tableVars, stop, shut, mine, worker,
                   joining, tunnel, tunnelLock, unwoken>>

StopConns(s) ==
    /\ pc[s] = "conns" /\ \A i \in mine[s] : Finished(i)
    /\ mine' = [mine EXCEPT ![s] = {}] /\ StopGoto(s, "tunnel")
    /\ UNCHANGED <<acceptVars, connVars, tableVars, stop, shut, worker, joining,
                   tunnel, tunnelLock, unwoken>>

\* The guard of `keepalive_l3` lives until L3Tunnel::close has returned.
StopTunnel(s) ==
    /\ pc[s] = "tunnel" /\ tunnelLock = NoThread
    /\ \/ tunnel /\ tunnelLock' = s /\ StopGoto(s, "close")
       \/ ~tunnel /\ StopGoto(s, "returned") /\ UNCHANGED tunnelLock
    /\ UNCHANGED <<acceptVars, connVars, tableVars, stop, shut, mine, worker, joining,
                   tunnel, unwoken>>

StopClosed(s) ==
    /\ pc[s] = "close"
    /\ tunnel' = FALSE /\ tunnelLock' = NoThread /\ StopGoto(s, "returned")
    /\ UNCHANGED <<acceptVars, connVars, tableVars, stop, shut, mine, worker, joining,
                   unwoken>>

StopStep(s) ==
    \/ StopShut(s) \/ StopPoke(s) \/ StopJoin(s) \/ StopJoined(s) \/ StopTake(s)
    \/ StopConns(s) \/ StopTunnel(s) \/ StopClosed(s)
-----------------------------------------------------------------------------
(* The clients (external): they connect and hang up when they like. *)

ClientConnects ==
    /\ listener # "done" /\ n + clients < MaxConns /\ clients' = clients + 1
    /\ listener \in {"recheck", "insert"} => n + clients + 1 < MaxConns
    /\ UNCHANGED <<listener, n, pokes, connVars, tableVars, stopVars>>

HangsUp(i) ==
    /\ conn[i] \in {"serve", "open", "relay"} /\ i \notin gone
    /\ gone' = gone \cup {i}
    /\ UNCHANGED <<acceptVars, conn, tableVars, stopVars>>
-----------------------------------------------------------------------------
Next ==
    \/ ListenerStep \/ AcceptFails \/ ClientConnects
    \/ \E i \in Conns : Request(i) \/ ConnStep(i) \/ RemoteStep(i) \/ HangsUp(i)
    \/ \E s \in Stoppers : StopStore(s) \/ StopStep(s)

Spec == Init /\ [][Next]_vars

\* Threads are scheduled.  Clients, remotes and nodes owe nothing: a target may
\* stay unopened, a relay or the keepalive tunnel's close be held for ever.
FairSpec ==
    /\ Spec
    /\ WF_vars(ListenerStep)
    /\ \A i \in Conns : WF_vars(ConnStep(i))
    /\ \A s \in Stoppers : WF_vars(pc[s] # "close" /\ StopStep(s))
-----------------------------------------------------------------------------
(* Properties *)

\* stop() leaves nothing behind: when the last of the threads that called it
\* has returned, the listener and every connection thread have ended and the
\* keepalive tunnel is closed.  A second stop() can return before that.
StopIsBarrier ==
    (\E s \in Stoppers : pc[s] = "returned")
    /\ (\A s \in Stoppers : pc[s] \in {"idle", "returned"})
        => listener = "done" /\ Running = {} /\ ~tunnel

\* The service's tables agree with its threads at every point of a connection's
\* life: the handle of a running thread is in the list or with a stopper,
\* although finished handles are dropped; active_connections counts the
\* threads; active_sockets holds no socket of a connection that is over.
TablesAgree ==
    /\ \A i \in Running :
          \/ i \in handles
          \/ \E s \in Stoppers : i \in mine[s]
          \/ (listener = "push" /\ i = n)
    /\ active = Cardinality(Running) + (IF listener = "spawn" THEN 1 ELSE 0)
    /\ \A i \in sockets : i \in Running \/ (i = n /\ listener \in {"count", "spawn"})

\* Once a stop() has shut the sockets down, at most one connection that is
\* registered is left open: the one the listener was accepting.
AtMostOneMissed ==
    (\E s \in Stoppers : pc[s] \notin {"idle", "shut"})
        => Cardinality(Waiting \ (shut \cup unregistered)) <= 1

\* A node or a direct remote keeps the thread of a connection from going on, or
\* a node keeps the close of the keepalive tunnel.
Held(i) == conn[i] = "open" \/ (conn[i] = "relay" /\ i \in gone \cup shut)
RemotesLetGo ==
    /\ \A i \in Conns : []<>~Held(i)
    /\ \A s \in Stoppers : []<>(pc[s] # "close")

\* If no remote holds a thread for ever, stop() returns although clients keep
\* their connections open, with two exceptions.  It waits for a connection its
\* scan of active_sockets did not shut down (one registered after the scan, or
\* never because try_clone failed), as long as that one stays open; and when its
\* own connect to the listener failed, it waits until somebody else connects.
StopWaitsOnlyForMissed ==
    RemotesLetGo =>
        \A s \in Stoppers :
            pc[s] = "shut" ~> \/ pc[s] = "returned"
                              \/ [](Waiting \ shut # {})
                              \/ [](listener = "accept" /\ unwoken)
=============================================================================
