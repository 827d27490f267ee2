------------------------- MODULE ProxyServiceProofs -------------------------
(***************************************************************************)
(* What ProxyService promises of stop() and of its tables, for any number  *)
(* of connections, of threads that call stop(), and any limit on the list  *)
(* of join handles.                                                        *)
(***************************************************************************)
EXTENDS ProxyService, FiniteSetTheorems, TLAPS

Labelled ==
    /\ listener \in {"check", "accept", "recheck", "insert", "count", "spawn", "push", "done"}
    /\ conn \in [Conns -> {"none", "serve", "open", "relay", "remove", "uncount", "done"}]
    /\ pc \in [Stoppers -> {"idle", "shut", "poke", "join", "joining", "take", "conns", "tunnel",
                            "close", "returned"}]
    /\ n \in Nat /\ clients \in Nat /\ pokes \in Nat

\* A connection is accepted for a client, so that its number is within the bound;
\* the connection of stop() itself is accepted after the flag is set, and dropped.
Numbered ==
    /\ n + clients <= MaxConns
    /\ pokes > 0 => stop
    /\ listener = "insert" \/ (listener = "recheck" /\ ~stop) => n + clients < MaxConns
    /\ listener \in {"count", "spawn", "push"} => n > 0
    /\ \A i \in Conns : i > n => conn[i] = "none"
    /\ listener \in {"count", "spawn"} => conn[n] = "none"

\* A stopper holds handles only while it joins them, and a connection that is
\* being served was registered unless its try_clone failed.
Registered ==
    /\ handles \subseteq Conns /\ mine \in [Stoppers -> SUBSET Conns]
    /\ \A s \in Stoppers : pc[s] # "conns" => mine[s] = {}
    /\ Waiting \subseteq sockets \cup unregistered
    /\ \A i \in Conns : conn[i] = "uncount" => i \notin sockets
    /\ listener \in {"count", "spawn"} => n \in sockets \cup unregistered

\* Past the join of the listener the listener has ended, past the handles there
\* are none left, and past the tunnel it is closed: for each stopper, also for
\* one that found the worker's handle taken and waited for its mutex.
Joined ==
    /\ worker \/ listener = "done" \/ (joining # NoThread /\ pc[joining] = "joining")
    /\ joining # NoThread => joining \in Stoppers
    /\ \A s \in Stoppers :
          /\ pc[s] = "joining" => joining = s
          /\ pc[s] \in {"take", "conns", "tunnel", "close", "returned"} => listener = "done"
          /\ pc[s] \in {"conns", "tunnel", "close", "returned"} => handles = {}
          /\ pc[s] = "returned" => ~tunnel

\* The connections a scan of active_sockets has left open.
Missed == Waiting \ (shut \cup unregistered)

\* After a scan, the listener registers at most the one it was about to.
Scanned ==
    /\ \A s \in Stoppers : pc[s] # "idle" => stop
    /\ \A s \in Stoppers : pc[s] \notin {"idle", "shut"} =>
          Missed \subseteq {n} /\ (listener = "insert" => Missed = {})
-----------------------------------------------------------------------------
\* What the steps of a connection thread do to it.
Moves(i) ==
    \/ Request(i) \/ RequestFails(i) \/ TargetOpened(i) \/ ConnectionEnds(i) \/ Remove(i)
    \/ Uncount(i)

\* It moves on, alone, and leaves the acceptor and stop() as they are.
LEMMA MoveFacts ==
    ASSUME Labelled, NEW i \in Conns, Moves(i)
    PROVE  /\ conn' \in [Conns -> {"none", "serve", "open", "relay", "remove", "uncount", "done"}]
           /\ conn[i] \in {"serve", "open", "relay", "remove", "uncount"}
           /\ conn'[i] \in {"open", "relay", "remove", "uncount", "done"}
           /\ conn'[i] \in {"open", "relay"} => conn[i] \in {"serve", "open"}
           /\ \A j \in Conns \ {i} : conn'[j] = conn[j]
           /\ UNCHANGED <<acceptVars, handles, unregistered, stopVars>>
<1> USE DEF Labelled, tableVars
<1>1. CASE Request(i)
  BY <1>1, Zenon DEF Request
<1>2. CASE TargetOpened(i)
  BY <1>2, Zenon DEF TargetOpened
<1>3. CASE RequestFails(i) \/ ConnectionEnds(i) \/ Remove(i)
  BY <1>3, Zenon DEF RequestFails, ConnectionEnds, Remove
<1>4. CASE Uncount(i)
  BY <1>4, Zenon DEF Uncount
<1> QED
  BY <1>1, <1>2, <1>3, <1>4, Zenon DEF Moves

\* What the steps of stop() leave alone, and where they lead.
LEMMA StopFacts ==
    ASSUME Labelled, NEW s \in Stoppers, StopStore(s) \/ StopStep(s)
    PROVE  /\ pc' \in [Stoppers -> {"idle", "shut", "poke", "join", "joining", "take", "conns",
                                    "tunnel", "close", "returned"}]
           /\ \A u \in Stoppers \ {s} : pc'[u] = pc[u]
           /\ UNCHANGED <<listener, n, clients, connVars, sockets, active, unregistered>>
           /\ pokes' = pokes \/ (pokes' = pokes + 1 /\ pc[s] = "poke")
           /\ stop => stop'
           /\ <<pc[s], pc'[s]>> \in
                 {<<"idle", "shut">>, <<"shut", "poke">>, <<"poke", "join">>, <<"join", "joining">>,
                  <<"join", "take">>, <<"joining", "take">>, <<"take", "conns">>,
                  <<"conns", "tunnel">>, <<"tunnel", "close">>, <<"tunnel", "returned">>,
                  <<"close", "returned">>}
<1> USE DEF Labelled, StopGoto, acceptVars, tableVars
<1>1. CASE StopStore(s)
  BY <1>1, Zenon DEF StopStore
<1>2. CASE StopShut(s)
  BY <1>2, Zenon DEF StopShut
<1>3. CASE StopPoke(s)
  BY <1>3, Zenon DEF StopPoke
<1>4. CASE StopJoin(s)
  BY <1>4, Zenon DEF StopJoin
<1>5. CASE StopJoined(s)
  BY <1>5, Zenon DEF StopJoined
<1>6. CASE StopTake(s)
  BY <1>6, Zenon DEF StopTake
<1>7. CASE StopConns(s)
  BY <1>7, Zenon DEF StopConns
<1>8. CASE StopTunnel(s)
  BY <1>8, Zenon DEF StopTunnel
<1>9. CASE StopClosed(s)
  BY <1>9, Zenon DEF StopClosed
<1> QED
  BY <1>1, <1>2, <1>3, <1>4, <1>5, <1>6, <1>7, <1>8, <1>9, Zenon DEF StopStep

\* The numbers stay within the bound, and the next number is unused.
LEMMA NumbersKept ==
    ASSUME Labelled, Numbered, Scanned, Next
    PROVE  Labelled' /\ Numbered'
<1> USE ProxyServiceAssumption DEF Labelled, Numbered, Conns
<1>1. CASE ListenerStep \/ AcceptFails \/ ClientConnects
  <2> USE DEF connVars, stopVars
  <2>1. CASE ListenerCheck \/ AcceptFails
    BY <2>1, Zenon DEF ListenerCheck, AcceptFails
  <2>2. CASE Accept
    BY <2>2 DEF Accept
  <2>3. CASE Recheck
    BY <2>3, Zenon DEF Recheck
  <2>4. CASE Insert
    BY <2>4 DEF Insert
  <2>5. CASE Count
    BY <2>5, Zenon DEF Count
  <2>6. CASE Spawn
    BY <2>6 DEF Spawn
  <2>7. CASE SpawnFails
    BY <2>7, Zenon DEF SpawnFails
  <2>8. CASE Push
    BY <2>8, Zenon DEF Push
  <2>9. CASE ClientConnects
    BY <2>9 DEF ClientConnects
  <2> QED
    BY <1>1, <2>1, <2>2, <2>3, <2>4, <2>5, <2>6, <2>7, <2>8, <2>9, Zenon DEF ListenerStep
<1>2. ASSUME NEW i \in Conns, Moves(i) PROVE Labelled' /\ Numbered'
  <2>1. /\ conn[i] # "none" /\ \A j \in Conns \ {i} : conn'[j] = conn[j]
        /\ conn' \in [Conns -> {"none", "serve", "open", "relay", "remove", "uncount", "done"}]
        /\ UNCHANGED <<listener, n, clients, pokes, stop, pc>>
    BY <1>2, MoveFacts, Zenon DEF acceptVars, stopVars
  <2>2. i <= n /\ (listener \in {"count", "spawn"} => i # n)
    BY <2>1
  <2> QED
    BY <2>1, <2>2
<1>3. ASSUME NEW i \in Conns, HangsUp(i) PROVE Labelled' /\ Numbered'
  BY <1>3, Zenon DEF HangsUp, acceptVars, stopVars
<1>4. ASSUME NEW s \in Stoppers, StopStore(s) \/ StopStep(s) PROVE Labelled' /\ Numbered'
  <2>1. /\ UNCHANGED <<listener, n, clients, conn>> /\ (stop => stop')
        /\ pc' \in [Stoppers -> {"idle", "shut", "poke", "join", "joining", "take", "conns",
                                 "tunnel", "close", "returned"}]
        /\ pokes' = pokes \/ (pokes' = pokes + 1 /\ pc[s] = "poke")
    BY <1>4, StopFacts, Zenon DEF connVars
  <2>2. pokes' \in Nat /\ (pokes' > 0 => stop')
    BY <2>1 DEF Scanned
  <2> QED
    BY <2>1, <2>2, Zenon
<1> QED
  BY <1>1, <1>2, <1>3, <1>4, Zenon DEF Next, ConnStep, RemoteStep, Moves
-----------------------------------------------------------------------------
\* Running, and the count of it, when one connection begins or ends.
LEMMA RunningCount ==
    ASSUME Labelled
    PROVE  /\ IsFiniteSet(Running) /\ Cardinality(Running) \in Nat
           /\ \A i \in Conns : i \in Running => Cardinality(Running \ {i}) = Cardinality(Running) - 1
           /\ \A i \in Conns : i \notin Running => Cardinality(Running \cup {i}) = Cardinality(Running) + 1
<1>1. IsFiniteSet(Conns)
  BY FS_Interval, ProxyServiceAssumption DEF Conns
<1>2. Running \subseteq Conns
  BY Zenon DEF Running
<1>3. IsFiniteSet(Running)
  BY <1>1, <1>2, FS_Subset, Zenon
<1> QED
  BY <1>3, FS_CardinalityType, FS_AddElement, FS_RemoveElement, Zenon

\* The listener registers, counts and spawns a connection, and prunes its list.
LEMMA ListenerTables ==
    ASSUME Labelled, Numbered, Registered, TablesAgree, ListenerStep \/ AcceptFails \/ ClientConnects
    PROVE  Registered' /\ TablesAgree'
<1>1. CASE ListenerCheck \/ AcceptFails \/ ClientConnects \/ Accept \/ Recheck
  <2>1. /\ UNCHANGED <<n, connVars, tableVars, stopVars>>
        /\ listener \notin {"count", "spawn", "push"} => listener' \notin {"count", "spawn", "push"}
        /\ listener \in {"count", "spawn", "push"} => listener' = listener
    BY <1>1, Zenon DEF ListenerCheck, AcceptFails, ClientConnects, Accept, Recheck
  <2>2. Running' = Running /\ Waiting' = Waiting
    BY <2>1, Zenon DEF connVars, Running, Waiting
  <2> QED
    BY <2>1, <2>2, Zenon DEF connVars, tableVars, stopVars, Registered, TablesAgree
<1>2. CASE Insert
  <2>1. Running' = Running /\ Waiting' = Waiting
    BY <1>2, Zenon DEF Insert, connVars, Running, Waiting
  <2>2. n + 1 \in Conns /\ conn[n + 1] = "none"
    BY <1>2, ProxyServiceAssumption DEF Insert, Labelled, Numbered, Conns
  <2>3. /\ listener = "insert" /\ listener' = "count" /\ n' = n + 1 /\ conn' = conn
        /\ UNCHANGED <<active, handles, mine, pc>>
        /\ \/ sockets' = sockets \cup {n + 1} /\ unregistered' = unregistered
           \/ unregistered' = unregistered \cup {n + 1} /\ sockets' = sockets
    BY <1>2, Zenon DEF Insert, connVars, stopVars
  <2>4. Registered'
    BY <2>1, <2>2, <2>3, Zenon DEF Registered
  <2>5. TablesAgree'
    BY <2>1, <2>3, RunningCount, Zenon DEF TablesAgree
  <2> QED
    BY <2>4, <2>5, Zenon
<1>3. CASE Count
  <2>1. Running' = Running /\ Waiting' = Waiting
    BY <1>3, Zenon DEF Count, connVars, Running, Waiting
  <2>2. /\ listener = "count" /\ listener' = "spawn" /\ active' = active + 1
        /\ UNCHANGED <<n, conn, sockets, handles, unregistered, mine, pc>>
    BY <1>3, Zenon DEF Count, connVars, stopVars
  <2> QED
    BY <2>1, <2>2, RunningCount DEF Registered, TablesAgree
<1>4. CASE Spawn
  <2>1. n \in Conns /\ n \notin Running
    BY <1>4, ProxyServiceAssumption DEF Spawn, Labelled, Numbered, Conns, Running
  <2>2. Running' = Running \cup {n} /\ Waiting' = Waiting \cup {n}
    BY <1>4, <2>1, Zenon DEF Spawn, Labelled, Running, Waiting
  <2>3. /\ listener = "spawn" /\ listener' = "push" /\ \A j \in Conns : conn'[j] \in {conn[j], "serve"}
        /\ UNCHANGED <<n, sockets, active, handles, unregistered, mine, pc>>
    BY <1>4, Zenon DEF Spawn, tableVars, stopVars, Labelled
  <2>4. Registered'
    BY <2>2, <2>3, Zenon DEF Registered
  <2>5. TablesAgree'
    BY <2>1, <2>2, <2>3, RunningCount DEF TablesAgree
  <2> QED
    BY <2>4, <2>5, Zenon
<1>5. CASE SpawnFails
  <2>1. Running' = Running /\ Waiting' = Waiting /\ n \notin Waiting
    BY <1>5, Zenon DEF SpawnFails, connVars, Running, Waiting, Numbered
  <2>2. /\ listener = "spawn" /\ listener' = "check" /\ active' = active - 1 /\ sockets' = sockets \ {n}
        /\ UNCHANGED <<n, conn, handles, unregistered, mine, pc>>
    BY <1>5, Zenon DEF SpawnFails, connVars, stopVars
  <2> QED
    BY <2>1, <2>2, RunningCount DEF Registered, TablesAgree
<1>6. CASE Push
  <2>1. Running' = Running /\ Waiting' = Waiting
    BY <1>6, Zenon DEF Push, connVars, Running, Waiting
  <2>2. n \in handles' /\ \A i \in handles : i \in Running => i \in handles'
    BY <1>6, Zenon DEF Push, Finished, Running
  <2>3. n \in Conns /\ handles' \subseteq handles \cup {n}
    BY <1>6, ProxyServiceAssumption DEF Push, Labelled, Numbered, Conns
  <2>4. /\ listener = "push" /\ listener' = "check"
        /\ UNCHANGED <<n, conn, sockets, active, unregistered, mine, pc>>
    BY <1>6, Zenon DEF Push, connVars, stopVars
  <2> QED
    BY <2>1, <2>2, <2>3, <2>4, Zenon DEF Registered, TablesAgree
<1> QED
  BY <1>1, <1>2, <1>3, <1>4, <1>5, <1>6, Zenon DEF ListenerStep

\* A connection thread takes itself out of the tables.
LEMMA ConnectionTables ==
    ASSUME Labelled, Numbered, Registered, TablesAgree, NEW i \in Conns, Moves(i) \/ HangsUp(i)
    PROVE  Registered' /\ TablesAgree'
<1>1. CASE HangsUp(i)
  <2>1. UNCHANGED <<listener, n, conn, tableVars, mine, pc>>
    BY <1>1, Zenon DEF HangsUp, acceptVars, stopVars
  <2> QED
    BY <2>1 DEF tableVars, Running, Waiting, Registered, TablesAgree
<1>2. CASE Request(i) \/ RequestFails(i) \/ TargetOpened(i) \/ ConnectionEnds(i)
  <2>1. UNCHANGED <<listener, n, pc, mine, tableVars>> /\ conn'[i] \in {"open", "relay", "remove"}
    BY <1>2, Zenon DEF Request, RequestFails, TargetOpened, ConnectionEnds, acceptVars, stopVars, Labelled
  <2>2. Running' = Running /\ Waiting' \subseteq Waiting /\ \A j \in Conns \ {i} : conn'[j] = conn[j]
    BY <1>2, <2>1, MoveFacts, Zenon DEF Moves, Running, Waiting, Labelled
  <2> QED
    BY <2>1, <2>2, Zenon DEF tableVars, Registered, TablesAgree
<1>3. CASE Remove(i)
  <2>1. /\ conn[i] = "remove" /\ conn'[i] = "uncount" /\ \A j \in Conns \ {i} : conn'[j] = conn[j]
        /\ UNCHANGED <<listener, n, pc, mine, active, handles, unregistered>> /\ sockets' = sockets \ {i}
    BY <1>3, Zenon DEF Remove, acceptVars, stopVars, Labelled
  <2>2. /\ Running' = Running /\ Waiting' = Waiting /\ i \notin Waiting
        /\ listener \in {"count", "spawn"} => n # i
    BY <2>1, Zenon DEF Running, Waiting, Numbered
  <2>3. Registered'
    BY <2>1, <2>2, Zenon DEF Registered
  <2>4. TablesAgree'
    BY <2>1, <2>2, Zenon DEF TablesAgree
  <2> QED
    BY <2>3, <2>4, Zenon
<1>4. CASE Uncount(i)
  <2>1. /\ conn[i] = "uncount" /\ conn'[i] = "done" /\ \A j \in Conns \ {i} : conn'[j] = conn[j]
        /\ UNCHANGED <<listener, n, pc, mine, sockets, handles, unregistered>> /\ active' = active - 1
    BY <1>4, Zenon DEF Uncount, acceptVars, stopVars, Labelled
  <2>2. i \in Running /\ Running' = Running \ {i} /\ Waiting' = Waiting
    BY <2>1, Zenon DEF Running, Waiting
  <2>3. Registered'
    BY <2>1, <2>2, Zenon DEF Registered
  <2>4. TablesAgree'
    BY <2>1, <2>2, RunningCount DEF Registered, TablesAgree
  <2> QED
    BY <2>3, <2>4, Zenon
<1> QED
  BY <1>1, <1>2, <1>3, <1>4, Zenon DEF Moves

\* stop() takes the handles, and gives none of them up before its thread has ended.
LEMMA StopTables ==
    ASSUME Labelled, Registered, TablesAgree, NEW s \in Stoppers, StopStore(s) \/ StopStep(s)
    PROVE  Registered' /\ TablesAgree'
<1>1. /\ UNCHANGED <<listener, n, conn, sockets, active, unregistered>>
      /\ \A u \in Stoppers \ {s} : pc'[u] = pc[u]
      /\ pc[s] = "conns" <=> StopConns(s)
      /\ pc'[s] = "conns" <=> StopTake(s)
  BY StopFacts, Zenon DEF connVars, StopStore, StopStep, StopShut, StopPoke, StopJoin, StopJoined, StopTake,
     StopConns, StopTunnel, StopClosed
<1>2. Running' = Running /\ Waiting' = Waiting
  BY <1>1, Zenon DEF Running, Waiting
<1>3. CASE UNCHANGED <<handles, mine>>
  <2>1. \A u \in Stoppers : pc'[u] # "conns" => mine'[u] = {}
    BY <1>1, <1>3, Zenon DEF Registered, StopConns
  <2> QED
    BY <1>1, <1>2, <1>3, <2>1, Zenon DEF Registered, TablesAgree
<1>4. CASE StopTake(s)
  <2>1. /\ pc[s] = "take" /\ handles' = {} /\ mine'[s] = handles
        /\ \A u \in Stoppers \ {s} : mine'[u] = mine[u]
        /\ mine' \in [Stoppers -> SUBSET Conns] /\ mine[s] = {}
    BY <1>4, Zenon DEF StopTake, Registered
  <2> QED
    BY <1>1, <1>2, <2>1, <1>4, Zenon DEF Registered, TablesAgree
<1>5. CASE StopConns(s)
  <2>1. /\ handles' = handles /\ mine'[s] = {} /\ \A u \in Stoppers \ {s} : mine'[u] = mine[u]
        /\ mine' \in [Stoppers -> SUBSET Conns] /\ \A i \in mine[s] : i \notin Running
    BY <1>5, Zenon DEF StopConns, Registered, Finished, Running, tableVars
  <2> QED
    BY <1>1, <1>2, <2>1, Zenon DEF Registered, TablesAgree
<1> QED
  BY <1>3, <1>4, <1>5, Zenon DEF StopStore, StopStep, StopShut, StopPoke, StopJoin, StopJoined, StopTunnel,
     StopClosed, tableVars

\* The tables agree at every step of every thread.
LEMMA TablesKept ==
    ASSUME Labelled, Numbered, Registered, TablesAgree, Next
    PROVE  Registered' /\ TablesAgree'
BY ListenerTables, ConnectionTables, StopTables, Zenon DEF Next, ConnStep, RemoteStep, Moves
-----------------------------------------------------------------------------
\* A listener that has ended stays so, and takes no handle up.
LEMMA ListenerEnded ==
    ASSUME Labelled, Next, listener = "done"
    PROVE  listener' = "done" /\ handles' \in {handles, {}}
<1>1. CASE ListenerStep \/ AcceptFails \/ ClientConnects
  BY <1>1, Zenon DEF ListenerStep, AcceptFails, ClientConnects, ListenerCheck, Accept, Recheck, Insert, Count,
     Spawn, SpawnFails, Push, tableVars
<1>2. ASSUME NEW i \in Conns, Moves(i) \/ HangsUp(i) PROVE listener' = "done" /\ handles' \in {handles, {}}
  BY <1>2, MoveFacts, Zenon DEF HangsUp, acceptVars, tableVars
<1>3. ASSUME NEW s \in Stoppers, StopStore(s) \/ StopStep(s)
      PROVE  listener' = "done" /\ handles' \in {handles, {}}
  <2>1. handles' \in {handles, {}}
    BY <1>3, Zenon DEF StopStore, StopStep, StopShut, StopPoke, StopJoin, StopJoined, StopTake, StopConns,
       StopTunnel, StopClosed, tableVars
  <2> QED
    BY <1>3, <2>1, StopFacts, Zenon
<1> QED
  BY <1>1, <1>2, <1>3, Zenon DEF Next, ConnStep, RemoteStep, Moves

\* The joins of stop() come in their order, for each of its callers.
LEMMA JoinsKept ==
    ASSUME Labelled, Joined, Next
    PROVE  Joined'
<1>1. CASE UNCHANGED stopVars
  <2>1. \A s \in Stoppers : pc[s] \in {"conns", "tunnel", "close", "returned"} => handles' = {}
    BY ListenerEnded, Zenon DEF Joined
  <2> QED
    BY <1>1, <2>1, ListenerEnded, Zenon DEF Joined, stopVars
<1>2. ASSUME NEW s \in Stoppers, StopStore(s) \/ StopStep(s) PROVE Joined'
  <2>1. /\ pc' \in [Stoppers -> {"idle", "shut", "poke", "join", "joining", "take", "conns",
                                 "tunnel", "close", "returned"}]
        /\ \A u \in Stoppers \ {s} : pc'[u] = pc[u]
        /\ listener' = listener /\ s # NoThread
    BY <1>2, StopFacts, ProxyServiceAssumption, Zenon
  <2>2. CASE StopStore(s) \/ StopShut(s) \/ StopPoke(s)
    BY <2>1, <2>2 DEF Joined, StopStore, StopShut, StopPoke, StopGoto, tableVars, Labelled
  <2>3. CASE StopJoin(s)
    <3>1. joining = NoThread /\ worker' = FALSE /\ UNCHANGED <<handles, tunnel>>
      BY <2>3, Zenon DEF StopJoin, tableVars
    <3>2. \A u \in Stoppers : pc[u] # "joining"
      BY <3>1, ProxyServiceAssumption, Zenon DEF Joined
    <3>3. CASE worker /\ joining' = s /\ StopGoto(s, "joining")
      <4>1. joining' = s /\ pc'[s] = "joining"
        BY <3>3, Zenon DEF StopGoto, Labelled
      <4> QED
        BY <2>1, <3>1, <3>2, <4>1, Zenon DEF Joined
    <3>4. CASE ~worker /\ StopGoto(s, "take") /\ UNCHANGED joining
      <4>1. joining' = joining /\ pc'[s] = "take" /\ listener = "done"
        BY <3>1, <3>4, Zenon DEF StopGoto, Labelled, Joined
      <4> QED
        BY <2>1, <3>1, <3>2, <4>1, Zenon DEF Joined
    <3> QED
      BY <2>3, <3>3, <3>4, Zenon DEF StopJoin
  <2>4. CASE StopJoined(s)
    BY <2>1, <2>4, Zenon DEF Joined, StopJoined, StopGoto, tableVars, Labelled
  <2>5. CASE StopTake(s)
    BY <2>1, <2>5, Zenon DEF Joined, StopTake, StopGoto, Labelled
  <2>6. CASE StopConns(s)
    BY <2>1, <2>6, Zenon DEF Joined, StopConns, StopGoto, tableVars, Labelled
  <2>7. CASE StopTunnel(s)
    BY <2>1, <2>7, Zenon DEF Joined, StopTunnel, StopGoto, tableVars, Labelled
  <2>8. CASE StopClosed(s)
    BY <2>1, <2>8, Zenon DEF Joined, StopClosed, StopGoto, tableVars, Labelled
  <2> QED
    BY <1>2, <2>2, <2>3, <2>4, <2>5, <2>6, <2>7, <2>8, Zenon DEF StopStep
<1>3. ASSUME ~\E s \in Stoppers : StopStore(s) \/ StopStep(s) PROVE UNCHANGED stopVars
  <2>1. CASE ListenerStep \/ AcceptFails \/ ClientConnects
    BY <2>1, Zenon DEF ListenerStep, AcceptFails, ClientConnects, ListenerCheck, Accept, Recheck, Insert, Count,
       Spawn, SpawnFails, Push
  <2>2. ASSUME NEW i \in Conns, Moves(i) \/ HangsUp(i) PROVE UNCHANGED stopVars
    BY <2>2, MoveFacts, Zenon DEF HangsUp
  <2> QED
    BY <1>3, <2>1, <2>2, Zenon DEF Next, ConnStep, RemoteStep, Moves
<1> QED
  BY <1>1, <1>2, <1>3, Zenon
-----------------------------------------------------------------------------
\* A step that is no scan leaves at most the connection being accepted.
LEMMA ScansKept ==
    ASSUME Labelled, Numbered, Registered, Scanned, Next
    PROVE  Scanned'
<1>1. CASE ListenerStep \/ AcceptFails \/ ClientConnects
  <2>1. UNCHANGED <<stop, pc, shut>>
    BY <1>1, Zenon DEF ListenerStep, AcceptFails, ClientConnects, ListenerCheck, Accept, Recheck, Insert, Count,
       Spawn, SpawnFails, Push, stopVars
  <2>2. CASE Insert
    <3>1. listener = "insert" /\ listener' = "count" /\ Waiting' = Waiting /\ unregistered \subseteq unregistered'
      BY <2>2, Zenon DEF Insert, connVars, Waiting
    <3> QED
      BY <2>1, <3>1, Zenon DEF Scanned, Missed
  <2>3. CASE Spawn
    <3>1. /\ listener' = "push" /\ n' = n /\ unregistered' = unregistered /\ Waiting' \subseteq Waiting \cup {n}
      BY <2>3, Zenon DEF Spawn, tableVars, Waiting, Labelled
    <3> QED
      BY <2>1, <3>1, Zenon DEF Scanned, Missed
  <2>4. CASE ~(Insert \/ Spawn)
    <3>1. /\ UNCHANGED <<n, conn, unregistered>>
          /\ listener' = "insert" => listener = "insert" \/ ~stop
      BY <1>1, <2>4, Zenon DEF ListenerStep, AcceptFails, ClientConnects, ListenerCheck, Accept, Recheck, Count,
         SpawnFails, Push, connVars, tableVars
    <3>2. Waiting' = Waiting
      BY <3>1, Zenon DEF Waiting
    <3> QED
      BY <2>1, <3>1, <3>2, Zenon DEF Scanned, Missed
  <2> QED
    BY <2>2, <2>3, <2>4, Zenon
<1>2. ASSUME NEW i \in Conns, Moves(i) \/ HangsUp(i) PROVE Scanned'
  <2>1. UNCHANGED <<listener, n, stop, pc, shut, unregistered>> /\ Waiting' \subseteq Waiting
    <3>1. CASE Moves(i)
      BY <3>1, MoveFacts, Zenon DEF acceptVars, stopVars, Waiting
    <3>2. CASE HangsUp(i)
      BY <3>2, Zenon DEF HangsUp, acceptVars, tableVars, stopVars, Waiting
    <3> QED
      BY <1>2, <3>1, <3>2, Zenon
  <2> QED
    BY <2>1, Zenon DEF Scanned, Missed
<1>3. ASSUME NEW s \in Stoppers, StopStore(s) \/ StopStep(s) PROVE Scanned'
  <2>1. /\ UNCHANGED <<listener, n, conn, unregistered>> /\ (stop => stop')
        /\ \A u \in Stoppers \ {s} : pc'[u] = pc[u]
        /\ pc'[s] \notin {"idle", "shut"} => pc[s] \notin {"idle", "shut"} \/ (pc[s] = "shut" /\ StopShut(s))
        /\ pc[s] = "idle" => stop'
        /\ shut \subseteq shut' /\ sockets' = sockets
    <3>1. pc[s] = "idle" => stop'
      BY <1>3, Zenon DEF StopStore, StopStep, StopShut, StopPoke, StopJoin, StopJoined, StopTake, StopConns,
         StopTunnel, StopClosed
    <3>2. shut \subseteq shut' /\ (pc[s] = "shut" => StopShut(s))
      BY <1>3, Zenon DEF StopStore, StopStep, StopShut, StopPoke, StopJoin, StopJoined, StopTake, StopConns,
         StopTunnel, StopClosed
    <3> QED
      BY <1>3, <3>1, <3>2, StopFacts, Zenon DEF connVars
  <2>2. Waiting' = Waiting
    BY <2>1, Zenon DEF Waiting
  <2>3. \A u \in Stoppers : pc'[u] # "idle" => stop'
    BY <2>1, Zenon DEF Scanned
  <2>4. CASE StopShut(s)
    <3>1. Waiting \subseteq shut' \cup unregistered
      BY <2>4, Zenon DEF StopShut, Registered
    <3> QED
      BY <2>1, <2>2, <2>3, <3>1, Zenon DEF Scanned, Missed
  <2>5. CASE ~StopShut(s)
    BY <2>1, <2>2, <2>3, <2>5, Zenon DEF Scanned, Missed
  <2> QED
    BY <2>4, <2>5, Zenon
<1> QED
  BY <1>1, <1>2, <1>3, Zenon DEF Next, ConnStep, RemoteStep, Moves
-----------------------------------------------------------------------------
ServiceInv == Labelled /\ Numbered /\ Registered /\ TablesAgree /\ Joined /\ Scanned

\* The invariant holds in every reachable state.
LEMMA ServiceInvariant == Spec => []ServiceInv
<1>1. Init => ServiceInv
  <2> SUFFICES ASSUME Init PROVE ServiceInv
    OBVIOUS
  <2>1. Running = {} /\ Waiting = {}
    BY Zenon DEF Init, Running, Waiting
  <2>2. Labelled /\ Numbered
    BY ProxyServiceAssumption DEF Init, Labelled, Numbered
  <2>3. Registered /\ TablesAgree
    BY <2>1, FS_EmptySet DEF Init, Registered, TablesAgree
  <2>4. Joined /\ Scanned
    BY <2>1, Zenon DEF Init, Joined, Scanned, Missed
  <2> QED
    BY <2>2, <2>3, <2>4, Zenon DEF ServiceInv
<1>2. ServiceInv /\ [Next]_vars => ServiceInv'
  <2> SUFFICES ASSUME ServiceInv, [Next]_vars PROVE ServiceInv'
    OBVIOUS
  <2>1. CASE Next
    BY <2>1, NumbersKept, TablesKept, JoinsKept, ScansKept, Zenon DEF ServiceInv
  <2>2. CASE UNCHANGED vars
    BY <2>2 DEF ServiceInv, Labelled, Numbered, Registered, TablesAgree, Joined, Scanned, Missed, Running,
       Waiting, vars, acceptVars, connVars, tableVars, stopVars
  <2> QED
    BY <2>1, <2>2, Zenon
<1> QED
  BY <1>1, <1>2, PTL DEF Spec

\* When the last of the threads in stop() has returned, nothing is left running.
THEOREM StopLeavesNothing == Spec => []StopIsBarrier
<1>1. ServiceInv => StopIsBarrier
  <2> SUFFICES ASSUME ServiceInv, NEW s \in Stoppers, pc[s] = "returned",
                      \A u \in Stoppers : pc[u] \in {"idle", "returned"}
               PROVE  listener = "done" /\ Running = {} /\ ~tunnel
    BY Zenon DEF StopIsBarrier
  <2>1. listener = "done" /\ handles = {} /\ ~tunnel
    BY Zenon DEF ServiceInv, Joined
  <2>2. \A u \in Stoppers : mine[u] = {}
    BY Zenon DEF ServiceInv, Registered
  <2> QED
    BY <2>1, <2>2, Zenon DEF ServiceInv, TablesAgree
<1> QED
  BY <1>1, ServiceInvariant, PTL

\* The tables agree with the threads at every point of a connection's life.
THEOREM TablesAlwaysAgree == Spec => []TablesAgree
<1>1. ServiceInv => TablesAgree
  BY Zenon DEF ServiceInv
<1> QED
  BY <1>1, ServiceInvariant, PTL

\* A stop() misses at most the connection that was being accepted.
THEOREM ScansMissOne == Spec => []AtMostOneMissed
<1>1. ServiceInv => AtMostOneMissed
  <2> SUFFICES ASSUME ServiceInv, NEW s \in Stoppers, pc[s] \notin {"idle", "shut"}
               PROVE  Cardinality(Missed) <= 1
    BY Zenon DEF AtMostOneMissed, Missed
  <2>1. Missed \subseteq {n}
    BY Zenon DEF ServiceInv, Scanned
  <2>2. Missed = {} \/ Missed = {n}
    BY <2>1, Zenon
  <2>3. Cardinality({}) = 0 /\ Cardinality({n}) = 1
    BY FS_EmptySet, FS_Singleton, Zenon
  <2> QED
    BY <2>2, <2>3
<1> QED
  BY <1>1, ServiceInvariant, PTL
=============================================================================
