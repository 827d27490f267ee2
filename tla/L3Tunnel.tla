------------------------------ MODULE L3Tunnel ------------------------------
(***************************************************************************)
(* L3Tunnel and L3TunnelState (transport.rs): writers, the keepalive       *)
(* thread and close() share a map of remotes, one for each node group.     *)
(* remote_for() looks up, replaces and creates a remote under one lock.  A *)
(* remote is what L3Remote promises: close() sets its flag and returns     *)
(* when its worker is gone, and its worker may end by itself.              *)
(***************************************************************************)
EXTENDS Naturals, FiniteSets

CONSTANTS
    Callers,     \* threads that call write_packet() or send_heartbeat()
    Closers,     \* threads that call close()
    Readers,     \* threads that call read_packet()
    Keepalive,   \* the thread of business_keepalive_loop
    Groups, Major,      \* node groups, resource.major_node_group
    Remotes,     \* bound: remotes that exist at the same time
    NoRemote, NoThread,
    Targets,     \* whether there may be a managed ICMP target
    MaxPackets   \* bound: packets nobody has read

Users == Callers \cup {Keepalive}
Threads == Users \cup Closers \cup Readers

ASSUME L3TunnelAssumption ==
    /\ Keepalive \notin Callers \cup Closers \cup Readers
    /\ Callers \cap Closers = {} /\ Closers \cap Readers = {}
    /\ NoThread \notin Threads /\ NoRemote \notin Remotes
    /\ Major \in Groups /\ Targets \subseteq BOOLEAN /\ MaxPackets \in Nat

VARIABLES
    pc, group, held, site,   \* a user of remote_for: its argument, remote and call site
    creation,                \* remote_creation: the thread that holds it
    close_flag, remotes,     \* L3TunnelState.close_flag, .remotes
    state,                   \* a remote: "up", "down" (close_flag set), "dead"
    home, maker,             \* history: the group of a remote that lives and who
                             \* connected it
    closing, closed,         \* remotes close() has still to close; it has returned
    incoming,                \* packets in incoming_rx
    vip, target              \* vip_list is not empty; there is an ICMP target

userVars == <<pc, group, held, site>>
mapVars == <<creation, close_flag, remotes>>
remoteVars == <<state, home, maker>>
closeVars == <<closing, closed>>
vars == <<userVars, mapVars, remoteVars, closeVars, incoming, vip, target>>

Init ==
    /\ pc = [t \in Threads |-> IF t = Keepalive THEN "start" ELSE "idle"]
    /\ group = [t \in Users |-> Major]
    /\ held = [t \in Users |-> NoRemote]
    /\ site = [t \in Users |-> "call"]
    /\ creation = NoThread /\ close_flag = FALSE
    /\ remotes = [g \in Groups |-> NoRemote]
    /\ state = [r \in Remotes |-> "dead"]
    /\ home = [r \in Remotes |-> Major]
    /\ maker = [r \in Remotes |-> NoThread]
    /\ closing = {} /\ closed = FALSE
    /\ incoming = 0 /\ vip = FALSE /\ target \in Targets

Alive(r) == state[r] # "dead"
Goto(t, label) == pc' = [pc EXCEPT ![t] = label]

\* A user whose call is over forgets its arguments and its remote.
Leave(t, label) ==
    /\ Goto(t, label)
    /\ group' = [group EXCEPT ![t] = Major]
    /\ held' = [held EXCEPT ![t] = NoRemote]
    /\ site' = [site EXCEPT ![t] = "call"]
-----------------------------------------------------------------------------
(* remote_for *)

Call(t, g, from) ==
    /\ Goto(t, "lock")
    /\ group' = [group EXCEPT ![t] = g]
    /\ site' = [site EXCEPT ![t] = from]
    /\ held' = [held EXCEPT ![t] = NoRemote]
    /\ UNCHANGED <<mapVars, remoteVars, closeVars, incoming, vip, target>>

\* Where a user goes on after remote_for has failed and after it has returned
\* a remote.
OnError(t) == IF site[t] = "call" THEN "idle" ELSE
              IF site[t] = "first" THEN "retry" ELSE "sleep"
OnRemote(t) == IF site[t] = "call" THEN "use" ELSE
               IF site[t] = "first" THEN "greet" ELSE
               IF site[t] = "beat" THEN "beat" ELSE "ping"

\* Mutant: the guard is dropped at once (`let _ = ...`).
LockDropped(t) ==
    /\ pc[t] = "lock" /\ creation = NoThread
    /\ Goto(t, "check")
    /\ UNCHANGED <<group, held, site, mapVars, remoteVars, closeVars, incoming, vip, target>>

Lock(t) ==
    /\ pc[t] = "lock" /\ creation = NoThread
    /\ creation' = t /\ Goto(t, "check")
    /\ UNCHANGED <<group, held, site, close_flag, remotes, remoteVars, closeVars,
                   incoming, vip, target>>

\* Mutant: remote_for does not look at the tunnel's flag.
CheckClosedSkipped(t) ==
    /\ pc[t] = "check" /\ Goto(t, "lookup")
    /\ UNCHANGED <<group, held, site, mapVars, remoteVars, closeVars, incoming, vip, target>>

CheckClosed(t) ==
    /\ pc[t] = "check"
    /\ \/ close_flag /\ Leave(t, OnError(t)) /\ creation' = NoThread
       \/ ~close_flag /\ Goto(t, "lookup") /\ UNCHANGED <<group, held, site, creation>>
    /\ UNCHANGED <<close_flag, remotes, remoteVars, closeVars, incoming, vip, target>>

Lookup(t) ==
    /\ pc[t] = "lookup"
    /\ LET existing == remotes[group[t]] IN
       \/ /\ existing = NoRemote
          /\ Goto(t, "connect") /\ UNCHANGED <<held, creation>>
       \/ /\ existing # NoRemote /\ state[existing] = "up"
          /\ held' = [held EXCEPT ![t] = existing]
          /\ Goto(t, OnRemote(t)) /\ creation' = NoThread
       \/ /\ existing # NoRemote /\ state[existing] # "up"
          /\ held' = [held EXCEPT ![t] = existing]
          /\ Goto(t, "remove") /\ UNCHANGED creation
    /\ UNCHANGED <<group, site, close_flag, remotes, remoteVars, closeVars, incoming,
                   vip, target>>

Remove(t) ==
    /\ pc[t] = "remove"
    /\ remotes' = [remotes EXCEPT ![group[t]] = NoRemote]
    /\ Goto(t, "reclose")
    /\ UNCHANGED <<group, held, site, creation, close_flag, remoteVars, closeVars,
                   incoming, vip, target>>

\* existing.close(), which returns when the worker is gone.
Reclose(t) ==
    /\ pc[t] = "reclose" /\ state[held[t]] = "dead"
    /\ held' = [held EXCEPT ![t] = NoRemote]
    /\ Goto(t, "connect")
    /\ UNCHANGED <<group, site, mapVars, remoteVars, closeVars, incoming, vip, target>>

\* No node, no session, or L3Remote::connect fails.
ConnectFails(t) ==
    /\ pc[t] = "connect"
    /\ Leave(t, OnError(t)) /\ creation' = NoThread
    /\ UNCHANGED <<close_flag, remotes, remoteVars, closeVars, incoming, vip, target>>

Unused(r) ==
    /\ ~Alive(r) /\ r \notin closing
    /\ \A g \in Groups : remotes[g] # r
    /\ \A t \in Users : held[t] # r

Connect(t, r) ==
    /\ pc[t] = "connect" /\ Unused(r)
    /\ state' = [state EXCEPT ![r] = "up"]
    /\ home' = [home EXCEPT ![r] = group[t]]
    /\ maker' = [maker EXCEPT ![r] = t]
    /\ held' = [held EXCEPT ![t] = r]
    /\ Goto(t, "insert")
    /\ UNCHANGED <<group, site, mapVars, closeVars, incoming, vip, target>>

Insert(t) ==
    /\ pc[t] = "insert"
    /\ remotes' = [remotes EXCEPT ![group[t]] = held[t]]
    /\ Goto(t, OnRemote(t)) /\ creation' = NoThread
    /\ UNCHANGED <<group, held, site, close_flag, remoteVars, closeVars, incoming,
                   vip, target>>

RemoteFor(t) ==
    \/ Lock(t) \/ CheckClosed(t) \/ Lookup(t) \/ Remove(t) \/ Reclose(t)
    \/ ConnectFails(t) \/ (\E r \in Remotes : Connect(t, r)) \/ Insert(t)
-----------------------------------------------------------------------------
(* write_packet() and send_heartbeat() of the tunnel *)

CallBegin(t, g) == pc[t] = "idle" /\ Call(t, g, "call")

\* The call of the remote: it returns, with or without an error.
Use(t) ==
    /\ pc[t] = "use" /\ Leave(t, "idle")
    /\ UNCHANGED <<mapVars, remoteVars, closeVars, incoming, vip, target>>
-----------------------------------------------------------------------------
(* business_keepalive_loop and send_icmp_keepalive *)

KeepaliveGoto(label) ==
    /\ Leave(Keepalive, label)
    /\ UNCHANGED <<mapVars, remoteVars, closeVars, incoming, vip, target>>

KeepaliveStart == pc[Keepalive] = "start" /\ Call(Keepalive, Major, "first")

\* The heartbeat of a remote that went down in the meantime fails.
KeepaliveGreet ==
    /\ pc[Keepalive] = "greet"
    /\ \/ state[held[Keepalive]] = "up" /\ KeepaliveGoto(IF target THEN "loop" ELSE "ended")
       \/ state[held[Keepalive]] # "up" /\ KeepaliveGoto("retry")

\* Mutant: the loop goes on although the tunnel is closed.
KeepaliveRetryForever ==
    pc[Keepalive] = "retry" /\ Call(Keepalive, Major, "first")

\* Mutant: the keepalive is disabled when its first attempt fails.
KeepaliveRetryNever ==
    pc[Keepalive] = "retry" /\ KeepaliveGoto("ended")

\* sleep_until_keepalive ends with its time or with the flag.
KeepaliveRetry ==
    /\ pc[Keepalive] = "retry"
    /\ \/ close_flag /\ KeepaliveGoto("ended")
       \/ ~close_flag /\ Call(Keepalive, Major, "first")

KeepaliveLoop ==
    /\ pc[Keepalive] = "loop"
    /\ \/ close_flag /\ KeepaliveGoto("ended")
       \/ ~close_flag /\ Call(Keepalive, Major, "beat")

\* The target can belong to another group than the heartbeat.
KeepaliveBeat ==
    /\ pc[Keepalive] = "beat"
    /\ \/ (state[held[Keepalive]] # "up" \/ ~vip) /\ KeepaliveGoto("sleep")
       \/ /\ state[held[Keepalive]] = "up" /\ vip
          /\ \E g \in Groups : Call(Keepalive, g, "ping")

KeepalivePing == pc[Keepalive] = "ping" /\ KeepaliveGoto("sleep")
KeepaliveSleep == pc[Keepalive] = "sleep" /\ KeepaliveGoto("loop")

KeepaliveStep ==
    \/ KeepaliveStart \/ KeepaliveGreet \/ KeepaliveRetry \/ KeepaliveLoop
    \/ KeepaliveBeat \/ KeepalivePing \/ KeepaliveSleep
-----------------------------------------------------------------------------
(* close() *)

\* A second close() returns at once.
CloseBegin(t) ==
    /\ pc[t] = "idle"
    /\ close_flag' = TRUE
    /\ Goto(t, IF close_flag THEN "returned" ELSE "join")
    /\ UNCHANGED <<group, held, site, creation, remotes, remoteVars, closeVars,
                   incoming, vip, target>>

CloseJoin(t) ==
    /\ pc[t] = "join" /\ pc[Keepalive] = "ended"
    /\ Goto(t, "drain")
    /\ UNCHANGED <<group, held, site, mapVars, remoteVars, closeVars, incoming, vip, target>>

CloseDrain(t) ==
    /\ pc[t] = "drain"
    /\ closing' = {remotes[g] : g \in Groups} \ {NoRemote}
    /\ remotes' = [g \in Groups |-> NoRemote]
    /\ Goto(t, "close")
    /\ UNCHANGED <<group, held, site, creation, close_flag, remoteVars, closed,
                   incoming, vip, target>>

\* L3Remote::close of the next remote: the flag, and then the join.
CloseRemote(t, r) ==
    /\ pc[t] = "close" /\ r \in closing
    /\ \/ /\ state[r] = "up" /\ state' = [state EXCEPT ![r] = "down"]
          /\ UNCHANGED closing
       \/ state[r] = "dead" /\ closing' = closing \ {r} /\ UNCHANGED state
    /\ UNCHANGED <<userVars, mapVars, home, maker, closed, incoming, vip, target>>

CloseReturn(t) ==
    /\ pc[t] = "close" /\ closing = {}
    /\ Goto(t, "returned") /\ closed' = TRUE
    /\ UNCHANGED <<group, held, site, mapVars, remoteVars, closing, incoming, vip, target>>

CloserStep(t) ==
    CloseJoin(t) \/ CloseDrain(t) \/ (\E r \in Remotes : CloseRemote(t, r)) \/ CloseReturn(t)
-----------------------------------------------------------------------------
(* read_packet() *)

ReadBegin(t) ==
    /\ pc[t] = "idle" /\ Goto(t, "flag")
    /\ UNCHANGED <<group, held, site, mapVars, remoteVars, closeVars, incoming, vip, target>>

ReadFlag(t) ==
    /\ pc[t] = "flag" /\ Goto(t, IF close_flag THEN "idle" ELSE "recv")
    /\ UNCHANGED <<group, held, site, mapVars, remoteVars, closeVars, incoming, vip, target>>

\* recv_timeout: a packet, or 250 ms without one.
ReadRecv(t) ==
    /\ pc[t] = "recv"
    /\ \/ incoming > 0 /\ incoming' = incoming - 1 /\ Goto(t, "idle")
       \/ incoming = 0 /\ Goto(t, "flag") /\ UNCHANGED incoming
    /\ UNCHANGED <<group, held, site, mapVars, remoteVars, closeVars, vip, target>>
-----------------------------------------------------------------------------
(* The remotes, as L3Remote promises *)

RemoteBreaks(r) ==
    /\ state[r] = "up"
    /\ state' = [state EXCEPT ![r] = "down"]
    /\ UNCHANGED <<userVars, mapVars, home, maker, closeVars, incoming, vip, target>>

WorkerEnds(r) ==
    /\ state[r] = "down"
    /\ state' = [state EXCEPT ![r] = "dead"]
    /\ home' = [home EXCEPT ![r] = Major]
    /\ maker' = [maker EXCEPT ![r] = NoThread]
    /\ UNCHANGED <<userVars, mapVars, closeVars, incoming, vip, target>>

\* A data frame, or the node's list of virtual addresses.
RemoteReceives(r) ==
    /\ Alive(r)
    /\ \/ incoming < MaxPackets /\ incoming' = incoming + 1 /\ UNCHANGED vip
       \/ vip' = TRUE /\ UNCHANGED incoming
    /\ UNCHANGED <<userVars, mapVars, remoteVars, closeVars, target>>
-----------------------------------------------------------------------------
Next ==
    \/ \E t \in Users : RemoteFor(t)
    \/ \E t \in Callers : Use(t) \/ \E g \in Groups : CallBegin(t, g)
    \/ KeepaliveStep
    \/ \E t \in Closers : CloseBegin(t) \/ CloserStep(t)
    \/ \E t \in Readers : ReadBegin(t) \/ ReadFlag(t) \/ ReadRecv(t)
    \/ \E r \in Remotes : RemoteBreaks(r) \/ WorkerEnds(r) \/ RemoteReceives(r)

Spec == Init /\ [][Next]_vars

\* Threads are scheduled, and a thread that waits for the lock gets it if it is
\* free again and again.  How long a connect takes is the node's doing, which can
\* stop half way through its handshake, and so is the end of a worker, which can
\* be in the middle of a frame (L3Remote): neither is fair.
FairSpec ==
    /\ Spec
    /\ \A t \in Users : WF_vars(pc[t] # "connect" /\ RemoteFor(t)) /\ SF_vars(Lock(t))
    /\ \A t \in Callers : WF_vars(Use(t))
    /\ WF_vars(KeepaliveStep)
    /\ \A t \in Closers : WF_vars(CloserStep(t))
    /\ \A t \in Readers : WF_vars(ReadFlag(t) \/ ReadRecv(t))
-----------------------------------------------------------------------------
(* Properties *)

\* Until close() is called, the map of remotes is what runs.  remote_for creates
\* no duplicates: a group has at most one remote whose worker runs, the one
\* being replaced included.  And a remote that works can be found: it is in the
\* map, or the thread that has connected it still holds the lock and is about
\* to insert it.
MapAgrees ==
    ~close_flag =>
        /\ \A r, s \in Remotes : Alive(r) /\ Alive(s) /\ home[r] = home[s] => r = s
        /\ \A r \in Remotes : state[r] = "up" =>
              \/ remotes[home[r]] = r
              \/ creation \in Users /\ pc[creation] = "insert" /\ held[creation] = r

\* close() does not take the creation lock, and a remote_for that passed its
\* check before can still insert a remote nobody will close.  It is only one,
\* whatever number of writers there is, and never the keepalive thread's, which
\* close() joins first: a tunnel that only keeps a session alive is closed
\* completely.
AtMostOneSurvivor ==
    closed =>
        /\ Cardinality({r \in Remotes : Alive(r)}) <= 1
        /\ \A r \in Remotes : state[r] = "up" => maker[r] \in Callers

\* What the nodes owe: a frame and a handshake they have begun go on, so that
\* the worker of a remote that is closed ends, and so does every connect.
NodesLetGo ==
    /\ \A r \in Remotes : []<>(state[r] # "down")
    /\ \A t \in Users : []<>(pc[t] # "connect")

\* If the nodes let go, close() returns, also when a writer is replacing or
\* connecting a remote.  It releases the readers in any case, also while it
\* waits for a worker itself.
CloseReturns ==
    /\ NodesLetGo => \A t \in Closers : pc[t] = "join" ~> pc[t] = "returned"
    /\ \A t \in Readers :
          close_flag /\ pc[t] \in {"flag", "recv"} ~> pc[t] \notin {"flag", "recv"}

\* A node that is tried again and again is reached in the end.
NodesReached ==
    []<>(pc[Keepalive] = "connect") => []<>(pc[Keepalive] = "insert")

\* The keepalive thread does not give up: a lost session of the major group is
\* set up again, as long as nodes can be reached, let go of what they hold, and
\* the tunnel is open.
SessionRestored ==
    NodesLetGo /\ NodesReached =>
        (target => (TRUE ~> close_flag \/ \E r \in Remotes : state[r] = "up" /\ home[r] = Major))
=============================================================================
