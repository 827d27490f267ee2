--------------------------- MODULE L3TunnelProofs ---------------------------
(***************************************************************************)
(* What L3Tunnel promises of its map of remotes, for any number of         *)
(* threads, node groups and remotes: the inductive invariant, that the     *)
(* steps of remote_for and of its callers, of close(), of the keepalive    *)
(* thread and of the remotes keep it, and the two promises that follow.    *)
(***************************************************************************)
EXTENDS L3Tunnel, FiniteSetTheorems, TLAPS

\* Where remote_for holds the lock; where it has found the tunnel open; where
\* close() is at work; and whether it has emptied the map.
Critical == {"check", "lookup", "remove", "reclose", "connect", "insert"}
Past == Critical \ {"check"}
Busy == {"join", "drain", "close"}
Drained == closed \/ \E c \in Closers : pc[c] = "close"

Labels ==
    Critical \cup Busy \cup
    {"start", "idle", "lock", "use", "greet", "retry", "loop", "beat", "ping", "sleep",
     "ended", "returned", "flag", "recv"}
Typed ==
    /\ pc \in [Threads -> Labels]
    /\ group \in [Users -> Groups] /\ held \in [Users -> Remotes \cup {NoRemote}]
    /\ close_flag \in BOOLEAN /\ closed \in BOOLEAN
    /\ remotes \in [Groups -> Remotes \cup {NoRemote}]
    /\ state \in [Remotes -> {"up", "down", "dead"}]
    /\ home \in [Remotes -> Groups] /\ maker \in [Remotes -> Users \cup {NoThread}]
    /\ closing \subseteq Remotes

LockHeld == \A t \in Users : pc[t] \in Critical => creation = t

\* One thread closes, once, after the keepalive thread has ended.
OneCloser ==
    /\ \A c, d \in Closers : pc[c] \in Busy /\ pc[d] \in Busy => c = d
    /\ \A c \in Closers : pc[c] \in Busy => close_flag /\ ~closed
    /\ closed => close_flag /\ pc[Keepalive] = "ended"
    /\ closing # {} => \E c \in Closers : pc[c] = "close"
    /\ \A c \in Closers : pc[c] \in {"drain", "close"} => pc[Keepalive] = "ended"

\* A remote is in the map once, under its own group.
MapKeyed ==
    \A g \in Groups : remotes[g] # NoRemote =>
        /\ \A h \in Groups : remotes[h] = remotes[g] => h = g
        /\ Alive(remotes[g]) => home[remotes[g]] = g

\* What the holder of the lock knows of the remote in its hands and of its group.
HolderKnows ==
    \A t \in Users :
        /\ pc[t] \in {"remove", "reclose", "insert"} => held[t] \in Remotes
        /\ pc[t] \in {"reclose", "connect", "insert"} => remotes[group[t]] = NoRemote
        /\ pc[t] \in {"remove", "reclose"} =>
              /\ state[held[t]] # "up"
              /\ Alive(held[t]) => home[held[t]] = group[t]
        /\ pc[t] = "remove" => remotes[group[t]] \in {held[t], NoRemote}
        /\ pc[t] = "insert" =>
              /\ Alive(held[t]) => home[held[t]] = group[t] /\ maker[held[t]] = t
              /\ \A g \in Groups : remotes[g] # held[t]

\* A worker that runs belongs to a remote somebody will find: in the map, in
\* close()'s list, or in the hands of the holder of the lock.
Located ==
    \A r \in Remotes : Alive(r) =>
        \/ remotes[home[r]] = r
        \/ r \in closing
        \/ \E t \in Users : held[t] = r /\ pc[t] \in {"reclose", "insert"}

\* Once the map has been emptied only a thread that had found the tunnel open
\* fills it again, and only with one remote.
Late ==
    Drained =>
        /\ \A t \in Users : pc[t] \in Past => \A g \in Groups : remotes[g] = NoRemote
        /\ \A g, h \in Groups : remotes[g] # NoRemote /\ remotes[h] # NoRemote => g = h
        /\ \A g \in Groups : remotes[g] # NoRemote /\ Alive(remotes[g]) =>
              maker[remotes[g]] \in Callers

Inv == Typed /\ LockHeld /\ OneCloser /\ MapKeyed /\ HolderKnows /\ Located /\ Late
-----------------------------------------------------------------------------
USE DEF Users, Threads, Critical, Past, Busy, Alive

\* A step of a user of remote_for leaves close() where it is.
LEMMA UserStep ==
    ASSUME Inv, NEW t \in Users, pc[t] # "ended",
           \A u \in Threads \ {t} : pc'[u] = pc[u],
           close_flag' = close_flag, closing' = closing, closed' = closed
    PROVE  OneCloser' /\ (Drained' <=> Drained)
<1> USE L3TunnelAssumption
<1>1. \A c \in Closers : pc'[c] = pc[c]
  OBVIOUS
<1>2. Drained' <=> Drained
  BY <1>1, Zenon DEF Drained
<1>3. pc[Keepalive] = "ended" => pc'[Keepalive] = "ended"
  OBVIOUS
<1>4. OneCloser'
  BY <1>1, <1>3, Zenon DEF Inv, OneCloser
<1> QED
  BY <1>2, <1>4, Zenon

\* A step outside remote_for and close(): it moves one thread and changes
\* nothing that threads share.
LEMMA QuietStep ==
    ASSUME Inv, NEW t \in Threads, pc' \in [Threads -> Labels],
           \A u \in Threads \ {t} : pc'[u] = pc[u],
           pc[t] \notin Critical \cup Busy \cup {"ended"}, pc'[t] \notin Critical \cup Busy,
           UNCHANGED <<mapVars, remoteVars, closeVars>>,
           group' \in [Users -> Groups], held' \in [Users -> Remotes \cup {NoRemote}],
           \A u \in Users \ {t} : group'[u] = group[u] /\ held'[u] = held[u]
    PROVE  Inv'
<1> USE L3TunnelAssumption DEF mapVars, remoteVars, closeVars
<1>1. \A u \in Threads : pc'[u] \in Critical \cup Busy \/ pc[u] \in Critical \cup Busy =>
          u # t /\ pc'[u] = pc[u]
  OBVIOUS
<1>2. Drained' <=> Drained
  BY <1>1, Zenon DEF Drained
<1>3. Typed'
  BY Zenon DEF Inv, Typed
<1>4. LockHeld'
  BY <1>1, Zenon DEF Inv, LockHeld
<1>5. OneCloser'
  <2>1. pc[Keepalive] = "ended" => pc'[Keepalive] = "ended"
    OBVIOUS
  <2> QED
    BY <1>1, <2>1 DEF Inv, OneCloser
<1>6. MapKeyed'
  BY Zenon DEF Inv, MapKeyed
<1>7. HolderKnows'
  BY <1>1 DEF Inv, HolderKnows
<1>8. Located'
  BY <1>1 DEF Inv, Located
<1>9. Late'
  BY <1>1, <1>2, Zenon DEF Inv, Late
<1> QED
  BY <1>3, <1>4, <1>5, <1>6, <1>7, <1>8, <1>9, Zenon DEF Inv
-----------------------------------------------------------------------------
(* remote_for *)

\* The mutex of remote_for is free when a thread takes it.
LEMMA LockStep == ASSUME Inv, NEW t \in Users, Lock(t) PROVE Inv'
<1> USE L3TunnelAssumption DEF Lock, Goto, remoteVars, closeVars
<1>1. /\ pc' \in [Threads -> Labels] /\ pc'[t] = "check"
      /\ \A u \in Threads \ {t} : pc'[u] = pc[u]
  BY Zenon DEF Inv, Typed, Labels
<1>2. OneCloser' /\ (Drained' <=> Drained)
  BY <1>1, UserStep, Zenon
<1>3. Typed'
  BY <1>1, Zenon DEF Inv, Typed
<1>4. LockHeld'
  BY <1>1, Zenon DEF Inv, LockHeld
<1>5. MapKeyed' /\ HolderKnows'
  BY <1>1 DEF Inv, MapKeyed, HolderKnows
<1>6. Located'
  BY <1>1, Zenon DEF Inv, Located
<1>7. Late'
  BY <1>2, <1>1, Zenon DEF Inv, Late
<1> QED
  BY <1>2, <1>1, <1>3, <1>4, <1>5, <1>6, <1>7, Zenon DEF Inv

\* remote_for fails: the tunnel is closed, or nothing can be connected.
LEMMA GiveUpStep ==
    ASSUME Inv, NEW t \in Users, pc[t] \in {"check", "connect"},
           Leave(t, OnError(t)), creation' = NoThread,
           UNCHANGED <<close_flag, remotes, remoteVars, closeVars>>
    PROVE  Inv'
<1> USE L3TunnelAssumption DEF Leave, Goto, remoteVars, closeVars
<1>1. OnError(t) \in {"idle", "retry", "sleep"}
  BY Zenon DEF OnError
<1>2. /\ pc' \in [Threads -> Labels] /\ pc'[t] \notin Critical
      /\ \A u \in Threads \ {t} : pc'[u] = pc[u]
  BY <1>1, Zenon DEF Inv, Typed, Labels
<1>3. OneCloser' /\ (Drained' <=> Drained)
  BY <1>2, UserStep, Zenon
<1>4. \A u \in Users \ {t} : pc[u] \notin Critical
  BY Zenon DEF Inv, LockHeld
<1>5. Typed'
  BY <1>2, Zenon DEF Inv, Typed
<1>6. LockHeld'
  BY <1>2, <1>4, Zenon DEF LockHeld
<1>7. MapKeyed' /\ HolderKnows'
  BY <1>2, <1>4 DEF Inv, MapKeyed, HolderKnows
<1>8. Located'
  BY <1>2, <1>4, Zenon DEF Inv, Located
<1>9. Late'
  BY <1>3, <1>2, <1>4, Zenon DEF Inv, Late
<1> QED
  BY <1>3, <1>2, <1>5, <1>6, <1>7, <1>8, <1>9, Zenon DEF Inv

\* CheckClosed finds the tunnel open: close() has not emptied the map.
LEMMA OpenStep ==
    ASSUME Inv, NEW t \in Users, pc[t] = "check", ~close_flag, Goto(t, "lookup"),
           UNCHANGED <<group, held, site, creation, close_flag, remotes, remoteVars, closeVars>>
    PROVE  Inv'
<1> USE L3TunnelAssumption DEF Goto, remoteVars, closeVars
<1>1. /\ pc' \in [Threads -> Labels] /\ pc'[t] = "lookup"
      /\ \A u \in Threads \ {t} : pc'[u] = pc[u]
  BY Zenon DEF Inv, Typed, Labels
<1>2. OneCloser' /\ (Drained' <=> Drained)
  BY <1>1, UserStep, Zenon
<1>3. ~Drained
  BY Zenon DEF Inv, OneCloser, Drained
<1>4. Typed' /\ LockHeld'
  BY <1>1, Zenon DEF Inv, Typed, LockHeld
<1>5. MapKeyed' /\ HolderKnows'
  BY <1>1 DEF Inv, MapKeyed, HolderKnows
<1>6. Located'
  BY <1>1, Zenon DEF Inv, Located
<1>7. Late'
  BY <1>2, <1>1, <1>3, Zenon DEF Late
<1> QED
  BY <1>2, <1>1, <1>4, <1>5, <1>6, <1>7, Zenon DEF Inv

\* The map has a remote of the group or not.
LEMMA LookupStep == ASSUME Inv, NEW t \in Users, Lookup(t) PROVE Inv'
<1> USE L3TunnelAssumption DEF Lookup, Goto, remoteVars, closeVars
<1>1. OnRemote(t) \in {"use", "greet", "beat", "ping"}
  BY Zenon DEF OnRemote
<1>2. PICK l \in {"connect", "remove", OnRemote(t)} :
        /\ pc' = [pc EXCEPT ![t] = l]
        /\ l = "connect" => remotes[group[t]] = NoRemote /\ held' = held
        /\ l = "remove" =>
              /\ remotes[group[t]] # NoRemote /\ state[remotes[group[t]]] # "up"
              /\ held' = [held EXCEPT ![t] = remotes[group[t]]]
        /\ l \in {"connect", "remove"} => creation' = creation
        /\ l \notin {"connect", "remove"} =>
              creation' = NoThread /\ held' = [held EXCEPT ![t] = remotes[group[t]]]
  <2>1. CASE remotes[group[t]] = NoRemote
    BY <1>1, <2>1, Zenon
  <2>2. CASE remotes[group[t]] # NoRemote /\ state[remotes[group[t]]] = "up"
    BY <1>1, <2>2, Zenon
  <2>3. CASE remotes[group[t]] # NoRemote /\ state[remotes[group[t]]] # "up"
    BY <1>1, <2>3, Zenon
  <2> QED
    BY <2>1, <2>2, <2>3, Zenon
<1>3. /\ pc' \in [Threads -> Labels] /\ pc'[t] = l
      /\ \A u \in Threads \ {t} : pc'[u] = pc[u]
  BY <1>1, <1>2, Zenon DEF Inv, Typed, Labels
<1>4. OneCloser' /\ (Drained' <=> Drained)
  BY <1>3, UserStep, Zenon
<1>5. \A u \in Users \ {t} : pc[u] \notin Critical
  BY Zenon DEF Inv, LockHeld
<1>6. Typed'
  BY <1>2, <1>3 DEF Inv, Typed
<1>7. LockHeld'
  BY SMTT(30), <1>1, <1>2, <1>3, <1>5 DEF Inv, LockHeld
<1>8. MapKeyed'
  BY Zenon DEF Inv, MapKeyed
<1>9. HolderKnows'
  <2>1. \A u \in Users \ {t} : pc'[u] \notin Critical
    BY <1>3, <1>5, Zenon
  <2>2. l = "remove" => held'[t] = remotes[group[t]] /\ remotes[group[t]] \in Remotes
    BY <1>2, Zenon DEF Inv, Typed
  <2>3. remotes[group[t]] # NoRemote /\ Alive(remotes[group[t]]) => home[remotes[group[t]]] = group[t]
    BY Zenon DEF Inv, Typed, MapKeyed
  <2> QED
    BY SMTT(30), <1>1, <1>2, <1>3, <2>1, <2>2, <2>3 DEF HolderKnows
<1>10. Located'
  BY <1>3, <1>5 DEF Inv, Located
<1>11. Late'
  BY <1>4, <1>3, Zenon DEF Inv, Late
<1> QED
  BY <1>4, <1>3, <1>6, <1>7, <1>8, <1>9, <1>10, <1>11 DEF Inv

\* A remote that no longer runs leaves the map with its finder,
LEMMA RemoveStep == ASSUME Inv, NEW t \in Users, Remove(t) PROVE Inv'
<1> USE L3TunnelAssumption DEF Remove, Goto, remoteVars, closeVars
<1>1. /\ pc' \in [Threads -> Labels] /\ pc'[t] = "reclose"
      /\ \A u \in Threads \ {t} : pc'[u] = pc[u]
  BY Zenon DEF Inv, Typed, Labels
<1>2. OneCloser' /\ (Drained' <=> Drained)
  BY <1>1, UserStep, Zenon
<1>3. \A u \in Users \ {t} : pc[u] \notin Critical
  BY Zenon DEF Inv, LockHeld
<1>4. /\ group[t] \in Groups /\ remotes'[group[t]] = NoRemote
      /\ \A g \in Groups : remotes'[g] \in {remotes[g], NoRemote}
      /\ \A g \in Groups \ {group[t]} : remotes'[g] = remotes[g]
  BY Zenon DEF Inv, Typed
<1>5. Typed' /\ LockHeld'
  BY <1>1, Zenon DEF Inv, Typed, LockHeld
<1>6. MapKeyed'
  BY <1>4 DEF Inv, MapKeyed
<1>7. HolderKnows'
  BY <1>1, <1>3, <1>4 DEF Inv, HolderKnows
<1>8. Located'
  <2> SUFFICES ASSUME NEW r \in Remotes, Alive(r)
               PROVE  \/ remotes'[home[r]] = r \/ r \in closing
                      \/ \E u \in Users : held[u] = r /\ pc'[u] \in {"reclose", "insert"}
    BY Zenon DEF Located
  <2>1. CASE remotes[home[r]] = r /\ home[r] = group[t]
    <3>1. held[t] = r
      BY <2>1 DEF Inv, HolderKnows
    <3> QED
      BY <1>1, <3>1, Zenon
  <2>2. CASE remotes[home[r]] = r /\ home[r] # group[t]
    BY <1>4, <2>2, Zenon DEF Inv, Typed
  <2>3. CASE remotes[home[r]] # r
    BY <1>1, <1>3, <2>3, Zenon DEF Inv, Located
  <2> QED
    BY <2>1, <2>2, <2>3, Zenon
<1>9. Late'
  BY <1>2, <1>1, <1>4 DEF Inv, Late
<1> QED
  BY <1>2, <1>1, <1>5, <1>6, <1>7, <1>8, <1>9, Zenon DEF Inv

\* who closes it.
LEMMA RecloseStep == ASSUME Inv, NEW t \in Users, Reclose(t) PROVE Inv'
<1> USE L3TunnelAssumption DEF Reclose, Goto, mapVars, remoteVars, closeVars
<1>1. /\ pc' \in [Threads -> Labels] /\ pc'[t] = "connect"
      /\ \A u \in Threads \ {t} : pc'[u] = pc[u]
  BY Zenon DEF Inv, Typed, Labels
<1>2. OneCloser' /\ (Drained' <=> Drained)
  BY <1>1, UserStep, Zenon
<1>3. \A u \in Users \ {t} : pc[u] \notin Critical
  BY Zenon DEF Inv, LockHeld
<1>4. Typed' /\ LockHeld'
  BY <1>1, Zenon DEF Inv, Typed, LockHeld
<1>5. MapKeyed'
  BY Zenon DEF Inv, MapKeyed
<1>6. HolderKnows'
  BY <1>1, <1>3, Zenon DEF Inv, HolderKnows
<1>7. Located'
  BY <1>1, <1>3 DEF Inv, Located
<1>8. Late'
  BY <1>2, <1>1, Zenon DEF Inv, Late
<1> QED
  BY <1>2, <1>1, <1>4, <1>5, <1>6, <1>7, <1>8, Zenon DEF Inv

\* A new remote is its maker's alone,
LEMMA ConnectStep == ASSUME Inv, NEW t \in Users, NEW r \in Remotes, Connect(t, r) PROVE Inv'
<1> USE L3TunnelAssumption DEF Connect, Goto, mapVars, closeVars
<1>1. /\ pc' \in [Threads -> Labels] /\ pc'[t] = "insert"
      /\ \A u \in Threads \ {t} : pc'[u] = pc[u]
  BY Zenon DEF Inv, Typed, Labels
<1>2. OneCloser' /\ (Drained' <=> Drained)
  BY <1>1, UserStep, Zenon
<1>3. \A u \in Users \ {t} : pc[u] \notin Critical
  BY Zenon DEF Inv, LockHeld
<1>4. r \notin closing /\ \A g \in Groups : remotes[g] # r
  BY Zenon DEF Unused
<1>5. /\ state'[r] = "up" /\ home'[r] = group[t] /\ maker'[r] = t /\ held'[t] = r
      /\ \A q \in Remotes \ {r} :
            state'[q] = state[q] /\ home'[q] = home[q] /\ maker'[q] = maker[q]
      /\ \A u \in Users \ {t} : held'[u] = held[u]
  BY DEF Inv, Typed
<1>6. Typed' /\ LockHeld'
  BY <1>1 DEF Inv, Typed, LockHeld
<1>7. MapKeyed'
  BY <1>4, <1>5 DEF Inv, MapKeyed, Typed
<1>8. HolderKnows'
  BY <1>1, <1>3, <1>4, <1>5 DEF Inv, HolderKnows
<1>9. Located'
  BY <1>1, <1>3, <1>5 DEF Inv, Located
<1>10. Late'
  BY <1>2, <1>1, <1>4, <1>5, Zenon DEF Inv, Late, Typed
<1> QED
  BY <1>2, <1>1, <1>6, <1>7, <1>8, <1>9, <1>10 DEF Inv

\* until it is in the map.
LEMMA InsertStep == ASSUME Inv, NEW t \in Users, Insert(t) PROVE Inv'
<1> USE L3TunnelAssumption DEF Insert, Goto, remoteVars, closeVars
<1>1. OnRemote(t) \in {"use", "greet", "beat", "ping"}
  BY Zenon DEF OnRemote
<1>2. /\ pc' \in [Threads -> Labels] /\ pc'[t] \notin Critical
      /\ \A u \in Threads \ {t} : pc'[u] = pc[u]
  BY <1>1, Zenon DEF Inv, Typed, Labels
<1>3. OneCloser' /\ (Drained' <=> Drained)
  BY <1>2, UserStep, Zenon
<1>4. \A u \in Users \ {t} : pc[u] \notin Critical
  BY Zenon DEF Inv, LockHeld
<1>5. /\ held[t] \in Remotes /\ group[t] \in Groups /\ remotes[group[t]] = NoRemote
      /\ Alive(held[t]) => home[held[t]] = group[t] /\ maker[held[t]] = t
      /\ \A g \in Groups : remotes[g] # held[t]
  BY Zenon DEF Inv, Typed, HolderKnows
<1>6. /\ remotes'[group[t]] = held[t]
      /\ \A g \in Groups \ {group[t]} : remotes'[g] = remotes[g]
  BY Zenon DEF Inv, Typed
<1>7. Typed'
  BY <1>2, <1>5, Zenon DEF Inv, Typed
<1>8. LockHeld' /\ HolderKnows'
  BY <1>2, <1>4, Zenon DEF LockHeld, HolderKnows
<1>9. MapKeyed'
  BY <1>5, <1>6 DEF Inv, MapKeyed
<1>10. Located'
  <2> SUFFICES ASSUME NEW r \in Remotes, Alive(r)
               PROVE  remotes'[home[r]] = r \/ r \in closing
    BY Zenon DEF Located
  <2>1. CASE r = held[t]
    BY <1>5, <1>6, <2>1, Zenon
  <2>2. CASE r # held[t]
    <3>1. remotes[home[r]] = r \/ r \in closing
      BY <1>4, <2>2, Zenon DEF Inv, Located
    <3> QED
      BY <1>5, <1>6, <3>1 DEF Inv, Typed
  <2> QED
    BY <2>1, <2>2, Zenon
<1>11. Late'
  <2> SUFFICES ASSUME Drained PROVE Late'
    BY <1>3, <1>2, Zenon DEF Late
  <2>1. \A g \in Groups : remotes[g] = NoRemote
    BY Zenon DEF Inv, Late
  <2>2. t \in Callers
    BY Zenon DEF Inv, OneCloser, Drained
  <2> QED
    BY <1>3, <1>2, <1>4, <1>5, <1>6, <2>1, <2>2 DEF Late
<1> QED
  BY ZenonT(30), <1>3, <1>2, <1>7, <1>8, <1>9, <1>10, <1>11 DEF Inv
-----------------------------------------------------------------------------

(* close() *)

\* A step of close() moves no user of remote_for: what it does not touch stays true.
LEMMA CloserLeaves ==
    ASSUME Inv, \A u \in Users : pc'[u] = pc[u], UNCHANGED <<group, held, creation, remoteVars>>
    PROVE  /\ LockHeld'
           /\ UNCHANGED remotes => MapKeyed' /\ HolderKnows'
           /\ UNCHANGED <<remotes, closing>> => Located'
           /\ UNCHANGED remotes /\ (Drained' => Drained) => Late'
<1> USE DEF remoteVars
<1>1. LockHeld'
  BY Zenon DEF Inv, LockHeld
<1>2. UNCHANGED remotes => MapKeyed' /\ HolderKnows'
  BY DEF Inv, MapKeyed, HolderKnows
<1>3. UNCHANGED <<remotes, closing>> => Located'
  BY Zenon DEF Inv, Located
<1>4. UNCHANGED remotes /\ (Drained' => Drained) => Late'
  BY Zenon DEF Inv, Late
<1> QED
  BY <1>1, <1>2, <1>3, <1>4, Zenon

\* The first close() sets the flag; the others return.
LEMMA CloseBeginStep == ASSUME Inv, NEW t \in Closers, CloseBegin(t) PROVE Inv'
<1> USE L3TunnelAssumption DEF CloseBegin, closeVars, remoteVars
<1>1. PICK l \in {"returned", "join"} : Goto(t, l) /\ (l = "join" => ~close_flag)
  OBVIOUS
<1>2. /\ pc' \in [Threads -> Labels] /\ pc'[t] = l /\ pc'[Keepalive] = pc[Keepalive]
      /\ (\A u \in Threads \ {t} : pc'[u] = pc[u]) /\ \A u \in Users : pc'[u] = pc[u]
  BY <1>1 DEF Inv, Typed, Goto, Labels
<1>3. Typed'
  BY <1>2, Zenon DEF Inv, Typed
<1>4. OneCloser'
  BY <1>1, <1>2, Zenon DEF Inv, OneCloser
<1>5. Drained' => Drained
  BY <1>2, Zenon DEF Drained
<1> QED
  BY <1>2, <1>3, <1>4, <1>5, CloserLeaves, Zenon DEF Inv

\* The keepalive thread has ended.
LEMMA CloseJoinStep == ASSUME Inv, NEW t \in Closers, CloseJoin(t) PROVE Inv'
<1> USE L3TunnelAssumption DEF CloseJoin, closeVars, remoteVars, mapVars
<1>1. /\ pc' \in [Threads -> Labels] /\ pc'[t] = "drain" /\ pc'[Keepalive] = pc[Keepalive]
      /\ (\A u \in Threads \ {t} : pc'[u] = pc[u]) /\ \A u \in Users : pc'[u] = pc[u]
  BY Zenon DEF Inv, Typed, Goto, Labels
<1>2. Typed'
  BY <1>1, Zenon DEF Inv, Typed
<1>3. OneCloser'
  BY <1>1, Zenon DEF Inv, OneCloser
<1>4. Drained' => Drained
  BY <1>1, Zenon DEF Drained
<1> QED
  BY <1>1, <1>2, <1>3, <1>4, CloserLeaves, Zenon DEF Inv

\* close() takes every remote out of the map,
LEMMA CloseDrainStep == ASSUME Inv, NEW t \in Closers, CloseDrain(t) PROVE Inv'
<1> USE L3TunnelAssumption DEF CloseDrain, remoteVars
<1>1. /\ pc' \in [Threads -> Labels] /\ pc'[t] = "close" /\ pc'[Keepalive] = pc[Keepalive]
      /\ (\A u \in Threads \ {t} : pc'[u] = pc[u]) /\ \A u \in Users : pc'[u] = pc[u]
  BY DEF Inv, Typed, Goto, Labels
<1>2. \A g \in Groups : remotes'[g] = NoRemote
  OBVIOUS
<1>3. closing = {}
  BY Zenon DEF Inv, OneCloser
<1>4. Typed'
  BY <1>1 DEF Inv, Typed
<1>5. OneCloser'
  BY <1>1, Zenon DEF Inv, OneCloser
<1>6. MapKeyed' /\ Late'
  BY <1>2, Zenon DEF MapKeyed, Late
<1>7. HolderKnows'
  <2>1. group \in [Users -> Groups]
    BY Zenon DEF Inv, Typed
  <2> QED
    BY <1>1, <1>2, <2>1 DEF Inv, HolderKnows
<1>8. Located'
  <2>1. \A r \in Remotes : home[r] \in Groups
    BY Zenon DEF Inv, Typed
  <2>2. \A r \in Remotes : remotes[home[r]] = r => r \in closing'
    BY <2>1, Zenon
  <2> SUFFICES ASSUME NEW r \in Remotes, Alive(r)'
               PROVE  r \in closing' \/ \E u \in Users : held'[u] = r /\ pc'[u] \in {"reclose", "insert"}
    BY Zenon DEF Located
  <2>3. Alive(r)
    OBVIOUS
  <2>4. \/ remotes[home[r]] = r
        \/ \E u \in Users : held[u] = r /\ pc[u] \in {"reclose", "insert"}
    BY <1>3, <2>3, Zenon DEF Inv, Located
  <2> QED
    BY <1>1, <2>2, <2>4, Zenon
<1> QED
  BY <1>1, <1>4, <1>5, <1>6, <1>7, <1>8, CloserLeaves, Zenon DEF Inv

\* and returns when it has closed them all.
LEMMA CloseReturnStep == ASSUME Inv, NEW t \in Closers, CloseReturn(t) PROVE Inv'
<1> USE L3TunnelAssumption DEF CloseReturn, mapVars, remoteVars
<1>1. /\ pc' \in [Threads -> Labels] /\ pc'[t] = "returned" /\ pc'[Keepalive] = pc[Keepalive]
      /\ (\A u \in Threads \ {t} : pc'[u] = pc[u]) /\ \A u \in Users : pc'[u] = pc[u]
  BY Zenon DEF Inv, Typed, Goto, Labels
<1>2. Typed'
  BY <1>1, Zenon DEF Inv, Typed
<1>3. OneCloser'
  BY <1>1, Zenon DEF Inv, OneCloser
<1>4. Drained' => Drained
  BY Zenon DEF Drained
<1> QED
  BY <1>1, <1>2, <1>3, <1>4, CloserLeaves, Zenon DEF Inv
-----------------------------------------------------------------------------
(* The remotes *)

\* A remote goes down or its worker ends; close() takes one off its list only
\* when the worker has ended.
LEMMA RemoteStep ==
    ASSUME Inv, NEW r \in Remotes, UNCHANGED <<userVars, mapVars, closed>>,
           state' \in [Remotes -> {"up", "down", "dead"}], home' \in [Remotes -> Groups],
           maker' \in [Remotes -> Users \cup {NoThread}],
           \A q \in Remotes \ {r} :
               state'[q] = state[q] /\ home'[q] = home[q] /\ maker'[q] = maker[q],
           state'[r] = "up" => state[r] = "up",
           state'[r] # "dead" =>
               state[r] # "dead" /\ home'[r] = home[r] /\ maker'[r] = maker[r],
           closing' = closing \/ (closing' = closing \ {r} /\ state'[r] = "dead")
    PROVE  Inv'
<1> USE L3TunnelAssumption DEF userVars, mapVars
<1>1. \A q \in Remotes :
          /\ state'[q] = "up" => state[q] = "up"
          /\ state'[q] # "dead" =>
                state[q] # "dead" /\ home'[q] = home[q] /\ maker'[q] = maker[q]
  OBVIOUS
<1>2. Drained' <=> Drained
  BY Zenon DEF Drained
<1>3. Typed'
  BY Zenon DEF Inv, Typed
<1>4. LockHeld'
  <2>1. \A u \in Users : pc'[u] = pc[u]
    OBVIOUS
  <2>2. creation' = creation
    OBVIOUS
  <2> QED
    BY <2>1, <2>2, Zenon DEF Inv, LockHeld
<1>5. OneCloser'
  BY Zenon DEF Inv, OneCloser
<1>6. \A g \in Groups : remotes[g] # NoRemote => remotes[g] \in Remotes
  BY Zenon DEF Inv, Typed
<1>7. MapKeyed'
  BY <1>1, <1>6 DEF Inv, MapKeyed
<1>8. HolderKnows'
  BY <1>1 DEF Inv, HolderKnows
<1>9. Located'
  BY <1>1 DEF Inv, Located
<1>10. Late'
  BY <1>1, <1>2, <1>6, Zenon DEF Inv, Late
<1> QED
  BY <1>3, <1>4, <1>5, <1>7, <1>8, <1>9, <1>10, Zenon DEF Inv
-----------------------------------------------------------------------------
\* The inductive step, action by action.
LEMMA InvNext == Inv /\ [Next]_vars => Inv'
<1> SUFFICES ASSUME Inv, [Next]_vars PROVE Inv'
  OBVIOUS
<1> USE L3TunnelAssumption
<1>1. ASSUME NEW t \in Users, NEW g \in Groups, NEW from, Call(t, g, from),
             pc[t] \notin Critical \cup Busy \cup {"ended"}
      PROVE  Inv'
  <2>1. /\ pc' \in [Threads -> Labels] /\ pc'[t] = "lock"
        /\ \A u \in Threads \ {t} : pc'[u] = pc[u]
    BY <1>1, Zenon DEF Call, Goto, Inv, Typed, Labels
  <2>2. /\ group' \in [Users -> Groups] /\ held' \in [Users -> Remotes \cup {NoRemote}]
        /\ \A u \in Users \ {t} : group'[u] = group[u] /\ held'[u] = held[u]
    BY <1>1, Zenon DEF Call, Inv, Typed
  <2> QED
    BY ZenonT(30), <1>1, <2>1, <2>2, QuietStep DEF Call
<1>2. ASSUME NEW t \in Users, NEW l \in Labels, Leave(t, l), l \notin Critical \cup Busy,
             pc[t] \notin Critical \cup Busy \cup {"ended"},
             UNCHANGED <<mapVars, remoteVars, closeVars>>
      PROVE  Inv'
  <2>1. /\ pc' \in [Threads -> Labels] /\ pc'[t] = l
        /\ \A u \in Threads \ {t} : pc'[u] = pc[u]
    BY <1>2, Zenon DEF Leave, Goto, Inv, Typed
  <2>2. /\ group' \in [Users -> Groups] /\ held' \in [Users -> Remotes \cup {NoRemote}]
        /\ \A u \in Users \ {t} : group'[u] = group[u] /\ held'[u] = held[u]
    BY <1>2, Zenon DEF Leave, Inv, Typed
  <2> QED
    BY <1>2, <2>1, <2>2, QuietStep, Zenon
<1>3. ASSUME NEW t \in Users, RemoteFor(t) PROVE Inv'
  <2>1. CASE CheckClosed(t)
    BY <2>1, GiveUpStep, OpenStep, Zenon DEF CheckClosed
  <2>2. CASE ConnectFails(t)
    BY <2>2, GiveUpStep, Zenon DEF ConnectFails
  <2> QED
    BY <1>3, <2>1, <2>2, LockStep, LookupStep, RemoveStep, RecloseStep, ConnectStep, InsertStep, Zenon
       DEF RemoteFor
<1>4. ASSUME NEW t \in Callers, Use(t) \/ \E g \in Groups : CallBegin(t, g) PROVE Inv'
  <2>1. CASE Use(t)
    BY <1>2, <2>1, Zenon DEF Use, Labels
  <2>2. ASSUME NEW g \in Groups, CallBegin(t, g) PROVE Inv'
    BY <1>1, <2>2, Zenon DEF CallBegin
  <2> QED
    BY <1>4, <2>1, <2>2, Zenon
<1>5. CASE KeepaliveStep
  <2>1. ASSUME NEW l \in {"ended", "loop", "retry", "sleep"}, KeepaliveGoto(l),
               pc[Keepalive] \notin Critical \cup Busy \cup {"ended"}
        PROVE  Inv'
    BY <1>2, <2>1, Zenon DEF KeepaliveGoto, Labels
  <2>2. ASSUME NEW g \in Groups, NEW from, Call(Keepalive, g, from),
               pc[Keepalive] \notin Critical \cup Busy \cup {"ended"}
        PROVE  Inv'
    BY <1>1, <2>2, Zenon
  <2>3. CASE KeepaliveStart
    BY <2>2, <2>3, Zenon DEF KeepaliveStart
  <2>4. CASE KeepaliveRetry
    BY <2>1, <2>2, <2>4, Zenon DEF KeepaliveRetry
  <2>5. CASE KeepaliveLoop
    BY <2>1, <2>2, <2>5, Zenon DEF KeepaliveLoop
  <2>6. CASE KeepaliveGreet
    BY <2>1, <2>6, Zenon DEF KeepaliveGreet
  <2>7. CASE KeepaliveBeat
    BY <2>1, <2>2, <2>7, Zenon DEF KeepaliveBeat
  <2>8. CASE KeepalivePing \/ KeepaliveSleep
    BY <2>1, <2>8, Zenon DEF KeepalivePing, KeepaliveSleep
  <2> QED
    BY <1>5, <2>3, <2>4, <2>5, <2>6, <2>7, <2>8, Zenon DEF KeepaliveStep
<1>6. ASSUME NEW t \in Closers, CloseBegin(t) \/ CloserStep(t) PROVE Inv'
  <2>1. ASSUME NEW r \in Remotes, CloseRemote(t, r) PROVE Inv'
    <3>1. UNCHANGED <<userVars, mapVars, closed>> /\ home' = home /\ maker' = maker
      BY <2>1, Zenon DEF CloseRemote
    <3>2. /\ state' \in [Remotes -> {"up", "down", "dead"}] /\ home' \in [Remotes -> Groups]
          /\ maker' \in [Remotes -> Users \cup {NoThread}]
      BY <2>1, <3>1, Zenon DEF CloseRemote, Inv, Typed
    <3>3. \A q \in Remotes \ {r} : state'[q] = state[q]
      BY <2>1, Zenon DEF CloseRemote, Inv, Typed
    <3>4. CASE closing' = closing /\ state[r] = "up" /\ state'[r] = "down"
      BY <3>1, <3>2, <3>3, <3>4, RemoteStep, Zenon
    <3>5. CASE closing' = closing \ {r} /\ state[r] = "dead" /\ state'[r] = "dead"
      BY <3>1, <3>2, <3>3, <3>5, RemoteStep, Zenon
    <3> QED
      BY <2>1, <3>4, <3>5, Zenon DEF CloseRemote, Inv, Typed
  <2> QED
    BY <1>6, <2>1, CloseBeginStep, CloseJoinStep, CloseDrainStep, CloseReturnStep, Zenon DEF CloserStep
<1>7. ASSUME NEW t \in Readers, ReadBegin(t) \/ ReadFlag(t) \/ ReadRecv(t) PROVE Inv'
  <2>1. PICK l \in {"flag", "idle", "recv"} : pc' = [pc EXCEPT ![t] = l]
    BY <1>7, Zenon DEF ReadBegin, ReadFlag, ReadRecv, Goto
  <2>2. /\ pc' \in [Threads -> Labels] /\ pc'[t] = l
        /\ \A u \in Threads \ {t} : pc'[u] = pc[u]
    BY <2>1, Zenon DEF Inv, Typed, Labels
  <2>3. /\ pc[t] \in {"idle", "flag", "recv"}
        /\ UNCHANGED <<mapVars, remoteVars, closeVars, group, held>>
    BY <1>7, Zenon DEF ReadBegin, ReadFlag, ReadRecv
  <2>4. group' \in [Users -> Groups] /\ held' \in [Users -> Remotes \cup {NoRemote}]
    BY <2>3, Zenon DEF Inv, Typed
  <2> QED
    BY <2>2, <2>3, <2>4, QuietStep, Zenon
<1>8. ASSUME NEW r \in Remotes, RemoteBreaks(r) \/ WorkerEnds(r) PROVE Inv'
  <2>1. UNCHANGED <<userVars, mapVars, closing, closed>>
    BY <1>8, Zenon DEF RemoteBreaks, WorkerEnds, closeVars
  <2>2. /\ state' \in [Remotes -> {"up", "down", "dead"}] /\ home' \in [Remotes -> Groups]
        /\ maker' \in [Remotes -> Users \cup {NoThread}]
    BY <1>8 DEF RemoteBreaks, WorkerEnds, Inv, Typed
  <2>3. \A q \in Remotes \ {r} :
            state'[q] = state[q] /\ home'[q] = home[q] /\ maker'[q] = maker[q]
    BY <1>8 DEF RemoteBreaks, WorkerEnds, Inv, Typed
  <2>4. /\ state'[r] \in {"down", "dead"} /\ state[r] # "dead"
        /\ state'[r] # "dead" => home' = home /\ maker' = maker
    BY <1>8 DEF RemoteBreaks, WorkerEnds, Inv, Typed
  <2>5. closing' = closing
    BY <2>1, Zenon
  <2> QED
    BY <2>1, <2>2, <2>3, <2>4, <2>5, RemoteStep, Zenon
<1>9. ASSUME NEW r \in Remotes, RemoteReceives(r) PROVE Inv'
  <2>1. UNCHANGED <<userVars, mapVars, state, home, maker, closing, closed>>
    BY <1>9, Zenon DEF RemoteReceives, remoteVars, closeVars
  <2>2. /\ state' \in [Remotes -> {"up", "down", "dead"}] /\ home' \in [Remotes -> Groups]
        /\ maker' \in [Remotes -> Users \cup {NoThread}]
    BY <2>1, Zenon DEF Inv, Typed
  <2>3. closing' = closing /\ state' = state /\ home' = home /\ maker' = maker
    BY <2>1, Zenon
  <2> QED
    BY <2>1, <2>2, <2>3, RemoteStep, Zenon
<1>10. CASE UNCHANGED vars
  <2>1. UNCHANGED <<userVars, mapVars, state, home, maker, closing, closed>>
    BY <1>10, Zenon DEF vars, remoteVars, closeVars
  <2>2. Typed' /\ LockHeld' /\ OneCloser' /\ (Drained' <=> Drained)
    BY <2>1, Zenon DEF Inv, Typed, LockHeld, OneCloser, Drained, userVars, mapVars
  <2>3. MapKeyed' /\ Located'
    BY <2>1, Zenon DEF Inv, MapKeyed, Located, userVars, mapVars
  <2>4. HolderKnows'
    BY <2>1, Zenon DEF Inv, HolderKnows, userVars, mapVars
  <2>5. Late'
    BY <2>1, <2>2, Zenon DEF Inv, Late, userVars, mapVars
  <2> QED
    BY <2>2, <2>3, <2>4, <2>5, Zenon DEF Inv
<1> QED
  BY <1>3, <1>4, <1>5, <1>6, <1>7, <1>8, <1>9, <1>10, Zenon DEF Next

\* The tunnel starts with an empty map.
LEMMA InvInit == Init => Inv
<1> SUFFICES ASSUME Init PROVE Inv
  OBVIOUS
<1> USE L3TunnelAssumption DEF Init
<1>1. \A t \in Threads : pc[t] \in {"start", "idle"}
  OBVIOUS
<1>2. Typed
  BY ZenonT(30) DEF Typed, Labels
<1>3. LockHeld /\ HolderKnows
  BY <1>1, Zenon DEF LockHeld, HolderKnows
<1>4. OneCloser /\ ~Drained
  BY <1>1, Zenon DEF OneCloser, Drained
<1>5. MapKeyed /\ Located
  BY Zenon DEF MapKeyed, Located
<1> QED
  BY <1>2, <1>3, <1>4, <1>5, Zenon DEF Inv, Late

\* remote_for creates no duplicates and loses no remote: until close() is called
\* a group has one remote whose worker runs, and it can be found, for any number
\* of writers, groups and remotes.
THEOREM NoDuplicates == Spec => []MapAgrees
<1>1. Inv => MapAgrees
  <2> SUFFICES ASSUME Inv, ~close_flag PROVE MapAgrees
    BY Zenon DEF MapAgrees
  <2> USE L3TunnelAssumption
  <2>1. closing = {}
    BY Zenon DEF Inv, OneCloser
  <2>2. ASSUME NEW r \in Remotes, Alive(r), remotes[home[r]] # r
        PROVE  /\ creation \in Users /\ held[creation] = r /\ remotes[home[r]] = NoRemote
               /\ pc[creation] = "insert" \/ state[r] # "up"
    BY <2>1, <2>2 DEF Inv, Located, HolderKnows, LockHeld
  <2>3. ASSUME NEW r \in Remotes, NEW s \in Remotes, Alive(r), Alive(s), home[r] = home[s]
        PROVE  r = s
    BY <2>2, <2>3, Zenon
  <2>4. ASSUME NEW r \in Remotes, state[r] = "up"
        PROVE  \/ remotes[home[r]] = r
               \/ creation \in Users /\ pc[creation] = "insert" /\ held[creation] = r
    BY <2>2, <2>4, Zenon
  <2> QED
    BY <2>3, <2>4, Zenon DEF MapAgrees
<1> QED
  BY <1>1, InvInit, InvNext, PTL DEF Spec

\* After close() at most one remote is left, connected by a writer that had
\* found the tunnel open, however many writers there are.
THEOREM OneSurvivor == Spec => []AtMostOneSurvivor
<1>1. Inv => AtMostOneSurvivor
  <2> SUFFICES ASSUME Inv, closed PROVE AtMostOneSurvivor
    BY Zenon DEF AtMostOneSurvivor
  <2> USE L3TunnelAssumption
  <2>1. closing = {} /\ Drained /\ pc[Keepalive] = "ended"
    BY Zenon DEF Inv, OneCloser, Drained
  <2>2. ASSUME NEW r \in Remotes, Alive(r), remotes[home[r]] # r
        PROVE  /\ creation \in Callers /\ held[creation] = r
               /\ pc[creation] \in {"reclose", "insert"}
               /\ \A g \in Groups : remotes[g] = NoRemote
               /\ state[r] = "up" => maker[r] = creation
    BY <2>1, <2>2 DEF Inv, Located, HolderKnows, LockHeld, Late
  <2>3. ASSUME NEW r \in Remotes, Alive(r), remotes[home[r]] = r
        PROVE  home[r] \in Groups /\ r # NoRemote /\ maker[r] \in Callers
    BY <2>1, <2>3, Zenon DEF Inv, Late, Typed
  <2>4. \A r, s \in Remotes : Alive(r) /\ Alive(s) => r = s
    BY <2>1, <2>2, <2>3 DEF Inv, Late
  <2>5. ASSUME NEW r \in Remotes, state[r] = "up" PROVE maker[r] \in Callers
    <3>1. Alive(r)
      BY <2>5, Zenon
    <3> QED
      BY <2>2, <2>3, <2>5, <3>1, Zenon
  <2>6. Cardinality({r \in Remotes : Alive(r)}) <= 1
    <3>1. CASE \E r \in Remotes : Alive(r)
      <4>1. PICK r \in Remotes : Alive(r)
        BY <3>1, Zenon
      <4>2. {q \in Remotes : Alive(q)} = {r}
        BY <2>4, <4>1, Zenon
      <4> QED
        BY <4>2, FS_Singleton
    <3>2. CASE ~\E r \in Remotes : Alive(r)
      <4>1. {q \in Remotes : Alive(q)} = {}
        BY <3>2, Zenon
      <4> QED
        BY <4>1, FS_EmptySet
    <3> QED
      BY <3>1, <3>2, Zenon
  <2> QED
    BY <2>5, <2>6, Zenon DEF AtMostOneSurvivor
<1> QED
  BY <1>1, InvInit, InvNext, PTL DEF Spec
=============================================================================
