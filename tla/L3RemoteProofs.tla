--------------------------- MODULE L3RemoteProofs ---------------------------
(***************************************************************************)
(* What L3Remote promises of flows, tokens and waiters, for any number of  *)
(* threads, keys, flows and calls, and that it implements FlowAuth.        *)
(***************************************************************************)
EXTENDS L3Remote, TLAPS

Holding == {"insertKey", "insertId", "cached", "claim", "authFlag", "authSend", "wait", "token",
            "dataFlag", "dataSend"}
Labels == Holding \cup {"idle", "lookup", "create", "beatFlag", "beatSend", "closeSend", "lock", "join"}

\* The threads: one that is past the lookup holds a flow.
Threaded ==
    /\ pc \in [Threads -> Labels] /\ key \in [Callers -> Keys]
    /\ ct \in [Callers -> Flows \cup {NoFlow}] /\ tok \in [Callers -> Flows \cup {NoFlow}]
    /\ \A t \in Callers : pc[t] \in Holding => ct[t] \in Flows
    /\ by_key \in [Keys -> Flows \cup {NoFlow}] /\ by_id \subseteq Flows
    /\ next_auth_id \in Nat /\ next_auth_id <= MaxFlows

\* What has been asked for and granted so far allows these commands.
Allowed ==
    {cmd \in [op : {"auth", "data", "heartbeat", "close"}, flow : Flows \cup {NoFlow},
              token : Flows \cup {NoFlow}] :
        /\ cmd.op = "auth" => cmd.flow \in Flows /\ started[cmd.flow]
        /\ cmd.op = "data" => cmd.flow \in granted /\ cmd.token = Token(cmd.flow)}

Responses == {r \in [flow : Flows, grant : BOOLEAN] :
                 started[r.flow] /\ (r.grant => r.flow \in granted)}

\* The flows, the commands and the responses under way.
Typed ==
    /\ started \in [Flows -> BOOLEAN] /\ token \in [Flows -> Flows \cup {NoFlow}]
    /\ answer \in [Flows -> {"none", "granted", "denied", "failed"}]
    /\ asker \in [Flows -> Threads \cup {NoThread}] /\ creator \in [Flows -> Threads \cup {NoThread}]
    /\ granted \subseteq Flows /\ failing \subseteq Flows
    /\ queue \in Seq(Allowed) /\ wire \subseteq Allowed /\ inflight \subseteq Responses
    /\ worker \in {"run", "reading", "token", "result", "flag", "collect", "fail", "done"}
    /\ worker \in {"token", "result"} => resp \in Responses

\* A token is stored before its result is, and belongs to its own flow.
TokenFirst ==
    /\ \A f \in Flows : token[f] # NoFlow => token[f] = f /\ f \in granted
    /\ \A f \in Flows : answer[f] = "granted" => token[f] = f
    /\ worker = "result" /\ resp.grant => token[resp.flow] = resp.flow
    /\ \A t \in Callers : pc[t] = "token" => token[ct[t]] = ct[t]
    /\ \A t \in Callers : pc[t] \in {"dataFlag", "dataSend"} => ct[t] \in granted /\ tok[t] = ct[t]

AuthAt(i, f) == queue[i].op = "auth" /\ queue[i].flow = f

\* A request for a flow is with the thread that claimed it, or once in the
\* queue, or was sent.
OneRequest ==
    /\ asked \in [Flows -> {0, 1}]
    /\ \A f \in Flows : ~started[f] => asked[f] = 0
    /\ \A f \in Flows : \A i \in 1..Len(queue) : AuthAt(i, f) =>
          asked[f] = 0 /\ \A j \in 1..Len(queue) : AuthAt(j, f) => i = j
    /\ \A t \in Callers : pc[t] \in {"authFlag", "authSend"} =>
          /\ started[ct[t]] /\ asker[ct[t]] = t /\ asked[ct[t]] = 0
          /\ \A i \in 1..Len(queue) : ~AuthAt(i, ct[t])

\* Whoever created a flow registers it before claiming it.
Registered ==
    /\ \A f \in Flows : f > next_auth_id => asker[f] = NoThread /\ creator[f] = NoThread
    /\ \A t \in Callers : pc[t] \in Holding => ct[t] <= next_auth_id
    /\ \A k \in Keys : by_key[k] <= next_auth_id
    /\ \A f \in Flows : \A t \in Callers : creator[f] = t =>
          f \in by_id \/ (pc[t] \in {"insertKey", "insertId"} /\ ct[t] = f)
    /\ \A t \in Callers : pc[t] \in {"insertKey", "insertId"} => asker[ct[t]] # t

\* A thread on its way to wait for flow f, or that may still find it.
Nearing(t, f) == pc[t] = "lookup" \/ (pc[t] \in {"cached", "claim", "authSend", "wait"} /\ ct[t] = f)

\* fail_pending runs when close_flag is set: a flow it did not see is not waited
\* for by the thread that created and claimed it.
Released ==
    /\ close_flag \in BOOLEAN
    /\ worker \in {"collect", "fail", "done"} => close_flag
    /\ worker = "done" => failing = {}
    /\ worker \in {"fail", "done"} =>
          \A f \in Flows : \A t \in Callers :
              creator[f] = t /\ asker[f] = t /\ Nearing(t, f) => f \in failing \/ answer[f] # "none"

\* A flow fails only when the remote has stopped to read responses.
FailedLast == \A f \in Flows : answer[f] = "failed" => worker \in {"fail", "done"}

\* No call has failed for want of a token.
Returned == {"none", "granted", "denied", "failed", "timeout", "closed", "sent", "done"}
Results == result \in [Threads -> Returned]

RemoteInv == Threaded /\ Typed /\ TokenFirst /\ OneRequest /\ Registered /\ Released /\ FailedLast /\ Results
-----------------------------------------------------------------------------
(* What a step of a caller does, in the terms of the invariant.  Each of   *)
(* its actions is taken apart here, once.                                  *)

\* The steps of a thread that calls write_packet() or send_heartbeat().
CallerAny(t) == HeartbeatBegin(t) \/ CallerStep(t) \/ \E k \in Keys : PacketBegin(t, k)

\* A call that goes on keeps what it holds; one that ends drops it.
Keeps(t) == ct'[t] = ct[t] /\ tok'[t] = tok[t]
Drops(t) == pc'[t] = "idle" /\ ct'[t] = NoFlow /\ tok'[t] = NoFlow

\* A step of t is no step of another thread, nor one of the worker or the node.
Own(t) ==
    /\ pc' \in [Threads -> Labels] /\ key' \in [Callers -> Keys]
    /\ ct' \in [Callers -> Flows \cup {NoFlow}] /\ tok' \in [Callers -> Flows \cup {NoFlow}]
    /\ \A u \in Callers \ {t} : pc'[u] = pc[u] /\ ct'[u] = ct[u] /\ tok'[u] = tok[u]
    /\ result' = result \/ \E r \in Returned : result' = [result EXCEPT ![t] = r]
Apart ==
    UNCHANGED <<token, answer, granted, inflight, worker, resp, failing, close_flag, wire, asked>>

\* Steps that change nothing but where their thread is and what it holds.
Moves(t) ==
    /\ pc[t] \notin {"create", "insertKey", "insertId"}
    /\ UNCHANGED <<queue, started, asker, creator, by_key, by_id, next_auth_id>>
    /\ \/ Drops(t)
       \/ pc[t] = "idle" /\ ~close_flag /\ pc'[t] \in {"lookup", "beatFlag"} /\ Keeps(t)
       \/ pc[t] = "lookup" /\ pc'[t] = "create" /\ Keeps(t)
       \/ pc[t] = "lookup" /\ pc'[t] = "cached" /\ ct'[t] \in {by_key[k] : k \in Keys} \cap Flows
       \/ pc[t] = "cached" /\ pc'[t] = "claim" /\ Keeps(t)
       \/ pc[t] = "claim" /\ pc'[t] = "wait" /\ Keeps(t)
       \/ pc[t] = "authFlag" /\ pc'[t] = "authSend" /\ ~close_flag /\ Keeps(t)
       \/ pc[t] \in {"cached", "wait"} /\ pc'[t] = "token" /\ answer[ct[t]] = "granted" /\ Keeps(t)
       \/ pc[t] = "token" /\ pc'[t] = "dataFlag" /\ ct'[t] = ct[t] /\ tok'[t] = token[ct[t]]
       \/ pc[t] = "dataFlag" /\ pc'[t] = "dataSend" /\ Keeps(t)
       \/ pc[t] = "beatFlag" /\ pc'[t] = "beatSend" /\ Keeps(t)

\* The steps that change a flow, the map of the flows, or the queue.
Creates(t) ==
    /\ pc[t] = "create" /\ pc'[t] = "insertKey" /\ ct'[t] = next_auth_id + 1 /\ ct'[t] \in Flows
    /\ next_auth_id' = next_auth_id + 1 /\ creator' = [creator EXCEPT ![next_auth_id + 1] = t]
    /\ UNCHANGED <<queue, started, asker, by_key, by_id>>
Inserts(t) ==
    /\ Keeps(t) /\ UNCHANGED <<queue, started, asker, creator, next_auth_id>>
    /\ \/ /\ pc[t] = "insertKey" /\ pc'[t] = "insertId"
          /\ by_key' = [by_key EXCEPT ![key[t]] = ct[t]] /\ by_id' = by_id
       \/ /\ pc[t] = "insertId" /\ pc'[t] = "cached"
          /\ by_id' = by_id \cup {ct[t]} /\ by_key' = by_key
Wins(t) ==
    /\ pc[t] = "claim" /\ pc'[t] = "authFlag" /\ ~started[ct[t]] /\ Keeps(t)
    /\ started' = [started EXCEPT ![ct[t]] = TRUE] /\ asker' = [asker EXCEPT ![ct[t]] = t]
    /\ UNCHANGED <<queue, creator, by_key, by_id, next_auth_id>>
Asks(t) ==
    /\ pc[t] = "authSend" /\ pc'[t] = "wait" /\ Keeps(t) /\ queue' = Append(queue, Auth(ct[t]))
    /\ UNCHANGED <<started, asker, creator, by_key, by_id, next_auth_id>>
Sends(t) ==
    /\ Drops(t)
    /\ \/ pc[t] = "beatSend" /\ queue' = Append(queue, Heartbeat)
       \/ pc[t] = "dataSend" /\ queue' = Append(queue, Data(ct[t], tok[t]))
    /\ UNCHANGED <<started, asker, creator, by_key, by_id, next_auth_id>>

\* A caller's step is one of these.
LEMMA CallerMoves ==
    ASSUME Threaded, Typed, TokenFirst, NEW t \in Callers, CallerAny(t)
    PROVE  /\ Own(t) /\ Apart
           /\ Moves(t) \/ Creates(t) \/ Inserts(t) \/ Wins(t) \/ Asks(t) \/ Sends(t)
<1>1. t \in Threads /\ AnyKey \in Keys
  BY L3RemoteAssumption, Zenon DEF Threads, AnyKey
<1>2. ASSUME NEW r \in Returned, Leave(t, r) PROVE Drops(t) /\ Own(t)
  BY <1>1, <1>2, Zenon DEF Leave, Return, Drops, Own, Threaded, Threads, Labels
<1>3. ASSUME NEW l \in Labels, Goto(t, l), UNCHANGED <<key, ct, tok>> PROVE pc'[t] = l /\ Keeps(t) /\ Own(t)
  BY <1>1, <1>3, Zenon DEF Goto, Keeps, Own, Threaded, Threads
<1>4. pc[t] \in Holding => ct[t] \in Flows /\ answer[ct[t]] \in {"none", "granted", "denied", "failed"}
  BY Zenon DEF Threaded, Typed
<1> DEFINE Alike == Apart /\ UNCHANGED <<queue, started, asker, creator, by_key, by_id, next_auth_id>>
<1>5. ASSUME UNCHANGED <<mgrVars, flowVars, closeVars, workerVars, nodeVars, queue, sentVars>> PROVE Alike
  BY <1>5, Zenon DEF Apart, mgrVars, flowVars, closeVars, workerVars, nodeVars, sentVars
<1>6. CASE HeartbeatBegin(t) \/ \E k \in Keys : PacketBegin(t, k)
  <2>1. Alike
    BY <1>5, <1>6, Zenon DEF HeartbeatBegin, PacketBegin
  <2>2. Own(t) /\ Keeps(t) /\ pc[t] = "idle" /\ ~close_flag /\ pc'[t] \in {"lookup", "beatFlag"}
    BY <1>1, <1>6 DEF HeartbeatBegin, PacketBegin, Own, Keeps, Threaded, Threads, Labels, Returned
  <2> QED
    BY <2>1, <2>2, Zenon DEF Moves
<1>7. CASE Lookup(t)
  <2>1. Alike /\ pc[t] = "lookup"
    BY <1>5, <1>7, Zenon DEF Lookup
  <2>2. CASE Goto(t, "create") /\ UNCHANGED ct
    BY <1>3, <1>7, <2>1, <2>2, Zenon DEF Lookup, Moves, Labels
  <2>3. CASE by_key[key[t]] # NoFlow /\ ct' = [ct EXCEPT ![t] = by_key[key[t]]] /\ Goto(t, "cached")
    <3>1. key[t] \in Keys /\ by_key[key[t]] \in Flows
      BY <2>3, Zenon DEF Threaded
    <3>2. Own(t) /\ pc'[t] = "cached" /\ ct'[t] = by_key[key[t]]
      BY <1>1, <1>7, <2>3, <3>1, Zenon DEF Lookup, Goto, Own, Threaded, Threads, Labels, Holding
    <3> QED
      BY <2>1, <3>1, <3>2, Zenon DEF Moves
  <2> QED
    BY <1>7, <2>2, <2>3, Zenon DEF Lookup
<1>8. CASE Create(t)
  <2>1. Apart
    BY <1>8, Zenon DEF Create, Apart, flowVars, closeVars, workerVars, nodeVars, sentVars
  <2>2. next_auth_id + 1 \in Flows
    BY <1>8, L3RemoteAssumption DEF Create, Threaded, Flows
  <2>3. Own(t)
    BY <1>1, <1>8, <2>2, Zenon DEF Create, Goto, Own, Threaded, Threads, Labels, Holding
  <2>4. Creates(t)
    BY <1>1, <1>8, <2>2, Zenon DEF Create, Goto, Creates, Threaded, flowVars
  <2> QED
    BY <2>1, <2>3, <2>4, Zenon
<1>9. CASE InsertKey(t) \/ InsertId(t)
  <2>1. Apart /\ UNCHANGED <<key, ct, tok, queue, started, asker, creator, next_auth_id>>
    BY <1>9, Zenon DEF InsertKey, InsertId, Apart, callVars, flowVars, closeVars, workerVars, nodeVars, sentVars
  <2> QED
    BY <1>3, <1>9, <2>1, Zenon DEF InsertKey, InsertId, Inserts, Labels, Holding
<1>10. CASE Cached(t) \/ Wake(t) \/ Timeout(t)
  <2>1. Alike
    BY <1>5, <1>10, Zenon DEF Cached, Wake, Timeout
  <2>2. pc[t] \in Holding
    BY <1>10, Zenon DEF Cached, Wake, Timeout, Holding
  <2> QED
    BY <1>2, <1>3, <1>4, <1>10, <2>1, <2>2, Zenon DEF Cached, Wake, Timeout, Moves, Returned, Labels, Holding
<1>11. CASE Claim(t)
  <2>1. Apart /\ UNCHANGED <<key, ct, tok, queue, creator, by_key, by_id, next_auth_id>>
    BY <1>11, Zenon DEF Claim, Apart, callVars, mgrVars, closeVars, workerVars, nodeVars, sentVars
  <2> QED
    BY <1>3, <1>11, <2>1, Zenon DEF Claim, Wins, Moves, Labels, Holding
<1>12. ASSUME NEW h, NEW l \in Labels, Flag(t, h, l)
       PROVE  /\ Alike /\ Own(t) /\ pc[t] = h
              /\ Drops(t) \/ (~close_flag /\ pc'[t] = l /\ Keeps(t))
  BY <1>2, <1>3, <1>5, <1>12, Zenon DEF Flag, Returned
<1>13. CASE AuthFlag(t) \/ DataFlag(t) \/ BeatFlag(t)
  BY <1>12, <1>13 DEF AuthFlag, DataFlag, BeatFlag, Moves, Labels, Holding
<1>14. ASSUME NEW h, NEW l \in Labels, NEW cmd, Send(t, h, cmd, l)
       PROVE  /\ Apart /\ UNCHANGED <<started, asker, creator, by_key, by_id, next_auth_id>>
              /\ Own(t) /\ pc[t] = h
              /\ \/ queue' = queue /\ Drops(t)
                 \/ /\ queue' = Append(queue, cmd)
                    /\ l = "idle" => Drops(t)
                    /\ l # "idle" => pc'[t] = l /\ Keeps(t)
  <2>1. Apart /\ UNCHANGED <<started, asker, creator, by_key, by_id, next_auth_id>>
    BY <1>14, Zenon DEF Send, Apart, mgrVars, flowVars, closeVars, workerVars, nodeVars, sentVars
  <2> QED
    BY <1>2, <1>3, <1>14, <2>1, Zenon DEF Send, Returned
<1>15. CASE AuthSend(t)
  <2>1. Send(t, "authSend", Auth(ct[t]), "wait") /\ "wait" \in Labels /\ "wait" # "idle"
    BY <1>15, Zenon DEF AuthSend, Labels, Holding
  <2>2. /\ Own(t) /\ Apart /\ UNCHANGED <<started, asker, creator, by_key, by_id, next_auth_id>>
        /\ pc[t] = "authSend"
        /\ \/ queue' = queue /\ Drops(t)
           \/ queue' = Append(queue, Auth(ct[t])) /\ pc'[t] = "wait" /\ Keeps(t)
    BY <1>14, <2>1, Zenon
  <2> QED
    BY <2>2, Zenon DEF Moves, Asks
<1>16. CASE DataSend(t) \/ BeatSend(t)
  <2>1. PICK cmd : \/ cmd = Heartbeat /\ Send(t, "beatSend", cmd, "idle")
                   \/ cmd = Data(ct[t], tok[t]) /\ Send(t, "dataSend", cmd, "idle")
    BY <1>16, Zenon DEF DataSend, BeatSend
  <2>2. "idle" \in Labels
    BY Zenon DEF Labels
  <2>3. /\ Own(t) /\ Apart /\ UNCHANGED <<started, asker, creator, by_key, by_id, next_auth_id>>
        /\ Drops(t) /\ (queue' = queue \/ queue' = Append(queue, cmd))
        /\ (pc[t] = "beatSend" /\ cmd = Heartbeat) \/ (pc[t] = "dataSend" /\ cmd = Data(ct[t], tok[t]))
    BY <1>14, <2>1, <2>2, Zenon
  <2> QED
    BY <2>3, Zenon DEF Moves, Sends
<1>17. CASE ReadToken(t)
  <2>1. Alike /\ pc[t] = "token" /\ ct[t] \in Flows /\ token[ct[t]] \in Flows
    BY <1>4, <1>5, <1>17, Zenon DEF ReadToken, TokenFirst, Holding
  <2>2. tok' = [tok EXCEPT ![t] = token[ct[t]]] /\ Goto(t, "dataFlag") /\ UNCHANGED <<key, ct>>
    BY <1>17, <2>1 DEF ReadToken, NoFlow, Flows
  <2>3. Own(t) /\ pc'[t] = "dataFlag" /\ ct'[t] = ct[t] /\ tok'[t] = token[ct[t]]
    BY <1>1, <2>1, <2>2, Zenon DEF Goto, Own, Threaded, Threads, Labels, Holding
  <2> QED
    BY <2>1, <2>3, Zenon DEF Moves
<1> QED
  BY <1>6, <1>7, <1>8, <1>9, <1>10, <1>11, <1>13, <1>15, <1>16, <1>17, Zenon DEF CallerAny, CallerStep
-----------------------------------------------------------------------------
(* The callers keep the invariant.                                         *)

\* A thread takes a token only when it is told "granted", and keeps it with its flow.
LEMMA CallerTokens ==
    ASSUME RemoteInv, NEW t \in Callers, CallerAny(t)
    PROVE  Threaded' /\ TokenFirst' /\ FailedLast' /\ Results'
<1>1. /\ Own(t) /\ Apart
      /\ Moves(t) \/ Creates(t) \/ Inserts(t) \/ Wins(t) \/ Asks(t) \/ Sends(t)
  BY CallerMoves, Zenon DEF RemoteInv
<1>2. Threaded /\ TokenFirst /\ FailedLast /\ Results /\ t \in Threads
  BY Zenon DEF RemoteInv, Threads
<1>3. pc'[t] \in Holding => ct'[t] \in Flows
  BY <1>1, <1>2, Zenon DEF Moves, Creates, Inserts, Wins, Asks, Sends, Drops, Keeps, Threaded, Holding
<1>4. /\ by_key' \in [Keys -> Flows \cup {NoFlow}] /\ by_id' \subseteq Flows
      /\ next_auth_id' \in Nat /\ next_auth_id' <= MaxFlows
  <2>1. CASE Moves(t) \/ Wins(t) \/ Asks(t) \/ Sends(t)
    BY <1>2, <2>1, Zenon DEF Moves, Wins, Asks, Sends, Threaded
  <2>2. CASE Creates(t)
    BY <1>2, <2>2, L3RemoteAssumption DEF Creates, Threaded, Flows
  <2>3. CASE Inserts(t)
    BY <1>2, <2>3, Zenon DEF Inserts, Threaded, Holding
  <2> QED
    BY <1>1, <2>1, <2>2, <2>3, Zenon
<1>5. Threaded'
  BY <1>1, <1>2, <1>3, <1>4, Zenon DEF Own, Threaded
<1>6. /\ pc'[t] = "token" => token[ct'[t]] = ct'[t]
      /\ pc'[t] \in {"dataFlag", "dataSend"} => ct'[t] \in granted /\ tok'[t] = ct'[t]
  <2>1. CASE Moves(t)
    <3>1. pc[t] \in Holding => ct[t] \in Flows
      BY <1>2, Zenon DEF Threaded
    <3>2. pc[t] = "token" => token[ct[t]] = ct[t] /\ ct[t] \in granted
      BY <1>2, <3>1 DEF TokenFirst, NoFlow, Flows, Holding
    <3> QED
      BY <1>2, <2>1, <3>1, <3>2, Zenon DEF Moves, Drops, Keeps, TokenFirst, Holding
  <2>2. CASE Creates(t) \/ Inserts(t) \/ Wins(t) \/ Asks(t) \/ Sends(t)
    BY <2>2, Zenon DEF Creates, Inserts, Wins, Asks, Sends, Drops
  <2> QED
    BY <1>1, <2>1, <2>2, Zenon
<1>7. TokenFirst' /\ FailedLast'
  BY <1>1, <1>2, <1>6, Zenon DEF Own, Apart, TokenFirst, FailedLast
<1>8. Results'
  BY <1>1, <1>2, Zenon DEF Own, Results
<1> QED
  BY <1>5, <1>7, <1>8, Zenon

\* What was asked for and granted stays so, and so does what it allows.
LEMMA AllowedGrows ==
    ASSUME Typed, \A f \in Flows : started[f] => started'[f], granted \subseteq granted'
    PROVE  Allowed \subseteq Allowed' /\ Responses \subseteq Responses'
BY Zenon DEF Typed, Allowed, Responses

\* A command that a caller sends is one that is allowed.
LEMMA CallerTyped ==
    ASSUME RemoteInv, NEW t \in Callers, CallerAny(t)
    PROVE  Typed'
<1>1. /\ Apart
      /\ Moves(t) \/ Creates(t) \/ Inserts(t) \/ Wins(t) \/ Asks(t) \/ Sends(t)
  BY CallerMoves, Zenon DEF RemoteInv
<1>2. Threaded /\ Typed /\ TokenFirst /\ OneRequest /\ t \in Threads
  BY Zenon DEF RemoteInv, Threads
<1>3. /\ started' \in [Flows -> BOOLEAN] /\ \A f \in Flows : started[f] => started'[f]
      /\ asker' \in [Flows -> Threads \cup {NoThread}] /\ creator' \in [Flows -> Threads \cup {NoThread}]
  <2>1. CASE UNCHANGED <<started, asker, creator>>
    BY <1>2, <2>1, Zenon DEF Typed
  <2>2. CASE Creates(t)
    BY <1>2, <2>2, Zenon DEF Creates, Typed
  <2>3. CASE Wins(t)
    <3>1. /\ started' = [started EXCEPT ![ct[t]] = TRUE] /\ started \in [Flows -> BOOLEAN]
          /\ asker' = [asker EXCEPT ![ct[t]] = t] /\ creator' = creator
      BY <1>2, <2>3, Zenon DEF Wins, Typed
    <3>2. started' \in [Flows -> BOOLEAN] /\ \A f \in Flows : started[f] => started'[f]
      BY <3>1, Zenon
    <3> QED
      BY <1>2, <3>1, <3>2, Zenon DEF Typed
  <2> QED
    BY <1>1, <2>1, <2>2, <2>3, Zenon DEF Moves, Inserts, Asks, Sends
<1>4. Allowed \subseteq Allowed' /\ Responses \subseteq Responses'
  BY <1>1, <1>2, <1>3, AllowedGrows, Zenon DEF Apart
<1>5. queue' = queue \/ \E cmd \in Allowed : queue' = Append(queue, cmd)
  <2>1. CASE Moves(t) \/ Creates(t) \/ Inserts(t) \/ Wins(t)
    BY <2>1, Zenon DEF Moves, Creates, Inserts, Wins
  <2>2. CASE Asks(t)
    <3>1. ct[t] \in Flows /\ started[ct[t]]
      BY <1>2, <2>2, Zenon DEF Asks, Threaded, OneRequest, Holding
    <3> QED
      BY <2>2, <3>1, Zenon DEF Asks, Auth, Allowed
  <2>3. CASE Sends(t)
    <3>1. Heartbeat \in Allowed
      BY Zenon DEF Heartbeat, Allowed
    <3>2. pc[t] = "dataSend" => ct[t] \in Flows /\ ct[t] \in granted /\ tok[t] = ct[t]
      BY <1>2, Zenon DEF Threaded, TokenFirst, Holding
    <3>3. pc[t] = "dataSend" => Data(ct[t], tok[t]) \in Allowed
      BY <3>2, Zenon DEF Data, Allowed, Token
    <3> QED
      BY <2>3, <3>1, <3>3, Zenon DEF Sends
  <2> QED
    BY <1>1, <2>1, <2>2, <2>3, Zenon
<1>6. queue' \in Seq(Allowed')
  <2>1. queue' \in Seq(Allowed)
    BY <1>2, <1>5 DEF Typed
  <2> QED
    BY <1>4, <2>1
<1> QED
  BY <1>1, <1>2, <1>3, <1>4, <1>6, Zenon DEF Typed, Apart

\* A command that is no request adds none to the queue.
LEMMA NoNewRequest ==
    ASSUME Typed, queue' = queue \/ \E cmd : cmd.op # "auth" /\ queue' = Append(queue, cmd)
    PROVE  \A i \in 1..Len(queue)' : \A f : AuthAt(i, f)' => i \in 1..Len(queue) /\ AuthAt(i, f)
<1>1. queue \in Seq(Allowed)
  BY Zenon DEF Typed
<1> QED
  BY <1>1 DEF AuthAt

\* The thread that wins the compare_exchange sends the request, once.
LEMMA CallerRequests ==
    ASSUME RemoteInv, NEW t \in Callers, CallerAny(t)
    PROVE  OneRequest'
<1>1. /\ asked' = asked /\ \A u \in Callers \ {t} : pc'[u] = pc[u] /\ ct'[u] = ct[u]
      /\ Moves(t) \/ Creates(t) \/ Inserts(t) \/ Wins(t) \/ Asks(t) \/ Sends(t)
  BY CallerMoves, Zenon DEF RemoteInv, Own, Apart
<1>2. Threaded /\ Typed /\ OneRequest
  BY Zenon DEF RemoteInv
<1>3. \A u \in Callers : pc[u] \in {"claim", "authFlag", "authSend"} => ct[u] \in Flows
  BY <1>2, Zenon DEF Threaded, Holding
<1>4. CASE Moves(t) \/ Creates(t) \/ Inserts(t) \/ Sends(t)
  <2>1. /\ UNCHANGED <<started, asker>>
        /\ pc'[t] \in {"authFlag", "authSend"} => pc[t] = "authFlag" /\ ct'[t] = ct[t]
    BY <1>4, Zenon DEF Moves, Creates, Inserts, Sends, Drops, Keeps
  <2>2. queue' = queue \/ \E cmd : cmd.op # "auth" /\ queue' = Append(queue, cmd)
    BY <1>4, Zenon DEF Moves, Creates, Inserts, Sends, Heartbeat, Data
  <2>3. \A i \in 1..Len(queue)' : \A f : AuthAt(i, f)' => i \in 1..Len(queue) /\ AuthAt(i, f)
    BY <1>2, <2>2, NoNewRequest, Zenon
  <2> QED
    BY <1>1, <1>2, <2>1, <2>3 DEF OneRequest
<1>5. CASE Wins(t)
  <2>1. /\ ~started[ct[t]] /\ ct[t] \in Flows /\ ct'[t] = ct[t] /\ queue' = queue
        /\ started'[ct[t]] /\ asker'[ct[t]] = t
        /\ \A f \in Flows \ {ct[t]} : started'[f] = started[f] /\ asker'[f] = asker[f]
    BY <1>2, <1>3, <1>5, Zenon DEF Wins, Keeps, Typed
  <2>2. asked[ct[t]] = 0 /\ \A i \in 1..Len(queue) : ~AuthAt(i, ct[t])
    BY <1>2, <2>1 DEF OneRequest, Typed, Allowed, AuthAt
  <2>3. \A u \in Callers : pc[u] \in {"authFlag", "authSend"} => ct[u] # ct[t]
    BY <1>2, <2>1, Zenon DEF OneRequest
  <2>4. \A i, f : AuthAt(i, f)' <=> AuthAt(i, f)
    BY <2>1, Zenon DEF AuthAt
  <2> QED
    BY <1>1, <1>2, <1>3, <2>1, <2>2, <2>3, <2>4 DEF OneRequest
<1>6. CASE Asks(t)
  <2>1. /\ queue' = Append(queue, Auth(ct[t])) /\ UNCHANGED <<started, asker>>
        /\ pc[t] = "authSend" /\ pc'[t] = "wait"
    BY <1>6, Zenon DEF Asks
  <2>2. /\ Len(queue)' = Len(queue) + 1 /\ Len(queue) \in Nat
        /\ \A i \in 1..Len(queue)' : \A f : AuthAt(i, f)' =>
              \/ i = Len(queue) + 1 /\ f = ct[t]
              \/ i \in 1..Len(queue) /\ AuthAt(i, f)
    BY <1>2, <2>1 DEF Typed, AuthAt, Auth
  <2>3. \A u \in Callers \ {t} : pc[u] \in {"authFlag", "authSend"} => ct[u] # ct[t]
    BY <1>2, <2>1 DEF OneRequest
  <2>4. asked[ct[t]] = 0 /\ \A i \in 1..Len(queue) : ~AuthAt(i, ct[t])
    BY <1>2, <2>1, Zenon DEF OneRequest
  <2>5. \A f \in Flows : \A i \in 1..Len(queue)' : AuthAt(i, f)' =>
           asked[f] = 0 /\ \A j \in 1..Len(queue)' : AuthAt(j, f)' => i = j
    BY <1>2, <2>2, <2>4 DEF OneRequest
  <2>6. \A u \in Callers : pc'[u] \in {"authFlag", "authSend"} => \A i \in 1..Len(queue)' : ~AuthAt(i, ct[u])'
    BY <1>1, <1>2, <2>1, <2>2, <2>3 DEF OneRequest
  <2> QED
    BY <1>1, <1>2, <2>1, <2>5, <2>6 DEF OneRequest
<1> QED
  BY <1>1, <1>4, <1>5, <1>6, Zenon

\* A flow is registered by the thread that created it, and with close_flag set
\* no thread starts on the way to a wait.
LEMMA CallerReleased ==
    ASSUME RemoteInv, NEW t \in Callers, CallerAny(t)
    PROVE  Registered' /\ Released'
<1>1. /\ UNCHANGED <<worker, failing, answer, close_flag>>
      /\ \A u \in Callers \ {t} : pc'[u] = pc[u] /\ ct'[u] = ct[u]
      /\ Moves(t) \/ Creates(t) \/ Inserts(t) \/ Wins(t) \/ Asks(t) \/ Sends(t)
  BY CallerMoves, Zenon DEF RemoteInv, Own, Apart
<1>2. Threaded /\ Typed /\ Registered /\ Released
  BY Zenon DEF RemoteInv
<1>3. /\ next_auth_id \in Nat /\ \A f \in Flows : f \in Nat
      /\ \A k \in Keys : by_key[k] \in Nat /\ by_key[k] <= next_auth_id
      /\ pc[t] \in Holding => ct[t] \in Flows /\ ct[t] <= next_auth_id /\ ~(ct[t] > next_auth_id)
      /\ pc[t] \in {"insertKey", "insertId"} => asker[ct[t]] # t
  BY <1>2 DEF Threaded, Registered, Flows, NoFlow
<1>4. CASE Creates(t)
  <2> DEFINE n == next_auth_id + 1
  <2>1. /\ n \in Flows /\ next_auth_id' = n /\ ct'[t] = n /\ pc'[t] = "insertKey" /\ pc[t] = "create"
        /\ creator'[n] = t /\ (\A f \in Flows \ {n} : creator'[f] = creator[f])
        /\ UNCHANGED <<by_key, by_id, asker>>
    BY <1>2, <1>4, Zenon DEF Creates, Typed
  <2>2. asker[n] # t
    BY <1>2, <1>3, <2>1, L3RemoteAssumption DEF Registered, Threads
  <2>3. \A u \in Callers \ {t} : pc[u] \in Holding => ct[u] <= n
    BY <1>2, <1>3 DEF Registered, Threaded, Flows
  <2>4. /\ \A f \in Flows : f > n => asker[f] = NoThread /\ creator'[f] = NoThread
        /\ \A k \in Keys : by_key[k] <= n
    BY <1>2, <1>3, <2>1 DEF Registered
  <2>5. n <= n
    BY <1>3
  <2> HIDE DEF n
  <2>6. Registered'
    BY <1>1, <1>2, <2>1, <2>2, <2>3, <2>4, <2>5 DEF Registered
  <2>7. \A f \in Flows, u \in Callers :
           creator'[f] = u /\ asker'[f] = u /\ Nearing(u, f)' => creator[f] = u /\ asker[f] = u /\ Nearing(u, f)
    BY <1>1, <2>1, <2>2 DEF Nearing
  <2> QED
    BY <1>1, <1>2, <2>6, <2>7, Zenon DEF Released
<1>5. CASE Inserts(t)
  <2>1. /\ UNCHANGED <<asker, creator, next_auth_id>> /\ ct'[t] = ct[t] /\ by_id \subseteq by_id'
        /\ \/ pc[t] = "insertKey" /\ pc'[t] = "insertId"
           \/ pc[t] = "insertId" /\ pc'[t] = "cached" /\ ct[t] \in by_id'
        /\ \A k \in Keys : by_key'[k] = by_key[k] \/ by_key'[k] = ct[t]
    BY <1>2, <1>5, Zenon DEF Inserts, Keeps, Threaded
  <2>2. pc[t] \in Holding /\ (pc'[t] = "cached" => ~(pc'[t] \in {"insertKey", "insertId"}))
    BY <2>1, Zenon DEF Holding
  <2>3. Registered'
    BY <1>1, <1>2, <1>3, <2>1, <2>2 DEF Registered
  <2>4. \A f \in Flows, u \in Callers : asker[f] = u /\ Nearing(u, f)' => Nearing(u, f)
    BY <1>1, <1>3, <2>1, Zenon DEF Nearing
  <2> QED
    BY <1>1, <1>2, <2>1, <2>3, <2>4, Zenon DEF Released
<1>6. CASE Wins(t)
  <2>1. /\ pc[t] = "claim" /\ pc'[t] = "authFlag" /\ ct'[t] = ct[t]
        /\ UNCHANGED <<creator, by_key, by_id, next_auth_id>>
        /\ \A f \in Flows : asker'[f] = asker[f] \/ (f = ct[t] /\ asker'[f] = t)
    BY <1>2, <1>6, Zenon DEF Wins, Keeps, Typed
  <2>2. pc[t] \in Holding /\ \A u \in Callers : pc[u] \in {"insertKey", "insertId"} => ct[u] \in Flows
    BY <1>2, <2>1, Zenon DEF Threaded, Holding
  <2>3. Registered'
    BY <1>1, <1>2, <1>3, <2>1, <2>2 DEF Registered
  <2>4. \A f \in Flows, u \in Callers : asker'[f] = u /\ Nearing(u, f)' => asker[f] = u /\ Nearing(u, f)
    BY <1>1, <2>1, Zenon DEF Nearing
  <2> QED
    BY <1>1, <1>2, <2>1, <2>3, <2>4, Zenon DEF Released
<1>7. CASE Moves(t) \/ Asks(t) \/ Sends(t)
  <2>1. /\ UNCHANGED <<asker, creator, by_key, by_id, next_auth_id>>
        /\ pc[t] \notin {"insertKey", "insertId"} /\ pc'[t] \notin {"insertKey", "insertId"}
        /\ pc'[t] \in Holding => (ct'[t] = ct[t] /\ pc[t] \in Holding) \/ ct'[t] \in {by_key[k] : k \in Keys}
    BY <1>7, Zenon DEF Moves, Asks, Sends, Drops, Keeps, Holding
  <2>2. pc'[t] \in Holding => ct'[t] <= next_auth_id
    BY <1>3, <2>1, Zenon
  <2>3. Registered'
    BY <1>1, <1>2, <2>1, <2>2, Zenon DEF Registered
  <2>4. close_flag => \A f \in Flows, u \in Callers : Nearing(u, f)' => Nearing(u, f)
    <3>1. close_flag => \A f : Nearing(t, f)' => Nearing(t, f)
      <4>1. CASE Moves(t)
        BY <4>1, Zenon DEF Moves, Drops, Keeps, Nearing
      <4>2. CASE Asks(t) \/ Sends(t)
        BY <4>2, Zenon DEF Asks, Sends, Drops, Keeps, Nearing
      <4> QED
        BY <1>7, <4>1, <4>2, Zenon
    <3>2. \A f : \A u \in Callers \ {t} : Nearing(u, f)' => Nearing(u, f)
      BY <1>1, Zenon DEF Nearing
    <3> QED
      BY <3>1, <3>2, Zenon
  <2> QED
    BY <1>1, <1>2, <2>1, <2>3, <2>4, Zenon DEF Released
<1> QED
  BY <1>1, <1>4, <1>5, <1>6, <1>7, Zenon
-----------------------------------------------------------------------------
(* Closers, the worker and the node keep it.                               *)

Others ==
    \/ \E t \in Closers : CloseBegin(t) \/ CloserStep(t)
    \/ WorkerStep \/ ReadStep \/ Break
    \/ \E f \in Flows, grant \in BOOLEAN : NodeAnswer(f, grant)

\* They leave the callers where they are, and the flows registered and claimed.
LEMMA OthersFrame ==
    ASSUME RemoteInv, Others
    PROVE  /\ Threaded' /\ Registered' /\ Results' /\ UNCHANGED <<ct, tok, by_id, creator, started, asker>>
           /\ \A t \in Callers : pc'[t] = pc[t]
           /\ close_flag' = close_flag \/ close_flag' = TRUE
<1>1. Threaded /\ Registered /\ Results
  BY Zenon DEF RemoteInv
<1>2. ASSUME NEW t \in Closers, CloseBegin(t) \/ CloserStep(t)
      PROVE  /\ pc' \in [Threads -> Labels] /\ Results' /\ UNCHANGED <<callVars, mgrVars, flowVars>>
             /\ \A u \in Callers : pc'[u] = pc[u]
  <2>1. UNCHANGED <<callVars, mgrVars, flowVars>>
    BY <1>2, Zenon DEF CloseBegin, CloserStep, CloseSend, CloseLock, CloseJoin
  <2>2. \E l \in Labels : pc' = [pc EXCEPT ![t] = l]
    BY <1>2, Zenon DEF CloseBegin, CloserStep, CloseSend, CloseLock, CloseJoin, Goto, Return, Labels
  <2>3. \E r \in Returned : result' = result \/ result' = [result EXCEPT ![t] = r]
    BY <1>2, Zenon DEF CloseBegin, CloserStep, CloseSend, CloseLock, CloseJoin, Goto, Return, Returned
  <2> QED
    BY <1>1, <2>1, <2>2, <2>3, L3RemoteAssumption DEF Threaded, Results, Threads
<1>3. ASSUME WorkerStep \/ ReadStep \/ Break \/ \E f \in Flows, grant \in BOOLEAN : NodeAnswer(f, grant)
      PROVE  UNCHANGED <<threadVars, mgrVars, started, asker>>
  BY <1>3, Zenon DEF WorkerStep, Break, NodeAnswer, DrainCommand, StoreToken, StoreResult, SetCloseFlag, Collect,
     WorkerExit, FailFlow, ReadStep, ReadBegin, ReadEnd, TakeResponse, flowVars
<1>4. /\ UNCHANGED <<callVars, mgrVars, started, asker>> /\ pc' \in [Threads -> Labels] /\ Results'
      /\ \A t \in Callers : pc'[t] = pc[t]
  BY <1>1, <1>2, <1>3, Zenon DEF Others, Threaded, Results, threadVars, flowVars
<1>7. close_flag' = close_flag \/ close_flag' = TRUE
  BY Zenon DEF Others, CloseBegin, CloserStep, CloseSend, CloseLock, CloseJoin, WorkerStep, Break, NodeAnswer,
     DrainCommand, StoreToken, StoreResult, SetCloseFlag, Collect, WorkerExit, FailFlow,
     ReadStep, ReadBegin, ReadEnd, TakeResponse, closeVars
<1>5. Threaded' /\ UNCHANGED <<ct, tok, by_id, creator>>
  BY <1>1, <1>4, Zenon DEF Threaded, callVars, mgrVars
<1>6. Registered'
  BY <1>1, <1>4, Zenon DEF Registered, callVars, mgrVars
<1> QED
  BY <1>4, <1>5, <1>6, <1>7, Zenon

\* handle_auth_resp takes a response the node gave, and stores the token, then
\* the result.
LEMMA ReadsKeep ==
    ASSUME RemoteInv, StoreToken \/ StoreResult \/ ReadStep
    PROVE  Typed' /\ TokenFirst' /\ FailedLast' /\ queue' = queue /\ asked' = asked
           /\ worker' \notin {"collect", "fail", "done"}
<1>1. /\ UNCHANGED <<ct, tok, creator, started, asker>>
      /\ \A t \in Callers : pc'[t] = pc[t]
  BY OthersFrame, Zenon DEF Others, WorkerStep
<1>2. Threaded /\ Typed /\ TokenFirst /\ FailedLast
  BY Zenon DEF RemoteInv
<1>3. ASSUME NEW r \in inflight, TakeResponse(r)
      PROVE  Typed' /\ TokenFirst' /\ FailedLast' /\ UNCHANGED <<queue, asked>>
             /\ worker' \notin {"collect", "fail", "done"}
  <2>1. /\ UNCHANGED <<token, answer, granted, failing, queue, wire, asked>> /\ inflight' \subseteq inflight
        /\ worker = "reading" /\ (worker' = "run" \/ (worker' = "token" /\ resp' = r))
    BY <1>3, Zenon DEF TakeResponse, flowVars, sentVars
  <2>2. Allowed' = Allowed /\ Responses' = Responses
    BY <1>1, <2>1, Zenon DEF Allowed, Responses
  <2>3. Typed'
    BY <1>1, <1>2, <2>1, <2>2, Zenon DEF Typed
  <2> QED
    BY <1>1, <1>2, <2>1, <2>3, Zenon DEF TokenFirst, FailedLast
<1>4. CASE StoreToken \/ StoreResult
  <2>1. /\ UNCHANGED <<granted, inflight, failing, queue, wire, asked>> /\ resp \in Responses
        /\ worker' = "run" \/ (worker' = "result" /\ resp' = resp)
    BY <1>2, <1>4, Zenon DEF StoreToken, StoreResult, nodeVars, sentVars, Typed
  <2>2. Allowed' = Allowed /\ Responses' = Responses
    BY <1>1, <2>1, Zenon DEF Allowed, Responses
  <2>3. resp.flow \in Flows /\ (resp.grant => resp.flow \in granted)
    BY <2>1, Zenon DEF Responses
  <2>4. /\ token' \in [Flows -> Flows \cup {NoFlow}]
        /\ answer' \in [Flows -> {"none", "granted", "denied", "failed"}]
    BY <1>2, <1>4, <2>3, Zenon DEF StoreToken, StoreResult, Typed, Token
  <2>5. Typed'
    BY <1>1, <1>2, <2>1, <2>2, <2>4, Zenon DEF Typed
  <2>6. CASE StoreToken
    <3>1. /\ \A f \in Flows : token'[f] = token[f] \/ (token'[f] = f /\ f = resp.flow /\ resp.grant)
          /\ resp.grant => token'[resp.flow] = resp.flow
          /\ UNCHANGED <<resp, answer>> /\ worker = "token"
      BY <1>2, <2>3, <2>6, Zenon DEF StoreToken, Typed, Token
    <3>2. \A t \in Callers : pc[t] = "token" => ct[t] \in Flows
      BY <1>2, Zenon DEF Threaded, Holding
    <3>3. FailedLast'
      BY <1>2, <3>1, Zenon DEF FailedLast
    <3> QED
      BY <1>1, <1>2, <2>1, <2>3, <2>5, <3>1, <3>2, <3>3 DEF TokenFirst
  <2>7. CASE StoreResult
    <3>1. /\ worker = "result" /\ worker' = "run" /\ token' = token
          /\ \A f \in Flows : answer'[f] = "granted" => answer[f] = "granted" \/ (f = resp.flow /\ resp.grant)
          /\ \A f \in Flows : answer'[f] = "failed" => answer[f] = "failed"
      BY <1>2, <2>7, Zenon DEF StoreResult, Typed
    <3> QED
      BY <1>1, <1>2, <2>1, <2>5, <3>1, Zenon DEF TokenFirst, FailedLast
  <2> QED
    BY <1>4, <2>6, <2>7, Zenon
<1>5. CASE ReadBegin \/ ReadEnd
  <2>1. /\ UNCHANGED <<token, answer, resp, failing, granted, inflight, queue, wire, asked>>
        /\ worker \in {"run", "reading"} /\ worker' \in {"run", "reading"}
    BY <1>5, Zenon DEF ReadBegin, ReadEnd, flowVars, nodeVars, sentVars
  <2>2. Allowed' = Allowed /\ Responses' = Responses
    BY <1>1, <2>1, Zenon DEF Allowed, Responses
  <2>3. Typed'
    BY <1>1, <1>2, <2>1, <2>2, Zenon DEF Typed
  <2> QED
    BY <1>1, <1>2, <2>1, <2>3, Zenon DEF TokenFirst, FailedLast
<1> QED
  BY <1>3, <1>4, <1>5, Zenon DEF ReadStep

\* fail_pending takes the flows that are registered when close_flag is set, and
\* fails those that have no answer.
LEMMA StopsKeep ==
    ASSUME RemoteInv, Break \/ SetCloseFlag \/ Collect \/ WorkerExit \/ \E f \in Flows : FailFlow(f)
    PROVE  Typed' /\ TokenFirst' /\ FailedLast' /\ Released' /\ queue' \in {queue, <<>>} /\ asked' = asked
<1>1. /\ UNCHANGED <<ct, tok, by_id, creator, started, asker>>
      /\ \A t \in Callers : pc'[t] = pc[t]
  BY OthersFrame, Zenon DEF Others, WorkerStep
<1>2. Threaded /\ Typed /\ TokenFirst /\ FailedLast /\ Registered /\ Released
  BY Zenon DEF RemoteInv
<1>3. /\ UNCHANGED <<token, granted, inflight, wire, asked>> /\ queue' \in {queue, <<>>}
      /\ failing' \subseteq failing \cup by_id /\ worker' \in {"flag", "collect", "fail", "done"}
  BY Zenon DEF Break, SetCloseFlag, Collect, WorkerExit, FailFlow, nodeVars, sentVars, flowVars
<1>4. /\ answer' \in [Flows -> {"none", "granted", "denied", "failed"}]
      /\ \A f \in Flows : answer'[f] = "granted" => answer[f] = "granted"
      /\ answer' = answer \/ worker' = "fail"
      /\ worker \in {"fail", "done"} => worker' \in {"fail", "done"}
  BY <1>2, Zenon DEF Break, SetCloseFlag, Collect, WorkerExit, FailFlow, flowVars, Typed
<1>5. Typed'
  <2>1. Allowed' = Allowed /\ Responses' = Responses
    BY <1>1, <1>3, Zenon DEF Allowed, Responses
  <2>2. failing' \subseteq Flows
    BY <1>2, <1>3, Zenon DEF Typed, Threaded
  <2>3. queue \in Seq(Allowed) /\ <<>> \in Seq(Allowed)
    BY <1>2 DEF Typed
  <2>4. queue' \in Seq(Allowed)
    BY <1>3, <2>3, Zenon
  <2> QED
    BY <1>1, <1>2, <1>3, <1>4, <2>1, <2>2, <2>4, Zenon DEF Typed
<1>6. TokenFirst' /\ FailedLast'
  BY <1>1, <1>2, <1>3, <1>4, Zenon DEF TokenFirst, FailedLast
<1>7. \A t \in Callers, f \in Flows : Nearing(t, f)' <=> Nearing(t, f)
  BY <1>1, Zenon DEF Nearing
<1>8. Released'
  <2>1. CASE Break \/ SetCloseFlag
    BY <1>2, <2>1, Zenon DEF Break, SetCloseFlag, Released, closeVars
  <2>2. CASE Collect
    <3>1. worker' = "fail" /\ failing' = by_id /\ close_flag' = close_flag /\ worker = "collect"
      BY <2>2, Zenon DEF Collect, closeVars
    <3>2. \A f \in Flows, t \in Callers : creator[f] = t /\ Nearing(t, f) => f \in by_id
      BY <1>2, Zenon DEF Registered, Nearing
    <3> QED
      BY <1>1, <1>2, <1>7, <3>1, <3>2, Zenon DEF Released
  <2>3. ASSUME NEW g \in Flows, FailFlow(g) PROVE Released'
    <3>1. /\ UNCHANGED <<worker, close_flag>> /\ worker = "fail"
          /\ \A f \in Flows : f \in failing => f \in failing' \/ answer'[f] # "none"
          /\ \A f \in Flows : answer[f] # "none" => answer'[f] # "none"
      BY <1>2, <2>3, Zenon DEF FailFlow, Typed, closeVars
    <3> QED
      BY <1>1, <1>2, <1>7, <3>1, Zenon DEF Released
  <2>4. CASE WorkerExit
    <3>1. worker = "fail" /\ failing = {} /\ UNCHANGED <<failing, answer, close_flag>>
      BY <2>4, Zenon DEF WorkerExit, flowVars, closeVars
    <3> QED
      BY <1>1, <1>2, <1>7, <3>1, Zenon DEF Released
  <2> QED
    BY <2>1, <2>2, <2>3, <2>4, Zenon
<1> QED
  BY <1>3, <1>5, <1>6, <1>8, Zenon

\* The queue brings the worker, and the wire the node, nothing but allowed commands.
LEMMA QueueKeeps ==
    ASSUME RemoteInv,
           \/ \E t \in Closers : CloseBegin(t) \/ CloserStep(t)
           \/ DrainCommand \/ \E f \in Flows, grant \in BOOLEAN : NodeAnswer(f, grant)
    PROVE  Typed' /\ TokenFirst' /\ FailedLast' /\ Released'
<1>1. /\ UNCHANGED <<ct, tok, by_id, creator, started, asker>>
      /\ \A t \in Callers : pc'[t] = pc[t]
      /\ close_flag' = close_flag \/ close_flag' = TRUE
  BY OthersFrame, Zenon DEF Others, WorkerStep
<1>2. Threaded /\ Typed /\ TokenFirst /\ FailedLast /\ Registered /\ Released
  BY Zenon DEF RemoteInv
<1>3. /\ UNCHANGED <<token, answer, resp, failing>> /\ granted \subseteq granted'
      /\ worker' = worker \/ (worker = "run" /\ worker' = "flag")
  BY Zenon DEF CloseBegin, CloserStep, CloseSend, CloseLock, CloseJoin, DrainCommand, NodeAnswer, flowVars, workerVars,
     nodeVars
<1>4. TokenFirst' /\ FailedLast'
  BY <1>1, <1>2, <1>3, Zenon DEF TokenFirst, FailedLast
<1>5. Released'
  <2>1. \A t \in Callers, f \in Flows : Nearing(t, f)' <=> Nearing(t, f)
    BY <1>1, Zenon DEF Nearing
  <2> QED
    BY <1>1, <1>2, <1>3, <2>1, Zenon DEF Released
<1>6. Allowed \subseteq Allowed' /\ Responses \subseteq Responses'
  BY <1>1, <1>2, <1>3, AllowedGrows, Zenon
<1>7. /\ granted' \subseteq Flows /\ inflight' \subseteq Responses'
      /\ queue' \in Seq(Allowed) /\ wire' \subseteq Allowed
  <2>1. CASE \E t \in Closers : CloseBegin(t) \/ CloserStep(t)
    <3>1. UNCHANGED <<granted, inflight, wire>> /\ (queue' = queue \/ queue' = Append(queue, Close))
      BY <2>1, Zenon DEF CloseBegin, CloserStep, CloseSend, CloseLock, CloseJoin, nodeVars, sentVars
    <3>2. Close \in Allowed
      BY Zenon DEF Close, Allowed
    <3>3. queue' \in Seq(Allowed)
      BY <1>2, <3>1, <3>2 DEF Typed
    <3> QED
      BY <1>2, <1>6, <3>1, <3>3, Zenon DEF Typed
  <2>2. CASE DrainCommand
    <3>1. /\ UNCHANGED <<granted, inflight>> /\ queue' = Tail(queue) /\ queue # <<>>
          /\ wire' \subseteq wire \cup {Head(queue)}
      BY <2>2, Zenon DEF DrainCommand, nodeVars, sentVars
    <3> QED
      BY <1>2, <1>6, <3>1 DEF Typed
  <2>3. ASSUME NEW f \in Flows, NEW grant \in BOOLEAN, NodeAnswer(f, grant)
        PROVE  granted' \subseteq Flows /\ inflight' \subseteq Responses' /\ UNCHANGED <<queue, wire>>
    <3>1. /\ UNCHANGED <<queue, wire>> /\ granted' \subseteq granted \cup {f} /\ Auth(f) \in wire
          /\ inflight' = inflight \cup {[flow |-> f, grant |-> grant]} /\ (grant => f \in granted')
      BY <2>3, Zenon DEF NodeAnswer, sentVars
    <3>2. [flow |-> f, grant |-> grant] \in Responses'
      BY <1>1, <1>2, <3>1, Zenon DEF Typed, Allowed, Auth, Responses
    <3> QED
      BY <1>2, <1>6, <3>1, <3>2, Zenon DEF Typed
  <2> QED
    BY <1>2, <2>1, <2>2, <2>3, Zenon DEF Typed
<1>8. Typed'
  <2>1. queue' \in Seq(Allowed')
    BY <1>6, <1>7
  <2>2. worker' \in {"token", "result"} => resp' \in Responses'
    BY <1>2, <1>3, <1>6, Zenon DEF Typed
  <2> QED
    BY <1>1, <1>2, <1>3, <1>6, <1>7, <2>1, <2>2, Zenon DEF Typed
<1> QED
  BY <1>4, <1>5, <1>8, Zenon

\* The worker sends the request it takes from the queue, where there was no other
\* for the same flow.
LEMMA DrainRequests ==
    ASSUME RemoteInv, DrainCommand
    PROVE  OneRequest'
<1>1. UNCHANGED <<ct, started, asker>> /\ \A t \in Callers : pc'[t] = pc[t]
  BY OthersFrame, Zenon DEF Others, WorkerStep
<1>2. Threaded /\ Typed /\ OneRequest
  BY Zenon DEF RemoteInv
<1>3. /\ queue' = Tail(queue) /\ queue # <<>> /\ Head(queue) \in Allowed
      /\ \/ asked' = asked
         \/ AuthAt(1, Head(queue).flow) /\ asked' = [asked EXCEPT ![Head(queue).flow] = @ + 1]
  BY <1>2 DEF DrainCommand, sentVars, Typed, AuthAt
<1>4. /\ Len(queue) \in Nat /\ Len(queue)' = Len(queue) - 1 /\ 1 \in 1..Len(queue)
      /\ \A i \in 1..Len(queue)' : i + 1 \in 1..Len(queue) /\ \A f : AuthAt(i, f)' => AuthAt(i + 1, f)
  BY <1>2, <1>3 DEF Typed, AuthAt
<1>5. ASSUME NEW f \in Flows, NEW i \in 1..Len(queue)', AuthAt(i, f)'
      PROVE  asked[f] = 0 /\ \A j \in 1..Len(queue)' : AuthAt(j, f)' => i = j
  <2>1. AuthAt(i + 1, f) /\ i + 1 \in 1..Len(queue)
    BY <1>4, <1>5, Zenon
  <2>2. \A j \in 1..Len(queue)' : AuthAt(j, f)' => i + 1 = j + 1
    BY <1>2, <1>4, <2>1, Zenon DEF OneRequest
  <2> QED
    BY <1>2, <1>4, <2>1, <2>2 DEF OneRequest
<1>6. \A t \in Callers : pc[t] \in {"authFlag", "authSend"} => \A i \in 1..Len(queue)' : ~AuthAt(i, ct[t])'
  BY <1>1, <1>2, <1>4, Zenon DEF OneRequest
<1>7. CASE asked' = asked
  BY <1>1, <1>2, <1>5, <1>6, <1>7, Zenon DEF OneRequest
<1>8. CASE AuthAt(1, Head(queue).flow) /\ asked' = [asked EXCEPT ![Head(queue).flow] = @ + 1]
  <2>1. PICK g \in Flows : g = Head(queue).flow /\ started[g]
    BY <1>2, <1>3, <1>4, <1>8 DEF Allowed, AuthAt, Typed
  <2>2. asked[g] = 0 /\ \A i \in 1..Len(queue) : AuthAt(i, g) => i = 1
    BY <1>2, <1>4, <1>8, <2>1 DEF OneRequest
  <2>3. asked' \in [Flows -> {0, 1}] /\ \A f \in Flows \ {g} : asked'[f] = asked[f]
    BY <1>2, <1>8, <2>1, <2>2 DEF OneRequest
  <2>4. ASSUME NEW i \in 1..Len(queue)' PROVE ~AuthAt(i, g)'
    <3>1. i + 1 \in 1..Len(queue) /\ (AuthAt(i, g)' => AuthAt(i + 1, g)) /\ i + 1 # 1
      BY <1>4, <2>4
    <3> QED
      BY <2>2, <3>1, Zenon
  <2>5. \A t \in Callers : pc[t] \in {"authFlag", "authSend"} => ct[t] # g /\ ct[t] \in Flows
    BY <1>2, <1>4, <1>8, <2>1, Zenon DEF OneRequest, Threaded, Holding
  <2>6. \A f \in Flows : \A i \in 1..Len(queue)' : AuthAt(i, f)' => asked'[f] = 0
    BY <1>5, <2>3, <2>4
  <2> QED
    BY <1>1, <1>2, <1>5, <1>6, <2>1, <2>3, <2>5, <2>6 DEF OneRequest
<1> QED
  BY <1>3, <1>7, <1>8, Zenon

\* Nothing but a caller adds a request to the queue.
LEMMA OthersKeep ==
    ASSUME RemoteInv, Others
    PROVE  RemoteInv'
<1>1. /\ Threaded' /\ Registered' /\ Results' /\ UNCHANGED <<ct, started, asker>>
      /\ \A t \in Callers : pc'[t] = pc[t]
      /\ close_flag' = close_flag \/ close_flag' = TRUE
  BY OthersFrame, Zenon
<1>2. ASSUME asked' = asked,
             queue' \in {queue, <<>>} \/ \E cmd : cmd.op # "auth" /\ queue' = Append(queue, cmd)
      PROVE  OneRequest'
  <2>1. \A i \in 1..Len(queue)' : \A f : AuthAt(i, f)' => i \in 1..Len(queue) /\ AuthAt(i, f)
    <3>1. CASE queue' = <<>>
      BY <3>1
    <3>2. CASE queue' = queue \/ \E cmd : cmd.op # "auth" /\ queue' = Append(queue, cmd)
      BY <3>2, NoNewRequest, Zenon DEF RemoteInv
    <3> QED
      BY <1>2, <3>1, <3>2, Zenon
  <2>2. OneRequest /\ asked' = asked /\ UNCHANGED <<ct, started, asker>> /\ \A t \in Callers : pc'[t] = pc[t]
    BY <1>1, <1>2, Zenon DEF RemoteInv
  <2> QED
    BY <2>1, <2>2 DEF OneRequest
<1>3. CASE StoreToken \/ StoreResult \/ ReadStep
  <2>1. Typed' /\ TokenFirst' /\ FailedLast' /\ OneRequest'
    BY <1>2, <1>3, ReadsKeep, Zenon
  <2>2. worker' \notin {"collect", "fail", "done"} /\ close_flag' \in BOOLEAN
    BY <1>1, <1>3, ReadsKeep, Zenon DEF RemoteInv, Released
  <2>3. Released'
    BY <2>2, Zenon DEF Released
  <2> QED
    BY <1>1, <2>1, <2>3, Zenon DEF RemoteInv
<1>4. CASE Break \/ SetCloseFlag \/ Collect \/ WorkerExit \/ \E f \in Flows : FailFlow(f)
  BY <1>1, <1>2, <1>4, StopsKeep, Zenon DEF RemoteInv
<1>5. CASE DrainCommand
  BY <1>1, <1>5, QueueKeeps, DrainRequests, Zenon DEF RemoteInv
<1>6. CASE (\E t \in Closers : CloseBegin(t) \/ CloserStep(t)) \/ \E f \in Flows, grant \in BOOLEAN : NodeAnswer(f, grant)
  <2>1. asked' = asked /\ (queue' = queue \/ queue' = Append(queue, Close))
    BY <1>6, Zenon DEF CloseBegin, CloserStep, CloseSend, CloseLock, CloseJoin, NodeAnswer, sentVars
  <2>2. OneRequest'
    BY <1>2, <2>1, Zenon DEF Close
  <2> QED
    BY <1>1, <1>6, <2>2, QueueKeeps, Zenon DEF RemoteInv
<1> QED
  BY <1>3, <1>4, <1>5, <1>6, Zenon DEF Others, WorkerStep
-----------------------------------------------------------------------------
(* The invariant, and what follows from it.                                *)

\* The inductive invariant of the remote, its threads and its worker.
LEMMA RemoteInvariant == Spec => []RemoteInv
<1>1. Init => RemoteInv
  <2> SUFFICES ASSUME Init PROVE RemoteInv
    OBVIOUS
  <2> USE L3RemoteAssumption DEF Init
  <2>1. AnyKey \in Keys
    BY Zenon DEF AnyKey
  <2>2. Threaded /\ Results
    BY <2>1 DEF Threaded, Results, Returned, Labels, Holding, NoFlow, Threads
  <2>3. Typed /\ FailedLast
    BY DEF Typed, FailedLast, NoFlow
  <2>4. TokenFirst /\ OneRequest
    BY DEF TokenFirst, OneRequest, Threads
  <2>5. Registered
    BY DEF Registered, Holding, Threads, NoFlow
  <2>6. Released
    BY Zenon DEF Released
  <2> QED
    BY <2>2, <2>3, <2>4, <2>5, <2>6, Zenon DEF RemoteInv
<1>2. RemoteInv /\ [Next]_vars => RemoteInv'
  <2> SUFFICES ASSUME RemoteInv, [Next]_vars PROVE RemoteInv'
    OBVIOUS
  <2>1. ASSUME NEW t \in Callers, CallerAny(t) PROVE RemoteInv'
    BY <2>1, CallerTokens, CallerTyped, CallerRequests, CallerReleased, Zenon DEF RemoteInv
  <2>2. CASE Others
    BY <2>2, OthersKeep, Zenon
  <2>3. CASE UNCHANGED vars
    <3>1. UNCHANGED <<pc, key, ct, tok, result, by_key, by_id, next_auth_id, creator, started, asker, answer>>
      BY <2>3, Zenon DEF vars, threadVars, callVars, mgrVars, flowVars
    <3>2. UNCHANGED <<token, granted, failing, queue, wire, inflight, worker, resp, asked, close_flag>>
      BY <2>3, Zenon DEF vars, flowVars, sentVars, closeVars, workerVars, nodeVars
    <3>3. Threaded' /\ Results' /\ FailedLast' /\ Registered'
      BY <3>1, <3>2, Zenon DEF RemoteInv, Threaded, Results, FailedLast, Registered
    <3>4. Typed' /\ TokenFirst'
      BY <3>1, <3>2, Zenon DEF RemoteInv, Typed, Allowed, Responses, TokenFirst
    <3>5. (\A i, f : AuthAt(i, f)' <=> AuthAt(i, f)) /\ \A t, f : Nearing(t, f)' <=> Nearing(t, f)
      BY <3>1, <3>2, Zenon DEF AuthAt, Nearing
    <3>6. OneRequest'
      BY <3>1, <3>2, <3>5 DEF RemoteInv, OneRequest
    <3>7. Released'
      BY <3>1, <3>2, <3>5, Zenon DEF RemoteInv, Released
    <3> QED
      BY <3>3, <3>4, <3>6, <3>7, Zenon DEF RemoteInv
  <2> QED
    BY <2>1, <2>2, <2>3, Zenon DEF Next, Others, CallerAny
<1> QED
  BY <1>1, <1>2, PTL DEF Spec

\* Every packet that was sent carries the token of its own flow.
THEOREM PacketsCarryOwnToken == Spec => []OwnToken
<1>1. RemoteInv => OwnToken
  BY Zenon DEF RemoteInv, Typed, Allowed, OwnToken
<1> QED
  BY <1>1, RemoteInvariant, PTL

\* write_packet() never fails with "missing connect token".
THEOREM TokensAreFound == Spec => []NoMissingToken
<1>1. RemoteInv => NoMissingToken
  BY Zenon DEF RemoteInv, Results, Returned, NoMissingToken, Threads
<1> QED
  BY <1>1, RemoteInvariant, PTL

\* The node gets at most one request for a flow.
THEOREM FlowsAskedOnce == Spec => []AskedOnce
<1>1. RemoteInv => AskedOnce
  BY DEF RemoteInv, OneRequest, AskedOnce
<1> QED
  BY <1>1, RemoteInvariant, PTL

\* When the worker is gone, no thread waits in vain for a flow that it created
\* and asked for.
THEOREM WaitersAreReleased == Spec => []NoWaiterLeft
<1>1. RemoteInv => NoWaiterLeft
  <2> SUFFICES ASSUME RemoteInv, worker = "done", NEW t \in Callers,
                      pc[t] = "wait", creator[ct[t]] = t, asker[ct[t]] = t
               PROVE  answer[ct[t]] # "none"
    BY Zenon DEF NoWaiterLeft
  <2>1. ct[t] \in Flows /\ Nearing(t, ct[t])
    BY Zenon DEF RemoteInv, Threaded, Holding, Nearing
  <2> QED
    BY <2>1, Zenon DEF RemoteInv, Released
<1> QED
  BY <1>1, RemoteInvariant, PTL
-----------------------------------------------------------------------------
\* A step of the remote is one of FlowAuth, or leaves every flow's phase alone.
LEMMA PhaseStep ==
    ASSUME RemoteInv, [Next]_vars
    PROVE  [Promise!Next]_Phase
<1> USE DEF Promise!Next
<1>1. CASE UNCHANGED <<answer, started>>
  BY <1>1, Zenon DEF Phase
<1>2. ASSUME NEW t \in Callers, CallerAny(t) PROVE [Promise!Next]_Phase
  <2>1. answer' = answer /\ (started' = started \/ Wins(t))
    BY <1>2, CallerMoves, Zenon DEF RemoteInv, Apart, Moves, Creates, Inserts, Asks, Sends
  <2>2. CASE Wins(t)
    <3>1. ct[t] \in Flows /\ ~started[ct[t]] /\ started' = [started EXCEPT ![ct[t]] = TRUE]
      BY <2>2, Zenon DEF Wins, RemoteInv, Threaded, Holding
    <3>2. CASE answer[ct[t]] # "none"
      BY <2>1, <3>1, <3>2, Zenon DEF Phase, RemoteInv, Typed
    <3>3. CASE answer[ct[t]] = "none"
      <4>1. Phase[ct[t]] = "new"
        BY <3>1, <3>3, Zenon DEF Phase
      <4>2. Phase' = [Phase EXCEPT ![ct[t]] = "asked"]
        BY <2>1, <3>1, <3>3, Zenon DEF Phase, RemoteInv, Typed
      <4> QED
        BY <3>1, <4>1, <4>2, Zenon DEF Promise!Ask
    <3> QED
      BY <3>2, <3>3, Zenon
  <2> QED
    BY <1>1, <2>1, <2>2, Zenon
<1>3. CASE StoreResult
  <2>1. PICK f \in Flows : f = resp.flow /\ started[f] /\ answer[f] # "failed"
    BY <1>3, Zenon DEF StoreResult, RemoteInv, Typed, Responses, FailedLast
  <2>2. PICK a \in {"granted", "denied"} : answer' = [answer EXCEPT ![f] = a] /\ started' = started
    BY <1>3, <2>1, Zenon DEF StoreResult
  <2>3. Phase[f] \in {"asked", "granted", "denied"}
    BY <2>1, Zenon DEF Phase, RemoteInv, Typed
  <2>4. Phase' = [Phase EXCEPT ![f] = a]
    BY <2>2, Zenon DEF Phase, RemoteInv, Typed
  <2> QED
    BY <2>3, <2>4, Zenon DEF Promise!Answer
<1>4. ASSUME NEW f \in Flows, FailFlow(f) PROVE [Promise!Next]_Phase
  <2>1. CASE answer[f] # "none"
    BY <1>1, <1>4, <2>1, Zenon DEF FailFlow
  <2>2. CASE answer[f] = "none"
    <3>1. answer' = [answer EXCEPT ![f] = "failed"] /\ started' = started
      BY <1>4, <2>2, Zenon DEF FailFlow
    <3>2. Phase[f] \in {"new", "asked"}
      BY <2>2, Zenon DEF Phase
    <3>3. Phase' = [Phase EXCEPT ![f] = "failed"]
      BY <3>1, Zenon DEF Phase, RemoteInv, Typed
    <3> QED
      BY <3>2, <3>3, Zenon DEF Promise!Fail
  <2> QED
    BY <2>1, <2>2, Zenon
<1>5. ASSUME Others, ~StoreResult, ~\E f \in Flows : FailFlow(f) PROVE UNCHANGED <<answer, started>>
  <2>1. CASE WorkerStep
    BY <1>5, <2>1, Zenon DEF WorkerStep, DrainCommand, StoreToken, SetCloseFlag, Collect, WorkerExit, flowVars
  <2>2. CASE ~WorkerStep
    BY <1>5, <2>2, Zenon DEF Others, CloseBegin, CloserStep, CloseSend, CloseLock, CloseJoin, Break, NodeAnswer,
       ReadStep, ReadBegin, ReadEnd, TakeResponse, flowVars
  <2> QED
    BY <2>1, <2>2, Zenon
<1>6. CASE UNCHANGED vars
  BY <1>1, <1>6, Zenon DEF vars, flowVars
<1> QED
  BY <1>1, <1>2, <1>3, <1>4, <1>5, <1>6, Zenon DEF Next, Others, CallerAny

\* The remote implements FlowAuth: a flow is answered only when it was asked for,
\* and an answer is neither lost nor replaced by the failure of the remote.
THEOREM RemoteKeepsPromise == Spec => Promised
<1>1. Init => Promise!Init
  BY Zenon DEF Init, Promise!Init, Phase
<1>2. RemoteInv /\ [Next]_vars => [Promise!Next]_Phase
  BY PhaseStep, Zenon
<1> QED
  BY <1>1, <1>2, RemoteInvariant, PTL DEF Spec, Promised, Promise!Spec
=============================================================================
