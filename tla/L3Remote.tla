------------------------------ MODULE L3Remote ------------------------------
(***************************************************************************)
(* L3Remote, ConntrackMgr and Conntrack (transport.rs): packets of many    *)
(* threads share one connection to a node.  A flow (conntrack) is asked    *)
(* for once; the worker thread stores the node's answer and wakes the      *)
(* threads that wait for it on a condition variable.  The worker's loop is *)
(* reduced here to what it takes from the queue and from the stream; its   *)
(* order and its clock are the subject of L3Worker.                        *)
(***************************************************************************)
EXTENDS Naturals, Sequences, FiniteSets

CONSTANTS
    Callers,     \* threads that call write_packet() and send_heartbeat()
    Closers,     \* threads that call close()
    Keys,        \* conn_track_key() values
    NoThread,
    MaxFlows,    \* bound: conntracks created
    MaxCalls     \* bound: calls of one thread

Threads == Callers \cup Closers
Flows == 1..MaxFlows

ASSUME L3RemoteAssumption ==
    /\ NoThread \notin Threads /\ Callers \cap Closers = {} /\ Keys # {}
    /\ MaxFlows \in Nat
    /\ MaxCalls \in Nat

VARIABLES
    pc, key, ct, tok, calls, result,  \* the threads: key, Arc<Conntrack> and token held
    by_key, by_id, next_auth_id,  \* ConntrackMgr
    token, started, answer,       \* Conntrack.connect_token, auth_started, auth_result
    close_flag, handle, joining,  \* L3Remote.close_flag, .worker; the joining thread
    queue,                        \* command_tx/command_rx
    worker, resp, failing,        \* the worker: pc, response in hand, flows to fail
    wire, inflight, granted,      \* what the node was sent, responses under way, grants
    creator, asker, asked         \* history: who created and who claimed a flow, and
                                  \* how often it was asked for

callVars == <<key, ct, tok, calls>>
threadVars == <<pc, result, callVars>>
mgrVars == <<by_key, by_id, next_auth_id, creator>>
flowVars == <<token, started, answer, asker>>
sentVars == <<wire, asked>>
closeVars == <<close_flag, handle, joining>>
workerVars == <<worker, resp, failing>>
nodeVars == <<inflight, granted>>
vars == <<threadVars, mgrVars, flowVars, closeVars, workerVars, nodeVars,
          queue, sentVars>>

NoFlow == 0
AnyKey == CHOOSE k \in Keys : TRUE

Auth(f) == [op |-> "auth", flow |-> f, token |-> NoFlow]
Data(f, held) == [op |-> "data", flow |-> f, token |-> held]
Heartbeat == [op |-> "heartbeat", flow |-> NoFlow, token |-> NoFlow]
Close == [op |-> "close", flow |-> NoFlow, token |-> NoFlow]
NoResp == [flow |-> NoFlow, grant |-> FALSE]

\* The node names a token after the flow it is for.
Token(f) == f

Init ==
    /\ pc = [t \in Threads |-> "idle"]
    /\ key = [t \in Callers |-> AnyKey]
    /\ ct = [t \in Callers |-> NoFlow]
    /\ tok = [t \in Callers |-> NoFlow]
    /\ calls = [t \in Callers |-> 0]
    /\ result = [t \in Threads |-> "none"]
    /\ by_key = [k \in Keys |-> NoFlow]
    /\ by_id = {} /\ next_auth_id = 0
    /\ creator = [f \in Flows |-> NoThread]
    /\ token = [f \in Flows |-> NoFlow]
    /\ started = [f \in Flows |-> FALSE]
    /\ answer = [f \in Flows |-> "none"]
    /\ asker = [f \in Flows |-> NoThread]
    /\ close_flag = FALSE /\ handle = TRUE /\ joining = NoThread
    /\ queue = <<>> /\ wire = {} /\ asked = [f \in Flows |-> 0]
    /\ worker = "run" /\ resp = NoResp /\ failing = {}
    /\ inflight = {} /\ granted = {}
-----------------------------------------------------------------------------
(* Callers *)

Goto(t, label) == pc' = [pc EXCEPT ![t] = label] /\ UNCHANGED result
Return(t, r) ==
    /\ pc' = [pc EXCEPT ![t] = "idle"]
    /\ result' = [result EXCEPT ![t] = r]

\* write_packet() and send_heartbeat() return: what the thread held is dropped.
Leave(t, r) ==
    /\ Return(t, r)
    /\ key' = [key EXCEPT ![t] = AnyKey]
    /\ ct' = [ct EXCEPT ![t] = NoFlow]
    /\ tok' = [tok EXCEPT ![t] = NoFlow]

\* L3TunnelState::remote_for hands out a remote whose close_flag is not set.
PacketBegin(t, k) ==
    /\ pc[t] = "idle" /\ calls[t] < MaxCalls /\ ~close_flag
    /\ calls' = [calls EXCEPT ![t] = @ + 1]
    /\ key' = [key EXCEPT ![t] = k]
    /\ pc' = [pc EXCEPT ![t] = "lookup"]
    /\ result' = [result EXCEPT ![t] = "none"]
    /\ UNCHANGED <<ct, tok, mgrVars, flowVars, closeVars, workerVars, nodeVars, queue, sentVars>>

\* send_heartbeat() only enqueues.
HeartbeatBegin(t) ==
    /\ pc[t] = "idle" /\ calls[t] < MaxCalls /\ ~close_flag
    /\ calls' = [calls EXCEPT ![t] = @ + 1]
    /\ pc' = [pc EXCEPT ![t] = "beatFlag"]
    /\ result' = [result EXCEPT ![t] = "none"]
    /\ UNCHANGED <<key, ct, tok, mgrVars, flowVars, closeVars, workerVars, nodeVars,
                   queue, sentVars>>

\* get_or_create: the lookup, the new id and the two insertions are four
\* critical sections of their own.
Lookup(t) ==
    /\ pc[t] = "lookup"
    /\ \/ /\ by_key[key[t]] # NoFlow
          /\ ct' = [ct EXCEPT ![t] = by_key[key[t]]] /\ Goto(t, "cached")
       \/ /\ by_key[key[t]] = NoFlow
          /\ Goto(t, "create") /\ UNCHANGED ct
    /\ UNCHANGED <<key, tok, calls, mgrVars, flowVars, closeVars, workerVars, nodeVars,
                   queue, sentVars>>

Create(t) ==
    /\ pc[t] = "create" /\ next_auth_id < MaxFlows
    /\ next_auth_id' = next_auth_id + 1
    /\ ct' = [ct EXCEPT ![t] = next_auth_id + 1]
    /\ creator' = [creator EXCEPT ![next_auth_id + 1] = t]
    /\ Goto(t, "insertKey")
    /\ UNCHANGED <<key, tok, calls, by_key, by_id, flowVars, closeVars, workerVars,
                   nodeVars, queue, sentVars>>

InsertKey(t) ==
    /\ pc[t] = "insertKey"
    /\ by_key' = [by_key EXCEPT ![key[t]] = ct[t]]
    /\ Goto(t, "insertId")
    /\ UNCHANGED <<callVars, by_id, next_auth_id, creator, flowVars, closeVars,
                   workerVars, nodeVars, queue, sentVars>>

InsertId(t) ==
    /\ pc[t] = "insertId"
    /\ by_id' = by_id \cup {ct[t]}
    /\ Goto(t, "cached")
    /\ UNCHANGED <<callVars, by_key, next_auth_id, creator, flowVars, closeVars,
                   workerVars, nodeVars, queue, sentVars>>

\* ensure_auth: a stored result is returned at once.
Cached(t) ==
    /\ pc[t] = "cached"
    /\ \/ answer[ct[t]] = "none" /\ Goto(t, "claim") /\ UNCHANGED <<key, ct, tok>>
       \/ answer[ct[t]] = "granted" /\ Goto(t, "token") /\ UNCHANGED <<key, ct, tok>>
       \/ answer[ct[t]] \in {"denied", "failed"} /\ Leave(t, answer[ct[t]])
    /\ UNCHANGED <<calls, mgrVars, flowVars, closeVars, workerVars, nodeVars,
                   queue, sentVars>>

\* Mutant: a store where the compare_exchange is.
ClaimAlways(t) ==
    /\ pc[t] = "claim"
    /\ started' = [started EXCEPT ![ct[t]] = TRUE]
    /\ asker' = [asker EXCEPT ![ct[t]] = t]
    /\ Goto(t, "authFlag")
    /\ UNCHANGED <<callVars, mgrVars, token, answer, closeVars, workerVars,
                   nodeVars, queue, sentVars>>

\* compare_exchange(false, true): the winner sends the request.
Claim(t) ==
    /\ pc[t] = "claim"
    /\ \/ /\ ~started[ct[t]]
          /\ started' = [started EXCEPT ![ct[t]] = TRUE]
          /\ asker' = [asker EXCEPT ![ct[t]] = t]
          /\ Goto(t, "authFlag")
       \/ started[ct[t]] /\ Goto(t, "wait") /\ UNCHANGED <<started, asker>>
    /\ UNCHANGED <<callVars, mgrVars, token, answer, closeVars, workerVars,
                   nodeVars, queue, sentVars>>

\* enqueue_payload loads close_flag, then sends; both can fail the call.
Flag(t, here, next) ==
    /\ pc[t] = here
    /\ \/ close_flag /\ Leave(t, "closed")
       \/ ~close_flag /\ Goto(t, next) /\ UNCHANGED <<key, ct, tok>>
    /\ UNCHANGED <<calls, mgrVars, flowVars, closeVars, workerVars, nodeVars,
                   queue, sentVars>>

Send(t, here, cmd, next) ==
    /\ pc[t] = here
    /\ \/ worker = "done" /\ Leave(t, "closed") /\ UNCHANGED queue
       \/ /\ worker # "done" /\ queue' = Append(queue, cmd)
          /\ IF next = "idle" THEN Leave(t, "sent")
             ELSE Goto(t, next) /\ UNCHANGED <<key, ct, tok>>
    /\ UNCHANGED <<calls, mgrVars, flowVars, closeVars, workerVars, nodeVars,
                   sentVars>>

AuthFlag(t) == Flag(t, "authFlag", "authSend")
AuthSend(t) == Send(t, "authSend", Auth(ct[t]), "wait")
DataFlag(t) == Flag(t, "dataFlag", "dataSend")
DataSend(t) == Send(t, "dataSend", Data(ct[t], tok[t]), "idle")
BeatFlag(t) == Flag(t, "beatFlag", "beatSend")
BeatSend(t) == Send(t, "beatSend", Heartbeat, "idle")

\* The wait on auth_cv: the result is looked at under its mutex, which the
\* wait releases, so that no notification is missed.
Wake(t) ==
    /\ pc[t] = "wait" /\ answer[ct[t]] # "none"
    /\ \/ answer[ct[t]] = "granted" /\ Goto(t, "token") /\ UNCHANGED <<key, ct, tok>>
       \/ answer[ct[t]] # "granted" /\ Leave(t, answer[ct[t]])
    /\ UNCHANGED <<calls, mgrVars, flowVars, closeVars, workerVars, nodeVars,
                   queue, sentVars>>

\* Mutant: wait() in the place of wait_timeout().
TimeoutNever(t) ==
    /\ pc[t] = "wait" /\ answer[ct[t]] # "none"
    /\ Leave(t, "timeout")
    /\ UNCHANGED <<calls, mgrVars, flowVars, closeVars, workerVars, nodeVars,
                   queue, sentVars>>

\* Eight seconds without a result.
Timeout(t) ==
    /\ pc[t] = "wait" /\ answer[ct[t]] = "none"
    /\ Leave(t, "timeout")
    /\ UNCHANGED <<calls, mgrVars, flowVars, closeVars, workerVars, nodeVars,
                   queue, sentVars>>

\* Mutant: the token of the flow the key leads to by now.
ReadTokenRelooks(t) ==
    /\ pc[t] = "token" /\ token[by_key[key[t]]] # NoFlow
    /\ tok' = [tok EXCEPT ![t] = token[by_key[key[t]]]]
    /\ Goto(t, "dataFlag")
    /\ UNCHANGED <<key, ct, calls, mgrVars, flowVars, closeVars, workerVars, nodeVars,
                   queue, sentVars>>

ReadToken(t) ==
    /\ pc[t] = "token"
    /\ \/ token[ct[t]] = NoFlow /\ Leave(t, "missing")
       \/ /\ token[ct[t]] # NoFlow /\ tok' = [tok EXCEPT ![t] = token[ct[t]]]
          /\ Goto(t, "dataFlag") /\ UNCHANGED <<key, ct>>
    /\ UNCHANGED <<calls, mgrVars, flowVars, closeVars, workerVars, nodeVars,
                   queue, sentVars>>
-----------------------------------------------------------------------------
(* close() *)

CloseBegin(t) ==
    /\ pc[t] = "idle"
    /\ close_flag' = TRUE
    /\ pc' = [pc EXCEPT ![t] = IF close_flag THEN "lock" ELSE "closeSend"]
    /\ result' = [result EXCEPT ![t] = "none"]
    /\ UNCHANGED <<callVars, mgrVars, flowVars, handle, joining, workerVars, nodeVars,
                   queue, sentVars>>

CloseSend(t) ==
    /\ pc[t] = "closeSend"
    /\ queue' = IF worker = "done" THEN queue ELSE Append(queue, Close)
    /\ Goto(t, "lock")
    /\ UNCHANGED <<callVars, mgrVars, flowVars, closeVars, workerVars, nodeVars, sentVars>>

\* The guard of `worker` lives until the join is over.
CloseLock(t) ==
    /\ pc[t] = "lock" /\ joining = NoThread
    /\ \/ handle /\ joining' = t /\ Goto(t, "join")
       \/ ~handle /\ Return(t, "done") /\ UNCHANGED joining
    /\ handle' = FALSE
    /\ UNCHANGED <<callVars, mgrVars, flowVars, close_flag, workerVars, nodeVars,
                   queue, sentVars>>

CloseJoin(t) ==
    /\ pc[t] = "join" /\ worker = "done"
    /\ joining' = NoThread
    /\ Return(t, "done")
    /\ UNCHANGED <<callVars, mgrVars, flowVars, close_flag, handle, workerVars,
                   nodeVars, queue, sentVars>>
-----------------------------------------------------------------------------
(* The worker *)

\* drain_l3_remote_commands, one command; a write may fail.
DrainCommand ==
    /\ worker = "run" /\ queue # <<>>
    /\ queue' = Tail(queue)
    /\ LET cmd == Head(queue) IN
       \/ /\ cmd.op # "close"
          /\ wire' = wire \cup {cmd} /\ UNCHANGED worker
          /\ asked' = IF cmd.op = "auth" THEN [asked EXCEPT ![cmd.flow] = @ + 1] ELSE asked
       \/ worker' = "flag" /\ UNCHANGED sentVars
    /\ UNCHANGED <<threadVars, mgrVars, flowVars, closeVars, resp, failing, nodeVars>>

\* read_l3_frame_available: the worker goes to its stream, stays there while
\* half of a frame or one notice after the other is all that comes, and comes
\* back with a frame or with none.
ReadBegin ==
    /\ worker = "run"
    /\ worker' = "reading"
    /\ UNCHANGED <<threadVars, mgrVars, flowVars, closeVars, resp, failing, nodeVars,
                   queue, sentVars>>

ReadEnd ==
    /\ worker = "reading"
    /\ worker' = "run"
    /\ UNCHANGED <<threadVars, mgrVars, flowVars, closeVars, resp, failing, nodeVars,
                   queue, sentVars>>

\* handle_auth_resp looks the flow up by its id and drops a response to an
\* unknown one ("conntrack missing").
TakeResponse(r) ==
    /\ worker = "reading" /\ r \in inflight
    /\ inflight' = inflight \ {r}
    /\ \/ r.flow \in by_id /\ worker' = "token" /\ resp' = r
       \/ r.flow \notin by_id /\ worker' = "run" /\ UNCHANGED resp
    /\ UNCHANGED <<threadVars, mgrVars, flowVars, closeVars, failing, granted, queue, sentVars>>

\* Mutant: the result is published before the token.
StoreTokenLate ==
    /\ worker = "token"
    /\ answer' = [answer EXCEPT ![resp.flow] = IF resp.grant THEN "granted" ELSE "denied"]
    /\ worker' = "result"
    /\ UNCHANGED <<threadVars, mgrVars, token, started, asker, closeVars, resp, failing,
                   nodeVars, queue, sentVars>>

StoreToken ==
    /\ worker = "token"
    /\ token' = IF resp.grant THEN [token EXCEPT ![resp.flow] = Token(resp.flow)]
                ELSE token
    /\ worker' = "result"
    /\ UNCHANGED <<threadVars, mgrVars, started, answer, asker, closeVars, resp, failing,
                   nodeVars, queue, sentVars>>

StoreResult ==
    /\ worker = "result"
    /\ answer' = [answer EXCEPT ![resp.flow] = IF resp.grant THEN "granted" ELSE "denied"]
    /\ worker' = "run" /\ resp' = NoResp
    /\ UNCHANGED <<threadVars, mgrVars, token, started, asker, closeVars, failing,
                   nodeVars, queue, sentVars>>

\* A read, a write or the liveness check ends the inner loop with an error.
Break ==
    /\ worker \in {"run", "reading"}
    /\ worker' = "flag"
    /\ UNCHANGED <<threadVars, mgrVars, flowVars, closeVars, resp, failing, nodeVars,
                   queue, sentVars>>

\* Mutant: the flag is left to close().
SetCloseFlagForgotten ==
    /\ worker = "flag"
    /\ worker' = "collect"
    /\ UNCHANGED <<threadVars, mgrVars, flowVars, closeVars, resp, failing,
                   nodeVars, queue, sentVars>>

\* run_l3_remote_worker after the loop: the flag first, then fail_pending.
SetCloseFlag ==
    /\ worker = "flag"
    /\ close_flag' = TRUE
    /\ worker' = "collect"
    /\ UNCHANGED <<threadVars, mgrVars, flowVars, handle, joining, resp, failing,
                   nodeVars, queue, sentVars>>

Collect ==
    /\ worker = "collect"
    /\ failing' = by_id
    /\ worker' = "fail"
    /\ UNCHANGED <<threadVars, mgrVars, flowVars, closeVars, resp, nodeVars, queue, sentVars>>

\* Mutant: every flow is failed, answered or not.
FailFlowOverwrites(f) ==
    /\ worker = "fail" /\ f \in failing
    /\ failing' = failing \ {f}
    /\ answer' = [answer EXCEPT ![f] = "failed"]
    /\ UNCHANGED <<threadVars, mgrVars, token, started, asker, closeVars, worker, resp,
                   nodeVars, queue, sentVars>>

FailFlow(f) ==
    /\ worker = "fail" /\ f \in failing
    /\ failing' = failing \ {f}
    /\ answer' = IF answer[f] = "none" THEN [answer EXCEPT ![f] = "failed"] ELSE answer
    /\ UNCHANGED <<threadVars, mgrVars, token, started, asker, closeVars, worker, resp,
                   nodeVars, queue, sentVars>>

\* The worker returns and command_rx is dropped with what it still holds.
WorkerExit ==
    /\ worker = "fail" /\ failing = {}
    /\ worker' = "done" /\ queue' = <<>>
    /\ UNCHANGED <<threadVars, mgrVars, flowVars, closeVars, resp, failing, nodeVars, sentVars>>
-----------------------------------------------------------------------------
(* The node (external) answers a request it has received, or answers it   *)
(* again once its last response was read, or never does.  A response with *)
(* a status other than zero is not an answer.                             *)

NodeAnswer(f, grant) ==
    /\ worker # "done"
    /\ Auth(f) \in wire
    /\ \A r \in inflight : r.flow # f
    /\ inflight' = inflight \cup {[flow |-> f, grant |-> grant]}
    /\ granted' = IF grant THEN granted \cup {f} ELSE granted
    /\ UNCHANGED <<threadVars, mgrVars, flowVars, closeVars, workerVars, queue, sentVars>>
-----------------------------------------------------------------------------
CallerStep(t) ==
    \/ Lookup(t) \/ Create(t) \/ InsertKey(t) \/ InsertId(t)
    \/ Cached(t) \/ Claim(t) \/ AuthFlag(t) \/ AuthSend(t)
    \/ Wake(t) \/ Timeout(t) \/ ReadToken(t)
    \/ DataFlag(t) \/ DataSend(t) \/ BeatFlag(t) \/ BeatSend(t)
CloserStep(t) == CloseSend(t) \/ CloseLock(t) \/ CloseJoin(t)
WorkerStep ==
    \/ DrainCommand \/ StoreToken \/ StoreResult
    \/ SetCloseFlag \/ Collect \/ WorkerExit
    \/ \E f \in Flows : FailFlow(f)
ReadStep == ReadBegin \/ ReadEnd \/ \E r \in inflight : TakeResponse(r)

Next ==
    \/ \E t \in Callers :
        HeartbeatBegin(t) \/ CallerStep(t) \/ \E k \in Keys : PacketBegin(t, k)
    \/ \E t \in Closers : CloseBegin(t) \/ CloserStep(t)
    \/ WorkerStep \/ ReadStep \/ Break
    \/ \E f \in Flows, grant \in BOOLEAN : NodeAnswer(f, grant)

Spec == Init /\ [][Next]_vars

\* Threads are scheduled, and wait_timeout() ends.  The worker reads a bounded
\* batch of frames before it returns to its queue (L3Worker), so that reading
\* frame after frame cannot keep it from its commands; that it comes back from
\* the stream at all is the node's doing, and no step of ReadStep is fair.
FairSpec ==
    /\ Spec
    /\ \A t \in Callers : WF_vars(CallerStep(t))
    /\ \A t \in Closers : WF_vars(CloserStep(t))
    /\ WF_vars(WorkerStep) /\ SF_vars(DrainCommand)
-----------------------------------------------------------------------------
(* Properties *)

\* A packet travels only under a token the node granted to its own flow,
\* whatever flows are created, asked for and answered at the same time.
OwnToken ==
    \A cmd \in wire : cmd.op = "data" =>
        cmd.flow \in granted /\ cmd.token = Token(cmd.flow)

\* A thread that is told "granted" finds the token: handle_auth_resp stores
\* it first, and write_packet() never fails with "missing connect token".
NoMissingToken == \A t \in Callers : result[t] # "missing"

\* A flow is asked for at most once, whoever claims it; in particular a flow
\* whose answer was lost is not asked for again.
AskedOnce == \A f \in Flows : asked[f] <= 1

\* A remote that stops releases its waiters at once and not after eight
\* seconds: the flow of a thread that created it and asked for it itself is
\* always seen by fail_pending, because close_flag is set before it runs and
\* the flow is registered before it is asked for.
NoWaiterLeft ==
    worker = "done" =>
        \A t \in Callers : pc[t] = "wait" /\ creator[ct[t]] = t /\ asker[ct[t]] = t
            => answer[ct[t]] # "none"

\* The flows as FlowAuth sees them.
Phase == [f \in Flows |->
             IF answer[f] # "none" THEN answer[f]
             ELSE IF started[f] THEN "asked" ELSE "new"]
Promise == INSTANCE FlowAuth WITH auth <- Phase

\* The remote keeps FlowAuth's promise: an answer is never overwritten by the
\* failure of the remote and never appears for a flow nobody asked for.
Promised == Promise!Spec

\* What the node owes the worker: the second half of a frame it has begun, and
\* a pause between its notices.  read_tunnel_exact_blocking waits for the one
\* and read_l3_frame_available reads on after the other without a limit.
ReadsEnd == worker = "reading" ~> worker # "reading"

\* write_packet() and send_heartbeat() return although the node may never
\* answer, hold the worker for ever or see the remote closed meanwhile.  close()
\* waits for the worker: it returns for every closer if the node lets the worker
\* off the stream, and for none before the worker is gone and no packet is
\* accepted any more.
CallsReturn ==
    /\ \A t \in Callers : pc[t] # "idle" ~> pc[t] = "idle"
    /\ ReadsEnd => \A t \in Closers : pc[t] # "idle" ~> pc[t] = "idle"
    /\ [](\A t \in Closers : result[t] = "done" => worker = "done" /\ close_flag)
=============================================================================
