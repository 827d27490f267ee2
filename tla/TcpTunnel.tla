----------------------------- MODULE TcpTunnel -----------------------------
(***************************************************************************)
(* TcpTunnel (crates/libreatrust-core/src/transport.rs): one TLS stream to *)
(* an aTrust node, owned by a worker thread.  Callers hand it commands     *)
(* over an mpsc channel, wake it through a loopback socket and wait for    *)
(* the acknowledgement; the worker hands received data back over a second  *)
(* channel.  One action is one step of one thread between two points where *)
(* another thread can see or change the shared state.                      *)
(***************************************************************************)
EXTENDS Naturals, Sequences, FiniteSets

CONSTANTS
    Writers,         \* threads that call write()
    Closers,         \* threads that call close() (or drop the tunnel)
    Readers,         \* threads that call read()
    NoThread,
    LevelTriggered,  \* TRUE: WSAPoll (windows); FALSE: mio's epoll/kqueue
    WakeCapacity,    \* bytes the loopback wake socket buffers
    MaxWrites,       \* bound: write() calls of one thread
    MaxFrames,       \* bound: frames the node sends
    MaxLen           \* bound: bytes of one data frame or read buffer

Threads == Writers \cup Closers \cup Readers

ASSUME TcpTunnelAssumption ==
    /\ NoThread \notin Threads
    /\ LevelTriggered \in BOOLEAN
    /\ WakeCapacity \in Nat \ {0}
    /\ MaxWrites \in Nat
    /\ MaxFrames \in Nat
    /\ MaxLen \in Nat \ {0}

VARIABLES
    closed,     \* TcpTunnel.closed
    handle,     \* TcpTunnel.worker holds the JoinHandle
    joinLock,   \* holder of the TcpTunnel.worker mutex
    writeQ,     \* write_tx/write_rx
    wakeBytes,  \* unread bytes of the wake socket
    wakeEvent,  \* the poller has a pending event for the wake socket
    worker,     \* program counter of run_tcp_tunnel_worker
    event,      \* the TcpTunnelEvent that wait() returned
    pc,         \* program counter of each caller
    ack,        \* the ack channel of the caller's write
    result,     \* what the caller's last write() or close() returned
    wrote,      \* write() calls each writer has made
    wire,       \* history: what the worker put on the TLS stream
    arrived,    \* frames received and not yet read by the worker
    sockEvent,  \* the poller has a pending event for the tunnel socket
    sent,       \* history: frames and bytes the node has sent
    incoming,   \* incoming_tx/incoming_rx
    readBuf,    \* TcpTunnel.read_buf
    want,       \* length of the buffer a reader waits to fill
    rest,       \* the part of a chunk a reader has still to store
    got         \* history: the bytes read() has copied out, in order

callVars == <<pc, ack, result, wrote>>
wakeVars == <<wakeBytes, wakeEvent>>
joinVars == <<closed, handle, joinLock>>
nodeVars == <<arrived, sockEvent, sent>>
readVars == <<readBuf, want, rest, got>>
vars == <<callVars, wakeVars, joinVars, nodeVars, readVars,
          writeQ, worker, event, wire, incoming>>

Write(t, n) == [op |-> "Write", by |-> t, n |-> n]
Partial(t, n) == [op |-> "Partial", by |-> t, n |-> n]
Close == [op |-> "Close", by |-> NoThread, n |-> 0]

Commands == [op : {"Write"}, by : Writers, n : Nat] \cup {Close}

WireItems ==
    [op : {"Write", "Partial", "Close"}, by : Writers \cup {NoThread}, n : Nat]

Events == [socket : BOOLEAN, wake : BOOLEAN]
NoEvent == [socket |-> FALSE, wake |-> FALSE]

\* A frame of the node's stream.  Bytes are numbered in the order they are
\* sent.  A frame that is not whole is one whose tail is still under way.
DataFrame(bytes) == [kind |-> "data", bytes |-> bytes, whole |-> TRUE]
ControlFrame == [kind |-> "control", bytes |-> <<>>, whole |-> TRUE]
EndFrame == [kind |-> "end", bytes |-> <<>>, whole |-> TRUE]
Piece(f, whole) == [kind |-> f.kind, bytes |-> f.bytes, whole |-> whole]

\* The next n bytes of the node's stream.
NextBytes(n) == [i \in 1..n |-> sent.bytes + i]

Frames ==
    {DataFrame(NextBytes(n)) : n \in 0..MaxLen} \cup {ControlFrame, EndFrame}

Ended(frames) == frames # <<>> /\ frames[Len(frames)].kind = "end"
Split(frames) == frames # <<>> /\ ~frames[Len(frames)].whole

\* connect(): the worker starts on a stream whose handshake may have pulled
\* the first data frame into rustls, for which the socket stays silent.
Init ==
    /\ closed = FALSE /\ handle = TRUE /\ joinLock = NoThread
    /\ writeQ = <<>>
    /\ wakeBytes = 0 /\ wakeEvent = FALSE
    /\ worker = "start" /\ event = NoEvent
    /\ pc = [t \in Threads |-> "idle"]
    /\ ack = [t \in Writers |-> "none"]
    /\ result = [t \in Threads |-> "none"]
    /\ wrote = [t \in Writers |-> 0]
    /\ wire = <<>>
    /\ \/ arrived = <<>> /\ sent = [frames |-> 0, bytes |-> 0]
       \/ arrived = <<DataFrame(<<1>>)>> /\ sent = [frames |-> 0, bytes |-> 1]
    /\ sockEvent = FALSE
    /\ incoming = <<>>
    /\ readBuf = <<>>
    /\ want = [t \in Readers |-> 0]
    /\ rest = [t \in Readers |-> <<>>]
    /\ got = <<>>
-----------------------------------------------------------------------------
(* Callers: write().  An empty write returns Ok(0) and touches nothing. *)

Return(t, outcome) ==
    /\ pc' = [pc EXCEPT ![t] = "idle"]
    /\ result' = [result EXCEPT ![t] = outcome]

Goto(t, label) ==
    /\ pc' = [pc EXCEPT ![t] = label]
    /\ UNCHANGED result

WriteBegin(t) ==
    /\ pc[t] = "idle" /\ wrote[t] < MaxWrites
    /\ wrote' = [wrote EXCEPT ![t] = @ + 1]
    /\ ack' = [ack EXCEPT ![t] = "none"]
    /\ \/ closed /\ Return(t, "err")
       \/ ~closed /\ pc' = [pc EXCEPT ![t] = "send"]
                  /\ result' = [result EXCEPT ![t] = "none"]
    /\ UNCHANGED <<wakeVars, joinVars, nodeVars, readVars,
                   writeQ, worker, event, wire, incoming>>

\* write_tx.send() fails once the worker has dropped write_rx.
WriteSend(t) ==
    /\ pc[t] = "send"
    /\ \/ /\ worker = "done"
          /\ Return(t, "err") /\ UNCHANGED writeQ
       \/ /\ worker # "done"
          /\ writeQ' = Append(writeQ, Write(t, wrote[t])) /\ Goto(t, "wake")
    /\ UNCHANGED <<ack, wrote, wakeVars, joinVars, nodeVars, readVars,
                   worker, event, wire, incoming>>

\* wake_worker(): a byte that finds the socket full or closed is dropped silently.
WakeWorker ==
    IF worker # "done" /\ wakeBytes < WakeCapacity
    THEN wakeBytes' = wakeBytes + 1 /\ wakeEvent' = TRUE
    ELSE UNCHANGED wakeVars

WriteWake(t) ==
    /\ pc[t] = "wake"
    /\ WakeWorker
    /\ Goto(t, "ack")
    /\ UNCHANGED <<ack, wrote, joinVars, nodeVars, readVars,
                   writeQ, worker, event, wire, incoming>>

\* Mutant: write() keeps a clone of ack_tx, so that recv() waits for ever.
WriteAckHoldsSender(t) ==
    /\ pc[t] = "ack" /\ ack[t] # "none"
    /\ Return(t, ack[t])
    /\ UNCHANGED <<ack, wrote, wakeVars, joinVars, nodeVars, readVars,
                   writeQ, worker, event, wire, incoming>>

\* ack_rx.recv() fails when the command was dropped with the worker.
WriteAck(t) ==
    /\ pc[t] = "ack"
    /\ \/ ack[t] # "none" /\ Return(t, ack[t])
       \/ ack[t] = "none" /\ worker = "done" /\ Return(t, "err")
    /\ UNCHANGED <<ack, wrote, wakeVars, joinVars, nodeVars, readVars,
                   writeQ, worker, event, wire, incoming>>
-----------------------------------------------------------------------------
(* Callers: close(), which Drop calls too. *)

CloseBegin(t) ==
    /\ pc[t] = "idle"
    /\ closed' = TRUE
    /\ pc' = [pc EXCEPT ![t] = IF closed THEN "lock" ELSE "closeSend"]
    /\ result' = [result EXCEPT ![t] = "none"]
    /\ UNCHANGED <<ack, wrote, handle, joinLock, wakeVars, nodeVars, readVars,
                   writeQ, worker, event, wire, incoming>>

CloseSend(t) ==
    /\ pc[t] = "closeSend"
    /\ writeQ' = IF worker = "done" THEN writeQ ELSE Append(writeQ, Close)
    /\ Goto(t, "closeWake")
    /\ UNCHANGED <<ack, wrote, wakeVars, joinVars, nodeVars, readVars,
                   worker, event, wire, incoming>>

CloseWake(t) ==
    /\ pc[t] = "closeWake"
    /\ WakeWorker
    /\ Goto(t, "lock")
    /\ UNCHANGED <<ack, wrote, joinVars, nodeVars, readVars,
                   writeQ, worker, event, wire, incoming>>

\* Mutant: the handle is taken in a statement of its own, so that the mutex
\* is free again while the first closer joins.
CloseLockReleased(t) ==
    /\ pc[t] = "lock" /\ joinLock = NoThread
    /\ \/ handle /\ Goto(t, "join")
       \/ ~handle /\ Return(t, "closed")
    /\ handle' = FALSE
    /\ UNCHANGED <<ack, wrote, closed, joinLock, wakeVars, nodeVars, readVars,
                   writeQ, worker, event, wire, incoming>>

\* The guard of `self.worker.lock().unwrap().take()` lives through the body
\* of the if-let: the mutex stays locked while the first closer joins.
CloseLock(t) ==
    /\ pc[t] = "lock" /\ joinLock = NoThread
    /\ \/ handle /\ joinLock' = t /\ Goto(t, "join")
       \/ ~handle /\ Return(t, "closed") /\ UNCHANGED joinLock
    /\ handle' = FALSE
    /\ UNCHANGED <<ack, wrote, closed, wakeVars, nodeVars, readVars,
                   writeQ, worker, event, wire, incoming>>

CloseJoin(t) ==
    /\ pc[t] = "join" /\ worker = "done"
    /\ joinLock' = NoThread
    /\ Return(t, "closed")
    /\ UNCHANGED <<ack, wrote, closed, handle, wakeVars, nodeVars, readVars,
                   writeQ, worker, event, wire, incoming>>
-----------------------------------------------------------------------------
(* Callers: read(). *)

Lesser(m, n) == IF m < n THEN m ELSE n
Taken(s, n) == SubSeq(s, 1, n)
Dropped(s, n) == SubSeq(s, n + 1, Len(s))

\* The cached bytes first; a read that finds some, or wants none, returns.
ReadBegin(t, len) ==
    LET take == Lesser(len, Len(readBuf)) IN
    /\ pc[t] = "idle"
    /\ readBuf' = Dropped(readBuf, take)
    /\ got' = got \o Taken(readBuf, take)
    /\ \/ /\ take > 0 \/ len = 0
          /\ Return(t, "none") /\ UNCHANGED want
       \/ /\ ~(take > 0 \/ len = 0)
          /\ pc' = [pc EXCEPT ![t] = "recv"]
          /\ result' = [result EXCEPT ![t] = "none"]
          /\ want' = [want EXCEPT ![t] = len]
    /\ UNCHANGED <<ack, wrote, rest, wakeVars, joinVars, nodeVars,
                   writeQ, worker, event, wire, incoming>>

\* recv() under the incoming_rx mutex hands each item to one reader.
ReadRecv(t) ==
    /\ pc[t] = "recv" /\ incoming # <<>>
    /\ incoming' = Tail(incoming) /\ want' = [want EXCEPT ![t] = 0]
    /\ LET item == Head(incoming)
           direct == Lesser(want[t], Len(item.bytes))
       IN  \/ /\ item.kind = "end"
              /\ Return(t, "none") /\ UNCHANGED <<got, rest>>
           \/ /\ item.kind = "data"
              /\ got' = got \o Taken(item.bytes, direct)
              /\ rest' = [rest EXCEPT ![t] = Dropped(item.bytes, direct)]
              /\ \/ direct = Len(item.bytes)
                    /\ Return(t, "none")
                 \/ direct < Len(item.bytes) /\ Goto(t, "stash")
    /\ UNCHANGED <<ack, wrote, readBuf, wakeVars, joinVars, nodeVars,
                   writeQ, worker, event, wire>>

\* Mutant: off by one, the first byte of the leftover is lost.
ReadStashOffByOne(t) ==
    /\ pc[t] = "stash"
    /\ readBuf' = Tail(rest[t])
    /\ rest' = [rest EXCEPT ![t] = <<>>]
    /\ Return(t, "none")
    /\ UNCHANGED <<ack, wrote, want, got, wakeVars, joinVars, nodeVars,
                   writeQ, worker, event, wire, incoming>>

ReadStash(t) ==
    /\ pc[t] = "stash"
    /\ readBuf' = readBuf \o rest[t]
    /\ rest' = [rest EXCEPT ![t] = <<>>]
    /\ Return(t, "none")
    /\ UNCHANGED <<ack, wrote, want, got, wakeVars, joinVars, nodeVars,
                   writeQ, worker, event, wire, incoming>>

\* The channel is empty and the worker has dropped incoming_tx: Ok(0).
ReadEof(t) ==
    /\ pc[t] = "recv" /\ incoming = <<>> /\ worker = "done"
    /\ Return(t, "none") /\ want' = [want EXCEPT ![t] = 0]
    /\ UNCHANGED <<ack, wrote, readBuf, rest, got, wakeVars, joinVars, nodeVars,
                   writeQ, worker, event, wire, incoming>>
-----------------------------------------------------------------------------
(* The worker. *)

\* Returning drops write_rx with the commands still queued, incoming_tx, the
\* poller, the wake socket and the stream with the frames nobody has read.
ownVars == <<wakeVars, event, arrived, sockEvent>>
WorkerExit ==
    /\ worker' = "done" /\ writeQ' = <<>>
    /\ wakeBytes' = 0 /\ wakeEvent' = FALSE
    /\ event' = NoEvent /\ arrived' = <<>> /\ sockEvent' = FALSE

Report(item) == incoming' = Append(incoming, item)

\* Mutant: the worker waits before it has looked at the handshake's leftovers.
WorkerStartSkipsDrain ==
    /\ worker = "start"
    /\ \/ worker' = "commands" /\ UNCHANGED <<ownVars, writeQ, incoming>>
       \/ WorkerExit /\ Report(EndFrame)
    /\ UNCHANGED <<callVars, joinVars, sent, readVars, wire>>

\* TcpTunnelEventSource::new may fail.
WorkerStart ==
    /\ worker = "start"
    /\ \/ worker' = "frames" /\ UNCHANGED <<ownVars, writeQ, incoming>>
       \/ WorkerExit /\ Report(EndFrame)
    /\ UNCHANGED <<callVars, joinVars, sent, readVars, wire>>

\* drain_tcp_tunnel_frames: a read that finds the stream silent at a frame
\* boundary ends the drain; in the middle of a frame it waits for the tail.
ReadFrame ==
    /\ worker = "frames" /\ arrived # <<>> /\ Head(arrived).whole
    /\ \/ /\ Head(arrived).kind = "data"
          /\ arrived' = Tail(arrived) /\ Report(Head(arrived))
          /\ UNCHANGED <<worker, writeQ, wakeVars, sockEvent, event>>
       \/ /\ Head(arrived).kind = "control"
          /\ arrived' = Tail(arrived)
          /\ UNCHANGED <<incoming, worker, writeQ, wakeVars, sockEvent, event>>
       \/ /\ Head(arrived).kind = "end"
          /\ Report(EndFrame) /\ WorkerExit
    /\ UNCHANGED <<callVars, joinVars, readVars, sent, wire>>

FramesDrained ==
    /\ worker = "frames" /\ arrived = <<>>
    /\ worker' = "commands" /\ event' = NoEvent
    /\ UNCHANGED <<callVars, wakeVars, joinVars, nodeVars, readVars,
                   writeQ, wire, incoming>>

\* Mutant: a write that failed is acknowledged like one that succeeded.
DrainCommandAcksFailure ==
    /\ worker \in {"commands", "wakeCommands"} /\ writeQ # <<>>
    /\ LET cmd == Head(writeQ) IN
       \/ /\ cmd.op = "Write"
          /\ wire' \in {Append(wire, cmd), Append(wire, Partial(cmd.by, cmd.n))}
          /\ ack' = [ack EXCEPT ![cmd.by] = "ok"]
          /\ writeQ' = Tail(writeQ) /\ UNCHANGED <<worker, ownVars>>
       \/ /\ cmd.op = "Close"
          /\ wire' = Append(wire, Close)
          /\ WorkerExit /\ UNCHANGED ack
    /\ UNCHANGED <<pc, result, wrote, joinVars, sent, readVars, incoming>>

\* Mutant: the worker goes on after a write that failed.
DrainCommandGoesOn ==
    /\ worker \in {"commands", "wakeCommands"} /\ writeQ # <<>>
    /\ LET cmd == Head(writeQ) IN
       \/ /\ cmd.op = "Write"
          /\ wire' = Append(wire, cmd)
          /\ ack' = [ack EXCEPT ![cmd.by] = "ok"]
          /\ writeQ' = Tail(writeQ) /\ UNCHANGED <<worker, ownVars>>
       \/ /\ cmd.op = "Write"
          /\ wire' = Append(wire, Partial(cmd.by, cmd.n))
          /\ ack' = [ack EXCEPT ![cmd.by] = "err"]
          /\ writeQ' = Tail(writeQ) /\ UNCHANGED <<worker, ownVars>>
       \/ /\ cmd.op = "Close"
          /\ wire' = Append(wire, Close)
          /\ WorkerExit /\ UNCHANGED ack
    /\ UNCHANGED <<pc, result, wrote, joinVars, sent, readVars, incoming>>

\* drain_tcp_tunnel_commands, one command.  A write that fails may have put
\* part of the payload on the stream; the close frame is sent without
\* looking at the outcome.
DrainCommand ==
    /\ worker \in {"commands", "wakeCommands"} /\ writeQ # <<>>
    /\ LET cmd == Head(writeQ) IN
       \/ /\ cmd.op = "Write"
          /\ wire' = Append(wire, cmd)
          /\ ack' = [ack EXCEPT ![cmd.by] = "ok"]
          /\ writeQ' = Tail(writeQ) /\ UNCHANGED <<worker, ownVars>>
       \/ /\ cmd.op = "Write"
          /\ wire' \in {wire, Append(wire, Partial(cmd.by, cmd.n))}
          /\ ack' = [ack EXCEPT ![cmd.by] = "err"]
          /\ WorkerExit
       \/ /\ cmd.op = "Close"
          /\ wire' \in {wire, Append(wire, Close)}
          /\ WorkerExit /\ UNCHANGED ack
    /\ UNCHANGED <<pc, result, wrote, joinVars, sent, readVars, incoming>>

CommandsDrained ==
    /\ worker \in {"commands", "wakeCommands"} /\ writeQ = <<>>
    /\ worker' = IF worker = "commands" THEN "wait"
                 ELSE IF event.socket THEN "frames" ELSE "commands"
    /\ event' = NoEvent
    /\ UNCHANGED <<callVars, wakeVars, joinVars, nodeVars, readVars,
                   writeQ, wire, incoming>>

WakeReady == IF LevelTriggered THEN wakeBytes > 0 ELSE wakeEvent
SocketReady == sockEvent /\ (LevelTriggered => arrived # <<>>)

\* Mutant: the wake event is looked at only when the socket is silent.
WaitPrefersSocket ==
    /\ worker = "wait" /\ (WakeReady \/ SocketReady)
    /\ event' = [socket |-> SocketReady, wake |-> WakeReady /\ ~SocketReady]
    /\ wakeEvent' = (wakeEvent /\ LevelTriggered)
    /\ sockEvent' = (sockEvent /\ LevelTriggered)
    /\ worker' = IF SocketReady THEN "frames" ELSE "drainWake"
    /\ UNCHANGED <<callVars, joinVars, readVars, wakeBytes, arrived, sent,
                   writeQ, wire, incoming>>

\* SocketReadiness::wait(None): blocks until a source is ready, reports all
\* that are.  An edge-triggered poller forgets what it has reported.
Wait ==
    /\ worker = "wait" /\ (WakeReady \/ SocketReady)
    /\ event' = [socket |-> SocketReady, wake |-> WakeReady]
    /\ wakeEvent' = (wakeEvent /\ LevelTriggered)
    /\ sockEvent' = (sockEvent /\ LevelTriggered)
    /\ worker' = IF WakeReady THEN "drainWake" ELSE "frames"
    /\ UNCHANGED <<callVars, joinVars, readVars, wakeBytes, arrived, sent,
                   writeQ, wire, incoming>>

\* poll() itself fails, EINTR included.
WaitFails ==
    /\ worker = "wait"
    /\ WorkerExit /\ Report(EndFrame)
    /\ UNCHANGED <<callVars, joinVars, sent, readVars, wire>>

DrainWake ==
    /\ worker = "drainWake"
    /\ wakeBytes' = 0
    /\ worker' = "wakeCommands"
    /\ UNCHANGED <<callVars, wakeEvent, joinVars, nodeVars, readVars,
                   writeQ, event, wire, incoming>>
-----------------------------------------------------------------------------
(* The node at the other end (external). *)

\* Frames with data are counted; of the others one more can always come.
NodeSend(f, whole) ==
    /\ worker # "done"
    /\ sent.frames < MaxFrames \/ (f = ControlFrame /\ arrived = <<>>)
    /\ ~Ended(arrived) /\ ~Split(arrived)
    /\ arrived' = Append(arrived, Piece(f, whole))
    /\ sent' = [frames |-> Lesser(sent.frames + 1, MaxFrames),
                bytes |-> sent.bytes + Len(f.bytes)]
    /\ sockEvent' = TRUE
    /\ UNCHANGED <<callVars, wakeVars, joinVars, readVars,
                   writeQ, worker, event, wire, incoming>>

\* The tail of the split frame arrives, or the stream ends in its middle.
NodeFinish ==
    /\ Split(arrived)
    /\ arrived' \in {[arrived EXCEPT ![Len(arrived)] = Piece(@, TRUE)],
                     [arrived EXCEPT ![Len(arrived)] = EndFrame]}
    /\ sockEvent' = TRUE
    /\ UNCHANGED <<callVars, wakeVars, joinVars, readVars, sent,
                   writeQ, worker, event, wire, incoming>>
-----------------------------------------------------------------------------
WriterStep(t) == WriteSend(t) \/ WriteWake(t) \/ WriteAck(t)
CloserStep(t) == CloseSend(t) \/ CloseWake(t) \/ CloseLock(t) \/ CloseJoin(t)
ReaderStep(t) == ReadRecv(t) \/ ReadStash(t) \/ ReadEof(t)
CallerStep(t) ==
    \/ t \in Writers /\ WriterStep(t)
    \/ t \in Closers /\ CloserStep(t)
    \/ t \in Readers /\ ReaderStep(t)
WorkerStep ==
    \/ WorkerStart \/ ReadFrame \/ FramesDrained \/ DrainCommand
    \/ CommandsDrained \/ Wait \/ DrainWake

Next ==
    \/ \E t \in Writers : WriteBegin(t) \/ WriterStep(t)
    \/ \E t \in Closers : CloseBegin(t) \/ CloserStep(t)
    \/ \E t \in Readers : (\E n \in 0..MaxLen : ReadBegin(t, n)) \/ ReaderStep(t)
    \/ WorkerStep \/ WaitFails
    \/ \E f \in Frames, whole \in BOOLEAN : NodeSend(f, whole)
    \/ NodeFinish

Spec == Init /\ [][Next]_vars

\* Threads are scheduled.  The node owes nothing: it may leave a frame half
\* sent, and it may send one frame after the other without a pause.
FairSpec ==
    /\ Spec
    /\ \A t \in Threads : WF_vars(CallerStep(t))
    /\ WF_vars(WorkerStep)
-----------------------------------------------------------------------------
(* Properties. *)

Frame == [kind : {"data", "control", "end"}, bytes : Seq(Nat), whole : BOOLEAN]

CallTypeOK ==
    /\ pc \in [Threads -> {"idle", "send", "wake", "ack", "closeSend",
                           "closeWake", "lock", "join", "recv", "stash"}]
    /\ ack \in [Writers -> {"none", "ok", "err"}]
    /\ result \in [Threads -> {"none", "ok", "err", "closed"}]
    /\ wrote \in [Writers -> Nat]
    /\ joinLock \in Closers \cup {NoThread}
WorkerTypeOK ==
    /\ worker \in {"start", "frames", "commands", "wait", "drainWake",
                   "wakeCommands", "done"}
    /\ event \in Events
    /\ writeQ \in Seq(Commands)
    /\ wakeBytes \in 0..WakeCapacity
    /\ wire \in Seq(WireItems)
FlagTypeOK ==
    /\ closed \in BOOLEAN /\ handle \in BOOLEAN
    /\ wakeEvent \in BOOLEAN /\ sockEvent \in BOOLEAN
StreamTypeOK ==
    /\ arrived \in Seq(Frame) /\ incoming \in Seq(Frame)
    /\ sent \in [frames : Nat, bytes : Nat]
    /\ readBuf \in Seq(Nat) /\ got \in Seq(Nat)
    /\ want \in [Readers -> Nat]
    /\ rest \in [Readers -> Seq(Nat)]

\* Every variable of the tunnel, its worker and its callers has its type: in
\* particular the wake socket never holds more than WakeCapacity bytes and
\* the queue holds nothing but the commands of write() and close().
TypeOK == CallTypeOK /\ WorkerTypeOK /\ FlagTypeOK /\ StreamTypeOK

\* No lost wake-up: when the worker sleeps in wait() without a wake-up on its
\* way, a queued command still has a caller about to wake the worker for it.
\* The wake socket is drained before the queue, a byte is dropped when the
\* socket is full, and an edge-triggered poller reports an arrival only once.
NoStrandedCommand ==
    worker = "wait" /\ ~WakeReady /\ writeQ # <<>> =>
        \E t \in Threads : pc[t] \in {"wake", "closeWake"}

OnWire(t, n) == \E i \in DOMAIN wire : wire[i] = Write(t, n)

\* write() tells the truth: it returns Ok exactly when the worker has put the
\* payload on the stream, also when it races close() or the worker's end.
OkIffOnWire ==
    \A t \in Writers : result[t] \in {"ok", "err"} =>
        (result[t] = "ok" <=> OnWire(t, wrote[t]))

\* The stream ends with the close frame or with a payload cut short, and a
\* thread's payloads reach it in the order of its calls, each at most once.
WireWellFormed ==
    \A i, j \in DOMAIN wire : i < j =>
        /\ wire[i].op = "Write"
        /\ wire[i].by = wire[j].by => wire[i].n < wire[j].n

\* Once any close() has returned the worker thread is gone, also for a caller
\* that only found the tunnel closed already by another thread.
CloseMeansStopped ==
    \A t \in Closers : result[t] = "closed" => worker = "done"

\* The bytes of a sequence of frames.
Bytes(frames) ==
    LET cat[i \in 0..Len(frames)] ==
            IF i = 0 THEN <<>> ELSE cat[i - 1] \o frames[i].bytes
    IN  cat[Len(frames)]

\* The node's stream as reader t finds it: what read() copied out, what it
\* keeps in read_buf, what waits in the channel and what the worker has still
\* to read.
Stream(t) == got \o rest[t] \o readBuf \o Bytes(incoming) \o Bytes(arrived)

\* The bytes 1, 2, 3, ... without gap or repetition.
Numbered(bytes) == \A i \in DOMAIN bytes : bytes[i] = i

\* A single reader sees the node's byte stream in order, without gap or
\* repetition, however frames and read buffers cut it, and all of it until it
\* ends.
StreamInOrder ==
    \A t \in Readers :
        /\ Numbered(Stream(t))
        /\ worker # "done" /\ ~Ended(arrived) => Len(Stream(t)) = sent.bytes

\* What a node that behaves owes to drain_tcp_tunnel_frames: the rest of a
\* frame it has begun, for which the worker waits without a deadline, and in the
\* end a pause of a millisecond, because the drain has no limit.
FramesEnd == Split(arrived) ~> ~Split(arrived)
DrainsEnd == worker = "frames" ~> worker # "frames"

\* As long as the node lets every drain end, every call ends: write() whether the
\* worker serves it, fails or stops, close() for every caller and so, by
\* CloseMeansStopped, with the worker stopped, and after a close() also the
\* read() that waits for data that will not come.
CallsReturn ==
    DrainsEnd =>
        /\ \A t \in Writers : pc[t] = "send" ~> pc[t] = "idle"
        /\ \A t \in Closers : pc[t] \in {"closeSend", "lock"} ~> pc[t] = "idle"
        /\ \A t \in Readers : closed /\ pc[t] = "recv" ~> pc[t] = "idle"

\* Data that has arrived whole is delivered without waiting for another event,
\* the data that the handshake left in the TLS buffer included.
ArrivedIsDelivered ==
    FramesEnd => (arrived # <<>> ~> arrived = <<>> \/ worker = "done")
-----------------------------------------------------------------------------
(* The inductive invariants behind the safety properties. *)

\* An unread wake byte is announced by the poller, except while the worker
\* that took the announcement has still to drain the socket.
WakeAnnounced == wakeBytes > 0 /\ worker # "drainWake" => wakeEvent

\* The handle is gone and nobody is joining: the join has returned.
JoinedMeansStopped == ~handle /\ joinLock = NoThread => worker = "done"

\* A queued payload belongs to the call its writer is in the middle of, and
\* a writer has at most one payload queued.
QueuedIsCurrent ==
    \A i \in DOMAIN writeQ : writeQ[i].op = "Write" =>
        LET t == writeQ[i].by IN
        /\ t \in Writers /\ writeQ[i].n = wrote[t]
        /\ pc[t] \in {"wake", "ack"} /\ ack[t] = "none"
QueuedOnce ==
    \A i, j \in DOMAIN writeQ :
        i # j /\ writeQ[i].op = "Write" => writeQ[i] # writeQ[j]

\* What is on the stream comes from calls already made, and the current
\* call's payload is there only with its acknowledgement.
WireIsAcked ==
    \A i \in DOMAIN wire : wire[i].op # "Close" =>
        LET t == wire[i].by IN
        /\ t \in Writers /\ wire[i].n <= wrote[t]
        /\ wire[i].n = wrote[t] =>
               ack[t] = IF wire[i].op = "Write" THEN "ok" ELSE "err"
AckIsWired == \A t \in Writers : ack[t] = "ok" => OnWire(t, wrote[t])

\* A frame that ends the stream is put there by a worker that then stops,
\* and a stopped worker leaves no queue behind.
LastFrameStops == \A i \in DOMAIN wire : wire[i].op # "Write" => worker = "done"
StoppedIsEmpty == worker = "done" => writeQ = <<>>

\* A call in progress has no result yet; a finished one has its ack's.
ResultIsAck ==
    /\ \A t \in Threads : pc[t] # "idle" => result[t] = "none"
    /\ \A t \in Writers :
        /\ pc[t] = "send" => ack[t] = "none"
        /\ result[t] = "ok" => ack[t] = "ok"
        /\ result[t] = "err" => ack[t] # "ok"

WireInv ==
    /\ QueuedIsCurrent /\ QueuedOnce
    /\ WireIsAcked /\ AckIsWired
    /\ LastFrameStops /\ StoppedIsEmpty
    /\ ResultIsAck

\* A single reader waits for a chunk with nothing left over from the last one,
\* and only a data frame carries bytes.
LeftoverIsStored ==
    \A t \in Readers :
        /\ pc[t] # "stash" => rest[t] = <<>>
        /\ pc[t] \in {"recv", "stash"} => readBuf = <<>>
OnlyDataHasBytes(frames) ==
    \A i \in DOMAIN frames : frames[i].kind # "data" => frames[i].bytes = <<>>

StreamInv ==
    /\ LeftoverIsStored
    /\ OnlyDataHasBytes(incoming) /\ OnlyDataHasBytes(arrived)
    /\ StreamInOrder
=============================================================================
