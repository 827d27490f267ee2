-------------------------- MODULE TcpTunnelProofs --------------------------
(* Proofs about TcpTunnel for every number of threads, writes and frames: its  *)
(* types, that a queued command is always seen, that close() is a barrier, and *)
(* that write() tells the truth about a well-formed stream.                    *)
EXTENDS TcpTunnel, SequenceTheorems, TLAPS

USE DEF Threads, callVars, wakeVars, joinVars, nodeVars, readVars, ownVars

\* What a step of the worker does to what it owns: it leaves it, takes it or,
\* when the thread ends, drops it.
LEMMA WorkerOwns ==
    ASSUME WorkerStep \/ WaitFails, ~Wait
    PROVE  /\ event' = event \/ event' = NoEvent
           /\ (worker # "drainWake" /\ wakeBytes' = wakeBytes) \/ wakeBytes' = 0
           /\ wakeEvent' = wakeEvent \/ wakeBytes' = 0
           /\ ReadFrame \/ arrived' = arrived \/ arrived' = <<>>
           /\ ReadFrame \/ incoming' = incoming \/ incoming' = Append(incoming, EndFrame)
<1>1. CASE WorkerStart
  BY <1>1, Zenon DEF WorkerStart, WorkerExit, Report
<1>2. CASE ReadFrame
  BY <1>2, Zenon DEF ReadFrame, WorkerExit
<1>3. CASE FramesDrained \/ CommandsDrained \/ DrainWake
  BY <1>3, Zenon DEF FramesDrained, CommandsDrained, DrainWake
<1>4. CASE DrainCommand
  BY <1>4, Zenon DEF DrainCommand, WorkerExit
<1>5. CASE WaitFails
  BY <1>5, Zenon DEF WaitFails, WorkerExit, Report
<1> QED
  BY <1>1, <1>2, <1>3, <1>4, <1>5, Zenon DEF WorkerStep

\* The callers' program counters, acknowledgements and results keep their types.
LEMMA CallTyping ==
    ASSUME CallTypeOK, [Next]_vars
    PROVE  CallTypeOK'
<1> USE TcpTunnelAssumption DEF CallTypeOK, Return, Goto
<1>1. ASSUME NEW t \in Writers, WriteBegin(t) \/ WriterStep(t)
      PROVE  CallTypeOK'
  <2>1. CASE WriteBegin(t)
    BY <2>1 DEF WriteBegin
  <2>2. CASE WriterStep(t)
    BY SMTT(30), <2>2 DEF WriterStep, WriteSend, WriteWake, WriteAck
  <2> QED BY <1>1, <2>1, <2>2
<1>2. ASSUME NEW t \in Closers, CloseBegin(t) \/ CloserStep(t)
      PROVE  CallTypeOK'
  BY <1>2, Zenon DEF CloseBegin, CloserStep, CloseSend, CloseWake, CloseLock, CloseJoin
<1>3. ASSUME NEW t \in Readers, NEW n \in 0..MaxLen, ReadBegin(t, n)
      PROVE  CallTypeOK'
  BY ZenonT(30), <1>3 DEF ReadBegin
<1>4. ASSUME NEW t \in Readers, ReaderStep(t)
      PROVE  CallTypeOK'
  <2>1. PICK l \in {"idle", "stash"} : pc' = [pc EXCEPT ![t] = l]
    BY <1>4, Zenon DEF ReaderStep, ReadRecv, ReadStash, ReadEof
  <2>2. result' = result \/ result' = [result EXCEPT ![t] = "none"]
    BY <1>4, Zenon DEF ReaderStep, ReadRecv, ReadStash, ReadEof
  <2>3. UNCHANGED <<ack, wrote, joinLock>>
    BY <1>4, Zenon DEF ReaderStep, ReadRecv, ReadStash, ReadEof
  <2>4. pc' \in [Threads -> {"idle", "send", "wake", "ack", "closeSend",
                             "closeWake", "lock", "join", "recv", "stash"}]
    BY <2>1, Zenon
  <2>5. result' \in [Threads -> {"none", "ok", "err", "closed"}]
    BY <2>2, Zenon
  <2> QED BY ZenonT(30), <2>3, <2>4, <2>5
<1>5. CASE WorkerStep \/ WaitFails
  <2>1. CASE DrainCommand
    BY <2>1, Zenon DEF DrainCommand
  <2>2. CASE ~DrainCommand
    BY <1>5, <2>2, Zenon DEF WorkerStep, WaitFails, WorkerStart, ReadFrame, FramesDrained,
                 CommandsDrained, Wait, DrainWake
  <2> QED BY <2>1, <2>2
<1>6. CASE NodeFinish \/ \E f \in Frames, whole \in BOOLEAN : NodeSend(f, whole)
  BY ZenonT(30), <1>6 DEF NodeFinish, NodeSend
<1>7. CASE UNCHANGED vars
  BY <1>7, Zenon DEF vars
<1> QED BY <1>1, <1>2, <1>3, <1>4, <1>5, <1>6, <1>7 DEF Next

\* So do the worker, its queue, the wake socket and the stream,
LEMMA WorkerTyping ==
    ASSUME CallTypeOK, WorkerTypeOK, FlagTypeOK, [Next]_vars
    PROVE  WorkerTypeOK'
<1> USE TcpTunnelAssumption DEF WorkerTypeOK
<1>1. ASSUME NEW t \in Writers, WriteBegin(t) \/ WriterStep(t)
      PROVE  WorkerTypeOK'
  <2>1. CASE WriteSend(t)
    <3>1. Write(t, wrote[t]) \in Commands
      BY Zenon DEF Write, Commands, CallTypeOK
    <3>2. Append(writeQ, Write(t, wrote[t])) \in Seq(Commands)
      BY <3>1, AppendProperties, Zenon
    <3> QED BY <2>1, <3>2 DEF WriteSend
  <2>2. CASE WriteWake(t)
    BY <2>2 DEF WriteWake, WakeWorker
  <2>3. CASE WriteBegin(t) \/ WriteAck(t)
    BY <2>3, Zenon DEF WriteBegin, WriteAck
  <2> QED BY <1>1, <2>1, <2>2, <2>3 DEF WriterStep
<1>2. ASSUME NEW t \in Closers, CloseBegin(t) \/ CloserStep(t)
      PROVE  WorkerTypeOK'
  <2>1. CASE CloseSend(t)
    <3>1. Close \in Commands
      BY Zenon DEF Commands
    <3>2. Append(writeQ, Close) \in Seq(Commands)
      BY <3>1, AppendProperties, Zenon
    <3> QED BY <2>1, <3>2 DEF CloseSend
  <2>2. CASE CloseWake(t)
    BY SMTT(30), <2>2 DEF CloseWake, WakeWorker
  <2>3. CASE CloseBegin(t) \/ CloseLock(t) \/ CloseJoin(t)
    BY <2>3, Zenon DEF CloseBegin, CloseLock, CloseJoin
  <2> QED BY <1>2, <2>1, <2>2, <2>3 DEF CloserStep
<1>3. ASSUME NEW t \in Readers, NEW n \in 0..MaxLen, ReadBegin(t, n)
      PROVE  WorkerTypeOK'
  BY <1>3, Zenon DEF ReadBegin
<1>4. ASSUME NEW t \in Readers, ReaderStep(t)
      PROVE  WorkerTypeOK'
  BY <1>4, Zenon DEF ReaderStep, ReadRecv, ReadStash, ReadEof
<1>5. CASE DrainCommand
  <2>1. Head(writeQ) \in Commands /\ Tail(writeQ) \in Seq(Commands)
    BY <1>5 DEF DrainCommand
  <2>2. event' \in {event, NoEvent} /\ wakeBytes' \in {wakeBytes, 0}
    BY <1>5, Zenon DEF DrainCommand, WorkerExit
  <2>3. NoEvent \in Events /\ 0 \in 0..WakeCapacity
    BY DEF NoEvent, Events
  <2>4. CASE Head(writeQ).op = "Write"
    <3>1. Head(writeQ).by \in Writers /\ Head(writeQ).n \in Nat
      BY <2>1, <2>4 DEF Commands, Close
    <3>2. Head(writeQ) \in WireItems
      BY <2>1, <2>4 DEF Commands, Close, WireItems
    <3>3. Partial(Head(writeQ).by, Head(writeQ).n) \in WireItems
      BY <3>1, Zenon DEF Partial, WireItems
    <3>4. \/ wire' = wire
          \/ wire' = Append(wire, Head(writeQ))
          \/ wire' = Append(wire, Partial(Head(writeQ).by, Head(writeQ).n))
      BY <1>5, <2>4, Zenon DEF DrainCommand
    <3>5. wire' \in Seq(WireItems)
      BY SMTT(30), <3>2, <3>3, <3>4
    <3>6. writeQ' \in {Tail(writeQ), <<>>} /\ worker' \in {worker, "done"}
      BY <1>5, <2>4, Zenon DEF DrainCommand, WorkerExit
    <3> QED BY ZenonT(30), <2>1, <2>2, <2>3, <3>5, <3>6, EmptySeq
  <2>5. CASE Head(writeQ).op = "Close"
    <3>1. Close \in WireItems
      BY Zenon DEF Close, WireItems
    <3>2. wire' \in {wire, Append(wire, Close)}
      BY <1>5, <2>5, Zenon DEF DrainCommand
    <3>3. wire' \in Seq(WireItems)
      BY <3>1, <3>2, AppendProperties
    <3>4. writeQ' = <<>> /\ worker' = "done"
      BY <1>5, <2>5, Zenon DEF DrainCommand, WorkerExit
    <3> QED BY ZenonT(30), <2>2, <2>3, <3>3, <3>4, EmptySeq
  <2> QED BY <1>5, <2>4, <2>5 DEF DrainCommand
<1>6. CASE (WorkerStep /\ ~DrainCommand) \/ WaitFails
  <2>1. CASE Wait
    <3>1. WakeReady \in BOOLEAN
      <4>1. (wakeBytes > 0) \in BOOLEAN
        OBVIOUS
      <4>2. wakeEvent \in BOOLEAN
        BY Zenon DEF FlagTypeOK
      <4> QED BY <4>1, <4>2, Zenon DEF WakeReady
    <3>2. SocketReady \in BOOLEAN
      BY Zenon DEF SocketReady, FlagTypeOK
    <3>3. event' \in Events
      BY <2>1, <3>1, <3>2, Zenon DEF Wait, Events
    <3> QED BY <2>1, <3>3 DEF Wait
  <2>2. CASE ~Wait
    <3>1. event' \in {event, NoEvent} /\ wakeBytes' \in {wakeBytes, 0}
      BY ZenonT(30), <1>6, <2>2, WorkerOwns
    <3>2. UNCHANGED wire
      BY ZenonT(30), <1>6, <2>2 DEF WorkerStep, WaitFails, WorkerStart, ReadFrame, FramesDrained,
                        CommandsDrained, DrainWake
    <3>3. writeQ' = writeQ \/ writeQ' = <<>>
      BY <1>6, <2>2, Zenon DEF WorkerStep, WaitFails, WorkerStart, ReadFrame, FramesDrained,
                        CommandsDrained, DrainWake, WorkerExit
    <3>4. worker' \in {worker, "frames", "commands", "wait", "wakeCommands", "done"}
      BY <1>6, <2>2, Zenon DEF WorkerStep, WaitFails, WorkerStart, ReadFrame, FramesDrained,
                        CommandsDrained, DrainWake, WorkerExit
    <3>5. <<>> \in Seq(Commands) /\ 0 \in 0..WakeCapacity
      OBVIOUS
    <3>6. NoEvent \in Events
      BY Zenon DEF NoEvent, Events
    <3> QED BY ZenonT(30), <3>1, <3>2, <3>3, <3>4, <3>5, <3>6
  <2> QED BY <2>1, <2>2
<1>7. CASE NodeFinish \/ \E f \in Frames, whole \in BOOLEAN : NodeSend(f, whole)
  BY ZenonT(30), <1>7 DEF NodeFinish, NodeSend
<1>8. CASE UNCHANGED vars
  BY <1>8, Zenon DEF vars
<1> QED BY <1>1, <1>2, <1>3, <1>4, <1>5, <1>6, <1>7, <1>8 DEF Next, WorkerStep

\* the flags of the tunnel and of the poller,
LEMMA FlagTyping ==
    ASSUME FlagTypeOK, [Next]_vars
    PROVE  FlagTypeOK'
<1> USE DEF FlagTypeOK
<1>1. ASSUME NEW t \in Writers, WriteBegin(t) \/ WriterStep(t)
      PROVE  FlagTypeOK'
  BY ZenonT(30), <1>1 DEF WriteBegin, WriterStep, WriteSend, WriteWake, WriteAck, WakeWorker
<1>2. ASSUME NEW t \in Closers, CloseBegin(t) \/ CloserStep(t)
      PROVE  FlagTypeOK'
  BY ZenonT(30), <1>2 DEF CloseBegin, CloserStep, CloseSend, CloseWake, CloseLock, CloseJoin, WakeWorker
<1>3. ASSUME NEW t \in Readers, NEW n \in 0..MaxLen, ReadBegin(t, n)
      PROVE  FlagTypeOK'
  BY <1>3, Zenon DEF ReadBegin
<1>4. ASSUME NEW t \in Readers, ReaderStep(t)
      PROVE  FlagTypeOK'
  BY <1>4, Zenon DEF ReaderStep, ReadRecv, ReadStash, ReadEof
<1>5. CASE WorkerStep \/ WaitFails
  BY ZenonT(30), <1>5 DEF WorkerStep, WaitFails, WorkerStart, ReadFrame, FramesDrained, DrainCommand,
              CommandsDrained, Wait, DrainWake, WorkerExit
<1>6. CASE NodeFinish \/ \E f \in Frames, whole \in BOOLEAN : NodeSend(f, whole)
  BY ZenonT(30), <1>6 DEF NodeFinish, NodeSend
<1>7. CASE UNCHANGED vars
  BY <1>7, Zenon DEF vars
<1> QED BY <1>1, <1>2, <1>3, <1>4, <1>5, <1>6, <1>7 DEF Next

\* The frames the node can send are frames.
LEMMA FramesType ==
    ASSUME StreamTypeOK, NEW f \in Frames
    PROVE  f \in Frame /\ f.bytes \in Seq(Nat) /\ Len(f.bytes) \in Nat
<1>1. \A n \in 0..MaxLen : NextBytes(n) \in Seq(Nat)
  <2> SUFFICES ASSUME NEW n \in 0..MaxLen
               PROVE  NextBytes(n) \in Seq(Nat)
    OBVIOUS
  <2>1. n \in Nat /\ sent.bytes \in Nat
    BY TcpTunnelAssumption DEF StreamTypeOK
  <2> QED BY <2>1 DEF NextBytes
<1>2. PICK n \in 0..MaxLen : f \in {DataFrame(NextBytes(n)), ControlFrame, EndFrame}
  BY TcpTunnelAssumption DEF Frames
<1>3. NextBytes(n) \in Seq(Nat)
  BY <1>1, Zenon
<1>4. \A b \in Seq(Nat) : DataFrame(b) \in Frame
  BY Zenon DEF Frame, DataFrame
<1>5. ControlFrame \in Frame /\ EndFrame \in Frame
  BY DEF Frame, ControlFrame, EndFrame
<1>6. f \in Frame
  BY <1>2, <1>3, <1>4, <1>5, Zenon
<1> QED BY <1>6, LenProperties DEF Frame

\* What read() copies out, and what it leaves, are bytes.
LEMMA PrefixType ==
    ASSUME NEW s \in Seq(Nat), NEW n \in 0..Len(s)
    PROVE  Taken(s, n) \in Seq(Nat)
BY SubSeqProperties DEF Taken

\* What a read leaves behind.
LEMMA SuffixType ==
    ASSUME NEW s \in Seq(Nat), NEW n \in 0..Len(s)
    PROVE  Dropped(s, n) \in Seq(Nat)
BY SubSeqProperties DEF Dropped

\* and the node's frames on their way to a reader.
LEMMA StreamTyping ==
    ASSUME CallTypeOK, WorkerTypeOK, StreamTypeOK, [Next]_vars
    PROVE  StreamTypeOK'
<1> USE TcpTunnelAssumption DEF StreamTypeOK
<1>1. ASSUME NEW t \in Writers, WriteBegin(t) \/ WriterStep(t)
      PROVE  StreamTypeOK'
  BY <1>1, Zenon DEF WriteBegin, WriterStep, WriteSend, WriteWake, WriteAck
<1>2. ASSUME NEW t \in Closers, CloseBegin(t) \/ CloserStep(t)
      PROVE  StreamTypeOK'
  BY <1>2, Zenon DEF CloseBegin, CloserStep, CloseSend, CloseWake, CloseLock, CloseJoin
<1>3. ASSUME NEW t \in Readers, NEW n \in 0..MaxLen, ReadBegin(t, n)
      PROVE  StreamTypeOK'
  <2>1. Lesser(n, Len(readBuf)) \in 0..Len(readBuf)
    BY DEF Lesser
  <2>2. /\ Dropped(readBuf, Lesser(n, Len(readBuf))) \in Seq(Nat)
        /\ Taken(readBuf, Lesser(n, Len(readBuf))) \in Seq(Nat)
    BY <2>1, PrefixType, SuffixType, Zenon
  <2>3. readBuf' \in Seq(Nat) /\ got' \in Seq(Nat)
    BY <1>3, <2>2, ConcatProperties, Zenon DEF ReadBegin
  <2>4. want' = want \/ want' = [want EXCEPT ![t] = n]
    BY <1>3, Zenon DEF ReadBegin
  <2>5. [want EXCEPT ![t] = n] \in [Readers -> Nat]
    OBVIOUS
  <2> QED BY ZenonT(30), <1>3, <2>3, <2>4, <2>5 DEF ReadBegin
<1>4. ASSUME NEW t \in Readers, ReaderStep(t)
      PROVE  StreamTypeOK'
  <2>1. CASE ReadRecv(t)
    <3>1. Head(incoming) \in Frame /\ Tail(incoming) \in Seq(Frame)
      BY <2>1 DEF ReadRecv
    <3> DEFINE bytes == Head(incoming).bytes
               direct == Lesser(want[t], Len(bytes))
    <3>2. bytes \in Seq(Nat) /\ direct \in 0..Len(bytes)
      BY SMTT(30), <3>1 DEF Frame, Lesser
    <3>3. Taken(bytes, direct) \in Seq(Nat) /\ Dropped(bytes, direct) \in Seq(Nat)
      BY <3>2, PrefixType, SuffixType, Zenon
    <3>4. \/ UNCHANGED <<got, rest>>
          \/ /\ got' = got \o Taken(bytes, direct)
             /\ rest' = [rest EXCEPT ![t] = Dropped(bytes, direct)]
      BY <2>1, Zenon DEF ReadRecv
    <3>5. got \o Taken(bytes, direct) \in Seq(Nat)
      BY <3>3, ConcatProperties, Zenon
    <3>6. [rest EXCEPT ![t] = Dropped(bytes, direct)] \in [Readers -> Seq(Nat)]
      BY <3>3, Zenon
    <3>7. got' \in Seq(Nat) /\ rest' \in [Readers -> Seq(Nat)]
      BY ZenonT(30), <3>4, <3>5, <3>6
    <3> QED BY ZenonT(30), <2>1, <3>1, <3>7 DEF ReadRecv
  <2>2. CASE ReadStash(t)
    BY <2>2 DEF ReadStash
  <2>3. CASE ReadEof(t)
    BY <2>3, Zenon DEF ReadEof
  <2> QED BY SMTT(30), <1>4, <2>1, <2>2, <2>3 DEF ReaderStep
<1>5. CASE WorkerStep \/ WaitFails
  <2>1. EndFrame \in Frame
    BY DEF EndFrame, Frame
  <2>2. CASE ReadFrame
    <3>1. Head(arrived) \in Frame /\ Tail(arrived) \in Seq(Frame)
      BY <2>2, HeadTailProperties, Zenon DEF ReadFrame
    <3>2. \/ incoming' = incoming
          \/ incoming' = Append(incoming, Head(arrived))
          \/ incoming' = Append(incoming, EndFrame)
      BY <2>2, Zenon DEF ReadFrame, Report
    <3>3. Append(incoming, Head(arrived)) \in Seq(Frame)
      BY <3>1, AppendProperties, Zenon
    <3>4. Append(incoming, EndFrame) \in Seq(Frame)
      BY <2>1, AppendProperties, Zenon
    <3>5. incoming' \in Seq(Frame)
      BY ZenonT(30), <3>2, <3>3, <3>4
    <3>6. arrived' = Tail(arrived) \/ arrived' = <<>>
      BY <2>2, Zenon DEF ReadFrame, WorkerExit
    <3>7. arrived' \in Seq(Frame)
      BY ZenonT(30), <3>1, <3>6, EmptySeq
    <3> QED BY SMTT(30), <2>2, <3>5, <3>7 DEF ReadFrame
  <2>3. CASE Wait
    BY <2>3, Zenon DEF Wait
  <2>4. CASE ~ReadFrame /\ ~Wait
    <3>1. UNCHANGED <<sent, readBuf, got, want, rest>>
      BY ZenonT(30), <1>5, <2>4 DEF WorkerStep, WaitFails, WorkerStart, FramesDrained,
                        DrainCommand, CommandsDrained, DrainWake
    <3>2. arrived' = arrived \/ arrived' = <<>>
      BY ZenonT(30), <1>5, <2>4, WorkerOwns
    <3>3. incoming' = incoming \/ incoming' = Append(incoming, EndFrame)
      BY ZenonT(30), <1>5, <2>4, WorkerOwns
    <3>4. Append(incoming, EndFrame) \in Seq(Frame)
      BY <2>1, AppendProperties, Zenon
    <3> QED BY ZenonT(30), <3>1, <3>2, <3>3, <3>4, EmptySeq
  <2> QED BY SMTT(30), <2>2, <2>3, <2>4
<1>6. ASSUME NEW f \in Frames, NEW whole \in BOOLEAN, NodeSend(f, whole)
      PROVE  StreamTypeOK'
  <2>1. Piece(f, whole) \in Frame
    BY FramesType, Zenon DEF Piece, Frame
  <2>2. Append(arrived, Piece(f, whole)) \in Seq(Frame)
    BY ZenonT(30), <2>1, AppendProperties
  <2> QED BY SMTT(30), <1>6, <2>2, FramesType, TcpTunnelAssumption DEF NodeSend, Lesser
<1>7. CASE NodeFinish
  <2>1. Len(arrived) \in DOMAIN arrived /\ arrived[Len(arrived)] \in Frame
    BY SMTT(30), <1>7 DEF NodeFinish, Split
  <2>2. EndFrame \in Frame /\ Piece(arrived[Len(arrived)], TRUE) \in Frame
    BY SMTT(30), <2>1 DEF EndFrame, Frame, Piece
  <2>3. \A f \in Frame : [arrived EXCEPT ![Len(arrived)] = f] \in Seq(Frame)
    BY <2>1
  <2>4. arrived' \in Seq(Frame)
    BY ZenonT(30), <1>7, <2>2, <2>3 DEF NodeFinish
  <2> QED BY <1>7, <2>4 DEF NodeFinish
<1>8. CASE UNCHANGED vars
  BY <1>8, Zenon DEF vars
<1> QED BY ZenonT(30), <1>1, <1>2, <1>3, <1>4, <1>5, <1>6, <1>7, <1>8 DEF Next

\* The tunnel, its worker and its callers stay within their types: the wake
\* socket never overflows, and the queue carries only the commands of write()
\* and close().
THEOREM Typing == Spec => []TypeOK
<1>1. Init => TypeOK
  <2> HAVE Init
  <2> USE TcpTunnelAssumption, EmptySeq DEF Init
  <2>1. CallTypeOK
    BY Zenon DEF CallTypeOK
  <2>2. WorkerTypeOK
    BY DEF WorkerTypeOK, NoEvent, Events
  <2>3. FlagTypeOK
    BY ZenonT(30) DEF FlagTypeOK
  <2>4. <<DataFrame(<<1>>)>> \in Seq(Frame)
    BY DEF DataFrame, Frame
  <2>5. <<>> \in Seq(Frame) /\ <<>> \in Seq(Nat)
    OBVIOUS
  <2>6. sent \in [frames : Nat, bytes : Nat]
    OBVIOUS
  <2>7. arrived \in Seq(Frame)
    BY ZenonT(30), <2>4, <2>5
  <2>8. StreamTypeOK
    BY <2>5, <2>6, <2>7, Zenon DEF StreamTypeOK
  <2> QED BY <2>1, <2>2, <2>3, <2>8 DEF TypeOK
<1>2. TypeOK /\ [Next]_vars => TypeOK'
  BY CallTyping, WorkerTyping, FlagTyping, StreamTyping, Zenon DEF TypeOK
<1> QED BY <1>1, <1>2, PTL DEF Spec
-----------------------------------------------------------------------------
\* What a step does to the worker's sleep: the step left the worker out of
\* wait(), put it there with an empty queue, or found it there.
LEMMA WakeStep ==
    ASSUME TypeOK, WakeAnnounced, NoStrandedCommand, [Next]_vars
    PROVE  WakeAnnounced' /\ NoStrandedCommand'
<1> USE TcpTunnelAssumption DEF WakeAnnounced, NoStrandedCommand, WakeReady, Goto, Return
<1>1. /\ wakeBytes \in Nat /\ wakeBytes <= WakeCapacity /\ WakeCapacity > 0
      /\ pc \in [Threads -> {"idle", "send", "wake", "ack", "closeSend",
                             "closeWake", "lock", "join", "recv", "stash"}]
  BY DEF TypeOK, CallTypeOK, WorkerTypeOK
<1>2. ASSUME NEW t \in Threads, UNCHANGED <<worker, wakeBytes, wakeEvent, writeQ>>,
             pc[t] \notin {"wake", "closeWake"}, NEW l, pc' = [pc EXCEPT ![t] = l]
      PROVE  WakeAnnounced' /\ NoStrandedCommand'
  BY <1>1, <1>2, Zenon
<1>3. ASSUME NEW t \in Threads, WakeWorker, UNCHANGED <<worker, writeQ>>
      PROVE  WakeAnnounced' /\ NoStrandedCommand'
  <2>1. WakeAnnounced'
    BY <1>1, <1>3, Zenon DEF WakeWorker
  <2>2. worker # "done" => wakeBytes' > 0
    BY SMTT(30), <1>1, <1>3 DEF WakeWorker
  <2> QED BY <1>3, <2>1, <2>2
<1>4. ASSUME NEW t \in Writers, WriteBegin(t) \/ WriterStep(t)
      PROVE  WakeAnnounced' /\ NoStrandedCommand'
  <2>1. CASE WriteSend(t)
    <3>1. CASE worker = "done"
      BY <1>2, <2>1, <3>1, Zenon DEF WriteSend
    <3>2. CASE worker # "done"
      <4>1. pc'[t] = "wake"
        BY <1>1, <2>1, <3>2, Zenon DEF WriteSend
      <4>2. UNCHANGED <<worker, wakeBytes, wakeEvent>>
        BY <2>1, Zenon DEF WriteSend
      <4> QED BY SMTT(30), <4>1, <4>2
    <3> QED BY SMTT(30), <3>1, <3>2
  <2>2. CASE WriteWake(t)
    BY <1>3, <2>2, Zenon DEF WriteWake
  <2>3. CASE WriteBegin(t)
    <3>1. pc' = [pc EXCEPT ![t] = "idle"] \/ pc' = [pc EXCEPT ![t] = "send"]
      BY <2>3, Zenon DEF WriteBegin
    <3> QED BY ZenonT(30), <1>2, <2>3, <3>1 DEF WriteBegin
  <2>4. CASE WriteAck(t)
    BY <1>2, <2>4, Zenon DEF WriteAck
  <2> QED BY SMTT(30), <1>4, <2>1, <2>2, <2>3, <2>4 DEF WriterStep
<1>5. ASSUME NEW t \in Closers, CloseBegin(t) \/ CloserStep(t)
      PROVE  WakeAnnounced' /\ NoStrandedCommand'
  <2>1. CASE CloseSend(t)
    <3>1. pc'[t] = "closeWake"
      BY <1>1, <2>1, Zenon DEF CloseSend
    <3>2. UNCHANGED <<worker, wakeBytes, wakeEvent>>
      BY <2>1, Zenon DEF CloseSend
    <3> QED BY <3>1, <3>2
  <2>2. CASE CloseWake(t)
    BY <1>3, <2>2, Zenon DEF CloseWake
  <2>3. CASE CloseBegin(t) \/ CloseLock(t) \/ CloseJoin(t)
    BY <1>2, <2>3, Zenon DEF CloseBegin, CloseLock, CloseJoin
  <2> QED BY SMTT(30), <1>5, <2>1, <2>2, <2>3 DEF CloserStep
<1>6. ASSUME NEW t \in Readers, ReaderStep(t) \/ \E n \in 0..MaxLen : ReadBegin(t, n)
      PROVE  WakeAnnounced' /\ NoStrandedCommand'
  <2>1. /\ pc[t] \in {"idle", "recv", "stash"}
        /\ UNCHANGED <<worker, wakeBytes, wakeEvent, writeQ>>
    BY ZenonT(30), <1>6 DEF ReaderStep, ReadBegin, ReadRecv, ReadStash, ReadEof
  <2>2. \E l : pc' = [pc EXCEPT ![t] = l]
    BY ZenonT(30), <1>6 DEF ReaderStep, ReadBegin, ReadRecv, ReadStash, ReadEof
  <2> QED BY <1>2, <2>1, <2>2
<1>7. CASE WorkerStep \/ WaitFails
  <2>1. CASE Wait
    BY <1>1, <2>1, Zenon DEF Wait
  <2>2. CASE ~Wait
    <3>1. (worker # "drainWake" /\ wakeBytes' = wakeBytes) \/ wakeBytes' = 0
      BY ZenonT(30), <1>7, <2>2, WorkerOwns
    <3>2. wakeEvent' = wakeEvent \/ wakeBytes' = 0
      BY ZenonT(30), <1>7, <2>2, WorkerOwns
    <3>3. worker' = "wait" => writeQ' = <<>>
      BY ZenonT(30), <1>7, <2>2 DEF WorkerStep, WaitFails, WorkerStart, ReadFrame, FramesDrained,
                        DrainCommand, CommandsDrained, DrainWake, WorkerExit
    <3> QED BY SMTT(30), <1>1, <3>1, <3>2, <3>3
  <2> QED BY SMTT(30), <2>1, <2>2
<1>8. CASE NodeFinish \/ \E f \in Frames, whole \in BOOLEAN : NodeSend(f, whole)
  BY ZenonT(30), <1>8 DEF NodeFinish, NodeSend
<1>9. CASE UNCHANGED vars
  BY <1>9, Zenon DEF vars
<1> QED BY <1>4, <1>5, <1>6, <1>7, <1>8, <1>9 DEF Next

\* No wake-up is lost: run_tcp_tunnel_worker never sleeps on a command whose
\* caller has already called wake_worker(), for either kind of poller, any
\* number of callers and any capacity of the wake socket.
THEOREM NoLostWakeup == Spec => []NoStrandedCommand
<1>1. Init => WakeAnnounced /\ NoStrandedCommand
  BY DEF Init, WakeAnnounced, NoStrandedCommand
<1>2. TypeOK /\ WakeAnnounced /\ NoStrandedCommand /\ [Next]_vars
        => WakeAnnounced' /\ NoStrandedCommand'
  BY WakeStep, Zenon
<1> QED BY <1>1, <1>2, Typing, PTL DEF Spec
-----------------------------------------------------------------------------
\* A closer that returns has joined the worker, or has waited for the one that did.
LEMMA CloseStep ==
    ASSUME TypeOK, JoinedMeansStopped, CloseMeansStopped, [Next]_vars
    PROVE  JoinedMeansStopped' /\ CloseMeansStopped'
<1> USE TcpTunnelAssumption DEF JoinedMeansStopped, CloseMeansStopped, Return, Goto
<1>1. /\ result \in [Threads -> {"none", "ok", "err", "closed", "data", "zero", "broken"}]
      /\ ack \in [Writers -> {"none", "ok", "err"}]
  BY Zenon DEF TypeOK, CallTypeOK
<1>2. ASSUME NEW t \in Threads, UNCHANGED <<worker, handle, joinLock>>,
             \/ UNCHANGED result
             \/ \E r \in {"none", "ok", "err", "data", "zero", "broken"} :
                    result' = [result EXCEPT ![t] = r]
      PROVE  JoinedMeansStopped' /\ CloseMeansStopped'
  BY <1>1, <1>2, Zenon
<1>3. ASSUME NEW t \in Writers, WriteBegin(t) \/ WriterStep(t)
      PROVE  JoinedMeansStopped' /\ CloseMeansStopped'
  <2>1. UNCHANGED <<worker, handle, joinLock>>
    BY <1>3, Zenon DEF WriteBegin, WriterStep, WriteSend, WriteWake, WriteAck
  <2>2. \/ UNCHANGED result
        \/ \E r \in {"none", "ok", "err"} : result' = [result EXCEPT ![t] = r]
    BY <1>1, <1>3, Zenon DEF WriteBegin, WriterStep, WriteSend, WriteWake, WriteAck
  <2> QED BY SMTT(30), <1>2, <2>1, <2>2
<1>4. ASSUME NEW t \in Closers, CloseBegin(t) \/ CloserStep(t)
      PROVE  JoinedMeansStopped' /\ CloseMeansStopped'
  <2>1. CASE CloseBegin(t) \/ CloseSend(t) \/ CloseWake(t)
    BY <1>2, <2>1, Zenon DEF CloseBegin, CloseSend, CloseWake
  <2>2. CASE CloseLock(t)
    <3>1. CASE handle
      BY <2>2, <3>1, Zenon DEF CloseLock
    <3>2. CASE ~handle
      BY <1>1, <2>2, <3>2, Zenon DEF CloseLock
    <3> QED BY SMTT(30), <3>1, <3>2
  <2>3. CASE CloseJoin(t)
    BY <1>1, <2>3, Zenon DEF CloseJoin
  <2> QED BY SMTT(30), <1>4, <2>1, <2>2, <2>3 DEF CloserStep
<1>5. ASSUME NEW t \in Readers, ReaderStep(t) \/ \E n \in 0..MaxLen : ReadBegin(t, n)
      PROVE  JoinedMeansStopped' /\ CloseMeansStopped'
  <2>1. UNCHANGED <<worker, handle, joinLock>>
    BY ZenonT(30), <1>5 DEF ReaderStep, ReadBegin, ReadRecv, ReadStash, ReadEof
  <2>2. \/ UNCHANGED result
        \/ \E r \in {"none", "data", "zero", "broken"} : result' = [result EXCEPT ![t] = r]
    BY ZenonT(30), <1>5 DEF ReaderStep, ReadBegin, ReadRecv, ReadStash, ReadEof
  <2> QED BY <1>2, <2>1, <2>2
<1>6. CASE WorkerStep \/ WaitFails
  <2>1. UNCHANGED <<handle, joinLock, result>> /\ worker # "done"
    BY ZenonT(30), <1>6 DEF WorkerStep, WaitFails, WorkerStart, ReadFrame, FramesDrained,
                DrainCommand, CommandsDrained, Wait, DrainWake
  <2> QED BY <2>1
<1>7. CASE NodeFinish \/ \E f \in Frames, whole \in BOOLEAN : NodeSend(f, whole)
  BY ZenonT(30), <1>7 DEF NodeFinish, NodeSend
<1>8. CASE UNCHANGED vars
  BY <1>8, Zenon DEF vars
<1> QED BY ZenonT(30), <1>3, <1>4, <1>5, <1>6, <1>7, <1>8 DEF Next

\* close() is a barrier: whichever caller it returns to, the worker thread has
\* ended, because the `worker` mutex stays locked until the join is over.
THEOREM CloseIsBarrier == Spec => []CloseMeansStopped
<1>1. Init => JoinedMeansStopped /\ CloseMeansStopped
  BY Zenon DEF Init, JoinedMeansStopped, CloseMeansStopped, Threads
<1>2. TypeOK /\ JoinedMeansStopped /\ CloseMeansStopped /\ [Next]_vars
        => JoinedMeansStopped' /\ CloseMeansStopped'
  BY CloseStep, Zenon
<1> QED BY <1>1, <1>2, Typing, PTL DEF Spec
-----------------------------------------------------------------------------
(* What the worker leaves on the stream, and what a writer is told of it. *)



\* The elements of a sequence after Append and after Tail.
LEMMA AppendCases ==
    ASSUME NEW S, NEW s \in Seq(S), NEW x \in S
    PROVE  /\ Append(s, x) \in Seq(S)
           /\ DOMAIN Append(s, x) = DOMAIN s \cup {Len(s) + 1}
           /\ Len(s) + 1 \notin DOMAIN s
           /\ \A i \in DOMAIN s : Append(s, x)[i] = s[i]
           /\ Append(s, x)[Len(s) + 1] = x
<1>1. Append(s, x) \in Seq(S) /\ Len(Append(s, x)) = Len(s) + 1
  BY AppendProperties, Zenon
<1>2. \A i \in 1..Len(s) : Append(s, x)[i] = s[i]
  BY AppendProperties
<1>3. Append(s, x)[Len(s) + 1] = x
  BY AppendProperties, Zenon
<1> QED BY <1>1, <1>2, <1>3, LenProperties

\* What is left of a sequence, and its head, come from the sequence.
LEMMA TailCases ==
    ASSUME NEW S, NEW s \in Seq(S), s # <<>>
    PROVE  /\ Tail(s) \in Seq(S)
           /\ 1 \in DOMAIN s /\ Head(s) = s[1] /\ Head(s) \in S
           /\ \A i \in DOMAIN Tail(s) :
                  i + 1 \in DOMAIN s /\ i + 1 # 1 /\ Tail(s)[i] = s[i + 1]
           /\ \A i, j \in DOMAIN Tail(s) : i # j => i + 1 # j + 1
BY SMTT(30), HeadTailProperties, LenProperties

\* A step that leaves the writers' calls, the queue and the stream alone.
LEMMA WireQuiet ==
    ASSUME TypeOK, WireInv, NEW t \in Threads,
           UNCHANGED <<writeQ, wire, ack, wrote, worker>>,
           pc[t] \notin {"send", "wake", "ack"},
           NEW l \in {"idle", "closeSend", "closeWake", "lock", "join", "recv", "stash"},
           pc' = [pc EXCEPT ![t] = l],
           \/ pc[t] # "idle" /\ UNCHANGED result
           \/ \E r \in {"none", "closed"} :
                 /\ result' = [result EXCEPT ![t] = r]
                 /\ l # "idle" => r = "none"
    PROVE  WireInv'
<1>1. /\ pc \in [Threads -> {"idle", "send", "wake", "ack", "closeSend",
                             "closeWake", "lock", "join", "recv", "stash"}]
      /\ result \in [Threads -> {"none", "ok", "err", "closed"}]
  BY Zenon DEF TypeOK, CallTypeOK
<1>2. QueuedIsCurrent'
  BY SMTT(30), <1>1 DEF WireInv, QueuedIsCurrent
<1>3. ResultIsAck'
  BY SMTT(30), <1>1 DEF WireInv, ResultIsAck
<1>4. QueuedOnce' /\ WireIsAcked' /\ LastFrameStops' /\ StoppedIsEmpty'
  BY Zenon DEF WireInv, QueuedOnce, WireIsAcked, LastFrameStops, StoppedIsEmpty
<1>5. AckIsWired'
  BY Zenon DEF WireInv, AckIsWired, OnWire
<1> QED BY SMTT(30), <1>2, <1>3, <1>4, <1>5 DEF WireInv

\* A new call of write() leaves the payloads of its earlier calls acknowledged.
LEMMA WireWriteBegin ==
    ASSUME TypeOK, WireInv, NEW t \in Writers, WriteBegin(t)
    PROVE  WireInv'
<1> USE DEF Return
<1>1. /\ pc \in [Threads -> {"idle", "send", "wake", "ack", "closeSend",
                             "closeWake", "lock", "join", "recv", "stash"}]
      /\ result \in [Threads -> {"none", "ok", "err", "closed"}]
      /\ ack \in [Writers -> {"none", "ok", "err"}]
      /\ wrote \in [Writers -> Nat]
      /\ wire \in Seq(WireItems)
  BY Zenon DEF TypeOK, CallTypeOK, WorkerTypeOK
<1>2. UNCHANGED <<writeQ, wire, worker>> /\ pc[t] = "idle"
  BY Zenon DEF WriteBegin
<1>3. /\ wrote' = [wrote EXCEPT ![t] = @ + 1]
      /\ ack' = [ack EXCEPT ![t] = "none"]
  BY Zenon DEF WriteBegin
<1>4. \E l \in {"idle", "send"} : pc' = [pc EXCEPT ![t] = l]
  BY Zenon DEF WriteBegin
<1>5. QueuedIsCurrent'
  <2>1. \A i \in DOMAIN writeQ : writeQ[i].op = "Write" => writeQ[i].by # t
    BY <1>2, Zenon DEF WireInv, QueuedIsCurrent
  <2> QED BY SMTT(30), <1>1, <1>2, <1>3, <1>4, <2>1 DEF WireInv, QueuedIsCurrent
<1>6. QueuedOnce' /\ LastFrameStops' /\ StoppedIsEmpty'
  BY <1>2, Zenon DEF WireInv, QueuedOnce, LastFrameStops, StoppedIsEmpty
<1>7. WireIsAcked'
  <2> SUFFICES ASSUME NEW i \in DOMAIN wire, wire[i].op # "Close"
               PROVE  LET u == wire[i].by IN
                      /\ u \in Writers /\ wire[i].n <= wrote'[u]
                      /\ wire[i].n = wrote'[u] =>
                             ack'[u] = IF wire[i].op = "Write" THEN "ok" ELSE "err"
    BY <1>2, Zenon DEF WireIsAcked
  <2>1. /\ wire[i].by \in Writers /\ wire[i].n <= wrote[wire[i].by]
        /\ wire[i].n = wrote[wire[i].by] =>
               ack[wire[i].by] = IF wire[i].op = "Write" THEN "ok" ELSE "err"
    BY Zenon DEF WireInv, WireIsAcked
  <2>2. wire[i].n \in Nat
    <3>1. wire[i] \in WireItems
      BY SMTT(30), <1>1
    <3> QED BY SMTT(30), <3>1 DEF WireItems
  <2>3. CASE wire[i].by = t
    BY SMTT(30), <1>1, <1>3, <2>1, <2>2, <2>3
  <2>4. CASE wire[i].by # t
    BY <1>1, <1>3, <2>1, <2>4, Zenon
  <2> QED BY SMTT(30), <2>3, <2>4
<1>8. AckIsWired'
  BY <1>1, <1>2, <1>3, Zenon DEF WireInv, AckIsWired, OnWire
<1>9. ResultIsAck'
  <2>1. \/ pc' = [pc EXCEPT ![t] = "idle"] /\ result' = [result EXCEPT ![t] = "err"]
        \/ pc' = [pc EXCEPT ![t] = "send"] /\ result' = [result EXCEPT ![t] = "none"]
    BY Zenon DEF WriteBegin
  <2> QED BY ZenonT(30), <1>1, <1>3, <2>1 DEF WireInv, ResultIsAck
<1> QED BY SMTT(30), <1>5, <1>6, <1>7, <1>8, <1>9 DEF WireInv

\* The steps of write() queue one payload and return its acknowledgement.
LEMMA WireWriterStep ==
    ASSUME TypeOK, WireInv, NEW t \in Writers, WriterStep(t)
    PROVE  WireInv'
<1> USE DEF Return, Goto
<1>1. /\ pc \in [Threads -> {"idle", "send", "wake", "ack", "closeSend",
                             "closeWake", "lock", "join", "recv", "stash"}]
      /\ result \in [Threads -> {"none", "ok", "err", "closed"}]
      /\ ack \in [Writers -> {"none", "ok", "err"}]
      /\ writeQ \in Seq(Commands)
  BY Zenon DEF TypeOK, CallTypeOK, WorkerTypeOK
<1>2. UNCHANGED <<wire, ack, wrote, worker>>
  BY Zenon DEF WriterStep, WriteSend, WriteWake, WriteAck
<1>3. WireIsAcked' /\ LastFrameStops'
  BY ZenonT(30), <1>2 DEF WireInv, WireIsAcked, LastFrameStops
<1>4. AckIsWired'
  BY ZenonT(30), <1>2 DEF WireInv, AckIsWired, OnWire
<1>5. CASE WriteSend(t) /\ worker # "done"
  <2> DEFINE cmd == Write(t, wrote[t])
  <2>1. /\ writeQ' = Append(writeQ, cmd)
        /\ pc' = [pc EXCEPT ![t] = "wake"] /\ UNCHANGED result /\ pc[t] = "send"
    BY <1>5, Zenon DEF WriteSend
  <2>2. cmd \in Commands /\ cmd.op = "Write" /\ cmd.by = t /\ cmd.n = wrote[t]
    BY Zenon DEF Write, Commands, TypeOK, CallTypeOK
  <2>3. /\ DOMAIN writeQ' = DOMAIN writeQ \cup {Len(writeQ) + 1}
        /\ \A i \in DOMAIN writeQ : writeQ'[i] = writeQ[i]
        /\ writeQ'[Len(writeQ) + 1] = cmd
    BY SMTT(30), <1>1, <2>1, <2>2, AppendCases
  <2>4. \A i \in DOMAIN writeQ : writeQ[i].op = "Write" => writeQ[i].by # t
    BY <2>1, Zenon DEF WireInv, QueuedIsCurrent
  <2>5. ack[t] = "none"
    BY <2>1, Zenon DEF WireInv, ResultIsAck
  <2> HIDE DEF cmd
  <2>6. QueuedIsCurrent'
    <3>1. /\ pc'[t] = "wake"
          /\ \A u \in Writers : u # t => pc'[u] = pc[u]
      BY <1>1, <2>1, Zenon DEF Threads
    <3>2. ASSUME NEW i \in DOMAIN writeQ', writeQ'[i].op = "Write"
          PROVE  /\ writeQ'[i].by \in Writers /\ writeQ'[i].n = wrote[writeQ'[i].by]
                 /\ pc'[writeQ'[i].by] \in {"wake", "ack"} /\ ack[writeQ'[i].by] = "none"
      <4>1. CASE i \in DOMAIN writeQ
        <5>1. writeQ'[i] = writeQ[i] /\ writeQ[i].op = "Write" /\ writeQ[i].by # t
          BY <2>3, <2>4, <3>2, <4>1, Zenon
        <5>2. /\ writeQ[i].by \in Writers /\ writeQ[i].n = wrote[writeQ[i].by]
              /\ pc[writeQ[i].by] \in {"wake", "ack"} /\ ack[writeQ[i].by] = "none"
          BY <4>1, <5>1, Zenon DEF WireInv, QueuedIsCurrent
        <5> QED BY SMTT(30), <3>1, <5>1, <5>2
      <4>2. CASE i = Len(writeQ) + 1
        BY <2>2, <2>3, <2>5, <3>1, <4>2, Zenon
      <4> QED BY SMTT(30), <2>3, <3>2, <4>1, <4>2
    <3> QED BY <1>2, <3>2 DEF QueuedIsCurrent
  <2>7. QueuedOnce'
    BY <2>2, <2>3, <2>4 DEF WireInv, QueuedOnce
  <2>8. StoppedIsEmpty'
    BY <1>2, <1>5, Zenon DEF StoppedIsEmpty
  <2>9. ResultIsAck'
    BY <1>1, <1>2, <2>1, Zenon DEF WireInv, ResultIsAck
  <2> QED BY SMTT(30), <1>3, <1>4, <2>6, <2>7, <2>8, <2>9 DEF WireInv
<1>6. CASE (WriteSend(t) /\ worker = "done") \/ WriteWake(t) \/ WriteAck(t)
  <2>1. UNCHANGED writeQ
    BY <1>6, Zenon DEF WriteSend, WriteWake, WriteAck
  <2>2. QueuedOnce' /\ StoppedIsEmpty'
    BY <1>2, <2>1, Zenon DEF WireInv, QueuedOnce, StoppedIsEmpty
  <2>3. \/ pc[t] = "wake" /\ pc' = [pc EXCEPT ![t] = "ack"] /\ UNCHANGED result
        \/ /\ pc[t] \in {"send", "ack"} /\ pc' = [pc EXCEPT ![t] = "idle"]
           /\ \/ worker = "done" /\ ack[t] = "none" /\ result' = [result EXCEPT ![t] = "err"]
              \/ ack[t] # "none" /\ result' = [result EXCEPT ![t] = ack[t]]
    BY <1>6, Zenon DEF WriteSend, WriteWake, WriteAck, WireInv, ResultIsAck
  <2>4. ResultIsAck'
    BY SMTT(30), <1>1, <1>2, <2>3 DEF WireInv, ResultIsAck
  <2>5. worker = "done" \/ ack[t] # "none"
          => \A i \in DOMAIN writeQ : writeQ[i].op = "Write" => writeQ[i].by # t
    BY SMTT(30) DEF WireInv, QueuedIsCurrent, StoppedIsEmpty
  <2>6. QueuedIsCurrent'
    BY <1>1, <1>2, <2>1, <2>3, <2>5 DEF WireInv, QueuedIsCurrent
  <2> QED BY SMTT(30), <1>3, <1>4, <2>2, <2>4, <2>6 DEF WireInv
<1> QED BY <1>5, <1>6 DEF WriterStep

\* The worker moves a command from the queue to the stream and says so.
LEMMA WireDrainCommand ==
    ASSUME TypeOK, WireInv, DrainCommand
    PROVE  WireInv'
<1> DEFINE cmd == Head(writeQ)
<1>1. /\ ack \in [Writers -> {"none", "ok", "err"}]
      /\ wrote \in [Writers -> Nat]
      /\ writeQ \in Seq(Commands) /\ wire \in Seq(WireItems)
  BY Zenon DEF TypeOK, CallTypeOK, WorkerTypeOK
<1>2. writeQ # <<>> /\ worker # "done" /\ UNCHANGED <<pc, result, wrote>>
  BY Zenon DEF DrainCommand
<1>3. /\ 1 \in DOMAIN writeQ /\ cmd = writeQ[1] /\ cmd \in Commands
      /\ \A i \in DOMAIN Tail(writeQ) :
             i + 1 \in DOMAIN writeQ /\ i + 1 # 1 /\ Tail(writeQ)[i] = writeQ[i + 1]
      /\ \A i, j \in DOMAIN Tail(writeQ) : i # j => i + 1 # j + 1
  BY <1>1, <1>2, TailCases, Zenon
<1>4. \A i \in DOMAIN wire : wire[i].op = "Write"
  BY <1>2, Zenon DEF WireInv, LastFrameStops
<1>5. CASE cmd.op = "Write"
  <2>1. PICK t \in Writers :
           /\ cmd.by = t /\ cmd.n = wrote[t] /\ pc[t] \in {"wake", "ack"} /\ ack[t] = "none"
    BY <1>3, <1>5, Zenon DEF WireInv, QueuedIsCurrent
  <2>2. cmd \in WireItems /\ cmd = Write(t, wrote[t])
    BY <1>3, <1>5, <2>1, SMTT(30) DEF Commands, Close, WireItems, Write
  <2>3. /\ Partial(t, cmd.n) \in WireItems /\ Partial(t, cmd.n).op = "Partial"
        /\ Partial(t, cmd.n).by = t /\ Partial(t, cmd.n).n = wrote[t]
    BY ZenonT(30), <1>1, <2>1 DEF Partial, WireItems
  <2>4. /\ \A i \in DOMAIN wire : wire[i] # cmd
        /\ pc[t] # "idle" /\ pc[t] # "send"
    BY ZenonT(30), <2>1, <1>5 DEF WireInv, WireIsAcked
  <2>5. result[t] = "none"
    BY <2>1, Zenon DEF WireInv, ResultIsAck
  <2>6. CASE /\ wire' = Append(wire, cmd)
             /\ ack' = [ack EXCEPT ![t] = "ok"]
             /\ writeQ' = Tail(writeQ) /\ UNCHANGED worker
    <3>1. /\ DOMAIN wire' = DOMAIN wire \cup {Len(wire) + 1}
          /\ \A i \in DOMAIN wire : wire'[i] = wire[i]
          /\ wire'[Len(wire) + 1] = cmd
      BY SMTT(30), <1>1, <2>2, <2>6, AppendCases
    <3>2. \A i \in DOMAIN Tail(writeQ) :
              Tail(writeQ)[i].op = "Write" => Tail(writeQ)[i].by # t
      <4>1. \A i \in DOMAIN writeQ : i # 1 => writeQ[i] # cmd
        BY <1>3, <1>5, Zenon DEF WireInv, QueuedOnce
      <4>2. \A i \in DOMAIN writeQ : writeQ[i].op = "Write" /\ writeQ[i].by = t => writeQ[i].n = cmd.n
        BY <2>1, Zenon DEF WireInv, QueuedIsCurrent
      <4>3. \A i \in DOMAIN writeQ : writeQ[i] \in Commands
        BY SMTT(30), <1>1
      <4>4. \A i \in DOMAIN writeQ : writeQ[i].op = "Write" /\ writeQ[i].by = t => writeQ[i] = cmd
        BY SMTT(30), <1>3, <1>5, <2>1, <4>2, <4>3 DEF Commands, Close
      <4> QED BY SMTT(30), <1>3, <4>1, <4>4
    <3> HIDE DEF cmd
    <3>3. QueuedIsCurrent'
      BY SMTT(30), <1>1, <1>2, <1>3, <2>1, <2>6, <3>2 DEF WireInv, QueuedIsCurrent
    <3>4. QueuedOnce'
      BY SMTT(30), <1>3, <2>6 DEF WireInv, QueuedOnce
    <3>5. WireIsAcked'
      BY SMTT(30), <1>1, <1>2, <1>5, <2>1, <2>6, <3>1, SMTT(30) DEF WireInv, WireIsAcked
    <3>6. AckIsWired'
      <4>1. OnWire(t, wrote[t])'
        BY <1>2, <2>2, <3>1, Zenon DEF OnWire
      <4>2. \A u \in Writers : OnWire(u, wrote[u]) => OnWire(u, wrote[u])'
        BY <1>2, <3>1, Zenon DEF OnWire
      <4> QED BY SMTT(30), <1>1, <1>2, <2>6, <4>1, <4>2 DEF WireInv, AckIsWired
    <3>7. LastFrameStops' /\ StoppedIsEmpty'
      BY <1>2, <1>4, <1>5, <2>6, <3>1, Zenon DEF LastFrameStops, StoppedIsEmpty
    <3>8. ResultIsAck'
      BY <1>1, <1>2, <2>1, <2>5, <2>6, Zenon DEF WireInv, ResultIsAck
    <3> QED BY SMTT(30), <3>3, <3>4, <3>5, <3>6, <3>7, <3>8 DEF WireInv
  <2>7. CASE /\ wire' \in {wire, Append(wire, Partial(t, cmd.n))}
             /\ ack' = [ack EXCEPT ![t] = "err"]
             /\ worker' = "done" /\ writeQ' = <<>>
    <3> DEFINE cut == Partial(t, cmd.n)
    <3>1. \/ wire' = wire
          \/ /\ DOMAIN wire' = DOMAIN wire \cup {Len(wire) + 1}
             /\ \A i \in DOMAIN wire : wire'[i] = wire[i]
             /\ wire'[Len(wire) + 1] = cut
      <4>1. cut \in WireItems
        BY <2>3, Zenon
      <4>2. wire' = wire \/ wire' = Append(wire, cut)
        BY <2>7, Zenon
      <4> HIDE DEF cut
      <4>3. /\ DOMAIN Append(wire, cut) = DOMAIN wire \cup {Len(wire) + 1}
            /\ \A i \in DOMAIN wire : Append(wire, cut)[i] = wire[i]
            /\ Append(wire, cut)[Len(wire) + 1] = cut
        BY <1>1, <4>1, AppendCases
      <4> QED BY ZenonT(30), <4>2, <4>3
    <3>2. cut.op = "Partial" /\ cut.by = t /\ cut.n = wrote[t]
      BY ZenonT(30), <2>3
    <3>3. \A i \in DOMAIN wire : wire[i].by = t => wire[i].n # wrote[t]
      BY <1>4, <2>1, Zenon DEF WireInv, WireIsAcked
    <3> HIDE DEF cmd, cut
    <3>4. WireIsAcked'
      <4>1. /\ ack'[t] = "err"
            /\ \A u \in Writers : u # t => ack'[u] = ack[u]
        BY <1>1, <2>7, Zenon
      <4>2. ASSUME NEW i \in DOMAIN wire', wire'[i].op # "Close"
            PROVE  /\ wire'[i].by \in Writers /\ wire'[i].n <= wrote[wire'[i].by]
                   /\ wire'[i].n = wrote[wire'[i].by] =>
                         ack'[wire'[i].by] = IF wire'[i].op = "Write" THEN "ok" ELSE "err"
        <5>1. CASE i \in DOMAIN wire
          <6>1. wire'[i] = wire[i] /\ wire[i].op # "Close"
            BY <3>1, <4>2, <5>1, Zenon
          <6>2. /\ wire[i].by \in Writers /\ wire[i].n <= wrote[wire[i].by]
                /\ wire[i].n = wrote[wire[i].by] =>
                      ack[wire[i].by] = IF wire[i].op = "Write" THEN "ok" ELSE "err"
            BY <5>1, <6>1, Zenon DEF WireInv, WireIsAcked
          <6>3. wire[i].by = t => wire[i].n # wrote[t]
            BY <3>3, <5>1, Zenon
          <6> QED BY SMTT(30), <4>1, <6>1, <6>2, <6>3
        <5>2. CASE i \notin DOMAIN wire
          <6>1. wire'[i] = cut
            BY <3>1, <4>2, <5>2, Zenon
          <6>2. wrote[t] \in Nat
            BY Zenon DEF TypeOK, CallTypeOK
          <6> QED BY SMTT(30), <2>1, <3>2, <4>1, <6>1, <6>2
        <5> QED BY SMTT(30), <5>1, <5>2
      <4> QED BY <1>2, <4>2 DEF WireIsAcked
    <3>5. AckIsWired'
      <4>1. \A u \in Writers : OnWire(u, wrote[u]) => OnWire(u, wrote[u])'
        BY <1>2, <3>1, Zenon DEF OnWire
      <4> QED BY SMTT(30), <1>1, <1>2, <2>7, <4>1 DEF WireInv, AckIsWired
    <3>6. /\ LastFrameStops' /\ StoppedIsEmpty'
          /\ QueuedIsCurrent' /\ QueuedOnce'
      BY SMTT(30), <2>7 DEF LastFrameStops, StoppedIsEmpty, QueuedIsCurrent, QueuedOnce
    <3>7. ResultIsAck'
      BY <1>1, <1>2, <2>1, <2>5, <2>7, Zenon DEF WireInv, ResultIsAck
    <3> QED BY <3>4, <3>5, <3>6, <3>7 DEF WireInv
  <2> QED BY SMTT(30), <1>5, <2>1, <2>6, <2>7 DEF DrainCommand, WorkerExit
<1>6. CASE cmd.op = "Close"
  <2>1. /\ wire' \in {wire, Append(wire, Close)} /\ UNCHANGED ack
        /\ worker' = "done" /\ writeQ' = <<>>
    BY <1>6, Zenon DEF DrainCommand, WorkerExit
  <2>2. Close \in WireItems /\ Close.op = "Close"
    BY Zenon DEF Close, WireItems
  <2>3. \/ wire' = wire
        \/ /\ DOMAIN wire' = DOMAIN wire \cup {Len(wire) + 1}
           /\ \A i \in DOMAIN wire : wire'[i] = wire[i]
           /\ wire'[Len(wire) + 1] = Close
    <3>1. wire' = wire \/ wire' = Append(wire, Close)
      BY <2>1, Zenon
    <3>2. /\ DOMAIN Append(wire, Close) = DOMAIN wire \cup {Len(wire) + 1}
          /\ \A i \in DOMAIN wire : Append(wire, Close)[i] = wire[i]
          /\ Append(wire, Close)[Len(wire) + 1] = Close
      BY SMTT(30), <1>1, <2>2, AppendCases
    <3> QED BY ZenonT(30), <3>1, <3>2
  <2>4. WireIsAcked'
    BY SMTT(30), <1>2, <2>1, <2>2, <2>3 DEF WireInv, WireIsAcked
  <2>5. AckIsWired'
    <3>1. \A u \in Writers : OnWire(u, wrote[u]) => OnWire(u, wrote[u])'
      BY <1>2, <2>3, Zenon DEF OnWire
    <3> QED BY <1>2, <2>1, <3>1 DEF WireInv, AckIsWired
  <2>6. /\ LastFrameStops' /\ StoppedIsEmpty'
        /\ QueuedIsCurrent' /\ QueuedOnce'
    BY SMTT(30), <2>1 DEF LastFrameStops, StoppedIsEmpty, QueuedIsCurrent, QueuedOnce
  <2>7. ResultIsAck'
    BY <1>2, <2>1, Zenon DEF WireInv, ResultIsAck
  <2> QED BY SMTT(30), <2>4, <2>5, <2>6, <2>7 DEF WireInv
<1> QED BY ZenonT(30), <1>5, <1>6 DEF DrainCommand

\* Every step keeps queue, stream, acknowledgements and results in agreement.
LEMMA WireStep ==
    ASSUME TypeOK, WireInv, [Next]_vars
    PROVE  WireInv'
<1>1. ASSUME NEW t \in Writers, WriteBegin(t) \/ WriterStep(t)
      PROVE  WireInv'
  BY <1>1, WireWriteBegin, WireWriterStep, Zenon
<1>2. ASSUME NEW t \in Closers, CloseBegin(t) \/ CloserStep(t)
      PROVE  WireInv'
  <2>1. CASE CloseSend(t)
    <3>1. UNCHANGED <<wire, ack, wrote, worker, result>> /\ pc[t] = "closeSend"
      BY <2>1, Zenon DEF CloseSend, Goto
    <3>2. pc' = [pc EXCEPT ![t] = "closeWake"]
      BY <2>1, Zenon DEF CloseSend, Goto
    <3>3. pc \in [Threads -> {"idle", "send", "wake", "ack", "closeSend",
                              "closeWake", "lock", "join", "recv", "stash"}]
      BY Zenon DEF TypeOK, CallTypeOK
    <3>4. CASE UNCHANGED writeQ
      BY ZenonT(30), <3>1, <3>2, <3>4, WireQuiet
    <3>5. CASE worker # "done" /\ writeQ' = Append(writeQ, Close)
      <4>1. /\ DOMAIN writeQ' = DOMAIN writeQ \cup {Len(writeQ) + 1}
            /\ \A i \in DOMAIN writeQ : writeQ'[i] = writeQ[i]
            /\ writeQ'[Len(writeQ) + 1] = Close
        <5>1. writeQ \in Seq(Commands) /\ Close \in Commands
          BY Zenon DEF TypeOK, WorkerTypeOK, Commands
        <5> QED BY <3>5, <5>1, AppendCases
      <4>2. Close.op = "Close"
        BY Zenon DEF Close
      <4>3. QueuedIsCurrent'
        BY SMTT(30), <3>1, <3>2, <3>3, <4>1, <4>2 DEF WireInv, QueuedIsCurrent
      <4>4. QueuedOnce'
        BY <4>1, <4>2, Zenon DEF WireInv, QueuedOnce
      <4>5. WireIsAcked' /\ LastFrameStops' /\ StoppedIsEmpty'
        BY <3>1, <3>5, Zenon DEF WireInv, WireIsAcked, LastFrameStops, StoppedIsEmpty
      <4>6. AckIsWired'
        BY <3>1, Zenon DEF WireInv, AckIsWired, OnWire
      <4>7. ResultIsAck'
        BY <3>1, <3>2, <3>3, Zenon DEF WireInv, ResultIsAck
      <4> QED BY SMTT(30), <4>3, <4>4, <4>5, <4>6, <4>7 DEF WireInv
    <3> QED BY SMTT(30), <2>1, <3>4, <3>5 DEF CloseSend
  <2>2. CASE CloseBegin(t)
    BY ZenonT(30), <2>2, WireQuiet DEF CloseBegin
  <2>3. CASE CloseWake(t)
    BY ZenonT(30), <2>3, WireQuiet DEF CloseWake, Goto
  <2>4. CASE CloseLock(t) \/ CloseJoin(t)
    BY <2>4, WireQuiet, Zenon DEF CloseLock, CloseJoin, Goto, Return
  <2> QED BY SMTT(30), <1>2, <2>1, <2>2, <2>3, <2>4 DEF CloserStep
<1>3. ASSUME NEW t \in Readers, NEW n \in 0..MaxLen, ReadBegin(t, n)
      PROVE  WireInv'
  BY <1>3, WireQuiet, Zenon DEF ReadBegin, Return
<1>4. ASSUME NEW t \in Readers, ReaderStep(t)
      PROVE  WireInv'
  <2>1. CASE ReadRecv(t)
    BY ZenonT(30), <2>1, WireQuiet DEF ReadRecv, Return, Goto
  <2>2. CASE ReadStash(t) \/ ReadEof(t)
    BY <2>2, WireQuiet, Zenon DEF ReadStash, ReadEof, Return
  <2> QED BY <1>4, <2>1, <2>2 DEF ReaderStep
<1>5. CASE (WorkerStep /\ ~DrainCommand) \/ WaitFails
  <2> DEFINE Quiet == /\ UNCHANGED <<wire, ack, wrote, pc, result>> /\ worker # "done"
                      /\ writeQ' = <<>> \/ (writeQ' = writeQ /\ worker' # "done")
  <2>1. ASSUME WorkerStart \/ WaitFails PROVE Quiet
    BY <2>1, Zenon DEF WorkerStart, WaitFails, WorkerExit
  <2>2. ASSUME ReadFrame PROVE Quiet
    BY <2>2, Zenon DEF ReadFrame, WorkerExit
  <2>3. ASSUME FramesDrained \/ CommandsDrained PROVE Quiet
    BY <2>3, Zenon DEF FramesDrained, CommandsDrained
  <2>4. ASSUME Wait \/ DrainWake PROVE Quiet
    BY <2>4, Zenon DEF Wait, DrainWake
  <2>5. Quiet
    BY <1>5, <2>1, <2>2, <2>3, <2>4, Zenon DEF WorkerStep
  <2>6. QueuedIsCurrent' /\ QueuedOnce'
    <3>1. CASE writeQ' = <<>>
      <4>1. DOMAIN writeQ' = {}
        BY <3>1
      <4> QED BY ZenonT(30), <4>1 DEF QueuedIsCurrent, QueuedOnce
    <3>2. CASE writeQ' = writeQ
      <4>1. QueuedIsCurrent /\ QueuedOnce
        BY Zenon DEF WireInv
      <4>2. UNCHANGED <<wire, ack, wrote, pc, result, writeQ>>
        BY ZenonT(30), <2>5, <3>2
      <4> QED BY ZenonT(30), <4>1, <4>2 DEF QueuedIsCurrent, QueuedOnce
    <3> QED BY ZenonT(30), <2>5, <3>1, <3>2
  <2>7. StoppedIsEmpty'
    BY <2>5, Zenon DEF WireInv, StoppedIsEmpty
  <2>8. WireIsAcked' /\ LastFrameStops'
    BY <2>5, Zenon DEF WireInv, WireIsAcked, LastFrameStops
  <2>9. AckIsWired' /\ ResultIsAck'
    BY <2>5, Zenon DEF WireInv, AckIsWired, OnWire, ResultIsAck
  <2> QED BY SMTT(30), <2>6, <2>7, <2>8, <2>9 DEF WireInv
<1>6. CASE NodeFinish \/ (\E f \in Frames, whole \in BOOLEAN : NodeSend(f, whole))
           \/ UNCHANGED vars
  <2>1. UNCHANGED <<wire, ack, wrote, pc, result, worker, writeQ>>
    BY ZenonT(30), <1>6 DEF NodeFinish, NodeSend, vars
  <2>2. QueuedIsCurrent' /\ QueuedOnce'
    BY ZenonT(30), <2>1 DEF WireInv, QueuedIsCurrent, QueuedOnce
  <2>3. StoppedIsEmpty' /\ WireIsAcked' /\ LastFrameStops'
    BY ZenonT(30), <2>1 DEF WireInv, StoppedIsEmpty, WireIsAcked, LastFrameStops
  <2>4. AckIsWired' /\ ResultIsAck'
    BY <2>1, Zenon DEF WireInv, AckIsWired, OnWire, ResultIsAck
  <2> QED BY <2>2, <2>3, <2>4 DEF WireInv
<1> QED BY <1>1, <1>2, <1>3, <1>4, <1>5, <1>6, WireDrainCommand DEF Next, WorkerStep

\* So they agree in every reachable state.
LEMMA WireInvariance == Spec => []WireInv
<1>1. ASSUME Init PROVE WireInv
  <2>1. writeQ = <<>> /\ wire = <<>>
    BY <1>1, Zenon DEF Init
  <2>2. QueuedIsCurrent /\ QueuedOnce /\ StoppedIsEmpty
    BY SMTT(30), <2>1 DEF QueuedIsCurrent, QueuedOnce, StoppedIsEmpty
  <2>3. WireIsAcked /\ LastFrameStops
    BY SMTT(30), <2>1 DEF WireIsAcked, LastFrameStops
  <2>4. /\ \A t \in Threads : pc[t] = "idle" /\ result[t] = "none"
        /\ \A t \in Writers : ack[t] = "none" /\ t \in Threads
    BY <1>1, Zenon DEF Init, Threads
  <2>5. AckIsWired /\ ResultIsAck
    BY <2>4, Zenon DEF AckIsWired, ResultIsAck
  <2> QED BY SMTT(30), <2>2, <2>3, <2>5 DEF WireInv
<1>2. TypeOK /\ WireInv /\ [Next]_vars => WireInv'
  BY WireStep, Zenon
<1> QED BY <1>1, <1>2, Typing, PTL DEF Spec

\* write() tells the truth: Ok exactly when drain_tcp_tunnel_commands has put
\* the payload on the stream, whatever close() and the worker's end race with.
THEOREM WriteTellsTruth == Spec => []OkIffOnWire
<1>1. WireInv => OkIffOnWire
  <2> SUFFICES ASSUME WireInv, NEW t \in Writers, result[t] \in {"ok", "err"}
               PROVE  result[t] = "ok" <=> OnWire(t, wrote[t])
    BY Zenon DEF OkIffOnWire
  <2>1. OnWire(t, wrote[t]) => ack[t] = "ok"
    BY SMTT(30) DEF WireInv, WireIsAcked, OnWire, Write
  <2>2. ack[t] = "ok" => OnWire(t, wrote[t])
    BY Zenon DEF WireInv, AckIsWired
  <2> QED BY SMTT(30), <2>1, <2>2 DEF WireInv, ResultIsAck
<1> QED BY <1>1, WireInvariance, PTL

\* The stream is well formed: nothing follows a close frame or a payload cut
\* short, and a thread's payloads are in the order of its write() calls, each
\* at most once.
THEOREM StreamWellFormed == Spec => []WireWellFormed
<1>1. Init => WireWellFormed
  BY DEF Init, WireWellFormed
<1>2. ASSUME TypeOK, WireInv, WireWellFormed, [Next]_vars
      PROVE  WireWellFormed'
  <2>1. CASE UNCHANGED wire
    BY <1>2, <2>1, Zenon DEF WireWellFormed
  <2>2. ASSUME DrainCommand, NEW x \in WireItems, wire' = Append(wire, x),
               x.by \in Writers => x.n = wrote[x.by] /\ ack[x.by] = "none",
               x.by \notin Writers => x = Close
        PROVE  WireWellFormed'
    <3>1. wire \in Seq(WireItems) /\ wrote \in [Writers -> Nat]
      BY <1>2, Zenon DEF TypeOK, WorkerTypeOK, CallTypeOK
    <3>2. /\ DOMAIN wire' = DOMAIN wire \cup {Len(wire) + 1}
          /\ Len(wire) + 1 \notin DOMAIN wire
          /\ \A i \in DOMAIN wire : wire'[i] = wire[i]
          /\ wire'[Len(wire) + 1] = x
      BY <2>2, <3>1, AppendCases
    <3>3. \A i \in DOMAIN wire : wire[i].op = "Write"
      BY ZenonT(30), <1>2, <2>2 DEF DrainCommand, WireInv, LastFrameStops
    <3>4. \A i \in DOMAIN wire : wire[i].n \in Nat /\ i < Len(wire) + 1
      <4>1. \A i \in DOMAIN wire : wire[i] \in WireItems /\ i < Len(wire) + 1
        BY SMTT(30), <3>1
      <4> QED BY <4>1 DEF WireItems
    <3>5. ASSUME NEW i \in DOMAIN wire, wire[i].by = x.by
          PROVE  wire[i].n < x.n
      <4>1. /\ wire[i].by \in Writers /\ wire[i].n <= wrote[wire[i].by]
            /\ wire[i].n = wrote[wire[i].by] => ack[wire[i].by] = "ok"
        BY ZenonT(30), <1>2, <3>3 DEF WireInv, WireIsAcked
      <4>2. wire[i].n <= x.n /\ wire[i].n # x.n /\ x.n \in Nat
        BY <2>2, <3>1, <3>5, <4>1, Zenon
      <4> QED BY <3>4, <4>2
    <3>6. ~(Len(wire) + 1 < Len(wire) + 1)
      BY <3>1
    <3>7. \A i \in DOMAIN wire : ~(Len(wire) + 1 < i)
      BY SMTT(30), <3>1
    <3> QED BY SMTT(30), <1>2, <3>2, <3>3, <3>4, <3>5, <3>6, <3>7 DEF WireWellFormed
  <2>3. CASE DrainCommand
    <3> DEFINE cmd == Head(writeQ)
    <3>1. cmd = writeQ[1] /\ 1 \in DOMAIN writeQ /\ cmd \in Commands
      BY <1>2, <2>3, TailCases, Zenon DEF DrainCommand, TypeOK, WorkerTypeOK
    <3>2. CASE cmd.op = "Write"
      <4>1. cmd.by \in Writers /\ cmd.n = wrote[cmd.by] /\ ack[cmd.by] = "none"
        BY <1>2, <3>1, <3>2, Zenon DEF WireInv, QueuedIsCurrent
      <4>2. cmd \in WireItems
        BY <3>1, <3>2 DEF Commands, Close, WireItems
      <4>3. /\ Partial(cmd.by, cmd.n) \in WireItems
            /\ Partial(cmd.by, cmd.n).by = cmd.by /\ Partial(cmd.by, cmd.n).n = cmd.n
        BY ZenonT(30), <1>2, <4>1 DEF Partial, WireItems, TypeOK, CallTypeOK
      <4>4. \/ wire' = wire \/ wire' = Append(wire, cmd)
            \/ wire' = Append(wire, Partial(cmd.by, cmd.n))
        BY ZenonT(30), <2>3, <3>2 DEF DrainCommand
      <4> HIDE DEF cmd
      <4>5. CASE wire' = Append(wire, cmd)
        BY <2>2, <2>3, <4>1, <4>2, <4>5, Zenon
      <4>6. CASE wire' = Append(wire, Partial(cmd.by, cmd.n))
        BY <2>2, <2>3, <4>1, <4>3, <4>6, Zenon
      <4> QED BY SMTT(30), <2>1, <4>4, <4>5, <4>6
    <3>3. CASE cmd.op = "Close"
      <4>1. Close \in WireItems /\ Close.by \notin Writers
        BY TcpTunnelAssumption, Zenon DEF Close, WireItems
      <4>2. wire' = wire \/ wire' = Append(wire, Close)
        BY <2>3, <3>3, Zenon DEF DrainCommand
      <4> QED BY SMTT(30), <2>1, <2>2, <2>3, <4>1, <4>2
    <3> QED BY SMTT(30), <2>3, <3>2, <3>3 DEF DrainCommand
  <2>4. DrainCommand \/ UNCHANGED wire
    BY ZenonT(30), <1>2 DEF Next, vars, WriterStep, CloserStep, ReaderStep, WorkerStep, WriteBegin, WriteSend,
         WriteWake, WriteAck, CloseBegin, CloseSend, CloseWake, CloseLock, CloseJoin,
         ReadBegin, ReadRecv, ReadStash, ReadEof, WorkerStart, ReadFrame, FramesDrained,
         CommandsDrained, Wait, WaitFails, DrainWake, NodeSend, NodeFinish
  <2> QED BY SMTT(30), <2>1, <2>3, <2>4
<1> QED BY <1>1, <1>2, Typing, WireInvariance, PTL DEF Spec
=============================================================================
