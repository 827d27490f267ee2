-------------------------- MODULE TcpStreamProofs --------------------------
(***************************************************************************)
(* What a single reader sees of a TcpTunnel: the node's bytes in order,    *)
(* none lost and none twice, for any number of frames of any size.         *)
(***************************************************************************)
EXTENDS TcpTunnelProofs

USE DEF Threads, callVars, wakeVars, joinVars, nodeVars, readVars, ownVars
-----------------------------------------------------------------------------
(* Each step leaves the stream as it is, adds to its end or cuts its end. *)

\* What the steps rely on of Bytes: what it makes of no frames, of a frame at
\* the end and of a frame at the front.
BytesLaws ==
    /\ Bytes(<<>>) = <<>>
    /\ \A s \in Seq(Frame) : Bytes(s) \in Seq(Nat)
    /\ \A s \in Seq(Frame), f \in Frame : Bytes(Append(s, f)) = Bytes(s) \o f.bytes
    /\ \A s \in Seq(Frame) : s # <<>> => Bytes(s) = Head(s).bytes \o Bytes(Tail(s))

\* Cutting a stream in another place does not change it.
LEMMA BytesAssoc == \A a, b, c \in Seq(Nat) : (a \o b) \o c = a \o (b \o c)
BY ConcatAssociative

\* A prefix of a numbered stream is numbered.
LEMMA NumberedPrefix ==
    ASSUME NEW a \in Seq(Nat), NEW b \in Seq(Nat), Numbered(a \o b)
    PROVE  Numbered(a)
<1>1. \A i \in DOMAIN a : i \in DOMAIN (a \o b) /\ (a \o b)[i] = a[i]
  OBVIOUS
<1> QED
  BY <1>1, Zenon DEF Numbered

\* A numbered stream and the bytes that follow it are a numbered stream.
LEMMA NumberedNext ==
    ASSUME NEW a \in Seq(Nat), NEW n \in Nat, Numbered(a)
    PROVE  LET next == [i \in 1..n |-> Len(a) + i]
           IN  /\ next \in Seq(Nat) /\ Len(next) = n
               /\ Numbered(a \o next)
<1> DEFINE next == [i \in 1..n |-> Len(a) + i]
<1>1. next \in Seq(Nat) /\ Len(next) = n
  OBVIOUS
<1>2. ASSUME NEW i \in DOMAIN (a \o next) PROVE (a \o next)[i] = i
  <2>1. i \in 1..(Len(a) + n) /\ Len(a) \in Nat
    BY <1>1
  <2>2. CASE i \in 1..Len(a)
    BY <1>1, <2>2 DEF Numbered
  <2>3. CASE i \notin 1..Len(a)
    <3>1. i - Len(a) \in 1..n /\ (a \o next)[i] = next[i - Len(a)]
      BY <1>1, <2>1, <2>3
    <3> QED
      BY <2>1, <3>1
  <2> QED
    BY <2>2, <2>3, Zenon
<1> QED
  BY <1>1, <1>2, Zenon DEF Numbered

\* Concatenating nothing changes nothing.
LEMMA EmptyConcat ==
    \A a \in Seq(Nat) : a \o <<>> = a /\ <<>> \o a = a
BY ConcatEmptySeq, Zenon

\* What read() takes and what it leaves are the whole of what it found.
LEMMA TakenDropped ==
    ASSUME NEW s \in Seq(Nat), NEW n \in 0..Len(s)
    PROVE  /\ Taken(s, n) \in Seq(Nat) /\ Dropped(s, n) \in Seq(Nat)
           /\ Taken(s, n) \o Dropped(s, n) = s
           /\ n = Len(s) => Dropped(s, n) = <<>>
<1>1. Taken(s, n) \in Seq(Nat) /\ Len(Taken(s, n)) = n /\ \A i \in 1..n : Taken(s, n)[i] = s[i]
  BY SubSeqProperties DEF Taken
<1>2. /\ Dropped(s, n) \in Seq(Nat) /\ Len(Dropped(s, n)) = Len(s) - n
      /\ \A i \in 1..(Len(s) - n) : Dropped(s, n)[i] = s[n + i]
  BY SubSeqProperties DEF Dropped
<1>3. Taken(s, n) \o Dropped(s, n) = s
  <2>1. 1 \in 1..(Len(s) + 1) /\ n \in (1 - 1)..Len(s) /\ Len(s) \in n..Len(s)
    OBVIOUS
  <2>2. SubSeq(s, 1, n) \o SubSeq(s, n + 1, Len(s)) = SubSeq(s, 1, Len(s))
    BY <2>1, ConcatAdjacentSubSeq, Zenon
  <2> QED
    BY <2>2, SubSeqFull, Zenon DEF Taken, Dropped
<1>4. n = Len(s) => Dropped(s, n) = <<>>
  BY <1>2
<1> QED
  BY <1>1, <1>2, <1>3, <1>4, Zenon

\* The parts of the stream are bytes.
LEMMA StreamParts ==
    ASSUME BytesLaws, StreamTypeOK, NEW t \in Readers
    PROVE  /\ got \in Seq(Nat) /\ rest[t] \in Seq(Nat) /\ readBuf \in Seq(Nat)
           /\ Bytes(incoming) \in Seq(Nat) /\ Bytes(arrived) \in Seq(Nat)
           /\ got \o rest[t] \in Seq(Nat)
           /\ got \o rest[t] \o readBuf \in Seq(Nat)
           /\ got \o rest[t] \o readBuf \o Bytes(incoming) \in Seq(Nat)
           /\ Stream(t) \in Seq(Nat)
<1>1. /\ got \in Seq(Nat) /\ rest[t] \in Seq(Nat) /\ readBuf \in Seq(Nat)
      /\ Bytes(incoming) \in Seq(Nat) /\ Bytes(arrived) \in Seq(Nat)
  BY Zenon DEF BytesLaws, StreamTypeOK
<1>2. \A a, b \in Seq(Nat) : a \o b \in Seq(Nat)
  BY ConcatProperties, Zenon
<1> QED
  BY <1>1, <1>2, Zenon DEF Stream

\* An item of the channel or of the socket that carries bytes is data.
LEMMA HeadHasBytes ==
    ASSUME NEW s \in Seq(Frame), OnlyDataHasBytes(s), s # <<>>
    PROVE  /\ OnlyDataHasBytes(Tail(s))
           /\ Head(s).kind # "data" => Head(s).bytes = <<>>
<1>1. /\ 1 \in DOMAIN s /\ Head(s) = s[1]
      /\ \A i \in DOMAIN Tail(s) : i + 1 \in DOMAIN s /\ Tail(s)[i] = s[i + 1]
  BY TailCases, Zenon
<1> QED
  BY <1>1, Zenon DEF OnlyDataHasBytes

\* A frame joins the frames of which only data has bytes.
LEMMA AppendHasBytes ==
    ASSUME NEW s \in Seq(Frame), OnlyDataHasBytes(s),
           NEW f \in Frame, f.kind # "data" => f.bytes = <<>>
    PROVE  OnlyDataHasBytes(Append(s, f))
<1>1. /\ DOMAIN Append(s, f) = DOMAIN s \cup {Len(s) + 1}
      /\ \A i \in DOMAIN s : Append(s, f)[i] = s[i]
      /\ Append(s, f)[Len(s) + 1] = f
  BY AppendCases
<1> QED
  BY <1>1, Zenon DEF OnlyDataHasBytes

\* read() starts: what it copies out of read_buf it takes from its front.
LEMMA StreamReadBegin ==
    ASSUME TypeOK, TypeOK', StreamInv, NEW t \in Readers, \A s \in Readers : s = t,
           NEW n \in 0..MaxLen, ReadBegin(t, n)
    PROVE  StreamInv'
<1> DEFINE take == Lesser(n, Len(readBuf))
<1>1. n \in Nat /\ readBuf \in Seq(Nat)
  BY TcpTunnelAssumption DEF TypeOK, StreamTypeOK
<1>2. take \in 0..Len(readBuf) /\ (n # 0 /\ take = 0 => Len(readBuf) = 0 /\ take = Len(readBuf))
  BY <1>1 DEF Lesser
<1>3. take # 0 => take > 0
  BY <1>1, <1>2
<1> HIDE DEF take
<1>4. /\ Taken(readBuf, take) \in Seq(Nat) /\ Dropped(readBuf, take) \in Seq(Nat)
      /\ Taken(readBuf, take) \o Dropped(readBuf, take) = readBuf
      /\ take = Len(readBuf) => Dropped(readBuf, take) = <<>>
  BY <1>1, <1>2, TakenDropped, Zenon
<1>5. /\ pc[t] = "idle" /\ readBuf' = Dropped(readBuf, take)
      /\ got' = got \o Taken(readBuf, take)
      /\ UNCHANGED <<rest, incoming, arrived, sent, worker>>
  BY ReadBegin(t, n), Zenon DEF ReadBegin, take
<1>6. rest[t] = <<>>
  BY <1>5, Zenon DEF StreamInv, LeftoverIsStored
<1>7. LeftoverIsStored'
  <2>1. t \in Threads /\ pc \in [Threads -> {"idle", "send", "wake", "ack", "closeSend",
                           "closeWake", "lock", "join", "recv", "stash"}]
    BY Zenon DEF TypeOK, CallTypeOK
  <2>2. \/ pc' = [pc EXCEPT ![t] = "idle"]
        \/ pc' = [pc EXCEPT ![t] = "recv"] /\ ~(take > 0 \/ n = 0)
    BY ReadBegin(t, n), Zenon DEF ReadBegin, Return, take
  <2>3. ~(take > 0 \/ n = 0) => readBuf' = <<>>
    BY <1>2, <1>3, <1>4, <1>5, Zenon
  <2>4. pc'[t] = "idle" \/ (pc'[t] = "recv" /\ readBuf' = <<>>)
    <3>1. [pc EXCEPT ![t] = "idle"][t] = "idle" /\ [pc EXCEPT ![t] = "recv"][t] = "recv"
      BY <2>1, Zenon
    <3> QED
      BY <2>2, <2>3, <3>1, Zenon
  <2>5. rest'[t] = <<>> /\ pc'[t] # "stash" /\ (pc'[t] = "recv" => readBuf' = <<>>)
    BY <1>5, <1>6, <2>4, Zenon
  <2> QED
    BY <2>5, Zenon DEF LeftoverIsStored
<1>8. Stream(t)' = Stream(t)
  <2>1. got \o <<>> = got /\ got' \o <<>> = got' /\ got \in Seq(Nat)
    BY EmptyConcat, Zenon DEF TypeOK, StreamTypeOK
  <2>2. got' \o readBuf' = got \o readBuf
    <3>1. (got \o Taken(readBuf, take)) \o Dropped(readBuf, take)
          = got \o (Taken(readBuf, take) \o Dropped(readBuf, take))
      BY <1>4, <2>1, BytesAssoc, Zenon
    <3> QED
      BY <1>4, <1>5, <3>1, Zenon
  <2>3. Stream(t)' = got' \o <<>> \o readBuf' \o Bytes(incoming) \o Bytes(arrived)
    BY <1>5, <1>6, Zenon DEF Stream
  <2> QED
    BY <1>6, <2>1, <2>2, <2>3, Zenon DEF Stream
<1> QED
  BY <1>5, <1>7, <1>8, Zenon DEF StreamInv, StreamInOrder, OnlyDataHasBytes, Ended

\* read() takes a chunk: what does not fit its buffer it keeps as its rest.
LEMMA StreamReadRecv ==
    ASSUME BytesLaws, TypeOK, TypeOK', StreamInv, NEW t \in Readers, \A s \in Readers : s = t,
           ReadRecv(t)
    PROVE  StreamInv'
<1> DEFINE item == Head(incoming)
           direct == Lesser(want[t], Len(item.bytes))
<1>1. /\ incoming \in Seq(Frame) /\ incoming # <<>> /\ incoming' = Tail(incoming)
      /\ pc[t] = "recv" /\ UNCHANGED <<readBuf, arrived, sent, worker>>
  BY ReadRecv(t), Zenon DEF ReadRecv, TypeOK, StreamTypeOK
<1>2. item \in Frame /\ OnlyDataHasBytes(incoming')
      /\ (item.kind # "data" => item.bytes = <<>>)
  BY <1>1, TailCases, HeadHasBytes, Zenon DEF StreamInv
<1>3. /\ Bytes(incoming) = item.bytes \o Bytes(incoming')
      /\ rest[t] = <<>> /\ readBuf = <<>>
  BY <1>1, Zenon DEF BytesLaws, StreamInv, LeftoverIsStored
<1>4. item.bytes \in Seq(Nat) /\ want[t] \in Nat /\ direct \in 0..Len(item.bytes)
  <2>1. item.bytes \in Seq(Nat) /\ want[t] \in Nat
    BY <1>2, Zenon DEF Frame, TypeOK, StreamTypeOK
  <2> HIDE DEF item
  <2> QED
    BY <2>1 DEF Lesser
<1>5. /\ got \in Seq(Nat) /\ rest \in [Readers -> Seq(Nat)] /\ t \in Threads
      /\ pc \in [Threads -> {"idle", "send", "wake", "ack", "closeSend",
                             "closeWake", "lock", "join", "recv", "stash"}]
  BY Zenon DEF TypeOK, StreamTypeOK, CallTypeOK
<1> HIDE DEF direct, item
<1>6. /\ Taken(item.bytes, direct) \in Seq(Nat) /\ Dropped(item.bytes, direct) \in Seq(Nat)
      /\ Taken(item.bytes, direct) \o Dropped(item.bytes, direct) = item.bytes
      /\ direct = Len(item.bytes) => Dropped(item.bytes, direct) = <<>>
  BY <1>4, TakenDropped, Zenon
<1>7. /\ rest'[t] \in Seq(Nat) /\ got' \o rest'[t] = got \o item.bytes
      /\ pc'[t] = "idle" \/ pc'[t] = "stash"
      /\ pc'[t] # "stash" => rest'[t] = <<>>
  <2>1. CASE item.kind = "end"
    <3>1. item.bytes = <<>>
      BY <1>2, <2>1, Zenon
    <3>2. UNCHANGED <<got, rest>> /\ pc' = [pc EXCEPT ![t] = "idle"]
      BY ReadRecv(t), <2>1, Zenon DEF ReadRecv, Return, item
    <3> QED
      BY <1>3, <1>5, <3>1, <3>2, Zenon
  <2>2. CASE item.kind = "data"
    <3>1. /\ got' = got \o Taken(item.bytes, direct)
          /\ rest' = [rest EXCEPT ![t] = Dropped(item.bytes, direct)]
          /\ \/ direct = Len(item.bytes) /\ pc' = [pc EXCEPT ![t] = "idle"]
             \/ pc' = [pc EXCEPT ![t] = "stash"]
      BY ReadRecv(t), <2>2, Zenon DEF ReadRecv, Return, Goto, item, direct
    <3>2. rest'[t] = Dropped(item.bytes, direct)
      BY <1>5, <3>1, Zenon
    <3>3. (got \o Taken(item.bytes, direct)) \o Dropped(item.bytes, direct) 
          = got \o (Taken(item.bytes, direct) \o Dropped(item.bytes, direct))
      BY <1>5, <1>6, BytesAssoc, Zenon
    <3>4. \/ direct = Len(item.bytes) /\ pc'[t] = "idle"
          \/ pc'[t] = "stash"
      BY <1>5, <3>1, Zenon
    <3> QED
      BY <1>6, <3>1, <3>2, <3>3, <3>4, Zenon
  <2> QED
    BY ReadRecv(t), <2>1, <2>2, Zenon DEF ReadRecv, item
<1>8. LeftoverIsStored'
  <2>1. readBuf' = <<>>
    BY <1>1, <1>3, Zenon
  <2> QED
    BY <1>7, <2>1, Zenon DEF LeftoverIsStored
<1>9. Stream(t)' = Stream(t)
  <2>1. Bytes(incoming') \in Seq(Nat)
    BY Zenon DEF BytesLaws, TypeOK, StreamTypeOK
  <2>2. got \o <<>> = got /\ (got \o item.bytes) \o <<>> = got \o item.bytes
    <3>1. got \o item.bytes \in Seq(Nat)
      BY <1>4, <1>5, ConcatProperties, Zenon
    <3> QED
      BY <1>5, <3>1, EmptyConcat, Zenon
  <2>3. (got \o item.bytes) \o Bytes(incoming') = got \o (item.bytes \o Bytes(incoming'))
    BY <1>4, <1>5, <2>1, BytesAssoc, Zenon
  <2>4. Stream(t) = got \o Bytes(incoming) \o Bytes(arrived)
    BY <1>3, <2>2, Zenon DEF Stream
  <2>5. Stream(t)' = got \o item.bytes \o Bytes(incoming') \o Bytes(arrived)
    BY <1>1, <1>3, <1>7, <2>2, Zenon DEF Stream
  <2> QED
    BY <1>3, <2>3, <2>4, <2>5, Zenon
<1> QED
  BY <1>1, <1>2, <1>8, <1>9 DEF StreamInv, StreamInOrder, OnlyDataHasBytes, Ended

\* read() stores its rest in read_buf, which is empty.
LEMMA StreamReadStash ==
    ASSUME BytesLaws, TypeOK, StreamInv, NEW t \in Readers, \A s \in Readers : s = t,
           ReadStash(t)
    PROVE  StreamInv'
<1>1. /\ got \in Seq(Nat) /\ rest \in [Readers -> Seq(Nat)] /\ t \in Threads
      /\ pc \in [Threads -> {"idle", "send", "wake", "ack", "closeSend",
                             "closeWake", "lock", "join", "recv", "stash"}]
  BY Zenon DEF TypeOK, StreamTypeOK, CallTypeOK
<1>2. /\ pc[t] = "stash" /\ readBuf' = readBuf \o rest[t]
      /\ rest' = [rest EXCEPT ![t] = <<>>] /\ pc' = [pc EXCEPT ![t] = "idle"]
      /\ UNCHANGED <<got, incoming, arrived, sent, worker>>
  BY ReadStash(t), Zenon DEF ReadStash, Return
<1>3. readBuf = <<>>
  BY <1>2, Zenon DEF StreamInv, LeftoverIsStored
<1>4. rest'[t] = <<>> /\ pc'[t] = "idle"
  BY <1>1, <1>2, Zenon
<1>5. LeftoverIsStored'
  BY <1>4, Zenon DEF LeftoverIsStored
<1>6. Stream(t)' = Stream(t)
  <2>1. rest[t] \in Seq(Nat) /\ got \o rest[t] \in Seq(Nat)
    BY StreamParts, Zenon DEF TypeOK
  <2>2. readBuf' = rest[t]
    BY <1>2, <1>3, <2>1, EmptyConcat, Zenon
  <2>3. got \o <<>> = got /\ (got \o rest[t]) \o <<>> = got \o rest[t]
    BY <1>1, <2>1, EmptyConcat, Zenon
  <2>4. Stream(t)' = got \o rest[t] \o Bytes(incoming) \o Bytes(arrived)
    BY <1>2, <1>4, <2>2, <2>3, Zenon DEF Stream
  <2> QED
    BY <1>3, <2>3, <2>4, Zenon DEF Stream
<1> QED
  BY <1>2, <1>5, <1>6, Zenon DEF StreamInv, StreamInOrder, OnlyDataHasBytes, Ended

\* A step that leaves the stream and the readers in a chunk alone.
LEMMA StreamQuiet ==
    ASSUME StreamInv,
           UNCHANGED <<got, rest, readBuf, incoming, arrived, sent>>,
           worker' = worker \/ worker # "done",
           \A t \in Readers : pc'[t] = pc[t] \/ (pc[t] # "stash" /\ pc'[t] \notin {"recv", "stash"})
    PROVE  StreamInv'
<1>1. LeftoverIsStored'
  BY Zenon DEF StreamInv, LeftoverIsStored
<1>2. \A t \in Readers : Stream(t)' = Stream(t)
  BY Zenon DEF Stream
<1>3. worker' # "done" => worker # "done"
  BY Zenon
<1>4. StreamInOrder'
  BY <1>2, <1>3, Zenon DEF StreamInv, StreamInOrder, Ended
<1> QED
  BY <1>1, <1>4, Zenon DEF StreamInv, OnlyDataHasBytes

\* The steps of writers, of closers, and of a read() that finds the channel
\* empty and the worker gone.
LEMMA StreamCallers ==
    ASSUME TypeOK, StreamInv,
           \/ \E t \in Writers : WriteBegin(t) \/ WriterStep(t)
           \/ \E t \in Closers : CloseBegin(t) \/ CloserStep(t)
           \/ \E t \in Readers : ReadEof(t)
    PROVE  StreamInv'
<1>1. PICK t \in Threads : \/ WriteBegin(t) \/ WriterStep(t)
                           \/ CloseBegin(t) \/ CloserStep(t) \/ ReadEof(t)
  BY Zenon
<1>2. UNCHANGED <<got, rest, readBuf, incoming, arrived, sent, worker>>
  BY <1>1, Zenon DEF WriteBegin, WriterStep, WriteSend, WriteWake, WriteAck, CloseBegin,
     CloserStep, CloseSend, CloseWake, CloseLock, CloseJoin, ReadEof
<1>3. pc[t] # "stash" /\ \E l \in {"idle", "send", "wake", "ack", "closeSend", "closeWake",
                                   "lock", "join"} : pc' = [pc EXCEPT ![t] = l]
  BY <1>1, Zenon DEF WriteBegin, WriterStep, WriteSend, WriteWake, WriteAck, CloseBegin,
     CloserStep, CloseSend, CloseWake, CloseLock, CloseJoin, ReadEof, Return, Goto
<1>4. \A s \in Threads : pc'[s] = pc[s] \/ (pc[s] # "stash" /\ pc'[s] \notin {"recv", "stash"})
  BY <1>3, Zenon DEF TypeOK, CallTypeOK
<1> QED
  BY <1>2, <1>4, StreamQuiet, Zenon

\* The worker stops: the frames nobody has read are dropped from the end of
\* the stream, and what it reports carries no bytes.
LEMMA StreamExit ==
    ASSUME BytesLaws, TypeOK, StreamInv, WorkerExit, UNCHANGED <<got, rest, readBuf, pc>>,
           incoming' = incoming \/ incoming' = Append(incoming, EndFrame)
    PROVE  StreamInv'
<1>1. incoming \in Seq(Frame) /\ EndFrame \in Frame /\ EndFrame.bytes = <<>>
  <2>1. EndFrame \in Frame /\ EndFrame.bytes = <<>>
    BY DEF EndFrame, Frame
  <2> QED
    BY <2>1, Zenon DEF TypeOK, StreamTypeOK
<1>2. Bytes(incoming') = Bytes(incoming) /\ OnlyDataHasBytes(incoming')
  <2>1. CASE incoming' = incoming
    BY <2>1, Zenon DEF StreamInv
  <2>2. CASE incoming' = Append(incoming, EndFrame)
    <3>1. Bytes(incoming') = Bytes(incoming) \o <<>> /\ Bytes(incoming) \in Seq(Nat)
      BY <1>1, <2>2, Zenon DEF BytesLaws
    <3>2. OnlyDataHasBytes(incoming')
      BY <1>1, <2>2, AppendHasBytes, Zenon DEF StreamInv
    <3> QED
      BY <3>1, <3>2, EmptyConcat, Zenon
  <2> QED
    BY <2>1, <2>2, Zenon
<1>3. worker' = "done" /\ arrived' = <<>>
  BY Zenon DEF WorkerExit
<1>4. OnlyDataHasBytes(arrived')
  BY <1>3 DEF OnlyDataHasBytes
<1>5. ASSUME NEW t \in Readers PROVE Numbered(Stream(t))'
  <2> DEFINE kept == got \o rest[t] \o readBuf \o Bytes(incoming)
  <2>1. kept \in Seq(Nat) /\ Bytes(arrived) \in Seq(Nat)
    BY StreamParts, Zenon DEF TypeOK
  <2>2. Stream(t)' = kept \o <<>> /\ Stream(t) = kept \o Bytes(arrived)
    BY <1>2, <1>3, Zenon DEF BytesLaws, Stream
  <2>3. Numbered(kept \o Bytes(arrived))
    BY <2>2, Zenon DEF StreamInv, StreamInOrder
  <2> HIDE DEF kept
  <2>4. Numbered(kept) /\ Stream(t)' = kept
    BY <2>1, <2>2, <2>3, NumberedPrefix, EmptyConcat, Zenon
  <2> QED
    BY <2>4, Zenon DEF Numbered
<1>6. LeftoverIsStored'
  BY Zenon DEF StreamInv, LeftoverIsStored
<1> QED
  BY <1>2, <1>3, <1>4, <1>5, <1>6, Zenon DEF StreamInv, StreamInOrder, OnlyDataHasBytes

\* The worker hands a frame on: a data frame moves from the socket to the
\* channel, a control frame has no bytes to lose.
LEMMA StreamReadFrame ==
    ASSUME BytesLaws, TypeOK, StreamInv, ReadFrame
    PROVE  StreamInv'
<1> DEFINE f == Head(arrived)
<1>1. /\ arrived \in Seq(Frame) /\ arrived # <<>> /\ incoming \in Seq(Frame)
      /\ UNCHANGED <<got, rest, readBuf, pc, sent>>
  BY ReadFrame, Zenon DEF ReadFrame, TypeOK, StreamTypeOK
<1>2. /\ f \in Frame /\ Tail(arrived) \in Seq(Frame) /\ OnlyDataHasBytes(Tail(arrived))
      /\ (f.kind # "data" => f.bytes = <<>>)
  BY <1>1, TailCases, HeadHasBytes, Zenon DEF StreamInv
<1>3. Bytes(arrived) = f.bytes \o Bytes(Tail(arrived)) /\ f.bytes \in Seq(Nat)
  BY <1>1, <1>2, Zenon DEF BytesLaws, Frame
<1>4. f.kind # "end" /\ ~Ended(Tail(arrived)) => ~Ended(arrived)
  <2>1. /\ Len(arrived) \in Nat /\ Len(arrived) >= 1 /\ f = arrived[1]
        /\ Tail(arrived) = <<>> => Len(arrived) = 1
    <3>1. Len(Tail(arrived)) = Len(arrived) - 1 /\ Len(arrived) \in Nat /\ f = arrived[1]
      BY <1>1, HeadTailProperties
    <3>2. Len(arrived) # 0
      BY <1>1
    <3>3. Tail(arrived) = <<>> => Len(Tail(arrived)) = 0
      <4>1. Len(<<>>) = 0
        OBVIOUS
      <4> QED
        BY <4>1, Zenon
    <3> HIDE DEF f
    <3> QED
      BY <3>1, <3>2, <3>3
  <2>2. Tail(arrived) # <<>> => Tail(arrived)[Len(Tail(arrived))] = arrived[Len(arrived)]
    BY <1>1
  <2> QED
    BY <2>1, <2>2, Zenon DEF Ended
<1> HIDE DEF f
<1>5. CASE f.kind = "end"
  <2>1. WorkerExit /\ incoming' = Append(incoming, EndFrame)
    BY <1>5, ReadFrame, Zenon DEF ReadFrame, Report, f
  <2> QED
    BY <1>1, <2>1, StreamExit, Zenon
<1>6. CASE f.kind \in {"data", "control"}
  <2>1. /\ arrived' = Tail(arrived) /\ worker' = worker
        /\ \/ f.kind = "data" /\ incoming' = Append(incoming, f)
           \/ f.kind = "control" /\ incoming' = incoming
    BY <1>6, ReadFrame, Zenon DEF ReadFrame, Report, f
  <2>2. /\ Bytes(incoming) \in Seq(Nat) /\ Bytes(Tail(arrived)) \in Seq(Nat)
    BY <1>1, <1>2, Zenon DEF BytesLaws
  <2>3. Bytes(incoming') = Bytes(incoming) \o f.bytes /\ OnlyDataHasBytes(incoming')
    <3>1. CASE f.kind = "data"
      <4>1. incoming' = Append(incoming, f)
        BY <2>1, <3>1, Zenon
      <4> QED
        BY <1>1, <1>2, <3>1, <4>1, AppendHasBytes, Zenon DEF BytesLaws, StreamInv
    <3>2. CASE f.kind = "control"
      <4>1. incoming' = incoming /\ f.bytes = <<>>
        BY <1>2, <2>1, <3>2, Zenon
      <4> QED
        BY <2>2, <4>1, EmptyConcat, Zenon DEF StreamInv
    <3> QED
      BY <1>6, <3>1, <3>2, Zenon
  <2>4. ASSUME NEW t \in Readers PROVE Stream(t)' = Stream(t)
    <3> DEFINE front == got \o rest[t] \o readBuf
    <3>1. front \in Seq(Nat) /\ front \o Bytes(incoming) \in Seq(Nat)
      BY StreamParts, Zenon DEF TypeOK
    <3>2. /\ Stream(t) = (front \o Bytes(incoming)) \o (f.bytes \o Bytes(Tail(arrived)))
          /\ Stream(t)' = (front \o (Bytes(incoming) \o f.bytes)) \o Bytes(Tail(arrived))
      BY <1>1, <1>3, <2>1, <2>3, Zenon DEF Stream
    <3> HIDE DEF front
    <3>3. front \o (Bytes(incoming) \o f.bytes) = (front \o Bytes(incoming)) \o f.bytes
      BY <1>3, <2>2, <3>1, BytesAssoc, Zenon
    <3>4. ((front \o Bytes(incoming)) \o f.bytes) \o Bytes(Tail(arrived))
          = (front \o Bytes(incoming)) \o (f.bytes \o Bytes(Tail(arrived)))
      BY <1>3, <2>2, <3>1, BytesAssoc, Zenon
    <3> QED
      BY <3>2, <3>3, <3>4, Zenon
  <2>5. ~Ended(arrived)' => ~Ended(arrived)
    BY <1>4, <1>6, <2>1, Zenon DEF Ended
  <2>6. StreamInOrder'
    BY <1>1, <2>1, <2>4, <2>5, Zenon DEF StreamInv, StreamInOrder
  <2> QED
    BY <1>1, <1>2, <2>1, <2>3, <2>6, Zenon DEF StreamInv, LeftoverIsStored, OnlyDataHasBytes
<1> QED
  BY <1>2, <1>5, <1>6, Zenon DEF Frame

\* The steps of the worker.
LEMMA StreamWorker ==
    ASSUME BytesLaws, TypeOK, StreamInv, WorkerStep \/ WaitFails
    PROVE  StreamInv'
<1>1. CASE WorkerStart \/ DrainCommand \/ WaitFails
  <2>1. /\ UNCHANGED <<got, rest, readBuf, pc, sent>>
        /\ incoming' = incoming \/ incoming' = Append(incoming, EndFrame)
        /\ WorkerExit \/ UNCHANGED <<incoming, arrived>>
    BY <1>1, Zenon DEF WorkerStart, DrainCommand, WaitFails, Report
  <2>2. CASE WorkerExit
    BY <2>1, <2>2, StreamExit, Zenon
  <2>3. CASE ~WorkerExit
    <3>1. worker # "done"
      BY <1>1, <2>3, Zenon DEF WorkerStart, DrainCommand, WaitFails
    <3> QED
      BY <2>1, <2>3, <3>1, StreamQuiet, Zenon
  <2> QED
    BY <2>2, <2>3, Zenon
<1>2. CASE FramesDrained \/ CommandsDrained \/ Wait \/ DrainWake
  <2>1. worker # "done" /\ UNCHANGED <<got, rest, readBuf, pc, sent, incoming, arrived>>
    BY <1>2, Zenon DEF FramesDrained, CommandsDrained, Wait, DrainWake
  <2> QED
    BY <2>1, StreamQuiet, Zenon
<1> QED
  BY <1>1, <1>2, StreamReadFrame, Zenon DEF WorkerStep

\* The node sends a frame: its bytes are the next ones, and a stream that
\* nobody has dropped a byte of has all the earlier ones.
LEMMA StreamNodeSend ==
    ASSUME BytesLaws, TypeOK, StreamInv, NEW f \in Frames, NEW whole \in BOOLEAN, NodeSend(f, whole)
    PROVE  StreamInv'
<1> DEFINE g == Piece(f, whole)
<1>1. /\ worker # "done" /\ ~Ended(arrived) /\ arrived' = Append(arrived, g)
      /\ sent' = [frames |-> Lesser(sent.frames + 1, MaxFrames),
                  bytes |-> sent.bytes + Len(f.bytes)]
      /\ UNCHANGED <<got, rest, readBuf, pc, incoming, worker>>
  BY NodeSend(f, whole), Zenon DEF NodeSend
<1>2. arrived \in Seq(Frame) /\ sent.bytes \in Nat
  BY Zenon DEF TypeOK, StreamTypeOK
<1>3. /\ f \in Frame /\ f.bytes \in Seq(Nat)
      /\ g \in Frame /\ g.bytes = f.bytes /\ g.kind = f.kind
  BY FramesType, Zenon DEF Piece, Frame, TypeOK
<1>4. \/ \E n \in 0..MaxLen : f.bytes = NextBytes(n) /\ f.kind = "data"
      \/ f.bytes = <<>>
  BY DEF Frames, DataFrame, ControlFrame, EndFrame
<1>5. f.kind # "data" => f.bytes = <<>>
  BY <1>4, Zenon
<1> HIDE DEF g
<1>6. Bytes(arrived') = Bytes(arrived) \o f.bytes /\ OnlyDataHasBytes(arrived')
  BY <1>1, <1>2, <1>3, <1>5, AppendHasBytes, Zenon DEF BytesLaws, StreamInv
<1>7. sent'.bytes = sent.bytes + Len(f.bytes)
  BY <1>1, Zenon
<1>8. ASSUME NEW t \in Readers
      PROVE  Numbered(Stream(t))' /\ Len(Stream(t))' = sent'.bytes
  <2> DEFINE kept == got \o rest[t] \o readBuf \o Bytes(incoming)
             all == Stream(t)
  <2>1. /\ kept \in Seq(Nat) /\ Bytes(arrived) \in Seq(Nat)
        /\ all \in Seq(Nat) /\ all = kept \o Bytes(arrived)
    BY StreamParts, Zenon DEF TypeOK, Stream
  <2>2. Numbered(all) /\ Len(all) = sent.bytes
    BY <1>1, Zenon DEF StreamInv, StreamInOrder
  <2>3. Stream(t)' = kept \o (Bytes(arrived) \o f.bytes)
    BY <1>1, <1>6, Zenon DEF Stream
  <2> HIDE DEF kept, all
  <2>4. Stream(t)' = all \o f.bytes
    <3>1. (kept \o Bytes(arrived)) \o f.bytes = kept \o (Bytes(arrived) \o f.bytes)
      BY <1>3, <2>1, BytesAssoc, Zenon
    <3> QED
      BY <2>1, <2>3, <3>1, Zenon
  <2>5. Len(all \o f.bytes) = sent'.bytes
    <3>1. Len(all \o f.bytes) = Len(all) + Len(f.bytes)
      BY <1>3, <2>1, ConcatProperties, Zenon
    <3> QED
      BY <1>7, <2>2, <3>1, Zenon
  <2>6. Numbered(all \o f.bytes)
    <3>1. CASE f.bytes = <<>>
      BY <2>1, <2>2, <3>1, EmptyConcat, Zenon
    <3>2. ASSUME NEW n \in 0..MaxLen, f.bytes = NextBytes(n)
          PROVE  Numbered(all \o f.bytes)
      <4>1. n \in Nat
        BY TcpTunnelAssumption
      <4>2. f.bytes = [i \in 1..n |-> Len(all) + i]
        BY <2>2, <3>2, Zenon DEF NextBytes
      <4> QED
        BY <2>1, <2>2, <4>1, <4>2, NumberedNext, Zenon
    <3> QED
      BY <1>4, <3>1, <3>2, Zenon
  <2> QED
    BY <2>4, <2>5, <2>6, Zenon DEF Numbered
<1> QED
  BY <1>1, <1>6, <1>8, Zenon DEF StreamInv, StreamInOrder, LeftoverIsStored, OnlyDataHasBytes

\* The last of the frames received is the one that was appended.
LEMMA LastOfAppend ==
    ASSUME NEW s \in Seq(Frame), NEW f \in Frame
    PROVE  Append(s, f) # <<>> /\ Append(s, f)[Len(Append(s, f))] = f
BY AppendProperties

\* Replacing the last frame is appending another one in its place.
LEMMA ReplaceLast ==
    ASSUME NEW s \in Seq(Frame), NEW f \in Frame, NEW g \in Frame
    PROVE  [Append(s, f) EXCEPT ![Len(Append(s, f))] = g] = Append(s, g)
<1> DEFINE r == Append(s, f)
           l == Append(s, g)
<1>1. /\ r \in Seq(Frame) /\ l \in Seq(Frame) /\ Len(s) \in Nat
      /\ Len(r) = Len(s) + 1 /\ Len(l) = Len(s) + 1
      /\ l[Len(s) + 1] = g /\ \A i \in 1..Len(s) : l[i] = s[i] /\ r[i] = s[i]
  BY AppendProperties
<1> HIDE DEF r, l
<1>2. Len(r) \in 1..Len(r)
  BY <1>1
<1>3. /\ [r EXCEPT ![Len(r)] = g] \in Seq(Frame) /\ Len([r EXCEPT ![Len(r)] = g]) = Len(r)
      /\ \A i \in 1..Len(r) : [r EXCEPT ![Len(r)] = g][i] = IF i = Len(r) THEN g ELSE r[i]
  BY <1>1, <1>2, ExceptSeq
<1>4. \A i \in 1..Len(l) : [r EXCEPT ![Len(r)] = g][i] = l[i]
  BY <1>1, <1>3
<1>5. [r EXCEPT ![Len(r)] = g] = l
  BY <1>1, <1>3, <1>4, SeqEqual, Zenon
<1> QED
  BY <1>5, Zenon DEF r, l

\* The split frame is completed, or the stream ends in its middle: the last
\* frame keeps its bytes, or they are cut off the end of the stream.
LEMMA StreamNodeFinish ==
    ASSUME BytesLaws, TypeOK, StreamInv, NodeFinish
    PROVE  StreamInv'
<1>1. arrived \in Seq(Frame) /\ arrived # <<>>
  BY NodeFinish, Zenon DEF NodeFinish, Split, TypeOK, StreamTypeOK
<1>2. PICK s \in Seq(Frame), f \in Frame : arrived = Append(s, f)
  BY <1>1, SequenceEmptyOrAppend, Zenon
<1>3. Len(arrived) = Len(s) + 1 /\ arrived[Len(arrived)] = f
  BY <1>2
<1>4. \A g \in Frame : [arrived EXCEPT ![Len(arrived)] = g] = Append(s, g)
  BY <1>2, ReplaceLast, Zenon
<1>5. Piece(f, TRUE) \in Frame /\ Piece(f, TRUE).bytes = f.bytes /\ Piece(f, TRUE).kind = f.kind
  BY Zenon DEF Piece, Frame
<1>6. EndFrame \in Frame /\ EndFrame.bytes = <<>> /\ EndFrame.kind = "end"
  BY DEF EndFrame, Frame
<1>7. arrived' = Append(s, Piece(f, TRUE)) \/ arrived' = Append(s, EndFrame)
  <2>1. \/ arrived' = [arrived EXCEPT ![Len(arrived)] = Piece(f, TRUE)]
        \/ arrived' = [arrived EXCEPT ![Len(arrived)] = EndFrame]
    BY <1>1, <1>3, NodeFinish, Zenon DEF NodeFinish
  <2> QED
    BY <1>4, <1>5, <1>6, <2>1, Zenon
<1>8. UNCHANGED <<got, rest, readBuf, pc, sent, incoming, worker>>
  BY NodeFinish, Zenon DEF NodeFinish
<1>9. /\ OnlyDataHasBytes(s) /\ (f.kind # "data" => f.bytes = <<>>)
  <2>1. /\ DOMAIN arrived = DOMAIN s \cup {Len(s) + 1} /\ arrived[Len(s) + 1] = f
        /\ \A i \in DOMAIN s : arrived[i] = s[i]
    BY <1>2, AppendCases
  <2> QED
    BY <2>1, Zenon DEF StreamInv, OnlyDataHasBytes
<1>10. f.bytes \in Seq(Nat) /\ Bytes(s) \in Seq(Nat)
  BY Zenon DEF BytesLaws, Frame
<1>11. LeftoverIsStored' /\ OnlyDataHasBytes(incoming)'
  BY <1>8, Zenon DEF StreamInv, LeftoverIsStored, OnlyDataHasBytes
<1>12. Bytes(arrived) = Bytes(s) \o f.bytes
  BY <1>2, Zenon DEF BytesLaws
<1>13. CASE arrived' = Append(s, Piece(f, TRUE))
  <2>1. Bytes(arrived') = Bytes(arrived)
    BY <1>5, <1>12, <1>13, Zenon DEF BytesLaws
  <2>2. OnlyDataHasBytes(arrived')
    BY <1>5, <1>9, <1>13, AppendHasBytes, Zenon
  <2>3. Ended(arrived)' <=> Ended(arrived)
    <3>1. arrived'[Len(arrived')] = Piece(f, TRUE) /\ arrived' # <<>>
      BY <1>5, <1>13, LastOfAppend, Zenon
    <3> QED
      BY <1>1, <1>3, <1>5, <3>1, Zenon DEF Ended
  <2>4. \A t \in Readers : Stream(t)' = Stream(t)
    BY <1>8, <2>1, Zenon DEF Stream
  <2>5. StreamInOrder'
    BY <1>8, <2>3, <2>4, Zenon DEF StreamInv, StreamInOrder
  <2> QED
    BY <1>11, <2>2, <2>5, Zenon DEF StreamInv, OnlyDataHasBytes
<1>14. CASE arrived' = Append(s, EndFrame)
  <2>1. Bytes(arrived') = Bytes(s)
    <3>1. Bytes(arrived') = Bytes(s) \o <<>>
      BY <1>6, <1>14, Zenon DEF BytesLaws
    <3> QED
      BY <1>10, <3>1, EmptyConcat, Zenon
  <2>2. OnlyDataHasBytes(arrived')
    BY <1>6, <1>9, <1>14, AppendHasBytes, Zenon
  <2>3. Ended(arrived')
    <3>1. arrived'[Len(arrived')] = EndFrame /\ arrived' # <<>>
      BY <1>6, <1>14, LastOfAppend, Zenon
    <3> QED
      BY <1>6, <3>1, Zenon DEF Ended
  <2>4. ASSUME NEW t \in Readers PROVE Numbered(Stream(t))'
    <3> DEFINE kept == got \o rest[t] \o readBuf \o Bytes(incoming)
    <3>1. kept \in Seq(Nat) /\ kept \o Bytes(s) \in Seq(Nat)
      <4>1. kept \in Seq(Nat)
        BY StreamParts, Zenon DEF TypeOK
      <4> HIDE DEF kept
      <4> QED
        BY <1>10, <4>1, ConcatProperties, Zenon
    <3>2. Stream(t)' = kept \o Bytes(s) /\ Stream(t) = kept \o (Bytes(s) \o f.bytes)
      BY <1>8, <1>12, <2>1, Zenon DEF Stream
    <3>3. Numbered(Stream(t))
      BY Zenon DEF StreamInv, StreamInOrder
    <3> HIDE DEF kept
    <3>4. (kept \o Bytes(s)) \o f.bytes = kept \o (Bytes(s) \o f.bytes)
      BY <1>10, <3>1, BytesAssoc, Zenon
    <3>5. Numbered(kept \o Bytes(s))
      <4>1. Numbered((kept \o Bytes(s)) \o f.bytes)
        BY <3>2, <3>3, <3>4, Zenon
      <4> QED
        BY <1>10, <3>1, <4>1, NumberedPrefix, Zenon
    <3> QED
      BY <3>2, <3>5, Zenon DEF Numbered
  <2> QED
    BY <1>11, <2>2, <2>3, <2>4, Zenon DEF StreamInv, StreamInOrder, OnlyDataHasBytes, Ended
<1> QED
  BY <1>7, <1>13, <1>14, Zenon

\* At the start the stream is what the handshake has read already.
LEMMA StreamInit ==
    ASSUME BytesLaws, Init
    PROVE  StreamInv
<1>1. got = <<>> /\ readBuf = <<>> /\ incoming = <<>> /\ \A t \in Readers : rest[t] = <<>>
  BY Init, Zenon DEF Init
<1>2. LeftoverIsStored
  BY <1>1, Zenon DEF LeftoverIsStored
<1>3. OnlyDataHasBytes(incoming)
  BY <1>1 DEF OnlyDataHasBytes
<1>4. <<>> \o <<>> = <<>> /\ <<1>> \in Seq(Nat) /\ <<>> \in Seq(Nat)
  OBVIOUS
<1>5. \A t \in Readers : Stream(t) = <<>> \o Bytes(arrived)
  BY <1>1, <1>4, Zenon DEF BytesLaws, Stream
<1>6. CASE arrived = <<>> /\ sent = [frames |-> 0, bytes |-> 0]
  <2>1. \A t \in Readers : Stream(t) = <<>>
    BY <1>4, <1>5, <1>6, Zenon DEF BytesLaws
  <2>2. OnlyDataHasBytes(arrived)
    BY <1>6 DEF OnlyDataHasBytes
  <2>3. Numbered(<<>>) /\ Len(<<>>) = sent.bytes
    BY <1>6 DEF Numbered
  <2> QED
    BY <1>2, <1>3, <2>1, <2>2, <2>3, Zenon DEF StreamInv, StreamInOrder
<1>7. CASE arrived = <<DataFrame(<<1>>)>> /\ sent = [frames |-> 0, bytes |-> 1]
  <2>1. DataFrame(<<1>>) \in Frame /\ DataFrame(<<1>>).bytes = <<1>> /\ DataFrame(<<1>>).kind = "data"
    BY DEF DataFrame, Frame
  <2>2. arrived = Append(<<>>, DataFrame(<<1>>)) /\ <<>> \in Seq(Frame)
    BY <1>7
  <2>3. Bytes(arrived) = <<>> \o <<1>>
    BY <2>1, <2>2, Zenon DEF BytesLaws
  <2>4. \A t \in Readers : Stream(t) = <<1>>
    BY <1>4, <1>5, <2>3, EmptyConcat, Zenon
  <2>5. OnlyDataHasBytes(arrived)
    BY <1>7, <2>1 DEF OnlyDataHasBytes
  <2>6. Numbered(<<1>>) /\ Len(<<1>>) = sent.bytes
    BY <1>7 DEF Numbered
  <2> QED
    BY <1>2, <1>3, <2>4, <2>5, <2>6, Zenon DEF StreamInv, StreamInOrder
<1> QED
  BY Init, <1>6, <1>7, Zenon DEF Init

-----------------------------------------------------------------------------
(* The laws of Bytes, by induction on the number of frames. *)

LOCAL INSTANCE FiniteSetTheorems

\* A non-empty set of numbers has a least one.  The intervals 1..x are finite
\* sets, and strict inclusion of those is well founded: this is the induction
\* that the lemmas about Bytes use, as the search for a least counterexample.
LEMMA LeastNat ==
    ASSUME NEW T, T \subseteq Nat, T # {}
    PROVE  \E x \in T : \A y \in T : x <= y
<1> DEFINE Below == {1..x : x \in T}
<1>1. Below \subseteq FiniteSubsetsOf(Nat) /\ Below # {}
  <2>1. \A x \in T : 1..x \subseteq Nat /\ IsFiniteSet(1..x)
    BY FS_Interval
  <2> QED
    BY <2>1, Zenon DEF FiniteSubsetsOf
<1>2. PICK b \in Below : \A c \in Below : <<c, b>> \notin StrictSubsetOrdering(Nat)
  BY <1>1, FS_StrictSubsetOrderingWellFounded, WFMin, Zenon
<1>3. PICK x \in T : b = 1..x
  OBVIOUS
<1>4. ASSUME NEW y \in T, y < x PROVE FALSE
  <2>1. 1..y \subseteq 1..x /\ x \notin 1..y /\ x \in 1..x
    BY <1>4
  <2>2. 1..y \in Below /\ 1..y \in SUBSET Nat /\ 1..x \in SUBSET Nat
    OBVIOUS
  <2>3. <<1..y, 1..x>> \in StrictSubsetOrdering(Nat)
    BY <2>1, <2>2, Zenon DEF StrictSubsetOrdering
  <2> QED
    BY <1>2, <1>3, <2>2, <2>3, Zenon
<1> QED
  BY <1>4

\* The equation that defines the concatenation in Bytes, up to n frames.
Cat(frames, n, c) == c = [i \in 0..n |-> IF i = 0 THEN <<>> ELSE c[i - 1] \o frames[i].bytes]

\* A function that concatenates the bytes frame by frame exists.
LEMMA CatExists ==
    ASSUME NEW frames, NEW m \in Nat
    PROVE  \E c : Cat(frames, m, c)
<1> DEFINE T == {n \in Nat : ~\E c : Cat(frames, n, c)}
<1>1. SUFFICES ASSUME T # {} PROVE FALSE
  OBVIOUS
<1>2. PICK n \in T : \A k \in T : n <= k
  BY <1>1, LeastNat, Zenon
<1>3. n # 0
  <2> DEFINE c == [i \in 0..0 |-> <<>>]
  <2>1. c = [i \in 0..0 |-> IF i = 0 THEN <<>> ELSE c[i - 1] \o frames[i].bytes]
    OBVIOUS
  <2> QED
    BY <2>1, Zenon DEF Cat
<1>4. n - 1 \in Nat /\ n - 1 \notin T
  BY <1>2, <1>3
<1>5. PICK c : Cat(frames, n - 1, c)
  BY <1>4, Zenon
<1> DEFINE d == [i \in 0..n |-> IF i = n THEN c[n - 1] \o frames[n].bytes ELSE c[i]]
<1>6. ASSUME NEW i \in 0..n PROVE d[i] = IF i = 0 THEN <<>> ELSE d[i - 1] \o frames[i].bytes
  <2>1. \A j \in 0..(n - 1) : c[j] = IF j = 0 THEN <<>> ELSE c[j - 1] \o frames[j].bytes
    BY <1>5, Zenon DEF Cat
  <2>2. n \in Nat /\ n # 0
    BY <1>3, Zenon
  <2>3. CASE i = n
    <3>1. d[n] = c[n - 1] \o frames[n].bytes /\ d[n - 1] = c[n - 1]
      BY <2>2
    <3> QED
      BY <3>1, <2>2, <2>3, Zenon
  <2>4. CASE i # n
    <3>1. d[i] = c[i] /\ i \in 0..(n - 1) /\ (i # 0 => i - 1 \in 0..n /\ i - 1 # n)
      BY <2>2, <2>4
    <3>2. i # 0 => d[i - 1] = c[i - 1]
      BY <3>1, Zenon
    <3> QED
      BY <2>1, <3>1, <3>2, Zenon
  <2> QED
    BY <2>3, <2>4, Zenon
<1>7. d = [i \in 0..n |-> IF i = 0 THEN <<>> ELSE d[i - 1] \o frames[i].bytes]
  BY <1>6, Zenon
<1> HIDE DEF d
<1>8. \E e : Cat(frames, n, e)
  BY <1>7, Zenon DEF Cat
<1> QED
  BY <1>8, Zenon

\* Bytes computes what its equation says.
LEMMA BytesCat ==
    ASSUME NEW frames, Len(frames) \in Nat
    PROVE  \E c : Cat(frames, Len(frames), c) /\ Bytes(frames) = c[Len(frames)]
<1> DEFINE c == CHOOSE c : c = [i \in 0..Len(frames) |-> IF i = 0 THEN <<>> ELSE c[i - 1] \o frames[i].bytes]
<1>1. \E x : x = [i \in 0..Len(frames) |-> IF i = 0 THEN <<>> ELSE x[i - 1] \o frames[i].bytes]
  BY CatExists, Zenon DEF Cat
<1>2. c = [i \in 0..Len(frames) |-> IF i = 0 THEN <<>> ELSE c[i - 1] \o frames[i].bytes]
  BY <1>1, Zenon
<1>3. Bytes(frames) = c[Len(frames)]
  BY Zenon DEF Bytes
<1> QED
  BY <1>2, <1>3, Zenon DEF Cat

\* No frames, no bytes.
LEMMA BytesEmpty == Bytes(<<>>) = <<>>
<1>1. Len(<<>>) = 0
  OBVIOUS
<1>2. PICK c : Cat(<<>>, 0, c) /\ Bytes(<<>>) = c[0]
  BY <1>1, BytesCat, Zenon
<1> QED
  BY <1>2 DEF Cat

\* The bytes of a frame join the end of the stream.
LEMMA BytesAppend ==
    ASSUME NEW S, NEW s \in Seq(S), NEW f \in S
    PROVE  Bytes(Append(s, f)) = Bytes(s) \o f.bytes
<1> DEFINE n == Len(s)
           t == Append(s, f)
<1>1. n \in Nat /\ Len(t) = n + 1 /\ t[n + 1] = f /\ \A i \in 1..n : t[i] = s[i]
  OBVIOUS
<1> HIDE DEF n, t
<1>2. PICK c : Cat(s, n, c) /\ Bytes(s) = c[n]
  BY <1>1, BytesCat, Zenon DEF n
<1>3. PICK d : Cat(t, n + 1, d) /\ Bytes(t) = d[n + 1]
  BY <1>1, BytesCat
<1>4. d[n + 1] = d[n] \o f.bytes
  <2>1. n + 1 \in 0..(n + 1) /\ n + 1 # 0 /\ (n + 1) - 1 = n
    BY <1>1
  <2>2. d[n + 1] = IF n + 1 = 0 THEN <<>> ELSE d[(n + 1) - 1] \o t[n + 1].bytes
    BY <1>3, <2>1, Zenon DEF Cat
  <2> QED
    BY <1>1, <2>1, <2>2, Zenon
<1>5. c[n] = d[n]
  <2> DEFINE T == {i \in 0..n : c[i] # d[i]}
  <2>1. SUFFICES ASSUME T # {} PROVE FALSE
    BY <1>1
  <2>2. PICK i \in T : \A j \in T : i <= j
    <3>1. T \subseteq Nat
      OBVIOUS
    <3> HIDE DEF T
    <3> QED
      BY <2>1, <3>1, LeastNat, Zenon
  <2>3. i \in 0..n /\ i \in 0..(n + 1) /\ c[i] # d[i]
    BY <1>1
  <2>4. /\ c[i] = IF i = 0 THEN <<>> ELSE c[i - 1] \o s[i].bytes
        /\ d[i] = IF i = 0 THEN <<>> ELSE d[i - 1] \o t[i].bytes
    BY <1>2, <1>3, <2>3, Zenon DEF Cat
  <2>5. i # 0
    BY <2>3, <2>4, Zenon
  <2>6. i - 1 \in 0..n /\ i \in 1..n /\ ~(i <= i - 1)
    BY <1>1, <2>3, <2>5
  <2>7. c[i - 1] = d[i - 1] /\ s[i] = t[i]
    BY <1>1, <2>2, <2>6, Zenon
  <2> QED
    BY <2>3, <2>4, <2>5, <2>7, Zenon
<1> QED
  BY <1>2, <1>3, <1>4, <1>5, Zenon DEF t

\* The bytes of frames are bytes.
LEMMA BytesTyped == \A s \in Seq(Frame) : Bytes(s) \in Seq(Nat)
<1> TAKE s \in Seq(Frame)
<1>1. PICK c : Cat(s, Len(s), c) /\ Bytes(s) = c[Len(s)]
  BY BytesCat
<1> DEFINE T == {i \in 0..Len(s) : c[i] \notin Seq(Nat)}
<1>2. SUFFICES ASSUME T # {} PROVE FALSE
  BY <1>1
<1>3. PICK i \in T : \A j \in T : i <= j
  <2>1. T \subseteq Nat
    OBVIOUS
  <2> HIDE DEF T
  <2> QED
    BY <1>2, <2>1, LeastNat, Zenon
<1>4. c[i] = IF i = 0 THEN <<>> ELSE c[i - 1] \o s[i].bytes
  BY <1>1, Zenon DEF Cat
<1>5. i # 0 /\ i - 1 \in 0..Len(s) /\ i - 1 \notin T /\ i \in 1..Len(s)
  <2>1. i \in 0..Len(s) /\ c[i] \notin Seq(Nat) /\ <<>> \in Seq(Nat) /\ Len(s) \in Nat
    OBVIOUS
  <2>2. i # 0
    BY <1>4, <2>1, Zenon
  <2>3. i - 1 \in 0..Len(s) /\ i \in 1..Len(s) /\ ~(i <= i - 1)
    BY <2>1, <2>2
  <2> QED
    BY <1>3, <2>2, <2>3, Zenon
<1>6. c[i - 1] \in Seq(Nat)
  BY <1>5, Zenon
<1>7. s[i].bytes \in Seq(Nat)
  <2>1. s[i] \in Frame
    BY <1>5, ElementOfSeq, Zenon
  <2> QED
    BY <2>1, Zenon DEF Frame
<1>8. c[i - 1] \o s[i].bytes \in Seq(Nat)
  BY <1>6, <1>7, ConcatProperties, Zenon
<1> QED
  BY <1>4, <1>5, <1>8, Zenon

\* The bytes of the first frame are the first bytes.
LEMMA BytesHead ==
    ASSUME NEW s \in Seq(Frame), s # <<>>
    PROVE  Bytes(s) = Head(s).bytes \o Bytes(Tail(s))
<1> DEFINE Good(u) == u # <<>> => Bytes(u) = Head(u).bytes \o Bytes(Tail(u))
           T == {n \in Nat : \E u \in Seq(Frame) : Len(u) = n /\ ~Good(u)}
<1>1. SUFFICES ASSUME T # {} PROVE FALSE
  <2>1. Len(s) \in Nat
    OBVIOUS
  <2> QED
    BY <1>1, <2>1, Zenon
<1>2. PICK n \in T : \A m \in T : n <= m
  <2>1. T \subseteq Nat
    OBVIOUS
  <2> HIDE DEF T
  <2> QED
    BY <1>1, <2>1, LeastNat, Zenon
<1>3. PICK u \in Seq(Frame) : Len(u) = n /\ ~Good(u)
  OBVIOUS
<1>4. u # <<>>
  BY <1>3, Zenon
<1>5. PICK v \in Seq(Frame), f \in Frame : u = Append(v, f)
  BY <1>4, SequenceEmptyOrAppend, Zenon
<1>6. Len(v) = n - 1 /\ n \in Nat /\ f.bytes \in Seq(Nat)
  BY <1>3, <1>5 DEF Frame
<1>7. Good(v)
  BY <1>2, <1>6
<1>8. Bytes(u) = Bytes(v) \o f.bytes
  BY <1>5, BytesAppend, Zenon
<1>9. CASE v = <<>>
  <2>1. Head(u) = f /\ Tail(u) = <<>>
    BY <1>5, <1>9
  <2>2. <<>> \o f.bytes = f.bytes /\ f.bytes \o <<>> = f.bytes
    BY <1>6
  <2> QED
    BY <1>3, <1>8, <1>9, <2>1, <2>2, BytesEmpty, Zenon
<1>10. CASE v # <<>>
  <2>1. Head(u) = Head(v) /\ Tail(u) = Append(Tail(v), f) /\ Tail(v) \in Seq(Frame)
    BY <1>5, <1>10
  <2>2. Bytes(Tail(u)) = Bytes(Tail(v)) \o f.bytes
    BY <2>1, BytesAppend, Zenon
  <2>3. Head(v).bytes \in Seq(Nat) /\ Bytes(Tail(v)) \in Seq(Nat)
    <3>1. Head(v) \in Frame
      BY <1>10
    <3> QED
      BY <2>1, <3>1, BytesTyped, Zenon DEF Frame
  <2>4. (Head(v).bytes \o Bytes(Tail(v))) \o f.bytes = Head(v).bytes \o (Bytes(Tail(v)) \o f.bytes)
    BY <1>6, <2>3, BytesAssoc, Zenon
  <2> QED
    BY <1>3, <1>7, <1>8, <1>10, <2>1, <2>2, <2>4, Zenon
<1> QED
  BY <1>9, <1>10, Zenon

\* Bytes obeys the laws that the steps rely on.
LEMMA BytesObeys == BytesLaws
BY BytesEmpty, BytesTyped, BytesAppend, BytesHead, Zenon DEF BytesLaws

\* A single reader sees the node's byte stream: what read() copies out is the
\* bytes the node sent, in order, each exactly once, however frames, read
\* buffers and the worker's hand-over cut it.
THEOREM ReaderSeesStream ==
    ASSUME \A s, t \in Readers : s = t
    PROVE  Spec => []StreamInOrder
<1> USE BytesObeys
<1>1. ASSUME TypeOK, TypeOK', StreamInv, [Next]_vars
      PROVE  StreamInv'
  <2>1. ASSUME NEW t \in Readers, NEW n \in 0..MaxLen, ReadBegin(t, n)
        PROVE  StreamInv'
    BY <1>1, <2>1, StreamReadBegin, Zenon
  <2>2. ASSUME NEW t \in Readers, ReadRecv(t)
        PROVE  StreamInv'
    BY <1>1, <2>2, StreamReadRecv, Zenon
  <2>3. ASSUME NEW t \in Readers, ReadStash(t)
        PROVE  StreamInv'
    BY <1>1, <2>3, StreamReadStash, Zenon
  <2>4. CASE WorkerStep \/ WaitFails
    BY <1>1, <2>4, StreamWorker, Zenon
  <2>5. CASE \E f \in Frames, whole \in BOOLEAN : NodeSend(f, whole)
    BY <1>1, <2>5, StreamNodeSend, Zenon
  <2>6. CASE NodeFinish
    BY <1>1, <2>6, StreamNodeFinish, Zenon
  <2>7. CASE UNCHANGED vars
    BY <1>1, <2>7, StreamQuiet, Zenon DEF vars
  <2> QED
    BY <1>1, <2>1, <2>2, <2>3, <2>4, <2>5, <2>6, <2>7, StreamCallers, Zenon DEF Next, ReaderStep
<1>2. StreamInv => StreamInOrder
  BY Zenon DEF StreamInv
<1> QED
  BY <1>1, <1>2, StreamInit, Typing, PTL DEF Spec
=============================================================================
