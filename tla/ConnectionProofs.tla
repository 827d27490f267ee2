-------------------------- MODULE ConnectionProofs --------------------------
(***************************************************************************)
(* Proofs about one connection through the proxy.  Between its client and  *)
(* its remote no chunk is lost, for any sizes of greeting, request,        *)
(* buffer, payload and answer (ProxyConnection).  A remote that is         *)
(* connected to directly is reached in time, on the interface of the       *)
(* default route, for any number of callers, addresses and interfaces and  *)
(* any timeouts (Connect).                                                 *)
(***************************************************************************)
EXTENDS ProxyConnection, Connect, TLAPS
-----------------------------------------------------------------------------
(* handle_connection and relay *)

Side == [sent : Nat, got : Nat, in : Nat, full : BOOLEAN, fin : BOOLEAN,
         gone : BOOLEAN, rd : BOOLEAN, wr : BOOLEAN, busy : BOOLEAN, blank : BOOLEAN]

\* Where a thread of relay is when its copy is over.
Copied == {"shut", "unread", "done"}

\* The threads of relay run in the stage of that name, and the handler passes on
\* no more than it has read.
Staged ==
    /\ client \in Side /\ ~client.blank /\ remote \in Side /\ lo \in Nat /\ seen \in Nat
    /\ up \in {"off", "read", "write"} \cup Copied
    /\ down \in {"off", "read", "write"} \cup Copied
    /\ stage \notin {"relay", "end"} => up = "off" /\ down = "off"
    /\ stage = "relay" => up # "off" /\ down # "off"
    /\ stage = "end" => (up = "off" /\ down = "off") \/ Over
    /\ stage \in {"open", "dial", "reply", "forward"} => seen >= Prologue

\* Every chunk of the remote is read by the client, held by the download or
\* still to read, but for those behind a frame with no data; a download that
\* ended by itself has seen the last one.
Downloads ==
    /\ remote.rd => cut \/ down \in Copied \/ stage = "end"
    /\ client.wr => stopped \/ down \in Copied \/ stage = "end"
    /\ ~remote.blank =>
          /\ down \in {"off", "read"} => client.got + remote.in = remote.sent
          /\ down = "write" => client.got + remote.in + 1 = remote.sent
          /\ down \in Copied /\ (downOk \/ Undisturbed) /\ ~cut =>
                remote.fin /\ remote.in = 0 /\ client.got = remote.sent

\* The pieces of a request that are for the handler.
Skipped == IF request = "absolute" THEN 0 ELSE Prologue

\* So is every piece of the client, the handler's buffer being the third place.
Uploads ==
    /\ client.rd => (kind = "managed" /\ up # "off") \/ stopped \/ up = "done" \/ stage = "end"
    /\ stage \notin {"relay", "end"} => seen + client.in = client.sent /\ remote.got = 0
    /\ up = "read" => remote.got + client.in + Skipped = client.sent
    /\ up = "write" => remote.got + client.in + Skipped + 1 = client.sent
    /\ kind = "direct" /\ up \in Copied /\ upOk /\ ~stopped =>
          client.fin /\ client.in = 0 /\ remote.got + Skipped = client.sent

NothingLost == Staged /\ Downloads /\ Uploads
-----------------------------------------------------------------------------
\* Shutting a half down leaves the chunks of a stream where they are,
Kept(s, t) ==
    /\ t \in Side /\ t.sent = s.sent /\ t.got = s.got /\ t.in = s.in
    /\ t.fin = s.fin /\ t.gone = s.gone /\ t.full = s.full /\ t.blank = s.blank

\* be it one half, the other or both;
LEMMA ShutKeeps ==
    ASSUME NEW s \in Side
    PROVE  /\ Kept(s, ShutRead(s)) /\ Kept(s, ShutWrite(s)) /\ Kept(s, ShutBoth(s))
           /\ ShutWrite(s).rd = s.rd /\ ShutRead(s).wr = s.wr
BY Zenon DEF Side, Kept, ShutRead, ShutWrite, ShutBoth

\* What else a stream is known by.
Apart(s, t) ==
    /\ t.rd = s.rd /\ t.wr = s.wr /\ t.fin = s.fin /\ t.gone = s.gone
    /\ t.full = s.full /\ t.blank = s.blank

\* a read takes some of them,
LEMMA Takes ==
    ASSUME NEW s \in Side, NEW n \in 1..s.in
    PROVE  LET t == [s EXCEPT !.in = @ - n] IN
           /\ t \in Side /\ t.in = s.in - n /\ t.got = s.got /\ t.sent = s.sent
           /\ Apart(s, t)
BY DEF Side, Apart

\* a write hands some to the peer,
LEMMA Gives ==
    ASSUME NEW s \in Side, NEW n \in Nat
    PROVE  LET t == [s EXCEPT !.got = @ + n] IN
           /\ t \in Side /\ t.got = s.got + n /\ t.in = s.in /\ t.sent = s.sent
           /\ Apart(s, t)
BY DEF Side, Apart

\* and a peer that has not finished adds to them.
Grows(s, t) ==
    /\ t \in Side /\ t.got = s.got /\ t.rd = s.rd /\ t.wr = s.wr
    /\ (s.fin => t.fin) /\ (s.gone => t.gone) /\ (s.full => t.full) /\ (s.blank => t.blank)
    /\ \/ t.in = s.in /\ t.sent = s.sent
       \/ ~s.fin /\ t.in = s.in + 1 /\ t.sent = s.sent + 1
       \/ s.blank

\* One that has finished sends no more.
LEMMA PeerGrows ==
    ASSUME NEW s \in Side, NEW t, Sends(s, t) \/ Finishes(s, t) \/ Stalls(s, t)
    PROVE  Grows(s, t) /\ t.blank = s.blank
<1>1. CASE Sends(s, t)
  <2>1. s.sent + 1 \in Nat /\ s.in + 1 \in Nat
    BY DEF Side
  <2>2. CASE s.blank
    <3>1. t = [s EXCEPT !.sent = s.sent + 1, !.in = s.in]
      BY <1>1, <2>2, Zenon DEF Sends
    <3> QED
      BY <2>1, <2>2, <3>1, Zenon DEF Side, Grows
  <2>3. CASE ~s.blank
    <3>1. ~s.fin /\ t = [s EXCEPT !.sent = s.sent + 1, !.in = s.in + 1]
      BY <1>1, <2>3, Zenon DEF Sends
    <3> QED
      BY <2>1, <3>1, Zenon DEF Side, Grows
  <2> QED
    BY <2>2, <2>3, Zenon
<1>2. CASE Finishes(s, t)
  BY <1>2, Zenon DEF Finishes, Side, Grows
<1>3. CASE Stalls(s, t)
  BY <1>3, Zenon DEF Stalls, Side, Grows
<1> QED
  BY <1>1, <1>2, <1>3, Zenon

\* A node holds the worker or sends a frame with no data.
LEMMA NodeGrows ==
    ASSUME NEW s \in Side, NEW t, Holds(s, t) \/ Blanks(s, t)
    PROVE  Grows(s, t)
<1>1. CASE Holds(s, t)
  BY <1>1, Zenon DEF Holds, Side, Grows
<1>2. CASE Blanks(s, t)
  BY <1>2, Zenon DEF Blanks, Side, Grows
<1> QED
  BY <1>1, <1>2, Zenon

\* The prologue has a size.
LEMMA Sizes == Greeting \in Nat /\ Prologue \in Nat /\ Skipped \in Nat
BY ProxyConnectionAssumption DEF Greeting, Prologue, Skipped
-----------------------------------------------------------------------------
(* The handler *)

\* A handler that returns leaves every chunk where it is: the relay has not begun
\* or is over.
LEMMA EndKeeps ==
    ASSUME NothingLost, End, UNCHANGED <<config, threads, stopped, request>>,
           lo' \in Nat, seen' \in Nat, stage \in {"relay", "end"} => Over
    PROVE  NothingLost'
<1> USE DEF NothingLost, Staged, threads, config
<1>1. Kept(client, client') /\ Kept(remote, remote') /\ stage' = "end"
  BY ShutKeeps, Zenon DEF End
<1>2. Skipped' = Skipped
  BY Zenon DEF Skipped, Prologue, Greeting
<1>3. Staged'
  BY <1>1, Zenon DEF Kept, Over
<1>4. Downloads'
  BY <1>1, Zenon DEF Downloads, Kept, Undisturbed
<1>5. Uploads'
  BY <1>1, <1>2, Zenon DEF Uploads, Kept
<1> QED
  BY <1>3, <1>4, <1>5, Zenon

\* A step before the relay moves what it reads to the buffer.
LEMMA StageKeeps ==
    ASSUME NothingLost, UNCHANGED <<idle, remote, threads, stopped, request>>,
           lo' \in Nat, stage \notin {"relay", "end"}, stage' \notin {"relay", "end"},
           stage' \in {"open", "dial", "reply", "forward"} => seen' >= Prologue,
           \/ UNCHANGED <<client, seen>>
           \/ \E n \in 1..client.in : Reads(n) /\ Took(n)
    PROVE  NothingLost'
<1> USE DEF NothingLost, Staged, threads
<1>1. /\ client' \in Side /\ seen' \in Nat /\ seen' + client'.in = seen + client.in
      /\ client'.sent = client.sent /\ client'.got = client.got /\ Apart(client, client')
  <2>1. CASE UNCHANGED <<client, seen>>
    BY <2>1, Zenon DEF Apart
  <2>2. ASSUME NEW n \in 1..client.in, Reads(n), Took(n)
        PROVE  /\ client' \in Side /\ seen' = seen + n /\ client'.in = client.in - n
               /\ client'.sent = client.sent /\ client'.got = client.got /\ Apart(client, client')
    BY <2>2, Takes, Zenon DEF Reads, Took
  <2>3. client.in \in Nat /\ seen \in Nat
    BY Zenon DEF Side
  <2> QED
    BY <2>1, <2>2, <2>3
<1>2. Skipped' = Skipped /\ Prologue' = Prologue
  BY Zenon DEF Skipped, Prologue, Greeting
<1>3. Staged'
  BY <1>1, <1>2, Zenon DEF Apart
<1>4. Downloads'
  BY <1>1, Zenon DEF Downloads, Copied, Apart
<1>5. Uploads'
  BY <1>1, <1>2, Zenon DEF Uploads, Copied, Apart
<1> QED
  BY <1>3, <1>4, <1>5, Zenon

\* The buffer's leftover goes to the remote before the threads start.
LEMMA ForwardKeeps == ASSUME NothingLost, Forward PROVE NothingLost'
<1> USE DEF NothingLost, Staged, threads, config
<1>1. CASE stage' = "relay"
  <2>1. /\ Leftover \in Nat /\ Leftover + Skipped = seen
    <3>1. seen \in Nat /\ seen >= Prologue
      BY Zenon DEF Forward
    <3> HIDE DEF NothingLost, Staged, threads, config
    <3> QED
      BY <3>1, Sizes DEF Leftover, Skipped
  <2>2. /\ remote' \in Side /\ remote'.got = remote.got + Leftover /\ remote'.in = remote.in
        /\ remote'.sent = remote.sent /\ Apart(remote, remote')
    <3>1. remote' = [remote EXCEPT !.got = @ + Leftover] /\ remote \in Side
      BY <1>1, Zenon DEF Forward, End
    <3> HIDE DEF NothingLost, Staged, threads, config
    <3> QED
      BY <2>1, <3>1, Gives, Zenon
  <2>3. /\ stage = "forward" /\ up' = "read" /\ down' = "read" /\ lo' = 0 /\ seen' = 0
        /\ UNCHANGED <<client, config, upOk, downOk, cut, stopped, request>>
    BY <1>1, Zenon DEF Forward, End
  <2>4. Skipped' = Skipped
    BY <2>3, Zenon DEF Skipped, Prologue, Greeting
  <2>5. Staged'
    BY <1>1, <2>2, <2>3, Zenon
  <2>6. Downloads'
    BY <2>2, <2>3, Zenon DEF Downloads, Copied, Apart
  <2>7. remote'.got + client'.in + Skipped' = client'.sent
    <3>1. remote.got = 0 /\ seen + client.in = client.sent
      BY <2>3, Zenon DEF Uploads
    <3> QED
      BY <2>1, <2>2, <2>3, <2>4, <3>1, Sizes DEF Side
  <2>8. Uploads'
    BY <1>1, <2>2, <2>3, <2>7, Zenon DEF Uploads, Copied
  <2> QED
    BY <2>5, <2>6, <2>8, Zenon
<1>2. CASE stage' # "relay"
  BY <1>2, EndKeeps, Zenon DEF Forward
<1> QED
  BY <1>1, <1>2, Zenon

\* Every step of the handler is one of these.
LEMMA HandlerKeeps == ASSUME NothingLost, Handler PROVE NothingLost'
<1> USE DEF config, threads
<1>0. /\ lo \in Nat /\ seen \in Nat /\ client.in \in Nat
      /\ \A n \in 1..client.in : seen + n \in Nat
      /\ stage \in {"open", "dial", "reply", "forward"} => seen >= Prologue
  BY DEF NothingLost, Staged, Side
<1>1. CASE ReadFirst
  BY <1>0, <1>1, EndKeeps, StageKeeps, Zenon DEF ReadFirst, Reads, Took
<1>2. CASE ReadError
  BY <1>0, <1>2, EndKeeps, Zenon DEF ReadError
<1>3. CASE AppendRead
  BY <1>0, <1>3, EndKeeps, StageKeeps, Zenon DEF AppendRead, Reads, Took
<1>4. CASE AnswerGreeting
  BY <1>0, <1>4, EndKeeps, StageKeeps, Zenon DEF AnswerGreeting
<1>5. CASE ReadRequest
  BY <1>0, <1>5, EndKeeps, StageKeeps, Zenon DEF ReadRequest, Reads, Took
<1>6. CASE ParseHead
  BY <1>0, <1>6, EndKeeps, StageKeeps, Zenon DEF ParseHead, Complete
<1>7. CASE ServeLocal
  BY <1>0, <1>7, EndKeeps, Zenon DEF ServeLocal
<1>8. CASE OpenTarget
  BY <1>0, <1>8, StageKeeps, Zenon DEF OpenTarget
<1>12. CASE Dial
  BY <1>0, <1>12, StageKeeps, Zenon DEF Dial
<1>9. CASE Refuse
  BY <1>0, <1>9, EndKeeps, Zenon DEF Refuse
<1>10. CASE Reply
  BY <1>0, <1>10, EndKeeps, StageKeeps, Zenon DEF Reply
<1>11. CASE RelayReturns
  BY <1>0, <1>11, EndKeeps, Zenon DEF RelayReturns
<1> QED
  BY <1>1, <1>2, <1>3, <1>4, <1>5, <1>6, <1>7, <1>8, <1>9, <1>10, <1>11, <1>12, ForwardKeeps, Zenon DEF Handler
-----------------------------------------------------------------------------
(* relay *)

\* The upload moves a chunk from the client to the remote, and ends by itself only
\* at the client's end.
LEMMA UpKeeps == ASSUME NothingLost, UpThread PROVE NothingLost'
<1> USE DEF config
<1>1. /\ stage = "relay" /\ up # "off" /\ UNCHANGED <<stage, lo, seen, request, config, down, downOk, stopped>>
  BY Zenon DEF NothingLost, Staged, UpThread, Up, UpRead, UpEnd, UpFails, UpWrite, UpShut, UpUnread, Copied, Over
<1>2. Skipped' = Skipped /\ Skipped \in Nat /\ Prologue' = Prologue
  BY <1>1, Sizes, Zenon DEF Skipped, Prologue, Greeting
<1>3. client \in Side /\ remote \in Side
  BY Zenon DEF NothingLost, Staged
<1>4. CASE UpRead
  <2>1. 1 \in 1..client.in /\ up = "read" /\ up' = "write" /\ UNCHANGED <<remote, upOk, cut>>
    BY <1>3, <1>4 DEF UpRead, HasChunk, Side
  <2>2. /\ client' \in Side /\ client'.in = client.in - 1 /\ client'.got = client.got
        /\ client'.sent = client.sent /\ Apart(client, client')
    BY <1>3, <1>4, <2>1, Takes, Zenon DEF UpRead
  <2>3. Staged'
    BY <1>1, <1>2, <2>1, <2>2, Zenon DEF NothingLost, Staged, Apart
  <2>4. Downloads'
    BY <1>1, <2>1, <2>2, Zenon DEF NothingLost, Downloads, Undisturbed, Apart
  <2>5. remote.got + client.in + Skipped = client.sent
    BY <2>1, Zenon DEF NothingLost, Uploads
  <2>6. remote'.got + client'.in + Skipped' + 1 = client'.sent
    BY <1>2, <1>3, <2>1, <2>2, <2>5 DEF Side
  <2>7. Uploads'
    BY <1>1, <2>1, <2>2, <2>6, Zenon DEF NothingLost, Uploads, Copied, Apart
  <2> QED
    BY <2>3, <2>4, <2>7, Zenon DEF NothingLost
<1>10. (cut => cut') /\ (remote'.rd => remote.rd \/ cut' \/ down \notin {"read", "write"})
  <2>1. CASE cut' = Cuts
    BY <2>1, Zenon DEF Cuts
  <2>2. CASE cut' = cut /\ remote'.rd = remote.rd
    BY <2>2, Zenon
  <2>3. CASE UpRead \/ UpFails \/ UpUnread
    BY <2>2, <2>3, Zenon DEF UpRead, UpFails, UpUnread
  <2>4. CASE UpEnd
    BY <1>3, <2>1, <2>2, <2>4, ShutKeeps, Zenon DEF UpEnd, EndWrites
  <2>5. CASE UpWrite
    <3>1. remote' = [remote EXCEPT !.got = @ + 1] => remote'.rd = remote.rd
      BY <1>3, Zenon DEF Side
    <3> QED
      BY <2>1, <2>2, <2>5, <3>1, Zenon DEF UpWrite
  <2>6. CASE UpShut
    BY <2>1, <2>6, Zenon DEF UpShut
  <2> QED
    BY <2>3, <2>4, <2>5, <2>6, Zenon DEF UpThread, Up
<1>11. ASSUME UNCHANGED client, Kept(remote, remote') PROVE Downloads'
  <2>1. Undisturbed' => Undisturbed
    BY <1>1, <1>11, Zenon DEF Undisturbed, Kept
  <2>2. down \in {"read", "write"} \/ down \in Copied
    BY <1>1, Zenon DEF NothingLost, Staged
  <2>3. remote'.rd => cut' \/ down \in Copied
    BY <1>1, <1>10, <2>2, Zenon DEF NothingLost, Downloads
  <2> QED
    BY <1>1, <1>10, <1>11, <2>1, <2>3, Zenon DEF NothingLost, Downloads, Kept
<1>5. CASE UpEnd
  <2>1. up = "read" /\ up' = "shut" /\ UNCHANGED <<client, upOk>> /\ Kept(remote, remote')
    BY <1>3, <1>5, ShutKeeps, Zenon DEF UpEnd, EndWrites
  <2>2. Staged'
    BY <1>1, <1>2, <2>1, Zenon DEF NothingLost, Staged, Kept, Copied
  <2>3. Downloads'
    BY <1>11, <2>1, Zenon
  <2>4. kind = "direct" /\ ~stopped => client.fin /\ client.in = 0
    BY <1>1, <1>5, Zenon DEF UpEnd, AtEnd, NothingLost, Uploads
  <2>5. kind = "direct" /\ ~stopped => remote.got + Skipped = client.sent
    <3>1. remote.got + client.in + Skipped = client.sent
      BY <2>1, Zenon DEF NothingLost, Uploads
    <3> QED
      BY <1>2, <1>3, <2>4, <3>1 DEF Side
  <2>6. Uploads'
    BY <1>1, <1>2, <2>1, <2>4, <2>5, Zenon DEF NothingLost, Uploads, Kept
  <2> QED
    BY <2>2, <2>3, <2>6, Zenon DEF NothingLost
<1>6. CASE UpFails \/ UpShut
  <2>1. /\ up \in {"read", "shut"} /\ up' \in Copied /\ UNCHANGED client
        /\ Kept(remote, remote') /\ ((up = "shut" /\ UNCHANGED upOk) \/ ~upOk')
    <3>1. CASE UpFails
      BY <1>3, <3>1, Zenon DEF UpFails, Kept, Copied
    <3>2. CASE UpShut
      BY <1>3, <3>2, ShutKeeps, Zenon DEF UpShut, Copied
    <3> QED
      BY <1>6, <3>1, <3>2, Zenon
  <2>2. Staged'
    BY <1>1, <1>2, <2>1, Zenon DEF NothingLost, Staged, Kept, Copied
  <2>3. Downloads'
    BY <1>11, <2>1, Zenon
  <2>4. (up \in Copied /\ UNCHANGED upOk) \/ ~upOk'
    BY <2>1, Zenon DEF Copied
  <2>5. up # "off" /\ up # "done" /\ up' # "off" /\ up' # "read" /\ up' # "write"
    BY <2>1, Zenon DEF Copied
  <2>6. client' = client /\ remote'.got = remote.got
    BY <2>1, Zenon DEF Kept
  <2>7. Uploads'
    <3>1. CASE ~upOk'
      BY <1>1, <2>5, <2>6, <3>1, Zenon DEF NothingLost, Uploads
    <3>2. CASE up \in Copied /\ UNCHANGED upOk
      BY <1>1, <1>2, <2>5, <2>6, <3>2, Zenon DEF NothingLost, Uploads
    <3> QED
      BY <2>4, <3>1, <3>2, Zenon
  <2> QED
    BY <2>2, <2>3, <2>7, Zenon DEF NothingLost
<1>7. CASE UpWrite
  <2>1. up = "write" /\ UNCHANGED client
    BY <1>7, Zenon DEF UpWrite
  <2>2. CASE up' = "read"
    <3>1. /\ remote' \in Side /\ remote'.got = remote.got + 1 /\ remote'.in = remote.in
          /\ remote'.sent = remote.sent /\ Apart(remote, remote')
      <4>1. remote' = [remote EXCEPT !.got = @ + 1] /\ 1 \in Nat
        BY <1>7, <2>2, Zenon DEF UpWrite
      <4> QED
        BY <1>3, <4>1, Gives, Zenon
    <3>2. UNCHANGED <<upOk, cut>>
      BY <1>7, <2>2, Zenon DEF UpWrite
    <3>3. remote.got + client.in + Skipped + 1 = client.sent
      BY <2>1, Zenon DEF NothingLost, Uploads
    <3>4. remote'.got + client'.in + Skipped' = client'.sent
      BY <1>2, <1>3, <2>1, <3>1, <3>3 DEF Side
    <3>5. Staged'
      BY <1>1, <1>2, <2>1, <2>2, <3>1, Zenon DEF NothingLost, Staged, Copied
    <3>6. Downloads'
      BY <1>1, <2>1, <3>1, <3>2, Zenon DEF NothingLost, Downloads, Undisturbed, Apart
    <3>7. Uploads'
      BY <1>1, <2>1, <2>2, <3>1, <3>4, Zenon DEF NothingLost, Uploads, Copied
    <3> QED
      BY <3>5, <3>6, <3>7, Zenon DEF NothingLost
  <2>3. CASE up' # "read"
    <3>1. up' = "shut" /\ ~upOk' /\ (remote' = ShutBoth(remote) \/ remote' = remote)
      <4>1. up' = "shut" /\ ~upOk' /\ remote' = IF Managed THEN ShutBoth(remote) ELSE remote
        BY <1>7, <2>3, Zenon DEF UpWrite
      <4> QED
        BY <4>1, Zenon
    <3>5. Kept(remote, remote')
      <4>1. Kept(remote, remote)
        BY <1>3, Zenon DEF Kept
      <4> QED
        BY <1>3, <3>1, <4>1, ShutKeeps, Zenon
    <3>2. Staged'
      BY <1>1, <1>2, <2>1, <3>1, <3>5, Zenon DEF NothingLost, Staged, Copied, Kept
    <3>3. Downloads'
      BY <1>11, <2>1, <3>5, Zenon
    <3>4. Uploads'
      BY <1>1, <2>1, <3>1, Zenon DEF NothingLost, Uploads
    <3> QED
      BY <3>2, <3>3, <3>4, Zenon DEF NothingLost
  <2> QED
    BY <2>2, <2>3, Zenon
<1>8. CASE UpUnread
  <2>1. /\ up = "unread" /\ up' = "done" /\ Kept(client, client') /\ UNCHANGED <<remote, upOk, cut>>
        /\ client'.wr = client.wr
    BY <1>3, <1>8, ShutKeeps, Zenon DEF UpUnread
  <2>2. Staged'
    BY <1>1, <1>2, <2>1, Zenon DEF NothingLost, Staged, Kept, Copied
  <2>3. Downloads'
    BY <1>1, <2>1, Zenon DEF NothingLost, Downloads, Undisturbed, Kept
  <2>4. Uploads'
    BY <1>1, <1>2, <2>1, Zenon DEF NothingLost, Uploads, Kept, Copied
  <2> QED
    BY <2>2, <2>3, <2>4, Zenon DEF NothingLost
<1> QED
  BY <1>4, <1>5, <1>6, <1>7, <1>8, Zenon DEF UpThread, Up

\* The download moves a chunk from the remote to the client, and ends by itself
\* only at the remote's end or when the upload has cut it off.
LEMMA DownKeeps == ASSUME NothingLost, DownThread PROVE NothingLost'
<1> USE DEF config
<1>1. /\ stage = "relay" /\ down # "off" /\ UNCHANGED <<stage, lo, seen, request, config, up, upOk, stopped, cut>>
      /\ up # "off"
  BY Zenon DEF NothingLost, Staged, DownThread, Down, DownRead, DownEnd, DownFails, DownWrite, DownShut, DownUnread,
     Copied, Over
<1>2. Skipped' = Skipped /\ Prologue' = Prologue
  BY <1>1, Zenon DEF Skipped, Prologue, Greeting
<1>3. client \in Side /\ remote \in Side
  BY Zenon DEF NothingLost, Staged
<1>4. CASE DownRead
  <2>1. 1 \in 1..remote.in /\ down = "read" /\ down' = "write" /\ UNCHANGED <<client, downOk>>
    BY <1>3, <1>4 DEF DownRead, HasChunk, Side
  <2>2. /\ remote' \in Side /\ remote'.in = remote.in - 1 /\ remote'.got = remote.got
        /\ remote'.sent = remote.sent /\ Apart(remote, remote')
    BY <1>3, <1>4, <2>1, Takes, Zenon DEF DownRead
  <2>3. Staged'
    BY <1>1, <1>2, <2>1, <2>2, Zenon DEF NothingLost, Staged
  <2>4. ~remote.blank => client.got + remote.in = remote.sent
    BY <2>1, Zenon DEF NothingLost, Downloads
  <2>5. ~remote.blank => client'.got + remote'.in + 1 = remote'.sent
    BY <1>3, <2>1, <2>2, <2>4 DEF Side
  <2>6. Downloads'
    BY <1>1, <2>1, <2>2, <2>5, Zenon DEF NothingLost, Downloads, Copied, Apart
  <2>7. Uploads'
    BY <1>1, <1>2, <2>1, <2>2, Zenon DEF NothingLost, Uploads
  <2> QED
    BY <2>3, <2>6, <2>7, Zenon DEF NothingLost
<1>10. down = "read" /\ ~remote.blank /\ remote.in = 0 => client.got = remote.sent
  <2>1. down = "read" /\ ~remote.blank => client.got + remote.in = remote.sent
    BY Zenon DEF NothingLost, Downloads
  <2>2. client.got \in Nat
    BY <1>3, Zenon DEF Side
  <2> QED
    BY <2>1, <2>2
<1>5. CASE DownEnd
  <2>1. down = "read" /\ down' = "shut" /\ UNCHANGED <<remote, downOk>> /\ Kept(client, client') /\ client'.rd = client.rd
    BY <1>3, <1>5, ShutKeeps, Zenon DEF DownEnd
  <2>2. Staged'
    BY <1>1, <1>2, <2>1, Zenon DEF NothingLost, Staged, Kept, Copied
  <2>3. ~cut /\ ~remote.blank => remote.fin /\ remote.in = 0
    <3>1. RemoteAtEnd
      BY <1>5, Zenon DEF DownEnd
    <3>2. remote.rd => cut
      BY <1>1, <2>1, Zenon DEF NothingLost, Downloads, Copied
    <3>3. remote.rd \/ remote.blank \/ (remote.fin /\ remote.in = 0)
      BY <3>1, Zenon DEF RemoteAtEnd, AtEnd
    <3> QED
      BY <3>2, <3>3, Zenon
  <2>4. ~cut /\ ~remote.blank => client.got = remote.sent
    BY <1>3, <1>10, <2>1, <2>3
  <2>5. Downloads'
    BY <1>1, <2>1, <2>3, <2>4, Zenon DEF NothingLost, Downloads, Kept, Copied
  <2>6. Uploads'
    BY <1>1, <1>2, <2>1, Zenon DEF NothingLost, Uploads, Kept
  <2> QED
    BY <2>2, <2>5, <2>6, Zenon DEF NothingLost
<1>6. CASE DownFails
  <2>1. down = "read" /\ down' = "shut" /\ UNCHANGED <<client, remote>> /\ ~downOk'
    BY <1>6, Zenon DEF DownFails
  <2>2. Staged'
    BY <1>1, <1>2, <2>1, Zenon DEF NothingLost, Staged, Copied
  <2>5. Undisturbed /\ ~remote.blank => remote.fin /\ remote.in = 0
    BY <1>6, Zenon DEF DownFails, RemoteError, Undisturbed
  <2>6. Undisturbed' = Undisturbed
    BY <1>1, <2>1, Zenon DEF Undisturbed
  <2>7. Undisturbed /\ ~remote.blank => client.got = remote.sent
    BY <1>10, <2>1, <2>5, Zenon
  <2>3. Downloads'
    BY <1>1, <2>1, <2>5, <2>6, <2>7, Zenon DEF NothingLost, Downloads, Copied
  <2>4. Uploads'
    BY <1>1, <1>2, <2>1, Zenon DEF NothingLost, Uploads
  <2> QED
    BY <2>2, <2>3, <2>4, Zenon DEF NothingLost
<1>7. CASE DownWrite
  <2>1. down = "write" /\ UNCHANGED remote
    BY <1>7, Zenon DEF DownWrite
  <2>2. CASE down' = "read"
    <3>1. client' = [client EXCEPT !.got = @ + 1] /\ 1 \in Nat
      BY <1>7, <2>2, Zenon DEF DownWrite
    <3>2. /\ client' \in Side /\ client'.got = client.got + 1 /\ client'.in = client.in
          /\ client'.sent = client.sent /\ Apart(client, client')
      BY <1>3, <3>1, Gives, Zenon
    <3>3. ~remote.blank => client.got + remote.in + 1 = remote.sent
      BY <2>1, Zenon DEF NothingLost, Downloads
    <3>4. ~remote.blank => client'.got + remote'.in = remote'.sent
      BY <1>3, <2>1, <3>2, <3>3 DEF Side
    <3>5. Staged'
      BY <1>1, <1>2, <2>1, <2>2, <3>2, Zenon DEF NothingLost, Staged, Copied, Apart
    <3>6. Downloads'
      BY <1>1, <2>1, <2>2, <3>2, <3>4, Zenon DEF NothingLost, Downloads, Copied, Apart
    <3>7. Uploads'
      BY <1>1, <1>2, <2>1, <3>2, Zenon DEF NothingLost, Uploads, Apart
    <3> QED
      BY <3>5, <3>6, <3>7, Zenon DEF NothingLost
  <2>3. CASE down' # "read"
    <3>1. down' = "shut" /\ ~downOk' /\ UNCHANGED client /\ ClientWriteFails
      BY <1>7, <2>3, Zenon DEF DownWrite
    <3>5. ~Undisturbed'
      <4>1. client.wr => stopped
        BY <1>1, <2>1, Zenon DEF NothingLost, Downloads, Copied
      <4> QED
        BY <1>1, <3>1, <4>1, Zenon DEF ClientWriteFails, WriteFails, Undisturbed
    <3>2. Staged'
      BY <1>1, <1>2, <2>1, <3>1, Zenon DEF NothingLost, Staged, Copied
    <3>3. Downloads'
      BY <1>1, <2>1, <3>1, <3>5, Zenon DEF NothingLost, Downloads, Copied
    <3>4. Uploads'
      BY <1>1, <1>2, <2>1, <3>1, Zenon DEF NothingLost, Uploads
    <3> QED
      BY <3>2, <3>3, <3>4, Zenon DEF NothingLost
  <2> QED
    BY <2>2, <2>3, Zenon
<1>8. CASE DownShut
  <2>1. /\ down = "shut" /\ down' = "unread" /\ Kept(client, client') /\ UNCHANGED <<remote, downOk>>
        /\ kind = "managed" \/ client'.rd = client.rd
    BY <1>3, <1>8, ShutKeeps, Zenon DEF DownShut, Managed
  <2>2. Staged'
    BY <1>1, <1>2, <2>1, Zenon DEF NothingLost, Staged, Kept, Copied
  <2>3. Downloads'
    BY <1>1, <2>1, Zenon DEF NothingLost, Downloads, Kept, Copied, Undisturbed
  <2>4. Uploads'
    BY <1>1, <1>2, <2>1, Zenon DEF NothingLost, Uploads, Kept
  <2> QED
    BY <2>2, <2>3, <2>4, Zenon DEF NothingLost
<1>9. CASE DownUnread
  <2>1. /\ down = "unread" /\ down' = "done" /\ Kept(remote, remote') /\ UNCHANGED <<client, downOk>>
    BY <1>3, <1>9, ShutKeeps, Zenon DEF DownUnread
  <2>2. Staged'
    BY <1>1, <1>2, <2>1, Zenon DEF NothingLost, Staged, Kept, Copied
  <2>3. Downloads'
    BY <1>1, <2>1, Zenon DEF NothingLost, Downloads, Kept, Copied, Undisturbed
  <2>4. Uploads'
    BY <1>1, <1>2, <2>1, Zenon DEF NothingLost, Uploads, Kept
  <2> QED
    BY <2>2, <2>3, <2>4, Zenon DEF NothingLost
<1> QED
  BY <1>4, <1>5, <1>6, <1>7, <1>8, <1>9, Zenon DEF DownThread, Down
-----------------------------------------------------------------------------
(* stop() and the peers *)

\* A stop is on record; a client adds to its stream only before it finishes.
LEMMA ClientKeeps == ASSUME NothingLost, Stop \/ Client PROVE NothingLost'
<1> USE DEF config, threads
<1>1. /\ client \in Side /\ UNCHANGED <<config, remote, threads, request, stage, lo, seen>>
      /\ (Kept(client, client') /\ stopped') \/ (Grows(client, client') /\ UNCHANGED stopped)
      /\ ~client.blank /\ ~client'.blank
  <2>1. client \in Side /\ ~client.blank
    BY Zenon DEF NothingLost, Staged
  <2>2. CASE Stop
    <3>1. Kept(client, client') /\ stopped'
      BY <2>1, <2>2, ShutKeeps, Zenon DEF Stop
    <3> QED
      BY <2>1, <2>2, <3>1, Zenon DEF Stop, Kept
  <2>3. CASE Client
    BY <2>1, <2>3, PeerGrows, Zenon DEF Client
  <2> QED
    BY <2>2, <2>3, Zenon
<1>2. Skipped' = Skipped /\ Skipped \in Nat /\ Prologue' = Prologue
  BY <1>1, Sizes, Zenon DEF Skipped, Prologue, Greeting
<1>3. client' \in Side /\ client'.got = client.got
  BY <1>1, Zenon DEF Kept, Grows
<1>4. Staged'
  BY <1>1, <1>2, <1>3, Zenon DEF NothingLost, Staged, Over
<1>11. (Undisturbed' => Undisturbed) /\ (client'.wr => stopped' \/ (client.wr /\ ~stopped))
  <2>1. CASE stopped'
    BY <2>1, Zenon DEF Undisturbed
  <2>2. CASE ~stopped' /\ Grows(client, client') /\ UNCHANGED <<stopped, remote>>
    BY <2>2, Zenon DEF Undisturbed, Grows
  <2> QED
    BY <1>1, <2>1, <2>2, Zenon
<1>5. Downloads'
  <2>1. UNCHANGED <<remote, cut, down, downOk, stage>> /\ client'.got = client.got
    BY <1>1, <1>3, Zenon
  <2>2. Downloads /\ (Undisturbed' => Undisturbed)
    BY <1>11, Zenon DEF NothingLost
  <2>3. client'.wr => stopped' \/ down' \in Copied \/ stage' = "end"
    <3>1. client.wr => stopped \/ down \in Copied \/ stage = "end"
      BY <2>2, Zenon DEF Downloads
    <3> QED
      BY <1>11, <2>1, <3>1, Zenon
  <2> QED
    BY <2>1, <2>2, <2>3, Zenon DEF Downloads
<1>6. client'.rd => stopped' \/ (client.rd /\ UNCHANGED stopped)
  BY <1>1, Zenon DEF Grows
<1>7. ~stopped' => ~stopped /\ (client.fin => client'.fin)
  BY <1>1, Zenon DEF Grows
<1>8. CASE client'.in = client.in /\ client'.sent = client.sent
  <2>1. Uploads'
    BY <1>1, <1>2, <1>6, <1>7, <1>8, Zenon DEF NothingLost, Uploads
  <2> QED
    BY <1>4, <1>5, <2>1, Zenon DEF NothingLost
<1>9. CASE ~client.fin /\ client'.in = client.in + 1 /\ client'.sent = client.sent + 1
  <2>1. \A n \in Nat : n + client.in = client.sent => n + client'.in = client'.sent
    BY <1>1, <1>9 DEF Side
  <2>2. \A n, m \in Nat : n + client.in + m = client.sent => n + client'.in + m = client'.sent
    BY <1>1, <1>9 DEF Side
  <2>3. \A n, m \in Nat : n + client.in + m + 1 = client.sent => n + client'.in + m + 1 = client'.sent
    BY <1>1, <1>9 DEF Side
  <2>4. seen \in Nat /\ remote.got \in Nat
    BY Zenon DEF NothingLost, Staged, Side
  <2>5. Uploads'
    BY <1>1, <1>2, <1>6, <1>7, <1>9, <2>1, <2>2, <2>3, <2>4, Zenon DEF NothingLost, Uploads
  <2> QED
    BY <1>4, <1>5, <2>5, Zenon DEF NothingLost
<1>10. \/ client'.in = client.in /\ client'.sent = client.sent
       \/ ~client.fin /\ client'.in = client.in + 1 /\ client'.sent = client.sent + 1
  BY <1>1, Zenon DEF Kept, Grows
<1> QED
  BY <1>8, <1>9, <1>10, Zenon

\* So does a remote.
LEMMA RemoteKeeps == ASSUME NothingLost, Remote PROVE NothingLost'
<1> USE DEF config, threads
<1>1. /\ remote \in Side /\ UNCHANGED <<config, client, threads, request, stage, lo, seen, stopped>>
      /\ Grows(remote, remote')
  BY PeerGrows, NodeGrows, Zenon DEF NothingLost, Staged, Remote
<1>2. Skipped' = Skipped /\ Prologue' = Prologue
  BY <1>1, Zenon DEF Skipped, Prologue, Greeting
<1>3. remote' \in Side /\ remote'.got = remote.got /\ remote'.rd = remote.rd /\ (remote.fin => remote'.fin)
  BY <1>1, Zenon DEF Grows
<1>4. Staged'
  BY <1>1, <1>2, <1>3, Zenon DEF NothingLost, Staged, Over
<1>5. Uploads'
  BY <1>1, <1>2, <1>3, Zenon DEF NothingLost, Uploads
<1>9. (Undisturbed' => Undisturbed) /\ (~remote'.blank => ~remote.blank)
  BY <1>1, Zenon DEF Undisturbed, Grows
<1>6. CASE (remote'.in = remote.in /\ remote'.sent = remote.sent) \/ remote.blank
  <2>1. Downloads'
    BY <1>1, <1>3, <1>6, <1>9, Zenon DEF NothingLost, Downloads
  <2> QED
    BY <1>4, <1>5, <2>1, Zenon DEF NothingLost
<1>7. CASE ~remote.fin /\ remote'.in = remote.in + 1 /\ remote'.sent = remote.sent + 1
  <2>1. \A n \in Nat : n + remote.in = remote.sent => n + remote'.in = remote'.sent
    BY <1>1, <1>7 DEF Side
  <2>2. \A n \in Nat : n + remote.in + 1 = remote.sent => n + remote'.in + 1 = remote'.sent
    BY <1>1, <1>7 DEF Side
  <2>3. client.got \in Nat
    BY Zenon DEF NothingLost, Staged, Side
  <2>4. Downloads'
    BY <1>1, <1>3, <1>7, <1>9, <2>1, <2>2, <2>3, Zenon DEF NothingLost, Downloads
  <2> QED
    BY <1>4, <1>5, <2>4, Zenon DEF NothingLost
<1>8. \/ (remote'.in = remote.in /\ remote'.sent = remote.sent) \/ remote.blank
      \/ ~remote.fin /\ remote'.in = remote.in + 1 /\ remote'.sent = remote.sent + 1
  BY <1>1, Zenon DEF Grows
<1> QED
  BY <1>6, <1>7, <1>8, Zenon
-----------------------------------------------------------------------------
\* The invariant holds in every reachable state.
LEMMA NothingLostInvariant == Spec => []NothingLost
<1>1. Init => NothingLost
  <2> SUFFICES ASSUME Init PROVE NothingLost
    OBVIOUS
  <2>1. /\ 0 \in Nat /\ 0 + 0 = 0
    OBVIOUS
  <2>2. /\ Fresh \in Side /\ Fresh.sent = 0 /\ Fresh.got = 0 /\ Fresh.in = 0 /\ ~Fresh.rd
        /\ ~Fresh.wr /\ ~Fresh.blank
    BY <2>1, Zenon DEF Fresh, Side
  <2>3. Staged
    BY <2>1, <2>2, Zenon DEF Init, RelayInit, Staged
  <2>4. Downloads
    BY <2>1, <2>2, Zenon DEF Init, RelayInit, Downloads, Copied
  <2>5. Uploads
    BY <2>1, <2>2, Zenon DEF Init, RelayInit, Uploads, Copied
  <2> QED
    BY <2>3, <2>4, <2>5, Zenon DEF NothingLost
<1>2. NothingLost /\ [Next]_vars => NothingLost'
  <2> SUFFICES ASSUME NothingLost, [Next]_vars PROVE NothingLost'
    OBVIOUS
  <2>1. CASE UNCHANGED vars
    <3> USE <2>1 DEF vars, relayVars, config, threads
    <3>1. Skipped' = Skipped /\ Prologue' = Prologue
      BY Zenon DEF Skipped, Prologue, Greeting
    <3>2. Staged'
      BY <3>1, Zenon DEF NothingLost, Staged, Over
    <3>3. Downloads'
      BY Zenon DEF NothingLost, Downloads, Undisturbed
    <3>4. Uploads'
      BY <3>1, Zenon DEF NothingLost, Uploads
    <3> QED
      BY <3>2, <3>3, <3>4, Zenon DEF NothingLost
  <2> QED
    BY <2>1, HandlerKeeps, UpKeeps, DownKeeps, ClientKeeps, RemoteKeeps, Zenon DEF Next
<1> QED
  BY <1>1, <1>2, PTL DEF Spec

\* Nothing is lost on the way, whatever the sizes of the greeting, the request, the
\* handler's buffer and the payload, and however reads cut them into pieces: a
\* download that reports no error or was not disturbed is complete, but for the
\* two exceptions NoTruncation names, and so is the upload of a direct client that
\* finished.
THEOREM NothingIsTruncated == Spec => []NoTruncation
<1>1. NothingLost => NoTruncation
  <2> SUFFICES ASSUME NothingLost PROVE NoTruncation
    OBVIOUS
  <2>1. down = "done" /\ (downOk \/ Undisturbed) /\ ~cut /\ ~remote.blank => client.got = remote.sent
    BY Zenon DEF NothingLost, Downloads, Copied
  <2>2. kind = "direct" /\ up = "done" /\ upOk /\ ~stopped => remote.got + Skipped = client.sent
    BY Zenon DEF NothingLost, Uploads, Copied
  <2>3. remote.got \in Nat /\ client.sent \in Nat
    BY Zenon DEF NothingLost, Staged, Side
  <2>4. remote.got + Skipped = client.sent
           => remote.got = IF request = "absolute" THEN client.sent ELSE client.sent - Prologue
    BY <2>3, Sizes DEF Skipped
  <2> QED
    BY <2>1, <2>2, <2>4, Zenon DEF NoTruncation
<1> QED
  BY <1>1, NothingLostInvariant, PTL
-----------------------------------------------------------------------------
(* connect_tcp_any *)

Places == {"idle", "next", "select", "compute", "store", "wait", "connected", "failed"}

\* Every variable has its type, and a caller that is at an address is at one of the
\* resolver's.
Typed ==
    /\ now \in Nat /\ mode \in Modes
    /\ route \in [Families -> Indexes]
    /\ cache \in [Families -> [iface : Indexes, at : Nat]]
    /\ pc \in [Callers -> Places]
    /\ index \in [Callers -> Nat \ {0}]
    /\ began \in [Callers -> Nat] /\ limit \in [Callers -> Nat] /\ end \in [Callers -> Nat]
    /\ signals \in [Callers -> Nat]
    /\ selected \in [Callers -> Indexes] /\ found \in [Callers -> Indexes]
    /\ second \in [Callers -> BOOLEAN] /\ moved \in [Callers -> BOOLEAN]
    /\ gaveUp \in [Callers -> SUBSET (Nat \ {0})]
    /\ \A c \in Callers : pc[c] \in {"select", "compute", "store", "wait"} => index[c] \in Addrs

\* The moments at which the first and the second attempt of a call end at the latest.
First(c) == began[c] + (1 + signals[c]) * Timeout
Last(c) == First(c) + Timeout

\* Time passes only in poll: the first attempt at an address starts within the
\* deadline of the call, and the second one when the first is over.
InTime(c) ==
    /\ limit[c] <= Timeout
    /\ pc[c] # "idle" => began[c] <= now /\ now <= Last(c)
    /\ pc[c] = "select" => ~second[c]
    /\ pc[c] \in {"select", "compute", "store"} /\ ~second[c] => now + limit[c] <= began[c] + Timeout
    /\ pc[c] \in {"compute", "store"} /\ second[c] => now <= First(c)
    /\ pc[c] = "wait" => now <= end[c] /\ end[c] <= Last(c) /\ (~second[c] => end[c] <= First(c))

\* The second attempt is made on the current interface after the first one has
\* failed on another.
Refreshed(c) ==
    mode = "auto" /\ ~moved[c] =>
        /\ pc[c] = "store" => found[c] = route[Family(c)]
        /\ pc[c] = "wait" /\ second[c] => selected[c] = route[Family(c)]
        /\ pc[c] \in {"compute", "store"} /\ second[c] => Outcome(c) \in {"refuses", "silent"}

\* What FirstReachable says of one address, and of one caller.
Excused(a) ==
    reach[a, route[FamilyOf[a]]] = "answers" => \E i \in Indexes : reach[a, i] = "resets"
GivenUp(c) == mode = "auto" /\ ~moved[c] => \A a \in gaveUp[c] : Excused(a)

ConnectInv == Typed /\ \A c \in Callers : InTime(c) /\ Refreshed(c) /\ GivenUp(c)
-----------------------------------------------------------------------------
\* The numbers and interfaces a step may store.
LEMMA Values ==
    ASSUME Typed, NEW c \in Callers
    PROVE  /\ now + limit[c] \in Nat /\ index[c] + 1 \in Nat \ {0} /\ signals[c] + 1 \in Nat
           /\ now + 1 \in Nat /\ 0 \in Nat /\ 1 \in Nat \ {0}
           /\ AttemptLimit(c) \in Nat /\ AttemptLimit(c) <= Remaining(c)
           /\ Unbound \in Indexes
<1>1. /\ now \in Nat /\ limit[c] \in Nat /\ index[c] \in Nat \ {0} /\ signals[c] \in Nat /\ began[c] \in Nat
      /\ Timeout \in Nat /\ AttemptTimeout \in Nat
  BY ConnectAssumption, Zenon DEF Typed
<1> QED
  BY <1>1 DEF AttemptLimit, Remaining, Least, Indexes

\* An interface that is looked up, cached or configured is one.
LEMMA Interfaces ==
    ASSUME Typed, NEW c \in Callers, index[c] \in Addrs
    PROVE  /\ Family(c) \in Families /\ route[Family(c)] \in Indexes
           /\ Cached(Family(c)) \in Indexes
           /\ mode \notin {"auto", "off"} => mode \in Indexes
<1>1. Family(c) \in Families
  BY Zenon DEF Family, Families
<1>2. route[Family(c)] \in Indexes /\ cache[Family(c)].iface \in Indexes
  BY <1>1, Zenon DEF Typed
<1> QED
  BY <1>1, <1>2, ConnectAssumption, Zenon DEF Typed, Cached, Indexes

\* After the lookup: no interface, to be tried or failed before, or one to store.
LEMMA ComputeCases ==
    ASSUME NEW c, Compute(c)
    PROVE  /\ pc[c] = "compute" /\ UNCHANGED <<now, envVars, cache, second>>
           /\ \/ /\ second[c] /\ selected[c] = route[Family(c)]
                 /\ AddressFailed(c) /\ UNCHANGED <<end, selected, found>>
              \/ Attempt(c, route[Family(c)]) /\ UNCHANGED <<callVars, found>>
              \/ /\ found' = [found EXCEPT ![c] = route[Family(c)]]
                 /\ pc' = [pc EXCEPT ![c] = "store"]
                 /\ UNCHANGED <<callVars, end, selected>>
BY Zenon DEF Compute, Proceed

\* After the store: the interface has failed before, or is tried.
LEMMA StoreCases ==
    ASSUME NEW c, Store(c)
    PROVE  /\ pc[c] = "store" /\ UNCHANGED <<now, envVars, found, second>>
           /\ cache' = Stored(Family(c), found[c])
           /\ \/ /\ second[c] /\ selected[c] = found[c]
                 /\ AddressFailed(c) /\ UNCHANGED <<end, selected>>
              \/ Attempt(c, found[c]) /\ UNCHANGED callVars
BY Zenon DEF Store, Proceed

\* After a failed attempt: another look at the routing table, or the next address.
LEMMA FailureCases ==
    ASSUME NEW c, AttemptFailed(c)
    PROVE  /\ pc[c] = "wait" /\ Outcome(c) \in {"refuses", "silent"}
           /\ UNCHANGED <<now, envVars, cache, end, selected, found>>
           /\ \/ /\ mode = "auto" /\ ~second[c]
                 /\ second' = [second EXCEPT ![c] = TRUE]
                 /\ pc' = [pc EXCEPT ![c] = "compute"]
                 /\ UNCHANGED callVars
              \/ (mode = "auto" => second[c]) /\ AddressFailed(c) /\ UNCHANGED second
BY Zenon DEF AttemptFailed, Waiting

\* A caller's step touches nothing of the other callers', and no clock or route.
Alone(c) ==
    \A d \in Callers \ {c} :
        /\ pc'[d] = pc[d] /\ index'[d] = index[d] /\ began'[d] = began[d] /\ limit'[d] = limit[d]
        /\ end'[d] = end[d] /\ selected'[d] = selected[d] /\ found'[d] = found[d]
        /\ second'[d] = second[d] /\ signals'[d] = signals[d] /\ moved'[d] = moved[d]
        /\ gaveUp'[d] = gaveUp[d]

\* The three ways on.  To the next address.
LEMMA FailedKeeps ==
    ASSUME Typed, NEW c \in Callers, AddressFailed(c),
           UNCHANGED <<now, envVars, tryVars>>, cache' \in [Families -> [iface : Indexes, at : Nat]]
    PROVE  Typed' /\ Alone(c)
<1> USE DEF AddressFailed, tryVars, envVars
<1>1. Typed'
  BY Values, Zenon DEF Typed, Places
<1>2. Alone(c)
  BY Zenon DEF Typed, Alone
<1> QED
  BY <1>1, <1>2, Zenon

\* To poll.
LEMMA AttemptKeeps ==
    ASSUME Typed, NEW c \in Callers, NEW iface \in Indexes, Attempt(c, iface), index[c] \in Addrs,
           UNCHANGED <<now, envVars, callVars, found, second>>,
           cache' \in [Families -> [iface : Indexes, at : Nat]]
    PROVE  Typed' /\ Alone(c)
<1> USE DEF Attempt, callVars, envVars
<1>1. Typed'
  BY Values, Zenon DEF Typed, Places
<1>2. Alone(c)
  BY Zenon DEF Typed, Alone
<1> QED
  BY <1>1, <1>2, Zenon

\* To another step.
LEMMA GotoKeeps ==
    ASSUME Typed, NEW c \in Callers, NEW p \in Places, pc' = [pc EXCEPT ![c] = p],
           p \in {"select", "compute", "store", "wait"} => index[c] \in Addrs,
           UNCHANGED <<now, envVars, cache, index, began, signals, moved, gaveUp, end, selected>>,
           limit' \in [Callers -> Nat], \A d \in Callers \ {c} : limit'[d] = limit[d],
           second' \in [Callers -> BOOLEAN], \A d \in Callers \ {c} : second'[d] = second[d],
           found' \in [Callers -> Indexes], \A d \in Callers \ {c} : found'[d] = found[d]
    PROVE  Typed' /\ Alone(c)
<1> USE DEF envVars
<1>1. Typed'
  BY Zenon DEF Typed
<1>2. Alone(c)
  BY Zenon DEF Typed, Alone
<1> QED
  BY <1>1, <1>2, Zenon

\* Every step of a caller keeps the types, and leaves the other callers alone.
LEMMA CallerTyped ==
    ASSUME Typed, NEW c \in Callers, Caller(c)
    PROVE  Typed' /\ Alone(c) /\ UNCHANGED <<now, envVars>>
<1> USE DEF callVars, tryVars, envVars, Places
<1>0. /\ limit \in [Callers -> Nat] /\ second \in [Callers -> BOOLEAN] /\ found \in [Callers -> Indexes]
      /\ cache \in [Families -> [iface : Indexes, at : Nat]]
      /\ pc[c] \in {"select", "compute", "store", "wait"} => index[c] \in Addrs
  BY Zenon DEF Typed
<1>1. CASE Begin(c)
  <2>1. Typed'
    BY <1>1, Values, Zenon DEF Typed, Begin
  <2>2. Alone(c)
    BY <1>1, Zenon DEF Typed, Begin, Alone
  <2> QED
    BY <1>1, <2>1, <2>2, Zenon DEF Begin
<1>2. CASE NextAddress(c)
  <2>1. index[c] \in Addrs
    BY <1>2, ConnectAssumption DEF NextAddress, Typed, Addrs
  <2>2. /\ limit' \in [Callers -> Nat] /\ \A d \in Callers \ {c} : limit'[d] = limit[d]
        /\ second' \in [Callers -> BOOLEAN] /\ \A d \in Callers \ {c} : second'[d] = second[d]
    BY <1>0, <1>2, Values, Zenon DEF NextAddress
  <2>3. Typed' /\ Alone(c)
    BY <1>0, <1>2, <2>1, <2>2, GotoKeeps, Zenon DEF NextAddress
  <2> QED
    BY <1>2, <2>3, Zenon DEF NextAddress
<1>3. CASE GiveUp(c) \/ Return(c) \/ SelectMissed(c) \/ Connected(c)
  BY <1>0, <1>3, GotoKeeps, Zenon DEF GiveUp, Return, SelectMissed, Connected
<1>4. CASE SelectCached(c)
  BY <1>0, <1>4, Interfaces, AttemptKeeps, Zenon DEF SelectCached
<1>5. CASE SelectConfigured(c)
  BY <1>0, <1>5, Values, Interfaces, AttemptKeeps, Zenon DEF SelectConfigured
<1>6. CASE SelectUnknown(c) \/ ConfigureFailed(c)
  BY <1>0, <1>6, FailedKeeps, Zenon DEF SelectUnknown, ConfigureFailed
<1>7. CASE Compute(c)
  <2>1. index[c] \in Addrs /\ route[Family(c)] \in Indexes
    BY <1>0, <1>7, ComputeCases, Interfaces, Zenon
  <2>2. pc[c] = "compute" /\ UNCHANGED <<now, envVars, cache, second>>
    BY <1>7, ComputeCases, Zenon
  <2>3. CASE AddressFailed(c) /\ UNCHANGED <<end, selected, found>>
    BY <1>0, <2>3, <2>2, FailedKeeps, Zenon
  <2>4. CASE Attempt(c, route[Family(c)]) /\ UNCHANGED <<callVars, found>>
    BY <1>0, <2>1, <2>4, <2>2, AttemptKeeps, Zenon
  <2>5. CASE /\ found' = [found EXCEPT ![c] = route[Family(c)]]
             /\ pc' = [pc EXCEPT ![c] = "store"]
             /\ UNCHANGED <<callVars, end, selected>>
    <3>1. found' \in [Callers -> Indexes] /\ \A d \in Callers \ {c} : found'[d] = found[d]
      BY <1>0, <2>1, <2>5, Zenon
    <3> QED
      BY <1>0, <2>1, <2>5, <2>2, <3>1, GotoKeeps, Zenon
  <2> QED
    BY <1>7, <2>3, <2>4, <2>5, ComputeCases, Zenon
<1>8. CASE Store(c)
  <2>1. index[c] \in Addrs /\ found[c] \in Indexes /\ Family(c) \in Families /\ now \in Nat
    BY <1>0, <1>8, StoreCases, Interfaces, Zenon DEF Typed
  <2>2. cache' \in [Families -> [iface : Indexes, at : Nat]]
    <3>1. [iface |-> found[c], at |-> now] \in [iface : Indexes, at : Nat]
      BY <2>1, Zenon
    <3>2. cache' = [cache EXCEPT ![Family(c)] = [iface |-> found[c], at |-> now]]
      BY <1>8, StoreCases, Zenon DEF Stored
    <3> QED
      BY <1>0, <2>1, <3>1, <3>2, Zenon
  <2>3. CASE AddressFailed(c) /\ UNCHANGED <<end, selected>>
    BY <1>8, <2>2, <2>3, StoreCases, FailedKeeps, Zenon
  <2>4. CASE Attempt(c, found[c]) /\ UNCHANGED callVars
    BY <1>8, <2>1, <2>2, <2>4, StoreCases, AttemptKeeps, Zenon
  <2> QED
    BY <1>8, <2>3, <2>4, StoreCases, Zenon
<1>9. CASE AttemptFailed(c)
  <2>1. CASE AddressFailed(c) /\ UNCHANGED second
    BY <1>0, <1>9, <2>1, FailureCases, FailedKeeps, Zenon
  <2>2. CASE second' = [second EXCEPT ![c] = TRUE] /\ pc' = [pc EXCEPT ![c] = "compute"] /\ UNCHANGED callVars
    <3>1. second' \in [Callers -> BOOLEAN] /\ \A d \in Callers \ {c} : second'[d] = second[d]
      BY <1>0, <2>2, Zenon
    <3> QED
      BY <1>0, <1>9, <2>2, <3>1, FailureCases, GotoKeeps, Zenon
  <2> QED
    BY <1>9, <2>1, <2>2, FailureCases, Zenon
<1>10. CASE Interrupted(c)
  <2>1. Typed'
    BY <1>10, Values, Zenon DEF Typed, Interrupted
  <2>2. Alone(c)
    BY <1>10, Zenon DEF Typed, Interrupted, Alone
  <2> QED
    BY <1>10, <2>1, <2>2, Zenon DEF Interrupted
<1> QED
  BY <1>1, <1>2, <1>3, <1>4, <1>5, <1>6, <1>7, <1>8, <1>9, <1>10, Zenon DEF Caller
-----------------------------------------------------------------------------
(* CallTime *)

\* The time limits, for a call that one more interruption prolongs.
LEMMA Limits ==
    ASSUME Typed, NEW c \in Callers
    PROVE  /\ First(c) \in Nat /\ Last(c) \in Nat /\ began[c] + Timeout <= First(c)
           /\ First(c) + Timeout = Last(c)
<1>1. began[c] \in Nat /\ signals[c] \in Nat /\ Timeout \in Nat
  BY ConnectAssumption, Zenon DEF Typed
<1>2. \A m, n \in Nat : (1 + m) * n \in Nat /\ (1 + m) * n = n + m * n /\ m * n \in Nat
  OBVIOUS
<1> QED
  BY <1>1, <1>2 DEF First, Last

\* An interruption moves both limits by one timeout.
LEMMA OneMore ==
    ASSUME Typed, NEW c \in Callers, began'[c] = began[c], signals'[c] = signals[c] + 1
    PROVE  First(c)' = First(c) + Timeout /\ Last(c)' = Last(c) + Timeout
<1>1. began[c] \in Nat /\ signals[c] \in Nat /\ Timeout \in Nat
  BY ConnectAssumption, Zenon DEF Typed
<1>2. \A m, n \in Nat : (1 + (m + 1)) * n = (1 + m) * n + n /\ (1 + m) * n \in Nat
  OBVIOUS
<1> QED
  BY <1>1, <1>2 DEF First, Last

\* Begin gives a call its time,
LEMMA BeginInTime == ASSUME Typed, NEW c \in Callers, InTime(c), Begin(c) PROVE InTime(c)'
<1>1. /\ pc'[c] = "next" /\ began'[c] = now /\ now' = now /\ limit'[c] = limit[c] /\ now \in Nat
      /\ signals'[c] = 0
  BY Zenon DEF Typed, Begin
<1>2. began'[c] <= now' /\ now' <= Last(c)'
  BY <1>1, ConnectAssumption DEF First, Last
<1> QED
  BY <1>1, <1>2, Zenon DEF InTime

\* NextAddress gives an attempt what is left of it,
LEMMA NextInTime == ASSUME Typed, NEW c \in Callers, InTime(c), NextAddress(c) PROVE InTime(c)'
<1>1. /\ pc'[c] = "select" /\ ~second'[c] /\ now' = now /\ began'[c] = began[c] /\ signals'[c] = signals[c]
      /\ limit'[c] = AttemptLimit(c) /\ pc[c] = "next" /\ Remaining(c) # 0
  BY Zenon DEF Typed, NextAddress
<1>2. now \in Nat /\ began[c] \in Nat /\ Timeout \in Nat
  BY ConnectAssumption, Zenon DEF Typed
<1>3. began[c] <= now /\ now <= Last(c)
  BY <1>1, Zenon DEF InTime
<1>4. AttemptLimit(c) <= Timeout /\ now + AttemptLimit(c) <= began[c] + Timeout
  BY <1>1, <1>2, <1>3, Values DEF Remaining
<1>5. Last(c)' = Last(c)
  BY <1>1, Zenon DEF First, Last
<1> QED
  BY <1>1, <1>3, <1>4, <1>5, Zenon DEF InTime

\* and an attempt ends when its limit is over.
LEMMA AttemptInTime ==
    ASSUME Typed, NEW c \in Callers, NEW iface, InTime(c), Attempt(c, iface), UNCHANGED <<now, callVars, second>>,
           pc[c] \in {"select", "compute", "store"}
    PROVE  InTime(c)'
<1>1. /\ pc'[c] = "wait" /\ end'[c] = now + limit[c] /\ now' = now /\ limit'[c] = limit[c]
      /\ began'[c] = began[c] /\ signals'[c] = signals[c] /\ second'[c] = second[c]
  BY Zenon DEF Typed, Attempt, callVars
<1>2. now \in Nat /\ began[c] \in Nat /\ Timeout \in Nat /\ limit[c] \in Nat
  BY ConnectAssumption, Zenon DEF Typed
<1>3. First(c)' = First(c) /\ Last(c)' = Last(c)
  BY <1>1, Zenon DEF First, Last
<1>4. /\ began[c] <= now /\ now <= Last(c) /\ limit[c] <= Timeout
      /\ second[c] => now <= First(c)
      /\ ~second[c] => now + limit[c] <= began[c] + Timeout
  BY Zenon DEF InTime
<1>5. /\ now <= now + limit[c] /\ now + limit[c] <= Last(c)
      /\ ~second[c] => now + limit[c] <= First(c)
  <2>1. CASE second[c]
    BY <1>2, <1>4, <2>1, Limits
  <2>2. CASE ~second[c]
    BY <1>2, <1>4, <2>2, Limits
  <2> QED
    BY <2>1, <2>2, Zenon
<1> QED
  BY <1>1, <1>3, <1>4, <1>5, Zenon DEF InTime

\* Every other step of a caller takes no time.
LEMMA OtherInTime ==
    ASSUME Typed, NEW c \in Callers, InTime(c), now' = now, began'[c] = began[c], signals'[c] = signals[c],
           limit'[c] = limit[c],
           \/ pc'[c] \in {"idle", "next", "connected", "failed"} /\ pc[c] # "idle"
           \/ pc[c] \in {"select", "compute"} /\ pc'[c] \in {"compute", "store"} /\ second'[c] = second[c]
           \/ pc[c] = "wait" /\ ~second[c] /\ pc'[c] = "compute" /\ second'[c]
    PROVE  InTime(c)'
<1>1. First(c)' = First(c) /\ Last(c)' = Last(c)
  BY Zenon DEF First, Last
<1>2. pc[c] = "wait" /\ ~second[c] => now <= First(c)
  <2>1. now \in Nat /\ end[c] \in Nat
    BY Zenon DEF Typed
  <2> QED
    BY <2>1, Limits DEF InTime
<1> QED
  BY <1>1, <1>2, Zenon DEF InTime

\* An interruption lets poll start over, once more within the limit.
LEMMA InterruptInTime == ASSUME Typed, NEW c \in Callers, InTime(c), Interrupted(c) PROVE InTime(c)'
<1>1. /\ pc[c] = "wait" /\ pc'[c] = "wait" /\ end'[c] = now + limit[c] /\ now' = now /\ limit'[c] = limit[c]
      /\ began'[c] = began[c] /\ signals'[c] = signals[c] + 1 /\ second'[c] = second[c]
  BY Zenon DEF Typed, Interrupted, Waiting
<1>2. First(c)' = First(c) + Timeout /\ Last(c)' = Last(c) + Timeout
  BY <1>1, OneMore, Zenon
<1>3. now \in Nat /\ began[c] \in Nat /\ Timeout \in Nat /\ limit[c] \in Nat /\ end[c] \in Nat
  BY ConnectAssumption, Zenon DEF Typed
<1>4. /\ began[c] <= now /\ now <= end[c] /\ end[c] <= Last(c) /\ limit[c] <= Timeout
      /\ ~second[c] => end[c] <= First(c)
  BY <1>1, Zenon DEF InTime
<1>5. /\ now <= now + limit[c] /\ now + limit[c] <= Last(c) + Timeout /\ now <= Last(c) + Timeout
      /\ ~second[c] => now + limit[c] <= First(c) + Timeout
  BY <1>3, <1>4, Limits
<1> QED
  BY <1>1, <1>2, <1>4, <1>5, Zenon DEF InTime

\* The steps of a caller, in time.
LEMMA CallerInTime == ASSUME Typed, NEW c \in Callers, InTime(c), Caller(c) PROVE InTime(c)'
<1> USE DEF callVars, tryVars
<1>1. CASE GiveUp(c) \/ Return(c) \/ Connected(c) \/ SelectMissed(c)
  BY <1>1, OtherInTime, Zenon DEF Typed, GiveUp, Return, Connected, SelectMissed, Waiting
<1>2. CASE SelectCached(c) \/ SelectConfigured(c)
  BY <1>2, AttemptInTime, Zenon DEF SelectCached, SelectConfigured
<1>3. ASSUME AddressFailed(c), now' = now, pc[c] # "idle" PROVE InTime(c)'
  BY <1>3, OtherInTime, Zenon DEF Typed, AddressFailed
<1>4. CASE SelectUnknown(c) \/ ConfigureFailed(c)
  BY <1>3, <1>4, Zenon DEF SelectUnknown, ConfigureFailed, Waiting
<1>5. CASE Compute(c)
  <2>1. pc[c] = "compute" /\ UNCHANGED <<now, second>>
    BY <1>5, ComputeCases, Zenon
  <2>2. CASE AddressFailed(c)
    BY <1>3, <2>1, <2>2, Zenon
  <2>3. CASE Attempt(c, route[Family(c)]) /\ UNCHANGED callVars
    BY <2>1, <2>3, AttemptInTime, Zenon
  <2>4. CASE pc' = [pc EXCEPT ![c] = "store"] /\ UNCHANGED callVars
    BY <2>1, <2>4, OtherInTime, Zenon DEF Typed
  <2> QED
    BY <1>5, <2>2, <2>3, <2>4, ComputeCases, Zenon
<1>6. CASE Store(c)
  <2>1. pc[c] = "store" /\ UNCHANGED <<now, second>>
    BY <1>6, StoreCases, Zenon
  <2>2. CASE AddressFailed(c)
    BY <1>3, <2>1, <2>2, Zenon
  <2>3. CASE Attempt(c, found[c]) /\ UNCHANGED callVars
    BY <2>1, <2>3, AttemptInTime, Zenon
  <2> QED
    BY <1>6, <2>2, <2>3, StoreCases, Zenon
<1>7. CASE AttemptFailed(c)
  <2>1. pc[c] = "wait" /\ UNCHANGED now
    BY <1>7, FailureCases, Zenon
  <2>2. CASE AddressFailed(c)
    BY <1>3, <2>1, <2>2, Zenon
  <2>3. CASE /\ ~second[c] /\ second' = [second EXCEPT ![c] = TRUE]
             /\ pc' = [pc EXCEPT ![c] = "compute"] /\ UNCHANGED callVars
    BY <2>1, <2>3, OtherInTime, Zenon DEF Typed
  <2> QED
    BY <1>7, <2>2, <2>3, FailureCases, Zenon
<1> QED
  BY <1>1, <1>2, <1>4, <1>5, <1>6, <1>7, BeginInTime, NextInTime, InterruptInTime, Zenon DEF Caller
-----------------------------------------------------------------------------
(* FirstReachable *)

\* An address is given up with a reason.
LEMMA FailedRight ==
    ASSUME Typed, NEW c \in Callers, GivenUp(c), AddressFailed(c), UNCHANGED envVars,
           mode = "auto" /\ ~moved[c] => Excused(index[c])
    PROVE  Refreshed(c)' /\ GivenUp(c)'
<1>1. /\ pc'[c] = "next" /\ gaveUp'[c] = gaveUp[c] \cup {index[c]} /\ moved'[c] = moved[c]
      /\ UNCHANGED <<mode, reach, route>>
  BY Zenon DEF Typed, AddressFailed, envVars
<1>2. Refreshed(c)'
  BY <1>1, Zenon DEF Refreshed
<1>3. GivenUp(c)'
  BY <1>1, Zenon DEF GivenUp, Excused
<1> QED
  BY <1>2, <1>3, Zenon

\* The other steps give none up.
LEMMA OtherRight ==
    ASSUME Typed, NEW c \in Callers, GivenUp(c), UNCHANGED <<mode, reach, route>>,
           moved'[c] = moved[c], gaveUp'[c] = gaveUp[c], index'[c] = index[c],
           pc'[c] = "store" => found'[c] = route[Family(c)],
           pc'[c] = "wait" /\ second'[c] /\ mode = "auto" /\ ~moved[c] => selected'[c] = route[Family(c)],
           pc'[c] \in {"compute", "store"} /\ second'[c] /\ mode = "auto" /\ ~moved[c]
               => Outcome(c) \in {"refuses", "silent"} /\ selected'[c] = selected[c]
    PROVE  Refreshed(c)' /\ GivenUp(c)'
<1>1. GivenUp(c)'
  BY Zenon DEF GivenUp, Excused
<1>2. Refreshed(c)'
  BY Zenon DEF Refreshed, Family, Outcome
<1> QED
  BY <1>1, <1>2, Zenon

\* The steps of a caller: a failure on the current interface, or a reset on any.
LEMMA CallerRight ==
    ASSUME Typed, NEW c \in Callers, InTime(c), Refreshed(c), GivenUp(c), Caller(c)
    PROVE  Refreshed(c)' /\ GivenUp(c)'
<1> USE DEF callVars, tryVars, envVars
<1>0. UNCHANGED <<mode, reach, route>>
  BY CallerTyped, Zenon
<1>1. CASE Begin(c)
  <2>1. pc'[c] = "next" /\ gaveUp'[c] = {}
    BY <1>1, Zenon DEF Typed, Begin
  <2> QED
    BY <2>1, Zenon DEF Refreshed, GivenUp
<1>2. CASE NextAddress(c) \/ GiveUp(c) \/ Return(c) \/ Connected(c)
  <2>1. /\ pc'[c] \in {"select", "failed", "idle", "connected"}
        /\ moved'[c] = moved[c] /\ gaveUp'[c] = gaveUp[c] /\ index'[c] = index[c]
    BY <1>2, Zenon DEF Typed, NextAddress, GiveUp, Return, Connected
  <2> QED
    BY <1>0, <2>1, OtherRight, Zenon
<1>3. CASE SelectMissed(c) \/ SelectCached(c) \/ SelectConfigured(c)
  <2>1. /\ pc[c] = "select" /\ pc'[c] \in {"compute", "wait"} /\ second'[c] = second[c]
        /\ moved'[c] = moved[c] /\ gaveUp'[c] = gaveUp[c] /\ index'[c] = index[c]
    BY <1>3, Zenon DEF Typed, SelectMissed, SelectCached, SelectConfigured, Attempt
  <2>2. ~second'[c]
    BY <2>1, Zenon DEF InTime
  <2> QED
    BY <1>0, <2>1, <2>2, OtherRight, Zenon
<1>4. CASE SelectUnknown(c)
  <2>1. AddressFailed(c) /\ mode # "auto"
    BY <1>4, ConnectAssumption, Zenon DEF SelectUnknown
  <2> QED
    BY <1>4, <2>1, FailedRight, Zenon DEF SelectUnknown
<1>5. CASE ConfigureFailed(c)
  <2>1. AddressFailed(c) /\ Outcome(c) = "resets" /\ selected[c] \in Indexes
    BY <1>5, Zenon DEF ConfigureFailed, Typed
  <2>2. Excused(index[c])
    BY <2>1, Zenon DEF Excused, Outcome
  <2> QED
    BY <1>5, <2>1, <2>2, FailedRight, Zenon DEF ConfigureFailed
<1>6. CASE Compute(c)
  <2>1. pc[c] = "compute" /\ UNCHANGED <<envVars, second>>
    BY <1>6, ComputeCases, Zenon
  <2>2. second[c] /\ mode = "auto" /\ ~moved[c] => Outcome(c) \in {"refuses", "silent"}
    BY <2>1, Zenon DEF Refreshed
  <2>3. CASE second[c] /\ selected[c] = route[Family(c)] /\ AddressFailed(c)
    <3>1. mode = "auto" /\ ~moved[c] => Excused(index[c])
      BY <2>2, <2>3, Zenon DEF Excused, Outcome, Family
    <3> QED
      BY <2>1, <2>3, <3>1, FailedRight, Zenon
  <2>4. CASE Attempt(c, route[Family(c)]) /\ UNCHANGED callVars
    <3>1. /\ pc'[c] = "wait" /\ selected'[c] = route[Family(c)]
          /\ moved'[c] = moved[c] /\ gaveUp'[c] = gaveUp[c] /\ index'[c] = index[c]
      BY <2>4, Zenon DEF Typed, Attempt
    <3> QED
      BY <1>0, <3>1, OtherRight, Zenon
  <2>5. CASE /\ found' = [found EXCEPT ![c] = route[Family(c)]]
             /\ pc' = [pc EXCEPT ![c] = "store"]
             /\ UNCHANGED <<callVars, end, selected>>
    <3>1. /\ pc'[c] = "store" /\ found'[c] = route[Family(c)] /\ selected'[c] = selected[c]
          /\ moved'[c] = moved[c] /\ gaveUp'[c] = gaveUp[c] /\ index'[c] = index[c]
      BY <2>5, Zenon DEF Typed
    <3> QED
      BY <1>0, <2>1, <2>2, <3>1, OtherRight, Zenon
  <2> QED
    BY <1>6, <2>3, <2>4, <2>5, ComputeCases, Zenon
<1>7. CASE Store(c)
  <2>1. pc[c] = "store" /\ UNCHANGED <<envVars, second>>
    BY <1>7, StoreCases, Zenon
  <2>2. mode = "auto" /\ ~moved[c] =>
            found[c] = route[Family(c)] /\ (second[c] => Outcome(c) \in {"refuses", "silent"})
    BY <2>1, Zenon DEF Refreshed
  <2>3. CASE second[c] /\ selected[c] = found[c] /\ AddressFailed(c)
    <3>1. mode = "auto" /\ ~moved[c] => Excused(index[c])
      BY <2>2, <2>3, Zenon DEF Excused, Outcome, Family
    <3> QED
      BY <2>1, <2>3, <3>1, FailedRight, Zenon
  <2>4. CASE Attempt(c, found[c]) /\ UNCHANGED callVars
    <3>1. /\ pc'[c] = "wait" /\ selected'[c] = found[c]
          /\ moved'[c] = moved[c] /\ gaveUp'[c] = gaveUp[c] /\ index'[c] = index[c]
      BY <2>4, Zenon DEF Typed, Attempt
    <3> QED
      BY <1>0, <2>2, <3>1, OtherRight, Zenon
  <2> QED
    BY <1>7, <2>3, <2>4, StoreCases, Zenon
<1>8. CASE AttemptFailed(c)
  <2>1. pc[c] = "wait" /\ Outcome(c) \in {"refuses", "silent"} /\ UNCHANGED <<envVars, selected>>
    BY <1>8, FailureCases, Zenon
  <2>2. CASE (mode = "auto" => second[c]) /\ AddressFailed(c)
    <3>1. mode = "auto" /\ ~moved[c] => selected[c] = route[Family(c)]
      BY <2>1, <2>2, Zenon DEF Refreshed
    <3>2. mode = "auto" /\ ~moved[c] => Excused(index[c])
      BY <2>1, <3>1, Zenon DEF Excused, Outcome, Family
    <3> QED
      BY <2>1, <2>2, <3>2, FailedRight, Zenon
  <2>3. CASE pc' = [pc EXCEPT ![c] = "compute"] /\ UNCHANGED callVars
    <3>1. /\ pc'[c] = "compute" /\ selected'[c] = selected[c]
          /\ moved'[c] = moved[c] /\ gaveUp'[c] = gaveUp[c] /\ index'[c] = index[c]
      BY <2>1, <2>3, Zenon DEF Typed
    <3> QED
      BY <1>0, <2>1, <3>1, OtherRight, Zenon
  <2> QED
    BY <1>8, <2>2, <2>3, FailureCases, Zenon
<1>9. CASE Interrupted(c)
  <2>1. /\ pc[c] = "wait" /\ pc'[c] = "wait" /\ selected'[c] = selected[c] /\ second'[c] = second[c]
        /\ moved'[c] = moved[c] /\ gaveUp'[c] = gaveUp[c] /\ index'[c] = index[c]
    BY <1>9, Zenon DEF Typed, Interrupted, Waiting
  <2>2. second[c] /\ mode = "auto" /\ ~moved[c] => selected[c] = route[Family(c)]
    BY <2>1, Zenon DEF Refreshed
  <2> QED
    BY <1>0, <2>1, <2>2, OtherRight, Zenon
<1> QED
  BY <1>1, <1>2, <1>3, <1>4, <1>5, <1>6, <1>7, <1>8, <1>9, Zenon DEF Caller
-----------------------------------------------------------------------------
\* A step of one caller is none of the others'.
LEMMA OthersStand ==
    ASSUME NEW c, NEW d \in Callers \ {c}, Alone(c), UNCHANGED <<now, envVars>>,
           InTime(d), Refreshed(d), GivenUp(d)
    PROVE  InTime(d)' /\ Refreshed(d)' /\ GivenUp(d)'
<1> USE DEF envVars
<1>1. /\ pc'[d] = pc[d] /\ index'[d] = index[d] /\ began'[d] = began[d] /\ limit'[d] = limit[d]
      /\ end'[d] = end[d] /\ selected'[d] = selected[d] /\ found'[d] = found[d]
      /\ second'[d] = second[d] /\ signals'[d] = signals[d] /\ moved'[d] = moved[d]
      /\ gaveUp'[d] = gaveUp[d] /\ UNCHANGED <<now, mode, reach, route>>
  BY Zenon DEF Alone
<1>2. First(d)' = First(d) /\ Last(d)' = Last(d) /\ Family(d)' = Family(d) /\ Outcome(d)' = Outcome(d)
  BY <1>1, Zenon DEF First, Last, Family, Outcome
<1>3. InTime(d)'
  BY <1>1, <1>2, Zenon DEF InTime
<1>4. Refreshed(d)'
  BY <1>1, <1>2, Zenon DEF Refreshed
<1>5. GivenUp(d)'
  BY <1>1, Zenon DEF GivenUp, Excused
<1> QED
  BY <1>3, <1>4, <1>5, Zenon

\* Time passes while everybody waits and nobody's poll is over,
LEMMA TickKeeps == ASSUME ConnectInv, Tick PROVE ConnectInv'
<1> USE DEF callVars, tryVars, envVars
<1>1. /\ now' = now + 1 /\ now \in Nat /\ now + 1 \in Nat
      /\ UNCHANGED <<mode, reach, route, cache, pc, callVars, tryVars>>
  BY DEF Tick, ConnectInv, Typed
<1>2. Typed'
  BY <1>1, Zenon DEF ConnectInv, Typed
<1>3. ASSUME NEW c \in Callers PROVE InTime(c)' /\ Refreshed(c)' /\ GivenUp(c)'
  <2>1. pc[c] = "idle" \/ (pc[c] = "wait" /\ now < end[c])
    BY Zenon DEF Tick, Waiting
  <2>2. Typed /\ InTime(c) /\ Refreshed(c) /\ GivenUp(c)
    BY Zenon DEF ConnectInv
  <2>3. First(c)' = First(c) /\ Last(c)' = Last(c) /\ Family(c)' = Family(c) /\ Outcome(c)' = Outcome(c)
    BY <1>1, Zenon DEF First, Last, Family, Outcome
  <2>4. Refreshed(c)' /\ GivenUp(c)'
    BY <1>1, <2>2, <2>3, Zenon DEF Refreshed, GivenUp, Excused
  <2>5. pc[c] = "wait" => /\ began[c] <= now + 1 /\ now + 1 <= Last(c) /\ now + 1 <= end[c]
    <3>1. began[c] \in Nat /\ end[c] \in Nat /\ Last(c) \in Nat
      BY <2>2, Limits, Zenon DEF Typed
    <3>2. pc[c] = "wait" => began[c] <= now /\ end[c] <= Last(c)
      BY <2>2, Zenon DEF InTime
    <3> QED
      BY <1>1, <2>1, <3>1, <3>2
  <2>6. InTime(c)'
    BY <1>1, <2>1, <2>2, <2>3, <2>5, Zenon DEF InTime
  <2> QED
    BY <2>4, <2>6, Zenon
<1> QED
  BY <1>2, <1>3, Zenon DEF ConnectInv

\* and a route that moves excuses the calls under way.
LEMMA MoveKeeps == ASSUME ConnectInv, RouteMoves PROVE ConnectInv'
<1> USE DEF tryVars
<1>1. /\ UNCHANGED <<now, mode, reach, cache, pc, index, began, limit, signals, gaveUp, tryVars>>
      /\ moved' = [c \in Callers |-> TRUE]
  BY Zenon DEF RouteMoves
<1>2. route' \in [Families -> Indexes]
  <2>1. PICK f \in Families, iface \in Indexes : route' = [route EXCEPT ![f] = iface]
    BY Zenon DEF RouteMoves
  <2> QED
    BY <2>1, Zenon DEF ConnectInv, Typed
<1>3. Typed'
  BY <1>1, <1>2, Zenon DEF ConnectInv, Typed
<1>4. ASSUME NEW c \in Callers PROVE InTime(c)' /\ Refreshed(c)' /\ GivenUp(c)'
  <2>1. moved'[c]
    BY <1>1, Zenon
  <2>2. InTime(c)'
    BY <1>1, Zenon DEF ConnectInv, InTime, First, Last
  <2> QED
    BY <2>1, <2>2, Zenon DEF Refreshed, GivenUp
<1> QED
  BY <1>3, <1>4, Zenon DEF ConnectInv

\* The invariant holds in every reachable state.
LEMMA ConnectInvariant == ConnectSpec => []ConnectInv
<1>1. ConnectInit => ConnectInv
  <2> SUFFICES ASSUME ConnectInit PROVE ConnectInv
    OBVIOUS
  <2>1. 0 \in Nat /\ 1 \in Nat \ {0} /\ 0 <= Timeout /\ Unbound \in Indexes /\ {} \in SUBSET (Nat \ {0})
    BY ConnectAssumption DEF Indexes
  <2>2. Typed
    <3>1. [f \in Families |-> Empty] \in [Families -> [iface : Indexes, at : Nat]]
      BY <2>1, Zenon DEF Empty
    <3> QED
      BY <2>1, <3>1, Zenon DEF ConnectInit, Typed, Places
  <2>3. ASSUME NEW c \in Callers PROVE InTime(c) /\ Refreshed(c) /\ GivenUp(c)
    <3>1. pc[c] = "idle" /\ limit[c] = 0 /\ gaveUp[c] = {}
      BY Zenon DEF ConnectInit
    <3> QED
      BY <2>1, <3>1, Zenon DEF InTime, Refreshed, GivenUp
  <2> QED
    BY <2>2, <2>3, Zenon DEF ConnectInv
<1>2. ConnectInv /\ [ConnectNext]_connectVars => ConnectInv'
  <2> SUFFICES ASSUME ConnectInv, [ConnectNext]_connectVars PROVE ConnectInv'
    OBVIOUS
  <2>1. ASSUME NEW c \in Callers, Caller(c) PROVE ConnectInv'
    <3>1. Typed' /\ Alone(c) /\ UNCHANGED <<now, envVars>>
      BY <2>1, CallerTyped, Zenon DEF ConnectInv
    <3>2. InTime(c)' /\ Refreshed(c)' /\ GivenUp(c)'
      BY <2>1, CallerInTime, CallerRight, Zenon DEF ConnectInv
    <3>3. ASSUME NEW d \in Callers \ {c} PROVE InTime(d)' /\ Refreshed(d)' /\ GivenUp(d)'
      BY <3>1, <3>3, OthersStand, Zenon DEF ConnectInv
    <3> QED
      BY <3>1, <3>2, <3>3, Zenon DEF ConnectInv
  <2>2. CASE UNCHANGED connectVars
    <3> USE <2>2 DEF connectVars, callVars, tryVars, envVars
    <3>1. Typed'
      BY Zenon DEF ConnectInv, Typed
    <3>2. ASSUME NEW c \in Callers PROVE InTime(c)' /\ Refreshed(c)' /\ GivenUp(c)'
      <4>1. InTime(c)'
        BY Zenon DEF ConnectInv, InTime, First, Last
      <4>2. Refreshed(c)' /\ GivenUp(c)'
        BY Zenon DEF ConnectInv, Refreshed, GivenUp, Excused, Family, Outcome
      <4> QED
        BY <4>1, <4>2, Zenon
    <3> QED
      BY <3>1, <3>2, Zenon DEF ConnectInv
  <2> QED
    BY <2>1, <2>2, TickKeeps, MoveKeeps, Zenon DEF ConnectNext
<1> QED
  BY <1>1, <1>2, PTL DEF ConnectSpec

\* connect_tcp_any returns within twice connect_timeout_ms and one more for each
\* interruption, however many addresses and callers there are, and however long
\* the timeouts.
THEOREM CallsAreBounded == ConnectSpec => []CallTime
<1>1. ConnectInv => CallTime
  <2> SUFFICES ASSUME ConnectInv, NEW c \in Callers, pc[c] # "idle"
               PROVE  now - began[c] <= (2 + signals[c]) * Timeout
    BY Zenon DEF CallTime
  <2>1. began[c] <= now /\ now <= Last(c)
    BY Zenon DEF ConnectInv, InTime
  <2>2. now \in Nat /\ began[c] \in Nat /\ signals[c] \in Nat /\ Timeout \in Nat
    BY ConnectAssumption, Zenon DEF ConnectInv, Typed
  <2>3. \A m, n \in Nat : (2 + m) * n = (1 + m) * n + n /\ (1 + m) * n \in Nat
    OBVIOUS
  <2> QED
    BY <2>1, <2>2, <2>3 DEF First, Last
<1> QED
  BY <1>1, ConnectInvariant, PTL

\* While the default route stays what it was, an address that answers on the current
\* interface is not given up for a stale one, unless it was reset there.
THEOREM ReachableIsReached == ConnectSpec => []FirstReachable
<1>1. ConnectInv => FirstReachable
  BY Zenon DEF ConnectInv, FirstReachable, GivenUp, Excused
<1> QED
  BY <1>1, ConnectInvariant, PTL
=============================================================================
