--------------------------- MODULE ProxyConnection --------------------------
(***************************************************************************)
(* handle_connection (proxy_service.rs): one client of the proxy from its  *)
(* first byte to the end of the relay.  The handler reads a SOCKS5         *)
(* greeting and request or an HTTP header, in whatever pieces they come,   *)
(* opens the target, answers, passes on what it has read beyond the        *)
(* request, and relays.                                                    *)
(*                                                                         *)
(* A piece of what the client sends is known by its position: first a      *)
(* SOCKS5 greeting, then the request or the header, then the payload.  The *)
(* handler's buffer is the pieces after lo up to seen.                     *)
(***************************************************************************)
EXTENDS ProxyRelay

CONSTANTS
    Requests,      \* what clients ask for
    Head,          \* pieces of a SOCKS5 greeting, and of a request or header
    MaxHeader,     \* MAX_HEADER_SIZE: pieces the buffer may hold
    MaxPayload,    \* bound: pieces of payload the client sends
    MaxAnswer      \* bound: pieces the remote sends

\* "connect" and "absolute" are HTTP targets, "local" one that begins with '/',
\* "malformed" one that is none; nobody handles the first byte of "foreign".
ASSUME ProxyConnectionAssumption ==
    /\ Requests \subseteq {"socks5", "connect", "absolute", "local", "malformed", "foreign"}
    /\ Head \in Nat \ {0} /\ {MaxHeader, MaxPayload, MaxAnswer} \subseteq Nat

VARIABLES
    stage,      \* the handler
    request,    \* what the client asks for
    lo, seen,   \* the buffer
    answer      \* the last answer the client was sent

vars == <<relayVars, request, stage, lo, seen, answer>>

Greeting == IF request = "socks5" THEN Head ELSE 0
Prologue == Greeting + Head

Init ==
    /\ RelayInit
    /\ stage = "first" /\ request \in Requests
    /\ lo = 0 /\ seen = 0 /\ answer = "none"
-----------------------------------------------------------------------------
\* The handler returns, and its sockets are closed; a tunnel waits for its worker.
End ==
    /\ ~remote.busy
    /\ stage' = "end" /\ client' = ShutBoth(client) /\ remote' = ShutBoth(remote)

\* One read returns some of what has come.
Reads(n) == n \in 1..client.in /\ seen' = seen + n
Took(n) == client' = [client EXCEPT !.in = @ - n] /\ UNCHANGED remote

\* A loop over append_read goes on until its message is complete.
Complete == CASE stage = "greeting" -> seen >= Greeting
              [] stage = "head" -> seen >= Prologue
              [] OTHER -> FALSE

\* The client has closed, or was silent for idle_timeout_ms.
ReadError ==
    /\ stage \in {"first", "greeting", "request", "head"} /\ ~Complete
    /\ AtEnd(client) \/ client.gone \/ (idle /\ ~HasChunk(client))
    /\ End
    /\ UNCHANGED <<config, threads, stopped, request, lo, seen, answer>>

\* handle_connection: the first byte names the protocol.
ReadFirst ==
    /\ stage = "first"
    /\ \E n \in 1..client.in :
          /\ Reads(n)
          /\ \/ request = "foreign" /\ End
             \/ request = "socks5" /\ stage' = "greeting" /\ Took(n)
             \/ request \notin {"foreign", "socks5"} /\ stage' = "head" /\ Took(n)
    /\ UNCHANGED <<config, threads, stopped, request, lo, answer>>

\* The greeting of handle_socks5 and the header of handle_http: the size is
\* checked after every append, also the one that completes the message.
AppendRead ==
    /\ stage \in {"greeting", "head"} /\ ~Complete
    /\ \E n \in 1..client.in :
          /\ Reads(n)
          /\ \/ seen + n - lo <= MaxHeader /\ Took(n) /\ UNCHANGED stage
             \/ seen + n - lo > MaxHeader /\ End
    /\ UNCHANGED <<config, threads, stopped, request, lo, answer>>
-----------------------------------------------------------------------------
(* handle_socks5 *)

\* Mutant: the handler reads on before it looks for the greeting's end.
AnswerGreetingLate ==
    /\ stage = "greeting" /\ Complete /\ client.in > 0
    /\ answer' = "method" /\ lo' = seen /\ stage' = "request"
    /\ UNCHANGED <<config, client, remote, threads, stopped, request, seen>>

\* The method is answered and the buffer cleared: a client that has not waited
\* loses what came with its greeting.
AnswerGreeting ==
    /\ stage = "greeting" /\ Complete
    /\ \/ /\ CanWrite(client)
          /\ answer' = "method" /\ lo' = seen /\ stage' = "request"
          /\ UNCHANGED <<client, remote>>
       \/ ClientWriteFails /\ End /\ UNCHANGED <<lo, answer>>
    /\ UNCHANGED <<config, threads, stopped, request, seen>>

\* The request: append, parse, and then check the size.  What does not begin
\* where a request begins is refused by parse_socks5_connect or read on.
ReadRequest ==
    /\ stage = "request"
    /\ \E n \in 1..client.in :
          LET whole == lo = Greeting /\ seen + n >= Prologue IN
          /\ Reads(n)
          /\ \/ whole /\ stage' = "open" /\ Took(n)
             \/ ~whole /\ seen + n - lo <= MaxHeader /\ Took(n) /\ UNCHANGED stage
             \/ ~whole /\ (seen + n - lo > MaxHeader \/ lo # Greeting) /\ End
    /\ UNCHANGED <<config, threads, stopped, request, lo, answer>>
-----------------------------------------------------------------------------
(* handle_http *)

\* parse_http_proxy_request and the kinds of targets.
ParseHead ==
    /\ stage = "head" /\ Complete
    /\ \/ request = "malformed" /\ End
       \/ /\ request # "malformed" /\ stage' = IF request = "local" THEN "serve" ELSE "open"
          /\ UNCHANGED <<client, remote>>
    /\ UNCHANGED <<config, threads, stopped, request, lo, seen, answer>>

\* serve_local_http_request: the PAC file or a 404.
ServeLocal ==
    /\ stage = "serve" /\ End
    /\ \/ CanWrite(client) /\ answer' = "page"
       \/ ClientWriteFails /\ UNCHANGED answer
    /\ UNCHANGED <<config, threads, stopped, request, lo, seen>>
-----------------------------------------------------------------------------
(* Both: open_proxy_target, the answer, and the leftover *)

\* The route: a managed name, or an address it resolves to, if any.
OpenTarget ==
    /\ stage = "open"
    /\ \/ kind' \in Kinds /\ stage' = "dial"
       \/ stage' = "refuse" /\ UNCHANGED kind
    /\ UNCHANGED <<idle, client, remote, threads, stopped, request, lo, seen, answer>>

\* connect_tcp_any or open_tcp_tunnel.
Dial ==
    /\ stage = "dial"
    /\ \/ stage' = IF request = "absolute" THEN "forward" ELSE "reply"
       \/ stage' = "refuse"
    /\ UNCHANGED <<config, client, remote, threads, stopped, request, lo, seen, answer>>

\* The failure is reported if the client takes it.
Refuse ==
    /\ stage = "refuse" /\ End
    /\ \/ CanWrite(client) /\ answer' = "refused"
       \/ ClientWriteFails /\ UNCHANGED answer
    /\ UNCHANGED <<config, threads, stopped, request, lo, seen>>

Reply ==
    /\ stage = "reply"
    /\ \/ /\ CanWrite(client) /\ answer' = "granted" /\ stage' = "forward"
          /\ UNCHANGED <<client, remote>>
       \/ ClientWriteFails /\ End /\ UNCHANGED answer
    /\ UNCHANGED <<config, threads, stopped, request, lo, seen>>

\* Mutant: what was read beyond the request is dropped with the buffer.
LeftoverDropped == IF request = "absolute" THEN seen ELSE 0

\* A rewritten request is passed on whole, of the others what follows them.
Leftover == IF request = "absolute" THEN seen ELSE seen - Prologue

\* The leftover is written before the two threads of relay start; then the
\* buffer is gone.
Forward ==
    /\ stage = "forward"
    /\ \/ /\ Leftover = 0 \/ CanWrite(remote)
          /\ remote' = [remote EXCEPT !.got = @ + Leftover]
          /\ stage' = "relay" /\ up' = "read" /\ down' = "read"
          /\ lo' = 0 /\ seen' = 0 /\ UNCHANGED client
       \/ Leftover > 0 /\ RemoteWriteFails /\ End /\ UNCHANGED <<up, down, lo, seen>>
    /\ UNCHANGED <<config, upOk, downOk, cut, stopped, request, answer>>

\* relay joins both threads.
RelayReturns ==
    /\ stage = "relay" /\ Over /\ End
    /\ UNCHANGED <<config, threads, stopped, request, lo, seen, answer>>
-----------------------------------------------------------------------------
(* ProxyService::stop *)

Stop ==
    /\ stage # "end" /\ ~stopped /\ stopped' = TRUE /\ client' = ShutBoth(client)
    /\ UNCHANGED <<config, remote, threads, request, stage, lo, seen, answer>>
-----------------------------------------------------------------------------
(* The peers (external) *)

\* Of a half that is shut down here nobody sees what the peer sends or whether
\* it reads, and of what a node sends behind a frame with no data, nobody does.
Open(s) == ~(s.rd /\ s.wr)
Sends(s, t) ==
    /\ ~s.fin /\ ~s.rd
    /\ t = [s EXCEPT !.sent = @ + 1, !.in = IF s.blank THEN @ ELSE @ + 1]
Finishes(s, t) ==
    /\ ~s.gone
    /\ \E both \in BOOLEAN : t = [s EXCEPT !.fin = TRUE, !.gone = both, !.busy = FALSE]
Stalls(s, t) == ~s.full /\ ~s.wr /\ t = [s EXCEPT !.full = TRUE]
Holds(s, t) == ~s.fin /\ t = [s EXCEPT !.busy = ~@]
Blanks(s, t) == ~s.fin /\ ~s.blank /\ t = [s EXCEPT !.blank = TRUE]

\* A client may wait for an answer before it sends any more, or not.
Client ==
    /\ Open(client)
    /\ \/ client.sent < Prologue + MaxPayload /\ Sends(client, client')
       \/ Finishes(client, client') \/ Stalls(client, client')
    /\ UNCHANGED <<config, remote, threads, stopped, request, stage, lo, seen, answer>>

Remote ==
    /\ stage \in {"reply", "forward", "relay"} /\ Open(remote)
    /\ \/ /\ remote.sent < MaxAnswer
          /\ Sends(remote, remote') \/ (Managed /\ Blanks(remote, remote'))
       \/ Finishes(remote, remote')
       \/ kind = "direct" /\ Stalls(remote, remote')
       \/ Managed /\ Holds(remote, remote')
    /\ UNCHANGED <<config, client, threads, stopped, request, stage, lo, seen, answer>>
-----------------------------------------------------------------------------
Handler ==
    \/ ReadFirst \/ ReadError \/ AppendRead \/ AnswerGreeting \/ ReadRequest
    \/ ParseHead \/ ServeLocal \/ OpenTarget \/ Dial \/ Refuse \/ Reply \/ Forward \/ RelayReturns
UpThread == Up /\ UNCHANGED <<request, stage, lo, seen, answer>>
DownThread == Down /\ UNCHANGED <<request, stage, lo, seen, answer>>

Next == Handler \/ UpThread \/ DownThread \/ Stop \/ Client \/ Remote

Spec == Init /\ [][Next]_vars

\* open_tcp_tunnel waits for the node's status for as long as the node takes.
AwaitsNode == stage = "dial" /\ Managed

\* The threads are scheduled, and a direct target answers or times out.  A worker
\* that a node lets go of serves the thread that waits for it before it goes back
\* to its frames (TcpTunnel): hence SF.  The peers owe nothing.
FairSpec ==
    Spec /\ SF_vars(~AwaitsNode /\ Handler) /\ SF_vars(UpThread) /\ SF_vars(DownThread)
-----------------------------------------------------------------------------
(* Properties *)

\* Both peers are there to the end, and the client reads.
Undisturbed == ~stopped /\ ~client.gone /\ ~client.full /\ ~remote.gone

\* Nothing is lost on the way.  A download is complete that reports no error, or
\* that nothing disturbed: a node's own end is an error, but behind all that the
\* node has sent.  There are two exceptions: the upload has ended the remote
\* under the download, by its own end or by a write that failed, or the node has
\* sent a frame with no data, which is taken for the end.  And the upload of a
\* direct client that finished is complete: whatever it sent after its request,
\* the part that came with the request included, and of a rewritten request
\* also its header.
NoTruncation ==
    /\ down = "done" /\ (downOk \/ Undisturbed) /\ ~cut /\ ~remote.blank
           => client.got = remote.sent
    /\ kind = "direct" /\ up = "done" /\ upOk /\ client.fin /\ ~stopped
           => remote.got = IF request = "absolute" THEN client.sent ELSE client.sent - Prologue

\* A peer that reads no more holds the thread that writes to it, until the peer
\* is gone, the write half is shut down or, at the client's socket, it times out.
\* A node holds what waits for its status or for the tunnel's worker.
HeldByRemote ==
    /\ up = "write" \/ (stage = "forward" /\ Leftover > 0)
    /\ kind = "direct" /\ remote.full /\ ~WriteFails(remote)
HeldByClient ==
    /\ \/ down = "write" \/ stage \in {"serve", "refuse", "reply"}
       \/ stage = "greeting" /\ Complete
    /\ client.full /\ ~ClientWriteFails
HeldByNode == AwaitsNode \/ remote.busy

RemoteLetsGo == []<>~HeldByRemote /\ []<>~HeldByNode
ClientLetsGo == []<>~HeldByClient

\* The handler ends, whatever the peers keep open: when ProxyService::stop shuts
\* the client's socket down, and with an idle timeout in any case, because a
\* client is silent in the end, if the remote lets go of it; when the client
\* finishes and when the tunnel ends, if the client does, too.  Nothing wakes a
\* write_all to the remote, a wait for a node's status or for a tunnel's worker,
\* and nothing but stop and the timeout a write_all to the client.
HandlerEnds ==
    RemoteLetsGo =>
        /\ stopped \/ idle ~> stage = "end"
        /\ ClientLetsGo =>
              (client.fin \/ (stage = "relay" /\ Managed /\ remote.fin) ~> stage = "end")

\* A client has sent its greeting, or its request after the answer to that, and
\* nothing more.
Waits ==
    \/ request = "socks5" /\ client.sent = Greeting /\ answer = "none"
    \/ request = "socks5" /\ client.sent = Prologue /\ answer = "method" /\ lo = Greeting
    \/ request \in {"connect", "local"} /\ client.sent = Prologue /\ answer = "none"

\* A client that waits is answered, in however many pieces its greeting and its
\* request arrive, if a node it asks for lets go of the handler: the handler
\* never waits for more than the message in turn, and never ends without an
\* answer while the client is there.
Answered ==
    []<>~HeldByNode =>
        (Waits /\ ~idle ~> ~Waits \/ stopped \/ client.fin \/ HeldByClient)
=============================================================================
