----------------------------- MODULE ProxyRelay -----------------------------
(***************************************************************************)
(* relay (proxy_service.rs): two threads copy between the client and a     *)
(* remote, which is a socket (direct) or a TcpTunnel (managed).  Only the  *)
(* flow of chunks and the shutdowns are kept: a side of a stream is known  *)
(* by the chunks it holds, by whether its peer has finished, and by        *)
(* whether this program has shut its halves down.                          *)
(***************************************************************************)
EXTENDS Naturals

CONSTANT Kinds   \* the remotes to consider: "direct", "managed"

ASSUME ProxyRelayAssumption == Kinds \subseteq {"direct", "managed"}

VARIABLES
    kind,        \* the ProxyRemote, once it is open
    idle,        \* idle_timeout_ms > 0: the client's socket has timeouts
    client,      \* the client's socket
    remote,      \* the remote's socket or tunnel
    up, down,    \* the two threads, "off" until relay starts them
    upOk, downOk,    \* their results
    stopped,     \* ProxyService::stop has shut the client's socket down
    cut          \* history: the upload has ended the remote under the download

threads == <<up, down, upOk, downOk, cut>>
config == <<kind, idle>>
relayVars == <<config, client, remote, threads, stopped>>

\* sent, got: chunks the peer has sent, and chunks it has read; in: chunks to
\* read here; full: the peer reads no more; fin: the peer has finished its half;
\* gone: it has closed both; rd, wr: a half this program has shut down.  Of a
\* tunnel, busy: the node holds the worker, with half a frame or with frames
\* that come without a pause; blank: it has sent a data frame with no data.
Fresh == [sent |-> 0, got |-> 0, in |-> 0, full |-> FALSE, fin |-> FALSE, gone |-> FALSE,
          rd |-> FALSE, wr |-> FALSE, busy |-> FALSE, blank |-> FALSE]

Managed == kind = "managed"

RelayInit ==
    /\ kind = "none" /\ idle \in BOOLEAN
    /\ client = Fresh /\ remote = Fresh
    /\ up = "off" /\ down = "off" /\ upOk = TRUE /\ downOk = TRUE
    /\ stopped = FALSE /\ cut = FALSE
-----------------------------------------------------------------------------
ShutRead(s) == [s EXCEPT !.rd = TRUE]
ShutWrite(s) == [s EXCEPT !.wr = TRUE]
ShutBoth(s) == [s EXCEPT !.rd = TRUE, !.wr = TRUE]

\* What shutdown(Write) of a copy's target does; a tunnel has only close(), which
\* waits for its worker.
EndWrites(s) == IF Managed THEN ShutBoth(s) ELSE ShutWrite(s)

\* A read has a chunk, or the end: the peer's, or a shutdown's, after which
\* the data that was there may still be read.
HasChunk(s) == s.in > 0
AtEnd(s) == (s.fin /\ s.in = 0) \/ s.rd

\* A tunnel's read gives Ok(0) when the worker has stopped of itself, and for a
\* frame with no data; the node's end is an error, behind the data.
RemoteAtEnd == IF Managed THEN remote.rd \/ (remote.blank /\ remote.in = 0) ELSE AtEnd(remote)
RemoteError == remote.gone \/ (Managed /\ remote.fin /\ remote.in = 0 /\ ~remote.blank)

\* A write waits for a peer that reads no more, and fails once the peer is gone
\* or the write half is shut; the client's waits no longer than its timeout.  A
\* write to a tunnel waits for the worker, and whenever that gets to it, it can
\* find the connection broken or the node slower than its own timeout.
CanWrite(s) == ~s.wr /\ ~s.full /\ ~s.busy
WriteFails(s) == s.wr \/ s.gone
ClientWriteFails == WriteFails(client) \/ (idle /\ client.full)
RemoteWriteFails == IF Managed THEN ~remote.busy ELSE WriteFails(remote)

\* The download has not ended yet.
Cuts == cut \/ down \in {"read", "write"}
-----------------------------------------------------------------------------
(* upstream: copy_tcp_to_tcp or copy_tcp_to_tunnel *)

UpRead ==
    /\ up = "read" /\ HasChunk(client)
    /\ client' = [client EXCEPT !.in = @ - 1] /\ up' = "write"
    /\ UNCHANGED <<config, remote, down, upOk, downOk, stopped, cut>>

UpEnd ==
    /\ up = "read" /\ AtEnd(client) /\ ~remote.busy
    /\ remote' = EndWrites(remote) /\ cut' = IF Managed THEN Cuts ELSE cut
    /\ up' = "shut"
    /\ UNCHANGED <<config, client, down, upOk, downOk, stopped>>

\* A read fails: the peer has closed with data under way, or the client has sent
\* nothing for idle_timeout_ms.  The copy ends, whatever the other one is doing.
UpFails ==
    /\ up = "read" /\ (client.gone \/ (idle /\ ~HasChunk(client) /\ ~AtEnd(client)))
    /\ up' = "shut" /\ upOk' = FALSE
    /\ UNCHANGED <<config, client, remote, down, downOk, stopped, cut>>

\* A tunnel's worker whose write fails stops without a word to the readers, and
\* the frames it has not read are lost.
UpWrite ==
    /\ up = "write"
    /\ \/ /\ CanWrite(remote)
          /\ remote' = [remote EXCEPT !.got = @ + 1]
          /\ up' = "read" /\ UNCHANGED <<upOk, cut>>
       \/ /\ RemoteWriteFails
          /\ remote' = IF Managed THEN ShutBoth(remote) ELSE remote
          /\ cut' = IF Managed THEN Cuts ELSE cut
          /\ up' = "shut" /\ upOk' = FALSE
    /\ UNCHANGED <<config, client, down, downOk, stopped>>

\* remote_writer.shutdown(Both) or close(): wakes the other thread.
UpShut ==
    /\ up = "shut" /\ ~remote.busy
    /\ up' = IF Managed THEN "done" ELSE "unread"
    /\ remote' = ShutBoth(remote) /\ cut' = Cuts
    /\ UNCHANGED <<config, client, down, upOk, downOk, stopped>>

UpUnread ==
    /\ up = "unread" /\ up' = "done"
    /\ client' = ShutRead(client)
    /\ UNCHANGED <<config, remote, down, upOk, downOk, stopped, cut>>
-----------------------------------------------------------------------------
(* downstream: copy_tcp_to_tcp or copy_tunnel_to_tcp *)

DownRead ==
    /\ down = "read" /\ HasChunk(remote)
    /\ remote' = [remote EXCEPT !.in = @ - 1] /\ down' = "write"
    /\ UNCHANGED <<config, client, up, upOk, downOk, stopped, cut>>

DownEnd ==
    /\ down = "read" /\ RemoteAtEnd
    /\ client' = ShutWrite(client) /\ down' = "shut"
    /\ UNCHANGED <<config, remote, up, upOk, downOk, stopped, cut>>

DownFails ==
    /\ down = "read" /\ RemoteError
    /\ down' = "shut" /\ downOk' = FALSE
    /\ UNCHANGED <<config, client, remote, up, upOk, stopped, cut>>

DownWrite ==
    /\ down = "write"
    /\ \/ /\ CanWrite(client)
          /\ client' = [client EXCEPT !.got = @ + 1]
          /\ down' = "read" /\ UNCHANGED downOk
       \/ /\ ClientWriteFails
          /\ down' = "shut" /\ downOk' = FALSE /\ UNCHANGED client
    /\ UNCHANGED <<config, remote, up, upOk, stopped, cut>>

\* Mutant: in managed mode, too, only the client's write half is shut down.
DownShutHalf ==
    /\ down = "shut" /\ down' = "unread"
    /\ client' = ShutWrite(client)
    /\ UNCHANGED <<config, remote, up, upOk, downOk, stopped, cut>>

\* client_writer.shutdown: only a tunnel's end also ends the client's uploads.
DownShut ==
    /\ down = "shut" /\ down' = "unread"
    /\ client' = IF Managed THEN ShutBoth(client) ELSE ShutWrite(client)
    /\ UNCHANGED <<config, remote, up, upOk, downOk, stopped, cut>>

DownUnread ==
    /\ down = "unread" /\ ~remote.busy /\ down' = "done"
    /\ remote' = IF Managed THEN ShutBoth(remote) ELSE ShutRead(remote)
    /\ UNCHANGED <<config, client, up, upOk, downOk, stopped, cut>>

-----------------------------------------------------------------------------
Up == UpRead \/ UpEnd \/ UpFails \/ UpWrite \/ UpShut \/ UpUnread
Down == DownRead \/ DownEnd \/ DownFails \/ DownWrite \/ DownShut \/ DownUnread

Over == up = "done" /\ down = "done"
=============================================================================
