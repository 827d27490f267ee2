# Formal model of libreatrust

TLA+ specifications of libreatrust, a client library for aTrust access
services (Rust, C ABI). They model the parts of `crates/libreatrust-core` where
threads, sockets, time or several calls interact, and the C interface in
`src/ffi.rs`, check them with TLC on small instances, and prove with TLAPS every
safety invariant the runs check, and the refinement, for every instance
(section 5). Paths below are relative to `crates/libreatrust-core/src/` unless
they say otherwise. `PROJECT.json` is the machine-readable index: which
definition models which lines, what each run checks, and which hazards of the
code each property is aimed at.

## 1. The system

| part | state | operations | what makes it hard |
|---|---|---|---|
| `TcpTunnel` (transport.rs) | one TLS stream owned by a worker thread; command and data channels; a loopback wake socket; `closed`, the join handle | `read`, `write`, `close`/`Drop`; worker loop | wake-ups that can be lost, `write` racing `close`, data buffered inside TLS, edge against level triggered polling |
| `L3Remote`, `ConntrackMgr`, `Conntrack` (transport.rs) | one connection shared by many threads; flows by key and by id; each with a token and an authorisation result behind a condition variable | `write_packet`, `send_heartbeat`, `close`; answers of the node | flows created twice, answers late, repeated or never, failure while threads wait |
| L3 I/O worker, `L3Liveness` (transport.rs) | command queue, read buffers, clock, time of the last frame and the last heartbeat | one loop: commands, heartbeats, liveness check, batches of frames, wait | starvation, sleeping on buffered data, silence of the peer |
| `L3Tunnel` (transport.rs) | map of remotes by node group, creation lock, keepalive thread, packet channel | `write_packet`, `read_packet`, `send_heartbeat`, `close`, business keepalive | creation racing closing, locks held across joins, lost sessions |
| `UdpTunnel` (transport.rs) | a filter thread over an `L3Tunnel` | `read`, `write`, `close` | ends with the tunnel under it |
| outbound connect (transport.rs) | cache of the default interface per address family | `connect_tcp_any`, `connect_tcp_bound` | timeouts that add up, a cache that is stale |
| proxy service (proxy_service.rs) | listener thread, connection threads, tables of sockets and handles, event slots, DNS cache | `start`, `stop`, `take_event`, `set_event_listener`; one relay per connection | `stop` against `accept`, joins that wait for peers, callbacks replaced while they run |
| `AuthSession` (auth.rs) | pending challenge, ticket, sid, cookie jar and its recorded copy | password and SMS login, challenge answers, CAS callback, import, resume and export of a session, resource list | every request can fail in the middle of a call; state of one login seen in the next |
| resource list (resource.rs, pac.rs) | a snapshot: IP ranges, domain rules, static addresses, nodes | parse, `route`, `generate_pac`, keepalive target | two implementations of one matching rule; order and overwriting |
| diagnostic log (log.rs) | flag, file behind a mutex with a cached size, directory | `log_write`, rotation, `set_verbose_logging`, `set_log_directory` | several processes on one file, failing renames |
| C ABI (`src/ffi.rs`) | memory handed to a C caller, the registered callback | some eighty functions, each `*_free` | allocation and release written apart; callbacks on library threads |
| `AtrClient`, codecs, signatures | data conversions | pass-through | sequential |

A client logs in (`AuthSession`), gets a resource list (`Routing`), and then
opens tunnels: `TcpTunnel` directly, packets through `L3Tunnel`, which keeps an
`L3Remote` per node group, each with its I/O worker. The proxy service accepts
connections, decides by the resource list, and relays them to a `TcpTunnel` or
to a socket of `connect_tcp_any`. Everything writes to the diagnostic log.

## 2. Modules

One action is one step of one thread between two points at which another
thread can see or change what it shares; a call that holds a lock throughout is
one action. A definition named after a function models it; `map` in
`PROJECT.json` gives the lines. Definitions marked "Mutant" are faulty variants
of the definition that follows; they are used by no specification and exist to
show that a property can fail (section 4).

| module | models | actions and state |
|---|---|---|
| `TcpTunnel` | `TcpTunnel`, `run_tcp_tunnel_worker`, `SocketReadiness` | callers step through `WriteBegin/Send/Wake/Ack`, `CloseBegin/Send/Wake/Lock/Join`, `ReadBegin/Recv/Stash/Eof`; the worker through `ReadFrame`, `DrainCommand`, `Wait`, `DrainWake`; the node sends whole or split frames. `wire`, `sent` and `got` are histories; `result` is that of the last `write` or `close` (what a `read` returns is in `got`) |
| `TcpTunnelProofs`, `L3RemoteProofs`, `L3TunnelProofs`, `ProxyServiceProofs` | | theorems about the module each is named after (section 5) |
| `TcpStreamProofs` | | what a reader of `TcpTunnel` sees; extends `TcpTunnelProofs` |
| `ConnectionProofs` | | theorems about `ProxyConnection` and `Connect` |
| `RoutingProofs` | | theorems about `DnsCache` and `Routing` |
| `InterfaceProofs` | | theorems about `AuthSession`, `ProxyEvents`, `CAbi` and `L3Worker` |
| `FlowAuth` | abstract: what is promised of a flow's authorisation | `Ask`, `Answer`, `Fail` |
| `L3Remote` | `L3Remote`, `ConntrackMgr`, `Conntrack`, `handle_auth_resp`, shutdown of the worker | `get_or_create` is four steps, `ensure_auth` releases its lock while it waits; the worker is at its queue or at its stream, where the node may hold it (`ReadBegin`, `ReadEnd`); implements `FlowAuth` (`Promised`) |
| `L3Worker` | `run_l3_remote_worker_inner`, `L3Liveness`, batches | the loop against a clock; frames are counted where they are: kernel, TLS or buffer, half arrived |
| `L3Tunnel` | `L3Tunnel`, `L3TunnelState`, keepalive loop | `remote_for` under the creation lock, step by step; a remote is what `L3Remote` promises |
| `ProxyService` | listener, connection threads, `stop` | every table and counter update, every lock and join; a connection waits for its client, fails, opens, relays, ends (recording an error has no effect here); `stop`'s connect to the listener may fail |
| `ProxyRelay` | the two relays | chunks, half-closes, resets, the client's timeouts and shutdowns on both sides; a tunnel ends with an error behind its data, stops unreported when a write fails, and its worker can be held by the node (`busy`) |
| `ProxyConnection` | `handle_connection`, `handle_socks5`, `handle_http`; extends `ProxyRelay` | the handler's stages from the first byte to the relay (`Dial` is the wait for the target, without a bound for a node); what the client sends is pieces of a greeting, a request and a payload, which a read cuts anywhere, and the buffer is an interval of them |
| `DnsCache` | `resolve_ipv4_addresses`, `resolved_tcp_route`, the direct path of `open_proxy_target` | two critical sections with the resolver between them, a clock, a resolver that changes its answer or fails |
| `ProxyEvents` | `record_proxy_error`, `take_event`, `EventListenerSlot` | recorders that store and notify, a setter, the mutex held during a call of the listener |
| `CAbi` | src/ffi.rs; extends `ProxyEvents` | for each kind of value (`Kinds`) the paths `copy_*` allocates and the paths `free_*` visits; calls that fail or hand a value out, `*_free` once or twice, `take_event` |
| `AuthSession` | `AuthSession` | a call is a sequence of requests, each of which may fail; tickets, sids and cookies are known by the login they belong to |
| `Connect` | `connect_tcp_any`, `connect_tcp_bound`, `wait_for_connect`, the interface cache | a clock, a routing table that changes, addresses that answer, reset, refuse or stay silent on each interface |
| `Routing` | resource.rs, pac.rs, `resolved_tcp_route`, `select_icmp_keepalive_target` | the list is read one address at a time; the decisions are operators on the snapshot |
| `MC*` | | instances for TLC: symmetry sets and constants |

Composition is by promise, and a promise is taken with its condition. `L3Remote`
takes from `L3Worker` that the loop comes back to its queue between batches of
frames (`NothingForgotten`); `L3Tunnel` takes from `L3Remote` that `close` is a
barrier and returns once the node lets the worker go (`CallsReturn`), and assumes
the same of its nodes (`NodesLetGo`); `ProxyRelay` takes from `TcpTunnel` what its
calls return and that `close` waits for the worker (`CallsReturn`), and
`ProxyService` takes from `ProxyConnection` that a handler whose socket is shut
down ends if the remote lets go of it (`HandlerEnds`, `RemotesLetGo`). Each of
these is checked in the module that owes it.

### Abstractions worth knowing

* Payloads are numbered, never spelled out; names are sequences of labels;
  addresses are small numbers, four of them standing for a block of 256.
* Atomics are sequentially consistent, as the code uses `SeqCst`; channels are
  unbounded FIFO queues, as `mpsc::channel` is.
* `L3Worker` and `Connect` let time pass only while a thread waits; other steps
  are instantaneous. In `Connect` this includes the lookup of the default
  interface, which runs a subprocess.
* The deadline of `ensure_auth` is a step that may happen at any time.
* In `AuthSession` calls do not overlap: all of them take `&mut self`.
* Variables and fields that no later step reads are reset, and threads that have
  returned forget their locals; this only merges states no property tells apart.
* `CAbi` names a pointer by its path in the structure (field, or list, index and
  field) and leaves out what it points to. What a call that fails in the middle
  has allocated by then is not counted (section 6).

## 3. Runs

`tlc -config <cfg> <module>` in this directory; each run takes between a quarter
of a minute and three minutes. Deadlock is checked for `TcpTunnel` and
`AuthSession`; the other models may stop when their bounds are used up.

| run | bounds | shows |
|---|---|---|
| `tunnel_calls` | edge-triggered poller; a writer and a reader that both also close; 1 frame of up to 2 bytes; a wake socket of 1 byte, so that a second wake-up is dropped | `write` returns Ok exactly when the payload is on the stream; nothing follows a close or a cut payload; `close` is a barrier; the worker never sleeps on a command; the reader sees the byte stream however the frame and the buffers cut it; if the node lets every drain of frames end, every call returns and `close` releases a reader; what arrived whole is delivered |
| `remote_flows` | 2 threads, 2 keys, 2 flows | own token, asked once, no thread waits for an answer that cannot come |
| `remote_live` | 1 thread with 2 calls, 2 closers | packets and heartbeats return although the node owes nothing, `close` returns if the node does not hold the worker at its stream; `close` is a barrier; `L3Remote` implements `FlowAuth` |
| `worker_time` | heartbeat 2, liveness 5, answer within 1, 10 ticks; batches of 2, 2 frames in the kernel, 1 command | silence is noticed within one more interval, no live link is given up; nothing buffered and no command is forgotten |
| `l3_remotes` | 1 caller that reads and writes, keepalive, 1 closer, 2 groups, 2 remotes alive at once | one live remote per group, none is lost; at most one slips past `close`, none through the keepalive thread; `close` returns and releases a reader, if the nodes let workers and handshakes end; a lost session is set up again, if the node can be reached |
| `proxy_stop` | 2 stoppers, 2 connections, handles pruned from 1 | `stop` leaves no thread behind, no handle is forgotten, no counter or socket leaks; `stop` can miss one registered connection at most and, if the remotes let go of the others and its connect wakes the listener, waits for no other |
| `proxy_connection` | one client of each kind, messages of 2 pieces, buffers of 2, 1 piece of payload each way; with and without an idle timeout | which transfers are complete, the bytes read with the request included; the handler and its relay end unless a peer or a node holds them; a client that waits is answered |
| `dns_cache` | 2 connections, 3 names (1 managed), a cache of 1 entry, lifetime 2, lookups of up to 1, 5 ticks, 1 change or failure | the cache keeps its bound; a route follows an answer that has stood for the lifetime of an entry and a lookup, and no managed address is dialled directly |
| `c_abi` | 2 threads, 2 calls, lists of 0 and 2 items, 2 recorded events (one with a NUL), 1 listener | each `*_free` releases what was handed out, once; a replaced callback is never running; a callback that stays hears every event |
| `auth_login` | 3 logins, chains of 2 (the code: 8) | challenges stay answerable; no ticket of an earlier login is presented, and a session cookie set in a login is the one it exports and uses; every call ends |
| `connect_cache` | 2 callers, 2 addresses, 2 interfaces, a cache of 3 ticks, calls of up to 4, 7 ticks, a route that moves, a signal | a call returns within twice its timeout, plus one for a signal; a stale interface never costs an address that answers |
| `routing_rules` | lists of 2 addresses, names of up to 3 labels, 8 IP addresses | `route` takes only what is listed, the newest rule of a domain holds, the PAC script covers what the proxy manages and agrees on names, with the exceptions of section 4, a keepalive target is found |

Why these bounds: the races are between a caller and the worker, between two
callers, or between a caller and `close`; in each model some run has every such
pair, and a second closer or stopper where its return is at stake. Where a run
has one writer or one poller only (`TcpTunnel`) the theorems of section 5 cover
any number of writers and both pollers; liveness is checked with the
edge-triggered poller, the harder one, because it announces data once.
Queues and sockets are bounded so that "full" happens (a wake socket of one
byte, a batch of two, handles pruned from the first one). Clocks run long enough
for every timeout to pass once after the event it measures. Two listed addresses
are enough for one rule to overwrite, precede or contradict another. Symmetry is
used for threads and remotes that no property distinguishes, and never with a
temporal property.

### Fairness

Fairness is stated for what the scheduler and the code's own timeouts guarantee,
and for nothing else. What a property needs of a node or a peer beyond that is a
named temporal formula in front of it, so that the property says under which
behaviour of the other side it holds.

| module | fair | owed by the other side, and for what |
|---|---|---|
| `TcpTunnel` | each caller and the worker | `DrainsEnd`: a drain of frames ends, which takes the rest of a begun frame and a pause of a millisecond (`CallsReturn`). `FramesEnd`: a begun frame is completed or cut (`ArrivedIsDelivered`). The model lets the node send control frames without end |
| `L3Remote` | callers, closers, the worker away from its stream; strongly, one command when the worker is at its queue again and again, because the loop reads the queue between batches; the deadline of `ensure_auth` | `ReadsEnd`: the worker comes back from its stream (`close` only; nothing for packets and heartbeats) |
| `L3Tunnel` | every thread, but for `connect` and the end of a worker; strongly, the creation lock | `NodesLetGo`: workers of closed remotes and handshakes end (`CloseReturns`). `NodesReached`: a node tried again and again is reached (`SessionRestored`) |
| `ProxyService` | the listener, connections away from a remote, `stop` away from the keepalive tunnel's `close` | `RemotesLetGo`: no remote holds a connection, and no node that `close`, for ever |
| `ProxyConnection` | the handler but for its wait for a node's status, and both relay threads; strongly, because a tunnel's worker that is let go serves its queue before it reads on | `RemoteLetsGo`, `ClientLetsGo` (`HandlerEnds`); no node holds the handler for ever (`Answered`) |
| `AuthSession` | the steps of a call: every request has the HTTP client's timeout (auth.rs:257) | nothing |

## 4. What the properties except

Several properties hold only with an exception. Each exception is a behaviour of
the code that a reader of its comments may not expect; without it TLC finds the
property violated.

Waits without a bound:

* `CallsReturn` (`TcpTunnel`): `drain_tcp_tunnel_frames` (transport.rs:251) has no
  limit, and `read_tunnel_exact_blocking` (1493) repeats a read that timed out. A
  node that sends without a pause of a millisecond, or stops in the middle of a
  frame, keeps the worker from its commands, and `write` and `close` with it.
* `CallsReturn` (`L3Remote`): a worker in the middle of a frame is held likewise,
  and a `0x53 0x00` notice uses no turn of a batch (2731-2740). `close` waits for
  it; `write_packet` and `send_heartbeat` do not.
* `CloseReturns` (`L3Tunnel`): `close` joins such a worker, and
  `authenticate_l3_stream` (2316-2323) reads from a silent node under the creation
  lock for as long as that is silent.
* `SilenceNoticed`: a link that falls silent in the middle of a frame is never
  given up: the liveness check is not reached, while the comment on `L3Liveness`
  (transport.rs:2449-2453) has every long silence treated as a dead link.
* `HandlerEnds`: an upload held in `write_all` (proxy_service.rs:852) by a direct
  remote that does not read is woken by nothing; the comment at 1267 has shutdown
  wake both directions. Neither is `open_proxy_target` while a node owes its
  connect status (transport.rs:1281, 1338), nor the `close` of a tunnel whose
  worker is held (proxy_service.rs:811, 826, 876).
* `Answered`: the same wait for a node's status keeps the client waiting.
* `StopWaitsOnlyForMissed`: `stop` waits for the threads of these connections and
  for the `close` of the keepalive tunnel. A connection accepted just before
  `stop` registers its socket (proxy_service.rs:299) after `stop` has scanned them
  (192), and `stop` then waits for its client. And the connect that wakes the
  listener may fail (195), which `stop` ignores: it then waits until somebody else
  connects.

Data that is lost or old:

* `NoTruncation`: a download is cut off when the client half-closes, and when the
  client is silent for `idle_timeout_ms` although it is downloading
  (proxy_service.rs:375, 773). With a tunnel, a failed write stops the worker
  without a report (transport.rs:284-291), so that `read` returns Ok(0) (138) and
  the download ends like a complete one. So does one in which the node sends a
  data frame with no data (proxy_service.rs:907).
* `Answered`: a SOCKS5 client that does not wait for the answer to its greeting
  loses what it sent with it (`buffer.clear()`, proxy_service.rs:430).
* `Promised`: a later answer of the node replaces an earlier one, a grant a denial
  and back (transport.rs:3061). `FlowAuth` allows it; it excludes that the failure
  at shutdown replaces an answer.
* `DecisionCurrent`: until an answer has stood for `DNS_CACHE_TTL` and the length
  of a lookup, a route may follow an older one, and the direct path may be told a
  managed address (proxy_service.rs:624, 706).
* `AtMostOneSurvivor`: the one remote that may slip past `L3Tunnel::close` is
  reached by no later `close` or `Drop` (transport.rs:1711).
* `CallTime`: one address can take twice `CONNECT_ATTEMPT_TIMEOUT`
  (transport.rs:555), which line 488 calls the longest time spent on one address,
  and a call can take twice its own timeout.

Login:

* `Answerable`: once the server has accepted the last step, a request for the
  user's name that fails leaves the login without a challenge to answer, because
  `complete_login` drops it first (auth.rs:512).
* `OwnCredentials`: of the parts of a session, `reset_identity` (auth.rs:440-449)
  drops the ticket, the sid and the challenge. The recorded cookies, the jar and
  the cached resource list stay, and `import_session` (391) keeps the challenge,
  the jar and the resource list. So in a login in which the server sets no session
  cookie, the earlier one is sent, and its sid exported; and the resource list may
  be the earlier login's. The property says what is kept apart: the ticket, and
  the session cookie where the server sets one.

Routing:

* `RouteFollowsList`: a later rule of a domain replaces the earlier one, also when
  it has other ports or another protocol. A node asked for by its name with a
  final dot is not known for one (resource.rs:263) and is routed like any name.
* `PacAgrees`: the script asks for one address of a name where the proxy tries
  all, and for none of a plain name, the final dot removed (pac.rs:78, 89). It has
  no rule for a domain with characters other than letters, digits, `-`, `_` and
  dots (pac.rs:114), which `route` matches. For a rule that begins with two dots,
  as one with two leading wildcards does once they are dropped, the script matches
  subdomains and `route` does not (pac.rs:111). White space around a rule, which
  `normalize_domain` drops, is not modelled.
* `KeepaliveTargetFound`: a reversed range ends the search for a keepalive
  target (transport.rs:1906).

For each property of a run `PROJECT.json` names a mutant: a definition with a
plausible mistake (a check dropped, two steps swapped, a reset forgotten) under
which TLC finds the property violated.

## 5. Proofs

Every theorem is of the form `Spec => []P`, and one states a refinement. Each
module proves an inductive invariant first, one lemma per action or group of
actions, and derives the properties from it. The constants are arbitrary but for
the named assumption of the module that declares them, so the bounds of section 3
are not assumed: a counter's limit may be any number. Where an invariant has a
name below, TLC has checked it on the run's instance too.

### The TCP tunnel

`TcpTunnelProofs` proves, for any sets of threads, any number of calls and
frames, any capacity of the wake socket and both pollers, from
`TcpTunnelAssumption` only:

| theorem | states | argument |
|---|---|---|
| `Typing` | `TypeOK` | four independent conjuncts (callers, worker, flags, streams), each inductive by itself |
| `NoLostWakeup` | `NoStrandedCommand` | with `WakeAnnounced`: an unread wake byte is announced by the poller unless the worker is about to drain it. Queueing precedes waking and draining the socket precedes draining the queue, so a command the worker has not seen has its wake-up ahead of it |
| `CloseIsBarrier` | `CloseMeansStopped` | with `JoinedMeansStopped`: once the handle is taken and the lock is free the worker has ended; whoever returns from `close` has held that lock |
| `WriteTellsTruth` | `OkIffOnWire` | with `WireInv`: a queued payload belongs to the call its writer is in, once; what is on the stream is acknowledged; a frame that ends the stream stops the worker; a stopped worker leaves no queue |
| `StreamWellFormed` | `WireWellFormed` | from the same `WireInv` |

`WireInv` is needed because `OkIffOnWire` is not inductive: it says nothing of
commands still queued, for which the invariant must exclude a second copy, a
command of an earlier call and an acknowledgement already given. The properties
are the ones `tunnel_calls` checks, and `TypeOK`.

`TcpStreamProofs` proves `StreamInOrder`, the byte stream of `tunnel_calls`, as
`ReaderSeesStream`, for any number of frames of any size. The argument is one
quantity, `Stream`: what was copied out, what is left of the chunk in hand, the
read buffer, the chunks in the channel and the frames that have arrived, joined in
this order. It is always `Numbered`, the node's bytes from the first on: reading
and handing over cut it in another place, the node adds to its end, and a worker
that ends drops its end.

* `StreamInv` adds `LeftoverIsStored` (a reader waits for a chunk only with an
  empty buffer and nothing in hand, so that what comes next really is next) and
  `OnlyDataHasBytes` (the frames that the worker does not hand over carry none).
* The theorem assumes a single reader. Of two, each may take a chunk, and which
  of them returns first is up to the scheduler.
* The steps need four laws of `Bytes` (of no frames, of one frame more at either
  end, and its type). `Bytes` is a recursive function over a queue of any length;
  its laws are shown by taking a least counterexample, which exists by `LeastNat`:
  the intervals `1..n` are finite sets, and the library has it that inclusion of
  finite sets is well founded.

### L3 remotes

`L3RemoteProofs` proves what `remote_flows` checks, and the refinement that
`remote_live` checks, for any sets of callers, closers and keys and any number of
flows and calls, from `L3RemoteAssumption` only:

| theorem | states | argument |
|---|---|---|
| `PacketsCarryOwnToken` | `OwnToken` | commands are queued only if what was granted so far allows them (`Allowed` in `Typed`), and grants are never taken back |
| `TokensAreFound` | `NoMissingToken` | `TokenFirst`: the token of a flow is stored before the result that says it was granted, so a thread that has seen the result finds it |
| `FlowsAskedOnce` | `AskedOnce` | `OneRequest`: the request for a flow is with the one thread that claimed it, or once in the queue, or was sent |
| `WaitersAreReleased` | `NoWaiterLeft` | `Registered` and `Released`: a flow is registered before it is claimed and `close_flag` is set before `fail_pending` collects, so the thread is refused by the flag or its flow is collected |
| `RemoteKeepsPromise` | `Promised` | `FailedLast`: a flow fails only when responses are read no more, so no answer follows a failure; every step is a step of `FlowAuth` or changes no flow |

The four properties speak of what is on the connection or of threads that wait;
`RemoteInv` follows a request and a token on the way there, through a thread's
locals, the queue, the node and the worker.

`InterfaceProofs` proves what `worker_time` checks, for any intervals, batch size
and queue lengths and with no bound on time, from `L3WorkerAssumption`. That one
assumes `HeartbeatInterval + Rtt < LivenessTimeout`, `Rtt` being the longest time
a node that is up takes to answer: the code has 25 and 80 seconds, so the theorem
about false alarms is about nodes that answer within 55.

| theorem | states | argument |
|---|---|---|
| `SilenceIsNoticed` | `SilenceNoticed` | `Clocked`: the thread waits no longer than to the next heartbeat, which is at most one interval away, and checks the link each time it gets there |
| `AlarmsAreTrue` | `NoFalseAlarm` | `Answering`: the first heartbeat after the last frame is not due yet, or is owed an answer that is not overdue, or the answer is there to be read, and then the check comes after the reading |
| `SleepsOnNothing` | `NothingForgotten` | `Awake`: a loop that has stopped reading has emptied its buffer, and what is in the kernel is announced; a queued command has its wake-up under way |

`L3TunnelProofs` proves what `l3_remotes` checks of the map, for any sets of
writers, closers, readers, node groups and remotes, from `L3TunnelAssumption`
only:

| theorem | states | argument |
|---|---|---|
| `NoDuplicates` | `MapAgrees` | a thread between the check and the insertion holds the creation lock (`LockHeld`), has found no remote of its group (`HolderKnows`), and a worker that runs is in the map, in `close`'s list or in that thread's hands (`Located`) |
| `OneSurvivor` | `AtMostOneSurvivor` | once `close` has emptied the map only a thread already past the check fills it, with one remote (`Late`); the keepalive thread has ended by then (`OneCloser`) |

The invariant is needed because both promises speak of remotes that run and not
of the thread that is about to connect one: that it will add a first remote of
its group, or the only one after `close`, follows from what it has checked under
the lock.

### The proxy

`ProxyServiceProofs` proves what `proxy_stop` checks, for any number of
connections and stoppers and any limit on the list of handles, from
`ProxyServiceAssumption` only:

| theorem | states | argument |
|---|---|---|
| `StopLeavesNothing` | `StopIsBarrier` | `Joined`: past its join of the listener a stopper knows that it has ended, past the handles that none is left, also when another stopper took them; handles taken are in that stopper's hands until they are joined, so when all have returned none runs |
| `TablesAlwaysAgree` | `TablesAgree` | with `Numbered` (the listener's own connection is not running yet) and `Registered` (who is in which table) |
| `ScansMissOne` | `AtMostOneMissed` | `Scanned`: a connection that escapes a scan was past the listener's check of `stop`, and the listener checks again before the next one |

`ConnectionProofs` proves what `proxy_connection` and `connect_cache` check of one
connection: for any lengths of greeting and request, any header limit, payload and
answer (`ProxyRelayAssumption`, `ProxyConnectionAssumption`), and for any number
of callers, addresses, families and interfaces and any timeouts
(`ConnectAssumption`).

| theorem | states | argument |
|---|---|---|
| `NothingIsTruncated` | `NoTruncation` | `NothingLost`: at every step what one side sent is what the other got, plus what the socket holds, plus what the handler or the relay thread has in hand; a copy that ended without error, or at a node's own end, had seen the end of the stream with nothing held (`Downloads`, `Uploads`), unless one of the two exceptions of `NoTruncation` was recorded before |
| `CallsAreBounded` | `CallTime` | `InTime`: a first attempt starts with no more than the rest of the call's time, a second one when the first is over and with no more than the whole |
| `ReachableIsReached` | `FirstReachable` | `Refreshed`: the second attempt is made on the interface just looked up, which is the route's unless it has moved, after an attempt on another interface that refused or stayed silent |

`ConnectAssumption` has the names of the two modes differ from every interface's,
as the variants of the Rust type do.

`RoutingProofs` proves what `dns_cache` checks, for any sets of threads, names
and answers, any lifetime `TTL`, any bound on a lookup and any size of the cache,
from `DnsCacheAssumption` only:

| theorem | states | argument |
|---|---|---|
| `Typing` | `TypeOK` | inductive by itself |
| `RoutesAreCurrent` | `DecisionCurrent` | with `Recent`: an answer that is not the resolver's any more is younger than the change, plus what it may have aged: one lookup in a thread's hands and in the cache, one lifetime of an entry more in a decision |
| `CacheStaysBounded` | `CacheBounded` | with the finiteness of the cache: eviction leaves less than the bound (`RoomIsLess`) before an entry is added, and the name's old entry goes |

`Recent` is needed because `DecisionCurrent` speaks of decisions only: a decision
is as old as the entry it was taken from, and the entry as the lookup that made
it, so the bound has to be carried along that way.

### The resource list

`RoutingProofs` proves what `routing_rules` checks, for lists of any length, any
domains with wildcards and dots in any place, any ranges, nodes, ports and size of
a block:

| theorem | states | argument |
|---|---|---|
| `RoutesFollowList` | `RouteFollowsList` | `MatchIsSuffix` and `DomainIsMatched`: the test of `match_domain_ports`, in both of its branches, holds only at or below the domain that `normalize_domain` makes of the rule, and always at it |
| `ScriptAgrees` | `PacAgrees` | `ScriptTrims`: the script drops of a host name what `route` drops; `ScriptHits`: walking up the labels finds the rules whose domain the name is in; `SuffixIsValid`: such a rule has no character that the name has not, so the script's filter has kept it; `SuffixIsMatched`: without two leading dots `route` finds the same |
| `KeepaliveTargetIsFound` | `KeepaliveTargetFound` | `RepresentativeInside`: a representative is in its range, so the range of any managed address stops the search, if none before does |

All three rest on `SnapshotInv`: the ranges and rules of the snapshot are ones of
the list, the newest rule of a domain is in force, and a static address is an
address. The assumptions are about what the code is given:

* `RoutingAssumption`: an address of the list is a range, a domain or IPv6, which
  are the cases of `parse_host_entry`.
* `LabelsAssumption`: a label without its wildcards is a label, and the empty one
  has no character that `normalize_domain` refuses.
* `HostNamesAssumption`: a host name has a label on each side of a dot, but for
  one final dot; a lookup gives IPv4 addresses, the same with
  and without the final dot if the name has several labels. `PacAgrees` needs the
  first part: of two final dots the script drops one and `route` both.
* `NodesAssumption`: no node has port 0, which is the port `route_icmp` asks
  `route` with.

### What callers of the library see

`InterfaceProofs` proves what `auth_login` and `c_abi` check, for any number of
logins and steps of a challenge, any sets of threads, recorders and listeners, and
lists of any length, from `AuthSessionAssumption`, `ProxyEventsAssumption` and
`CAbiAssumption` (the sizes of lists are numbers):

| theorem | states | argument |
|---|---|---|
| `ChallengesStayAnswerable` | `Answerable` | `StillPending`: the same at every step of a call, with `FlowFits`: a request that is out knows a flow which an answer to its challenge fits, and it is put back when the request fails |
| `CredentialsAreOwn` | `OwnCredentials` | whatever begins a login drops the ticket; with `Dated`: a session cookie set in this login is the recorded one and the jar's, and it is read before the login is done |
| `ReplacedListenersRest` | `RetiredIsQuiet` | `SlotGuarded`: a recorder that is in a call holds the slot's mutex and calls the listener that is registered |
| `ListenersHearAll` | `EveryEventHeard` | from the same invariant |
| `NothingLeaks` | `HeapIsReachable` | `Held`: a structure holds all the pointers its `copy_*` made, or none; lemmas for each kind of value show that the paths `free_*` visits are the paths `copy_*` makes, for lists of any length |

### What is model-checked only

* All liveness properties: the prover has neither fairness nor `ENABLED`. These are
  `CallsReturn` and `ArrivedIsDelivered` of the TCP tunnel, `CallsReturn` of an L3
  remote, `CloseReturns` and `SessionRestored` of the L3 tunnel, `HandlerEnds` and
  `Answered` of a connection, `StopWaitsOnlyForMissed` of the proxy, and
  `LoginCallsEnd` of a login.

## 6. Not modelled

* Frame and packet codecs, checksums, handshakes (`send_tcp_init`,
  `wait_for_tcp_connect_status`, `authenticate_l3_stream`): one thread, one
  exchange. Their callers are modelled with whole frames and packets. A node that
  stays silent in one of them does not fail it: the reads are repeated after
  every timeout. This wait is in the callers' models (section 4).
* `UdpTunnel`: a filter thread over `L3Tunnel::read_packet`.
* The diagnostic log: one mutex, best effort, and no other part depends on it.
* Of the C ABI, the conversion of arguments, the thread-local last error, and the
  functions that return only a number. A `copy_*` function that meets a string
  with a NUL in the middle of a structure drops raw pointers it has already made;
  `HeapIsReachable` speaks of what a call hands out.
* The meaning of HTTP and SOCKS messages: methods, addresses, the rewritten
  header.
* Signatures, errors, types.
* rustls, reqwest, mio, the operating system: external, modelled by how they are
  used (a poller that reports once or as long as data is there, sockets with
  bounded buffers, a condition variable that may wake without reason).
* How the default interface is found (routing command, adapter lists).
