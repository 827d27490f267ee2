------------------------------ MODULE L3Worker ------------------------------
(***************************************************************************)
(* The I/O loop of an L3 remote (transport.rs, run_l3_remote_worker_inner  *)
(* and what it calls) against a clock: commands, heartbeats, the liveness  *)
(* check and bounded batches of frames take turns on one thread.  Time     *)
(* passes only while the thread waits in the poller or in the middle of a  *)
(* frame; its other steps are taken to be instantaneous.                   *)
(***************************************************************************)
EXTENDS Integers, Sequences

CONSTANTS
    HeartbeatInterval,  \* L3_PROTOCOL_HEARTBEAT_INTERVAL
    LivenessTimeout,    \* L3_LIVENESS_TIMEOUT
    Batch,              \* L3_READ_BATCH_FRAMES
    Rtt,                \* a live node that answers does so in this time
    MaxTime,            \* bound: the clock
    MaxCommands,        \* bound: commands of the callers
    MaxNotices,         \* bound: notices of the node
    MaxKernel           \* bound: frames in the socket buffer

ASSUME L3WorkerAssumption ==
    /\ HeartbeatInterval \in Nat \ {0} /\ LivenessTimeout \in Nat \ {0}
    /\ Batch \in Nat \ {0}
    /\ Rtt \in Nat /\ HeartbeatInterval + Rtt < LivenessTimeout
    /\ MaxTime \in Nat /\ MaxCommands \in Nat /\ MaxNotices \in Nat /\ MaxKernel \in Nat

VARIABLES
    worker,             \* where the thread is
    next_heartbeat, deadline,   \* the next heartbeat; the end of the wait
    last_frame_at, acknowledged,    \* L3Liveness
    continue_reading, left, socket_readable,    \* the drain of frames; a local that
                        \* is not used any more is 0 or FALSE
    heard_at,           \* history: when the last frame was read
    ended,              \* why the thread ended
    now,                \* Instant::now()
    queue, ringing, wake, commands,     \* command_rx, callers about to wake, wake_rx
    buffered, kernel, ready,    \* frames read ahead, in the socket, poller edge
    answers, lost, cut, owed, notices   \* the node and the link to it

loopVars == <<next_heartbeat, deadline>>
livenessVars == <<last_frame_at, acknowledged, heard_at>>
drainVars == <<continue_reading, left, socket_readable>>
callerVars == <<queue, ringing, wake, commands>>
streamVars == <<buffered, kernel, ready>>
nodeVars == <<answers, lost, cut, owed, notices>>
workerVars == <<worker, ended, now, loopVars, livenessVars, drainVars, callerVars,
                streamVars, nodeVars>>

\* A frame of command 0x15 | 0x80, any other one, a 0x53 notice, which
\* read_l3_frame_available skips, and the two parts of a frame in pieces.
Frames == {"reply", "other", "notice", "head", "rest"}

WorkerInit ==
    /\ worker = "commands" /\ ended = "no" /\ now = 0
    /\ next_heartbeat = HeartbeatInterval /\ deadline = 0
    /\ last_frame_at = 0 /\ acknowledged = FALSE /\ heard_at = 0
    /\ continue_reading = TRUE /\ left = 0 /\ socket_readable = FALSE
    /\ queue = <<>> /\ ringing = 0 /\ wake = FALSE /\ commands = 0
    \* Frames that came with the handshake are in the TLS session already.
    /\ buffered \in {<<>>, <<"other">>} /\ kernel = <<>> /\ ready = FALSE
    /\ answers \in BOOLEAN /\ lost = FALSE /\ cut = FALSE /\ owed = {} /\ notices = 0
-----------------------------------------------------------------------------
(* The thread *)

Stop(why) == worker' = "stopped" /\ ended' = why
Proceed(label) == worker' = label /\ UNCHANGED ended

\* drain_l3_remote_commands, at the top of the loop and after a wake-up.
DrainCommand ==
    /\ worker \in {"commands", "wakeCommands"} /\ queue # <<>>
    /\ queue' = Tail(queue)
    /\ \/ Head(queue) = "close" /\ Stop("closed")
       \/ Head(queue) # "close" /\ UNCHANGED <<worker, ended>>
    /\ UNCHANGED <<now, loopVars, livenessVars, drainVars, ringing, wake, commands,
                   streamVars, nodeVars>>

\* Mutant: the drain stops with commands left in the queue.
CommandsDrainedEarly ==
    /\ worker \in {"commands", "wakeCommands"}
    /\ Proceed(IF worker = "commands" THEN "beat"
            ELSE IF socket_readable THEN "frames" ELSE "commands")
    /\ left' = (IF socket_readable THEN Batch ELSE 0) /\ socket_readable' = FALSE
    /\ UNCHANGED <<now, loopVars, livenessVars, continue_reading, callerVars,
                   streamVars, nodeVars>>

CommandsDrained ==
    /\ worker \in {"commands", "wakeCommands"} /\ queue = <<>>
    /\ Proceed(IF worker = "commands" THEN "beat"
            ELSE IF socket_readable THEN "frames" ELSE "commands")
    /\ left' = (IF socket_readable THEN Batch ELSE 0) /\ socket_readable' = FALSE
    /\ UNCHANGED <<now, loopVars, livenessVars, continue_reading, callerVars,
                   streamVars, nodeVars>>

\* Mutant: a heartbeat that could be written counts as a sign of life.
BeatRefreshes ==
    /\ worker = "beat"
    /\ IF now >= next_heartbeat
       THEN /\ next_heartbeat' = now + HeartbeatInterval
            /\ owed' = IF answers /\ ~lost THEN owed \cup {now + Rtt} ELSE owed
            /\ last_frame_at' = now
       ELSE UNCHANGED <<next_heartbeat, owed, last_frame_at>>
    /\ Proceed("check")
    /\ UNCHANGED <<now, deadline, acknowledged, heard_at, drainVars, callerVars,
                   streamVars, answers, lost, cut, notices>>

\* The heartbeat lands in the socket's send buffer, whatever the link does.
Beat ==
    /\ worker = "beat"
    /\ IF now >= next_heartbeat
       THEN /\ next_heartbeat' = now + HeartbeatInterval
            /\ owed' = IF answers /\ ~lost THEN owed \cup {now + Rtt} ELSE owed
       ELSE UNCHANGED <<next_heartbeat, owed>>
    /\ Proceed("check")
    /\ UNCHANGED <<now, deadline, livenessVars, drainVars, callerVars, streamVars,
                   answers, lost, cut, notices>>

\* Mutant: a node that never answered is judged by its silence.
IsStaleAnyNode == now - last_frame_at >= LivenessTimeout

IsStale == acknowledged /\ now - last_frame_at >= LivenessTimeout

Check ==
    /\ worker = "check"
    /\ \/ IsStale /\ Stop("stale") /\ UNCHANGED <<left, deadline>>
       \/ /\ ~IsStale /\ continue_reading
          /\ Proceed("frames") /\ left' = Batch /\ UNCHANGED deadline
       \/ /\ ~IsStale /\ ~continue_reading
          /\ Proceed("wait") /\ UNCHANGED left
          /\ deadline' = IF next_heartbeat > now THEN next_heartbeat ELSE now
    /\ UNCHANGED <<now, next_heartbeat, livenessVars, continue_reading,
                   socket_readable, callerVars, streamVars, nodeVars>>

\* SocketReadiness::wait and, for the wake socket, drain_wake_stream.
Wait ==
    /\ worker = "wait"
    /\ wake \/ ready \/ now >= deadline
    /\ socket_readable' = (wake /\ ready) /\ ready' = FALSE /\ wake' = FALSE
    /\ left' = (IF ready /\ ~wake THEN Batch ELSE 0) /\ deadline' = 0
    /\ Proceed(IF wake THEN "wakeCommands" ELSE IF ready THEN "frames" ELSE "commands")
    /\ UNCHANGED <<now, next_heartbeat, livenessVars, continue_reading, queue, ringing,
                   commands, buffered, kernel, nodeVars>>

\* The frames the BufReader holds come before those in the socket, which it
\* takes all at once.
Stream == buffered \o kernel
TakeFrame ==
    /\ buffered' = IF buffered # <<>> THEN Tail(buffered) ELSE Tail(kernel)
    /\ kernel' = IF buffered # <<>> THEN kernel ELSE <<>>
    /\ UNCHANGED ready

RecordFrame(frame) ==
    /\ last_frame_at' = now /\ heard_at' = now
    /\ acknowledged' = (acknowledged \/ frame = "reply")

\* drain_l3_remote_frames, one turn of its loop.  A notice is skipped without
\* a turn; behind the first part of a frame the thread waits for the rest.
ReadFrame ==
    /\ worker = "frames" /\ left > 0 /\ Stream # <<>>
    /\ TakeFrame
    /\ LET frame == Head(Stream) IN
       \/ /\ frame \in {"reply", "other"} /\ RecordFrame(frame)
          /\ left' = left - 1 /\ UNCHANGED <<worker, ended>>
       \/ /\ frame = "notice"
          /\ UNCHANGED <<worker, ended, left, livenessVars>>
       \/ /\ frame = "head" /\ Proceed("mid")
          /\ UNCHANGED <<left, livenessVars>>
    /\ UNCHANGED <<now, loopVars, continue_reading, socket_readable, callerVars, nodeVars>>

\* read_tunnel_exact_blocking tries again after every timeout.
ReadRest ==
    /\ worker = "mid" /\ Stream # <<>>
    /\ TakeFrame /\ RecordFrame("other")
    /\ left' = left - 1 /\ Proceed("frames")
    /\ UNCHANGED <<now, loopVars, continue_reading, socket_readable, callerVars, nodeVars>>

FramesDrained ==
    /\ worker = "frames"
    /\ \/ left = 0 /\ continue_reading' = TRUE
       \/ left > 0 /\ Stream = <<>> /\ continue_reading' = FALSE
    /\ Proceed("commands") /\ left' = 0
    /\ UNCHANGED <<now, loopVars, livenessVars, socket_readable, callerVars, streamVars,
                   nodeVars>>

\* A read, a write or the poller reports an error.
Break ==
    /\ worker \in {"commands", "wakeCommands", "beat", "wait", "frames", "mid"}
    /\ Stop("error")
    /\ UNCHANGED <<now, loopVars, livenessVars, drainVars, callerVars, streamVars, nodeVars>>
-----------------------------------------------------------------------------
(* Callers: enqueue_payload() and close() send, then wake the thread. *)

Enqueue(command) ==
    /\ commands < MaxCommands /\ commands' = commands + 1
    /\ queue' = Append(queue, command) /\ ringing' = ringing + 1
    /\ UNCHANGED <<worker, ended, now, loopVars, livenessVars, drainVars, wake,
                   streamVars, nodeVars>>

WakeWorker ==
    /\ ringing > 0 /\ ringing' = ringing - 1
    /\ wake' = TRUE
    /\ UNCHANGED <<worker, ended, now, loopVars, livenessVars, drainVars, queue, commands,
                   streamVars, nodeVars>>
-----------------------------------------------------------------------------
(* The node and the link (external) *)

Arrive(frame) ==
    /\ ~lost /\ Len(kernel) < MaxKernel
    /\ kernel' = Append(kernel, frame) /\ ready' = TRUE
    /\ UNCHANGED <<worker, ended, now, loopVars, livenessVars, drainVars, callerVars,
                   buffered, answers, lost>>

NodeReply(due) ==
    /\ due \in owed /\ ~cut /\ Arrive("reply")
    /\ owed' = owed \ {due} /\ UNCHANGED <<cut, notices>>

NodeSend ==
    \/ ~cut /\ Arrive("other") /\ UNCHANGED <<cut, owed, notices>>
    \/ ~cut /\ Arrive("head") /\ cut' = TRUE /\ UNCHANGED <<owed, notices>>
    \/ cut /\ Arrive("rest") /\ cut' = FALSE /\ UNCHANGED <<owed, notices>>
    \/ /\ ~cut /\ notices < MaxNotices /\ notices' = notices + 1
       /\ Arrive("notice") /\ UNCHANGED <<cut, owed>>

\* The link dies and no error reaches the socket.
LinkDies ==
    /\ ~lost /\ lost' = TRUE
    /\ UNCHANGED <<worker, ended, now, loopVars, livenessVars, drainVars, callerVars,
                   streamVars, answers, cut, owed, notices>>

\* A live link delivers what a node owes in time.
Tick ==
    /\ now < MaxTime
    /\ \/ worker = "wait" /\ ~wake /\ ~ready /\ now < deadline
       \/ worker = "mid" /\ Stream = <<>>
    /\ ~lost => \A due \in owed : now < due
    /\ now' = now + 1
    /\ UNCHANGED <<worker, ended, loopVars, livenessVars, drainVars, callerVars,
                   streamVars, nodeVars>>
-----------------------------------------------------------------------------
WorkerStep ==
    \/ DrainCommand \/ CommandsDrained \/ Beat \/ Check \/ Wait
    \/ ReadFrame \/ ReadRest \/ FramesDrained

\* The module ends with the thread: what its callers meet then is L3Remote's.
WorkerNext ==
    /\ worker # "stopped"
    /\ \/ WorkerStep \/ Break
       \/ \E command \in {"write", "close"} : Enqueue(command)
       \/ WakeWorker
       \/ \E due \in owed : NodeReply(due)
       \/ NodeSend \/ LinkDies \/ Tick

WorkerSpec == WorkerInit /\ [][WorkerNext]_workerVars
-----------------------------------------------------------------------------
(* Properties *)

\* A silent link is given up in time: no frame for the liveness timeout and one
\* heartbeat interval, and the thread has ended, if the node has shown that it
\* answers.  Behind the head of a frame read_tunnel_exact_blocking waits for
\* the rest without looking at the clock, so there nothing is promised.
SilenceNoticed ==
    acknowledged /\ worker \notin {"mid", "stopped"}
        => now < heard_at + LivenessTimeout + HeartbeatInterval

\* The liveness check ends no connection whose link is up, however late its
\* frames come and however they are cut.
NoFalseAlarm == ended = "stale" => lost

\* The thread does not sleep on a frame it holds, which the poller cannot see,
\* nor on one in the socket that the poller has reported already, nor on a
\* command whose caller has woken it.
NothingForgotten ==
    worker = "wait" => /\ buffered = <<>> /\ (kernel # <<>> => ready)
                       /\ queue # <<>> => wake \/ ringing > 0

=============================================================================
