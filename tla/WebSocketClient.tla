--------------------------- MODULE WebSocketClient --------------------------
(***************************************************************************)
(* The WebSocket client of nautilus_trader (crates/network/src/websocket/  *)
(* client.rs), over which the adapters talk to venues.  Callers, a writer, *)
(* a reader, a controller and a caller of disconnect() run as tasks of one *)
(* multi-threaded runtime.  They share an atomic connection mode and the   *)
(* writer's queue, and nothing else: no lock spans two of their steps.     *)
(*                                                                         *)
(* A step is what a task does between two awaits or two accesses to what   *)
(* it shares.  A timeout may strike whenever the task waits.  Waits for a  *)
(* notification have a fallback interval, so a missed one only delays.     *)
(***************************************************************************)
EXTENDS Integers, SequencesExt

CONSTANTS
    Messages,       \* the messages sent by callers and by the heartbeat task
    MaxAttempts,    \* reconnect_max_attempts
    MaxConns        \* bound: connections made

\* What stands for no message where a message may be.
NoMessage == "none"

ASSUME ClientAssumption ==
    /\ MaxAttempts \in Nat /\ MaxConns \in Nat
    /\ NoMessage \notin Messages

VARIABLES
    is_stream_mode, \* the caller owns the reader, and there is no reconnection
    connection_mode,
    call,           \* call[m]: how far the send of m is
    accepted,       \* history: the messages put into the queue, in this order
    late,           \* history: those put there while the client was not active
    queue,          \* the commands for the writer
    reconnect_buffer,
    writer, hand,   \* where the writer is, and the message it is sending
    wconn,          \* the connection it writes to
    written,        \* history: what it has written
    reader, rconn,  \* the read task and its connection
    controller, attempts,
    abort,          \* "asked": the controller may finish what it does; "due": it does no more
    conn,           \* the connection made last
    reply,          \* what the writer has answered to the controller's update
    told,           \* the connection the message handler was told of last
    up,             \* the connections that work
    disconnecting   \* how far disconnect() is

callVars == <<call, accepted, late>>
writerVars == <<queue, reconnect_buffer, writer, hand, wconn, written>>
readerVars == <<reader, rconn>>
controlVars == <<controller, attempts, abort, conn, reply, told>>
vars == <<is_stream_mode, connection_mode, callVars, writerVars, readerVars,
          controlVars, up, disconnecting>>

Modes == {"Active", "Reconnect", "Disconnect", "Closed"}
Terminal == {"Disconnect", "Closed"}
Reconnecting == {"connect", "confirm", "settle"}

\* The commands for the writer; connection 0 stands for none.
Send(m) == [message |-> m, conn |-> 0]
Update(k) == [message |-> NoMessage, conn |-> k]
Commands == [message : Messages \cup {NoMessage}, conn : Nat]

TypeOK ==
    /\ is_stream_mode \in BOOLEAN /\ connection_mode \in Modes
    /\ call \in [Messages -> {"new", "ready", "sent", "failed"}]
    /\ accepted \in Seq(Messages) /\ late \subseteq Messages
    /\ queue \in Seq(Commands)
    /\ reconnect_buffer \in Seq(Messages)
    /\ writer \in {"loop", "send", "drain", "done"} /\ hand \in Messages \cup {NoMessage}
    /\ wconn \in Nat /\ written \in Seq(Messages)
    /\ reader \in {"run", "dead", "none"} /\ rconn \in Nat
    /\ controller \in Reconnecting \cup {"wait", "resumed", "backoff", "closing", "done"}
    /\ attempts \in 0..MaxAttempts /\ conn \in Nat /\ told \in Nat
    /\ abort \in {"no", "asked", "due"} /\ reply \in {"none", "ok", "error"}
    /\ up \subseteq Nat
    /\ disconnecting \in {"no", "wait", "done"}

\* connect() and connect_stream(): the first connection stands.
Init ==
    /\ is_stream_mode \in BOOLEAN /\ connection_mode = "Active"
    /\ call = [m \in Messages |-> "new"] /\ accepted = << >> /\ late = {}
    /\ queue = << >> /\ reconnect_buffer = << >>
    /\ writer = "loop" /\ hand = NoMessage /\ wconn = 1 /\ written = << >>
    /\ reader = (IF is_stream_mode THEN "none" ELSE "run") /\ rconn = 1
    /\ controller = "wait" /\ attempts = 0 /\ abort = "no"
    /\ conn = 1 /\ reply = "none" /\ told = 1
    /\ up = {1}
    /\ disconnecting = "no"

-----------------------------------------------------------------------------
(* Callers *)

\* send_text(): the mode is tested ...
WaitForActive(m) ==
    /\ call[m] = "new"
    /\ \/ /\ connection_mode = "Active"
          /\ call' = [call EXCEPT ![m] = "ready"]
       \/ /\ connection_mode # "Active"       \* closed, or waited too long
          /\ call' = [call EXCEPT ![m] = "failed"]
    /\ UNCHANGED <<is_stream_mode, connection_mode, accepted, late, writerVars, readerVars,
                   controlVars, up, disconnecting>>

\* ... and then the message is queued, unless the writer has gone.
Enqueue(m) ==
    /\ call[m] = "ready"
    /\ \/ /\ writer # "done"
          /\ call' = [call EXCEPT ![m] = "sent"]
          /\ queue' = Append(queue, Send(m))
          /\ accepted' = Append(accepted, m)
          /\ late' = IF connection_mode = "Active" THEN late ELSE late \cup {m}
       \/ /\ writer = "done"
          /\ call' = [call EXCEPT ![m] = "failed"]
          /\ UNCHANGED <<queue, accepted, late>>
    /\ UNCHANGED <<is_stream_mode, connection_mode, reconnect_buffer, writer, hand, wconn, written,
                   readerVars, controlVars, up, disconnecting>>

-----------------------------------------------------------------------------
(* The writer *)

\* Disconnect or Closed: what is buffered is discarded.
WriterStops ==
    /\ writer = "loop" /\ connection_mode \in Terminal
    /\ writer' = "done" /\ reconnect_buffer' = << >>
    /\ UNCHANGED <<is_stream_mode, connection_mode, callVars, queue, hand, wconn, written,
                   readerVars, controlVars, up, disconnecting>>

\* A command is taken from the queue and the mode is read once.
Take ==
    /\ writer = "loop" /\ connection_mode \notin Terminal /\ queue # << >>
    /\ queue' = Tail(queue)
    /\ UNCHANGED <<is_stream_mode, connection_mode, callVars, written, readerVars, controlVars,
                   disconnecting>>

\* A message while the client is reconnecting is buffered.
TakeBuffers ==
    /\ Take
    /\ Head(queue).message # NoMessage /\ connection_mode = "Reconnect"
    /\ reconnect_buffer' = Append(reconnect_buffer, Head(queue).message)
    /\ UNCHANGED <<writer, hand, wconn, up>>

\* A message while the client is active is sent.
TakeSends ==
    /\ Take
    /\ Head(queue).message # NoMessage /\ connection_mode = "Active"
    /\ writer' = "send" /\ hand' = Head(queue).message
    /\ UNCHANGED <<reconnect_buffer, wconn, up>>

\* A new connection replaces the old one, which is closed.
TakeUpdates ==
    /\ Take
    /\ Head(queue).message = NoMessage
    /\ writer' = "drain" /\ wconn' = Head(queue).conn /\ up' = up \ {wconn}
    /\ UNCHANGED <<reconnect_buffer, hand>>

\* A send that succeeds; the connection may be dead without the writer knowing.
SendSucceeds ==
    /\ writer = "send"
    /\ written' = Append(written, hand)
    /\ writer' = "loop" /\ hand' = NoMessage
    /\ UNCHANGED <<is_stream_mode, connection_mode, callVars, queue, reconnect_buffer, wconn,
                   readerVars, controlVars, up, disconnecting>>

\* A plausible slip: the message that was not sent is not kept.
SendFailsDrops ==
    /\ writer = "send" /\ wconn \notin up
    /\ connection_mode' = "Reconnect"
    /\ writer' = "loop" /\ hand' = NoMessage
    /\ UNCHANGED <<is_stream_mode, callVars, queue, reconnect_buffer, wconn, written, readerVars,
                   controlVars, up, disconnecting>>

\* A send that fails: the message is kept and the mode set, whatever it now is.
SendFails ==
    /\ writer = "send" /\ wconn \notin up
    /\ reconnect_buffer' = Append(reconnect_buffer, hand)
    /\ connection_mode' = "Reconnect"
    /\ writer' = "loop" /\ hand' = NoMessage
    /\ UNCHANGED <<is_stream_mode, callVars, queue, wconn, written, readerVars, controlVars,
                   up, disconnecting>>

\* A plausible slip: the buffer is sent from its end.
DrainFromBack ==
    /\ writer = "drain" /\ reconnect_buffer # << >>
    /\ written' = Append(written, Last(reconnect_buffer))
    /\ reconnect_buffer' = Front(reconnect_buffer)
    /\ UNCHANGED <<is_stream_mode, connection_mode, callVars, queue, writer, hand, wconn,
                   readerVars, controlVars, up, disconnecting>>

\* drain_reconnect_buffer(): a message is sent and leaves the buffer.
Drain ==
    /\ writer = "drain" /\ reconnect_buffer # << >>
    /\ written' = Append(written, Head(reconnect_buffer))
    /\ reconnect_buffer' = Tail(reconnect_buffer)
    /\ UNCHANGED <<is_stream_mode, connection_mode, callVars, queue, writer, hand, wconn,
                   readerVars, controlVars, up, disconnecting>>

\* A plausible slip: an answer to an attempt that was given up counts for the next.
ReportAnyway(answer) ==
    reply' = IF controller = "confirm" THEN answer ELSE reply

\* The answer reaches the controller if it still waits for this connection.
Report(answer) ==
    reply' = IF controller = "confirm" /\ conn = wconn THEN answer ELSE reply

\* The buffer is empty, or a message could not be sent and the rest is kept.
DrainEnds ==
    /\ writer = "drain"
    /\ \/ reconnect_buffer = << >> /\ Report("ok")
       \/ reconnect_buffer # << >> /\ wconn \notin up /\ Report("error")
    /\ writer' = "loop"
    /\ UNCHANGED <<is_stream_mode, connection_mode, callVars, queue, reconnect_buffer, hand, wconn,
                   written, readerVars, controller, attempts, abort, conn, told, up, disconnecting>>

\* A plausible slip: the writer is left to find out by itself.
WriterLeftToTheMode ==
    /\ controller = "done" /\ writer # "done" /\ connection_mode \in Terminal
    /\ writer' = "done" /\ hand' = NoMessage /\ reconnect_buffer' = << >>
    /\ UNCHANGED <<is_stream_mode, connection_mode, callVars, queue, wconn, written, readerVars,
                   controlVars, up, disconnecting>>

\* The controller has ended and dropped its tasks: the writer is aborted.
WriterAborted ==
    /\ controller = "done" /\ writer # "done"
    /\ writer' = "done" /\ hand' = NoMessage /\ reconnect_buffer' = << >>
    /\ UNCHANGED <<is_stream_mode, connection_mode, callVars, queue, wconn, written, readerVars,
                   controlVars, up, disconnecting>>

-----------------------------------------------------------------------------
(* The reader, and the network *)

\* The read task ends: the venue closes, an error, nothing read for too long, the
\* client is not active any more, or the task was aborted.
ReaderEnds ==
    /\ reader = "run"
    /\ reader' = "dead"
    /\ UNCHANGED <<is_stream_mode, connection_mode, callVars, writerVars, rconn, controlVars,
                   up, disconnecting>>

\* notify_closed(), by which the owner of a stream reports its end; nothing confines it
\* to stream mode.  Its test of the mode excludes no state from the store: a call may
\* have passed it while the client was active.
NotifyClosed ==
    /\ connection_mode' = "Closed"
    /\ UNCHANGED <<is_stream_mode, callVars, writerVars, readerVars, controlVars, up, disconnecting>>

ConnectionLost(k) ==
    /\ k \in up
    /\ up' = up \ {k}
    /\ UNCHANGED <<is_stream_mode, connection_mode, callVars, writerVars, readerVars, controlVars,
                   disconnecting>>

-----------------------------------------------------------------------------
(* The controller *)

\* inner.is_alive() is false.
Dead == reader = "dead" \/ writer = "done"

\* The loop's look at the mode.  A compare_exchange that fails is a look at the
\* mode that came after it.
Wakes ==
    /\ controller = "wait"
    /\ UNCHANGED <<is_stream_mode, callVars, writerVars, readerVars, conn, reply, told, up,
                   disconnecting>>

SeesDisconnect ==
    /\ Wakes /\ connection_mode = "Disconnect"
    /\ controller' = "closing"
    /\ UNCHANGED <<connection_mode, attempts>>

\* Closed, or stream mode without a writer.
SeesClosed ==
    /\ Wakes
    /\ connection_mode = "Closed" \/ (connection_mode = "Active" /\ Dead /\ is_stream_mode)
    /\ connection_mode' = "Closed" /\ controller' = "done"
    /\ UNCHANGED attempts

\* The client is to reconnect, or its reader has ended.
Lost == connection_mode = "Reconnect" \/ (connection_mode = "Active" /\ Dead /\ ~is_stream_mode)

GivesUp ==
    /\ Wakes /\ Lost /\ attempts >= MaxAttempts /\ ~is_stream_mode
    /\ connection_mode' = "Closed" /\ controller' = "done"
    /\ UNCHANGED attempts

\* A plausible slip: attempts are not counted.
TriesForEver ==
    /\ Wakes /\ Lost /\ ~is_stream_mode
    /\ connection_mode' = "Reconnect" /\ controller' = "connect"
    /\ UNCHANGED attempts

\* A plausible slip: one attempt too many.
TriesOnceMore ==
    /\ Wakes /\ Lost /\ attempts <= MaxAttempts /\ ~is_stream_mode
    /\ connection_mode' = "Reconnect" /\ controller' = "connect"
    /\ attempts' = attempts + 1

\* An attempt to reconnect begins.
Tries ==
    /\ Wakes /\ Lost /\ attempts < MaxAttempts /\ ~is_stream_mode
    /\ connection_mode' = "Reconnect" /\ controller' = "connect"
    /\ attempts' = attempts + 1

\* reconnect() of a stream-mode client closes it.
StreamCloses ==
    /\ Wakes /\ Lost /\ is_stream_mode
    /\ connection_mode' = "Closed"
    /\ UNCHANGED <<controller, attempts>>

\* reconnect(): a disconnect() is seen before or after the connection is made,
\* which is dropped.
ConnectAborts ==
    /\ controller = "connect" /\ connection_mode = "Disconnect"
    /\ controller' = "resumed"
    /\ UNCHANGED <<is_stream_mode, connection_mode, callVars, writerVars, readerVars, attempts,
                   conn, reply, told, up, disconnecting>>

\* reconnect(): connected.  The writer gets the connection, unless it has gone.
Connects ==
    /\ controller = "connect" /\ connection_mode # "Disconnect" /\ conn < MaxConns
    /\ conn' = conn + 1 /\ up' = up \cup {conn + 1} /\ reply' = "none"
    /\ \/ /\ writer # "done"
          /\ queue' = Append(queue, Update(conn + 1)) /\ controller' = "confirm"
       \/ /\ writer = "done"
          /\ controller' = "backoff" /\ UNCHANGED queue
    /\ UNCHANGED <<is_stream_mode, connection_mode, callVars, reconnect_buffer, writer, hand, wconn,
                   written, readerVars, attempts, told, disconnecting>>

\* A plausible slip: the client is made active without waiting for the writer.
ConfirmedUnheard ==
    /\ controller = "confirm"
    /\ controller' = "settle" /\ reply' = "none"
    /\ UNCHANGED <<is_stream_mode, connection_mode, callVars, writerVars, readerVars, attempts,
                   conn, told, up, disconnecting>>

\* reconnect(): the writer has confirmed that the buffer is sent.
Confirmed ==
    /\ controller = "confirm" /\ reply = "ok"
    /\ controller' = "settle" /\ reply' = "none"
    /\ UNCHANGED <<is_stream_mode, connection_mode, callVars, writerVars, readerVars, attempts,
                   conn, told, up, disconnecting>>

\* reconnect() fails: the connection, the drain or the time-out of the attempt.
AttemptFails ==
    /\ controller \in Reconnecting
    /\ controller' = "backoff" /\ reply' = "none"
    /\ UNCHANGED <<is_stream_mode, connection_mode, callVars, writerVars, readerVars, attempts,
                   conn, told, up, disconnecting>>

\* A disconnect() is noticed: the attempt, or the wait after one, is broken off.
Interrupted ==
    /\ controller \in Reconnecting /\ connection_mode = "Disconnect"
    /\ controller' = "wait" /\ reply' = "none"
    /\ UNCHANGED <<is_stream_mode, connection_mode, callVars, writerVars, readerVars, attempts,
                   conn, told, up, disconnecting>>

\* The end of reconnect(), after a delay: if the mode is still Reconnect the client is
\* active with a new read task.  The old one is aborted unless a disconnect() is seen.
Settles ==
    /\ controller = "settle"
    /\ controller' = "resumed"
    /\ \/ /\ connection_mode = "Reconnect"
          /\ connection_mode' = "Active" /\ reader' = "run" /\ rconn' = conn
       \/ /\ connection_mode # "Reconnect"
          /\ reader' \in {reader, "none"}
          /\ UNCHANGED <<connection_mode, rconn>>
    /\ UNCHANGED <<is_stream_mode, callVars, writerVars, attempts, conn, reply, told, up,
                   disconnecting>>

\* The attempt is over: the handler is told if the client is active.
Resumes ==
    /\ controller = "resumed"
    /\ controller' = "wait" /\ attempts' = 0
    /\ told' = IF connection_mode = "Active" THEN conn ELSE told
    /\ UNCHANGED <<is_stream_mode, connection_mode, callVars, writerVars, readerVars, conn, reply,
                   up, disconnecting>>

BacksOff ==
    /\ controller = "backoff"
    /\ controller' = "wait"
    /\ UNCHANGED <<is_stream_mode, connection_mode, callVars, writerVars, readerVars, attempts,
                   conn, reply, told, up, disconnecting>>

\* The controller's end after a disconnect: read task aborted, mode set.
Closes ==
    /\ controller = "closing"
    /\ connection_mode' = "Closed" /\ controller' = "done"
    /\ UNCHANGED <<is_stream_mode, callVars, writerVars, readerVars, attempts, conn, reply, told,
                   up, disconnecting>>

-----------------------------------------------------------------------------
(* disconnect() *)

Disconnect ==
    /\ disconnecting = "no"
    /\ connection_mode' = "Disconnect" /\ disconnecting' = "wait"
    /\ UNCHANGED <<is_stream_mode, callVars, writerVars, readerVars, controlVars, up>>

DisconnectReturns ==
    /\ disconnecting = "wait" /\ controller = "done"
    /\ disconnecting' = "done"
    /\ UNCHANGED <<is_stream_mode, connection_mode, callVars, writerVars, readerVars, controlVars,
                   up>>

\* A plausible slip: the controller is left running.
DisconnectGivesUp ==
    /\ disconnecting = "wait" /\ controller # "done"
    /\ connection_mode' = "Closed" /\ disconnecting' = "done"
    /\ UNCHANGED <<is_stream_mode, callVars, writerVars, readerVars, controlVars, up>>

\* The controller has not ended in time: it is told to abort, and disconnect() does
\* not wait until it has.
DisconnectAborts ==
    /\ disconnecting = "wait" /\ controller # "done"
    /\ abort' = "asked" /\ connection_mode' = "Closed" /\ disconnecting' = "done"
    /\ UNCHANGED <<is_stream_mode, callVars, writerVars, readerVars, controller, attempts, conn,
                   reply, told, up>>

\* The runtime ends an aborted controller at an await; "resumed" is not one.
ControllerEnds ==
    /\ abort # "no" /\ controller \notin {"resumed", "done"}
    /\ controller' = "done" /\ abort' = "no"
    /\ UNCHANGED <<is_stream_mode, connection_mode, callVars, writerVars, readerVars, attempts,
                   conn, reply, told, up, disconnecting>>

-----------------------------------------------------------------------------

\* A step of the controller.  Aborted, it takes one at most, to its next await.
ControllerStep ==
    /\ abort # "due"
    /\ \/ SeesDisconnect \/ SeesClosed \/ GivesUp \/ Tries \/ StreamCloses
       \/ ConnectAborts \/ Connects \/ Confirmed \/ AttemptFails \/ Interrupted \/ Settles
       \/ Resumes \/ BacksOff \/ Closes
    /\ abort' = IF abort = "asked" /\ controller' # "resumed" THEN "due" ELSE abort

Next ==
    \/ \E m \in Messages : WaitForActive(m) \/ Enqueue(m)
    \/ WriterStops \/ TakeBuffers \/ TakeSends \/ TakeUpdates
    \/ SendSucceeds \/ SendFails \/ Drain \/ DrainEnds \/ WriterAborted
    \/ ReaderEnds \/ NotifyClosed \/ \E k \in up : ConnectionLost(k)
    \/ ControllerStep
    \/ Disconnect \/ DisconnectReturns \/ DisconnectAborts \/ ControllerEnds

Spec == Init /\ [][Next]_vars

\* The runtime runs every task that can run, and timers fire.  Nothing is assumed of
\* the network or the venue: an attempt may fail every time, a send hang for ever.
FairSpec ==
    /\ Spec
    /\ WF_vars(ControllerStep) /\ WF_vars(ControllerEnds)
    /\ WF_vars(WriterStops) /\ WF_vars(WriterAborted)
    /\ WF_vars(DisconnectReturns \/ DisconnectAborts)
    /\ WF_vars(ReaderEnds /\ connection_mode # "Active")

-----------------------------------------------------------------------------
(* Properties *)

\* Where a message is: in the queue, in the writer's hand, buffered or written.
Places(m) ==
    {<<"queue", i>> : i \in {i \in DOMAIN queue : queue[i].message = m}}
    \cup (IF hand = m THEN {<<"hand", 1>>} ELSE {})
    \cup {<<"buffer", i>> : i \in {i \in DOMAIN reconnect_buffer : reconnect_buffer[i] = m}}
    \cup {<<"written", i>> : i \in {i \in DOMAIN written : written[i] = m}}

\* However sends fail, connections change and attempts are given up, a message that
\* was accepted is in one place, and is given up only with the writer; so none is
\* lost or sent twice before the client ends.
SentOnce ==
    \A m \in Messages :
        /\ call[m] = "sent" =>
              (\E p \in Places(m) : Places(m) = {p}) \/ (writer = "done" /\ Places(m) = {})
        /\ call[m] # "sent" => Places(m) = {}

\* Message m was accepted before n, both while the client was active.
Earlier(m, n) ==
    \E i, k \in DOMAIN accepted :
        i < k /\ accepted[i] = m /\ accepted[k] = n /\ m \notin late /\ n \notin late

\* Messages are written in the order in which they were accepted, across any number
\* of connections, but for those that were queued when the client was not active:
\* when one is written, all that were accepted before it have been.
InOrder ==
    writer # "done" =>
        \A j \in DOMAIN written, m \in Messages :
            Earlier(m, written[j]) => \E h \in DOMAIN written : h < j /\ written[h] = m

\* Once the client is active again everything that waited is sent: only a message
\* that was queued when the client was not active can be held back.
Replayed ==
    connection_mode = "Active" => \A i \in DOMAIN reconnect_buffer : reconnect_buffer[i] \in late

\* An active client reads from the connection it writes to, also after attempts that
\* were given up with their update still in the queue, and the handler knows of it.
ActiveIsWhole ==
    connection_mode = "Active" =>
        /\ reader = "run" => rconn = wconn
        /\ controller = "wait" => told = wconn

\* After disconnect() has returned the client does not become active again and makes
\* no connection, also when a send that failed has overwritten the mode: only what an
\* aborted controller was about to do before its next await can still happen.
DisconnectIsFinal ==
    [][disconnecting = "done" /\ abort # "asked" =>
           (connection_mode' = "Active" => connection_mode = "Active") /\ conn' = conn]_vars

\* disconnect() ends all tasks, whatever the network does.
DisconnectEnds ==
    disconnecting = "wait" ~> (disconnecting = "done" /\ controller = "done" /\ writer = "done")

\* A client that has lost its connection becomes active again or ends.
ReconnectEnds ==
    connection_mode = "Reconnect" ~>
        (connection_mode = "Active" \/ connection_mode = "Closed" \/ controller = "done")

=============================================================================
