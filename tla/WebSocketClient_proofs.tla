----------------------- MODULE WebSocketClient_proofs -----------------------
(***************************************************************************)
(* Theorems about WebSocketClient, for any number of messages, attempts    *)
(* and connections: the types, that an active client reads the connection  *)
(* it writes to, that it has replayed what it held back, that a message is *)
(* written at most once and none is lost, in which order they are written, *)
(* and that disconnect() is final.                                         *)
(***************************************************************************)
EXTENDS WebSocketClient, SequenceTheorems, TLAPS

-----------------------------------------------------------------------------
(* Sequences *)

\* What Append does to the elements.
LEMMA AppendFacts ==
    ASSUME NEW S, NEW s \in Seq(S), NEW e \in S
    PROVE  /\ Append(s, e) \in Seq(S)
           /\ DOMAIN Append(s, e) = 1..(Len(s) + 1)
           /\ \A i \in 1..Len(s) : Append(s, e)[i] = s[i]
           /\ Append(s, e)[Len(s) + 1] = e
BY AppendProperties

\* What Head and Tail do to the elements.
LEMMA TailFacts ==
    ASSUME NEW S, NEW s \in Seq(S), s # << >>
    PROVE  /\ Head(s) \in S /\ Head(s) = s[1] /\ 1 \in DOMAIN s
           /\ Tail(s) \in Seq(S)
           /\ \A i \in DOMAIN Tail(s) : i + 1 \in DOMAIN s /\ Tail(s)[i] = s[i + 1] /\ i \in Nat
           /\ \A i \in DOMAIN s : i > 1 => i - 1 \in DOMAIN Tail(s)
BY HeadTailProperties

-----------------------------------------------------------------------------
(* Types *)

\* The types, and that a writer that sends has a message in its hand.
TypeInv == TypeOK /\ (writer = "send" => hand \in Messages)

\* A command taken from the queue.
LEMMA TakeFacts ==
    ASSUME TypeInv, Take
    PROVE  /\ queue' \in Seq(Commands)
           /\ Head(queue).message \in Messages \cup {NoMessage}
           /\ Head(queue).conn \in Nat
<1>1. queue \in Seq(Commands) /\ queue # << >> /\ queue' = Tail(queue)
    BY DEF Take, TypeInv, TypeOK
<1>2. Head(queue) \in Commands /\ Tail(queue) \in Seq(Commands)
    BY <1>1, TailFacts
<1> QED BY <1>1, <1>2 DEF Commands

\* Every step keeps the types.
LEMMA TypeStep == TypeInv /\ [Next]_vars => TypeInv'
<1> SUFFICES ASSUME TypeInv, [Next]_vars PROVE TypeInv'
    OBVIOUS
<1> USE ClientAssumption, EmptySeq DEF TypeInv, TypeOK, Reconnecting, Modes, callVars, writerVars, readerVars, controlVars
<1>1. ASSUME NEW m \in Messages, WaitForActive(m) PROVE TypeInv'
    BY <1>1 DEF WaitForActive
<1>2. ASSUME NEW m \in Messages, Enqueue(m) PROVE TypeInv'
    <2>1. Send(m) \in Commands BY DEF Send, Commands
    <2>2. Append(queue, Send(m)) \in Seq(Commands) /\ Append(accepted, m) \in Seq(Messages)
        BY <2>1, AppendFacts
    <2>3. /\ queue' \in Seq(Commands) /\ accepted' \in Seq(Messages)
          /\ call' \in [Messages -> {"new", "ready", "sent", "failed"}] /\ late' \subseteq Messages
        BY <1>2, <2>2 DEF Enqueue
    <2>4. UNCHANGED <<is_stream_mode, connection_mode, reconnect_buffer, writer, hand, wconn, written,
                      readerVars, controlVars, up, disconnecting>>
        BY <1>2 DEF Enqueue
    <2> QED BY <2>3, <2>4
<1>3. CASE WriterStops
    BY <1>3 DEF WriterStops
<1>4. CASE TakeBuffers
    <2>1. Take BY <1>4 DEF TakeBuffers
    <2>2. Append(reconnect_buffer, Head(queue).message) \in Seq(Messages)
        BY <1>4, <2>1, TakeFacts, AppendFacts DEF TakeBuffers
    <2> QED BY <1>4, <2>1, <2>2, TakeFacts DEF TakeBuffers, Take
<1>5. CASE TakeSends
    <2>1. Take BY <1>5 DEF TakeSends
    <2> QED BY <1>5, <2>1, TakeFacts DEF TakeSends, Take
<1>6. CASE TakeUpdates
    <2>1. Take BY <1>6 DEF TakeUpdates
    <2> QED BY <1>6, <2>1, TakeFacts DEF TakeUpdates, Take
<1>7. CASE SendSucceeds
    BY <1>7, AppendFacts DEF SendSucceeds
<1>8. CASE SendFails
    BY <1>8, AppendFacts DEF SendFails
<1>9. CASE Drain
    BY <1>9, AppendFacts, TailFacts DEF Drain
<1>10. CASE DrainEnds
    BY <1>10 DEF DrainEnds, Report
<1>11. CASE WriterAborted
    BY <1>11 DEF WriterAborted
<1>12. CASE ReaderEnds
    BY <1>12 DEF ReaderEnds
<1>13. CASE NotifyClosed
    BY <1>13 DEF NotifyClosed
<1>14. CASE ControllerStep
    <2>a. abort' \in {"no", "asked", "due"}
        BY <1>14 DEF ControllerStep
    <2>1. CASE SeesDisconnect
        BY <2>1, <2>a DEF SeesDisconnect, Wakes
    <2>2. CASE SeesClosed
        BY <2>2, <2>a DEF SeesClosed, Wakes
    <2>3. CASE GivesUp
        BY <2>3, <2>a DEF GivesUp, Wakes
    <2>4. CASE Tries
        BY <2>4, <2>a DEF Tries, Wakes
    <2>5. CASE StreamCloses
        BY <2>5, <2>a DEF StreamCloses, Wakes
    <2>6. CASE ConnectAborts
        BY <2>6, <2>a DEF ConnectAborts
    <2>7. CASE Connects
        <3>1. Update(conn + 1) \in Commands BY DEF Update, Commands
        <3>2. Append(queue, Update(conn + 1)) \in Seq(Commands)
            BY <3>1, AppendFacts
        <3>3. queue' \in Seq(Commands) /\ controller' \in {"confirm", "backoff"}
            BY <2>7, <3>2 DEF Connects
        <3>4. conn' = conn + 1 /\ up' = up \cup {conn + 1} /\ reply' = "none"
            BY <2>7 DEF Connects
        <3>5. UNCHANGED <<is_stream_mode, connection_mode, callVars, reconnect_buffer, writer, hand, wconn,
                          written, readerVars, attempts, told, disconnecting>>
            BY <2>7 DEF Connects
        <3> QED BY <2>a, <3>3, <3>4, <3>5
    <2>8. CASE Confirmed
        BY <2>8, <2>a DEF Confirmed
    <2>9. CASE AttemptFails
        BY <2>9, <2>a DEF AttemptFails
    <2>10. CASE Interrupted
        BY <2>10, <2>a DEF Interrupted
    <2>11. CASE Settles
        BY <2>11, <2>a DEF Settles
    <2>12. CASE Resumes
        BY <2>12, <2>a DEF Resumes
    <2>13. CASE BacksOff
        BY <2>13, <2>a DEF BacksOff
    <2>14. CASE Closes
        BY <2>14, <2>a DEF Closes
    <2> QED BY <1>14, <2>1, <2>2, <2>3, <2>4, <2>5, <2>6, <2>7, <2>8, <2>9, <2>10, <2>11, <2>12, <2>13, <2>14 DEF ControllerStep
<1>15. CASE Disconnect
    BY <1>15 DEF Disconnect
<1>16. CASE DisconnectReturns
    BY <1>16 DEF DisconnectReturns
<1>17. CASE DisconnectAborts
    BY <1>17 DEF DisconnectAborts
<1>18. CASE ControllerEnds
    BY <1>18 DEF ControllerEnds
<1>19. ASSUME NEW k \in up, ConnectionLost(k) PROVE TypeInv'
    BY <1>19 DEF ConnectionLost
<1>20. CASE UNCHANGED vars
    BY <1>20 DEF vars
<1> QED BY <1>1, <1>2, <1>3, <1>4, <1>5, <1>6, <1>7, <1>8, <1>9, <1>10, <1>11, <1>12, <1>13, <1>14, <1>15, <1>16, <1>17, <1>18, <1>19, <1>20 DEF Next

\* The types hold at the start.
LEMMA TypeInit == Init => TypeInv
<1> SUFFICES ASSUME Init PROVE TypeInv
    OBVIOUS
<1>1. reader \in {"run", "dead", "none"} BY DEF Init
<1>2. queue \in Seq(Commands) /\ reconnect_buffer \in Seq(Messages)
    BY EmptySeq DEF Init
<1>3. accepted \in Seq(Messages) /\ written \in Seq(Messages)
    BY EmptySeq DEF Init
<1>4. /\ call \in [Messages -> {"new", "ready", "sent", "failed"}]
      /\ connection_mode \in Modes /\ writer = "loop" /\ late \subseteq Messages
      /\ hand \in Messages \cup {NoMessage} /\ attempts \in 0..MaxAttempts
    BY ClientAssumption DEF Init, Modes
<1>5. is_stream_mode \in BOOLEAN
    BY DEF Init
<1>6. /\ disconnecting = "no" /\ controller = "wait" /\ reply = "none" /\ abort = "no"
      /\ wconn = 1 /\ rconn = 1 /\ conn = 1 /\ told = 1 /\ up = {1}
    BY DEF Init
<1> QED BY <1>1, <1>2, <1>3, <1>4, <1>5, <1>6 DEF TypeOK, TypeInv, Reconnecting

\* Every variable keeps its type in every reachable state.
THEOREM ClientTypeCorrect == Spec => []TypeOK
<1>1. TypeInv => TypeOK
    BY DEF TypeInv
<1> QED BY <1>1, TypeInit, TypeStep, PTL DEF Spec

-----------------------------------------------------------------------------
(* The connection handed on *)

\* While the controller reconnects the client is not active.
Quiet == controller \in Reconnecting \cup {"backoff"} => connection_mode # "Active"

\* When disconnect() has returned the controller has ended or is aborted.
Ended == disconnecting = "done" => controller = "done" \/ abort # "no"

\* An active client reads the connection made last, and its handler knows of it.
ReadsIt == connection_mode = "Active" /\ reader = "run" => rconn = conn
Told == connection_mode = "Active" /\ controller # "resumed" => told = conn

ControlInv == Quiet /\ ReadsIt /\ Told

\* The updates in the queue come in the order of their connections, all of them
\* later than the connection the writer has.
IsUpdate(i) == queue[i].message = NoMessage

UpdatesAhead ==
    /\ wconn <= conn
    /\ \A i \in DOMAIN queue : IsUpdate(i) => wconn < queue[i].conn /\ queue[i].conn <= conn

UpdatesInOrder ==
    \A i, j \in DOMAIN queue : i < j /\ IsUpdate(i) /\ IsUpdate(j) => queue[i].conn < queue[j].conn

\* The writer has confirmed the connection made last.
Handed == controller = "settle" \/ (controller = "confirm" /\ reply = "ok")

Settled == Handed \/ connection_mode = "Active" => wconn = conn

UpdateInv == UpdatesAhead /\ UpdatesInOrder /\ Settled

\* The steps that change the queue or a connection.
LEMMA QueueSteps ==
    ASSUME [Next]_vars
    PROVE  \/ UNCHANGED <<queue, wconn, conn>>
           \/ \E m \in Messages : Enqueue(m)
           \/ TakeBuffers \/ TakeSends \/ TakeUpdates \/ Connects
<1> USE DEF vars, callVars, writerVars, readerVars, controlVars
<1>1. ASSUME NEW m \in Messages, WaitForActive(m) PROVE UNCHANGED <<queue, wconn, conn>>
    BY <1>1 DEF WaitForActive
<1>2. ASSUME NEW k \in up, ConnectionLost(k) PROVE UNCHANGED <<queue, wconn, conn>>
    BY <1>2 DEF ConnectionLost
<1>3. CASE \/ WriterStops \/ SendSucceeds \/ SendFails \/ Drain \/ DrainEnds \/ WriterAborted
           \/ ReaderEnds \/ NotifyClosed \/ Disconnect \/ DisconnectReturns \/ DisconnectAborts \/ ControllerEnds
    BY <1>3 DEF WriterStops, SendSucceeds, SendFails, Drain, DrainEnds, WriterAborted, ReaderEnds,
                NotifyClosed, Disconnect, DisconnectReturns, DisconnectAborts, ControllerEnds
<1>4. CASE ControllerStep /\ ~Connects
    BY <1>4 DEF ControllerStep, Wakes, SeesDisconnect, SeesClosed, GivesUp, Tries, StreamCloses,
                ConnectAborts, Confirmed, AttemptFails, Interrupted, Settles, Resumes, BacksOff, Closes
<1>5. CASE UNCHANGED vars
    BY <1>5
<1> QED BY <1>1, <1>2, <1>3, <1>4, <1>5 DEF Next

\* Every step keeps ControlInv.
LEMMA ControlStep == TypeInv /\ ControlInv /\ [Next]_vars => ControlInv'
<1> SUFFICES ASSUME TypeInv, ControlInv, [Next]_vars PROVE ControlInv'
    OBVIOUS
<1> USE DEF ControlInv, Quiet, ReadsIt, Told, Reconnecting, vars, callVars, writerVars, readerVars, controlVars
<1>1. ASSUME NEW m \in Messages, WaitForActive(m) \/ Enqueue(m) PROVE ControlInv'
    BY <1>1 DEF WaitForActive, Enqueue
<1>2. ASSUME NEW k \in up, ConnectionLost(k) PROVE ControlInv'
    BY <1>2 DEF ConnectionLost
<1>3. CASE \/ WriterStops \/ TakeBuffers \/ TakeSends \/ TakeUpdates \/ SendSucceeds \/ Drain
           \/ DrainEnds \/ WriterAborted
    BY <1>3 DEF WriterStops, TakeBuffers, TakeSends, TakeUpdates, Take, SendSucceeds, Drain, DrainEnds,
                WriterAborted
<1>4. CASE SendFails \/ ReaderEnds \/ NotifyClosed
    BY <1>4 DEF SendFails, ReaderEnds, NotifyClosed
<1>5. CASE SeesDisconnect \/ SeesClosed \/ GivesUp \/ Tries \/ StreamCloses
    BY <1>5 DEF Wakes, SeesDisconnect, SeesClosed, GivesUp, Tries, StreamCloses
<1>6. CASE ConnectAborts \/ Confirmed \/ AttemptFails \/ Interrupted \/ BacksOff \/ Closes
    BY <1>6 DEF ConnectAborts, Confirmed, AttemptFails, Interrupted, BacksOff, Closes
<1>7. CASE Connects
    BY <1>7 DEF Connects
<1>8. CASE Settles
    BY <1>8 DEF Settles
<1>9. CASE Resumes
    BY <1>9 DEF Resumes
<1>10. CASE Disconnect \/ DisconnectReturns \/ DisconnectAborts \/ ControllerEnds
    BY <1>10 DEF Disconnect, DisconnectReturns, DisconnectAborts, ControllerEnds
<1>11. CASE UNCHANGED vars
    BY <1>11
<1> QED BY <1>1, <1>2, <1>3, <1>4, <1>5, <1>6, <1>7, <1>8, <1>9, <1>10, <1>11 DEF Next, ControllerStep

\* Every step keeps Ended.
LEMMA EndedStep == Ended /\ [Next]_vars => Ended'
<1> SUFFICES ASSUME Ended, [Next]_vars PROVE Ended'
    OBVIOUS
<1> USE DEF Ended, Reconnecting, vars, controlVars
<1>1. ASSUME NEW m \in Messages, WaitForActive(m) \/ Enqueue(m) PROVE Ended'
    BY <1>1 DEF WaitForActive, Enqueue
<1>2. ASSUME NEW k \in up, ConnectionLost(k) PROVE Ended'
    BY <1>2 DEF ConnectionLost
<1>3. CASE \/ WriterStops \/ TakeBuffers \/ TakeSends \/ TakeUpdates \/ SendSucceeds \/ SendFails
           \/ Drain \/ DrainEnds \/ WriterAborted \/ ReaderEnds \/ NotifyClosed
    BY <1>3 DEF WriterStops, TakeBuffers, TakeSends, TakeUpdates, Take, SendSucceeds, SendFails, Drain,
                DrainEnds, WriterAborted, ReaderEnds, NotifyClosed
<1>4. CASE ControllerStep
    <2>1. abort # "no" => abort' # "no"
        BY <1>4 DEF ControllerStep
    <2>2. controller # "done" /\ UNCHANGED disconnecting
        BY <1>4 DEF ControllerStep, Wakes, SeesDisconnect, SeesClosed, GivesUp, Tries, StreamCloses,
                    ConnectAborts, Connects, Confirmed, AttemptFails, Interrupted, Settles, Resumes,
                    BacksOff, Closes
    <2> QED BY <2>1, <2>2
<1>5. CASE Disconnect \/ DisconnectReturns \/ DisconnectAborts \/ ControllerEnds
    BY <1>5 DEF Disconnect, DisconnectReturns, DisconnectAborts, ControllerEnds
<1>6. CASE UNCHANGED vars
    BY <1>6
<1> QED BY <1>1, <1>2, <1>3, <1>4, <1>5, <1>6 DEF Next

\* A client becomes active, and a connection confirmed, only when the writer has it.
LEMMA HandedStep ==
    ASSUME TypeInv, Quiet, [Next]_vars, ~Connects, ~TakeUpdates,
           Handed' \/ connection_mode' = "Active"
    PROVE  Handed \/ connection_mode = "Active" \/ wconn = conn
<1> USE DEF Handed, Quiet, Reconnecting, vars, callVars, writerVars, readerVars, controlVars
<1>1. ASSUME NEW m \in Messages, WaitForActive(m) \/ Enqueue(m)
      PROVE  Handed \/ connection_mode = "Active"
    BY <1>1 DEF WaitForActive, Enqueue
<1>2. ASSUME NEW k \in up, ConnectionLost(k) PROVE Handed \/ connection_mode = "Active"
    BY <1>2 DEF ConnectionLost
<1>3. CASE \/ WriterStops \/ TakeBuffers \/ TakeSends \/ SendSucceeds \/ Drain \/ WriterAborted
           \/ SendFails \/ ReaderEnds \/ NotifyClosed
    BY <1>3 DEF WriterStops, TakeBuffers, TakeSends, Take, SendSucceeds, Drain, WriterAborted,
                SendFails, ReaderEnds, NotifyClosed
<1>4. CASE DrainEnds
    BY <1>4 DEF DrainEnds, Report
<1>5. CASE ControllerStep
    BY <1>5 DEF ControllerStep, Wakes, SeesDisconnect, SeesClosed, GivesUp, Tries, StreamCloses,
                ConnectAborts, Confirmed, AttemptFails, Interrupted, Settles, Resumes, BacksOff, Closes
<1>6. CASE Disconnect \/ DisconnectReturns \/ DisconnectAborts \/ ControllerEnds
    BY <1>6 DEF Disconnect, DisconnectReturns, DisconnectAborts, ControllerEnds
<1>7. CASE UNCHANGED vars
    BY <1>7
<1> QED BY <1>1, <1>2, <1>3, <1>4, <1>5, <1>6, <1>7 DEF Next

\* Every step keeps UpdateInv.
LEMMA UpdateStep == TypeInv /\ Quiet /\ UpdateInv /\ [Next]_vars => UpdateInv'
<1> SUFFICES ASSUME TypeInv, Quiet, UpdateInv, [Next]_vars PROVE UpdateInv'
    OBVIOUS
<1>t. queue \in Seq(Commands) /\ wconn \in Nat /\ conn \in Nat
    BY DEF TypeInv, TypeOK
<1>d. \A i \in DOMAIN queue : i \in 1..Len(queue) /\ queue[i] \in Commands
    BY <1>t, ElementOfSeq, LenProperties
<1>c. \A i \in DOMAIN queue : i \in 1..Len(queue) /\ queue[i].conn \in Nat
    BY <1>d DEF Commands
<1>1. CASE UNCHANGED <<queue, wconn, conn>>
    <2>1. ~Connects /\ ~TakeUpdates
        BY <1>1, <1>t DEF Connects, TakeUpdates, Take
    <2>2. Settled'
        BY <1>1, <2>1, HandedStep DEF UpdateInv, Settled
    <2> QED BY <1>1, <2>2 DEF UpdateInv, UpdatesAhead, UpdatesInOrder, IsUpdate
<1>2. ASSUME NEW m \in Messages, Enqueue(m) PROVE UpdateInv'
    <2>1. CASE UNCHANGED queue
        BY <1>1, <1>2, <2>1 DEF Enqueue, controlVars
    <2>2. CASE queue' = Append(queue, Send(m))
        <3>1. Send(m) \in Commands /\ Send(m).message # NoMessage
            BY ClientAssumption DEF Send, Commands
        <3>2. \A i \in DOMAIN queue' : IsUpdate(i)' => i \in DOMAIN queue /\ queue'[i] = queue[i]
            BY <1>t, <2>2, <3>1, AppendFacts, LenProperties DEF IsUpdate
        <3>3. UNCHANGED <<wconn, conn>> /\ ~Connects /\ ~TakeUpdates
            BY <1>2, <1>t DEF Enqueue, controlVars, Connects, TakeUpdates, Take
        <3>4. Settled'
            BY <3>3, HandedStep DEF UpdateInv, Settled
        <3> QED BY <3>2, <3>3, <3>4 DEF UpdateInv, UpdatesAhead, UpdatesInOrder, IsUpdate
    <2> QED BY <1>2, <2>1, <2>2 DEF Enqueue
<1>3. ASSUME Take
      PROVE  /\ Head(queue) = queue[1] /\ 1 \in DOMAIN queue /\ UNCHANGED conn
             /\ \A i \in DOMAIN queue' : i + 1 \in DOMAIN queue /\ queue'[i] = queue[i + 1] /\ i \in Nat \ {0}
    <2>1. queue # << >> /\ queue' = Tail(queue)
        BY <1>3 DEF Take
    <2>2. \A i \in DOMAIN queue' : i \in Nat \ {0}
        BY <1>t, <2>1, TailFacts, LenProperties
    <2> QED BY <1>t, <1>3, <2>1, <2>2, TailFacts DEF Take, controlVars
<1>4. CASE TakeBuffers \/ TakeSends
    <2>1. Take /\ UNCHANGED wconn /\ ~Connects /\ ~TakeUpdates
        BY <1>4, <1>3, <1>t DEF TakeBuffers, TakeSends, TakeUpdates, Connects
    <2>2. Settled'
        BY <1>3, <2>1, HandedStep DEF UpdateInv, Settled
    <2> QED BY <1>3, <2>1, <2>2 DEF UpdateInv, UpdatesAhead, UpdatesInOrder, IsUpdate
<1>5. CASE TakeUpdates
    <2>1. Take /\ wconn' = queue[1].conn /\ IsUpdate(1)
        BY <1>5, <1>3 DEF TakeUpdates, IsUpdate
    <2>u. UpdatesInOrder'
        BY <1>3, <2>1 DEF UpdateInv, UpdatesInOrder, IsUpdate
    <2>v. ASSUME NEW i \in DOMAIN queue', IsUpdate(i)'
          PROVE  wconn' < queue'[i].conn /\ queue'[i].conn <= conn'
        <3>1. i + 1 \in DOMAIN queue /\ IsUpdate(i + 1) /\ 1 < i + 1 /\ queue'[i] = queue[i + 1]
            BY <1>3, <2>1, <2>v DEF IsUpdate
        <3> QED BY <1>3, <2>1, <3>1 DEF UpdateInv, UpdatesAhead, UpdatesInOrder
    <2>2. UpdatesAhead'
        BY <1>3, <2>1, <2>v DEF UpdateInv, UpdatesAhead
    <2>3. ~(Handed \/ connection_mode = "Active")
        BY <1>3, <1>c, <1>t, <2>1 DEF UpdateInv, UpdatesAhead, Settled
    <2>4. UNCHANGED <<controller, reply, connection_mode>>
        BY <2>1 DEF Take, controlVars
    <2> QED BY <2>2, <2>3, <2>4, <2>u DEF UpdateInv, Settled, Handed
<1>6. CASE Connects
    <2>1. /\ conn' = conn + 1 /\ UNCHANGED <<wconn, connection_mode>>
          /\ controller' # "settle" /\ reply' = "none" /\ connection_mode # "Active"
        BY <1>6 DEF Connects, Quiet, Reconnecting
    <2>2. Settled'
        BY <2>1 DEF Settled, Handed
    <2>3. CASE UNCHANGED queue
        BY <1>c, <1>t, <2>1, <2>2, <2>3 DEF UpdateInv, UpdatesAhead, UpdatesInOrder, IsUpdate
    <2>4. CASE queue' = Append(queue, Update(conn + 1))
        <3>1. Update(conn + 1) \in Commands /\ Update(conn + 1).conn = conn + 1
            BY <1>t DEF Update, Commands
        <3>2. \A i \in DOMAIN queue' :
                 \/ i \in DOMAIN queue /\ queue'[i] = queue[i]
                 \/ i = Len(queue) + 1 /\ queue'[i].conn = conn + 1
            BY <1>t, <2>4, <3>1, AppendFacts, LenProperties
        <3>3. Len(queue) \in Nat
            BY <1>t, LenProperties
        <3>4. UpdatesAhead'
            BY <1>c, <1>t, <2>1, <3>2, <3>3 DEF UpdateInv, UpdatesAhead, IsUpdate
        <3>5. UpdatesInOrder'
            BY <1>c, <1>t, <2>1, <3>2, <3>3 DEF UpdateInv, UpdatesAhead, UpdatesInOrder, IsUpdate
        <3> QED BY <2>2, <3>4, <3>5 DEF UpdateInv
    <2> QED BY <1>6, <2>3, <2>4 DEF Connects
<1> QED BY <1>1, <1>2, <1>4, <1>5, <1>6, QueueSteps

-----------------------------------------------------------------------------
(* What is held back *)

\* Behind the update of the connection made last there are only late messages.
BehindIsLate ==
    controller \in {"confirm", "settle"} =>
        \A i \in DOMAIN queue :
            \/ IsUpdate(i) \/ queue[i].message \in late
            \/ \E j \in DOMAIN queue : i < j /\ IsUpdate(j) /\ queue[j].conn = conn

HeldIsLate ==
    Handed \/ connection_mode = "Active" =>
        \A i \in DOMAIN reconnect_buffer : reconnect_buffer[i] \in late

NotSending == Handed => writer # "send"

LateInv == BehindIsLate /\ HeldIsLate /\ NotSending

\* The controller waits for a confirmation, or has one, only after Connects.
LEMMA ConfirmStep ==
    ASSUME TypeInv, Quiet, [Next]_vars, ~Connects
    PROVE  /\ controller' \in {"confirm", "settle"} => controller \in {"confirm", "settle"}
           /\ conn' = conn /\ late \subseteq late'
           /\ Handed' => Handed \/ (DrainEnds /\ reconnect_buffer = << >>)
           /\ connection_mode' = "Active" => connection_mode = "Active" \/ Handed
           /\ writer' = "send" => writer = "send" \/ TakeSends
<1> USE DEF Handed, Quiet, Reconnecting, vars, callVars, writerVars, readerVars, controlVars
<1>1. ASSUME NEW m \in Messages, WaitForActive(m) \/ Enqueue(m)
      PROVE  UNCHANGED <<controller, conn, reply, connection_mode, writer>> /\ late \subseteq late'
    BY <1>1 DEF WaitForActive, Enqueue
<1>2. ASSUME NEW k \in up, ConnectionLost(k)
      PROVE  UNCHANGED <<controller, conn, reply, connection_mode, writer, late>>
    BY <1>2 DEF ConnectionLost
<1>3. CASE \/ WriterStops \/ TakeBuffers \/ TakeSends \/ TakeUpdates \/ SendSucceeds \/ Drain
           \/ WriterAborted \/ SendFails \/ ReaderEnds \/ NotifyClosed
    BY <1>3 DEF WriterStops, TakeBuffers, TakeSends, TakeUpdates, Take, SendSucceeds, Drain,
                WriterAborted, SendFails, ReaderEnds, NotifyClosed
<1>4. CASE DrainEnds
    BY <1>4 DEF DrainEnds, Report
<1>5. CASE ControllerStep
    BY <1>5 DEF ControllerStep, Wakes, SeesDisconnect, SeesClosed, GivesUp, Tries, StreamCloses,
                ConnectAborts, Confirmed, AttemptFails, Interrupted, Settles, Resumes, BacksOff, Closes
<1>6. CASE Disconnect \/ DisconnectReturns \/ DisconnectAborts \/ ControllerEnds
    BY <1>6 DEF Disconnect, DisconnectReturns, DisconnectAborts, ControllerEnds
<1>7. CASE UNCHANGED vars
    BY <1>7
<1> QED BY <1>1, <1>2, <1>3, <1>4, <1>5, <1>6, <1>7 DEF Next

\* Messages are buffered only from the queue while reconnecting or from a failed send.
LEMMA BufferSteps ==
    ASSUME TypeInv, [Next]_vars
    PROVE  \/ TakeBuffers \/ SendFails
           \/ /\ reconnect_buffer' \in Seq(Messages)
              /\ \A i \in DOMAIN reconnect_buffer' :
                    \E j \in DOMAIN reconnect_buffer : reconnect_buffer'[i] = reconnect_buffer[j]
<1> DEFINE Fewer == \A i \in DOMAIN reconnect_buffer' :
                       \E j \in DOMAIN reconnect_buffer : reconnect_buffer'[i] = reconnect_buffer[j]
<1>1. reconnect_buffer \in Seq(Messages) /\ reconnect_buffer' \in Seq(Messages)
    BY TypeStep DEF TypeInv, TypeOK
<1>2. CASE UNCHANGED reconnect_buffer
    BY <1>1, <1>2
<1>3. CASE Drain
    BY <1>1, <1>3, TailFacts DEF Drain
<1>4. CASE WriterStops \/ WriterAborted
    <2>1. reconnect_buffer' = << >>
        BY <1>4 DEF WriterStops, WriterAborted
    <2>2. DOMAIN reconnect_buffer' = {}
        BY <2>1
    <2> QED BY <1>1, <2>2
<1>5. UNCHANGED reconnect_buffer \/ Drain \/ WriterStops \/ WriterAborted \/ TakeBuffers \/ SendFails
    <2> USE DEF vars, callVars, writerVars, readerVars, controlVars
    <2>1. ASSUME NEW m \in Messages, WaitForActive(m) \/ Enqueue(m) PROVE UNCHANGED reconnect_buffer
        BY <2>1 DEF WaitForActive, Enqueue
    <2>2. ASSUME NEW k \in up, ConnectionLost(k) PROVE UNCHANGED reconnect_buffer
        BY <2>2 DEF ConnectionLost
    <2>3. CASE \/ TakeSends \/ TakeUpdates \/ SendSucceeds \/ DrainEnds \/ ReaderEnds \/ NotifyClosed
               \/ Disconnect \/ DisconnectReturns \/ DisconnectAborts \/ ControllerEnds
        BY <2>3 DEF TakeSends, TakeUpdates, SendSucceeds, DrainEnds, ReaderEnds, NotifyClosed,
                    Disconnect, DisconnectReturns, DisconnectAborts, ControllerEnds
    <2>4. CASE ControllerStep
        BY <2>4 DEF ControllerStep, Wakes, SeesDisconnect, SeesClosed, GivesUp, Tries, StreamCloses,
                    ConnectAborts, Connects, Confirmed, AttemptFails, Interrupted, Settles, Resumes,
                    BacksOff, Closes
    <2>5. CASE UNCHANGED vars
        BY <2>5
    <2> QED BY <2>1, <2>2, <2>3, <2>4, <2>5 DEF Next
<1> QED BY <1>2, <1>3, <1>4, <1>5

\* Every step keeps BehindIsLate.
LEMMA BehindStep ==
    ASSUME TypeInv, Quiet, UpdateInv, BehindIsLate, [Next]_vars
    PROVE  BehindIsLate'
<1>t. queue \in Seq(Commands) /\ conn \in Nat
    BY DEF TypeInv, TypeOK
<1>l. Len(queue) \in Nat /\ DOMAIN queue = 1..Len(queue)
    BY <1>t, LenProperties
<1>1. CASE UNCHANGED <<queue, wconn, conn>>
    <2>1. ~Connects
        BY <1>1, <1>t DEF Connects
    <2> QED BY <1>1, <2>1, ConfirmStep DEF BehindIsLate, IsUpdate
<1>2. ASSUME NEW m \in Messages, Enqueue(m) PROVE BehindIsLate'
    <2>1. CASE UNCHANGED queue
        BY <1>1, <1>2, <2>1 DEF Enqueue, controlVars
    <2>2. CASE queue' = Append(queue, Send(m)) /\ writer # "done"
        <3>1. Send(m) \in Commands /\ Send(m).message = m
            BY DEF Send, Commands
        <3>2. /\ DOMAIN queue' = 1..(Len(queue) + 1) /\ queue'[Len(queue) + 1].message = m
              /\ \A i \in DOMAIN queue : queue'[i] = queue[i]
            BY <1>t, <1>l, <2>2, <3>1, AppendFacts
        <3>3. UNCHANGED <<controller, conn, connection_mode>> /\ late \subseteq late'
            BY <1>2 DEF Enqueue, controlVars
        <3>4. controller \in {"confirm", "settle"} => m \in late'
            BY <1>2, <2>2 DEF Enqueue, Quiet, Reconnecting
        <3> QED BY <1>l, <3>2, <3>3, <3>4 DEF BehindIsLate, IsUpdate
    <2> QED BY <1>2, <2>1, <2>2 DEF Enqueue
<1>3. CASE TakeBuffers \/ TakeSends \/ TakeUpdates
    <2>1. Take BY <1>3 DEF TakeBuffers, TakeSends, TakeUpdates
    <2>2. UNCHANGED <<controller, conn, late>> /\ queue # << >> /\ queue' = Tail(queue)
        BY <2>1 DEF Take, controlVars, callVars
    <2>3. /\ \A i \in DOMAIN queue' : i + 1 \in DOMAIN queue /\ queue'[i] = queue[i + 1] /\ i \in Nat
          /\ \A i \in DOMAIN queue : i > 1 => i - 1 \in DOMAIN queue'
        BY <1>t, <2>2, TailFacts
    <2> SUFFICES ASSUME controller \in {"confirm", "settle"}, NEW i \in DOMAIN queue',
                        ~IsUpdate(i)', queue'[i].message \notin late
                 PROVE  \E j \in DOMAIN queue' : i < j /\ IsUpdate(j)' /\ queue'[j].conn = conn
        BY <2>2 DEF BehindIsLate
    <2>4. i \in Nat /\ i >= 1 /\ i + 1 \in DOMAIN queue /\ ~IsUpdate(i + 1) /\ queue[i + 1].message \notin late
        BY <1>t, <2>2, <2>3, TailFacts, LenProperties DEF IsUpdate
    <2>5. PICK j \in DOMAIN queue : i + 1 < j /\ IsUpdate(j) /\ queue[j].conn = conn
        BY <2>4 DEF BehindIsLate
    <2>6. j \in Nat /\ j - 1 \in DOMAIN queue' /\ i < j - 1
        BY <1>l, <2>3, <2>4, <2>5
    <2>7. queue'[j - 1] = queue[j]
        BY <2>3, <2>6
    <2> QED BY <2>5, <2>6, <2>7 DEF IsUpdate
<1>4. CASE Connects
    <2>1. CASE controller' = "backoff"
        BY <2>1 DEF BehindIsLate
    <2>2. CASE queue' = Append(queue, Update(conn + 1))
        <3>1. /\ Update(conn + 1) \in Commands /\ Update(conn + 1).conn = conn + 1
              /\ Update(conn + 1).message = NoMessage
            BY <1>t DEF Update, Commands
        <3>2. /\ DOMAIN queue' = 1..(Len(queue) + 1)
              /\ queue'[Len(queue) + 1] = Update(conn + 1)
            BY <1>t, <1>l, <2>2, <3>1, AppendFacts
        <3>3. conn' = conn + 1
            BY <1>4 DEF Connects
        <3>4. \A i \in DOMAIN queue' : i = Len(queue) + 1 \/ i < Len(queue) + 1
            BY <1>l, <3>2
        <3>5. Len(queue) + 1 \in DOMAIN queue'
            BY <1>l, <3>2
        <3> QED BY <3>1, <3>2, <3>3, <3>4, <3>5 DEF BehindIsLate, IsUpdate
    <2> QED BY <1>4, <2>1, <2>2 DEF Connects
<1> QED BY <1>1, <1>2, <1>3, <1>4, QueueSteps

\* Every step keeps HeldIsLate and NotSending.
LEMMA HeldStep ==
    ASSUME TypeInv, Quiet, UpdateInv, LateInv, [Next]_vars
    PROVE  HeldIsLate' /\ NotSending'
<1>t. /\ reconnect_buffer \in Seq(Messages) /\ queue \in Seq(Commands) /\ conn \in Nat
      /\ DOMAIN reconnect_buffer = 1..Len(reconnect_buffer) /\ Len(reconnect_buffer) \in Nat
    BY LenProperties DEF TypeInv, TypeOK
<1>1. CASE Connects
    <2>1. ~Handed' /\ connection_mode' # "Active"
        BY <1>1 DEF Connects, Handed, Quiet, Reconnecting
    <2> QED BY <2>1 DEF HeldIsLate, NotSending
<1>2. CASE ~Connects
    <2>1. NotSending'
        <3>1. CASE DrainEnds
            BY <3>1 DEF DrainEnds, NotSending
        <3>2. CASE TakeSends
            <4>1. connection_mode = "Active" /\ UNCHANGED <<controller, reply>>
                BY <3>2 DEF TakeSends, Take, controlVars
            <4> QED BY <4>1 DEF NotSending, Handed, Quiet, Reconnecting
        <3>3. CASE ~DrainEnds /\ ~TakeSends
            BY <1>2, <3>3, ConfirmStep DEF LateInv, NotSending
        <3> QED BY <3>1, <3>2, <3>3
    <2>2. CASE TakeBuffers
        <3>1. /\ Take /\ Head(queue).message # NoMessage
              /\ reconnect_buffer' = Append(reconnect_buffer, Head(queue).message)
              /\ UNCHANGED <<connection_mode, controller, reply, late>> /\ connection_mode # "Active"
            BY <2>2 DEF TakeBuffers, Take, controlVars, callVars
        <3> SUFFICES ASSUME Handed PROVE \A i \in DOMAIN reconnect_buffer' : reconnect_buffer'[i] \in late
            BY <2>1, <3>1 DEF HeldIsLate, Handed
        <3>2. Head(queue) = queue[1] /\ 1 \in DOMAIN queue
            BY <1>t, <3>1, TailFacts DEF Take
        <3>3. \A j \in DOMAIN queue : IsUpdate(j) => queue[j].conn # conn
            <4>1. ASSUME NEW j \in DOMAIN queue, IsUpdate(j) PROVE conn < queue[j].conn
                BY <4>1 DEF UpdateInv, Settled, UpdatesAhead
            <4>2. \A j \in DOMAIN queue : queue[j] \in Commands
                BY <1>t, ElementOfSeq, LenProperties
            <4> QED BY <1>t, <4>1, <4>2 DEF Commands
        <3>4. Head(queue).message \in late
            BY <3>1, <3>2, <3>3 DEF LateInv, BehindIsLate, Handed, IsUpdate
        <3>5. Head(queue).message \in Messages
            BY <3>1, TakeFacts
        <3>6. /\ DOMAIN reconnect_buffer' = 1..(Len(reconnect_buffer) + 1)
              /\ \A i \in 1..Len(reconnect_buffer) : reconnect_buffer'[i] = reconnect_buffer[i]
              /\ reconnect_buffer'[Len(reconnect_buffer) + 1] = Head(queue).message
            BY <1>t, <3>1, <3>5, AppendFacts
        <3>7. \A i \in DOMAIN reconnect_buffer' :
                 i \in DOMAIN reconnect_buffer \/ i = Len(reconnect_buffer) + 1
            BY <1>t, <3>6
        <3> QED BY <1>t, <3>4, <3>6, <3>7 DEF LateInv, HeldIsLate
    <2>3. CASE SendFails
        <3>1. ~Handed
            BY <2>3 DEF SendFails, LateInv, NotSending
        <3>2. UNCHANGED <<controller, reply>> /\ connection_mode' # "Active"
            BY <2>3 DEF SendFails, controlVars
        <3> QED BY <2>1, <3>1, <3>2 DEF HeldIsLate, Handed
    <2>4. CASE DrainEnds /\ reconnect_buffer = << >>
        <3>1. DOMAIN reconnect_buffer' = {}
            BY <2>4 DEF DrainEnds
        <3> QED BY <2>1, <3>1 DEF HeldIsLate
    <2>5. CASE ~TakeBuffers /\ ~SendFails /\ ~(DrainEnds /\ reconnect_buffer = << >>)
        BY <1>2, <2>1, <2>5, ConfirmStep, BufferSteps DEF LateInv, HeldIsLate
    <2> QED BY <2>2, <2>3, <2>4, <2>5
<1> QED BY <1>1, <1>2

-----------------------------------------------------------------------------
(* Where the messages are, and in which order *)

\* The writer holds a message only while it sends it, and while it does so what is
\* buffered is late.
HandInv ==
    /\ writer # "send" => hand = NoMessage
    /\ writer = "send" => \A i \in DOMAIN reconnect_buffer : reconnect_buffer[i] \in late

\* What is in a place was sent, and what was sent is in a place while the writer runs.
Pending == {queue[i].message : i \in DOMAIN queue}
Somewhere == Pending \cup {hand} \cup Range(reconnect_buffer) \cup Range(written)

PlaceInv ==
    \A m \in Messages :
        /\ m \in Somewhere => call[m] = "sent"
        /\ call[m] = "sent" /\ writer # "done" => m \in Somewhere
        /\ m \in Range(accepted) => call[m] = "sent"

\* The pairs that may stand in a line, one ahead of the other: two messages of which
\* the second was not accepted earlier, or at least one place that is empty.
Held == Messages \cup {NoMessage}
Line == {p \in Held \X Held : (p[1] = p[2] => p[1] = NoMessage) /\ ~Earlier(p[2], p[1])}

\* The messages stand in one line: what is written, then what is buffered, then the
\* message in the writer's hand, then what is queued.
WrittenInLine == \A i, j \in DOMAIN written : i < j => <<written[i], written[j]>> \in Line
WrittenFirst ==
    \A i \in DOMAIN written :
        /\ <<written[i], hand>> \in Line
        /\ \A j \in DOMAIN reconnect_buffer : <<written[i], reconnect_buffer[j]>> \in Line
        /\ \A j \in DOMAIN queue : <<written[i], queue[j].message>> \in Line
BufferInLine ==
    \A i, j \in DOMAIN reconnect_buffer : i < j => <<reconnect_buffer[i], reconnect_buffer[j]>> \in Line
BufferNext ==
    \A i \in DOMAIN reconnect_buffer :
        /\ <<reconnect_buffer[i], hand>> \in Line
        /\ \A j \in DOMAIN queue : <<reconnect_buffer[i], queue[j].message>> \in Line
QueueLast == \A j \in DOMAIN queue : <<hand, queue[j].message>> \in Line
QueueInLine == \A i, j \in DOMAIN queue : i < j => <<queue[i].message, queue[j].message>> \in Line

LineInv == WrittenInLine /\ WrittenFirst /\ BufferInLine /\ BufferNext /\ QueueLast /\ QueueInLine

AcceptedOnce == \A i, j \in DOMAIN accepted : accepted[i] = accepted[j] => i = j

OrderInv == HandInv /\ PlaceInv /\ AcceptedOnce /\ LineInv

\* An element at the end of a sequence, read by positions.
LEMMA Appended ==
    ASSUME NEW S, NEW s \in Seq(S), NEW e \in S, NEW t, t = Append(s, e)
    PROVE  /\ \A i \in DOMAIN t : (i \in DOMAIN s /\ t[i] = s[i]) \/ (i = Len(s) + 1 /\ t[i] = e)
           /\ \A i \in DOMAIN s : i \in DOMAIN t /\ t[i] = s[i] /\ i < Len(s) + 1 /\ i \in Nat
           /\ Len(s) + 1 \in DOMAIN t /\ t[Len(s) + 1] = e /\ Len(s) \in Nat
<1>1. Len(s) \in Nat /\ DOMAIN s = 1..Len(s)
    BY LenProperties
<1> QED BY <1>1, AppendFacts

\* The first element taken away, read by positions.
LEMMA Shifted ==
    ASSUME NEW S, NEW s \in Seq(S), s # << >>, NEW t, t = Tail(s)
    PROVE  /\ 1 \in DOMAIN s /\ Head(s) = s[1] /\ Head(s) \in S
           /\ \A i \in DOMAIN t : i \in Nat /\ i + 1 \in DOMAIN s /\ 1 < i + 1 /\ t[i] = s[i + 1]
           /\ \A i \in DOMAIN s : i \in Nat /\ (i = 1 \/ (i - 1 \in DOMAIN t /\ t[i - 1] = s[i]))
<1>1. Len(s) \in Nat /\ DOMAIN s = 1..Len(s) /\ Len(t) \in Nat /\ DOMAIN t = 1..Len(t)
    BY TailFacts, LenProperties
<1>2. \A i \in DOMAIN s : i = 1 \/ i - 1 \in DOMAIN t
    BY <1>1, TailFacts
<1>3. \A i \in DOMAIN t : i + 1 \in DOMAIN s /\ t[i] = s[i + 1]
    BY TailFacts
<1>4. ASSUME NEW i \in DOMAIN s, i # 1 PROVE t[i - 1] = s[i]
    <2>1. i - 1 \in DOMAIN t BY <1>2, <1>4
    <2>2. t[i - 1] = s[(i - 1) + 1] BY <1>3, <2>1
    <2>3. (i - 1) + 1 = i BY <1>1
    <2> QED BY <2>2, <2>3
<1> QED BY <1>1, <1>2, <1>3, <1>4, TailFacts

\* What is in a sequence, before and after.
LEMMA AppendRange ==
    ASSUME NEW S, NEW s \in Seq(S), NEW e \in S, NEW t, t = Append(s, e)
    PROVE  Range(t) = Range(s) \cup {e}
<1>1. /\ \A i \in DOMAIN t : (i \in DOMAIN s /\ t[i] = s[i]) \/ t[i] = e
      /\ \A i \in DOMAIN s : i \in DOMAIN t /\ t[i] = s[i]
      /\ \E i \in DOMAIN t : t[i] = e
    BY Appended
<1> QED BY <1>1 DEF Range

LEMMA TailRange ==
    ASSUME NEW S, NEW s \in Seq(S), s # << >>, NEW t, t = Tail(s)
    PROVE  Range(s) = Range(t) \cup {Head(s)}
<1>1. /\ \A i \in DOMAIN t : i + 1 \in DOMAIN s /\ t[i] = s[i + 1]
      /\ \A i \in DOMAIN s : i = 1 \/ (i - 1 \in DOMAIN t /\ t[i - 1] = s[i])
      /\ 1 \in DOMAIN s /\ Head(s) = s[1]
    BY Shifted
<1>2. ASSUME NEW i \in DOMAIN s PROVE s[i] \in Range(t) \cup {Head(s)}
    BY <1>1 DEF Range
<1>3. ASSUME NEW i \in DOMAIN t PROVE t[i] \in Range(s)
    BY <1>1 DEF Range
<1>4. Head(s) \in Range(s)
    BY <1>1 DEF Range
<1> QED BY <1>2, <1>3, <1>4, Zenon DEF Range

\* The steps that move a message or the writer.
LEMMA PlaceSteps ==
    ASSUME [Next]_vars
    PROVE  \/ /\ UNCHANGED <<callVars, queue, reconnect_buffer, hand, written>>
              /\ writer' = writer \/ (writer = "drain" /\ writer' = "loop")
           \/ \E m \in Messages : WaitForActive(m) \/ Enqueue(m)
           \/ WriterStops \/ TakeBuffers \/ TakeSends \/ TakeUpdates \/ SendSucceeds \/ SendFails
           \/ Drain \/ WriterAborted \/ Connects
<1> USE DEF vars, callVars, writerVars, readerVars, controlVars
<1>1. ASSUME NEW k \in up, ConnectionLost(k)
      PROVE  UNCHANGED <<callVars, queue, reconnect_buffer, hand, written, writer>>
    BY <1>1 DEF ConnectionLost
<1>2. CASE DrainEnds
    BY <1>2 DEF DrainEnds
<1>3. CASE ReaderEnds \/ NotifyClosed \/ Disconnect \/ DisconnectReturns \/ DisconnectAborts \/ ControllerEnds
    BY <1>3 DEF ReaderEnds, NotifyClosed, Disconnect, DisconnectReturns, DisconnectAborts, ControllerEnds
<1>4. CASE ControllerStep /\ ~Connects
    BY <1>4 DEF ControllerStep, Wakes, SeesDisconnect, SeesClosed, GivesUp, Tries, StreamCloses,
                ConnectAborts, Confirmed, AttemptFails, Interrupted, Settles, Resumes, BacksOff, Closes
<1>5. CASE UNCHANGED vars
    BY <1>5
<1> QED BY <1>1, <1>2, <1>3, <1>4, <1>5 DEF Next

\* A command goes to the end of the queue or comes from its front.
LEMMA Queued ==
    ASSUME TypeInv, NEW c \in Commands, queue' = Append(queue, c)
    PROVE  /\ \A i \in DOMAIN queue' : \/ i \in DOMAIN queue /\ queue'[i] = queue[i]
                                       \/ i = Len(queue) + 1 /\ queue'[i] = c
           /\ \A i \in DOMAIN queue : i \in DOMAIN queue' /\ queue'[i] = queue[i] /\ i < Len(queue) + 1
           /\ Len(queue) + 1 \in DOMAIN queue' /\ queue'[Len(queue) + 1] = c
           /\ \A i \in DOMAIN queue : i \in Nat
           /\ Len(queue) \in Nat
BY Appended DEF TypeInv, TypeOK

LEMMA Taken ==
    ASSUME TypeInv, Take
    PROVE  /\ 1 \in DOMAIN queue /\ Head(queue) = queue[1] /\ Head(queue).message \in Held
           /\ \A i \in DOMAIN queue' : i \in Nat /\ i + 1 \in DOMAIN queue /\ 1 < i + 1
                                         /\ queue'[i] = queue[i + 1]
           /\ \A i \in DOMAIN queue : i = 1 \/ (i - 1 \in DOMAIN queue' /\ queue'[i - 1] = queue[i])
<1>1. queue \in Seq(Commands) /\ queue # << >> /\ queue' = Tail(queue)
    BY DEF TypeInv, TypeOK, Take
<1> QED BY <1>1, Shifted, TakeFacts DEF Held

\* The messages in the queue.
LEMMA PendingTaken == ASSUME TypeInv, Take PROVE Pending = Pending' \cup {Head(queue).message}
BY Taken DEF Pending

LEMMA PendingAdded ==
    ASSUME TypeInv, NEW c \in Commands, queue' = Append(queue, c)
    PROVE  Pending' = Pending \cup {c.message}
BY Queued DEF Pending

\* Every step keeps HandInv.
LEMMA HandStep == TypeInv /\ LateInv /\ HandInv /\ [Next]_vars => HandInv'
<1> SUFFICES ASSUME TypeInv, LateInv, HandInv, [Next]_vars PROVE HandInv'
    OBVIOUS
<1>1. CASE SendFails \/ SendSucceeds \/ WriterAborted \/ WriterStops
    BY <1>1 DEF SendFails, SendSucceeds, WriterAborted, WriterStops, HandInv
<1>2. CASE TakeSends
    <2>1. /\ connection_mode = "Active" /\ writer' = "send"
          /\ UNCHANGED <<reconnect_buffer, late>>
        BY <1>2 DEF TakeSends, Take, callVars
    <2> QED BY <2>1 DEF HandInv, LateInv, HeldIsLate
<1>3. CASE TakeBuffers \/ TakeUpdates
    BY <1>3 DEF TakeBuffers, TakeUpdates, Take, HandInv
<1>4. CASE Drain
    BY <1>4 DEF Drain, HandInv
<1>5. CASE \E m \in Messages : WaitForActive(m) \/ Enqueue(m)
    BY <1>5 DEF WaitForActive, Enqueue, HandInv, writerVars
<1>6. CASE Connects
    BY <1>6 DEF Connects, callVars, HandInv
<1>7. CASE /\ UNCHANGED <<callVars, queue, reconnect_buffer, hand, written>>
           /\ writer' = writer \/ (writer = "drain" /\ writer' = "loop")
    BY <1>7 DEF callVars, HandInv
<1> QED BY <1>1, <1>2, <1>3, <1>4, <1>5, <1>6, <1>7, PlaceSteps

\* Every step keeps PlaceInv.
LEMMA PlaceStep == TypeInv /\ HandInv /\ PlaceInv /\ [Next]_vars => PlaceInv'
<1> SUFFICES ASSUME TypeInv, HandInv, PlaceInv, [Next]_vars PROVE PlaceInv'
    OBVIOUS
<1>t. /\ queue \in Seq(Commands) /\ reconnect_buffer \in Seq(Messages) /\ written \in Seq(Messages)
      /\ accepted \in Seq(Messages) /\ call \in [Messages -> {"new", "ready", "sent", "failed"}]
    BY DEF TypeInv, TypeOK
<1>1. ASSUME NEW m \in Messages, WaitForActive(m) PROVE PlaceInv'
    <2>1. \A n \in Messages : call'[n] = "sent" <=> call[n] = "sent"
        BY <1>t, <1>1 DEF WaitForActive
    <2>2. UNCHANGED <<accepted, writerVars>>
        BY <1>1 DEF WaitForActive
    <2> QED BY <2>1, <2>2 DEF PlaceInv, Somewhere, Pending, writerVars
<1>2. ASSUME NEW m \in Messages, Enqueue(m) PROVE PlaceInv'
    <2>1. CASE writer = "done"
        <3>1. \A n \in Messages : call'[n] = "sent" <=> call[n] = "sent"
            BY <1>t, <1>2, <2>1 DEF Enqueue
        <3>2. UNCHANGED <<accepted, writerVars>>
            BY <1>2, <2>1 DEF Enqueue, writerVars
        <3> QED BY <3>1, <3>2 DEF PlaceInv, Somewhere, Pending, writerVars
    <2>2. CASE writer # "done"
        <3>1. /\ call' = [call EXCEPT ![m] = "sent"] /\ queue' = Append(queue, Send(m))
              /\ accepted' = Append(accepted, m)
              /\ UNCHANGED <<reconnect_buffer, writer, hand, written>>
            BY <1>2, <2>2 DEF Enqueue
        <3>2. Send(m) \in Commands /\ Send(m).message = m
            BY DEF Send, Commands
        <3>3. \A n \in Messages : call'[n] = "sent" <=> (call[n] = "sent" \/ n = m)
            BY <1>t, <3>1
        <3>4. Pending' = Pending \cup {m}
            BY <3>1, <3>2, PendingAdded
        <3>5. Somewhere' = Somewhere \cup {m}
            BY <3>1, <3>4 DEF Somewhere
        <3>6. Range(accepted') = Range(accepted) \cup {m}
            BY <1>t, <3>1, AppendRange
        <3> QED BY <3>1, <3>3, <3>5, <3>6 DEF PlaceInv
    <2> QED BY <2>1, <2>2
<1>3. ASSUME UNCHANGED callVars, Somewhere' \subseteq Somewhere \cup {NoMessage},
             writer' = "done" \/ (writer # "done" /\ Somewhere \subseteq Somewhere' \cup {NoMessage})
      PROVE  PlaceInv'
    BY <1>3, ClientAssumption DEF PlaceInv, callVars
<1>4. CASE WriterStops \/ WriterAborted
    <2>1. reconnect_buffer' = << >> /\ writer' = "done"
        BY <1>4 DEF WriterStops, WriterAborted
    <2>2. UNCHANGED <<callVars, queue, written>> /\ (hand' = hand \/ hand' = NoMessage)
        BY <1>4 DEF WriterStops, WriterAborted
    <2>3. Range(reconnect_buffer') = {}
        BY <2>1 DEF Range
    <2>4. Somewhere' \subseteq Somewhere \cup {NoMessage}
        BY <2>2, <2>3 DEF Somewhere, Pending
    <2> QED BY <1>3, <2>1, <2>2, <2>4
<1>5. CASE TakeBuffers
    <2>1. /\ Take /\ Head(queue).message \in Messages /\ writer # "done"
          /\ UNCHANGED <<hand, written, callVars>>
          /\ reconnect_buffer' = Append(reconnect_buffer, Head(queue).message)
        BY <1>5, TakeFacts DEF TakeBuffers, Take
    <2>2. PICK m \in Messages : m = Head(queue).message
        BY <2>1
    <2>3. reconnect_buffer' = Append(reconnect_buffer, m)
        BY <2>1, <2>2
    <2>4. Range(reconnect_buffer') = Range(reconnect_buffer) \cup {m}
        BY <1>t, <2>3, AppendRange
    <2>5. Somewhere' = Somewhere
        BY <2>1, <2>2, <2>4, PendingTaken DEF Somewhere
    <2> QED BY <1>3, <2>1, <2>5
<1>6. CASE TakeSends
    <2>1. /\ Take /\ writer # "done" /\ hand = NoMessage /\ hand' = Head(queue).message
          /\ UNCHANGED <<reconnect_buffer, written, callVars>>
        BY <1>6 DEF TakeSends, Take, HandInv
    <2>2. Somewhere = Somewhere' \cup {NoMessage}
        BY <2>1, PendingTaken DEF Somewhere
    <2> QED BY <1>3, <2>1, <2>2
<1>7. CASE TakeUpdates
    <2>1. /\ Take /\ writer # "done" /\ Head(queue).message = NoMessage
          /\ UNCHANGED <<reconnect_buffer, written, callVars, hand>>
        BY <1>7 DEF TakeUpdates, Take
    <2>2. Somewhere = Somewhere' \cup {NoMessage}
        BY <2>1, PendingTaken DEF Somewhere
    <2> QED BY <1>3, <2>1, <2>2
<1>8. CASE SendSucceeds
    <2>1. /\ hand \in Messages /\ hand' = NoMessage /\ written' = Append(written, hand)
          /\ writer # "done" /\ UNCHANGED <<reconnect_buffer, queue, callVars>>
        BY <1>8 DEF SendSucceeds, TypeInv
    <2>2. Range(written') = Range(written) \cup {hand}
        BY <1>t, <2>1, AppendRange
    <2>3. Somewhere' = Somewhere \cup {NoMessage}
        BY <2>1, <2>2 DEF Somewhere, Pending
    <2> QED BY <1>3, <2>1, <2>3
<1>9. CASE SendFails
    <2>1. /\ hand \in Messages /\ hand' = NoMessage /\ reconnect_buffer' = Append(reconnect_buffer, hand)
          /\ writer # "done" /\ UNCHANGED <<written, queue, callVars>>
        BY <1>9 DEF SendFails, TypeInv
    <2>2. Range(reconnect_buffer') = Range(reconnect_buffer) \cup {hand}
        BY <1>t, <2>1, AppendRange
    <2>3. Somewhere' = Somewhere \cup {NoMessage}
        BY <2>1, <2>2 DEF Somewhere, Pending
    <2> QED BY <1>3, <2>1, <2>3
<1>10. CASE Drain
    <2>1. /\ reconnect_buffer # << >> /\ reconnect_buffer' = Tail(reconnect_buffer)
          /\ written' = Append(written, Head(reconnect_buffer)) /\ writer # "done"
          /\ UNCHANGED <<hand, queue, callVars>>
        BY <1>10 DEF Drain
    <2>2. Head(reconnect_buffer) \in Messages
        BY <1>t, <2>1, TailFacts
    <2>3. Range(written') = Range(written) \cup {Head(reconnect_buffer)}
        BY <1>t, <2>1, <2>2, AppendRange
    <2>4. Range(reconnect_buffer) = Range(reconnect_buffer') \cup {Head(reconnect_buffer)}
        BY <1>t, <2>1, TailRange
    <2>5. Somewhere' = Somewhere
        BY <2>1, <2>3, <2>4 DEF Somewhere, Pending
    <2> QED BY <1>3, <2>1, <2>5
<1>11. CASE Connects
    <2>1. UNCHANGED <<reconnect_buffer, hand, written, callVars, writer>>
        BY <1>11 DEF Connects
    <2>2. CASE UNCHANGED queue
        BY <2>1, <2>2 DEF PlaceInv, Somewhere, Pending, callVars
    <2>3. CASE writer # "done" /\ queue' = Append(queue, Update(conn + 1))
        <3>1. Update(conn + 1) \in Commands /\ Update(conn + 1).message = NoMessage
            BY DEF Update, Commands, TypeInv, TypeOK
        <3>2. Pending' = Pending \cup {NoMessage}
            BY <2>3, <3>1, PendingAdded
        <3>3. Somewhere' = Somewhere \cup {NoMessage}
            BY <2>1, <3>2 DEF Somewhere
        <3> QED BY <1>3, <2>1, <2>3, <3>3
    <2> QED BY <1>11, <2>2, <2>3 DEF Connects
<1>12. CASE /\ UNCHANGED <<callVars, queue, reconnect_buffer, hand, written>>
            /\ writer' = writer \/ (writer = "drain" /\ writer' = "loop")
    BY <1>12 DEF callVars, PlaceInv, Somewhere, Pending
<1> QED BY <1>1, <1>2, <1>4, <1>5, <1>6, <1>7, <1>8, <1>9, <1>10, <1>11, <1>12, PlaceSteps

\* Every step keeps AcceptedOnce.
LEMMA AcceptedStep == TypeInv /\ PlaceInv /\ AcceptedOnce /\ [Next]_vars => AcceptedOnce'
<1> SUFFICES ASSUME TypeInv, PlaceInv, AcceptedOnce, [Next]_vars PROVE AcceptedOnce'
    OBVIOUS
<1>1. CASE UNCHANGED accepted
    BY <1>1 DEF AcceptedOnce
<1>2. ASSUME NEW m \in Messages, call[m] = "ready", accepted' = Append(accepted, m) PROVE AcceptedOnce'
    <2>1. \A i \in DOMAIN accepted : accepted[i] # m
        BY <1>2 DEF PlaceInv, Range
    <2>2. \A i \in DOMAIN accepted' : \/ i \in DOMAIN accepted /\ accepted'[i] = accepted[i]
                                      \/ i = Len(accepted) + 1 /\ accepted'[i] = m
        BY <1>2, Appended DEF TypeInv, TypeOK
    <2> QED BY <2>1, <2>2 DEF AcceptedOnce
<1>3. ASSUME NEW m \in Messages, WaitForActive(m) \/ Enqueue(m) PROVE AcceptedOnce'
    BY <1>1, <1>2, <1>3 DEF WaitForActive, Enqueue
<1>4. CASE \/ WriterStops \/ TakeBuffers \/ TakeSends \/ TakeUpdates \/ SendSucceeds \/ SendFails
           \/ Drain \/ WriterAborted \/ Connects
    <2>1. UNCHANGED accepted
        BY <1>4 DEF WriterStops, TakeBuffers, TakeSends, TakeUpdates, Take, SendSucceeds, SendFails, Drain,
                    WriterAborted, Connects, callVars
    <2> QED BY <1>1, <2>1
<1> QED BY <1>1, <1>3, <1>4, PlaceSteps DEF callVars

\* Nothing is out of order with an empty place, or with a late message.
LEMMA EmptyInLine == TypeInv => \A m \in Held : <<m, NoMessage>> \in Line /\ <<NoMessage, m>> \in Line
<1> SUFFICES ASSUME TypeInv, NEW m \in Held PROVE <<m, NoMessage>> \in Line /\ <<NoMessage, m>> \in Line
    OBVIOUS
<1>1. \A i \in DOMAIN accepted : accepted[i] # NoMessage
    BY ClientAssumption, ElementOfSeq, LenProperties DEF TypeInv, TypeOK
<1>2. ~Earlier(m, NoMessage) /\ ~Earlier(NoMessage, m)
    BY <1>1 DEF Earlier
<1> QED BY <1>2 DEF Line, Held

LEMMA LateInLine == \A m, n \in Held : m # n /\ n \in late => <<m, n>> \in Line
BY DEF Line, Earlier

LEMMA LineOrder ==
    /\ \A m, n \in Messages : <<m, n>> \in Line => m # n /\ ~Earlier(n, m)
    /\ \A m, n : <<m, n>> \in Line => m \in Held /\ n \in Held
BY ClientAssumption DEF Line, Held

\* A message that enters the queue may stand behind all others.
LEMMA EnqueueLine ==
    ASSUME TypeInv, PlaceInv, NEW m \in Messages, Enqueue(m), writer # "done"
    PROVE  /\ \A p \in Line : p[1] # m => p \in Line'
           /\ \A n \in Held : n # m => <<n, m>> \in Line'
<1>1. accepted \in Seq(Messages) /\ accepted' = Append(accepted, m) /\ late \subseteq late'
    BY DEF TypeInv, TypeOK, Enqueue
<1>2. \A i \in DOMAIN accepted : accepted[i] # m
    BY DEF Enqueue, PlaceInv, Range
<1>3. /\ \A i \in DOMAIN accepted' : (i \in DOMAIN accepted /\ accepted'[i] = accepted[i])
                                     \/ (i = Len(accepted) + 1 /\ accepted'[i] = m)
      /\ \A i \in DOMAIN accepted : i < Len(accepted) + 1 /\ i \in Nat
      /\ Len(accepted) \in Nat
    BY <1>1, Appended
<1>4. ASSUME NEW n, NEW x, Earlier(n, x)', x # m PROVE Earlier(n, x)
    BY <1>1, <1>3, <1>4 DEF Earlier
<1>5. ASSUME NEW n, Earlier(m, n)' PROVE FALSE
    BY <1>2, <1>3, <1>5 DEF Earlier
<1>6. ASSUME NEW p \in Line, p[1] # m PROVE p \in Line'
    <2>1. ~Earlier(p[2], p[1])'
        BY <1>4, <1>6 DEF Line
    <2> QED BY <2>1 DEF Line, Held
<1>7. ASSUME NEW n \in Held, n # m PROVE <<n, m>> \in Line'
    <2>1. ~Earlier(m, n)'
        BY <1>5
    <2> QED BY <1>7, <2>1 DEF Line, Held
<1> QED BY <1>6, <1>7

\* A line stays one when an element that fits joins it or the first one leaves.
LEMMA JoinLine ==
    ASSUME NEW S, NEW s \in Seq(S), NEW e \in S, NEW t, t = Append(s, e), NEW R,
           \A i, j \in DOMAIN s : i < j => <<s[i], s[j]>> \in R, \A i \in DOMAIN s : <<s[i], e>> \in R
    PROVE  \A i, j \in DOMAIN t : i < j => <<t[i], t[j]>> \in R
<1> SUFFICES ASSUME NEW i \in DOMAIN t, NEW j \in DOMAIN t, i < j PROVE <<t[i], t[j]>> \in R
    OBVIOUS
<1>1. /\ (i \in DOMAIN s /\ t[i] = s[i]) \/ i = Len(s) + 1
      /\ (j \in DOMAIN s /\ t[j] = s[j] /\ j < Len(s) + 1) \/ (j = Len(s) + 1 /\ t[j] = e)
      /\ j \in Nat /\ Len(s) \in Nat
    BY Appended
<1>2. i \in DOMAIN s /\ t[i] = s[i]
    BY <1>1
<1> QED BY <1>1, <1>2

LEMMA LeaveLine ==
    ASSUME NEW S, NEW s \in Seq(S), s # << >>, NEW t, t = Tail(s), NEW R,
           \A i, j \in DOMAIN s : i < j => <<s[i], s[j]>> \in R
    PROVE  /\ \A i, j \in DOMAIN t : i < j => <<t[i], t[j]>> \in R
           /\ \A i \in DOMAIN t : <<Head(s), t[i]>> \in R
<1>1. \A i \in DOMAIN t : i \in Nat /\ i + 1 \in DOMAIN s /\ 1 < i + 1 /\ t[i] = s[i + 1]
    BY Shifted
<1>2. 1 \in DOMAIN s /\ Head(s) = s[1]
    BY Shifted
<1>3. ASSUME NEW i \in DOMAIN t, NEW j \in DOMAIN t, i < j PROVE <<t[i], t[j]>> \in R
    <2>1. i + 1 < j + 1 /\ i + 1 \in DOMAIN s /\ j + 1 \in DOMAIN s
        BY <1>1, <1>3
    <2> QED BY <1>1, <2>1
<1>4. ASSUME NEW i \in DOMAIN t PROVE <<Head(s), t[i]>> \in R
    <2>1. 1 < i + 1 /\ i + 1 \in DOMAIN s
        BY <1>1
    <2> QED BY <1>1, <1>2, <2>1
<1> QED BY <1>3, <1>4

LEMMA TakeLine ==
    ASSUME TypeInv, Take, QueueInLine, Line' = Line
    PROVE  /\ QueueInLine'
           /\ \A i \in DOMAIN queue' : <<Head(queue).message, queue'[i].message>> \in Line
           /\ 1 \in DOMAIN queue /\ Head(queue) = queue[1]
           /\ \A i \in DOMAIN queue' : \E j \in DOMAIN queue : queue'[i] = queue[j]
<1>1. \A i \in DOMAIN queue' : i \in Nat /\ i + 1 \in DOMAIN queue /\ 1 < i + 1 /\ queue'[i] = queue[i + 1]
    BY Taken
<1>2. 1 \in DOMAIN queue /\ Head(queue) = queue[1]
    BY Taken
<1>3. ASSUME NEW i \in DOMAIN queue', NEW j \in DOMAIN queue', i < j
      PROVE  <<queue'[i].message, queue'[j].message>> \in Line
    <2>1. i + 1 < j + 1 /\ i + 1 \in DOMAIN queue /\ j + 1 \in DOMAIN queue
        BY <1>1, <1>3
    <2> QED BY <1>1, <2>1 DEF QueueInLine
<1>4. ASSUME NEW i \in DOMAIN queue' PROVE <<Head(queue).message, queue'[i].message>> \in Line
    <2>1. 1 < i + 1 /\ i + 1 \in DOMAIN queue
        BY <1>1
    <2> QED BY <1>1, <1>2, <2>1 DEF QueueInLine
<1> QED BY <1>1, <1>2, <1>3, <1>4 DEF QueueInLine

\* Every step keeps LineInv.
LEMMA LineStep == TypeInv /\ HandInv /\ PlaceInv /\ LineInv /\ [Next]_vars => LineInv'
<1> SUFFICES ASSUME TypeInv, HandInv, PlaceInv, LineInv, [Next]_vars PROVE LineInv'
    OBVIOUS
<1>t. /\ queue \in Seq(Commands) /\ reconnect_buffer \in Seq(Messages) /\ written \in Seq(Messages)
      /\ hand \in Held
    BY DEF TypeInv, TypeOK, Held
<1>e. /\ \A i \in DOMAIN queue : i \in Nat /\ queue[i].message \in Held
      /\ \A i \in DOMAIN reconnect_buffer : i \in Nat /\ reconnect_buffer[i] \in Messages
      /\ \A i \in DOMAIN written : i \in Nat /\ written[i] \in Messages
    <2>1. \A i \in DOMAIN queue : i \in Nat /\ queue[i] \in Commands
        BY <1>t, ElementOfSeq, LenProperties
    <2>2. \A i \in DOMAIN reconnect_buffer : i \in Nat /\ reconnect_buffer[i] \in Messages
        BY <1>t, ElementOfSeq, LenProperties
    <2>3. \A i \in DOMAIN written : i \in Nat /\ written[i] \in Messages
        BY <1>t, ElementOfSeq, LenProperties
    <2> QED BY <2>1, <2>2, <2>3 DEF Commands, Held
<1>h. Messages \subseteq Held /\ NoMessage \in Held
    BY DEF Held
<1>s. UNCHANGED callVars => Line' = Line
    BY DEF callVars, Line, Earlier
<1>1. ASSUME NEW m \in Messages, WaitForActive(m) PROVE LineInv'
    <2>1. Line' = Line
        BY <1>1 DEF WaitForActive, Line, Earlier
    <2>2. UNCHANGED <<queue, reconnect_buffer, hand, written>>
        BY <1>1 DEF WaitForActive, writerVars
    <2> QED BY <2>1, <2>2 DEF LineInv, WrittenInLine, WrittenFirst, BufferInLine, BufferNext, QueueLast, QueueInLine
<1>2. ASSUME NEW m \in Messages, Enqueue(m) PROVE LineInv'
    <2>1. UNCHANGED <<reconnect_buffer, hand, written>>
        BY <1>2 DEF Enqueue
    <2>2. CASE writer = "done"
        <3>1. Line' = Line /\ UNCHANGED queue
            BY <1>2, <2>2 DEF Enqueue, Line, Earlier
        <3> QED BY <2>1, <3>1 DEF LineInv, WrittenInLine, WrittenFirst, BufferInLine, BufferNext, QueueLast, QueueInLine
    <2>3. CASE writer # "done"
        <3>1. queue' = Append(queue, Send(m)) /\ Send(m) \in Commands /\ Send(m).message = m
            BY <1>2, <2>3 DEF Enqueue, Send, Commands
        <3>2. /\ \A i \in DOMAIN queue' : \/ i \in DOMAIN queue /\ queue'[i] = queue[i]
                                          \/ i = Len(queue) + 1 /\ queue'[i].message = m
              /\ \A i \in DOMAIN queue : i < Len(queue) + 1
              /\ Len(queue) \in Nat
            BY <3>1, Queued
        <3>3. /\ hand # m
              /\ \A i \in DOMAIN queue : queue[i].message # m
              /\ \A i \in DOMAIN reconnect_buffer : reconnect_buffer[i] # m
              /\ \A i \in DOMAIN written : written[i] # m
            BY <1>2 DEF Enqueue, PlaceInv, Somewhere, Pending, Range
        <3>4. /\ \A x, y : <<x, y>> \in Line /\ x # m => <<x, y>> \in Line'
              /\ \A x \in Held : x # m => <<x, m>> \in Line'
            BY <1>2, <2>3, EnqueueLine
        <3> QED BY <1>t, <1>e, <1>h, <2>1, <3>2, <3>3, <3>4 DEF LineInv, WrittenInLine, WrittenFirst, BufferInLine, BufferNext, QueueLast, QueueInLine
    <2> QED BY <2>2, <2>3
<1>3. CASE WriterStops \/ WriterAborted
    <2>1. /\ Line' = Line /\ UNCHANGED <<queue, written>> /\ DOMAIN reconnect_buffer' = {}
          /\ (hand' = hand \/ hand' = NoMessage)
        BY <1>3, <1>s DEF WriterStops, WriterAborted
    <2> QED BY <1>e, <1>h, <2>1, EmptyInLine DEF LineInv, WrittenInLine, WrittenFirst, BufferInLine, BufferNext, QueueLast, QueueInLine
<1>4. CASE TakeBuffers
    <2>1. /\ Take /\ hand = NoMessage /\ UNCHANGED <<hand, written>> /\ Line' = Line
        BY <1>4, <1>s DEF TakeBuffers, Take, HandInv
    <2>2. PICK m \in Messages : m = Head(queue).message
        BY <1>4, <2>1, TakeFacts DEF TakeBuffers
    <2>3. reconnect_buffer' = Append(reconnect_buffer, m)
        BY <1>4, <2>2 DEF TakeBuffers
    <2>4. \A i \in DOMAIN reconnect_buffer' :
             (i \in DOMAIN reconnect_buffer /\ reconnect_buffer'[i] = reconnect_buffer[i])
             \/ reconnect_buffer'[i] = m
        BY <1>t, <2>3, Appended
    <2>5. /\ QueueInLine' /\ 1 \in DOMAIN queue /\ m = queue[1].message
          /\ \A i \in DOMAIN queue' : <<m, queue'[i].message>> \in Line
          /\ \A i \in DOMAIN queue' : \E j \in DOMAIN queue : queue'[i] = queue[j]
        BY <2>1, <2>2, TakeLine DEF LineInv
    <2>6. \A x \in Held : <<x, NoMessage>> \in Line
        BY EmptyInLine
    <2>7. WrittenInLine' /\ WrittenFirst' /\ QueueLast'
        BY <2>1, <2>4, <2>5 DEF LineInv, WrittenInLine, WrittenFirst, QueueLast
    <2>8. BufferInLine'
        <3>1. \A i \in DOMAIN reconnect_buffer : <<reconnect_buffer[i], m>> \in Line
            BY <2>5 DEF LineInv, BufferNext
        <3> QED BY <1>t, <2>1, <2>3, <3>1, JoinLine DEF LineInv, BufferInLine
    <2>9. BufferNext'
        BY <1>h, <2>1, <2>4, <2>5, <2>6 DEF LineInv, BufferNext
    <2> QED BY <2>5, <2>7, <2>8, <2>9 DEF LineInv
<1>5. CASE TakeSends
    <2>1. /\ Take /\ hand' = Head(queue).message
          /\ UNCHANGED <<reconnect_buffer, written>> /\ Line' = Line
        BY <1>5, <1>s DEF TakeSends, Take
    <2>2. QueueInLine' /\ QueueLast'
        BY <2>1, TakeLine DEF LineInv, QueueLast
    <2>3. WrittenFirst' /\ BufferNext'
        BY <2>1, TakeLine DEF LineInv, WrittenFirst, BufferNext
    <2> QED BY <2>1, <2>2, <2>3 DEF LineInv, WrittenInLine, BufferInLine
<1>6. CASE TakeUpdates
    <2>1. Take /\ UNCHANGED <<reconnect_buffer, written, hand>> /\ Line' = Line
        BY <1>6, <1>s DEF TakeUpdates, Take
    <2> QED BY <2>1, TakeLine DEF LineInv, WrittenInLine, WrittenFirst, BufferInLine, BufferNext, QueueLast
<1>7. CASE SendSucceeds
    <2>1. /\ writer = "send" /\ hand \in Messages /\ hand' = NoMessage
          /\ written' = Append(written, hand)
          /\ UNCHANGED <<queue, reconnect_buffer>> /\ Line' = Line
        BY <1>7, <1>s DEF SendSucceeds, TypeInv
    <2>2. \A i \in DOMAIN written' : (i \in DOMAIN written /\ written'[i] = written[i]) \/ written'[i] = hand
        BY <1>t, <2>1, Appended
    <2>3. ASSUME NEW i \in DOMAIN reconnect_buffer PROVE <<hand, reconnect_buffer[i]>> \in Line
        <3>1. reconnect_buffer[i] \in Messages /\ <<reconnect_buffer[i], hand>> \in Line
            BY <1>e DEF LineInv, BufferNext
        <3>2. reconnect_buffer[i] # hand
            BY <2>1, <3>1, LineOrder
        <3>3. reconnect_buffer[i] \in late
            BY <2>1 DEF HandInv
        <3> QED BY <1>h, <2>1, <3>1, <3>2, <3>3, LateInLine
    <2>4. \A x \in Held : <<x, NoMessage>> \in Line /\ <<NoMessage, x>> \in Line
        BY EmptyInLine
    <2>5. WrittenInLine'
        BY <1>t, <2>1, JoinLine DEF LineInv, WrittenInLine, WrittenFirst
    <2>6. WrittenFirst'
        BY <1>h, <1>e, <2>1, <2>2, <2>3, <2>4 DEF LineInv, WrittenFirst, QueueLast
    <2>7. BufferNext' /\ QueueLast'
        BY <1>h, <1>e, <2>1, <2>4 DEF LineInv, BufferNext, QueueLast
    <2> QED BY <2>1, <2>5, <2>6, <2>7 DEF LineInv, BufferInLine, QueueInLine
<1>8. CASE SendFails
    <2>1. /\ hand \in Messages /\ hand' = NoMessage
          /\ reconnect_buffer' = Append(reconnect_buffer, hand)
          /\ UNCHANGED <<queue, written>> /\ Line' = Line
        BY <1>8, <1>s DEF SendFails, TypeInv
    <2>2. \A i \in DOMAIN reconnect_buffer' :
             (i \in DOMAIN reconnect_buffer /\ reconnect_buffer'[i] = reconnect_buffer[i])
             \/ reconnect_buffer'[i] = hand
        BY <1>t, <2>1, Appended
    <2>3. \A x \in Held : <<x, NoMessage>> \in Line /\ <<NoMessage, x>> \in Line
        BY EmptyInLine
    <2>4. WrittenFirst'
        BY <1>h, <1>e, <2>1, <2>2, <2>3 DEF LineInv, WrittenFirst
    <2>5. BufferInLine'
        BY <1>t, <2>1, JoinLine DEF LineInv, BufferInLine, BufferNext
    <2>6. BufferNext'
        BY <1>h, <1>e, <2>1, <2>2, <2>3 DEF LineInv, BufferNext, QueueLast
    <2>7. QueueLast'
        BY <1>h, <1>e, <2>1, <2>3 DEF QueueLast
    <2> QED BY <2>1, <2>4, <2>5, <2>6, <2>7 DEF LineInv, WrittenInLine, QueueInLine
<1>9. CASE Drain
    <2>1. /\ hand = NoMessage /\ reconnect_buffer # << >> /\ reconnect_buffer' = Tail(reconnect_buffer)
          /\ written' = Append(written, Head(reconnect_buffer))
          /\ UNCHANGED <<queue, hand>> /\ Line' = Line
        BY <1>9, <1>s DEF Drain, HandInv
    <2>2. PICK m \in Messages : m = Head(reconnect_buffer) /\ m = reconnect_buffer[1]
        BY <1>t, <2>1, Shifted
    <2>3. /\ 1 \in DOMAIN reconnect_buffer
          /\ \A i \in DOMAIN reconnect_buffer' :
                \E j \in DOMAIN reconnect_buffer : reconnect_buffer'[i] = reconnect_buffer[j]
        <3>1. /\ 1 \in DOMAIN reconnect_buffer
              /\ \A i \in DOMAIN reconnect_buffer' :
                    i + 1 \in DOMAIN reconnect_buffer /\ reconnect_buffer'[i] = reconnect_buffer[i + 1]
            BY <1>t, <2>1, Shifted
        <3> QED BY <3>1
    <2>4. written' = Append(written, m)
        BY <2>1, <2>2
    <2>5. \A i \in DOMAIN written' : (i \in DOMAIN written /\ written'[i] = written[i]) \/ written'[i] = m
        BY <1>t, <2>4, Appended
    <2>6. BufferInLine' /\ \A i \in DOMAIN reconnect_buffer' : <<m, reconnect_buffer'[i]>> \in Line
        BY <1>t, <2>1, <2>2, LeaveLine DEF LineInv, BufferInLine
    <2>7. WrittenInLine'
        <3>1. \A i \in DOMAIN written : <<written[i], m>> \in Line
            BY <2>2, <2>3 DEF LineInv, WrittenFirst
        <3> QED BY <1>t, <2>1, <2>4, <3>1, JoinLine DEF LineInv, WrittenInLine
    <2>8. /\ \A x \in Held : <<x, NoMessage>> \in Line
          /\ \A j \in DOMAIN queue : <<m, queue[j].message>> \in Line
        BY <2>2, <2>3, EmptyInLine DEF LineInv, BufferNext
    <2>9. WrittenFirst'
        BY <1>h, <1>e, <2>1, <2>3, <2>5, <2>6, <2>8 DEF LineInv, WrittenFirst
    <2>10. BufferNext'
        BY <2>1, <2>3 DEF LineInv, BufferNext
    <2> QED BY <2>1, <2>6, <2>7, <2>9, <2>10 DEF LineInv, QueueLast, QueueInLine
<1>10. CASE Connects
    <2>1. Line' = Line /\ UNCHANGED <<reconnect_buffer, hand, written>>
        BY <1>10, <1>s DEF Connects
    <2>2. CASE UNCHANGED queue
        BY <2>1, <2>2 DEF LineInv, WrittenInLine, WrittenFirst, BufferInLine, BufferNext, QueueLast, QueueInLine
    <2>3. CASE queue' = Append(queue, Update(conn + 1))
        <3>1. Update(conn + 1) \in Commands /\ Update(conn + 1).message = NoMessage
            BY DEF Update, Commands, TypeInv, TypeOK
        <3>2. /\ \A i \in DOMAIN queue' : \/ i \in DOMAIN queue /\ queue'[i] = queue[i]
                                          \/ i = Len(queue) + 1 /\ queue'[i].message = NoMessage
              /\ \A i \in DOMAIN queue : i < Len(queue) + 1
              /\ Len(queue) \in Nat
            BY <2>3, <3>1, Queued
        <3>3. \A x \in Held : <<x, NoMessage>> \in Line
            BY EmptyInLine
        <3>4. QueueInLine'
            BY <1>e, <2>1, <3>2, <3>3 DEF LineInv, QueueInLine
        <3>5. QueueLast' /\ BufferNext' /\ WrittenFirst'
            BY <1>t, <1>e, <1>h, <2>1, <3>2, <3>3 DEF LineInv, QueueLast, BufferNext, WrittenFirst
        <3> QED BY <2>1, <3>4, <3>5 DEF LineInv, WrittenInLine, BufferInLine
    <2> QED BY <1>10, <2>2, <2>3 DEF Connects
<1>11. CASE UNCHANGED <<callVars, queue, reconnect_buffer, hand, written>>
    BY <1>11, <1>s DEF LineInv, WrittenInLine, WrittenFirst, BufferInLine, BufferNext, QueueLast, QueueInLine
<1> QED BY <1>1, <1>2, <1>3, <1>4, <1>5, <1>6, <1>7, <1>8, <1>9, <1>10, <1>11, PlaceSteps

-----------------------------------------------------------------------------
(* Theorems *)

ClientInv == TypeInv /\ Ended /\ ControlInv /\ UpdateInv /\ LateInv /\ OrderInv

\* ClientInv holds in every reachable state.
LEMMA ClientInvariant == Spec => []ClientInv
<1>1. Init => ClientInv
    <2> SUFFICES ASSUME Init PROVE ClientInv
        OBVIOUS
    <2>1. DOMAIN queue = {} /\ DOMAIN reconnect_buffer = {}
        BY DEF Init
    <2>2. ControlInv
        BY DEF Init, ControlInv, Quiet, ReadsIt, Told, Reconnecting
    <2>8. Ended
        BY DEF Init, Ended
    <2>3. UpdateInv
        BY <2>1 DEF Init, UpdateInv, UpdatesAhead, UpdatesInOrder, Settled
    <2>4. LateInv
        BY <2>1 DEF Init, LateInv, BehindIsLate, HeldIsLate, NotSending, Handed
    <2>5. DOMAIN written = {} /\ DOMAIN accepted = {}
        BY DEF Init
    <2>6. HandInv /\ PlaceInv /\ AcceptedOnce
        BY <2>1, <2>5, ClientAssumption DEF Init, HandInv, PlaceInv, AcceptedOnce, Somewhere, Pending, Range
    <2>7. LineInv
        BY <2>1, <2>5 DEF LineInv, WrittenInLine, WrittenFirst, BufferInLine, BufferNext, QueueLast, QueueInLine
    <2> QED BY <2>2, <2>3, <2>4, <2>6, <2>7, <2>8, TypeInit DEF ClientInv, OrderInv
<1>2. ClientInv /\ [Next]_vars => ClientInv'
    BY TypeStep, EndedStep, ControlStep, UpdateStep, BehindStep, HeldStep, HandStep, PlaceStep, AcceptedStep,
       LineStep
    DEF ClientInv, ControlInv, LateInv, OrderInv
<1> QED BY <1>1, <1>2, PTL DEF Spec

\* An active client reads from the connection it writes to and its handler knows of
\* it, after any number of attempts given up with their update still in the queue
\* (reconnect(), the writer's handling of Update).
THEOREM ActiveIsAlwaysWhole == Spec => []ActiveIsWhole
<1>1. ClientInv => ActiveIsWhole
    BY DEF ClientInv, ControlInv, ReadsIt, Told, UpdateInv, Settled, ActiveIsWhole
<1> QED BY <1>1, ClientInvariant, PTL

\* When the client is active again, all it had buffered is sent, but for messages
\* queued while it was not active (drain_reconnect_buffer(), the confirmation).
THEOREM BufferIsReplayed == Spec => []Replayed
<1>1. ClientInv => Replayed
    BY DEF ClientInv, LateInv, HeldIsLate, Replayed
<1> QED BY <1>1, ClientInvariant, PTL

\* Only the controller makes connections and makes the client active.
LEMMA OnlyTheController ==
    ASSUME [Next]_vars, ~ControllerStep
    PROVE  (connection_mode' = "Active" => connection_mode = "Active") /\ conn' = conn
<1> USE DEF vars, controlVars
<1>1. ASSUME NEW m \in Messages, WaitForActive(m) \/ Enqueue(m)
      PROVE  UNCHANGED <<connection_mode, conn>>
    BY <1>1 DEF WaitForActive, Enqueue
<1>2. ASSUME NEW k \in up, ConnectionLost(k) PROVE UNCHANGED <<connection_mode, conn>>
    BY <1>2 DEF ConnectionLost
<1>3. CASE \/ WriterStops \/ TakeBuffers \/ TakeSends \/ TakeUpdates \/ SendSucceeds \/ SendFails
           \/ Drain \/ DrainEnds \/ WriterAborted \/ ReaderEnds \/ NotifyClosed
    BY <1>3 DEF WriterStops, TakeBuffers, TakeSends, TakeUpdates, Take, SendSucceeds, SendFails, Drain,
                DrainEnds, WriterAborted, ReaderEnds, NotifyClosed
<1>4. CASE Disconnect \/ DisconnectReturns \/ DisconnectAborts \/ ControllerEnds
    BY <1>4 DEF Disconnect, DisconnectReturns, DisconnectAborts, ControllerEnds
<1>5. CASE UNCHANGED vars
    BY <1>5
<1> QED BY <1>1, <1>2, <1>3, <1>4, <1>5 DEF Next

\* After disconnect() has returned no step activates the client or connects it, but for
\* the one that an aborted controller may have begun (JoinHandle::abort()).
THEOREM DisconnectStaysFinal == Spec => DisconnectIsFinal
<1>1. ClientInv /\ [Next]_vars =>
          [disconnecting = "done" /\ abort # "asked" =>
              (connection_mode' = "Active" => connection_mode = "Active") /\ conn' = conn]_vars
    <2> SUFFICES ASSUME ClientInv, [Next]_vars, disconnecting = "done", abort # "asked"
                 PROVE  (connection_mode' = "Active" => connection_mode = "Active") /\ conn' = conn
        OBVIOUS
    <2>1. controller = "done" \/ abort = "due"
        BY DEF ClientInv, Ended, TypeInv, TypeOK
    <2>2. ~ControllerStep
        BY <2>1 DEF ControllerStep, Wakes, SeesDisconnect, SeesClosed, GivesUp, Tries, StreamCloses,
                    ConnectAborts, Connects, Confirmed, AttemptFails, Interrupted, Settles, Resumes,
                    BacksOff, Closes, Reconnecting
    <2> QED BY <2>2, OnlyTheController
<1> QED BY <1>1, ClientInvariant, PTL DEF Spec, DisconnectIsFinal

\* A message stands in at most one place.
LEMMA OnePlace ==
    ASSUME TypeInv, LineInv, NEW m \in Messages, NEW p \in Places(m), NEW q \in Places(m)
    PROVE  p = q
<1>t. /\ \A i \in DOMAIN queue : i \in Nat
      /\ \A i \in DOMAIN reconnect_buffer : i \in Nat
      /\ \A i \in DOMAIN written : i \in Nat
    BY LenProperties DEF TypeInv, TypeOK
<1>l. <<m, m>> \notin Line
    BY LineOrder
<1>1. \A i, j \in DOMAIN queue : queue[i].message = m /\ queue[j].message = m => i = j
    BY <1>t, <1>l DEF LineInv, QueueInLine
<1>2. \A i, j \in DOMAIN reconnect_buffer : reconnect_buffer[i] = m /\ reconnect_buffer[j] = m => i = j
    BY <1>t, <1>l DEF LineInv, BufferInLine
<1>3. \A i, j \in DOMAIN written : written[i] = m /\ written[j] = m => i = j
    BY <1>t, <1>l DEF LineInv, WrittenInLine
<1>4. ASSUME hand = m
      PROVE  /\ \A i \in DOMAIN queue : queue[i].message # m
             /\ \A i \in DOMAIN reconnect_buffer : reconnect_buffer[i] # m
             /\ \A i \in DOMAIN written : written[i] # m
    BY <1>l, <1>4 DEF LineInv, QueueLast, BufferNext, WrittenFirst
<1>5. /\ \A i \in DOMAIN written, j \in DOMAIN reconnect_buffer : written[i] # m \/ reconnect_buffer[j] # m
      /\ \A i \in DOMAIN written, j \in DOMAIN queue : written[i] # m \/ queue[j].message # m
      /\ \A i \in DOMAIN reconnect_buffer, j \in DOMAIN queue :
            reconnect_buffer[i] # m \/ queue[j].message # m
    BY <1>l DEF LineInv, BufferNext, WrittenFirst
<1> QED BY <1>1, <1>2, <1>3, <1>4, <1>5 DEF Places

\* A message has a place when it is somewhere.
LEMMA PlacesOf == \A m \in Messages : Places(m) # {} <=> m \in Somewhere
<1> SUFFICES ASSUME NEW m \in Messages PROVE Places(m) # {} <=> m \in Somewhere
    OBVIOUS
<1>1. ASSUME m \in Somewhere PROVE Places(m) # {}
    <2>1. CASE hand = m
        <3>1. <<"hand", 1>> \in Places(m) BY <2>1 DEF Places
        <3> QED BY <3>1
    <2>2. ASSUME NEW i \in DOMAIN queue, queue[i].message = m PROVE Places(m) # {}
        <3>1. <<"queue", i>> \in Places(m) BY <2>2 DEF Places
        <3> QED BY <3>1
    <2>3. ASSUME NEW i \in DOMAIN reconnect_buffer, reconnect_buffer[i] = m PROVE Places(m) # {}
        <3>1. <<"buffer", i>> \in Places(m) BY <2>3 DEF Places
        <3> QED BY <3>1
    <2>4. ASSUME NEW i \in DOMAIN written, written[i] = m PROVE Places(m) # {}
        <3>1. <<"written", i>> \in Places(m) BY <2>4 DEF Places
        <3> QED BY <3>1
    <2> QED BY <1>1, <2>1, <2>2, <2>3, <2>4 DEF Somewhere, Pending, Range
<1>2. ASSUME NEW p \in Places(m) PROVE m \in Somewhere
    BY DEF Places, Somewhere, Pending, Range
<1> QED BY <1>1, <1>2

\* A message that was accepted is queued, in the writer's hand, buffered or written,
\* and in one of these places once, until the writer ends: none is lost or sent twice
\* (send_text(), the writer's loop, a failed send, drain_reconnect_buffer()).
THEOREM EachIsSentOnce == Spec => []SentOnce
<1>1. ClientInv => SentOnce
    <2> SUFFICES ASSUME ClientInv, NEW m \in Messages
                 PROVE  /\ call[m] = "sent" => \/ \E p \in Places(m) : Places(m) = {p}
                                               \/ writer = "done" /\ Places(m) = {}
                        /\ call[m] # "sent" => Places(m) = {}
        BY DEF SentOnce
    <2>1. Places(m) # {} <=> m \in Somewhere
        BY PlacesOf
    <2>2. /\ Places(m) # {} => call[m] = "sent"
          /\ call[m] = "sent" /\ writer # "done" => Places(m) # {}
        BY <2>1 DEF ClientInv, OrderInv, PlaceInv
    <2>3. \A p, q \in Places(m) : p = q
        BY OnePlace DEF ClientInv, OrderInv
    <2> QED BY <2>2, <2>3
<1> QED BY <1>1, ClientInvariant, PTL

\* What was accepted while the client was active is written in that order, across
\* reconnections: when a message is written, all accepted before it have been
\* (the order of the queue, the reconnect buffer and its drain).
THEOREM WrittenInOrder == Spec => []InOrder
<1>1. ClientInv => InOrder
    <2> SUFFICES ASSUME ClientInv, writer # "done", NEW j \in DOMAIN written, NEW m \in Messages,
                        Earlier(m, written[j])
                 PROVE  \E h \in DOMAIN written : h < j /\ written[h] = m
        BY DEF InOrder
    <2>1. TypeInv /\ LineInv /\ PlaceInv
        BY DEF ClientInv, OrderInv
    <2>2. m \in Somewhere
        BY <2>1 DEF Earlier, PlaceInv, Range
    <2>3. <<written[j], m>> \notin Line
        BY DEF Line
    <2>4. m \in Range(written)
        BY <2>1, <2>2, <2>3 DEF Somewhere, Pending, Range, LineInv, WrittenFirst
    <2>5. PICK h \in DOMAIN written : written[h] = m
        BY <2>4 DEF Range
    <2>6. ~(j < h)
        BY <2>1, <2>3, <2>5 DEF LineInv, WrittenInLine
    <2>7. j \in Nat /\ h \in Nat /\ \A i \in DOMAIN accepted : i \in Nat
        BY <2>1, LenProperties DEF TypeInv, TypeOK
    <2>8. j # h
        BY <2>5, <2>7 DEF Earlier, ClientInv, OrderInv, AcceptedOnce
    <2> QED BY <2>5, <2>6, <2>7, <2>8
<1> QED BY <1>1, ClientInvariant, PTL

=============================================================================
