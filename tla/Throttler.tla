------------------------------ MODULE Throttler ------------------------------
(***************************************************************************)
(* The message throttler of nautilus_trader (crates/common/src/            *)
(* throttler.rs) and the one-shot alert of the live clock it sets.         *)
(*                                                                         *)
(* A throttler passes at most Limit messages in any span of Interval.      *)
(* What is over the limit is buffered or dropped, by the kind of throttler.*)
(* The alert fires on a thread of its own and its event waits in the       *)
(* runner's channel, so any number of calls of send() may come between the *)
(* two.  A message is named by the value of recv_count that counted it.    *)
(***************************************************************************)
EXTENDS Integers, Sequences

CONSTANTS
    Limit,          \* messages per interval
    Interval,       \* the length of the window
    HeadStart,      \* a live alert may fire this much early (live/timer.rs)
    MaxRecv,        \* bound: messages received
    MaxArrival,     \* bound: the last time at which a message arrives
    MaxTime         \* bound: past it the clock runs only while an alert is set

ASSUME ThrottlerAssumption ==
    /\ Limit \in Nat \ {0} /\ Interval \in Nat \ {0}
    /\ HeadStart \in 0..Interval
    /\ MaxRecv \in Nat /\ MaxArrival \in Nat /\ MaxTime \in Nat

VARIABLES
    drops,          \* output_drop is Some: the throttler drops, else it buffers
    registered,     \* to_actor() has put it into the actor registry
    now,            \* the clock
    recv_count, is_limiting, buffer,
    timestamps,     \* the times of the last Limit sends, the newest first
    alert,          \* when the throttler's timer is due, or NoAlert
    fired,          \* events of the timer in the runner's channel
    sent, sentAt,   \* history since the last reset: messages passed on, and when
    dropped         \* history since the last reset: the messages dropped

vars == <<drops, registered, now, recv_count, is_limiting, buffer, timestamps,
          alert, fired, sent, sentAt, dropped>>
kind == <<drops, registered>>

NoAlert == -1

TypeOK ==
    /\ drops \in BOOLEAN /\ registered \in BOOLEAN
    /\ now \in Nat /\ recv_count \in Nat /\ is_limiting \in BOOLEAN
    /\ buffer \in Seq(Nat) /\ timestamps \in Seq(Nat)
    /\ alert \in Nat \cup {NoAlert} /\ fired \in Nat
    /\ sent \in Seq(Nat) /\ sentAt \in Seq(Nat) /\ dropped \in SUBSET Nat

\* The risk engine embeds its two throttlers and never registers them; a
\* throttler that buffers needs the registry to drain.
Init ==
    /\ drops \in BOOLEAN /\ registered \in BOOLEAN
    /\ drops \/ registered
    /\ now = 0 /\ recv_count = 0 /\ is_limiting = FALSE
    /\ buffer = << >> /\ timestamps = << >>
    /\ alert = NoAlert /\ fired = 0
    /\ sent = << >> /\ sentAt = << >> /\ dropped = {}

-----------------------------------------------------------------------------

\* A plausible slip: one more message than the limit is let through.
DeltaOffByOne(ts) ==
    IF Len(ts) > Limit /\ now - ts[Limit] < Interval THEN Interval - (now - ts[Limit]) ELSE 0

\* delta_next(): how long until the next message may pass.
Delta(ts) ==
    IF Len(ts) >= Limit /\ now - ts[Limit] < Interval THEN Interval - (now - ts[Limit]) ELSE 0

\* The time stamps after send_msg() has run n times at this instant.
Stamped(n) ==
    [k \in 1..(IF Len(timestamps) + n < Limit THEN Len(timestamps) + n ELSE Limit) |->
        IF k <= n THEN now ELSE timestamps[k - n]]

\* set_timer(): the alert that was set before is cancelled, an event of it that
\* is in the channel already is not.
SetTimer(ts) == alert' = now + Delta(ts)

\* send_msg()
SendMsg(m) ==
    /\ timestamps' = Stamped(1)
    /\ sent' = Append(sent, m) /\ sentAt' = Append(sentAt, now)
    /\ UNCHANGED <<buffer, alert, dropped>>

\* A plausible slip: the message is pushed to the end it is popped from.
LimitMsgLifo(m, limiting) ==
    /\ IF drops THEN dropped' = dropped \cup {m} /\ UNCHANGED buffer
                ELSE buffer' = <<m>> \o buffer /\ UNCHANGED dropped
    /\ IF limiting THEN UNCHANGED alert ELSE SetTimer(timestamps)
    /\ UNCHANGED <<timestamps, sent, sentAt>>

\* A plausible slip: the timer is set for dropped messages only.
LimitMsgNoTimer(m, limiting) ==
    /\ IF drops THEN dropped' = dropped \cup {m} /\ UNCHANGED buffer
                ELSE buffer' = Append(buffer, m) /\ UNCHANGED dropped
    /\ IF limiting \/ ~ drops THEN UNCHANGED alert ELSE SetTimer(timestamps)
    /\ UNCHANGED <<timestamps, sent, sentAt>>

\* limit_msg()
LimitMsg(m, limiting) ==
    /\ IF drops THEN dropped' = dropped \cup {m} /\ UNCHANGED buffer
                ELSE buffer' = Append(buffer, m) /\ UNCHANGED dropped
    /\ IF limiting THEN UNCHANGED alert ELSE SetTimer(timestamps)
    /\ UNCHANGED <<timestamps, sent, sentAt>>

\* A plausible slip: a throttler that waits for its timer never resets itself.
StillLimitingAlways == is_limiting

\* The auto-reset of send(): the window has passed and nothing is buffered.
StillLimiting == is_limiting /\ ~ (Delta(timestamps) = 0 /\ buffer = << >>)

\* send()
Send ==
    /\ recv_count < MaxRecv /\ now <= MaxArrival
    /\ recv_count' = recv_count + 1
    /\ IF StillLimiting \/ Delta(timestamps) > 0
       THEN LimitMsg(recv_count + 1, StillLimiting) /\ is_limiting' = TRUE
       ELSE SendMsg(recv_count + 1) /\ is_limiting' = FALSE
    /\ UNCHANGED <<kind, now, fired>>

\* The alert fires: an event goes into the channel.
Fire ==
    /\ alert # NoAlert /\ alert <= now + HeadStart
    /\ alert' = NoAlert /\ fired' = fired + 1
    /\ UNCHANGED <<kind, now, recv_count, is_limiting, buffer, timestamps, sent, sentAt, dropped>>

\* The loop of ThrottlerProcess::handle ends after n messages: the first is
\* sent without a look at the clock, each other only if the window allows it.
Drained(n) ==
    /\ n = Len(buffer) \/ Delta(Stamped(n)) > 0
    /\ \A k \in 1..(n - 1) : Delta(Stamped(k)) = 0

\* ThrottlerProcess::handle() with something to send.
Process ==
    /\ fired > 0 /\ ~ drops /\ buffer # << >>
    /\ fired' = fired - 1
    /\ \E n \in 1..Len(buffer) :
          /\ Drained(n)
          /\ timestamps' = Stamped(n)
          /\ sent' = sent \o SubSeq(buffer, 1, n)
          /\ sentAt' = sentAt \o [k \in 1..n |-> now]
          /\ buffer' = SubSeq(buffer, n + 1, Len(buffer))
          /\ is_limiting' = (n < Len(buffer))
          /\ IF n < Len(buffer) THEN SetTimer(Stamped(n)) ELSE UNCHANGED alert
    /\ UNCHANGED <<kind, now, recv_count, dropped>>

\* ThrottlerProcess::handle() with an empty buffer, and throttler_resume(),
\* which does nothing for a throttler that is not registered.
Resume ==
    /\ fired > 0 /\ (drops \/ buffer = << >>)
    /\ fired' = fired - 1
    /\ is_limiting' = (is_limiting /\ ~ registered)
    /\ UNCHANGED <<kind, now, recv_count, buffer, timestamps, alert, sent, sentAt, dropped>>

\* reset(): RiskEngine.reset() is its only caller, and its throttlers drop.
\* The alert and the events in the channel stay.
Reset ==
    /\ drops
    /\ recv_count' = 0 /\ is_limiting' = FALSE /\ buffer' = << >> /\ timestamps' = << >>
    /\ sent' = << >> /\ sentAt' = << >> /\ dropped' = {}
    /\ UNCHANGED <<kind, now, alert, fired>>

Tick ==
    /\ now < MaxTime \/ now < alert
    /\ now' = now + 1
    /\ UNCHANGED <<kind, recv_count, is_limiting, buffer, timestamps, alert, fired, sent, sentAt, dropped>>

Next == Send \/ Fire \/ Process \/ Resume \/ Reset \/ Tick

Spec == Init /\ [][Next]_vars

\* Time passes, an alert that is due fires and the runner empties its channel;
\* nobody has to send or to reset.
FairSpec ==
    /\ Spec
    /\ WF_vars(Tick) /\ WF_vars(Fire) /\ WF_vars(Process \/ Resume)

-----------------------------------------------------------------------------
(* Properties *)

\* "The maximum number of messages that can be sent within the interval"
\* (throttler.rs, limit): a message and the one Limit before it are an interval
\* apart, up to the head start of the alert that sent it, however late the
\* alert's event is handled and whatever is sent meanwhile.
RateLimited ==
    \A i \in 1..(Len(sentAt) - Limit) :
        sentAt[i + Limit] - sentAt[i] >= Interval - (IF drops THEN 0 ELSE HeadStart)

\* A throttler that buffers loses no message and passes them in the order of
\* their arrival: what was sent, then what waits, is what was received.
InOrder ==
    ~ drops => sent \o buffer = [i \in 1..recv_count |-> i]

\* A message is dropped only while the window really is full, whether or not
\* the resume event ever reaches the throttler: the risk engine's embedded
\* throttlers, whose event is lost, never deny an order without need.
NoNeedlessDrop ==
    [][dropped' \ dropped # {} =>
          /\ Len(sentAt) >= Limit
          /\ now - sentAt[Len(sentAt) + 1 - Limit] < Interval]_vars

\* Nothing waits for ever: a message in the buffer is sent.
BufferDrains ==
    \A m \in 1..MaxRecv :
        (\E i \in 1..Len(buffer) : buffer[i] = m) ~> (\E i \in 1..Len(sent) : sent[i] = m)

=============================================================================
