-------------------------- MODULE Throttler_proofs --------------------------
(***************************************************************************)
(* Proofs about Throttler for every limit, interval, head start and bound. *)
(*                                                                         *)
(* The argument: the time stamps are the end of the history of sends       *)
(* (Window), and a throttler that buffers has exactly one alert on its way *)
(* while it has something to send, set to the time at which the oldest     *)
(* stamp leaves the window (Waiting).  The first message an alert sends is *)
(* sent without a look at the clock; Waiting is why that is sound.         *)
(***************************************************************************)
EXTENDS Throttler, SequenceTheorems, TLAPS

\* The time stamps are the last Limit sends, none of them in the future.
Window ==
    /\ Len(timestamps) = IF Len(sentAt) < Limit THEN Len(sentAt) ELSE Limit
    /\ \A k \in 1..Len(timestamps) : timestamps[k] = sentAt[Len(sentAt) + 1 - k]
    /\ \A i \in 1..Len(sentAt) : sentAt[i] <= now

\* The alert of a throttler with a full window is pending, or has fired and is
\* waiting in the channel; never both.
Due ==
    /\ Len(timestamps) = Limit
    /\ \/ fired = 0 /\ alert = timestamps[Limit] + Interval
       \/ fired = 1 /\ alert = NoAlert /\ now + HeadStart >= timestamps[Limit] + Interval

Waiting ==
    /\ drops => buffer = << >>
    /\ ~ drops => /\ is_limiting <=> buffer # << >>
                  /\ buffer = << >> => alert = NoAlert /\ fired = 0
                  /\ buffer # << >> => Due

IInv == TypeOK /\ Window /\ Waiting /\ RateLimited /\ InOrder

Slack == IF drops THEN 0 ELSE HeadStart

-----------------------------------------------------------------------------

\* What delta_next() returns.
LEMMA DeltaType ==
  ASSUME TypeOK, NEW ts \in Seq(Nat), Len(ts) >= Limit => ts[Limit] <= now
  PROVE  /\ Delta(ts) \in Nat
         /\ Delta(ts) = 0 <=> (Len(ts) >= Limit => now - ts[Limit] >= Interval)
         /\ Delta(ts) > 0 => Len(ts) >= Limit /\ now + Delta(ts) = ts[Limit] + Interval
<1>1. Len(ts) \in Nat /\ now \in Nat /\ Limit \in Nat \ {0} /\ Interval \in Nat \ {0}
  BY ThrottlerAssumption DEF TypeOK
<1>2. Len(ts) >= Limit => ts[Limit] \in Nat
  BY <1>1, ElementOfSeq
<1>. QED  BY <1>1, <1>2 DEF Delta

\* n sends at this instant push n stamps in front.
LEMMA StampedType ==
  ASSUME TypeOK, NEW n \in Nat
  PROVE  /\ Stamped(n) \in Seq(Nat)
         /\ Len(Stamped(n)) = IF Len(timestamps) + n < Limit THEN Len(timestamps) + n ELSE Limit
         /\ \A k \in 1..Len(Stamped(n)) :
               Stamped(n)[k] = IF k <= n THEN now ELSE timestamps[k - n]
<1> DEFINE L == IF Len(timestamps) + n < Limit THEN Len(timestamps) + n ELSE Limit
           e(k) == IF k <= n THEN now ELSE timestamps[k - n]
<1>1. Len(timestamps) \in Nat /\ L \in Nat /\ L <= Len(timestamps) + n
  BY ThrottlerAssumption DEF TypeOK
<1>2. \A k \in 1..L : e(k) \in Nat
  <2>1. TAKE k \in 1..L
  <2>2. k > n => k - n \in 1..Len(timestamps)
    BY <1>1
  <2>. QED  BY <2>2, ElementOfSeq DEF TypeOK
<1>3. Stamped(n) = [k \in 1..L |-> e(k)]
  BY DEF Stamped
<1> HIDE DEF e
<1>4. [k \in 1..L |-> e(k)] \in Seq(Nat)
  BY <1>1, <1>2, IsASeq
<1>5. Len([k \in 1..L |-> e(k)]) = L
  BY <1>1, <1>4, LenProperties
<1> USE DEF e
<1>. QED  BY <1>3, <1>4, <1>5

LEMMA ConcatAssoc ==
  ASSUME NEW s \in Seq(Nat), NEW t \in Seq(Nat), NEW u \in Seq(Nat)
  PROVE  (s \o t) \o u = s \o (t \o u)
<1> DEFINE l == (s \o t) \o u
           r == s \o (t \o u)
<1>1. /\ s \o t \in Seq(Nat) /\ t \o u \in Seq(Nat)
      /\ Len(s \o t) = Len(s) + Len(t) /\ Len(t \o u) = Len(t) + Len(u)
      /\ \A i \in 1..(Len(s) + Len(t)) : (s \o t)[i] = IF i <= Len(s) THEN s[i] ELSE t[i - Len(s)]
      /\ \A i \in 1..(Len(t) + Len(u)) : (t \o u)[i] = IF i <= Len(t) THEN t[i] ELSE u[i - Len(t)]
  BY ConcatProperties
<1>2. /\ l \in Seq(Nat) /\ r \in Seq(Nat)
      /\ Len(l) = Len(s) + Len(t) + Len(u) /\ Len(r) = Len(l)
      /\ Len(s) \in Nat /\ Len(t) \in Nat /\ Len(u) \in Nat
  BY <1>1, ConcatProperties
<1>3. ASSUME NEW i \in 1..Len(l) PROVE l[i] = r[i]
  <2>1. /\ l[i] = IF i <= Len(s \o t) THEN (s \o t)[i] ELSE u[i - Len(s \o t)]
        /\ r[i] = IF i <= Len(s) THEN s[i] ELSE (t \o u)[i - Len(s)]
    BY <1>1, <1>2, ConcatProperties
  <2>. QED  BY <1>1, <1>2, <2>1
<1>. QED  BY <1>2, <1>3, SeqEqual

\* The loop of the handler stops within Limit messages, and what it sent after
\* the first was sent with an open window.
LEMMA DrainedBound ==
  ASSUME TypeOK, Window, NEW n \in 1..Len(buffer), Drained(n)
  PROVE  /\ n <= Limit
         /\ \A k \in 1..(n - 1) : Len(timestamps) + k >= Limit =>
               now - timestamps[Limit - k] >= Interval
<1>. Len(buffer) \in Nat /\ Len(timestamps) \in Nat /\ Limit \in Nat \ {0} /\ Interval \in Nat \ {0}
     /\ now \in Nat /\ n \in Nat
  BY ThrottlerAssumption DEF TypeOK
<1>1. \A k \in 1..(n - 1) : Delta(Stamped(k)) = 0
  BY DEF Drained
<1>2. Len(timestamps) <= Limit
  BY DEF Window
<1>3. ASSUME NEW k \in 1..(n - 1), Len(timestamps) + k >= Limit
      PROVE  k < Limit /\ now - timestamps[Limit - k] >= Interval
  <2>0. k \in Nat
    BY <1>3
  <2>a. /\ Stamped(k) \in Seq(Nat)
        /\ Len(Stamped(k)) = IF Len(timestamps) + k < Limit THEN Len(timestamps) + k ELSE Limit
        /\ \A j \in 1..Len(Stamped(k)) :
              Stamped(k)[j] = IF j <= k THEN now ELSE timestamps[j - k]
    BY <2>0, StampedType
  <2>1. Len(Stamped(k)) = Limit /\ Stamped(k) \in Seq(Nat)
    BY <1>3, <2>0, <2>a
  <2>2. Stamped(k)[Limit] = IF Limit <= k THEN now ELSE timestamps[Limit - k]
    <3>1. Limit \in 1..Len(Stamped(k))
      BY <2>1
    <3>. QED  BY <2>a, <3>1
  <2>3. Delta(Stamped(k)) = 0
    BY <1>1, <1>3
  <2>4. ~ (Len(Stamped(k)) >= Limit /\ now - Stamped(k)[Limit] < Interval)
    <3>1. Stamped(k)[Limit] \in Nat
      BY <2>1, ElementOfSeq
    <3>. QED  BY <2>1, <2>3, <3>1 DEF Delta
  <2>. QED  BY <2>0, <2>1, <2>2, <2>4
<1>4. n <= Limit
  <2>1. SUFFICES ASSUME n > Limit PROVE FALSE
    OBVIOUS
  <2>2. Limit \in 1..(n - 1) /\ Len(timestamps) + Limit >= Limit
    BY <2>1
  <2>. QED  BY <1>3, <2>2
<1>. QED  BY <1>3, <1>4

\* n sends at one instant keep the window and the rate, if the first of them
\* had (up to Slack) an open window and so had the others.
LEMMA SendsKeepRate ==
  ASSUME TypeOK, Window, RateLimited, NEW n \in Nat, 1 <= n, n <= Limit,
         timestamps' = Stamped(n), sentAt' = sentAt \o [k \in 1..n |-> now],
         now' = now, drops' = drops,
         Len(timestamps) = Limit => now - timestamps[Limit] >= Interval - Slack,
         \A k \in 1..(n - 1) : Len(timestamps) + k >= Limit =>
               now - timestamps[Limit - k] >= Interval
  PROVE  Window' /\ RateLimited'
<1> DEFINE burst == [k \in 1..n |-> now]
<1>0. /\ Len(timestamps) \in Nat /\ Len(sentAt) \in Nat /\ now \in Nat
      /\ Limit \in Nat \ {0} /\ Interval \in Nat \ {0} /\ HeadStart \in Nat
      /\ sentAt \in Seq(Nat) /\ timestamps \in Seq(Nat) /\ drops \in BOOLEAN
  BY ThrottlerAssumption DEF TypeOK
<1>1. burst \in Seq(Nat) /\ Len(burst) = n /\ \A k \in 1..n : burst[k] = now
  <2>1. burst \in Seq(Nat)
    BY <1>0, IsASeq
  <2>. QED  BY <2>1, LenProperties
<1>2. /\ Len(sentAt') = Len(sentAt) + n
      /\ sentAt' \in Seq(Nat)
      /\ \A i \in 1..(Len(sentAt) + n) : sentAt'[i] = IF i <= Len(sentAt) THEN sentAt[i] ELSE now
  <2> HIDE DEF burst
  <2>1. sentAt' = sentAt \o burst
    BY DEF burst
  <2>2. /\ sentAt \o burst \in Seq(Nat)
        /\ Len(sentAt \o burst) = Len(sentAt) + Len(burst)
        /\ \A i \in 1..(Len(sentAt) + Len(burst)) : (sentAt \o burst)[i] =
              IF i <= Len(sentAt) THEN sentAt[i] ELSE burst[i - Len(sentAt)]
    BY <1>0, <1>1, ConcatProperties
  <2>3. \A i \in 1..(Len(sentAt) + n) : i > Len(sentAt) => i - Len(sentAt) \in 1..n
    BY <1>0
  <2>. QED  BY <1>0, <1>1, <2>1, <2>2, <2>3
<1>3. /\ Len(timestamps') = IF Len(timestamps) + n < Limit THEN Len(timestamps) + n ELSE Limit
      /\ \A k \in 1..Len(timestamps') : timestamps'[k] = IF k <= n THEN now ELSE timestamps[k - n]
  BY StampedType
<1>4. /\ Len(timestamps) = IF Len(sentAt) < Limit THEN Len(sentAt) ELSE Limit
      /\ \A k \in 1..Len(timestamps) : timestamps[k] = sentAt[Len(sentAt) + 1 - k]
      /\ \A i \in 1..Len(sentAt) : sentAt[i] <= now
  BY DEF Window
<1>5. Window'
  <2>1. Len(timestamps') = IF Len(sentAt') < Limit THEN Len(sentAt') ELSE Limit
    BY <1>0, <1>2, <1>3, <1>4
  <2>2. ASSUME NEW k \in 1..Len(timestamps')
        PROVE  timestamps'[k] = sentAt'[Len(sentAt') + 1 - k]
    <3>0. k \in Nat /\ Len(timestamps') <= Len(sentAt') /\ Len(timestamps') \in Nat
      BY <1>0, <1>2, <2>1
    <3>1. CASE k <= n
      BY <1>0, <1>2, <1>3, <3>0, <3>1
    <3>2. CASE k > n
      <4>1. k - n \in 1..Len(timestamps)
        BY <1>0, <1>3, <3>0, <3>2
      <4>2. timestamps'[k] = timestamps[k - n]
        BY <1>0, <1>3, <3>0, <3>2
      <4>3. timestamps[k - n] = sentAt[Len(sentAt) + 1 - (k - n)]
        BY <1>4, <4>1
      <4>4. Len(sentAt') + 1 - k \in 1..Len(sentAt)
        BY <1>0, <1>2, <2>1, <3>0, <3>2
      <4>. QED  BY <1>0, <1>2, <4>2, <4>3, <4>4
    <3>. QED  BY <1>0, <3>0, <3>1, <3>2
  <2>3. \A i \in 1..Len(sentAt') : sentAt'[i] <= now'
    BY <1>0, <1>2, <1>4
  <2>. QED  BY <2>1, <2>2, <2>3 DEF Window
<1>6. RateLimited'
  <2>1. SUFFICES ASSUME NEW i \in 1..(Len(sentAt') - Limit)
                 PROVE  sentAt'[i + Limit] - sentAt'[i] >= Interval - Slack
    BY DEF RateLimited, Slack
  <2>2. i \in Nat /\ 1 <= i /\ i <= Len(sentAt) /\ i + Limit \in 1..(Len(sentAt) + n)
    BY <1>0, <1>2
  <2>3. CASE i + Limit <= Len(sentAt)
    <3>1. i \in 1..(Len(sentAt) - Limit)
      BY <1>0, <2>2, <2>3
    <3>2. sentAt[i + Limit] - sentAt[i] >= Interval - Slack
      BY <3>1 DEF RateLimited, Slack
    <3>3. sentAt'[i + Limit] = sentAt[i + Limit] /\ sentAt'[i] = sentAt[i]
      BY <1>0, <1>2, <2>2, <2>3
    <3>. QED  BY <3>2, <3>3
  <2>4. CASE i + Limit > Len(sentAt)
    <3> DEFINE k == i + Limit - Len(sentAt) - 1
    <3>1. sentAt'[i + Limit] = now /\ sentAt'[i] = sentAt[i]
      BY <1>0, <1>2, <2>2, <2>4
    <3>2. k \in 0..(n - 1) /\ k < Limit
      BY <1>0, <2>2, <2>4
    <3>a. Limit - k = Len(sentAt) + 1 - i /\ Limit - k >= 1 /\ k \in Nat
      BY <1>0, <2>2, <3>2
    <3>b. ASSUME Len(sentAt) < Limit
          PROVE  Limit - k \in 1..Len(timestamps) /\ Len(timestamps) + k >= Limit
      <4>1. Len(timestamps) = Len(sentAt)
        BY <1>4, <3>b
      <4>2. Limit - k <= Len(sentAt) /\ Len(sentAt) + k >= Limit
        BY <1>0, <2>2, <3>2, <3>a
      <4>. QED  BY <1>0, <3>a, <4>1, <4>2
    <3>c. ASSUME ~ (Len(sentAt) < Limit)
          PROVE  Limit - k \in 1..Len(timestamps) /\ Len(timestamps) + k >= Limit
      <4>1. Len(timestamps) = Limit
        BY <1>4, <3>c
      <4>. QED  BY <1>0, <3>a, <4>1
    <3>3. Limit - k \in 1..Len(timestamps) /\ Len(timestamps) + k >= Limit
      BY <3>b, <3>c
    <3>4. timestamps[Limit - k] = sentAt[i]
      BY <1>0, <1>4, <2>2, <3>2, <3>3
    <3>5. Slack \in Nat
      BY <1>0 DEF Slack
    <3>6. sentAt[i] \in Nat
      BY <1>0, <2>2, ElementOfSeq
    <3>7. now - timestamps[Limit - k] >= Interval - Slack
      <4>1. CASE k = 0
        <5>1. Limit - k = Limit /\ Len(timestamps) = Limit
          <6>1. Len(timestamps) <= Limit
            BY <1>0, <1>4
          <6> HIDE DEF k
          <6>2. Limit - k = Limit
            BY <1>0, <4>1
          <6>. QED  BY <1>0, <3>3, <6>1, <6>2
        <5>. QED  BY <5>1
      <4>2. CASE k # 0
        <5>1. k \in 1..(n - 1)
          BY <3>2, <4>2
        <5>2. now - timestamps[Limit - k] >= Interval
          BY <3>3, <5>1
        <5>. QED  BY <1>0, <3>4, <3>5, <3>6, <5>2
      <4>. QED  BY <4>1, <4>2
    <3>. QED  BY <1>0, <3>1, <3>4, <3>6, <3>7
  <2>. QED  BY <1>0, <2>2, <2>3, <2>4
<1>. QED  BY <1>5, <1>6

-----------------------------------------------------------------------------
(* Each action keeps the invariant. *)

LEMMA SendInv ==
  ASSUME IInv, Send
  PROVE  IInv'
<1> USE ThrottlerAssumption
<1>0. /\ TypeOK /\ Window /\ Waiting /\ RateLimited /\ InOrder
      /\ now \in Nat /\ recv_count \in Nat /\ Len(buffer) \in Nat
      /\ buffer \in Seq(Nat) /\ sent \in Seq(Nat) /\ sentAt \in Seq(Nat) /\ timestamps \in Seq(Nat)
      /\ Len(timestamps) \in Nat /\ Len(sentAt) \in Nat
  BY DEF IInv, TypeOK
<1>1. Len(timestamps) >= Limit => timestamps[Limit] \in Nat /\ timestamps[Limit] <= now
  <2>1. ASSUME Len(timestamps) >= Limit
        PROVE  Limit \in 1..Len(timestamps) /\ Len(sentAt) + 1 - Limit \in 1..Len(sentAt)
    BY <1>0, <2>1 DEF Window
  <2>. QED  BY <1>0, <2>1, ElementOfSeq DEF Window
<1>2. /\ Delta(timestamps) \in Nat
      /\ Delta(timestamps) = 0 <=> (Len(timestamps) >= Limit => now - timestamps[Limit] >= Interval)
      /\ Delta(timestamps) > 0 => Len(timestamps) >= Limit /\ now + Delta(timestamps) = timestamps[Limit] + Interval
  BY <1>0, <1>1, DeltaType
<1>3. /\ drops' = drops /\ registered' = registered /\ now' = now /\ fired' = fired
      /\ recv_count' = recv_count + 1
  BY DEF Send, kind
<1>4. CASE StillLimiting \/ Delta(timestamps) > 0
  <2>1. LimitMsg(recv_count + 1, StillLimiting) /\ is_limiting' = TRUE
    BY <1>4 DEF Send
  <2>2. timestamps' = timestamps /\ sent' = sent /\ sentAt' = sentAt
    BY <2>1 DEF LimitMsg
  <2>3. Window' /\ RateLimited'
    BY <1>0, <1>3, <2>2 DEF Window, RateLimited
  <2>4. CASE drops
    <3>1. buffer' = buffer /\ dropped' = dropped \cup {recv_count + 1}
      BY <2>1, <2>4 DEF LimitMsg
    <3>2. alert' = alert \/ alert' = now + Delta(timestamps)
      BY <2>1 DEF LimitMsg, SetTimer
    <3>3. TypeOK'
      BY <1>0, <1>2, <1>3, <2>1, <2>2, <3>1, <3>2 DEF TypeOK
    <3>. QED  BY <1>0, <1>3, <2>3, <2>4, <3>1, <3>3 DEF IInv, Waiting, InOrder
  <2>5. CASE ~ drops
    <3>1. buffer' = Append(buffer, recv_count + 1) /\ dropped' = dropped
      BY <2>1, <2>5 DEF LimitMsg
    <3>2. /\ buffer' \in Seq(Nat) /\ Len(buffer') = Len(buffer) + 1
          /\ buffer' # << >> /\ buffer' = buffer \o <<recv_count + 1>>
      BY <1>0, <3>1, AppendProperties, AppendIsConcat
    <3>3. StillLimiting <=> buffer # << >>
      <4>1. is_limiting <=> buffer # << >>
        BY <1>0, <2>5 DEF Waiting
      <4>. QED  BY <4>1 DEF StillLimiting
    <3>4. Due'
      <4>1. CASE buffer # << >>
        <5>1. Due /\ alert' = alert
          BY <1>0, <2>1, <2>5, <3>3, <4>1 DEF Waiting, LimitMsg
        <5>. QED  BY <1>3, <2>2, <5>1 DEF Due
      <4>2. CASE buffer = << >>
        <5>1. Delta(timestamps) > 0 /\ alert' = now + Delta(timestamps) /\ fired = 0
          BY <1>0, <1>4, <2>1, <2>5, <3>3, <4>2 DEF Waiting, LimitMsg, SetTimer
        <5>2. Len(timestamps) = Limit
          BY <1>0, <1>2, <5>1 DEF Window
        <5>. QED  BY <1>2, <1>3, <2>2, <5>1, <5>2 DEF Due
      <4>. QED  BY <4>1, <4>2
    <3>5. TypeOK'
      <4>1. alert' = alert \/ alert' = now + Delta(timestamps)
        BY <2>1 DEF LimitMsg, SetTimer
      <4>. QED  BY <1>0, <1>2, <1>3, <2>1, <2>2, <3>1, <3>2, <4>1 DEF TypeOK
    <3>6. InOrder'
      <4>1. sent' \o buffer' = Append(sent \o buffer, recv_count + 1)
        BY <1>0, <2>2, <3>1
      <4>2. sent \o buffer = [i \in 1..recv_count |-> i]
        BY <1>0, <2>5 DEF InOrder
      <4>3. Append([i \in 1..recv_count |-> i], recv_count + 1) = [i \in 1..(recv_count + 1) |-> i]
        BY <1>0
      <4>. QED  BY <1>3, <4>1, <4>2, <4>3 DEF InOrder
    <3>. QED  BY <1>3, <2>1, <2>3, <2>5, <3>2, <3>4, <3>5, <3>6 DEF IInv, Waiting
  <2>. QED  BY <2>4, <2>5
<1>5. CASE ~ (StillLimiting \/ Delta(timestamps) > 0)
  <2>1. SendMsg(recv_count + 1) /\ is_limiting' = FALSE
    BY <1>5 DEF Send
  <2>2. /\ timestamps' = Stamped(1) /\ sent' = Append(sent, recv_count + 1)
        /\ sentAt' = Append(sentAt, now) /\ buffer' = buffer /\ alert' = alert /\ dropped' = dropped
    BY <2>1 DEF SendMsg
  <2>3. sentAt' = sentAt \o [k \in 1..1 |-> now]
    BY <1>0, <2>2
  <2>4. Len(timestamps) = Limit => now - timestamps[Limit] >= Interval - Slack
    <3>1. Delta(timestamps) = 0 /\ Slack \in Nat
      BY <1>2, <1>5 DEF Slack
    <3>. QED  BY <1>0, <1>1, <1>2, <3>1
  <2>5. Window' /\ RateLimited'
    <3>1. \A k \in 1..(1 - 1) : Len(timestamps) + k >= Limit =>
               now - timestamps[Limit - k] >= Interval
      OBVIOUS
    <3>2. 1 \in Nat /\ 1 <= 1 /\ 1 <= Limit
      OBVIOUS
    <3>. QED  BY <1>0, <1>3, <2>2, <2>3, <2>4, <3>1, <3>2, SendsKeepRate
  <2>6. TypeOK'
    <3>1. timestamps' \in Seq(Nat)
      BY <1>0, <2>2, StampedType
    <3>2. sent' \in Seq(Nat) /\ sentAt' \in Seq(Nat)
      BY <1>0, <2>2, AppendProperties
    <3>3. is_limiting' \in BOOLEAN
      BY <2>1
    <3>4. recv_count' \in Nat
      BY <1>0, <1>3
    <3>. QED  BY <1>0, <1>3, <2>2, <3>1, <3>2, <3>3, <3>4 DEF TypeOK
  <2>7. buffer = << >>
    BY <1>0, <1>2, <1>5 DEF Waiting, StillLimiting
  <2>8. Waiting'
    BY <1>0, <1>3, <2>1, <2>2, <2>7 DEF Waiting
  <2>9. InOrder'
    <3>1. SUFFICES ASSUME ~ drops PROVE sent' \o buffer' = [i \in 1..(recv_count + 1) |-> i]
      BY <1>3 DEF InOrder
    <3>2. sent = [i \in 1..recv_count |-> i]
      BY <1>0, <2>7, <3>1, ConcatEmptySeq DEF InOrder
    <3>3. sent' \o buffer' = sent'
      BY <2>2, <2>6, <2>7, ConcatEmptySeq DEF TypeOK
    <3>. QED  BY <1>0, <2>2, <3>2, <3>3
  <2>. QED  BY <2>5, <2>6, <2>8, <2>9 DEF IInv
<1>. QED  BY <1>4, <1>5

LEMMA ProcessInv ==
  ASSUME IInv, Process
  PROVE  IInv'
<1> USE ThrottlerAssumption
<1>0. /\ TypeOK /\ Window /\ Waiting /\ RateLimited /\ InOrder
      /\ now \in Nat /\ recv_count \in Nat /\ Len(buffer) \in Nat
      /\ buffer \in Seq(Nat) /\ sent \in Seq(Nat) /\ sentAt \in Seq(Nat) /\ timestamps \in Seq(Nat)
      /\ Len(timestamps) \in Nat /\ Len(sentAt) \in Nat
  BY DEF IInv, TypeOK
<1>1. /\ ~ drops /\ buffer # << >> /\ fired > 0 /\ fired' = fired - 1
      /\ drops' = drops /\ registered' = registered /\ now' = now
      /\ recv_count' = recv_count /\ dropped' = dropped
  BY DEF Process, kind
<1>2. PICK n \in 1..Len(buffer) :
          /\ Drained(n)
          /\ timestamps' = Stamped(n)
          /\ sent' = sent \o SubSeq(buffer, 1, n)
          /\ sentAt' = sentAt \o [k \in 1..n |-> now]
          /\ buffer' = SubSeq(buffer, n + 1, Len(buffer))
          /\ is_limiting' = (n < Len(buffer))
          /\ IF n < Len(buffer) THEN SetTimer(Stamped(n)) ELSE UNCHANGED alert
  BY DEF Process
<1>3. /\ Len(timestamps) = Limit /\ fired = 1 /\ alert = NoAlert
      /\ now + HeadStart >= timestamps[Limit] + Interval
  BY <1>0, <1>1 DEF Waiting, Due
<1>4. timestamps[Limit] \in Nat
  BY <1>0, <1>3, ElementOfSeq
<1>5. /\ n \in Nat /\ 1 <= n /\ n <= Limit /\ n <= Len(buffer)
      /\ \A k \in 1..(n - 1) : Len(timestamps) + k >= Limit => now - timestamps[Limit - k] >= Interval
  BY <1>0, <1>2, DrainedBound
<1>6. Window' /\ RateLimited'
  <2>1. Len(timestamps) = Limit => now - timestamps[Limit] >= Interval - Slack
    BY <1>0, <1>1, <1>3, <1>4 DEF Slack
  <2>. QED  BY <1>0, <1>1, <1>2, <1>5, <2>1, SendsKeepRate
<1>7. /\ Stamped(n) \in Seq(Nat) /\ Len(Stamped(n)) = Limit
      /\ Stamped(n)[Limit] \in Nat /\ Stamped(n)[Limit] <= now
  <2>1. Stamped(n) \in Seq(Nat) /\ Len(Stamped(n)) = Limit
    BY <1>0, <1>3, <1>5, StampedType
  <2>2. Limit \in 1..Len(Stamped(n))
    BY <2>1
  <2>3. Len(timestamps') = Limit /\ Len(sentAt') \in Nat
    <3>1. Len([k \in 1..n |-> now]) = n /\ [k \in 1..n |-> now] \in Seq(Nat)
      BY <1>0, <1>5
    <3>. QED  BY <1>0, <1>2, <1>5, <2>1, <3>1, ConcatProperties
  <2>4. Len(sentAt') + 1 - Limit \in 1..Len(sentAt')
    BY <1>6, <2>3 DEF Window
  <2>5. timestamps'[Limit] = sentAt'[Len(sentAt') + 1 - Limit] /\ sentAt'[Len(sentAt') + 1 - Limit] <= now'
    BY <1>2, <1>6, <2>2, <2>4 DEF Window
  <2>. QED  BY <1>1, <1>2, <2>1, <2>2, <2>5, ElementOfSeq
<1>8. /\ Delta(Stamped(n)) \in Nat
      /\ Delta(Stamped(n)) > 0 => now + Delta(Stamped(n)) = Stamped(n)[Limit] + Interval
  BY <1>0, <1>7, DeltaType
<1>9. /\ buffer' \in Seq(Nat) /\ Len(buffer') = Len(buffer) - n
      /\ SubSeq(buffer, 1, n) \in Seq(Nat)
      /\ SubSeq(buffer, 1, n) \o buffer' = buffer
  <2>1. \A i \in 1..Len(buffer) : buffer[i] \in Nat
    BY <1>0, ElementOfSeq
  <2>2. buffer' \in Seq(Nat) /\ Len(buffer') = Len(buffer) - n
    BY <1>0, <1>2, <1>5, <2>1
  <2>3. SubSeq(buffer, 1, n) \in Seq(Nat)
    BY <1>0, <1>5, <2>1
  <2>4. SubSeq(buffer, 1, n) \o SubSeq(buffer, n + 1, Len(buffer)) = SubSeq(buffer, 1, Len(buffer))
    BY <1>0, <1>5, ConcatAdjacentSubSeq
  <2>5. SubSeq(buffer, 1, Len(buffer)) = buffer
    BY <1>0, SubSeqFull
  <2>. QED  BY <1>2, <2>2, <2>3, <2>4, <2>5
<1>10. TypeOK'
  <2>1. sent' \in Seq(Nat)
    BY <1>0, <1>2, <1>9, ConcatProperties
  <2>2. sentAt' \in Seq(Nat)
    <3>1. [k \in 1..n |-> now] \in Seq(Nat)
      BY <1>0, <1>5
    <3>. QED  BY <1>0, <1>2, <3>1, ConcatProperties
  <2>3. alert' \in Nat \cup {NoAlert}
    <3>1. alert' = now + Delta(Stamped(n)) \/ alert' = alert
      BY <1>2 DEF SetTimer
    <3>. QED  BY <1>0, <1>3, <1>8, <3>1
  <2>4. is_limiting' \in BOOLEAN
    BY <1>2
  <2>5. fired' \in Nat /\ timestamps' \in Seq(Nat)
    BY <1>1, <1>2, <1>3, <1>7
  <2>. QED  BY <1>0, <1>1, <1>9, <2>1, <2>2, <2>3, <2>4, <2>5 DEF TypeOK
<1>11. InOrder'
  <2>1. sent' \o buffer' = sent \o buffer
    <3>2. (sent \o SubSeq(buffer, 1, n)) \o buffer' = sent \o (SubSeq(buffer, 1, n) \o buffer')
      BY <1>0, <1>9, ConcatAssoc, ZenonT(20)
    <3>. QED  BY <1>2, <1>9, <3>2, ZenonT(20)
  <2>. QED  BY <1>0, <1>1, <2>1 DEF InOrder
<1>12. Waiting'
  <2>1. is_limiting' <=> buffer' # << >>
    <3>1. n < Len(buffer) <=> Len(buffer') # 0
      BY <1>0, <1>5, <1>9
    <3>2. Len(buffer') # 0 <=> buffer' # << >>
      BY <1>9, EmptySeq
    <3>. QED  BY <1>2, <3>1, <3>2
  <2>2. CASE n = Len(buffer)
    <3>1. buffer' = << >> /\ alert' = NoAlert /\ fired' = 0
      BY <1>0, <1>1, <1>2, <1>3, <1>9, <2>2, EmptySeq
    <3>. QED  BY <1>1, <2>1, <3>1 DEF Waiting
  <2>3. CASE n # Len(buffer)
    <3>1. Delta(Stamped(n)) > 0
      BY <1>2, <1>8, <2>3 DEF Drained
    <3>2. alert' = Stamped(n)[Limit] + Interval /\ fired' = 0
      <4>1. n < Len(buffer)
        BY <1>0, <1>5, <2>3
      <4>2. alert' = now + Delta(Stamped(n))
        BY <1>2, <4>1 DEF SetTimer
      <4>. QED  BY <1>1, <1>3, <1>8, <3>1, <4>2
    <3>3. buffer' # << >>
      <4>1. Len(buffer') # 0
        BY <1>0, <1>5, <1>9, <2>3
      <4>. QED  BY <4>1, EmptySeq
    <3>. QED  BY <1>1, <1>2, <1>7, <2>1, <3>2, <3>3 DEF Waiting, Due
  <2>. QED  BY <2>2, <2>3
<1>. QED  BY <1>6, <1>10, <1>11, <1>12 DEF IInv

LEMMA OtherInv ==
  ASSUME IInv, Fire \/ Resume \/ Reset \/ Tick \/ UNCHANGED vars
  PROVE  IInv'
<1> USE ThrottlerAssumption
<1>0. TypeOK /\ Window /\ Waiting /\ RateLimited /\ InOrder
  BY DEF IInv
<1>1. CASE Fire
  <2>1. TypeOK'
    BY <1>0, <1>1 DEF TypeOK, Fire, kind
  <2>2. Window' /\ RateLimited' /\ InOrder'
    BY <1>0, <1>1 DEF Window, RateLimited, InOrder, Fire, kind
  <2>3. Waiting'
    BY <1>0, <1>1 DEF Waiting, Due, Fire, kind, TypeOK, NoAlert
  <2>. QED  BY <2>1, <2>2, <2>3 DEF IInv
<1>2. CASE Resume
  <2>1. TypeOK'
    <3>1. fired' \in Nat
      BY <1>0, <1>2 DEF TypeOK, Resume
    <3>2. is_limiting' \in BOOLEAN
      BY <1>2 DEF Resume
    <3>. QED  BY <1>0, <1>2, <3>1, <3>2 DEF TypeOK, Resume, kind
  <2>2. Window' /\ RateLimited' /\ InOrder'
    BY <1>0, <1>2 DEF Window, RateLimited, InOrder, Resume, kind
  <2>3. Waiting'
    BY <1>0, <1>2 DEF Waiting, Resume, kind, TypeOK
  <2>. QED  BY <2>1, <2>2, <2>3 DEF IInv
<1>3. CASE Reset
  <2>1. TypeOK'
    <3>1. \A S : << >> \in Seq(S)
      BY EmptySeq
    <3>. QED  BY <1>0, <1>3, <3>1 DEF TypeOK, Reset, kind
  <2>2. Window' /\ RateLimited' /\ InOrder' /\ Waiting'
    BY <1>0, <1>3 DEF Window, RateLimited, InOrder, Waiting, Reset, kind
  <2>. QED  BY <2>1, <2>2 DEF IInv
<1>4. CASE Tick
  <2>1. TypeOK'
    BY <1>0, <1>4 DEF TypeOK, Tick, kind
  <2>2. RateLimited' /\ InOrder'
    BY <1>0, <1>4 DEF RateLimited, InOrder, Tick, kind
  <2>3. Window'
    <3>1. \A i \in 1..Len(sentAt) : sentAt[i] \in Nat
      BY <1>0, ElementOfSeq DEF TypeOK
    <3>2. timestamps' = timestamps /\ sentAt' = sentAt /\ now' = now + 1 /\ now \in Nat
      BY <1>0, <1>4 DEF Tick, TypeOK
    <3>3. \A i \in 1..Len(sentAt') : sentAt'[i] <= now'
      BY <1>0, <3>1, <3>2 DEF Window
    <3>. QED  BY <1>0, <3>2, <3>3 DEF Window
  <2>4. Waiting'
    <3>1. Len(timestamps) = Limit => timestamps[Limit] \in Nat
      BY <1>0, ElementOfSeq DEF TypeOK
    <3>2. Due => Due'
      BY <1>0, <1>4, <3>1 DEF Due, Tick, kind, TypeOK
    <3>. QED  BY <1>0, <1>4, <3>2 DEF Waiting, Tick, kind
  <2>. QED  BY <2>1, <2>2, <2>3, <2>4 DEF IInv
<1>5. CASE UNCHANGED vars
  BY <1>0, <1>5 DEF IInv, TypeOK, Window, Waiting, Due, RateLimited, InOrder, vars
<1>. QED  BY <1>1, <1>2, <1>3, <1>4, <1>5

LEMMA InitInv == Init => IInv
<1> USE ThrottlerAssumption
<1>1. SUFFICES ASSUME Init PROVE IInv
  OBVIOUS
<1>2. TypeOK
  <2>1. \A S : << >> \in Seq(S)
    BY EmptySeq
  <2>. QED  BY <1>1, <2>1 DEF Init, TypeOK
<1>3. Window /\ Waiting /\ RateLimited
  BY <1>1 DEF Init, Window, Waiting, RateLimited
<1>4. InOrder
  <2>1. << >> \o << >> = [i \in 1..0 |-> i]
    OBVIOUS
  <2>. QED  BY <1>1, <2>1 DEF Init, InOrder
<1>. QED  BY <1>2, <1>3, <1>4 DEF IInv

LEMMA Inductive == IInv /\ [Next]_vars => IInv'
BY SendInv, ProcessInv, OtherInv DEF Next

LEMMA Invariance == Spec => []IInv
BY InitInv, Inductive, PTL DEF Spec

-----------------------------------------------------------------------------

\* Every variable of the throttler and of its timer keeps its type.
THEOREM TypeCorrect == Spec => []TypeOK
BY Invariance, PTL DEF IInv

\* A throttler of any limit and interval never exceeds its rate by more than
\* the head start of the alerts, however late the runner handles them.
THEOREM RateIsLimited == Spec => []RateLimited
BY Invariance, PTL DEF IInv

\* A throttler that buffers loses and reorders nothing.
THEOREM OrderIsKept == Spec => []InOrder
BY Invariance, PTL DEF IInv

\* A throttler that drops, registered or not, drops only when it has to.
THEOREM DropsAreNeeded == Spec => NoNeedlessDrop
<1> DEFINE Needed == dropped' \ dropped # {} =>
          /\ Len(sentAt) >= Limit
          /\ now - sentAt[Len(sentAt) + 1 - Limit] < Interval
<1>1. ASSUME IInv, [Next]_vars
      PROVE  [Needed]_vars
  <2>1. CASE Send
    <3>1. SUFFICES ASSUME dropped' \ dropped # {} PROVE Needed
      OBVIOUS
    <3>2. drops /\ (StillLimiting \/ Delta(timestamps) > 0)
      BY <2>1, <3>1 DEF Send, LimitMsg, SendMsg
    <3>3. Delta(timestamps) > 0
      <4>1. buffer = << >> /\ TypeOK /\ Window
        BY <1>1, <3>2 DEF IInv, Waiting
      <4>2. Len(timestamps) >= Limit => timestamps[Limit] <= now
        <5>1. ASSUME Len(timestamps) >= Limit
              PROVE  Limit \in 1..Len(timestamps) /\ Len(sentAt) + 1 - Limit \in 1..Len(sentAt)
          BY <4>1, <5>1, ThrottlerAssumption DEF Window, TypeOK
        <5>. QED  BY <4>1, <5>1 DEF Window
      <4>3. Delta(timestamps) \in Nat
        BY <4>1, <4>2, DeltaType DEF TypeOK
      <4>. QED  BY <3>2, <4>1, <4>3 DEF StillLimiting
    <3>4. Len(timestamps) >= Limit /\ now - timestamps[Limit] < Interval
      BY <3>3 DEF Delta
    <3>5. Limit \in 1..Len(timestamps) /\ Len(sentAt) >= Limit
      BY <1>1, <3>4, ThrottlerAssumption DEF IInv, Window, TypeOK
    <3>6. timestamps[Limit] = sentAt[Len(sentAt) + 1 - Limit]
      BY <1>1, <3>5 DEF IInv, Window
    <3>. QED  BY <3>4, <3>5, <3>6
  <2>2. CASE Fire \/ Process \/ Resume \/ Tick \/ UNCHANGED vars
    <3>1. dropped' = dropped
      BY <2>2 DEF Fire, Process, Resume, Tick, vars
    <3>. QED  BY <3>1
  <2>3. CASE Reset
    BY <2>3 DEF Reset
  <2>. QED  BY <1>1, <2>1, <2>2, <2>3 DEF Next
<1>. QED  BY <1>1, Invariance, PTL DEF Spec, NoNeedlessDrop

=============================================================================
