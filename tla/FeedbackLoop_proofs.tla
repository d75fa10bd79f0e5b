------------------------ MODULE FeedbackLoop_proofs -------------------------
(***************************************************************************)
(* Proofs about FeedbackLoop for every set of feedback ids, any number of  *)
(* scanners, reviewers and updaters, every bound, with and without         *)
(* crashes.                                                                *)
(***************************************************************************)
EXTENDS FeedbackLoop, TLAPS

(***************************************************************************)
(* The log grows at its end and never changes elsewhere.                   *)
(***************************************************************************)

Copies == [feedback_id: FeedbackIds, status: Verdicts]

LEMMA AppendKeeps ==
  ASSUME NEW l \in Seq(Feedback), NEW fb \in Feedback
  PROVE  /\ Append(l, fb) \in Seq(Feedback)
         /\ Len(l) \in Nat /\ DOMAIN l = 1..Len(l)
         /\ DOMAIN Append(l, fb) = 1..(Len(l) + 1)
         /\ \A i \in DOMAIN l : i \in DOMAIN Append(l, fb) /\ Append(l, fb)[i] = l[i]
         /\ Append(l, fb)[Len(l) + 1] = fb
         /\ \A i \in DOMAIN Append(l, fb) : i \in DOMAIN l \/ i = Len(l) + 1
OBVIOUS

LEMMA KnownGrows ==
  ASSUME NEW l \in Seq(Feedback), NEW fb \in Feedback, NEW f, Known(l, f)
  PROVE  Known(Append(l, fb), f)
BY AppendKeeps DEF Known

\* A copy is a record, and is not the idle mark.
LEMMA CopyIsFeedback ==
  ASSUME NEW m \in Copies \cup {NoMark}, m.status # "none"
  PROVE  m \in Copies /\ m \in Feedback
BY DEF Copies, Feedback, NoMark

LEMMA PendingIsFeedback ==
  ASSUME NEW f \in FeedbackIds
  PROVE  [feedback_id |-> f, status |-> "pending"] \in Feedback
BY DEF Feedback

LEMMA UnprocessedPositions ==
  ASSUME NEW l
  PROVE  Unprocessed(l) \subseteq DOMAIN l
BY DEF Unprocessed

(***************************************************************************)
(* Type correctness.                                                       *)
(***************************************************************************)

LEMMA TypeInit == Init => TypeOK
BY DEF Init, TypeOK

LEMMA TypeStep == TypeOK /\ [Next]_vars => TypeOK'
<1>. SUFFICES ASSUME TypeOK, [Next]_vars PROVE TypeOK'
  OBVIOUS
<1>1. ASSUME NEW w \in Scanners, NEW F \in SUBSET FeedbackIds, Scan(w, F) PROVE TypeOK'
  BY <1>1 DEF Scan, TypeOK
<1>2. ASSUME NEW w \in Scanners, NEW f \in FeedbackIds, AppendFeedback(w, f) PROVE TypeOK'
  <2>1. log' \in Seq(Feedback) /\ DOMAIN log \subseteq DOMAIN log'
    BY <1>2, AppendKeeps, PendingIsFeedback DEF AppendFeedback, TypeOK
  <2>. QED  BY <1>2, <2>1 DEF AppendFeedback, TypeOK
<1>3. ASSUME NEW w \in Scanners, CrashScanner(w) PROVE TypeOK'
  BY <1>3 DEF CrashScanner, TypeOK
<1>4. ASSUME NEW r \in Reviewers, NEW f \in FeedbackIds, NEW v \in Verdicts, Mark(r, f, v)
      PROVE  TypeOK'
  BY <1>4 DEF Mark, TypeOK
<1>5. ASSUME NEW r \in Reviewers, AppendVerdict(r) PROVE TypeOK'
  <2>1. mark[r] \in Feedback
    BY <1>5, CopyIsFeedback DEF AppendVerdict, TypeOK, Copies
  <2>2. log' \in Seq(Feedback) /\ DOMAIN log \subseteq DOMAIN log'
    BY <1>5, <2>1, AppendKeeps DEF AppendVerdict, TypeOK
  <2>. QED  BY <1>5, <2>2 DEF AppendVerdict, TypeOK
<1>6. ASSUME NEW r \in Reviewers, CrashReviewer(r) PROVE TypeOK'
  BY <1>6 DEF CrashReviewer, TypeOK
<1>7. ASSUME NEW u \in Updaters, Process(u) PROVE TypeOK'
  BY <1>7, UnprocessedPositions DEF Process, TypeOK
<1>8. ASSUME NEW u \in Updaters, Stage(u) PROVE TypeOK'
  <2>1. PICK i \in batch[u] :
          /\ staged' = [staged EXCEPT ![log[i].feedback_id] = @ + 1]
          /\ batch' = [batch EXCEPT ![u] = @ \ {i}]
    BY <1>8 DEF Stage
  <2>2. i \in DOMAIN log
    BY DEF TypeOK
  <2>3. log[i] \in Feedback
    BY <2>2 DEF TypeOK
  <2>4. log[i].feedback_id \in FeedbackIds
    BY <2>3 DEF Feedback
  <2>. QED  BY <1>8, <2>1, <2>4 DEF Stage, TypeOK
<1>9. ASSUME NEW u \in Updaters, CrashUpdater(u) PROVE TypeOK'
  BY <1>9 DEF CrashUpdater, TypeOK
<1>10. CASE UNCHANGED vars
  BY <1>10 DEF vars, TypeOK
<1>. QED
  BY <1>1, <1>2, <1>3, <1>4, <1>5, <1>6, <1>7, <1>8, <1>9, <1>10 DEF Next

\* Every record of the registry and everything the processes hold has its type.
THEOREM TypeCorrect == Spec => []TypeOK
BY TypeInit, TypeStep, PTL DEF Spec

(***************************************************************************)
(* No verdict without a feedback.  VerdictHasSource alone is not inductive:*)
(* between the look-up of a mark operation and its append the id must stay *)
(* known, and a known id must have a pending record.                       *)
(***************************************************************************)

MarksAreKnown ==
    \A r \in Reviewers : mark[r].status # "none" => Known(log, mark[r].feedback_id)

SourceInv == TypeOK /\ VerdictHasSource /\ MarksAreKnown

\* A record of a known id has a pending record of the id at or before it.
LEMMA KnownHasPending ==
  ASSUME TypeOK, VerdictHasSource, NEW f, Known(log, f)
  PROVE  \E j \in DOMAIN log : log[j].feedback_id = f /\ log[j].status = "pending"
<1>1. PICK i \in DOMAIN log : log[i].feedback_id = f
  BY DEF Known
<1>2. log[i] \in Feedback /\ DOMAIN log = 1..Len(log) /\ Len(log) \in Nat
  BY DEF TypeOK
<1>3. CASE log[i].status = "pending"
  BY <1>1, <1>3
<1>4. CASE log[i].status \in Verdicts
  <2>1. PICK j \in 1..(i-1) : log[j].feedback_id = log[i].feedback_id /\ log[j].status = "pending"
    BY <1>4 DEF VerdictHasSource
  <2>2. j \in DOMAIN log
    BY <1>2
  <2>. QED  BY <1>1, <2>1, <2>2
<1>. QED  BY <1>2, <1>3, <1>4 DEF Feedback

\* The old records keep their sources when one is appended.
LEMMA SourcesKept ==
  ASSUME TypeOK, VerdictHasSource, NEW fb \in Feedback,
         fb.status \in Verdicts =>
            \E j \in DOMAIN log : log[j].feedback_id = fb.feedback_id /\ log[j].status = "pending",
         log' = Append(log, fb)
  PROVE  VerdictHasSource'
<1>. DEFINE k == Append(log, fb)
<1>0. log \in Seq(Feedback)
  BY DEF TypeOK
<1>1. /\ Len(log) \in Nat /\ DOMAIN log = 1..Len(log)
      /\ \A i \in DOMAIN log : k[i] = log[i]
      /\ k[Len(log) + 1] = fb
      /\ \A i \in DOMAIN k : i \in DOMAIN log \/ i = Len(log) + 1
  BY <1>0, AppendKeeps
<1>. HIDE DEF k
<1>2. ASSUME NEW i \in DOMAIN k, k[i].status \in Verdicts
      PROVE  \E j \in 1..(i-1) : k[j].feedback_id = k[i].feedback_id /\ k[j].status = "pending"
  <2>1. CASE i \in DOMAIN log
    <3>1. PICK j \in 1..(i-1) : log[j].feedback_id = log[i].feedback_id /\ log[j].status = "pending"
      BY <1>1, <1>2, <2>1 DEF VerdictHasSource
    <3>2. j \in DOMAIN log
      BY <1>1, <2>1
    <3>. QED  BY <1>1, <2>1, <3>1, <3>2
  <2>2. CASE i = Len(log) + 1
    <3>1. PICK j \in DOMAIN log : log[j].feedback_id = fb.feedback_id /\ log[j].status = "pending"
      BY <1>1, <1>2, <2>2
    <3>2. j \in 1..(i-1)
      BY <1>1, <2>2
    <3>. QED  BY <1>1, <2>2, <3>1, <3>2
  <2>. QED  BY <1>1, <2>1, <2>2
<1>3. log' = k
  BY DEF k
<1>. QED  BY <1>2, <1>3 DEF VerdictHasSource

LEMMA SourceInit == Init => SourceInv
<1>1. Init => VerdictHasSource
  BY DEF Init, VerdictHasSource
<1>2. Init => MarksAreKnown
  BY DEF Init, MarksAreKnown, NoMark
<1>. QED  BY <1>1, <1>2, TypeInit DEF SourceInv

LEMMA SourceStep == SourceInv /\ [Next]_vars => SourceInv'
<1>. SUFFICES ASSUME SourceInv, [Next]_vars PROVE SourceInv'
  OBVIOUS
<1>. USE DEF SourceInv
<1>0. TypeOK'
  BY TypeStep
<1>1. ASSUME NEW w \in Scanners, NEW f \in FeedbackIds, AppendFeedback(w, f)
      PROVE  VerdictHasSource' /\ MarksAreKnown'
  <2>. DEFINE fb == [feedback_id |-> f, status |-> "pending"]
  <2>1. fb \in Feedback /\ fb.status \notin Verdicts
    BY PendingIsFeedback DEF Verdicts
  <2>2. log' = Append(log, fb) /\ mark' = mark
    BY <1>1 DEF AppendFeedback
  <2>. HIDE DEF fb
  <2>3. VerdictHasSource'
    BY <2>1, <2>2, SourcesKept
  <2>4. \A g : Known(log, g) => Known(log', g)
    BY <2>1, <2>2, KnownGrows DEF TypeOK
  <2>. QED  BY <2>2, <2>3, <2>4 DEF MarksAreKnown
<1>2. ASSUME NEW r \in Reviewers, NEW f \in FeedbackIds, NEW v \in Verdicts, Mark(r, f, v)
      PROVE  VerdictHasSource' /\ MarksAreKnown'
  <2>1. VerdictHasSource'
    BY <1>2 DEF Mark, VerdictHasSource
  <2>2. ASSUME NEW q \in Reviewers, mark'[q].status # "none"
        PROVE  Known(log, mark'[q].feedback_id)
    <3>1. CASE q = r
      <4>1. mark'[q] = [feedback_id |-> f, status |-> v]
        BY <1>2, <3>1 DEF Mark, TypeOK
      <4>. QED  BY <1>2, <4>1 DEF Mark
    <3>2. CASE q # r
      <4>1. mark'[q] = mark[q]
        BY <1>2, <3>2 DEF Mark, TypeOK
      <4>. QED  BY <2>2, <4>1 DEF MarksAreKnown
    <3>. QED  BY <3>1, <3>2
  <2>. QED  BY <1>2, <2>1, <2>2 DEF Mark, MarksAreKnown
<1>3. ASSUME NEW r \in Reviewers, AppendVerdict(r) PROVE VerdictHasSource' /\ MarksAreKnown'
  <2>1. mark[r] \in Feedback
    BY <1>3, CopyIsFeedback DEF AppendVerdict, TypeOK, Copies
  <2>2. log' = Append(log, mark[r])
    BY <1>3 DEF AppendVerdict
  <2>3. Known(log, mark[r].feedback_id)
    BY <1>3 DEF AppendVerdict, MarksAreKnown
  <2>4. VerdictHasSource'
    BY <2>1, <2>2, <2>3, KnownHasPending, SourcesKept
  <2>5. \A g : Known(log, g) => Known(log', g)
    BY <2>1, <2>2, KnownGrows DEF TypeOK
  <2>6. ASSUME NEW q \in Reviewers, mark'[q].status # "none"
        PROVE  Known(log', mark'[q].feedback_id)
    <3>1. mark'[q] = mark[q]
      BY <1>3, <2>6 DEF AppendVerdict, TypeOK, NoMark
    <3>. QED  BY <2>5, <2>6, <3>1 DEF MarksAreKnown
  <2>. QED  BY <2>4, <2>6 DEF MarksAreKnown
<1>4. ASSUME NEW r \in Reviewers, CrashReviewer(r) PROVE VerdictHasSource' /\ MarksAreKnown'
  <2>1. log' = log
    BY <1>4 DEF CrashReviewer
  <2>2. ASSUME NEW q \in Reviewers, mark'[q].status # "none" PROVE mark'[q] = mark[q]
    BY <1>4, <2>2 DEF CrashReviewer, TypeOK, NoMark
  <2>. QED  BY <2>1, <2>2 DEF VerdictHasSource, MarksAreKnown
<1>5. ASSUME log' = log, mark' = mark PROVE VerdictHasSource' /\ MarksAreKnown'
  BY <1>5 DEF VerdictHasSource, MarksAreKnown
<1>6. VerdictHasSource' /\ MarksAreKnown'
  BY <1>1, <1>2, <1>3, <1>4, <1>5
     DEF Next, vars, Scan, CrashScanner, Process, Stage, CrashUpdater
<1>. QED  BY <1>0, <1>6

\* Whoever races and dies, every verdict in the registry follows a pending
\* feedback with its id.
THEOREM VerdictsHaveSources == Spec => []VerdictHasSource
<1>1. Spec => []SourceInv
  BY SourceInit, SourceStep, PTL DEF Spec
<1>2. SourceInv => VerdictHasSource
  BY DEF SourceInv
<1>. QED  BY <1>1, <1>2, PTL

(***************************************************************************)
(* What is rejected does not enter an updater's pass.                      *)
(***************************************************************************)

\* The conclusion of RejectedStaysOut for one feedback.
StaysOut(f) ==
    /\ Rejected(f)'
    /\ \A u \in Updaters : InHand(u, f)' \subseteq InHand(u, f)
    /\ \/ staged'[f] = staged[f]
       \/ /\ staged'[f] = staged[f] + 1
          /\ \E u \in Updaters : InHand(u, f)' # InHand(u, f)

LEMMA RejectedStep ==
  ASSUME TypeOK, [Next]_vars, NEW f \in FeedbackIds, Rejected(f)
  PROVE  StaysOut(f)
<1>. USE DEF InHand
<1>1. ASSUME NEW fb \in Feedback, log' = Append(log, fb), batch' = batch, staged' = staged
      PROVE  StaysOut(f)
  <2>1. \A i \in DOMAIN log : i \in DOMAIN log' /\ log'[i] = log[i]
    BY <1>1, AppendKeeps DEF TypeOK
  <2>2. Rejected(f)'
    BY <2>1 DEF Rejected
  <2>3. \A u \in Updaters : batch[u] \subseteq DOMAIN log
    BY DEF TypeOK
  <2>. QED  BY <1>1, <2>1, <2>2, <2>3 DEF StaysOut
<1>2. ASSUME NEW w \in Scanners, NEW g \in FeedbackIds, AppendFeedback(w, g)
      PROVE  StaysOut(f)
  BY <1>1, <1>2, PendingIsFeedback DEF AppendFeedback
<1>3. ASSUME NEW r \in Reviewers, AppendVerdict(r)
      PROVE  StaysOut(f)
  <2>1. mark[r] \in Feedback
    BY <1>3, CopyIsFeedback DEF AppendVerdict, TypeOK, Copies
  <2>. QED  BY <1>1, <1>3, <2>1 DEF AppendVerdict
<1>4. log' = log => Rejected(f)'
  BY DEF Rejected
<1>5. ASSUME NEW u \in Updaters, Process(u)
      PROVE  StaysOut(f)
  <2>1. \A i \in Unprocessed(log) : log[i].feedback_id # f
    BY DEF Unprocessed, Resolved, Rejected, Verdicts
  <2>2. \A x \in Updaters : batch'[x] = batch[x] \/ batch'[x] = Unprocessed(log)
    BY <1>5 DEF Process, TypeOK
  <2>3. log' = log /\ staged' = staged
    BY <1>5 DEF Process
  <2>. QED  BY <1>4, <2>1, <2>2, <2>3 DEF StaysOut
<1>6. ASSUME NEW u \in Updaters, Stage(u)
      PROVE  StaysOut(f)
  <2>1. PICK i \in batch[u] :
          /\ staged' = [staged EXCEPT ![log[i].feedback_id] = @ + 1]
          /\ batch' = [batch EXCEPT ![u] = @ \ {i}]
    BY <1>6 DEF Stage
  <2>2. log' = log
    BY <1>6 DEF Stage
  <2>3. \A x \in Updaters : batch'[x] \subseteq batch[x]
    BY <2>1 DEF TypeOK
  <2>4. i \notin batch'[u]
    BY <2>1 DEF TypeOK
  <2>5. CASE log[i].feedback_id = f
    <3>1. staged'[f] = staged[f] + 1
      BY <2>1, <2>5 DEF TypeOK
    <3>2. i \in InHand(u, f) /\ i \notin InHand(u, f)'
      BY <2>4, <2>5
    <3>3. InHand(u, f)' # InHand(u, f)
      BY <3>2
    <3>. QED  BY <1>4, <2>2, <2>3, <3>1, <3>3 DEF StaysOut
  <2>6. CASE log[i].feedback_id # f
    <3>1. staged'[f] = staged[f]
      BY <2>1, <2>6 DEF TypeOK
    <3>. QED  BY <1>4, <2>2, <2>3, <3>1 DEF StaysOut
  <2>. QED  BY <2>5, <2>6
<1>7. ASSUME NEW u \in Updaters, CrashUpdater(u)
      PROVE  StaysOut(f)
  <2>1. \A x \in Updaters : batch'[x] \subseteq batch[x]
    BY <1>7 DEF CrashUpdater, TypeOK
  <2>. QED  BY <1>4, <1>7, <2>1 DEF CrashUpdater, StaysOut
<1>8. ASSUME log' = log, batch' = batch, staged' = staged
      PROVE  StaysOut(f)
  BY <1>4, <1>8 DEF StaysOut
<1>. QED
  BY <1>2, <1>3, <1>5, <1>6, <1>7, <1>8
     DEF Next, vars, Scan, CrashScanner, Mark, CrashReviewer

\* From its rejection on, no pass takes up a record of a feedback, whatever scans
\* and reviews follow: only what an overtaken pass had in hand is still staged,
\* each record once.
THEOREM RejectionKeepsOut == Spec => RejectedStaysOut
<1>1. TypeOK /\ [Next]_vars => [\A f \in FeedbackIds : Rejected(f) => StaysOut(f)]_vars
  BY RejectedStep
<1>2. Spec => []TypeOK
  BY TypeCorrect
<1>. QED  BY <1>1, <1>2, PTL DEF Spec, RejectedStaysOut, StaysOut

=============================================================================
