---------------------------- MODULE FeedbackLoop ----------------------------
(***************************************************************************)
(* The closed loop of core/audit: scanners append machine feedback to the  *)
(* feedback registry, reviewers resolve it, and Phase-4 updaters turn what *)
(* is unresolved into candidate updates in a staging directory.            *)
(*                                                                         *)
(* The registry is an append-only log: a review does not change the        *)
(* feedback it is about, it appends a copy with another status, and a      *)
(* feedback is unresolved as long as no such copy of its feedback_id       *)
(* exists.  The feedback_id names the pattern that was found (a symbol and *)
(* an order type, a filter and a regime, ...), so every scan that finds    *)
(* the pattern again appends the same id again.                            *)
(*                                                                         *)
(* No lock protects the log or the staging directory.  Every operation     *)
(* reads first and writes later, and its process may die in between.       *)
(***************************************************************************)
EXTENDS Integers, Sequences

CONSTANTS
    FeedbackIds,    \* the patterns the generators can find
    Scanners,       \* processes that scan audit records and append_many()
    Reviewers,      \* processes that mark feedback as reviewed or rejected
    Updaters,       \* processes that run Phase4Updater.process()
    Mortal,         \* the processes that may die in the middle of a call
    MaxLog,         \* bound: no scan or mark starts once the log is this long
    MaxStaged       \* bound: a pass starts only for something staged less often,
                    \* and updaters die only while nothing is staged more often

ASSUME FeedbackBounds ==
    /\ MaxLog \in Nat /\ MaxStaged \in Nat
    /\ Mortal \subseteq Scanners \cup Reviewers \cup Updaters

VARIABLES
    log,            \* the registry's records in the order of the appends
    staged,         \* staged[f]: the number of candidate updates cu-f written
    found,          \* found[w]: what scanner w has found and not yet appended
    mark,           \* mark[r]: the copy reviewer r is about to append, or NoMark
    batch           \* batch[u]: the records updater u has read and not handled yet,
                    \* as their positions in the log (records never change)

vars == <<log, staged, found, mark, batch>>

\* APPLIED exists in the schema; no code ever writes it.
Verdicts == {"reviewed", "rejected"}
Feedback == [feedback_id: FeedbackIds, status: Verdicts \cup {"pending"}]

NoMark == [status |-> "none"]

TypeOK ==
    /\ log \in Seq(Feedback)
    /\ staged \in [FeedbackIds -> Nat]
    /\ found \in [Scanners -> SUBSET FeedbackIds]
    /\ mark \in [Reviewers -> [feedback_id: FeedbackIds, status: Verdicts] \cup {NoMark}]
    /\ batch \in [Updaters -> SUBSET DOMAIN log]

Init ==
    /\ log = << >>
    /\ staged = [f \in FeedbackIds |-> 0]
    /\ found = [w \in Scanners |-> {}]
    /\ mark = [r \in Reviewers |-> NoMark]
    /\ batch = [u \in Updaters |-> {}]

-----------------------------------------------------------------------------
(* Reading the registry *)

Known(l, f) == \E i \in DOMAIN l : l[i].feedback_id = f

Resolved(l, f) ==
    \E i \in DOMAIN l : l[i].feedback_id = f /\ l[i].status \in Verdicts

\* A plausible slip: only a review closes a feedback, a rejection does not.
UnprocessedUnlessReviewed(l) ==
    { i \in DOMAIN l :
        /\ l[i].status = "pending"
        /\ ~ \E j \in DOMAIN l : l[j].feedback_id = l[i].feedback_id /\ l[j].status = "reviewed" }

\* read_unprocessed(): (the positions of) the pending records of every id
\* without a verdict, each occurrence of the id in the log.
Unprocessed(l) ==
    { i \in DOMAIN l : l[i].status = "pending" /\ ~ Resolved(l, l[i].feedback_id) }

-----------------------------------------------------------------------------
(* Scanners *)

\* FeedbackEngine.scan(): the four generators find some patterns in the audit
\* records, at most one feedback for each.
Scan(w, F) ==
    /\ found[w] = {}
    /\ F # {}
    /\ Len(log) < MaxLog
    /\ found' = [found EXCEPT ![w] = F]
    /\ UNCHANGED <<log, staged, mark, batch>>

\* append_many() writes what was found line by line.
AppendFeedback(w, f) ==
    /\ f \in found[w]
    /\ log' = Append(log, [feedback_id |-> f, status |-> "pending"])
    /\ found' = [found EXCEPT ![w] = @ \ {f}]
    /\ UNCHANGED <<staged, mark, batch>>

-----------------------------------------------------------------------------
(* Reviewers *)

\* A plausible slip: the id is not looked up before its verdict is written.
MarkUnknown(r, f, v) ==
    /\ mark[r].status = "none"
    /\ Len(log) < MaxLog
    /\ mark' = [mark EXCEPT ![r] = [feedback_id |-> f, status |-> v]]
    /\ UNCHANGED <<log, staged, found, batch>>

\* A plausible slip: the copy keeps the status of the original.
MarkKeepsStatus(r, f, v) ==
    /\ mark[r].status = "none"
    /\ Len(log) < MaxLog
    /\ Known(log, f)
    /\ mark' = [mark EXCEPT ![r] = [feedback_id |-> f, status |-> "pending"]]
    /\ UNCHANGED <<log, staged, found, batch>>

\* mark_reviewed() and mark_rejected() copy the first record with the id; an
\* unknown id ends the call, an id that has a verdict already does not.
Mark(r, f, v) ==
    /\ mark[r].status = "none"
    /\ Len(log) < MaxLog
    /\ Known(log, f)
    /\ mark' = [mark EXCEPT ![r] = [feedback_id |-> f, status |-> v]]
    /\ UNCHANGED <<log, staged, found, batch>>

\* ... and append the copy.
AppendVerdict(r) ==
    /\ mark[r].status # "none"
    /\ log' = Append(log, mark[r])
    /\ mark' = [mark EXCEPT ![r] = NoMark]
    /\ UNCHANGED <<staged, found, batch>>

-----------------------------------------------------------------------------
(* Phase-4 updaters *)

\* process() reads the unresolved feedback ...
Process(u) ==
    /\ batch[u] = {}
    /\ \E i \in Unprocessed(log) : staged[log[i].feedback_id] < MaxStaged
    /\ batch' = [batch EXCEPT ![u] = Unprocessed(log)]
    /\ UNCHANGED <<log, staged, found, mark>>

\* A plausible slip: the pass ends at a feedback that has a candidate already.
StageBreaks(u) ==
    /\ \E i \in batch[u] :
          /\ \A j \in batch[u] : i <= j
          /\ IF staged[log[i].feedback_id] > 0
             THEN batch' = [batch EXCEPT ![u] = {}] /\ UNCHANGED staged
             ELSE /\ staged' = [staged EXCEPT ![log[i].feedback_id] = @ + 1]
                  /\ batch' = [batch EXCEPT ![u] = @ \ {i}]
    /\ UNCHANGED <<log, found, mark>>

\* ... and writes a candidate for each in turn.  All four feedback types have
\* one.  Nothing tells the registry: the feedback stays unresolved.
Stage(u) ==
    /\ \E i \in batch[u] :
          /\ \A j \in batch[u] : i <= j
          /\ staged' = [staged EXCEPT ![log[i].feedback_id] = @ + 1]
          /\ batch' = [batch EXCEPT ![u] = @ \ {i}]
    /\ UNCHANGED <<log, found, mark>>

-----------------------------------------------------------------------------
(* A process dies: what it has written stays, the rest of its call is lost. *)

CrashScanner(w) ==
    /\ w \in Mortal
    /\ found[w] # {}
    /\ found' = [found EXCEPT ![w] = {}]
    /\ UNCHANGED <<log, staged, mark, batch>>

CrashReviewer(r) ==
    /\ r \in Mortal
    /\ mark[r].status # "none"
    /\ mark' = [mark EXCEPT ![r] = NoMark]
    /\ UNCHANGED <<log, staged, found, batch>>

CrashUpdater(u) ==
    /\ u \in Mortal
    /\ batch[u] # {}
    /\ \A f \in FeedbackIds : staged[f] <= MaxStaged
    /\ batch' = [batch EXCEPT ![u] = {}]
    /\ UNCHANGED <<log, staged, found, mark>>

Next ==
    \/ \E w \in Scanners :
          \/ \E F \in SUBSET FeedbackIds : Scan(w, F)
          \/ \E f \in FeedbackIds : AppendFeedback(w, f)
          \/ CrashScanner(w)
    \/ \E r \in Reviewers :
          \/ \E f \in FeedbackIds, v \in Verdicts : Mark(r, f, v)
          \/ AppendVerdict(r)
          \/ CrashReviewer(r)
    \/ \E u \in Updaters :
          \/ Process(u)
          \/ Stage(u)
          \/ CrashUpdater(u)

Spec == Init /\ [][Next]_vars

\* A call that has started runs to its end: there is no wait in it.  Nothing in
\* the repository schedules scans, reviews or process(), so none of them is fair.
FairSpec ==
    /\ Spec
    /\ \A w \in Scanners : WF_vars(\E f \in FeedbackIds : AppendFeedback(w, f))
    /\ \A r \in Reviewers : WF_vars(AppendVerdict(r))
    /\ \A u \in Updaters : WF_vars(Stage(u))

-----------------------------------------------------------------------------
(* Properties *)

\* No verdict without a feedback, whoever races and dies: every reviewed or
\* rejected record of the log follows a pending record with its id (the mark
\* operations of feedback_registry.py copy what they have read).
VerdictHasSource ==
    \A i \in DOMAIN log : log[i].status \in Verdicts =>
        \E j \in 1..(i-1) : log[j].feedback_id = log[i].feedback_id /\ log[j].status = "pending"

Rejected(f) ==
    \E i \in DOMAIN log : log[i].feedback_id = f /\ log[i].status = "rejected"

\* The records of feedback f that updater u has read and not staged yet.
InHand(u, f) == {i \in batch[u] : log[i].feedback_id = f}

\* phase8_lifecycle.md, mark_rejected: what is rejected does not enter
\* Phase4Updater.  Without a lock this is true of entering only: from the rejection
\* on, whatever scans find again, whoever gives which verdict and whichever pass
\* starts, no updater takes up a record of the id.  The candidates still written
\* are those of records that an overtaken pass had in hand, each of them once.
RejectedStaysOut ==
    [][\A f \in FeedbackIds : Rejected(f) =>
          /\ Rejected(f)'
          /\ \A u \in Updaters : InHand(u, f)' \subseteq InHand(u, f)
          /\ \/ staged'[f] = staged[f]
             \/ /\ staged'[f] = staged[f] + 1
                /\ \E u \in Updaters : InHand(u, f)' # InHand(u, f)]_vars

\* A pass that is not cut short by the death of its process writes a candidate for
\* everything it has read (process() returns "all candidate updates"), also when
\* reviewers close some of it and other updaters stage it or die meanwhile.
PassIsCompleted ==
    \A u \in Updaters \ Mortal, f \in FeedbackIds :
        InHand(u, f) # {} ~> (batch[u] = {} /\ staged[f] > 0)

\* read_unprocessed() reads "all feedback waiting to be processed": a feedback
\* that a scan has just appended is among it.
NewFeedbackWaits ==
    [][\A f \in FeedbackIds :
          log' = Append(log, [feedback_id |-> f, status |-> "pending"])
             => Len(log') \in Unprocessed(log')]_vars

=============================================================================
