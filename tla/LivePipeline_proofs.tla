------------------------ MODULE LivePipeline_proofs -------------------------
(***************************************************************************)
(* Proofs about the live pipeline, for any number of runs and symbols, all *)
(* limits and market contexts, any failures and any number of reboots.     *)
(***************************************************************************)
EXTENDS LivePipeline, RiskEngine_proofs

-----------------------------------------------------------------------------
(* The inductive invariant *)

\* What a run knows once it has decided: its plan is sound, and an actionable
\* plan goes the way the decision allows.
JobOK(j) ==
    /\ j \in Jobs
    /\ j.plan.qty > 0 => Actionable(j.plan)
    /\ Actionable(j.plan) =>
          /\ j.entry_permission
          /\ j.plan.action = "BUY" <=> j.target_direction = "LONG"

\* How far a run has come says which of its records are there.
RunOK(r) ==
    /\ pc[r] # "idle" => JobOK(job[r])
    /\ pc[r] = "cleared" => Actionable(job[r].plan)
    /\ pc[r] \in {"cleared", "filled", "accounted", "recorded", "done"} => RiskAuditOf(r) \in riskLog
    /\ pc[r] \in {"filled", "accounted", "recorded", "done"} /\ Actionable(job[r].plan) =>
          fill[r] = Signed(job[r].plan)
    /\ pc[r] \in {"accounted", "recorded", "done"} /\ Actionable(job[r].plan) =>
          ExecutionRecordOf(r) \in execLog
    /\ pc[r] \in {"recorded", "done"} => DecisionRecordOf(r) \in decisionLog
    /\ pc[r] = "filled" => fill[r] # 0
    /\ fill[r] # 0 =>
          /\ pc[r] \notin {"idle", "planned", "cleared"}
          /\ Actionable(job[r].plan)
          /\ fill[r] = Signed(job[r].plan)
          /\ RiskAuditOf(r) \in riskLog

\* The records are snapshots of their runs, which cannot change any more.
ExecutionOK(e) == fill[e.run] # 0 /\ e = ExecutionRecordOf(e.run)

DecisionOK(d) ==
    /\ pc[d.run] \notin {"idle", "planned", "cleared", "filled"}
    /\ d = DecisionRecordOf(d.run)
    /\ Actionable(job[d.run].plan) => ExecutionRecordOf(d.run) \in execLog

PipeInv ==
    /\ TypeOK
    /\ \A r \in Runs : RunOK(r)
    /\ \A e \in execLog : ExecutionOK(e)
    /\ \A d \in decisionLog : DecisionOK(d)

-----------------------------------------------------------------------------
(* What a run decides *)

\* With an empty portfolio only a long or a short bias leads to a quantity.
LEMMA LivePlans ==
    ASSUME NEW bias \in Biases, NEW c \in MarketContext,
           Calculate(bias, c, EmptyPortfolio).qty > 0
    PROVE  /\ bias \in {"long_bias", "short_bias"}
           /\ Calculate(bias, c, EmptyPortfolio).action = IF bias = "long_bias" THEN "BUY" ELSE "SELL"
<1> DEFINE h == EmptyPortfolio
<1>1. h.dir = "flat"
  BY DEF EmptyPortfolio
<1> HIDE DEF h
<1>2. ~ NothingToDo(bias, c, h)
  <2>1. SUFFICES ASSUME NothingToDo(bias, c, h) PROVE FALSE
    OBVIOUS
  <2>2. Calculate(bias, c, h).qty = 0
    BY <2>1 DEF Calculate, ZeroPlan
  <2>3. QED
    BY <2>2 DEF h
<1>3. bias \in {"long_bias", "short_bias"}
  BY <1>1, <1>2 DEF NothingToDo, Reducing, Biases
<1>4. Calculate(bias, c, h).action = ExecAction(bias, h)
  BY <1>2 DEF Calculate, FilteredPlan
<1>5. ExecAction(bias, h) = IF bias = "long_bias" THEN "BUY" ELSE "SELL"
  BY <1>3 DEF ExecAction, Reducing
<1>6. QED
  BY <1>3, <1>4, <1>5 DEF h

LEMMA EmptyType == EmptyPortfolio \in Holding
BY DEF EmptyPortfolio, Holding

LEMMA DecidedJob ==
    ASSUME TypeOK, NEW symbol \in Symbols, NEW bias \in Biases, NEW c \in Contexts
    PROVE  JobOK([decision_id |-> DecisionId(symbol), target_direction |-> TargetDirection(bias),
                  entry_permission |-> EntryPermission(bias),
                  plan |-> Calculate(bias, c, EmptyPortfolio)])
<1> DEFINE p == Calculate(bias, c, EmptyPortfolio)
           dir == TargetDirection(bias)
           ok == EntryPermission(bias)
           id == DecisionId(symbol)
           j == [decision_id |-> id, target_direction |-> dir, entry_permission |-> ok, plan |-> p]
<1>1. c \in MarketContext
  BY LiveAssumption
<1>2. p \in Plans /\ WithinLimits(p, c, EmptyPortfolio)
  BY <1>1, EmptyType, PlansAreSound
<1>3. /\ dir \in Directions /\ ok \in BOOLEAN /\ id \in DecisionIds
      /\ bias = "long_bias" <=> dir = "LONG"
      /\ bias \in {"long_bias", "short_bias"} => ok
  BY DEF TargetDirection, EntryPermission, Directions, DecisionId, DecisionIds, TypeOK
<1>4. p.qty > 0 => /\ bias \in {"long_bias", "short_bias"}
                   /\ p.action = IF bias = "long_bias" THEN "BUY" ELSE "SELL"
  BY <1>1, LivePlans
<1> HIDE DEF p, dir, ok, id
<1>5. p.qty \in Nat /\ p.veto \in BOOLEAN
  BY <1>2 DEF Plans
<1>6. p.qty > 0 => Actionable(p)
  BY <1>2, <1>5 DEF WithinLimits, Actionable
<1>7. Actionable(p) => ok /\ (p.action = "BUY" <=> dir = "LONG")
  BY <1>3, <1>4 DEF Actionable
<1>8. j \in Jobs
  BY <1>2, <1>3 DEF Jobs
<1>9. j.plan = p /\ j.entry_permission = ok /\ j.target_direction = dir
  OBVIOUS
<1> HIDE DEF j
<1>10. JobOK(j)
  BY <1>6, <1>7, <1>8, <1>9 DEF JobOK
<1>11. QED
  BY <1>10 DEF j, p, dir, ok, id

-----------------------------------------------------------------------------
(* Frame lemmas *)

\* A run that does not move keeps its part while the logs grow.
LEMMA UnmovedRun ==
    ASSUME NEW q \in Runs, RunOK(q),
           pc'[q] = pc[q], job'[q] = job[q], fill'[q] = fill[q],
           riskLog \subseteq riskLog', execLog \subseteq execLog', decisionLog \subseteq decisionLog'
    PROVE  RunOK(q)'
<1>1. /\ RiskAuditOf(q)' = RiskAuditOf(q)
      /\ ExecutionRecordOf(q)' = ExecutionRecordOf(q)
      /\ DecisionRecordOf(q)' = DecisionRecordOf(q)
  BY DEF RiskAuditOf, ExecutionRecordOf, DecisionRecordOf
<1>2. QED
  BY <1>1 DEF RunOK

\* So does a run that is only cut short.
LEMMA FailedRun ==
    ASSUME NEW q \in Runs, RunOK(q), pc[q] # "idle", pc'[q] = "failed",
           pc[q] \in Underway, job'[q] = job[q], fill'[q] = fill[q], riskLog' = riskLog
    PROVE  RunOK(q)'
<1>1. RiskAuditOf(q)' = RiskAuditOf(q)
  BY DEF RiskAuditOf
<1>2. QED
  BY <1>1 DEF RunOK

\* The records stay snapshots of runs that keep their decision and their fill.
LEMMA OldExecution ==
    ASSUME NEW e, ExecutionOK(e), job'[e.run] = job[e.run], fill'[e.run] = fill[e.run]
    PROVE  ExecutionOK(e)'
BY DEF ExecutionOK, ExecutionRecordOf

LEMMA OldDecision ==
    ASSUME NEW d, DecisionOK(d), job'[d.run] = job[d.run], fill'[d.run] = fill[d.run],
           pc'[d.run] \notin {"idle", "planned", "cleared", "filled"}, execLog \subseteq execLog'
    PROVE  DecisionOK(d)'
BY DEF DecisionOK, DecisionRecordOf, ExecutionRecordOf

LEMMA RecordRuns ==
    ASSUME TypeOK
    PROVE  (\A e \in execLog : e.run \in Runs) /\ (\A d \in decisionLog : d.run \in Runs)
BY DEF TypeOK, ExecutionRecord, DecisionRecord

-----------------------------------------------------------------------------
(* One lemma for each action *)

LEMMA PipeInvInit == Init => PipeInv
BY DEF Init, PipeInv, TypeOK, Steps, RunOK

LEMMA DecideStep ==
    ASSUME PipeInv, NEW r \in Runs, NEW symbol \in Symbols, NEW bias \in Biases, NEW c \in Contexts,
           Decide(r, symbol, bias, c)
    PROVE  PipeInv'
<1> DEFINE j == [decision_id |-> DecisionId(symbol), target_direction |-> TargetDirection(bias),
                 entry_permission |-> EntryPermission(bias),
                 plan |-> Calculate(bias, c, EmptyPortfolio)]
<1>1. /\ pc[r] = "idle" /\ job' = [job EXCEPT ![r] = j] /\ pc' = [pc EXCEPT ![r] = "planned"]
      /\ UNCHANGED <<clock, boots, fill, riskLog, execLog, decisionLog>>
  BY DEF Decide
<1>2. JobOK(j)
  BY DecidedJob DEF PipeInv
<1> HIDE DEF j
<1>3. TypeOK'
  BY <1>1, <1>2 DEF PipeInv, TypeOK, JobOK, Steps
<1>4. /\ pc'[r] = "planned" /\ job'[r] = j /\ fill'[r] = fill[r]
      /\ \A q \in Runs : q # r => pc'[q] = pc[q] /\ job'[q] = job[q] /\ fill'[q] = fill[q]
  BY <1>1 DEF PipeInv, TypeOK
<1>5. \A q \in Runs : RunOK(q)'
  <2>1. RunOK(r)'
    BY <1>1, <1>2, <1>4 DEF PipeInv, RunOK
  <2>2. ASSUME NEW q \in Runs, q # r PROVE RunOK(q)'
    BY <1>1, <1>4, <2>2, UnmovedRun DEF PipeInv
  <2>3. QED
    BY <2>1, <2>2
<1>6. \A e \in execLog' : ExecutionOK(e)'
  <2>1. \A e \in execLog : e.run \in Runs /\ e.run # r
    BY <1>1, RecordRuns DEF PipeInv, ExecutionOK, RunOK
  <2>2. QED
    BY <1>1, <1>4, <2>1, OldExecution DEF PipeInv
<1>7. \A d \in decisionLog' : DecisionOK(d)'
  <2>1. \A d \in decisionLog : d.run \in Runs /\ d.run # r /\ pc'[d.run] = pc[d.run]
    BY <1>1, <1>4, RecordRuns DEF PipeInv, DecisionOK
  <2>2. \A d \in decisionLog : pc'[d.run] \notin {"idle", "planned", "cleared", "filled"}
    BY <2>1 DEF PipeInv, DecisionOK
  <2>3. QED
    BY <1>1, <1>4, <2>1, <2>2, OldDecision DEF PipeInv
<1>8. QED
  BY <1>3, <1>5, <1>6, <1>7 DEF PipeInv

LEMMA AuditRiskStep ==
    ASSUME PipeInv, NEW r \in Runs, AuditRisk(r)
    PROVE  PipeInv'
<1> DEFINE next == IF Actionable(job[r].plan) THEN "cleared" ELSE "accounted"
<1>1. /\ pc[r] = "planned" /\ riskLog' = riskLog \cup {RiskAuditOf(r)}
      /\ pc' = [pc EXCEPT ![r] = next]
      /\ UNCHANGED <<clock, boots, job, fill, execLog, decisionLog>>
  BY DEF AuditRisk
<1>2. RiskAuditOf(r) \in RiskAudit
  <2>1. job[r] \in Jobs /\ job[r].plan \in Plans /\ job[r].decision_id \in DecisionIds
    BY <1>1 DEF PipeInv, RunOK, JobOK, Jobs
  <2>2. job[r].plan.qty \in Nat /\ job[r].plan.veto \in BOOLEAN
    BY <2>1 DEF Plans
  <2>3. QED
    BY <2>1, <2>2 DEF RiskAuditOf, RiskAudit
<1>3. TypeOK'
  BY <1>1, <1>2 DEF PipeInv, TypeOK, Steps
<1>4. /\ pc'[r] = next
      /\ \A q \in Runs : q # r => pc'[q] = pc[q]
      /\ \A q \in Runs : job'[q] = job[q] /\ fill'[q] = fill[q]
  BY <1>1 DEF PipeInv, TypeOK
<1>5. \A q \in Runs : RunOK(q)'
  <2>1. RunOK(r)'
    <3>1. RiskAuditOf(r)' = RiskAuditOf(r)
      BY <1>4 DEF RiskAuditOf
    <3>2. RiskAuditOf(r)' \in riskLog'
      BY <1>1, <3>1
    <3>3. QED
      BY <1>1, <1>4, <3>2 DEF PipeInv, RunOK
  <2>2. ASSUME NEW q \in Runs, q # r PROVE RunOK(q)'
    BY <1>1, <1>4, <2>2, UnmovedRun DEF PipeInv
  <2>3. QED
    BY <2>1, <2>2
<1>6. \A e \in execLog' : ExecutionOK(e)'
  BY <1>1, OldExecution DEF PipeInv
<1>7. \A d \in decisionLog' : DecisionOK(d)'
  <2>1. \A d \in decisionLog : d.run # r /\ pc'[d.run] = pc[d.run]
    BY <1>1, <1>4, RecordRuns DEF PipeInv, DecisionOK
  <2>2. \A d \in decisionLog : pc'[d.run] \notin {"idle", "planned", "cleared", "filled"}
    BY <2>1 DEF PipeInv, DecisionOK
  <2>3. QED
    BY <1>1, <2>2, OldDecision DEF PipeInv
<1>8. QED
  BY <1>3, <1>5, <1>6, <1>7 DEF PipeInv

LEMMA SignedOfActionable ==
    ASSUME NEW plan \in Plans, Actionable(plan)
    PROVE  /\ Signed(plan) \in Int /\ Signed(plan) # 0 /\ Abs(Signed(plan)) = plan.qty
           /\ Signed(plan) > 0 <=> plan.action = "BUY"
<1>1. plan.qty \in Nat /\ plan.qty > 0
  BY DEF Plans, Actionable
<1>2. QED
  BY <1>1 DEF Signed, Abs

LEMMA ExecuteStep ==
    ASSUME PipeInv, NEW r \in Runs, Execute(r)
    PROVE  PipeInv'
<1>1. /\ pc[r] = "cleared" /\ fill' = [fill EXCEPT ![r] = Signed(job[r].plan)]
      /\ pc' = [pc EXCEPT ![r] = "filled"]
      /\ UNCHANGED <<clock, boots, job, riskLog, execLog, decisionLog>>
  BY DEF Execute
<1>2. /\ Actionable(job[r].plan) /\ RiskAuditOf(r) \in riskLog /\ fill[r] = 0
      /\ Signed(job[r].plan) \in Int /\ Signed(job[r].plan) # 0
  <2>1. job[r].plan \in Plans /\ Actionable(job[r].plan)
    BY <1>1 DEF PipeInv, RunOK, JobOK, Jobs
  <2>2. QED
    BY <1>1, <2>1, SignedOfActionable DEF PipeInv, RunOK
<1>3. TypeOK'
  BY <1>1, <1>2 DEF PipeInv, TypeOK, Steps
<1>4. /\ pc'[r] = "filled" /\ fill'[r] = Signed(job[r].plan)
      /\ \A q \in Runs : q # r => pc'[q] = pc[q] /\ fill'[q] = fill[q]
  BY <1>1 DEF PipeInv, TypeOK
<1>5. \A q \in Runs : RunOK(q)'
  <2>1. RunOK(r)'
    <3>1. RiskAuditOf(r)' \in riskLog'
      BY <1>1, <1>2 DEF RiskAuditOf
    <3>2. QED
      BY <1>1, <1>2, <1>4, <3>1 DEF PipeInv, RunOK
  <2>2. ASSUME NEW q \in Runs, q # r PROVE RunOK(q)'
    BY <1>1, <1>4, <2>2, UnmovedRun DEF PipeInv
  <2>3. QED
    BY <2>1, <2>2
<1>6. \A e \in execLog' : ExecutionOK(e)'
  <2>1. \A e \in execLog : e.run \in Runs /\ e.run # r
    BY <1>2, RecordRuns DEF PipeInv, ExecutionOK
  <2>2. QED
    BY <1>1, <1>4, <2>1, OldExecution DEF PipeInv
<1>7. \A d \in decisionLog' : DecisionOK(d)'
  <2>1. \A d \in decisionLog : d.run \in Runs /\ d.run # r /\ pc'[d.run] = pc[d.run]
    BY <1>1, <1>4, RecordRuns DEF PipeInv, DecisionOK
  <2>2. \A d \in decisionLog : pc'[d.run] \notin {"idle", "planned", "cleared", "filled"}
    BY <2>1 DEF PipeInv, DecisionOK
  <2>3. QED
    BY <1>1, <1>4, <2>1, <2>2, OldDecision DEF PipeInv
<1>8. QED
  BY <1>3, <1>5, <1>6, <1>7 DEF PipeInv

LEMMA RecordExecutionStep ==
    ASSUME PipeInv, NEW r \in Runs, RecordExecution(r)
    PROVE  PipeInv'
<1>1. /\ pc[r] = "filled" /\ execLog' = execLog \cup {ExecutionRecordOf(r)}
      /\ pc' = [pc EXCEPT ![r] = "accounted"]
      /\ UNCHANGED <<clock, boots, job, fill, riskLog, decisionLog>>
  BY DEF RecordExecution
<1>2. ExecutionRecordOf(r) \in ExecutionRecord
  <2>1. job[r] \in Jobs /\ job[r].decision_id \in DecisionIds
    BY <1>1 DEF PipeInv, RunOK, JobOK, Jobs
  <2>2. Abs(fill[r]) \in Nat
    BY AbsNat DEF PipeInv, TypeOK
  <2>3. QED
    BY <2>1, <2>2 DEF ExecutionRecordOf, ExecutionRecord
<1>3. TypeOK'
  BY <1>1, <1>2 DEF PipeInv, TypeOK, Steps
<1>4. /\ pc'[r] = "accounted"
      /\ \A q \in Runs : q # r => pc'[q] = pc[q]
  BY <1>1 DEF PipeInv, TypeOK
<1>5. \A q \in Runs : RunOK(q)'
  <2>1. RunOK(r)'
    <3>1. RiskAuditOf(r)' = RiskAuditOf(r) /\ ExecutionRecordOf(r)' = ExecutionRecordOf(r)
      BY <1>1 DEF RiskAuditOf, ExecutionRecordOf
    <3>2. ExecutionRecordOf(r)' \in execLog'
      BY <1>1, <3>1
    <3>3. QED
      BY <1>1, <1>4, <3>1, <3>2 DEF PipeInv, RunOK
  <2>2. ASSUME NEW q \in Runs, q # r PROVE RunOK(q)'
    BY <1>1, <1>4, <2>2, UnmovedRun DEF PipeInv
  <2>3. QED
    BY <2>1, <2>2
<1>6. \A e \in execLog' : ExecutionOK(e)'
  <2>1. ExecutionOK(ExecutionRecordOf(r))
    <3>1. ExecutionRecordOf(r).run = r
      BY DEF ExecutionRecordOf
    <3>2. fill[r] # 0
      BY <1>1 DEF PipeInv, RunOK
    <3>3. QED
      BY <3>1, <3>2 DEF ExecutionOK
  <2>2. \A e \in execLog' : ExecutionOK(e)
    BY <1>1, <2>1 DEF PipeInv
  <2>3. QED
    BY <1>1, <2>2, OldExecution
<1>7. \A d \in decisionLog' : DecisionOK(d)'
  <2>1. \A d \in decisionLog : d.run # r /\ pc'[d.run] = pc[d.run]
    BY <1>1, <1>4, RecordRuns DEF PipeInv, DecisionOK
  <2>2. \A d \in decisionLog : pc'[d.run] \notin {"idle", "planned", "cleared", "filled"}
    BY <2>1 DEF PipeInv, DecisionOK
  <2>3. QED
    BY <1>1, <2>2, OldDecision DEF PipeInv
<1>8. QED
  BY <1>3, <1>5, <1>6, <1>7 DEF PipeInv

LEMMA RecordDecisionStep ==
    ASSUME PipeInv, NEW r \in Runs, RecordDecision(r)
    PROVE  PipeInv'
<1>1. /\ pc[r] = "accounted" /\ decisionLog' = decisionLog \cup {DecisionRecordOf(r)}
      /\ pc' = [pc EXCEPT ![r] = "recorded"]
      /\ UNCHANGED <<clock, boots, job, fill, riskLog, execLog>>
  BY DEF RecordDecision
<1>2. DecisionRecordOf(r) \in DecisionRecord
  <2>1. /\ job[r].plan \in Plans /\ job[r].decision_id \in DecisionIds
        /\ job[r].target_direction \in Directions
    BY <1>1 DEF PipeInv, RunOK, JobOK, Jobs
  <2>2. job[r].plan.qty \in Nat /\ job[r].plan.bias \in Biases
    BY <2>1 DEF Plans
  <2>3. QED
    BY <2>1, <2>2 DEF DecisionRecordOf, DecisionRecord
<1>3. TypeOK'
  BY <1>1, <1>2 DEF PipeInv, TypeOK, Steps
<1>4. /\ pc'[r] = "recorded"
      /\ \A q \in Runs : q # r => pc'[q] = pc[q]
  BY <1>1 DEF PipeInv, TypeOK
<1>5. \A q \in Runs : RunOK(q)'
  <2>1. RunOK(r)'
    <3>1. /\ RiskAuditOf(r)' = RiskAuditOf(r) /\ ExecutionRecordOf(r)' = ExecutionRecordOf(r)
          /\ DecisionRecordOf(r)' = DecisionRecordOf(r)
      BY <1>1 DEF RiskAuditOf, ExecutionRecordOf, DecisionRecordOf
    <3>2. DecisionRecordOf(r)' \in decisionLog'
      BY <1>1, <3>1
    <3>3. QED
      BY <1>1, <1>4, <3>1, <3>2 DEF PipeInv, RunOK
  <2>2. ASSUME NEW q \in Runs, q # r PROVE RunOK(q)'
    BY <1>1, <1>4, <2>2, UnmovedRun DEF PipeInv
  <2>3. QED
    BY <2>1, <2>2
<1>6. \A e \in execLog' : ExecutionOK(e)'
  BY <1>1, OldExecution DEF PipeInv
<1>7. \A d \in decisionLog' : DecisionOK(d)'
  <2>1. DecisionOK(DecisionRecordOf(r))
    <3>1. DecisionRecordOf(r).run = r
      BY DEF DecisionRecordOf
    <3>2. Actionable(job[r].plan) => ExecutionRecordOf(r) \in execLog
      BY <1>1 DEF PipeInv, RunOK
    <3>3. QED
      BY <1>1, <3>1, <3>2 DEF DecisionOK
  <2>2. \A d \in decisionLog' : DecisionOK(d) /\ d.run \in Runs
    BY <1>1, <1>3, <2>1, RecordRuns DEF PipeInv, TypeOK, DecisionRecord
  <2>3. \A d \in decisionLog' : pc'[d.run] \notin {"idle", "planned", "cleared", "filled"}
    BY <1>4, <2>2 DEF DecisionOK
  <2>4. QED
    BY <1>1, <2>2, <2>3, OldDecision
<1>8. QED
  BY <1>3, <1>5, <1>6, <1>7 DEF PipeInv

LEMMA RespondStep ==
    ASSUME PipeInv, NEW r \in Runs, Respond(r)
    PROVE  PipeInv'
<1>1. /\ pc[r] = "recorded" /\ pc' = [pc EXCEPT ![r] = "done"]
      /\ UNCHANGED <<clock, boots, job, fill, riskLog, execLog, decisionLog>>
  BY DEF Respond
<1>2. TypeOK'
  BY <1>1 DEF PipeInv, TypeOK, Steps
<1>3. /\ pc'[r] = "done"
      /\ \A q \in Runs : q # r => pc'[q] = pc[q]
  BY <1>1 DEF PipeInv, TypeOK
<1>4. \A q \in Runs : RunOK(q)'
  <2>1. RunOK(r)'
    <3>1. /\ RiskAuditOf(r)' = RiskAuditOf(r) /\ ExecutionRecordOf(r)' = ExecutionRecordOf(r)
          /\ DecisionRecordOf(r)' = DecisionRecordOf(r)
      BY <1>1 DEF RiskAuditOf, ExecutionRecordOf, DecisionRecordOf
    <3>2. QED
      BY <1>1, <1>3, <3>1 DEF PipeInv, RunOK
  <2>2. ASSUME NEW q \in Runs, q # r PROVE RunOK(q)'
    BY <1>1, <1>3, <2>2, UnmovedRun DEF PipeInv
  <2>3. QED
    BY <2>1, <2>2
<1>5. \A e \in execLog' : ExecutionOK(e)'
  BY <1>1, OldExecution DEF PipeInv
<1>6. \A d \in decisionLog' : DecisionOK(d)'
  <2>1. \A d \in decisionLog : pc'[d.run] \notin {"idle", "planned", "cleared", "filled"}
    BY <1>3, RecordRuns DEF PipeInv, DecisionOK
  <2>2. QED
    BY <1>1, <2>1, OldDecision DEF PipeInv
<1>7. QED
  BY <1>2, <1>4, <1>5, <1>6 DEF PipeInv

\* An error and a reboot both cut runs short and change nothing else.
LEMMA CutShort ==
    ASSUME PipeInv, UNCHANGED <<job, fill, riskLog, execLog, decisionLog>>, TypeOK',
           \A q \in Runs : pc'[q] = pc[q] \/ (pc[q] \in Underway /\ pc'[q] = "failed")
    PROVE  PipeInv'
<1>1. ASSUME NEW q \in Runs PROVE RunOK(q)'
  <2>1. CASE pc'[q] = pc[q]
    BY <2>1, UnmovedRun DEF PipeInv
  <2>2. CASE pc[q] \in Underway /\ pc'[q] = "failed"
    BY <2>2, FailedRun DEF PipeInv, Underway
  <2>3. QED
    BY <2>1, <2>2
<1>2. \A e \in execLog' : ExecutionOK(e)'
  BY OldExecution DEF PipeInv
<1>3. \A d \in decisionLog' : DecisionOK(d)'
  <2>1. \A d \in decisionLog : pc'[d.run] \notin {"idle", "planned", "cleared", "filled"}
    BY RecordRuns DEF PipeInv, DecisionOK
  <2>2. QED
    BY <2>1, OldDecision DEF PipeInv
<1>4. QED
  BY <1>1, <1>2, <1>3 DEF PipeInv

LEMMA FailStep ==
    ASSUME PipeInv, NEW r \in Runs, Fail(r)
    PROVE  PipeInv'
<1>1. TypeOK'
  BY DEF Fail, PipeInv, TypeOK, Steps
<1>2. \A q \in Runs : pc'[q] = pc[q] \/ (pc[q] \in Underway /\ pc'[q] = "failed")
  BY DEF Fail, PipeInv, TypeOK
<1>3. QED
  BY <1>1, <1>2, CutShort DEF Fail

LEMMA RebootStep ==
    ASSUME PipeInv, Reboot
    PROVE  PipeInv'
<1>1. TypeOK'
  BY DEF Reboot, PipeInv, TypeOK, Steps
<1>2. \A q \in Runs : pc'[q] = pc[q] \/ (pc[q] \in Underway /\ pc'[q] = "failed")
  BY DEF Reboot, PipeInv, TypeOK
<1>3. QED
  BY <1>1, <1>2, CutShort DEF Reboot

LEMMA QuietStep ==
    ASSUME PipeInv, Tick \/ UNCHANGED vars
    PROVE  PipeInv'
<1>1. TypeOK' /\ UNCHANGED <<pc, job, fill, riskLog, execLog, decisionLog>>
  BY DEF Tick, vars, PipeInv, TypeOK
<1>2. QED
  BY <1>1, CutShort

LEMMA PipeInvStep == PipeInv /\ [Next]_vars => PipeInv'
<1>1. SUFFICES ASSUME PipeInv, [Next]_vars PROVE PipeInv'
  OBVIOUS
<1>2. CASE \E r \in Runs :
            \/ \E symbol \in Symbols, bias \in Biases, c \in Contexts : Decide(r, symbol, bias, c)
            \/ Step(r)
            \/ Fail(r)
  BY <1>1, <1>2, DecideStep, AuditRiskStep, ExecuteStep, RecordExecutionStep, RecordDecisionStep,
     RespondStep, FailStep DEF Step
<1>3. CASE Tick \/ UNCHANGED vars
  BY <1>1, <1>3, QuietStep
<1>4. CASE Reboot
  BY <1>1, <1>4, RebootStep
<1>5. QED
  BY <1>1, <1>2, <1>3, <1>4 DEF Next

-----------------------------------------------------------------------------
(* The theorems *)

LEMMA PipeInvHolds == Spec => []PipeInv
<1>1. QED
  BY PipeInvInit, PipeInvStep, PTL DEF Spec

\* The runs, their jobs and the three registries keep their types.
THEOREM PipelineTypeCorrect == Spec => []TypeOK
<1>1. PipeInv => TypeOK
  BY DEF PipeInv
<1>2. QED
  BY <1>1, PipeInvHolds, PTL

\* No run, whatever it does later, trades without a risk audit over the quantity
\* it trades, or against its decision's direction (run_live_pipeline).
THEOREM NothingTradedUncleared == Spec => []TradesAreCleared
<1>1. PipeInv => TradesAreCleared
  <2>1. SUFFICES ASSUME PipeInv, NEW r \in Runs, fill[r] # 0
                 PROVE  /\ \E a \in riskLog : /\ a.run = r /\ ~ a.veto_triggered
                                              /\ a.final_quantity = Abs(fill[r])
                        /\ job[r].entry_permission
                        /\ fill[r] > 0 <=> job[r].target_direction = "LONG"
    BY DEF TradesAreCleared
  <2>2. /\ RiskAuditOf(r) \in riskLog /\ Actionable(job[r].plan)
        /\ fill[r] = Signed(job[r].plan) /\ JobOK(job[r])
    BY <2>1 DEF PipeInv, RunOK
  <2>3. job[r].plan \in Plans
    BY <2>2 DEF JobOK, Jobs
  <2>4. /\ Abs(fill[r]) = job[r].plan.qty
        /\ fill[r] > 0 <=> job[r].plan.action = "BUY"
    BY <2>2, <2>3, SignedOfActionable
  <2>5. /\ RiskAuditOf(r).run = r /\ ~ RiskAuditOf(r).veto_triggered
        /\ RiskAuditOf(r).final_quantity = job[r].plan.qty
    BY <2>2 DEF RiskAuditOf, Actionable
  <2>6. QED
    BY <2>2, <2>4, <2>5 DEF JobOK
<1>2. QED
  BY <1>1, PipeInvHolds, PTL

\* Every execution record has its risk audit and every decision record with a
\* quantity its execution record, after any failures and reboots (the order of
\* the appends in run_live_pipeline).
THEOREM TrailAlwaysBacked == Spec => []TrailIsBacked
<1>1. PipeInv => TrailIsBacked
  <2> SUFFICES ASSUME PipeInv PROVE TrailIsBacked
    OBVIOUS
  <2>1. ASSUME NEW e \in execLog
        PROVE  /\ RiskAuditOf(e.run) \in riskLog
               /\ RiskAuditOf(e.run).run = e.run
               /\ RiskAuditOf(e.run).decision_id = e.decision_id
               /\ RiskAuditOf(e.run).final_quantity = e.total_filled_qty
               /\ e.total_filled_qty = job[e.run].plan.qty
               /\ e.decision_id = job[e.run].decision_id
    <3> DEFINE r == e.run
    <3>1. r \in Runs /\ fill[r] # 0 /\ e = ExecutionRecordOf(r)
      BY RecordRuns DEF PipeInv, ExecutionOK
    <3> HIDE DEF r
    <3>2. /\ RiskAuditOf(r) \in riskLog /\ Actionable(job[r].plan)
          /\ fill[r] = Signed(job[r].plan) /\ JobOK(job[r])
      BY <3>1 DEF PipeInv, RunOK
    <3>3. Abs(fill[r]) = job[r].plan.qty
      BY <3>2, SignedOfActionable DEF JobOK, Jobs
    <3>4. /\ e.decision_id = job[r].decision_id /\ e.total_filled_qty = Abs(fill[r])
      BY <3>1 DEF ExecutionRecordOf
    <3>5. /\ RiskAuditOf(r).run = r /\ RiskAuditOf(r).decision_id = job[r].decision_id
          /\ RiskAuditOf(r).final_quantity = job[r].plan.qty
      BY DEF RiskAuditOf
    <3>6. QED
      BY <3>2, <3>3, <3>4, <3>5 DEF r
  <2>2. ASSUME NEW d \in decisionLog, d.target_quantity > 0
        PROVE  \E e \in execLog : /\ e.run = d.run /\ e.decision_id = d.decision_id
                                  /\ e.total_filled_qty = d.target_quantity
    <3> DEFINE r == d.run
    <3>1. /\ r \in Runs /\ d = DecisionRecordOf(r) /\ pc[r] # "idle"
          /\ Actionable(job[r].plan) => ExecutionRecordOf(r) \in execLog
      BY RecordRuns DEF PipeInv, DecisionOK
    <3> HIDE DEF r
    <3>2. d.decision_id = job[r].decision_id /\ d.target_quantity = job[r].plan.qty
      BY <3>1 DEF DecisionRecordOf
    <3>3. JobOK(job[r])
      BY <3>1 DEF PipeInv, RunOK
    <3>4. ExecutionRecordOf(r) \in execLog
      BY <2>2, <3>1, <3>2, <3>3 DEF JobOK
    <3>5. ExecutionRecordOf(r).run = r
      BY DEF ExecutionRecordOf
    <3>6. /\ ExecutionRecordOf(r).decision_id = d.decision_id
          /\ ExecutionRecordOf(r).total_filled_qty = d.target_quantity
      BY <2>1, <3>2, <3>4, <3>5
    <3>7. QED
      BY <3>4, <3>5, <3>6 DEF r
  <2>3. QED
    BY <2>1, <2>2 DEF TrailIsBacked
<1>2. QED
  BY <1>1, PipeInvHolds, PTL

\* A request that is answered has left all its records.
THEOREM AnsweredAlwaysRecorded == Spec => []AnsweredIsRecorded
<1>1. PipeInv => AnsweredIsRecorded
  BY DEF PipeInv, RunOK, AnsweredIsRecorded
<1>2. QED
  BY <1>1, PipeInvHolds, PTL

=============================================================================
