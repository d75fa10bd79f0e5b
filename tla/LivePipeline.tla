---------------------------- MODULE LivePipeline ----------------------------
(***************************************************************************)
(* run_live_pipeline() of core/data/live/orchestrator.py: requests of the  *)
(* API, each in a thread of its own, analyse a symbol, arbitrate, size the *)
(* trade with the risk engine, execute it in a simulation runtime of their *)
(* own and leave a trail in three append-only registries: a risk audit, an *)
(* execution record and a decision record.                                 *)
(*                                                                         *)
(* The three records are written at different moments.  Every step may     *)
(* raise, which ends the request, and the host may go down; what has been  *)
(* written stays.  What ties the records together is the decision_id, made *)
(* of the symbol and the milliseconds of time.perf_counter(), a clock that *)
(* starts again when the host does.                                        *)
(***************************************************************************)
EXTENDS RiskEngine

CONSTANTS
    Runs,           \* the requests
    Symbols,
    Contexts,       \* what the analysis of a symbol may hand to calculate()
    MayFail,        \* TRUE if a step may raise
    MaxClock,       \* bound: milliseconds since the host came up
    MaxBoots        \* bound: how often the host goes down

\* The orchestrator always reports an empty portfolio without a history.
ASSUME LiveAssumption ==
    /\ Contexts \subseteq {c \in MarketContext :
          c.kelly = 0 /\ c.daily = 0 /\ c.drawdown = 0 /\ c.corr = 0}
    /\ MayFail \in BOOLEAN
    /\ MaxClock \in Nat
    /\ MaxBoots \in Nat

VARIABLES
    clock,          \* time.perf_counter() in milliseconds
    boots,          \* how often the host went down
    pc,             \* pc[r]: how far run r has come
    job,            \* job[r]: the decision and the plan of run r
    fill,           \* fill[r]: what run r has bought (sold, if negative)
    riskLog,        \* RiskAuditRegistry
    execLog,        \* ExecutionRegistry
    decisionLog     \* DecisionRegistry

vars == <<clock, boots, pc, job, fill, riskLog, execLog, decisionLog>>

Steps == {"idle", "planned", "cleared", "filled", "accounted", "recorded", "done", "failed"}
Underway == Steps \ {"idle", "done", "failed"}

DecisionIds == Symbols \X Nat
Directions == {"LONG", "SHORT", "FLAT"}

NoJob == [plan |-> ZeroPlan("no_trade")]
Jobs == [decision_id: DecisionIds, target_direction: Directions,
         entry_permission: BOOLEAN, plan: Plans]

\* The records; run stands for the audit_id, a random one.
RiskAudit == [run: Runs, decision_id: DecisionIds, final_quantity: Nat, veto_triggered: BOOLEAN]
ExecutionRecord == [run: Runs, decision_id: DecisionIds, total_filled_qty: Nat]
DecisionRecord == [run: Runs, decision_id: DecisionIds, bias: Biases,
                   target_direction: Directions, target_quantity: Nat]

TypeOK ==
    /\ clock \in Nat
    /\ boots \in Nat
    /\ pc \in [Runs -> Steps]
    /\ job \in [Runs -> Jobs \cup {NoJob}]
    /\ fill \in [Runs -> Int]
    /\ riskLog \subseteq RiskAudit
    /\ execLog \subseteq ExecutionRecord
    /\ decisionLog \subseteq DecisionRecord

Init ==
    /\ clock = 0
    /\ boots = 0
    /\ pc = [r \in Runs |-> "idle"]
    /\ job = [r \in Runs |-> NoJob]
    /\ fill = [r \in Runs |-> 0]
    /\ riskLog = {}
    /\ execLog = {}
    /\ decisionLog = {}

-----------------------------------------------------------------------------
(* The steps of a run *)

EmptyPortfolio == [qty |-> 0, dir |-> "flat", entry |-> 0]

\* A plausible slip: a reduction has a direction of its own.
TargetDirectionReduce(bias) ==
    CASE bias = "long_bias" -> "LONG"
      [] bias = "short_bias" -> "SHORT"
      [] bias = "reduce_risk" -> "REDUCE"
      [] OTHER -> "FLAT"

\* _normalize_decision_contract(): direction and permission follow the bias.
TargetDirection(bias) ==
    CASE bias = "long_bias" -> "LONG" [] bias = "short_bias" -> "SHORT" [] OTHER -> "FLAT"

EntryPermission(bias) == bias \in {"long_bias", "short_bias"}

\* arbitrate(): the clock is read when the arbitration starts.
DecisionId(symbol) == <<symbol, clock>>

\* Analysis, arbitration and calculate(): all private to the run.
Decide(r, symbol, bias, c) ==
    /\ pc[r] = "idle"
    /\ job' = [job EXCEPT ![r] =
          [decision_id |-> DecisionId(symbol), target_direction |-> TargetDirection(bias),
           entry_permission |-> EntryPermission(bias), plan |-> Calculate(bias, c, EmptyPortfolio)]]
    /\ pc' = [pc EXCEPT ![r] = "planned"]
    /\ UNCHANGED <<clock, boots, fill, riskLog, execLog, decisionLog>>

RiskAuditOf(r) ==
    [run |-> r, decision_id |-> job[r].decision_id,
     final_quantity |-> job[r].plan.qty, veto_triggered |-> job[r].plan.veto]

\* A plausible slip: a run whose plan is not actionable returns at once.
AuditRiskReturns(r) ==
    /\ pc[r] = "planned"
    /\ riskLog' = riskLog \cup {RiskAuditOf(r)}
    /\ pc' = [pc EXCEPT ![r] = IF Actionable(job[r].plan) THEN "cleared" ELSE "done"]
    /\ UNCHANGED <<clock, boots, job, fill, execLog, decisionLog>>

\* The risk audit is appended for every plan; only some are executed.
AuditRisk(r) ==
    /\ pc[r] = "planned"
    /\ riskLog' = riskLog \cup {RiskAuditOf(r)}
    /\ pc' = [pc EXCEPT ![r] = IF Actionable(job[r].plan) THEN "cleared" ELSE "accounted"]
    /\ UNCHANGED <<clock, boots, job, fill, execLog, decisionLog>>

\* _run_execution(): a fresh runtime is started, fills the order and is stopped.
Execute(r) ==
    /\ pc[r] = "cleared"
    /\ fill' = [fill EXCEPT ![r] = Signed(job[r].plan)]
    /\ pc' = [pc EXCEPT ![r] = "filled"]
    /\ UNCHANGED <<clock, boots, job, riskLog, execLog, decisionLog>>

ExecutionRecordOf(r) ==
    [run |-> r, decision_id |-> job[r].decision_id, total_filled_qty |-> Abs(fill[r])]

\* A plausible slip: one record for each decision_id.
RecordExecutionOnce(r) ==
    /\ pc[r] = "filled"
    /\ execLog' = IF \E e \in execLog : e.decision_id = job[r].decision_id
                  THEN execLog ELSE execLog \cup {ExecutionRecordOf(r)}
    /\ pc' = [pc EXCEPT ![r] = "accounted"]
    /\ UNCHANGED <<clock, boots, job, fill, riskLog, decisionLog>>

RecordExecution(r) ==
    /\ pc[r] = "filled"
    /\ execLog' = execLog \cup {ExecutionRecordOf(r)}
    /\ pc' = [pc EXCEPT ![r] = "accounted"]
    /\ UNCHANGED <<clock, boots, job, fill, riskLog, decisionLog>>

\* DecisionAuditor.ingest() copies the decision, with the quantity of the plan;
\* the execution_record_id it is given is not among what it copies.
DecisionRecordOf(r) ==
    [run |-> r, decision_id |-> job[r].decision_id, bias |-> job[r].plan.bias,
     target_direction |-> job[r].target_direction, target_quantity |-> job[r].plan.qty]

\* A plausible slip: the decision is recorded before it is executed.
RecordDecisionEarly(r) ==
    /\ pc[r] \in {"cleared", "accounted"}
    /\ decisionLog' = decisionLog \cup {DecisionRecordOf(r)}
    /\ pc' = [pc EXCEPT ![r] = IF @ = "accounted" THEN "recorded" ELSE @]
    /\ UNCHANGED <<clock, boots, job, fill, riskLog, execLog>>

RecordDecision(r) ==
    /\ pc[r] = "accounted"
    /\ decisionLog' = decisionLog \cup {DecisionRecordOf(r)}
    /\ pc' = [pc EXCEPT ![r] = "recorded"]
    /\ UNCHANGED <<clock, boots, job, fill, riskLog, execLog>>

\* The feedback scan sees the records of this run alone, fewer than any of its
\* generators asks for, and finds nothing; then the answer is put together.
Respond(r) ==
    /\ pc[r] = "recorded"
    /\ pc' = [pc EXCEPT ![r] = "done"]
    /\ UNCHANGED <<clock, boots, job, fill, riskLog, execLog, decisionLog>>

-----------------------------------------------------------------------------
(* What may come in between *)

\* A step raises: no handler, the request ends with an error.
Fail(r) ==
    /\ MayFail
    /\ pc[r] \in Underway
    /\ pc' = [pc EXCEPT ![r] = "failed"]
    /\ UNCHANGED <<clock, boots, job, fill, riskLog, execLog, decisionLog>>

Tick ==
    /\ clock < MaxClock
    /\ clock' = clock + 1
    /\ UNCHANGED <<boots, pc, job, fill, riskLog, execLog, decisionLog>>

\* The host goes down and comes up again, and with it the clock.
Reboot ==
    /\ boots < MaxBoots
    /\ boots' = boots + 1
    /\ clock' = 0
    /\ pc' = [r \in Runs |-> IF pc[r] \in Underway THEN "failed" ELSE pc[r]]
    /\ UNCHANGED <<job, fill, riskLog, execLog, decisionLog>>

Step(r) ==
    \/ AuditRisk(r)
    \/ Execute(r)
    \/ RecordExecution(r)
    \/ RecordDecision(r)
    \/ Respond(r)

Next ==
    \/ \E r \in Runs :
          \/ \E symbol \in Symbols, bias \in Biases, c \in Contexts : Decide(r, symbol, bias, c)
          \/ Step(r)
          \/ Fail(r)
    \/ Tick
    \/ Reboot

Spec == Init /\ [][Next]_vars

\* A thread that has started a run goes on with it.
FairSpec == Spec /\ \A r \in Runs : WF_vars(Step(r))

-----------------------------------------------------------------------------
(* Properties *)

\* Nothing is traded that the registry does not show to have passed the risk
\* engine: behind every fill, also of a run that failed later, there is a risk
\* audit without a veto over that very quantity, and the trade goes the way the
\* decision's contract allows (orchestrator.py, run_live_pipeline: the guard
\* of the execution and _normalize_decision_contract).
TradesAreCleared ==
    \A r \in Runs : fill[r] # 0 =>
        /\ \E a \in riskLog : a.run = r /\ ~ a.veto_triggered /\ a.final_quantity = Abs(fill[r])
        /\ job[r].entry_permission
        /\ fill[r] > 0 <=> job[r].target_direction = "LONG"

\* The trail is written in an order that never promises too much, whatever run
\* fails in between: an execution record has its risk audit, over the same
\* quantity and under the same decision_id, and a decision record with a
\* quantity has its execution record.
TrailIsBacked ==
    /\ \A e \in execLog : \E a \in riskLog :
          a.run = e.run /\ a.decision_id = e.decision_id /\ a.final_quantity = e.total_filled_qty
    /\ \A d \in decisionLog : d.target_quantity > 0 =>
          \E e \in execLog :
             e.run = d.run /\ e.decision_id = d.decision_id /\ e.total_filled_qty = d.target_quantity

\* A request that is answered is completely on record, vetoed or not
\* (audit_flow.md: every significant event is logged).
AnsweredIsRecorded ==
    \A r \in Runs : pc[r] = "done" =>
        /\ RiskAuditOf(r) \in riskLog
        /\ DecisionRecordOf(r) \in decisionLog
        /\ Actionable(job[r].plan) => ExecutionRecordOf(r) \in execLog

\* A fill gets its execution record unless its run fails.
FillsAreRecorded ==
    \A r \in Runs : fill[r] # 0 ~> (pc[r] = "failed" \/ \E e \in execLog : e.run = r)

=============================================================================
