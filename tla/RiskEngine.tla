----------------------------- MODULE RiskEngine -----------------------------
(***************************************************************************)
(* The risk engine of core/risk as a function: the six sizing calculators, *)
(* the seven filters, and RiskEngine.calculate(), which turns a decision   *)
(* of the arbitration layer into a position plan.                          *)
(*                                                                         *)
(* Quantities are whole lots and prices whole ticks; every ratio of the    *)
(* code is an integer percentage, and a division rounds down.  A market    *)
(* context c is what a caller passes to calculate(), and h is the position *)
(* it reports.                                                             *)
(***************************************************************************)
EXTENDS Integers

CONSTANTS
    Equity,             \* the portfolio's total_equity
    MaxPositionPct,     \* the fields of RiskLimits, in per cent ...
    MaxLossPctPerTrade,
    MaxLossPctPerDay,
    MaxDrawdownPct,
    MaxCorrelation,
    MaxOrderSizePct,
    MaxSlippageBps      \* ... and this one in basis points

ASSUME RiskLimits ==
    /\ {Equity, MaxLossPctPerDay, MaxSlippageBps} \subseteq Nat
    /\ {MaxPositionPct, MaxLossPctPerTrade, MaxDrawdownPct, MaxCorrelation, MaxOrderSizePct}
           \subseteq 1..100

Urgencies == {"low", "medium", "high"}

Biases == {"long_bias", "short_bias", "exit_bias", "reduce_risk", "hold_bias", "no_trade"}

\* MarketContext and the keyword arguments of calculate(): adv, vol and atr are
\* 0 when unknown, kelly is the half-Kelly percentage (0 without a history or
\* an edge), corr the strongest correlation with another position (0 if there
\* is no data), and offsets says that every other position is of the opposite
\* direction.
MarketContext ==
    [price: Nat \ {0}, adv: Nat, vol: Nat, atr: Nat, confidence: 0..100, kelly: Nat,
     daily: Nat, drawdown: Nat, corr: 0..100, offsets: BOOLEAN, urgency: Urgencies]

\* existing_position_qty, existing_direction and avg_entry_price.
Holding == [qty: Nat, dir: {"long", "short", "flat"}, entry: Nat]

Abs(n) == IF n < 0 THEN -n ELSE n
Lower(a, b) == IF a <= b THEN a ELSE b
Higher(a, b) == IF a <= b THEN b ELSE a

-----------------------------------------------------------------------------
(* Sizing: what each calculator proposes, in the order of the chain *)

VolatilityTargeting(c) ==
    IF c.vol = 0 THEN 0 ELSE (15 * Equity) \div (c.price * c.vol)

KellyFraction(c) == (Equity * c.kelly) \div (100 * c.price)

ConvictionWeighted(c) == (5 * Equity * c.confidence) \div (10000 * c.price)

\* One per cent of the equity over a stop of one ATR, or of one per cent.
FixedFraction(c) ==
    IF c.atr > 0 THEN Equity \div (100 * c.atr) ELSE Equity \div c.price

DrawdownAdjusted(c) == (5 * Equity * Higher(0, 100 - c.drawdown)) \div (10000 * c.price)

\* calculate() does not hand the regime on: the multiplier is always that of
\* an unknown one, 0.8.
RegimeBased(c) == (5 * Equity * 80) \div (10000 * c.price)

Sizes(c) ==
    << VolatilityTargeting(c), KellyFraction(c), ConvictionWeighted(c),
       FixedFraction(c), DrawdownAdjusted(c), RegimeBased(c) >>

\* The first method of the chain that proposes something decides.
RunSizingChain(c) ==
    IF \E i \in 1..6 : Sizes(c)[i] > 0
    THEN Sizes(c)[CHOOSE i \in 1..6 : Sizes(c)[i] > 0 /\ \A j \in 1..(i-1) : Sizes(c)[j] <= 0]
    ELSE 0

-----------------------------------------------------------------------------
(* The filters.  Each is applied to a positive quantity and passes it, caps *)
(* it or vetoes it.                                                         *)

Pass(q) == [qty |-> q, passed |-> TRUE]
Cap(q, limit) == Pass(Lower(q, limit))
Veto == [qty |-> 0, passed |-> FALSE]

PositionCap(c) == (Equity * MaxPositionPct) \div (100 * c.price)

\* A plausible slip: the limit is not divided by the price.
PositionLimitInCash(q, c) == Cap(q, (Equity * MaxPositionPct) \div 100)

\* The limit is compared with the order; the position it adds to is not looked at.
PositionLimit(q, c) == Cap(q, PositionCap(c))

\* The distance to the entry price counts whether it is a loss or a gain.
TradeLossBreached(q, c, h) ==
    h.entry > 0 /\ 100 * (q * Abs(c.price - h.entry)) > Equity * MaxLossPctPerTrade

DailyLossBreached(c) == MaxLossPctPerDay > 0 /\ c.daily > MaxLossPctPerDay

LossLimit(q, c, h) ==
    IF TradeLossBreached(q, c, h) \/ DailyLossBreached(c) THEN Veto ELSE Pass(q)

DrawdownBreached(c) == c.drawdown >= MaxDrawdownPct

DrawdownLimit(q, c) == IF DrawdownBreached(c) THEN Veto ELSE Pass(q)

\* What is left of an order in the direction of correlated positions: the
\* excess over the limit is taken off, but never more than three quarters.
CorrelationRatio(c) ==
    Higher(25, 100 - (100 * (c.corr - MaxCorrelation)) \div (100 - MaxCorrelation))

CorrelationLimit(q, c) ==
    IF c.corr <= MaxCorrelation \/ c.offsets THEN Pass(q)
    ELSE LET adjusted == (q * CorrelationRatio(c)) \div 100
         IN IF adjusted <= 0 THEN Veto ELSE Pass(adjusted)

AdvCap(c) == (c.adv * Lower(10 * MaxOrderSizePct, 20)) \div 100

LiquidityCap(q, c) == IF c.adv = 0 THEN Pass(q) ELSE Cap(q, AdvCap(c))

MaxParticipation(urgency) ==
    CASE urgency = "low" -> 5 [] urgency = "medium" -> 10 [] urgency = "high" -> 20

ParticipationCap(c, urgency) == (c.adv * MaxParticipation(urgency)) \div 100

ParticipationRate(q, c, urgency) ==
    IF c.adv = 0 THEN Pass(q) ELSE Cap(q, ParticipationCap(c, urgency))

SlippageLimit(q, estimate) == IF estimate <= MaxSlippageBps THEN Pass(q) ELSE Veto

-----------------------------------------------------------------------------
(* The chain of filters *)

\* A filter's result r is only asked for while something is left, and a veto
\* stands whatever the later filters say.
Apply(s, r) ==
    [qty |-> IF s.qty <= 0 THEN 0 ELSE r.qty, veto |-> s.veto \/ (s.qty > 0 /\ ~ r.passed)]

\* The filters that look at the portfolio and its history ...
PortfolioFilters(q, c, h) ==
    LET s0 == [qty |-> q, veto |-> FALSE]
        s1 == Apply(s0, PositionLimit(s0.qty, c))
        s2 == Apply(s1, LossLimit(s1.qty, c, h))
        s3 == Apply(s2, DrawdownLimit(s2.qty, c))
    IN  Apply(s3, CorrelationLimit(s3.qty, c))

\* ... and then those that look at the market.  _run_filters() hands neither the
\* urgency nor a slippage estimate to them: they use "medium" and 0.
RunFilters(q, c, h) ==
    LET s4 == PortfolioFilters(q, c, h)
        s5 == Apply(s4, LiquidityCap(s4.qty, c))
        s6 == Apply(s5, ParticipationRate(s5.qty, c, "medium"))
        s7 == Apply(s6, SlippageLimit(s6.qty, 0))
    IN  [qty |-> s7.qty, veto |-> s7.veto \/ s7.qty <= 0]

-----------------------------------------------------------------------------
(* The execution planner *)

Reducing(bias) == bias \in {"exit_bias", "reduce_risk"}

\* The square-root impact 10 * vol * sqrt(q / adv) exceeds a number of basis
\* points, in squares; without a volume or a volatility it is 0.
ImpactAbove(q, c, bps) == 100 * (c.vol * c.vol * q) > bps * bps * c.adv
ImpactAtLeast(q, c, bps) == 100 * (c.vol * c.vol * q) >= bps * bps * c.adv
HasImpact(c) == c.adv > 0 /\ c.vol > 0

SelectAlgorithm(bias, q, c) ==
    IF Reducing(bias) THEN "market"
    ELSE IF HasImpact(c) /\ ImpactAbove(q, c, 100) THEN "iceberg"
    ELSE IF c.vol > 30 THEN "adaptive"
    ELSE IF HasImpact(c) /\ ImpactAtLeast(q, c, 50) THEN "vwap"
    ELSE IF c.urgency = "high" THEN "market"
    ELSE "limit"

-----------------------------------------------------------------------------
(* RiskEngine.calculate() *)

\* A plausible slip: a reduction that has no action of its own.
ExecActionUnmapped(bias, h) ==
    CASE bias = "long_bias" -> "BUY"
      [] bias = "exit_bias" /\ h.dir = "short" -> "BUY"
      [] bias = "reduce_risk" -> "FLAT"
      [] OTHER -> "SELL"

\* The matrix of biases and existing directions; a zero plan has no action.
ExecAction(bias, h) ==
    IF bias = "long_bias" \/ (Reducing(bias) /\ h.dir = "short") THEN "BUY" ELSE "SELL"

\* A plausible slip: only an exit is clamped.
ClampExitsOnly(bias, q, h) ==
    IF bias = "exit_bias" /\ h.qty > 0 THEN Lower(q, h.qty) ELSE q

\* An exit or a reduction is no larger than the reported position.
Clamp(bias, q, h) == IF Reducing(bias) /\ h.qty > 0 THEN Lower(q, h.qty) ELSE q

Plans ==
    [bias: Biases, action: {"BUY", "SELL", "none"}, qty: Nat, veto: BOOLEAN, algorithm:
        {"market", "limit", "vwap", "iceberg", "adaptive", "none"}]

ZeroPlan(bias) ==
    [bias |-> bias, action |-> "none", qty |-> 0, veto |-> TRUE, algorithm |-> "none"]

\* The decision says no, there is nothing to exit or reduce, or no method
\* proposes a size.
NothingToDo(bias, c, h) ==
    \/ bias \in {"no_trade", "hold_bias"}
    \/ Reducing(bias) /\ h.dir = "flat"
    \/ RunSizingChain(c) <= 0

\* A plan with a quantity carries an execution plan, here its algorithm.
FilteredPlan(bias, c, h) ==
    LET f == RunFilters(Clamp(bias, RunSizingChain(c), h), c, h)
        final == IF f.veto THEN 0 ELSE f.qty
    IN  [bias |-> bias, action |-> ExecAction(bias, h), qty |-> final, veto |-> f.veto,
         algorithm |-> IF final > 0 THEN SelectAlgorithm(bias, final, c) ELSE "none"]

Calculate(bias, c, h) ==
    IF NothingToDo(bias, c, h) THEN ZeroPlan(bias) ELSE FilteredPlan(bias, c, h)

-----------------------------------------------------------------------------
(* What its callers make of a plan *)

\* The orchestrator executes only a plan with a quantity and without a veto ...
Actionable(plan) == plan.algorithm # "none" /\ plan.qty > 0 /\ ~ plan.veto

\* A plausible slip: the side is taken from the wrong action.
SignedBackwards(plan) == IF plan.action = "SELL" THEN plan.qty ELSE - plan.qty

\* ... and takes the side of the order from its action.
Signed(plan) == IF plan.action = "BUY" THEN plan.qty ELSE - plan.qty

\* What a plan promises whatever the order in which the filters shrink it: the
\* quantity that is left satisfies every limit the filters are given at once,
\* also those that were checked against a larger quantity, and it is zero
\* exactly if the plan is vetoed (phase7_planning.md, D9).
WithinLimits(plan, c, h) ==
    /\ plan.veto <=> plan.qty = 0
    /\ plan.veto <=> plan.algorithm = "none"
    /\ plan.qty > 0 =>
          /\ plan.qty <= RunSizingChain(c)
          /\ plan.qty <= PositionCap(c)
          /\ c.adv > 0 => plan.qty <= AdvCap(c) /\ plan.qty <= ParticipationCap(c, "medium")
          /\ ~ TradeLossBreached(plan.qty, c, h)
          /\ ~ DailyLossBreached(c)
          /\ ~ DrawdownBreached(c)

=============================================================================
