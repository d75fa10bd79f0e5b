------------------------- MODULE RiskEngine_proofs --------------------------
(***************************************************************************)
(* Lemmas about RiskEngine.calculate(), for every portfolio, all limits    *)
(* and all market contexts, up to PlansAreSound, on which the proofs about *)
(* its callers rest.                                                       *)
(***************************************************************************)
EXTENDS RiskEngine, TLAPS

-----------------------------------------------------------------------------
(* Arithmetic *)

\* The helpers choose one of their arguments.
LEMMA LowerHigher ==
    ASSUME NEW a \in Int, NEW b \in Int
    PROVE  /\ Lower(a, b) \in {a, b} /\ Lower(a, b) <= a /\ Lower(a, b) <= b
           /\ Higher(a, b) \in {a, b} /\ Higher(a, b) >= a /\ Higher(a, b) >= b
BY DEF Lower, Higher

LEMMA AbsNat == ASSUME NEW a \in Int PROVE Abs(a) \in Nat /\ (Abs(a) = 0 <=> a = 0)
BY DEF Abs

LEMMA DivNat ==
    ASSUME NEW a \in Nat, NEW b \in Nat \ {0}
    PROVE  a \div b \in Nat
BY SMT

LEMMA TimesNat == ASSUME NEW a \in Nat, NEW b \in Nat PROVE a * b \in Nat
BY SMT

LEMMA TimesPos == ASSUME NEW a \in Nat \ {0}, NEW b \in Nat \ {0} PROVE a * b \in Nat \ {0}
BY SMT

LEMMA TimesMonotone ==
    ASSUME NEW a \in Nat, NEW b \in Nat, NEW d \in Nat, a <= b
    PROVE  a * d <= b * d
BY SMT

\* A percentage of a quantity is no more than the quantity.
LEMMA Percentage ==
    ASSUME NEW q \in Nat, NEW r \in Nat, r <= 100
    PROVE  (q * r) \div 100 \in Nat /\ (q * r) \div 100 <= q
<1>1. q * r \in Nat /\ q * r <= 100 * q
  BY SMT
<1>2. QED
  BY <1>1, SMT

-----------------------------------------------------------------------------
(* Sizing *)

\* Every calculator proposes a natural number.
LEMMA SizesType ==
    ASSUME NEW c \in MarketContext
    PROVE  \A i \in 1..6 : Sizes(c)[i] \in Nat
<1> USE RiskLimits
<1>0. /\ c.price \in Nat \ {0} /\ c.vol \in Nat /\ c.atr \in Nat /\ c.confidence \in Nat
      /\ c.kelly \in Nat /\ c.drawdown \in Nat /\ Equity \in Nat
  BY DEF MarketContext
<1>1. VolatilityTargeting(c) \in Nat
  <2>1. CASE c.vol = 0
    BY <2>1 DEF VolatilityTargeting
  <2>2. CASE c.vol # 0
    <3>1. c.price * c.vol \in Nat \ {0}
      BY <1>0, <2>2, TimesPos
    <3>2. 15 * Equity \in Nat
      BY <1>0
    <3>3. (15 * Equity) \div (c.price * c.vol) \in Nat
      BY <3>1, <3>2, DivNat
    <3>4. QED
      BY <3>3, <2>2 DEF VolatilityTargeting
  <2>3. QED
    BY <2>1, <2>2
<1>2. /\ 100 * c.price \in Nat \ {0} /\ 10000 * c.price \in Nat \ {0}
  BY <1>0
<1>3. KellyFraction(c) \in Nat
  <2>1. Equity * c.kelly \in Nat
    BY <1>0, TimesNat
  <2>2. QED
    BY <2>1, <1>2, DivNat DEF KellyFraction
<1>4. ConvictionWeighted(c) \in Nat
  <2>1. 5 * Equity \in Nat
    BY <1>0
  <2>2. 5 * Equity * c.confidence \in Nat
    BY <2>1, <1>0, TimesNat
  <2>3. QED
    BY <2>2, <1>2, DivNat DEF ConvictionWeighted
<1>5. FixedFraction(c) \in Nat
  <2>1. CASE c.atr > 0
    <3>1. 100 * c.atr \in Nat \ {0}
      BY <1>0, <2>1
    <3>2. Equity \div (100 * c.atr) \in Nat
      BY <3>1, <1>0, DivNat
    <3>3. QED
      BY <3>2, <2>1 DEF FixedFraction
  <2>2. CASE ~ (c.atr > 0)
    BY <2>2, <1>0, DivNat DEF FixedFraction
  <2>3. QED
    BY <2>1, <2>2
<1>6. DrawdownAdjusted(c) \in Nat
  <2>1. Higher(0, 100 - c.drawdown) \in Nat
    BY <1>0 DEF Higher
  <2>2. 5 * Equity \in Nat
    BY <1>0
  <2>3. 5 * Equity * Higher(0, 100 - c.drawdown) \in Nat
    BY <2>1, <2>2, TimesNat
  <2>4. QED
    BY <2>3, <1>2, DivNat DEF DrawdownAdjusted
<1>7. RegimeBased(c) \in Nat
  <2>1. 5 * Equity * 80 \in Nat
    BY <1>0
  <2>2. QED
    BY <2>1, <1>2, DivNat DEF RegimeBased
<1>8. /\ Sizes(c)[1] = VolatilityTargeting(c) /\ Sizes(c)[2] = KellyFraction(c)
      /\ Sizes(c)[3] = ConvictionWeighted(c) /\ Sizes(c)[4] = FixedFraction(c)
      /\ Sizes(c)[5] = DrawdownAdjusted(c) /\ Sizes(c)[6] = RegimeBased(c)
  BY DEF Sizes
<1>9. \A i \in 1..6 : i = 1 \/ i = 2 \/ i = 3 \/ i = 4 \/ i = 5 \/ i = 6
  OBVIOUS
<1>10. QED
  BY <1>1, <1>3, <1>4, <1>5, <1>6, <1>7, <1>8, <1>9

\* So does the chain.
LEMMA SizingType ==
    ASSUME NEW c \in MarketContext
    PROVE  RunSizingChain(c) \in Nat
<1> DEFINE First(i) == Sizes(c)[i] > 0 /\ \A j \in 1..(i-1) : Sizes(c)[j] <= 0
<1>1. CASE \E i \in 1..6 : Sizes(c)[i] > 0
  <2>1. \E i \in 1..6 : First(i)
    <3>1. \A i \in 1..6 : Sizes(c)[i] \in Nat
      BY SizesType
    <3>2. \/ Sizes(c)[1] > 0 \/ Sizes(c)[2] > 0 \/ Sizes(c)[3] > 0
          \/ Sizes(c)[4] > 0 \/ Sizes(c)[5] > 0 \/ Sizes(c)[6] > 0
      <4>1. \A i \in 1..6 : i = 1 \/ i = 2 \/ i = 3 \/ i = 4 \/ i = 5 \/ i = 6
        OBVIOUS
      <4>2. QED
        BY <1>1, <4>1
    <3>3. First(1) \/ First(2) \/ First(3) \/ First(4) \/ First(5) \/ First(6)
      BY <3>1, <3>2
    <3>4. QED
      BY <3>3
  <2>2. (CHOOSE i \in 1..6 : First(i)) \in 1..6
    BY <2>1
  <2>3. RunSizingChain(c) = Sizes(c)[CHOOSE i \in 1..6 : First(i)]
    BY <1>1 DEF RunSizingChain
  <2> HIDE DEF First
  <2>4. QED
    BY <2>2, <2>3, SizesType
<1>2. CASE ~ \E i \in 1..6 : Sizes(c)[i] > 0
  BY <1>2 DEF RunSizingChain
<1>3. QED
  BY <1>1, <1>2

-----------------------------------------------------------------------------
(* The filters *)

LEMMA CapsType ==
    ASSUME NEW c \in MarketContext
    PROVE  /\ PositionCap(c) \in Nat
           /\ AdvCap(c) \in Nat
           /\ ParticipationCap(c, "medium") \in Nat
<1>0. /\ c.price \in Nat \ {0} /\ c.adv \in Nat /\ Equity \in Nat
      /\ MaxPositionPct \in Nat /\ MaxOrderSizePct \in Nat
  BY RiskLimits DEF MarketContext
<1>1. PositionCap(c) \in Nat
  <2>1. Equity * MaxPositionPct \in Nat /\ 100 * c.price \in Nat \ {0}
    BY <1>0, TimesNat
  <2>2. QED
    BY <2>1, DivNat DEF PositionCap
<1>2. AdvCap(c) \in Nat
  <2>1. Lower(10 * MaxOrderSizePct, 20) \in Nat
    BY <1>0 DEF Lower
  <2>2. c.adv * Lower(10 * MaxOrderSizePct, 20) \in Nat
    BY <1>0, <2>1, TimesNat
  <2>3. QED
    BY <2>2, DivNat DEF AdvCap
<1>3. ParticipationCap(c, "medium") \in Nat
  <2>1. MaxParticipation("medium") = 10
    BY DEF MaxParticipation
  <2>2. c.adv * 10 \in Nat
    BY <1>0
  <2>3. QED
    BY <2>1, <2>2, DivNat DEF ParticipationCap
<1>4. QED
  BY <1>1, <1>2, <1>3

\* What a filter may answer: it never raises a quantity, and a veto is zero.
Answer(r, q) ==
    /\ r.qty \in Nat /\ r.qty <= q
    /\ r.passed \in BOOLEAN /\ (~ r.passed => r.qty = 0)

LEMMA CapAnswers ==
    ASSUME NEW q \in Nat, NEW limit \in Nat
    PROVE  Answer(Cap(q, limit), q) /\ Cap(q, limit).qty <= limit
BY LowerHigher DEF Answer, Cap, Pass, Lower

LEMMA PassAnswers == ASSUME NEW q \in Nat PROVE Answer(Pass(q), q) /\ Answer(Veto, q)
BY DEF Answer, Pass, Veto

LEMMA CorrelationAnswers ==
    ASSUME NEW c \in MarketContext, NEW q \in Nat
    PROVE  Answer(CorrelationLimit(q, c), q)
<1>1. CASE c.corr <= MaxCorrelation \/ c.offsets
  BY <1>1, PassAnswers DEF CorrelationLimit
<1>2. CASE ~ (c.corr <= MaxCorrelation \/ c.offsets)
  <2> DEFINE r == CorrelationRatio(c)
             adjusted == (q * r) \div 100
  <2>1. /\ c.corr - MaxCorrelation \in Nat /\ 100 - MaxCorrelation \in Nat \ {0}
    BY <1>2, RiskLimits DEF MarketContext
  <2>2. (100 * (c.corr - MaxCorrelation)) \div (100 - MaxCorrelation) \in Nat
    <3>1. 100 * (c.corr - MaxCorrelation) \in Nat
      BY <2>1
    <3>2. QED
      BY <2>1, <3>1, DivNat
  <2>3. r \in Nat /\ r <= 100
    BY <2>2 DEF CorrelationRatio, Higher
  <2>4. adjusted \in Nat /\ adjusted <= q
    BY <2>3, Percentage
  <2>5. CorrelationLimit(q, c) = IF adjusted <= 0 THEN Veto ELSE Pass(adjusted)
    BY <1>2 DEF CorrelationLimit
  <2> HIDE DEF adjusted
  <2>6. CASE adjusted <= 0
    BY <2>5, <2>6, PassAnswers
  <2>7. CASE ~ (adjusted <= 0)
    <3>1. Answer(Pass(adjusted), adjusted)
      BY <2>4, PassAnswers
    <3>2. Answer(Pass(adjusted), q)
      BY <2>4, <3>1 DEF Answer
    <3>3. QED
      BY <2>5, <2>7, <3>2
  <2>8. QED
    BY <2>6, <2>7
<1>3. QED
  BY <1>1, <1>2

\* A smaller order loses no more.
LEMMA TradeLossMonotone ==
    ASSUME NEW c \in MarketContext, NEW h \in Holding, NEW p \in Nat, NEW q \in Nat, p <= q,
           TradeLossBreached(p, c, h)
    PROVE  TradeLossBreached(q, c, h)
<1> DEFINE d == Abs(c.price - h.entry)
<1>1. d \in Nat
  BY AbsNat DEF MarketContext, Holding
<1>2. p * d \in Nat /\ q * d \in Nat /\ p * d <= q * d
  BY <1>1, TimesNat, TimesMonotone
<1>3. Equity * MaxLossPctPerTrade \in Nat
  BY RiskLimits, TimesNat
<1>4. h.entry > 0 /\ 100 * (p * d) > Equity * MaxLossPctPerTrade
  BY DEF TradeLossBreached
<1> HIDE DEF d
<1>5. 100 * (q * d) > Equity * MaxLossPctPerTrade
  BY <1>2, <1>3, <1>4
<1>6. QED
  BY <1>4, <1>5 DEF TradeLossBreached, d

-----------------------------------------------------------------------------
(* The chain *)

\* What holds between the filters: a veto has left nothing.
Link(s) ==
    /\ s.qty \in Nat /\ s.veto \in BOOLEAN /\ (s.veto => s.qty = 0)

\* One filter keeps that, lowers the quantity or leaves it, and if anything is
\* left it has passed exactly that.
LEMMA ApplyLinks ==
    ASSUME NEW s, NEW r, Link(s), Answer(r, s.qty)
    PROVE  /\ Link(Apply(s, r))
           /\ Apply(s, r).qty <= s.qty
           /\ Apply(s, r).qty > 0 => s.qty > 0 /\ r.passed /\ r.qty = Apply(s, r).qty
<1>1. /\ s.qty \in Nat /\ s.veto \in BOOLEAN /\ (s.veto => s.qty = 0)
      /\ r.qty \in Nat /\ r.qty <= s.qty /\ r.passed \in BOOLEAN /\ (~ r.passed => r.qty = 0)
  BY DEF Link, Answer
<1>2. /\ Apply(s, r).qty = IF s.qty <= 0 THEN 0 ELSE r.qty
      /\ Apply(s, r).veto = (s.veto \/ (s.qty > 0 /\ ~ r.passed))
  BY DEF Apply
<1>3. Apply(s, r).qty \in Nat /\ Apply(s, r).qty <= s.qty
  BY <1>1, <1>2
<1>4. Apply(s, r).veto \in BOOLEAN
  BY <1>1, <1>2
<1>5. Apply(s, r).veto => Apply(s, r).qty = 0
  BY <1>1, <1>2
<1>6. Apply(s, r).qty > 0 => s.qty > 0 /\ r.passed /\ r.qty = Apply(s, r).qty
  BY <1>1, <1>2
<1>7. QED
  BY <1>3, <1>4, <1>5, <1>6 DEF Link

\* The whole chain: what is left is within every limit.
LEMMA FiltersHold ==
    ASSUME NEW c \in MarketContext, NEW h \in Holding, NEW q \in Nat
    PROVE  LET f == RunFilters(q, c, h)
           IN  /\ f.qty \in Nat /\ f.qty <= q
               /\ f.veto \in BOOLEAN /\ (f.veto <=> f.qty = 0)
               /\ f.qty > 0 =>
                     /\ f.qty <= PositionCap(c)
                     /\ c.adv > 0 => f.qty <= AdvCap(c) /\ f.qty <= ParticipationCap(c, "medium")
                     /\ ~ TradeLossBreached(f.qty, c, h)
                     /\ ~ DailyLossBreached(c)
                     /\ ~ DrawdownBreached(c)
<1> DEFINE s0 == [qty |-> q, veto |-> FALSE]
           s1 == Apply(s0, PositionLimit(s0.qty, c))
           s2 == Apply(s1, LossLimit(s1.qty, c, h))
           s3 == Apply(s2, DrawdownLimit(s2.qty, c))
           s4 == Apply(s3, CorrelationLimit(s3.qty, c))
           s5 == Apply(s4, LiquidityCap(s4.qty, c))
           s6 == Apply(s5, ParticipationRate(s5.qty, c, "medium"))
           s7 == Apply(s6, SlippageLimit(s6.qty, 0))
           f  == RunFilters(q, c, h)
<1>0. f = [qty |-> s7.qty, veto |-> s7.veto \/ s7.qty <= 0]
  BY DEF RunFilters, PortfolioFilters
<1>1. Link(s0) /\ s0.qty = q
  BY DEF Link
<1>2. /\ Link(s1) /\ s1.qty <= s0.qty
      /\ s1.qty > 0 => s0.qty > 0 /\ s1.qty <= PositionCap(c)
  <2> HIDE DEF s0
  <2>1. s0.qty \in Nat
    BY <1>1 DEF Link
  <2>2. /\ Answer(PositionLimit(s0.qty, c), s0.qty)
        /\ PositionLimit(s0.qty, c).qty <= PositionCap(c)
    BY <2>1, CapsType, CapAnswers DEF PositionLimit
  <2>3. QED
    BY <1>1, <2>2, ApplyLinks
<1>3. /\ Link(s2) /\ s2.qty <= s1.qty
      /\ s2.qty > 0 => s1.qty > 0 /\ ~ TradeLossBreached(s1.qty, c, h) /\ ~ DailyLossBreached(c)
  <2> HIDE DEF s1
  <2>1. s1.qty \in Nat
    BY <1>2 DEF Link
  <2>2. Answer(LossLimit(s1.qty, c, h), s1.qty)
    BY <2>1, PassAnswers DEF LossLimit
  <2>3. LossLimit(s1.qty, c, h).passed
            => ~ TradeLossBreached(s1.qty, c, h) /\ ~ DailyLossBreached(c)
    BY DEF LossLimit, Veto
  <2>4. QED
    BY <1>2, <2>2, <2>3, ApplyLinks
<1>4. /\ Link(s3) /\ s3.qty <= s2.qty
      /\ s3.qty > 0 => s2.qty > 0 /\ ~ DrawdownBreached(c)
  <2> HIDE DEF s2
  <2>1. s2.qty \in Nat
    BY <1>3 DEF Link
  <2>2. Answer(DrawdownLimit(s2.qty, c), s2.qty)
    BY <2>1, PassAnswers DEF DrawdownLimit
  <2>3. DrawdownLimit(s2.qty, c).passed => ~ DrawdownBreached(c)
    BY DEF DrawdownLimit, Veto
  <2>4. QED
    BY <1>3, <2>2, <2>3, ApplyLinks
<1>5. Link(s4) /\ s4.qty <= s3.qty /\ (s4.qty > 0 => s3.qty > 0)
  <2> HIDE DEF s3
  <2>1. s3.qty \in Nat
    BY <1>4 DEF Link
  <2>2. Answer(CorrelationLimit(s3.qty, c), s3.qty)
    BY <2>1, CorrelationAnswers
  <2>3. QED
    BY <1>4, <2>2, ApplyLinks
<1>6. /\ Link(s5) /\ s5.qty <= s4.qty
      /\ s5.qty > 0 => s4.qty > 0 /\ (c.adv > 0 => s5.qty <= AdvCap(c))
  <2> HIDE DEF s4
  <2>1. s4.qty \in Nat
    BY <1>5 DEF Link
  <2>2. /\ Answer(LiquidityCap(s4.qty, c), s4.qty)
        /\ c.adv > 0 => LiquidityCap(s4.qty, c).qty <= AdvCap(c)
    <3>1. CASE c.adv = 0
      BY <2>1, <3>1, PassAnswers DEF LiquidityCap
    <3>2. CASE c.adv # 0
      BY <2>1, <3>2, CapsType, CapAnswers DEF LiquidityCap
    <3>3. QED
      BY <3>1, <3>2
  <2>3. QED
    BY <1>5, <2>2, ApplyLinks
<1>7. /\ Link(s6) /\ s6.qty <= s5.qty
      /\ s6.qty > 0 => s5.qty > 0 /\ (c.adv > 0 => s6.qty <= ParticipationCap(c, "medium"))
  <2> HIDE DEF s5
  <2>1. s5.qty \in Nat
    BY <1>6 DEF Link
  <2>2. /\ Answer(ParticipationRate(s5.qty, c, "medium"), s5.qty)
        /\ c.adv > 0 => ParticipationRate(s5.qty, c, "medium").qty <= ParticipationCap(c, "medium")
    <3>1. CASE c.adv = 0
      BY <2>1, <3>1, PassAnswers DEF ParticipationRate
    <3>2. CASE c.adv # 0
      BY <2>1, <3>2, CapsType, CapAnswers DEF ParticipationRate
    <3>3. QED
      BY <3>1, <3>2
  <2>3. QED
    BY <1>6, <2>2, ApplyLinks
<1>8. Link(s7) /\ s7.qty <= s6.qty /\ (s7.qty > 0 => s6.qty > 0)
  <2> HIDE DEF s6
  <2>1. s6.qty \in Nat
    BY <1>7 DEF Link
  <2>2. Answer(SlippageLimit(s6.qty, 0), s6.qty)
    BY <2>1, PassAnswers DEF SlippageLimit
  <2>3. QED
    BY <1>7, <2>2, ApplyLinks
<1> HIDE DEF s0, s1, s2, s3, s4, s5, s6, s7, f
<1>9. /\ s7.qty \in Nat /\ s6.qty \in Nat /\ s5.qty \in Nat /\ s4.qty \in Nat
      /\ s3.qty \in Nat /\ s2.qty \in Nat /\ s1.qty \in Nat /\ s7.veto \in BOOLEAN
      /\ s7.veto => s7.qty = 0
  BY <1>2, <1>3, <1>4, <1>5, <1>6, <1>7, <1>8 DEF Link
<1>10. s7.qty <= s5.qty /\ s7.qty <= s1.qty /\ s7.qty <= q
  BY <1>1, <1>2, <1>3, <1>4, <1>5, <1>6, <1>7, <1>8, <1>9
<1>11. f.qty = s7.qty /\ f.veto = (s7.veto \/ s7.qty <= 0)
  BY <1>0
<1>12. f.veto \in BOOLEAN /\ (f.veto <=> f.qty = 0)
  <2>1. s7.qty <= 0 <=> s7.qty = 0
    BY <1>9
  <2>2. QED
    BY <1>9, <1>11, <2>1
<1>13. ASSUME s7.qty > 0
       PROVE  /\ s7.qty <= PositionCap(c)
              /\ c.adv > 0 => s7.qty <= AdvCap(c) /\ s7.qty <= ParticipationCap(c, "medium")
              /\ ~ TradeLossBreached(s7.qty, c, h)
              /\ ~ DailyLossBreached(c)
              /\ ~ DrawdownBreached(c)
  <2>1. /\ s6.qty > 0 /\ s5.qty > 0 /\ s4.qty > 0 /\ s3.qty > 0 /\ s2.qty > 0 /\ s1.qty > 0
    BY <1>13, <1>3, <1>4, <1>5, <1>6, <1>7, <1>8
  <2>2. /\ PositionCap(c) \in Nat /\ AdvCap(c) \in Nat /\ ParticipationCap(c, "medium") \in Nat
    BY CapsType
  <2>3. s7.qty <= PositionCap(c)
    BY <1>2, <1>9, <1>10, <2>1, <2>2
  <2>4. ASSUME c.adv > 0
        PROVE  s7.qty <= AdvCap(c) /\ s7.qty <= ParticipationCap(c, "medium")
    BY <1>6, <1>7, <1>8, <1>9, <1>10, <2>1, <2>2, <2>4
  <2>5. ~ TradeLossBreached(s7.qty, c, h)
    BY <1>3, <1>9, <1>10, <2>1, TradeLossMonotone
  <2>6. QED
    BY <1>3, <1>4, <2>1, <2>3, <2>4, <2>5
<1>14. QED
  BY <1>9, <1>10, <1>11, <1>12, <1>13 DEF f

-----------------------------------------------------------------------------
(* calculate() *)

\* What the proof needs of a plan for a reduction: it closes, at most, what the
\* caller holds.
FitsHolding(plan, h) ==
    Reducing(plan.bias) /\ plan.qty > 0 =>
        /\ h.dir # "flat"
        /\ h.qty > 0 => plan.qty <= h.qty
        /\ plan.action = IF h.dir = "short" THEN "BUY" ELSE "SELL"

LEMMA AlgorithmType ==
    ASSUME NEW bias, NEW q, NEW c
    PROVE  SelectAlgorithm(bias, q, c) \in {"market", "limit", "vwap", "iceberg", "adaptive"}
BY DEF SelectAlgorithm

\* Every plan is well typed, within its limits and fits the reported position.
LEMMA PlansAreSound ==
    ASSUME NEW bias \in Biases, NEW c \in MarketContext, NEW h \in Holding
    PROVE  /\ Calculate(bias, c, h) \in Plans
           /\ WithinLimits(Calculate(bias, c, h), c, h)
           /\ FitsHolding(Calculate(bias, c, h), h)
<1>1. CASE NothingToDo(bias, c, h)
  <2>1. Calculate(bias, c, h) = ZeroPlan(bias)
    BY <1>1 DEF Calculate
  <2>2. /\ ZeroPlan(bias) \in Plans /\ WithinLimits(ZeroPlan(bias), c, h)
        /\ FitsHolding(ZeroPlan(bias), h)
    BY DEF ZeroPlan, Plans, WithinLimits, FitsHolding
  <2>3. QED
    BY <2>1, <2>2
<1>2. CASE ~ NothingToDo(bias, c, h)
  <2> DEFINE q == Clamp(bias, RunSizingChain(c), h)
             f == RunFilters(q, c, h)
             final == IF f.veto THEN 0 ELSE f.qty
             algorithm == IF final > 0 THEN SelectAlgorithm(bias, final, c) ELSE "none"
             plan == FilteredPlan(bias, c, h)
  <2>1. RunSizingChain(c) \in Nat /\ h.qty \in Nat /\ h.dir \in {"long", "short", "flat"}
    BY SizingType DEF Holding
  <2>2. /\ q \in Nat /\ q <= RunSizingChain(c)
        /\ Reducing(bias) /\ h.qty > 0 => q <= h.qty
    BY <2>1 DEF Clamp, Lower
  <2>3. /\ f.qty \in Nat /\ f.qty <= q
        /\ f.veto \in BOOLEAN /\ (f.veto <=> f.qty = 0)
        /\ f.qty > 0 =>
              /\ f.qty <= PositionCap(c)
              /\ c.adv > 0 => f.qty <= AdvCap(c) /\ f.qty <= ParticipationCap(c, "medium")
              /\ ~ TradeLossBreached(f.qty, c, h)
              /\ ~ DailyLossBreached(c)
              /\ ~ DrawdownBreached(c)
    <3> HIDE DEF q
    <3>1. QED
      BY <2>2, FiltersHold
  <2>4. plan = [bias |-> bias, action |-> ExecAction(bias, h), qty |-> final, veto |-> f.veto,
                algorithm |-> algorithm]
    BY DEF FilteredPlan
  <2>5. ExecAction(bias, h) \in {"BUY", "SELL"}
    BY DEF ExecAction
  <2>6. final = f.qty
    BY <2>3
  <2> HIDE DEF q, f, final
  <2>7. /\ algorithm \in {"market", "limit", "vwap", "iceberg", "adaptive", "none"}
        /\ algorithm = "none" <=> ~ (final > 0)
    <3>1. SelectAlgorithm(bias, final, c) \in {"market", "limit", "vwap", "iceberg", "adaptive"}
      BY AlgorithmType
    <3>2. QED
      BY <3>1
  <2> HIDE DEF algorithm
  <2>8. plan \in Plans
    BY <2>3, <2>4, <2>5, <2>6, <2>7 DEF Plans
  <2>9. WithinLimits(plan, c, h)
    <3>1. /\ plan.qty = f.qty /\ plan.veto = f.veto /\ plan.algorithm = algorithm
      BY <2>4, <2>6
    <3>2. plan.veto <=> plan.qty = 0
      BY <2>3, <3>1
    <3>3. plan.veto <=> plan.algorithm = "none"
      <4>1. f.qty = 0 <=> ~ (final > 0)
        BY <2>3, <2>6
      <4>2. QED
        BY <2>3, <2>7, <3>1, <4>1
    <3>4. f.qty <= RunSizingChain(c)
      BY <2>1, <2>2, <2>3
    <3> HIDE DEF plan
    <3>5. QED
      BY <2>3, <3>1, <3>2, <3>3, <3>4 DEF WithinLimits
  <2>10. FitsHolding(plan, h)
    <3>1. SUFFICES ASSUME Reducing(bias), f.qty > 0
                   PROVE  /\ h.dir # "flat"
                          /\ h.qty > 0 => f.qty <= h.qty
                          /\ ExecAction(bias, h) = IF h.dir = "short" THEN "BUY" ELSE "SELL"
      BY <2>4, <2>6 DEF FitsHolding
    <3>2. h.dir # "flat"
      BY <1>2, <3>1 DEF NothingToDo
    <3>3. h.qty > 0 => f.qty <= h.qty
      BY <2>1, <2>2, <2>3, <3>1
    <3>4. ExecAction(bias, h) = IF h.dir = "short" THEN "BUY" ELSE "SELL"
      BY <3>1 DEF ExecAction, Reducing
    <3>5. QED
      BY <3>2, <3>3, <3>4
  <2>11. Calculate(bias, c, h) = plan
    BY <1>2 DEF Calculate
  <2>12. QED
    BY <2>8, <2>9, <2>10, <2>11
<1>3. QED
  BY <1>1, <1>2

=============================================================================
