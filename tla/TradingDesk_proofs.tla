------------------------- MODULE TradingDesk_proofs -------------------------
(***************************************************************************)
(* Proofs about the trading desk, for every portfolio, every set of        *)
(* limits, any number of callers and all market contexts.                  *)
(***************************************************************************)
EXTENDS TradingDesk, RiskEngine_proofs

-----------------------------------------------------------------------------
(* The desk *)

\* A pending order was computed from what its caller saw, and is sound.
OrderOK(o) ==
    /\ o.held.qty = Abs(o.seen)
    /\ o.held.dir = IF o.seen > 0 THEN "long" ELSE IF o.seen < 0 THEN "short" ELSE "flat"
    /\ WithinLimits(o.plan, o.ctx, o.held)
    /\ FitsHolding(o.plan, o.held)

\* The inductive invariant: OrdersWithinLimits strengthened by the link between
\* a plan and the position its caller saw, which ReductionsReduce needs.
DeskInv == TypeOK /\ \A t \in Traders : Pending(t) => OrderOK(order[t])

LEMMA HeldType ==
    ASSUME NEW net \in Int, NEW cost \in Nat
    PROVE  Held(net, cost) \in Holding
BY AbsNat DEF Held, Holding

LEMMA CostType ==
    ASSUME NEW net \in Int, NEW cost \in Nat, NEW plan \in Plans, plan.qty > 0, NEW price \in Nat
    PROVE  NewCost(net, cost, plan, price) \in Nat
<1>1. plan.qty \in Nat /\ Abs(net) \in Nat
  BY AbsNat DEF Plans
<1>2. /\ cost * Abs(net) \in Nat /\ price * plan.qty \in Nat
  BY <1>1, TimesNat
<1>3. Abs(net) + plan.qty \in Nat \ {0}
  BY <1>1
<1>4. cost * Abs(net) + price * plan.qty \in Nat
  BY <1>2
<1>5. (cost * Abs(net) + price * plan.qty) \div (Abs(net) + plan.qty) \in Nat
  BY <1>3, <1>4, DivNat
<1>6. QED
  BY <1>5 DEF NewCost

LEMMA PendingType ==
    ASSUME TypeOK, NEW t \in Traders, Pending(t)
    PROVE  /\ order[t] \in Orders
           /\ order[t].plan \in Plans /\ order[t].ctx \in MarketContext /\ order[t].seen \in Int
           /\ order[t].held \in Holding
<1>1. order[t] \in Orders
  BY DEF TypeOK, Pending
<1>2. QED
  BY <1>1, DeskAssumption DEF Orders

LEMMA DeskInvInit == Init => DeskInv
BY DEF Init, DeskInv, TypeOK, Pending

LEMMA AskStep ==
    ASSUME DeskInv, NEW t \in Traders, NEW bias \in Biases, NEW c \in Contexts, Ask(t, bias, c)
    PROVE  DeskInv'
<1> DEFINE h == Held(position, avgCost)
           o == [plan |-> Calculate(bias, c, h), ctx |-> c, seen |-> position, held |-> h]
<1>1. order' = [order EXCEPT ![t] = o] /\ UNCHANGED <<position, avgCost, fills>>
  BY DEF Ask
<1>2. position \in Int /\ avgCost \in Nat /\ c \in MarketContext
  BY DeskAssumption DEF DeskInv, TypeOK
<1>3. h \in Holding
  BY <1>2, HeldType
<1>4. /\ h.qty = Abs(position)
      /\ h.dir = IF position > 0 THEN "long" ELSE IF position < 0 THEN "short" ELSE "flat"
  BY DEF Held
<1> HIDE DEF h
<1>5. /\ Calculate(bias, c, h) \in Plans
      /\ WithinLimits(Calculate(bias, c, h), c, h)
      /\ FitsHolding(Calculate(bias, c, h), h)
  BY <1>2, <1>3, PlansAreSound
<1>6. o \in Orders /\ OrderOK(o)
  BY <1>2, <1>3, <1>4, <1>5 DEF Orders, OrderOK
<1> HIDE DEF o
<1>7. TypeOK'
  BY <1>1, <1>6 DEF DeskInv, TypeOK
<1>8. \A u \in Traders : Pending(u)' => OrderOK(order'[u])
  BY <1>1, <1>6 DEF DeskInv, TypeOK, Pending
<1>9. QED
  BY <1>7, <1>8 DEF DeskInv

LEMMA SubmitStep ==
    ASSUME DeskInv, NEW t \in Traders, Submit(t)
    PROVE  DeskInv'
<1>1. /\ Pending(t) /\ order[t].plan.qty > 0
      /\ position' = position + Signed(order[t].plan)
      /\ avgCost' = NewCost(position, avgCost, order[t].plan, order[t].ctx.price)
      /\ fills' = fills + 1
      /\ order' = [order EXCEPT ![t] = NoOrder]
  BY DEF Submit, Actionable
<1>2. /\ order[t].plan \in Plans /\ order[t].ctx.price \in Nat /\ order[t].plan.qty \in Nat
  BY <1>1, PendingType DEF DeskInv, MarketContext, Plans
<1>3. position' \in Int
  BY <1>1, <1>2 DEF DeskInv, TypeOK, Signed
<1>4. avgCost' \in Nat
  BY <1>1, <1>2, CostType DEF DeskInv, TypeOK
<1>5. TypeOK'
  BY <1>1, <1>3, <1>4 DEF DeskInv, TypeOK
<1>6. \A u \in Traders : Pending(u)' => OrderOK(order'[u])
  BY <1>1 DEF DeskInv, TypeOK, Pending
<1>7. QED
  BY <1>5, <1>6 DEF DeskInv

LEMMA DropStep ==
    ASSUME DeskInv, NEW t \in Traders, Drop(t)
    PROVE  DeskInv'
BY DEF DeskInv, TypeOK, Drop, Pending

LEMMA DeskInvStep == DeskInv /\ [Next]_vars => DeskInv'
<1>1. SUFFICES ASSUME DeskInv, [Next]_vars PROVE DeskInv'
  OBVIOUS
<1>2. CASE UNCHANGED vars
  BY <1>1, <1>2 DEF DeskInv, TypeOK, Pending, vars
<1>3. CASE Next
  <2>1. PICK t \in Traders :
            \/ \E bias \in Biases, c \in Contexts : Ask(t, bias, c)
            \/ Submit(t)
            \/ Drop(t)
    BY <1>3 DEF Next
  <2>2. QED
    BY <1>1, <2>1, AskStep, SubmitStep, DropStep
<1>4. QED
  BY <1>1, <1>2, <1>3

LEMMA DeskInvHolds == Spec => []DeskInv
BY DeskInvInit, DeskInvStep, PTL DEF Spec

\* The desk's state keeps its type: in particular every quantity the filters
\* leave and every average cost is a natural number.
THEOREM DeskTypeCorrect == Spec => []TypeOK
<1>1. DeskInv => TypeOK
  BY DEF DeskInv
<1>2. QED
  BY <1>1, DeskInvHolds, PTL

\* Whatever the limits, the portfolio and the market, every plan a caller holds
\* satisfies all the limits its filters were given, and is vetoed exactly if
\* its quantity is zero.
THEOREM PlansWithinLimits == Spec => []OrdersWithinLimits
<1>1. DeskInv => OrdersWithinLimits
  BY DEF DeskInv, OrdersWithinLimits, OrderOK
<1>2. QED
  BY <1>1, DeskInvHolds, PTL

\* An exit or a reduction that is executed on the position it was computed for
\* shrinks it and does not turn it round, for any number of callers.
THEOREM ReductionsNeverFlip == Spec => ReductionsReduce
<1> DEFINE Reduces ==
        \A t \in Traders :
            (/\ Submit(t)
             /\ Reducing(order[t].plan.bias)
             /\ order[t].seen = position)
                => \/ position > 0 /\ 0 <= position' /\ position' < position
                   \/ position < 0 /\ 0 >= position' /\ position' > position
<1>1. DeskInv => Reduces
  <2>1. SUFFICES ASSUME DeskInv, NEW t \in Traders, Submit(t),
                        Reducing(order[t].plan.bias), order[t].seen = position
                 PROVE  \/ position > 0 /\ 0 <= position' /\ position' < position
                        \/ position < 0 /\ 0 >= position' /\ position' > position
    OBVIOUS
  <2> DEFINE p == order[t].plan
             h == order[t].held
  <2>2. /\ Pending(t) /\ p.qty > 0 /\ position' = position + Signed(p)
    BY <2>1 DEF Submit, Actionable
  <2>3. p.qty \in Nat /\ position \in Int
    BY <2>1, <2>2, PendingType DEF DeskInv, TypeOK, Plans
  <2>4. /\ h.qty = Abs(position)
        /\ h.dir = IF position > 0 THEN "long" ELSE IF position < 0 THEN "short" ELSE "flat"
        /\ FitsHolding(p, h)
    BY <2>1, <2>2 DEF DeskInv, OrderOK
  <2>5. /\ h.dir # "flat"
        /\ h.qty > 0 => p.qty <= h.qty
        /\ p.action = IF h.dir = "short" THEN "BUY" ELSE "SELL"
    BY <2>1, <2>2, <2>4 DEF FitsHolding
  <2> HIDE DEF p, h
  <2>6. CASE position > 0
    <3>1. h.dir = "long" /\ h.qty = position
      BY <2>3, <2>4, <2>6 DEF Abs
    <3>2. p.action = "SELL" /\ p.qty <= position
      BY <2>3, <2>5, <2>6, <3>1
    <3>3. position' = position - p.qty
      BY <2>2, <2>3, <3>2 DEF Signed
    <3>4. QED
      BY <2>2, <2>3, <2>6, <3>2, <3>3
  <2>7. CASE position < 0
    <3>1. h.dir = "short" /\ h.qty = - position
      BY <2>3, <2>4, <2>7 DEF Abs
    <3>2. p.action = "BUY" /\ p.qty <= - position
      BY <2>3, <2>5, <2>7, <3>1
    <3>3. position' = position + p.qty
      BY <2>2, <2>3, <3>2 DEF Signed
    <3>4. QED
      BY <2>2, <2>3, <2>7, <3>2, <3>3
  <2>8. position # 0
    BY <2>4, <2>5
  <2>9. QED
    BY <2>3, <2>6, <2>7, <2>8
<1>2. DeskInv /\ [Next]_vars =>
        [\A t \in Traders :
            (/\ Submit(t)
             /\ Reducing(order[t].plan.bias)
             /\ order[t].seen = position)
                => \/ position > 0 /\ 0 <= position' /\ position' < position
                   \/ position < 0 /\ 0 >= position' /\ position' > position]_vars
  BY <1>1
<1>3. QED
  BY <1>2, DeskInvHolds, PTL DEF Spec, ReductionsReduce
=============================================================================
