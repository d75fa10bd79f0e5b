---------------------------- MODULE TradingDesk -----------------------------
(***************************************************************************)
(* Several callers trade one symbol: each reports the position it reads    *)
(* from the simulation engine to RiskEngine.calculate(), and later submits *)
(* the plan it got to the engine, which fills it at once and updates the   *)
(* position.  Nothing ties a plan to the position it was computed from, so *)
(* other fills may come in between, and prices move from call to call.     *)
(***************************************************************************)
EXTENDS RiskEngine

CONSTANTS
    Traders,        \* callers of calculate() and submit_intent()
    Contexts,       \* the market contexts they may pass
    MaxFills        \* bound: no plan is asked for after this many fills

ASSUME DeskAssumption ==
    Contexts \subseteq MarketContext /\ MaxFills \in Nat

VARIABLES
    position,       \* PositionState.net_qty
    avgCost,        \* PositionState.avg_cost
    order,          \* order[t]: the plan t holds, what it was computed from, or NoOrder
    fills           \* the number of fills so far

vars == <<position, avgCost, order, fills>>

NoOrder == [plan |-> ZeroPlan("no_trade")]
Orders == [plan: Plans, ctx: Contexts, seen: Int, held: Holding]

Pending(t) == order[t] # NoOrder

TypeOK ==
    /\ position \in Int
    /\ avgCost \in Nat
    /\ order \in [Traders -> Orders \cup {NoOrder}]
    /\ fills \in Nat

Init ==
    /\ position = 0
    /\ avgCost = 0
    /\ order = [t \in Traders |-> NoOrder]
    /\ fills = 0

-----------------------------------------------------------------------------

\* What a caller reports of a PositionState.  avg_cost is not reset when the
\* position is closed, and is reported with it.
Held(net, cost) ==
    [qty   |-> Abs(net),
     dir   |-> IF net > 0 THEN "long" ELSE IF net < 0 THEN "short" ELSE "flat",
     entry |-> cost]

Ask(t, bias, c) ==
    /\ ~ Pending(t)
    /\ fills < MaxFills
    /\ LET h == Held(position, avgCost)
       IN  order' = [order EXCEPT ![t] =
                        [plan |-> Calculate(bias, c, h), ctx |-> c, seen |-> position, held |-> h]]
    /\ UNCHANGED <<position, avgCost, fills>>

\* _update_position(): the new average weighs the fill with what was held,
\* whatever its direction.
NewCost(net, cost, plan, price) ==
    IF net + Signed(plan) = 0 THEN cost
    ELSE (cost * Abs(net) + price * plan.qty) \div (Abs(net) + plan.qty)

Submit(t) ==
    /\ Pending(t)
    /\ Actionable(order[t].plan)
    /\ position' = position + Signed(order[t].plan)
    /\ avgCost' = NewCost(position, avgCost, order[t].plan, order[t].ctx.price)
    /\ fills' = fills + 1
    /\ order' = [order EXCEPT ![t] = NoOrder]

\* A vetoed plan is not executed, and a caller may let any plan go.
Drop(t) ==
    /\ Pending(t)
    /\ order' = [order EXCEPT ![t] = NoOrder]
    /\ UNCHANGED <<position, avgCost, fills>>

Next ==
    \E t \in Traders :
        \/ \E bias \in Biases, c \in Contexts : Ask(t, bias, c)
        \/ Submit(t)
        \/ Drop(t)

Spec == Init /\ [][Next]_vars

-----------------------------------------------------------------------------
(* Properties *)

\* Every plan a caller can be holding is within its limits (engine.py,
\* _run_filters: any filter's veto means final_quantity = 0).
OrdersWithinLimits ==
    \A t \in Traders : Pending(t) =>
        WithinLimits(order[t].plan, order[t].ctx, order[t].held)

\* An exit or a reduction takes the position it was computed for towards zero
\* and never through it (engine.py: the quantity must not exceed the existing
\* position).  If others have traded in between there is no such promise.
ReductionsReduce ==
    [][\A t \in Traders :
          (/\ Submit(t)
           /\ Reducing(order[t].plan.bias)
           /\ order[t].seen = position)
              => \/ position > 0 /\ 0 <= position' /\ position' < position
                 \/ position < 0 /\ 0 >= position' /\ position' > position]_vars

\* module_boundaries.md: core/risk "enforces position limits".  The book stays
\* within max_position_pct at the price of the plans.
BookWithinPositionLimit ==
    \A c \in Contexts : Abs(position) <= PositionCap(c)

=============================================================================
