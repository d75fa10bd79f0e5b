--------------------------- MODULE MCLivePipeline ---------------------------
\* An instance of LivePipeline for TLC; the .cfg file gives the constants.
EXTENDS LivePipeline, TLC

\* With an equity of 1000 and a price of 10, sizing proposes 4 lots, then 75,
\* of which the position limit leaves 10, and in a thin market none is left.
Plain ==
    [price |-> 10, adv |-> 200, vol |-> 0, atr |-> 0, confidence |-> 80, kelly |-> 0,
     daily |-> 0, drawdown |-> 0, corr |-> 0, offsets |-> FALSE, urgency |-> "medium"]

Live == {Plain, [Plain EXCEPT !.vol = 20], [Plain EXCEPT !.adv = 5]}
=============================================================================
