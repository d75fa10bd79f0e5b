--------------------------- MODULE MCTradingDesk ----------------------------
\* Market contexts for TLC: one quiet market and what may differ from it.  With
\* an equity of 1000 and a limit of 10% the position cap is 10 lots at price 10.
EXTENDS TradingDesk, TLC

Quiet ==
    [price |-> 10, adv |-> 200, vol |-> 0, atr |-> 0, confidence |-> 80, kelly |-> 0,
     daily |-> 0, drawdown |-> 0, corr |-> 0, offsets |-> FALSE, urgency |-> "medium"]

QuietOnly == {Quiet}

\* Conviction sizing proposes 4 lots; these propose more, less, or nothing to cap.
Varied ==
    { Quiet,
      [Quiet EXCEPT !.vol = 20],                        \* volatility targeting: 75 lots
      [Quiet EXCEPT !.kelly = 8, !.adv = 60],           \* the volume caps
      [Quiet EXCEPT !.confidence = 0, !.corr = 90],     \* fixed fraction, correlated
      [Quiet EXCEPT !.confidence = 0, !.corr = 100, !.offsets = TRUE, !.adv = 0],
      [Quiet EXCEPT !.price = 7, !.vol = 15],           \* the price has moved
      [Quiet EXCEPT !.price = 14, !.atr = 1, !.confidence = 10],
      [Quiet EXCEPT !.drawdown = 15],
      [Quiet EXCEPT !.daily = 6],
      [Quiet EXCEPT !.vol = 60, !.urgency = "high"],
      [Quiet EXCEPT !.confidence = 30, !.urgency = "high"] }

Symmetric == Permutations(Traders)
=============================================================================
