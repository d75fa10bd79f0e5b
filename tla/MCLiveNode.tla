----------------------------- MODULE MCLiveNode -----------------------------
\* Two orders of one strategy for TLC: b buys and gets every kind of event, s
\* sells in between, so that the position flips, closes and reopens.  Quantities are
\* multiples of 4: half of the commission of t2 is not a whole unit.
EXTENDS LiveNode

CONSTANTS b, s, b1, b2, s1, t1, t2, t3

MCQuantity == [c \in ClientIds |-> IF c = b THEN 12 ELSE 4]
MCSide == [c \in ClientIds |-> IF c = b THEN 1 ELSE -1]
MCOwner == [v \in VenueIds |-> IF v = s1 THEN s ELSE b]

\* The venue replaces the order b before it fills the rest of it.
MCFill ==
    [t \in Trades |->
        [order |-> IF t = t3 THEN s ELSE b, qty |-> IF t = t2 THEN 8 ELSE 4,
         commission |-> IF t = t2 THEN 3 ELSE 0,
         venue |-> CASE t = t1 -> b1 [] t = t2 -> b2 [] t = t3 -> s1, trade_id |-> t]]

MCReports == [c \in ClientIds |-> IF c = b THEN Plain ELSE {"Submitted"}]
MCCommands == [c \in ClientIds |-> IF c = b THEN 2 ELSE 1]

\* The venue's answers are lost, but for the one that the order was sent.
MCSilent == [c \in ClientIds |-> {"Submitted"}]
=============================================================================
