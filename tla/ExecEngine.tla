----------------------------- MODULE ExecEngine -----------------------------
(***************************************************************************)
(* The execution engine of nautilus_trader: how it applies order events to *)
(* the orders of the cache (crates/execution/src/engine/mod.rs), how the   *)
(* cache indexes them (crates/common/src/cache/mod.rs) and how fills reach *)
(* the position of a netting strategy (crates/model/src/position.rs).      *)
(*                                                                         *)
(* Events come from the execution clients: any event, at any time, late,   *)
(* again, or never.  The content of a fill is fixed by its trade id.       *)
(***************************************************************************)
EXTENDS OrderModel, Functions

CONSTANTS
    ClientIds, VenueIds, Trades,
    Quantity,       \* the quantity with which an order is created
    Side,           \* 1 for an order that buys, -1 for one that sells
    Owner,          \* the order a venue order id is given to
    Fill,           \* the fill of a trade: its order, quantity and venue order id, and
                    \* its commission if it is in the base currency of a currency pair
    Quantities,     \* the quantities an order may be updated to
    AllowOverfills, \* allow_overfills of the engine's configuration
    MaxTaken        \* bound: how often the position takes one trade

ASSUME EngineAssumption ==
    /\ None \notin ClientIds \cup VenueIds \cup Trades
    /\ Quantity \in [ClientIds -> Nat \ {0}]
    /\ Side \in [ClientIds -> {1, -1}]
    /\ Owner \in [VenueIds -> ClientIds]
    /\ Fill \in [Trades -> [order : ClientIds, qty : Nat \ {0}, commission : Int,
                           venue : VenueIds, trade_id : Trades]]
    /\ \A t \in Trades : Fill[t].trade_id = t /\ Owner[Fill[t].venue] = Fill[t].order
    \* less than half of what is traded, be it paid or returned
    /\ \A t \in Trades : /\ 2 * Fill[t].commission < Fill[t].qty
                         /\ 2 * Fill[t].commission > -Fill[t].qty
    /\ Quantities \subseteq Nat \ {0}
    /\ AllowOverfills \in BOOLEAN /\ MaxTaken \in Nat

VARIABLES
    orders,                 \* the orders of the cache, by client order id
    orders_active_local, orders_inflight, orders_open, orders_closed,
    client_order_ids,       \* the venue order id indexed for an order
    venue_order_ids,        \* the venue order ids that are indexed
    position,               \* the position of the strategy, or NoPosition
    positions_open, positions_closed,
    snapshots,              \* the trades in the stored snapshots of the position
    snapshot_qty,           \* the quantity that was left in them
    panicked,               \* Position::apply has panicked
    taken,                  \* history: how often the position took a trade
    unbooked,               \* history: trades it took that the order did not record
    account,                \* the account of the fills is in the cache
    unaccounted             \* history: trades an order recorded when it was not

indexes == <<orders_active_local, orders_inflight, orders_open, orders_closed,
             client_order_ids, venue_order_ids>>
book == <<position, positions_open, positions_closed, snapshots, snapshot_qty, panicked, taken>>
positionVars == <<book, unbooked, account, unaccounted>>
engineVars == <<orders, indexes, positionVars>>

NoOrder == [status |-> None]
NoPosition == [known |-> FALSE, signed_qty |-> 0, trade_ids |-> {}, events |-> {}]

\* The orders that are in the cache.
Cached == {c \in ClientIds : orders[c].status # None}

Orders ==
    [status : Status, previous_status : Status \cup {None}, quantity : Nat, filled_qty : Nat,
     trade_ids : SUBSET Trades, venue_order_id : VenueIds \cup {None}]

TypeOK ==
    /\ orders \in [ClientIds -> Orders \cup {NoOrder}]
    /\ orders_active_local \subseteq ClientIds /\ orders_inflight \subseteq ClientIds
    /\ orders_open \subseteq ClientIds /\ orders_closed \subseteq ClientIds
    /\ client_order_ids \in [ClientIds -> VenueIds \cup {None}]
    /\ venue_order_ids \subseteq VenueIds
    /\ position \in [known : BOOLEAN, signed_qty : Int, trade_ids : SUBSET Trades,
                     events : SUBSET (Trades \X Int)]
    /\ positions_open \in BOOLEAN /\ positions_closed \in BOOLEAN
    /\ snapshots \subseteq Trades /\ snapshot_qty \in Int /\ panicked \in BOOLEAN
    /\ taken \in [Trades -> Nat] /\ unbooked \subseteq Trades
    /\ account \in BOOLEAN /\ unaccounted \subseteq Trades

Init ==
    /\ orders = [c \in ClientIds |-> NoOrder]
    /\ orders_active_local = {} /\ orders_inflight = {}
    /\ orders_open = {} /\ orders_closed = {}
    /\ client_order_ids = [c \in ClientIds |-> None]
    /\ venue_order_ids = {}
    /\ position = NoPosition
    /\ positions_open = FALSE /\ positions_closed = FALSE
    /\ snapshots = {} /\ snapshot_qty = 0 /\ panicked = FALSE
    /\ taken = [t \in Trades |-> 0] /\ unbooked = {}
    /\ account = FALSE /\ unaccounted = {}

-----------------------------------------------------------------------------
(* The cache *)

\* Index maintenance: the set keeps c exactly if keep holds.
Indexed(set, c, keep) == IF keep THEN set \cup {c} ELSE set \ {c}

\* add_venue_order_id() without overwrite refuses a second venue order id.
Conflicts(c, o) ==
    /\ o.venue_order_id \notin venue_order_ids \cup {None}
    /\ client_order_ids[c] \notin {None, o.venue_order_id}

\* add_order(), called by the strategy that submits the order.
AddOrder(c) ==
    /\ ~panicked /\ c \notin Cached
    /\ orders' = [orders EXCEPT ![c] = Initialized(Quantity[c])]
    /\ orders_active_local' = orders_active_local \cup {c}
    /\ UNCHANGED <<orders_inflight, orders_open, orders_closed, client_order_ids,
                   venue_order_ids, positionVars>>

\* A plausible slip: an order that has closed stays in the index of open ones.
OpenIndexNoRemove(c, o) ==
    IF o.status \in Open
    THEN /\ orders_open' = orders_open \cup {c} /\ orders_closed' = orders_closed \ {c}
    ELSE /\ orders_closed' = IF o.status \in Closed THEN orders_closed \cup {c} ELSE orders_closed
         /\ UNCHANGED orders_open

\* The indexes of open and of closed orders; an order that is neither stays
\* where it was.
OpenIndex(c, o) ==
    \/ /\ o.status \in Open
       /\ orders_open' = orders_open \cup {c} /\ orders_closed' = orders_closed \ {c}
    \/ /\ o.status \in Closed
       /\ orders_open' = orders_open \ {c} /\ orders_closed' = orders_closed \cup {c}
    \/ /\ o.status \notin Open \cup Closed
       /\ UNCHANGED <<orders_open, orders_closed>>

\* update_order().  The index of local orders is written first; when the venue
\* order id is refused, the function returns with nothing else done.
UpdateOrder(c, o) ==
    /\ orders_active_local' = Indexed(orders_active_local, c, o.status \in ActiveLocal)
    /\ \/ /\ Conflicts(c, o)
          /\ UNCHANGED <<orders, client_order_ids, venue_order_ids, orders_inflight,
                         orders_open, orders_closed>>
       \/ /\ ~Conflicts(c, o)
          /\ client_order_ids' = IF o.venue_order_id \in venue_order_ids \cup {None}
                                 THEN client_order_ids
                                 ELSE [client_order_ids EXCEPT ![c] = o.venue_order_id]
          /\ venue_order_ids' = venue_order_ids \cup ({o.venue_order_id} \ {None})
          /\ orders_inflight' = Indexed(orders_inflight, c, o.status \in Inflight)
          /\ OpenIndex(c, o)
          /\ orders' = [orders EXCEPT ![c] = o]

-----------------------------------------------------------------------------
(* The position.  A signed quantity q > 0 buys, q < 0 sells. *)

SignedQty(t) == Side[Fill[t].order] * Fill[t].qty

Commission(t) == Fill[t].commission

Abs(q) == IF q < 0 THEN -q ELSE q

\* Position::new() and add_position(): a position opened by q of trade t, less a
\* commission k.
Opened(t, q, k) ==
    /\ position' = [known |-> TRUE, signed_qty |-> q - k, trade_ids |-> {t}, events |-> {<<t, q>>}]
    /\ positions_open' = TRUE /\ positions_closed' = FALSE

\* Position::apply() and update_position() of the cache.  A commission k is taken
\* from the signed quantity, of a long position and of a short one.
Changed(t, q, k) ==
    /\ position' = [position EXCEPT !.signed_qty = @ + q - k, !.trade_ids = @ \cup {t},
                                    !.events = @ \cup {<<t, q>>}]
    /\ positions_open' = (position.signed_qty + q - k # 0)
    /\ positions_closed' = (position.signed_qty + q - k = 0)

Takes(t) == taken' = [taken EXCEPT ![t] = @ + 1]

\* will_flip_position()
WillFlip(q) ==
    /\ position.signed_qty * q < 0
    /\ Abs(q) > Abs(position.signed_qty)

\* open_position() when there is no position yet.
OpenPosition(t) ==
    /\ ~position.known
    /\ Opened(t, SignedQty(t), Commission(t)) /\ Takes(t)
    /\ UNCHANGED <<snapshots, snapshot_qty, panicked>>

\* open_position() of a closed position: it is snapshotted and its id used again,
\* unless the fill is among its events.
ReopenPosition(t) ==
    /\ position.known /\ position.signed_qty = 0
    /\ \/ /\ <<t, SignedQty(t)>> \in position.events
          /\ UNCHANGED book
       \/ /\ <<t, SignedQty(t)>> \notin position.events
          /\ Opened(t, SignedQty(t), Commission(t)) /\ Takes(t)
          /\ snapshots' = snapshots \cup position.trade_ids
          /\ UNCHANGED <<snapshot_qty, panicked>>

\* Position::apply() panics at a trade id the position has.
Panic(t) ==
    /\ position.signed_qty # 0 /\ t \in position.trade_ids
    /\ panicked' = TRUE
    /\ UNCHANGED <<position, positions_open, positions_closed, snapshots, snapshot_qty, taken>>

\* The commission of the part of a fill that closes the position: its share by
\* quantity, rounded to a unit, a half either way (it is computed in floating point).
ClosingShare(t) ==
    {k \in -Abs(Commission(t))..Abs(Commission(t)) :
        Abs(2 * k * Fill[t].qty - 2 * Commission(t) * Abs(position.signed_qty)) <= Fill[t].qty}

\* A plausible slip: the closed position is not snapshotted before its id is used.
FlipPositionNoSnapshot(t) ==
    /\ WillFlip(SignedQty(t)) /\ t \notin position.trade_ids
    /\ \E k \in ClosingShare(t) :
           /\ Opened(t, SignedQty(t) + position.signed_qty, Commission(t) - k)
           /\ snapshot_qty' = snapshot_qty - k
    /\ Takes(t)
    /\ UNCHANGED <<snapshots, panicked>>

\* A plausible slip: both parts of the fill are charged all of the commission.
FlipPositionTwice(t) ==
    /\ WillFlip(SignedQty(t)) /\ t \notin position.trade_ids
    /\ Opened(t, SignedQty(t) + position.signed_qty, Commission(t))
    /\ snapshot_qty' = snapshot_qty - Commission(t)
    /\ snapshots' = snapshots \cup position.trade_ids \cup {t}
    /\ Takes(t)
    /\ UNCHANGED panicked

\* flip_position(): the fill and its commission are split, one part closes the
\* position, which is snapshotted with what the commission left of it, and the
\* other opens the next one.
FlipPosition(t) ==
    /\ WillFlip(SignedQty(t)) /\ t \notin position.trade_ids
    /\ \E k \in ClosingShare(t) :
           /\ Opened(t, SignedQty(t) + position.signed_qty, Commission(t) - k)
           /\ snapshot_qty' = snapshot_qty - k
    /\ snapshots' = snapshots \cup position.trade_ids \cup {t}
    /\ Takes(t)
    /\ UNCHANGED panicked

\* update_position()
UpdatePosition(t) ==
    /\ position.signed_qty # 0 /\ ~WillFlip(SignedQty(t)) /\ t \notin position.trade_ids
    /\ Changed(t, SignedQty(t), Commission(t)) /\ Takes(t)
    /\ UNCHANGED <<snapshots, snapshot_qty, panicked>>

\* handle_position_update()
HandlePositionUpdate(t) ==
    \/ OpenPosition(t)
    \/ ReopenPosition(t)
    \/ Panic(t)
    \/ FlipPosition(t)
    \/ UpdatePosition(t)

-----------------------------------------------------------------------------
(* The engine *)

\* The events other than fills that may arrive for an order.
Events(c) ==
    {[kind |-> k, venue |-> None, quantity |-> 0] : k \in Plain}
    \cup {[kind |-> "Accepted", venue |-> v, quantity |-> 0] : v \in {v \in VenueIds : Owner[v] = c}}
    \cup {[kind |-> "Updated", venue |-> v, quantity |-> q] :
             v \in {v \in VenueIds : Owner[v] = c} \cup {None}, q \in Quantities}

\* deny_order(): the client has refused the order, or there is none.  An order
\* that does not take the event is left alone.
DenyOrder(c) ==
    /\ ~panicked /\ orders[c].status \in Sources("Denied")
    /\ UpdateOrder(c, Apply(orders[c], [kind |-> "Denied", venue |-> None, quantity |-> 0]))
    /\ UNCHANGED positionVars

\* deny_order() of the strategy, for an order that it submits while it exits the
\* market: the order is added to the cache and denied there, and no command is sent.
DenyNew(c) ==
    /\ ~panicked /\ c \notin Cached
    /\ UpdateOrder(c, Apply(Initialized(Quantity[c]), [kind |-> "Denied", venue |-> None, quantity |-> 0]))
    /\ UNCHANGED positionVars

\* The first state of the account arrives: update_account() adds it to the cache.
AccountState ==
    /\ ~panicked /\ ~account
    /\ account' = TRUE
    /\ UNCHANGED <<orders, indexes, book, unbooked, unaccounted>>

\* The client has taken the order.  It then sends Submitted before anything else,
\* on the channel that carries all its events.
Sent(c) == c \in Cached /\ orders[c].status \notin {"Initialized", "Denied"}

\* handle_event() of an event that is not a fill.
HandleEvent(c, e) ==
    /\ ~panicked /\ c \in Cached
    /\ Sent(c) \/ e.kind = "Submitted"
    /\ UpdateOrder(c, Apply(orders[c], e))
    /\ UNCHANGED positionVars

\* A plausible slip: a fill is only looked for while the order is open.
DuplicateIfOpen(o, t) == t \in o.trade_ids /\ o.status \in Open

\* is_duplicate_fill(), and the check of the trade id in Order::apply().
Duplicate(o, t) == t \in o.trade_ids

\* handle_event() of a fill.  A duplicate is dropped, and so is a fill over the
\* order's quantity unless the configuration allows it.  The position is updated
\* also when the order did not take the fill or the cache did not take the order,
\* but not as long as the account is not in the cache.
HandleFill(t) ==
    LET c == Fill[t].order IN
    /\ ~panicked /\ Sent(c) /\ taken[t] < MaxTaken
    /\ ~Duplicate(orders[c], t)
    /\ AllowOverfills \/ ~Overfills(orders[c], Fill[t])
    /\ UpdateOrder(c, ApplyFill(orders[c], Fill[t]))
    /\ \/ /\ account
          /\ HandlePositionUpdate(t)
          /\ unbooked' = IF t \in orders'[c].trade_ids THEN unbooked ELSE unbooked \cup {t}
          /\ UNCHANGED unaccounted
       \/ /\ ~account
          /\ unaccounted' = IF t \in orders'[c].trade_ids THEN unaccounted \cup {t} ELSE unaccounted
          /\ UNCHANGED <<book, unbooked>>
    /\ UNCHANGED account

Next ==
    \/ \E c \in ClientIds : AddOrder(c)
    \/ \E c \in ClientIds : DenyOrder(c) \/ DenyNew(c)
    \/ AccountState
    \/ \E c \in ClientIds : \E e \in Events(c) : HandleEvent(c, e)
    \/ \E t \in Trades : HandleFill(t)

EngineSpec == Init /\ [][Next]_engineVars

-----------------------------------------------------------------------------
(* Properties *)

\* The order indexes hold the orders whose status they are for.  The index of open
\* orders may still hold one that fell back to Submitted when its change was refused.
OrdersIndexed ==
    /\ orders_active_local = {c \in Cached : orders[c].status \in ActiveLocal}
    /\ orders_inflight = {c \in Cached : orders[c].status \in Inflight}
    /\ orders_closed = {c \in Cached : orders[c].status \in Closed}
    /\ {c \in Cached : orders[c].status \in Open} \subseteq orders_open
    /\ orders_open \subseteq {c \in Cached : orders[c].status \in Open \cup {"Submitted"}}

\* The position is indexed as open or as closed.
PositionIndexed ==
    /\ positions_open = (position.known /\ position.signed_qty # 0)
    /\ positions_closed = (position.known /\ position.signed_qty = 0)

\* What check_integrity() of the cache looks for, and the other direction, after any
\* sequence of late, repeated and refused events, and also when update_order() gave
\* up half way.
IndexesAgree == OrdersIndexed /\ PositionIndexed

\* The status to which a refused change returns an order is never a pending one,
\* nor one that a closed order had (previous_status in Order::apply()).
PendingHasBase ==
    \A c \in Cached :
        orders[c].status \in Pending =>
            orders[c].previous_status \in {"Submitted", "Accepted", "Triggered", "PartiallyFilled"}

\* The quantity of a trade.
TradeQty == [t \in Trades |-> Fill[t].qty]

\* An order counts each of its trades once, whatever was sent again or late, and
\* it is Filled only when all of its quantity is.
FilledOnce ==
    \A c \in Cached :
        /\ \A t \in orders[c].trade_ids : Fill[t].order = c
        /\ orders[c].filled_qty = SumFunctionOnSet(TradeQty, orders[c].trade_ids)
        /\ orders[c].status = "Filled" => orders[c].filled_qty >= orders[c].quantity
        /\ orders[c].status = "PartiallyFilled" => orders[c].trade_ids # {}

\* The order of trade t has recorded it.
Recorded(t) == Fill[t].order \in Cached /\ t \in orders[Fill[t].order].trade_ids

\* The position takes a trade once, and exactly if its order recorded it when the
\* account was known; so Position::apply() does not meet a trade id again and does
\* not panic.  The exception is a trade that was handed to the position and not
\* recorded.  One recorded before the account was known never reaches the position,
\* since its replay is a duplicate.
BookedOnce ==
    /\ \A t \in Trades \ unbooked :
           taken[t] = IF Recorded(t) /\ t \notin unaccounted THEN 1 ELSE 0
    /\ \A t \in unaccounted : Recorded(t) /\ taken[t] = 0
    /\ panicked => unbooked # {}

\* The trades the position took, and what it took of each: the quantity less the
\* commission in the base currency.
TakenTrades == {t \in Trades : taken[t] > 0}
TakenQty == [t \in Trades |-> taken[t] * (SignedQty(t) - Commission(t))]

\* However fills open, change, close, reopen and flip the position, its quantity is
\* the sum of the trades it took net of their commissions, but for the share of them
\* that a flip leaves in the snapshot of the position it closes.
NetIsSum == position.signed_qty + snapshot_qty = SumFunctionOnSet(TakenQty, TakenTrades)

\* Every trade the position took is found in the position or in a snapshot, also
\* when the id of a closed position is used again.
CyclesKept == \A t \in Trades : taken[t] > 0 => t \in position.trade_ids \cup snapshots

\* A closed order never changes its status again, but for a canceled one that a
\* new trade reaches late.
ClosedIsFinal ==
    [][\A c \in Cached :
        orders[c].status \in Closed =>
            \/ orders'[c].status = orders[c].status
            \/ /\ orders[c].status = "Canceled"
               /\ orders'[c].status \in {"PartiallyFilled", "Filled"}
               /\ orders'[c].trade_ids # orders[c].trade_ids]_engineVars

\* A fill that comes again is skipped: Position::apply() never meets it twice.
ReplaysAreSkipped == ~panicked

\* A trade reaches the position without being recorded on its order in these cases
\* only: the order had closed otherwise than by a cancel, or it was filled and may
\* be overfilled, or the venue has given it a second order id.
OrderTakesFill ==
    [][\A t \in unbooked' \ unbooked :
        LET o == orders[Fill[t].order] IN
        \/ o.status \in {"Rejected", "Expired"}
        \/ o.status = "Filled" /\ AllowOverfills
        \/ client_order_ids[Fill[t].order] \notin {None, Fill[t].venue}]_engineVars

=============================================================================
