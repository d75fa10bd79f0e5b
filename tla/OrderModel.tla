----------------------------- MODULE OrderModel -----------------------------
(***************************************************************************)
(* The order state machine of nautilus_trader (crates/model/src/orders):   *)
(* which event an order takes in which status, and what the event changes. *)
(* An order is a limit order that is not emulated, so the statuses of the  *)
(* order emulator (Emulated, Released) do not occur.                       *)
(***************************************************************************)
EXTENDS Integers

None == "None"

\* OrderStatus; an event is named for the status it leads to, or for what it says.
Pending == {"PendingUpdate", "PendingCancel"}
Open == Pending \cup {"Accepted", "Triggered", "PartiallyFilled"}
Closed == {"Denied", "Rejected", "Canceled", "Expired", "Filled"}
Inflight == Pending \cup {"Submitted"}
ActiveLocal == {"Initialized"}
Status == Open \cup Closed \cup {"Initialized", "Submitted"}

\* The events that carry nothing but their kind.
Plain == {"Submitted", "Rejected", "PendingUpdate", "PendingCancel",
          "ModifyRejected", "CancelRejected", "Triggered", "Canceled", "Expired"}
Kinds == Plain \cup {"Denied", "Accepted", "Updated", "Filled"}

\* A plausible slip: an Accepted that comes late is taken by a canceled order.
LateAcceptedFrom == {"Initialized", "Submitted", "PartiallyFilled", "Canceled"} \cup Pending

\* The statuses in which an order takes Accepted.
AcceptedFrom == {"Initialized", "Submitted", "PartiallyFilled"} \cup Pending

\* A plausible slip: a canceled order takes no fill.
FilledFromOpen == {"Submitted"} \cup Open

\* The statuses in which an order takes a fill; a cancel and a fill may cross.
FilledFrom == {"Submitted", "Canceled"} \cup Open

\* transition(): the statuses in which an order takes an event of this kind.
Sources(kind) ==
    CASE kind = "Denied"         -> {"Initialized"}
      [] kind = "Submitted"      -> {"Initialized"}
      [] kind = "Rejected"       -> {"Initialized", "Submitted", "Accepted", "Triggered"} \cup Pending
      [] kind = "Accepted"       -> AcceptedFrom
      [] kind = "Canceled"       -> {"Initialized", "Submitted"} \cup Open
      [] kind = "Expired"        -> {"Initialized"} \cup Open
      [] kind = "Triggered"      -> {"Initialized", "Accepted", "PendingUpdate"}
      [] kind = "PendingUpdate"  -> {"Submitted"} \cup (Open \ {"PendingCancel"})
      [] kind = "PendingCancel"  -> {"Submitted"} \cup Open
      [] kind = "ModifyRejected" -> {"PendingUpdate"}
      [] kind = "CancelRejected" -> {"PendingCancel"}
      [] kind = "Updated"        -> {"Initialized", "Submitted"} \cup (Open \ {"PendingCancel"})
      [] kind = "Filled"         -> FilledFrom
      [] OTHER                   -> {}

-----------------------------------------------------------------------------

\* A plausible slip: the status is not kept.
NotedNever(o, kind) == o

\* A plausible slip: the status is kept at every event, a pending one too.
NotedAlways(o, kind) == [o EXCEPT !.previous_status = o.status]

\* The head of apply(): the status is kept as the previous one, unless it is a
\* pending one or the event will restore it.  This is done before the
\* transition is known to be valid.
Noted(o, kind) ==
    IF kind \in {"ModifyRejected", "CancelRejected"} \/ o.status \in Pending
    THEN o
    ELSE [o EXCEPT !.previous_status = o.status]

\* The handler of an event that the order's status allows.
Moved(o, e) ==
    CASE e.kind \in {"ModifyRejected", "CancelRejected"} ->
             [o EXCEPT !.status = o.previous_status]
      [] e.kind = "Updated" ->
             [o EXCEPT !.status = IF @ = "PendingUpdate" THEN o.previous_status ELSE @,
                       !.venue_order_id = IF e.venue = None THEN @ ELSE e.venue,
                       !.quantity = e.quantity]
      [] e.kind = "Accepted" ->
             [o EXCEPT !.status = "Accepted", !.venue_order_id = e.venue]
      [] OTHER ->
             [o EXCEPT !.status = e.kind]

\* apply() of any event but a fill.  The engine goes on with the order also
\* when the transition is invalid: all that has changed is previous_status.
Apply(o, e) ==
    IF o.status \in Sources(e.kind) THEN Moved(Noted(o, e.kind), e) ELSE Noted(o, e.kind)

\* filled(): the fill f is counted, and closes the order when nothing is left.
Filled(o, f) ==
    [o EXCEPT !.status = IF o.filled_qty + f.qty < o.quantity THEN "PartiallyFilled" ELSE "Filled",
              !.venue_order_id = f.venue,
              !.filled_qty = @ + f.qty,
              !.trade_ids = @ \cup {f.trade_id}]

\* apply() of a fill that is not a duplicate.
ApplyFill(o, f) ==
    IF o.status \in Sources("Filled") THEN Filled(Noted(o, "Filled"), f) ELSE Noted(o, "Filled")

\* A new order.
Initialized(qty) ==
    [status |-> "Initialized", previous_status |-> None, quantity |-> qty,
     filled_qty |-> 0, trade_ids |-> {}, venue_order_id |-> None]

\* calculate_overfill() is positive.
Overfills(o, f) == o.filled_qty + f.qty > o.quantity

=============================================================================
