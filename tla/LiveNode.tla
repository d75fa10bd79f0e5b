------------------------------ MODULE LiveNode ------------------------------
(***************************************************************************)
(* The live node of nautilus_trader (crates/live/src/node.rs): its loop    *)
(* hands commands to the execution clients and events to the execution     *)
(* engine, and its execution manager (crates/live/src/manager.rs) follows  *)
(* the orders that wait for the venue.  An order that has waited too long  *)
(* is asked for, and after the last try it is resolved without the venue.  *)
(*                                                                         *)
(* Time is counted in rounds of the check; an age stops at its threshold.  *)
(***************************************************************************)
EXTENDS ExecEngine

CONSTANTS
    Threshold,      \* inflight_threshold_ms, in rounds of the check
    MaxRetries,     \* inflight_max_retries
    Filtered,       \* filtered_client_order_ids: orders the check passes over
    Reports,        \* the kinds of plain event that clients send for an order
    MaxCommands     \* bound: commands of the strategy for one order

ASSUME NodeAssumption ==
    /\ Threshold \in Nat \ {0} /\ MaxRetries \in Nat \ {0}
    /\ Filtered \subseteq ClientIds
    /\ Reports \in [ClientIds -> SUBSET Plain]
    /\ MaxCommands \in [ClientIds -> Nat]

VARIABLES
    inflight_checks,    \* what is followed of an order, or NoCheck
    due,                \* the orders this round of the check has yet to look at
    commands            \* how many commands were sent for an order

nodeVars == <<inflight_checks, due, commands>>
vars == <<engineVars, nodeVars>>

\* No query has been sent yet.
NoQuery == -1

NoCheck == [tracked |-> FALSE, age |-> 0, retry_count |-> 0, last_query |-> NoQuery]

\* register_inflight() of an order anew.
NewCheck == [tracked |-> TRUE, age |-> 0, retry_count |-> 0, last_query |-> NoQuery]

NodeTypeOK ==
    /\ inflight_checks \in
           [ClientIds -> [tracked : BOOLEAN, age : 0..(Threshold + 1), retry_count : 0..(MaxRetries - 1),
                          last_query : (0..Threshold) \cup {NoQuery}]]
    /\ due \subseteq ClientIds
    /\ commands \in [ClientIds -> Nat]

NodeInit ==
    /\ Init
    /\ inflight_checks = [c \in ClientIds |-> NoCheck]
    /\ due = {}
    /\ commands = [c \in ClientIds |-> 0]

-----------------------------------------------------------------------------

Register(c) ==
    /\ commands[c] < MaxCommands[c]
    /\ commands' = [commands EXCEPT ![c] = @ + 1]
    /\ inflight_checks' = [inflight_checks EXCEPT ![c] = NewCheck]
    /\ UNCHANGED due

\* The strategy puts the order into the cache and sends the command, or denies the
\* order because it is exiting the market.
NewOrder(c) == (AddOrder(c) \/ DenyNew(c)) /\ UNCHANGED nodeVars

\* SubmitOrder: the client takes the order.
Submit(c) ==
    /\ ~panicked /\ orders[c].status = "Initialized" /\ commands[c] = 0
    /\ Register(c)
    /\ UNCHANGED engineVars

\* SubmitOrder: the client refuses the order, or there is no client for it.
SubmitFails(c) ==
    /\ orders[c].status = "Initialized" /\ commands[c] = 0
    /\ Register(c)
    /\ DenyOrder(c)

\* ModifyOrder and CancelOrder
Request(c) ==
    /\ ~panicked /\ commands[c] > 0
    /\ Register(c)
    /\ UNCHANGED engineVars

\* clear_recon_tracking(), by the kind of the event and once the order is closed.
Clear(c, kind) ==
    inflight_checks' =
        IF \/ kind \in {"Accepted", "Rejected", "Canceled", "Expired", "Denied"}
           \/ orders'[c].status \in Closed
        THEN [inflight_checks EXCEPT ![c] = NoCheck]
        ELSE inflight_checks

\* The events other than fills that clients send for an order.
Arrivals(c) == {e \in Events(c) : e.kind \in Reports[c] \cup {"Accepted", "Updated"}}

\* An event other than a fill arrives from the execution client.
OrderEvent(c, e) ==
    /\ commands[c] > 0
    /\ HandleEvent(c, e)
    /\ Clear(c, e.kind)
    /\ UNCHANGED <<due, commands>>

\* The state of the account arrives from the execution client.
AccountEvent == AccountState /\ UNCHANGED nodeVars

\* A fill arrives from the execution client.
FillEvent(t) ==
    /\ HandleFill(t)
    /\ Clear(Fill[t].order, "Filled")
    /\ UNCHANGED <<due, commands>>

\* An age of up to limit, a round later.
Later(age, limit) == IF age \in {NoQuery, limit} THEN age ELSE age + 1

\* The orders that the check looks at.
Followed == {c \in ClientIds \ Filtered : inflight_checks[c].tracked}

\* The timer of the check: every order that is followed is a round older.
Tick ==
    /\ ~panicked /\ due = {} /\ Followed # {}
    /\ due' = Followed
    /\ inflight_checks' =
           [c \in ClientIds |->
               IF c \in Followed
               THEN [inflight_checks[c] EXCEPT !.age = Later(@, Threshold + 1),
                                               !.last_query = Later(@, Threshold)]
               ELSE inflight_checks[c]]
    /\ UNCHANGED <<engineVars, commands>>

\* The order has waited longer than the threshold, and as long since it was asked for.
Overdue(k) == k.tracked /\ k.age > Threshold /\ k.last_query \in {NoQuery, Threshold}

\* The event that resolves an order whose tries are used up: a submitted order is
\* rejected, one with a change under way is canceled.
Resolution(o) == [kind |-> IF o.status = "Submitted" THEN "Rejected" ELSE "Canceled",
                  venue |-> None, quantity |-> 0]

\* check_inflight_orders(): the order is not to be looked at yet.
CheckSkips(c) ==
    /\ ~panicked /\ c \in due /\ ~Overdue(inflight_checks[c])
    /\ due' = due \ {c}
    /\ UNCHANGED <<engineVars, inflight_checks, commands>>

\* A plausible slip: the try is not counted.
CheckQueriesUncounted(c) ==
    /\ ~panicked /\ c \in due /\ Overdue(inflight_checks[c])
    /\ inflight_checks[c].retry_count + 1 < MaxRetries
    /\ inflight_checks' = [inflight_checks EXCEPT ![c].last_query = 0]
    /\ due' = due \ {c}
    /\ UNCHANGED <<engineVars, commands>>

\* check_inflight_orders(): the venue is asked for the order.
CheckQueries(c) ==
    /\ ~panicked /\ c \in due /\ Overdue(inflight_checks[c])
    /\ inflight_checks[c].retry_count + 1 < MaxRetries
    /\ inflight_checks' = [inflight_checks EXCEPT ![c].retry_count = @ + 1, ![c].last_query = 0]
    /\ due' = due \ {c}
    /\ UNCHANGED <<engineVars, commands>>

\* check_inflight_orders() and process_reconciliation_events(): the last try.  The
\* order is no longer followed, and if it still waits the engine gets the event.
CheckResolves(c) ==
    /\ ~panicked /\ c \in due /\ Overdue(inflight_checks[c])
    /\ inflight_checks[c].retry_count + 1 >= MaxRetries
    /\ inflight_checks' = [inflight_checks EXCEPT ![c] = NoCheck]
    /\ due' = due \ {c}
    /\ \/ /\ orders[c].status \in Inflight
          /\ HandleEvent(c, Resolution(orders[c]))
       \/ /\ orders[c].status \notin Inflight
          /\ UNCHANGED engineVars
    /\ UNCHANGED commands

Check(c) == CheckSkips(c) \/ CheckQueries(c) \/ CheckResolves(c)

NodeNext ==
    \/ \E c \in ClientIds :
           \/ NewOrder(c) \/ Submit(c) \/ SubmitFails(c) \/ Request(c)
           \/ \E e \in Arrivals(c) : OrderEvent(c, e)
           \/ Check(c)
    \/ \E t \in Trades : FillEvent(t)
    \/ AccountEvent
    \/ Tick

\* The node's loop polls its timers before its channels, so the check runs
\* whatever else arrives; nothing is assumed of the venue or of the strategy.
NodeSpec == NodeInit /\ [][NodeNext]_vars
FairNodeSpec == NodeSpec /\ WF_vars(Tick) /\ \A c \in ClientIds : WF_vars(Check(c))

-----------------------------------------------------------------------------
(* Properties *)

\* An order that the venue never answers for does not stay in flight while the
\* manager follows it: the check resolves it after its last try.
InflightResolves ==
    \A c \in ClientIds \ Filtered :
        (inflight_checks[c].tracked /\ orders[c].status \in Inflight)
            ~> (~inflight_checks[c].tracked \/ orders[c].status \notin Inflight \/ panicked)

=============================================================================
