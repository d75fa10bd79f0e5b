---------------------------- MODULE LifecycleAbs ----------------------------
(***************************************************************************)
(* What the strategy pool promises about one strategy's life: a strategy   *)
(* is registered once as a candidate, is switched on and off, and once     *)
(* deprecated is never in any other state again.  An active strategy is    *)
(* deprecated by way of inactive.                                          *)
(***************************************************************************)
CONSTANT StrategyIds

VARIABLE status

Step == [absent     |-> {"candidate"},
         candidate  |-> {"active", "inactive", "deprecated"},
         active     |-> {"inactive"},
         inactive   |-> {"active", "deprecated"},
         deprecated |-> {}]

Init == status = [s \in StrategyIds |-> "absent"]

Move(s) ==
    \E to \in Step[status[s]] : status' = [status EXCEPT ![s] = to]

Next == \E s \in StrategyIds : Move(s)

Spec == Init /\ [][Next]_status

=============================================================================
