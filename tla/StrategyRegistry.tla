-------------------------- MODULE StrategyRegistry --------------------------
(***************************************************************************)
(* The append-only strategy registry of core/strategy_pool/registry.       *)
(*                                                                         *)
(* The registry is a log of complete StrategySpec versions, one JSON line  *)
(* each.  No line is ever rewritten: the version of a strategy in force is *)
(* recomputed from the log on every read, as the version with the largest  *)
(* registered_at.  The log files are named by the UTC day of the append    *)
(* and read in name order, so that with a clock that does not go back the  *)
(* files concatenated are the log in append order.                         *)
(*                                                                         *)
(* Of a StrategySpec only the fields the life cycle depends on are kept:   *)
(* strategy_id, status and registered_at.                                  *)
(***************************************************************************)
EXTENDS Integers, Sequences

CONSTANTS
    StrategyIds,    \* the strategies that may be registered
    CoarseClock     \* TRUE if two readings of utcnow() may be equal

ASSUME CoarseClockAssumption == CoarseClock \in BOOLEAN

VARIABLES
    log,            \* the versions, in the order of the appends
    now             \* the latest reading of the clock

Statuses == {"candidate", "active", "inactive", "deprecated"}

Versions == [strategy_id: StrategyIds, status: Statuses, registered_at: Nat]

RegistryTypeOK ==
    /\ log \in Seq(Versions)
    /\ now \in Nat

RegistryInit ==
    /\ log = << >>
    /\ now = 0

-----------------------------------------------------------------------------
(* Reading *)

\* The loop of _latest_versions() replaces the version it holds only by one
\* with a strictly larger registered_at: i is the position it ends with for s
\* iff no version of s is newer and every earlier version of s is older.
IsCurrent(l, s, i) ==
    /\ i \in DOMAIN l
    /\ l[i].strategy_id = s
    /\ \A j \in DOMAIN l : l[j].strategy_id = s =>
          /\ l[j].registered_at <= l[i].registered_at
          /\ j < i => l[j].registered_at < l[i].registered_at

IsRegistered(l, s) == \E i \in DOMAIN l : l[i].strategy_id = s

\* The version in force of a registered strategy.
InForce(l, s) == l[CHOOSE i \in DOMAIN l : IsCurrent(l, s, i)]

\* get(): the status of the version in force; "absent" stands for None.
Status(s) == IF IsRegistered(log, s) THEN InForce(log, s).status ELSE "absent"

-----------------------------------------------------------------------------
(* Writing *)

RegistryOps == {"activate", "deactivate", "deprecate", "reactivate"}

\* A plausible slip: a new strategy goes straight into service.
NewStatusRegistersActive == [register   |-> "active",
                             activate   |-> "active",
                             deactivate |-> "inactive",
                             deprecate  |-> "deprecated",
                             reactivate |-> "active"]

\* The status the appended version carries.
NewStatus == [register   |-> "candidate",
              activate   |-> "active",
              deactivate |-> "inactive",
              deprecate  |-> "deprecated",
              reactivate |-> "active"]

\* A plausible slip: activate() does not refuse a deprecated strategy.
AcceptsDeprecated(op, status) ==
    CASE op = "reactivate" -> status = "inactive"
      [] OTHER -> status # "absent"

\* The early returns of the registry's four operations on the version they read.
Accepts(op, status) ==
    CASE op = "activate"   -> status \notin {"absent", "deprecated"}
      [] op = "deactivate" -> status # "absent"
      [] op = "deprecate"  -> status # "absent"
      [] op = "reactivate" -> status = "inactive"

\* A reading of datetime.utcnow().
Readings == IF CoarseClock THEN {now, now + 1} ELSE {now + 1}

\* _append(): one line at the end of the current file.
AppendVersion(s, status, at) ==
    log' = Append(log, [strategy_id |-> s, status |-> status, registered_at |-> at])

=============================================================================
