-------------------------- MODULE StrategyLifecycle -------------------------
(***************************************************************************)
(* Life-cycle managers (core/strategy_pool/lifecycle/manager.py) sharing   *)
(* one strategy registry directory.  Nothing locks the directory: every    *)
(* operation reads the log, decides, reads it again in the registry,       *)
(* stamps a copy and appends it, and other managers run between any two of *)
(* these.  A manager can also die between any two of them.                 *)
(***************************************************************************)
EXTENDS StrategyRegistry

CONSTANTS
    Managers,       \* the processes that use the registry
    MayCrash,       \* TRUE if a manager may die in the middle of a call
    MaxLog,         \* bound: no call starts once the log is this long
    MaxTime         \* bound: no call starts at or after this reading

ASSUME BoundsAssumption ==
    MaxLog \in Nat /\ MaxTime \in Nat /\ MayCrash \in BOOLEAN

VARIABLES
    pc,             \* pc[m]: where manager m is in its call
    todo,           \* todo[m]: the registry operations its call has still to do
    sid,            \* sid[m]: the strategy its call is about
    stamp           \* stamp[m]: the registered_at of the copy it will append

vars == <<log, now, pc, todo, sid, stamp>>

Plans == { <<>>, <<"register">>, <<"activate">>, <<"deactivate">>,
           <<"deprecate">>, <<"reactivate">>, <<"deactivate", "deprecate">> }

TypeOK ==
    /\ RegistryTypeOK
    /\ pc \in [Managers -> {"idle", "read", "stamp", "append", "down"}]
    /\ todo \in [Managers -> Plans]
    /\ sid \in [Managers -> StrategyIds]
    /\ stamp \in [Managers -> Nat]
    /\ \A m \in Managers : pc[m] \in {"idle", "down"} <=> todo[m] = << >>
    /\ \A m \in Managers : todo[m] = <<"register">> => pc[m] = "append"

Init ==
    /\ RegistryInit
    /\ pc = [m \in Managers |-> "idle"]
    /\ todo = [m \in Managers |-> << >>]
    /\ sid \in [Managers -> StrategyIds]
    /\ stamp = [m \in Managers |-> 0]

-----------------------------------------------------------------------------
(* The calls *)

\* A plausible slip: an active strategy is deprecated without being stopped.
PlanDeprecatesAtOnce(op, status) ==
    IF status \in {"absent", "deprecated"} THEN << >> ELSE <<op>>

\* What a manager's operation goes on to ask of the registry, from the status
\* it has read; << >> is an early return.
Plan(op, status) ==
    CASE op = "activate"   /\ status \in {"candidate", "inactive"} -> <<"activate">>
      [] op = "deactivate" /\ status \in {"candidate", "active"}   -> <<"deactivate">>
      [] op = "deprecate"  /\ status = "active" -> <<"deactivate", "deprecate">>
      [] op = "deprecate"  /\ status \in {"candidate", "inactive"} -> <<"deprecate">>
      [] op = "reactivate" /\ status \in {"candidate", "active", "inactive"} -> <<"reactivate">>
      [] OTHER -> << >>

MayStart(m) ==
    /\ pc[m] = "idle"
    /\ Len(log) < MaxLog
    /\ now < MaxTime

\* StrategyRegistry.register() of a new spec: the spec is stamped when it is
\* built, the log is read, and the append follows.
Register(m, s) ==
    /\ MayStart(m)
    /\ ~ IsRegistered(log, s)
    /\ \E t \in Readings : now' = t /\ stamp' = [stamp EXCEPT ![m] = t]
    /\ pc' = [pc EXCEPT ![m] = "append"]
    /\ todo' = [todo EXCEPT ![m] = <<"register">>]
    /\ sid' = [sid EXCEPT ![m] = s]
    /\ UNCHANGED log

\* The manager's own read of the registry and its early returns.
Call(m, op, s) ==
    /\ MayStart(m)
    /\ Plan(op, Status(s)) # << >>
    /\ pc' = [pc EXCEPT ![m] = "read"]
    /\ todo' = [todo EXCEPT ![m] = Plan(op, Status(s))]
    /\ sid' = [sid EXCEPT ![m] = s]
    /\ UNCHANGED <<log, now, stamp>>

\* A plausible slip: the caller never returns from the last operation.
DoneKeepsRunning(m) ==
    /\ todo' = [todo EXCEPT ![m] = Tail(@)]
    /\ pc' = [pc EXCEPT ![m] = "read"]

\* A plausible slip: the second operation of a call is forgotten.
DoneAfterFirst(m) ==
    /\ todo' = [todo EXCEPT ![m] = << >>]
    /\ pc' = [pc EXCEPT ![m] = "idle"]

\* The registry operation at the head of todo[m] is over.
Done(m) ==
    /\ todo' = [todo EXCEPT ![m] = Tail(@)]
    /\ pc' = [pc EXCEPT ![m] = IF Tail(todo[m]) = << >> THEN "idle" ELSE "read"]

\* The registry reads the log once more, for the version it will copy.
Read(m) ==
    /\ pc[m] = "read"
    /\ \/ /\ Accepts(Head(todo[m]), Status(sid[m]))
          /\ pc' = [pc EXCEPT ![m] = "stamp"]
          /\ UNCHANGED todo
       \/ /\ ~ Accepts(Head(todo[m]), Status(sid[m]))
          /\ Done(m)
    /\ UNCHANGED <<log, now, sid, stamp>>

\* updated.registered_at = datetime.utcnow()
Stamp(m) ==
    /\ pc[m] = "stamp"
    /\ \E t \in Readings : now' = t /\ stamp' = [stamp EXCEPT ![m] = t]
    /\ pc' = [pc EXCEPT ![m] = "append"]
    /\ UNCHANGED <<log, todo, sid>>

\* self._append(updated)
Write(m) ==
    /\ pc[m] = "append"
    /\ AppendVersion(sid[m], NewStatus[Head(todo[m])], stamp[m])
    /\ Done(m)
    /\ UNCHANGED <<now, sid, stamp>>

\* The process dies; what it has appended stays, the rest of its call is lost.
Crash(m) ==
    /\ MayCrash
    /\ pc[m] \notin {"idle", "down"}
    /\ pc' = [pc EXCEPT ![m] = "down"]
    /\ todo' = [todo EXCEPT ![m] = << >>]
    /\ UNCHANGED <<log, now, sid, stamp>>

\* A new process over the same registry; it keeps nothing of the call that was lost.
Restart(m) ==
    /\ pc[m] = "down"
    /\ pc' = [pc EXCEPT ![m] = "idle"]
    /\ UNCHANGED <<log, now, todo, sid, stamp>>

Next ==
    \E m \in Managers :
        \/ \E s \in StrategyIds : Register(m, s)
        \/ \E s \in StrategyIds, op \in RegistryOps : Call(m, op, s)
        \/ Read(m)
        \/ Stamp(m)
        \/ Write(m)
        \/ Crash(m)
        \/ Restart(m)

Spec == Init /\ [][Next]_vars

\* A call that has started is run to its end: the code has no wait in it.
FairSpec ==
    /\ Spec
    /\ \A m \in Managers : WF_vars(Read(m) \/ Stamp(m) \/ Write(m))

-----------------------------------------------------------------------------
(* Properties *)

\* However many managers race and die, no life-cycle operation brings a
\* strategy into being: the log holds a candidate version of a strategy before
\* any other version of it (register() is the only way in; every other
\* operation of the registry copies a version it has read).
RegisteredFirst ==
    \A i \in DOMAIN log : \E j \in 1..i :
        /\ log[j].strategy_id = log[i].strategy_id
        /\ log[j].status = "candidate"

\* Manager m is past every test that could stop it from putting a version of s
\* in force that is not deprecated.  registry.deactivate() has no such test.
Threatens(m, s) ==
    /\ sid[m] = s
    /\ \/ pc[m] = "read" /\ Head(todo[m]) = "deactivate"
       \/ pc[m] = "stamp" /\ Head(todo[m]) # "deprecate"
       \/ /\ pc[m] = "append" /\ Head(todo[m]) # "deprecate"
          /\ stamp[m] > InForce(log, s).registered_at

Settled(s) ==
    /\ Status(s) = "deprecated"
    /\ \A m \in Managers : ~ Threatens(m, s)

\* "Permanently off the shelf" (manager.py, deprecate) as far as it is true
\* without a lock: a deprecated strategy stays deprecated for ever once no call
\* that tested it before the deprecation is still under way.
SettledDeprecation ==
    [][\A s \in StrategyIds : Settled(s) => Settled(s)']_vars

\* A deprecated strategy is never in another status again, whoever is in the
\* middle of a call (manager.py: deprecate is permanent).
DeprecatedIsFinal ==
    [][\A s \in StrategyIds : Status(s) = "deprecated" => Status(s)' = "deprecated"]_vars

\* With one manager and a clock that tells any two readings apart the log is
\* an implementation of the life cycle of LifecycleAbs, crashes included.
Abs == INSTANCE LifecycleAbs WITH status <- [s \in StrategyIds |-> Status(s)]

ImplementsLifecycle == Abs!Spec

\* A deprecation that has started is carried through unless its process dies:
\* deactivating an active strategy first never ends with it merely inactive.
DeprecationLands ==
    \A m \in Managers, s \in StrategyIds :
        (sid[m] = s /\ todo[m] # << >> /\ todo[m][Len(todo[m])] = "deprecate")
            ~> (Status(s) = "deprecated" \/ pc[m] = "down")

=============================================================================
