---------------------- MODULE StrategyLifecycle_proofs ----------------------
(***************************************************************************)
(* Proofs about StrategyLifecycle for every set of strategies and of       *)
(* managers, every bound, with and without crashes, whatever the           *)
(* resolution of the clock; and for one manager with a clock that tells    *)
(* its readings apart, that it implements LifecycleAbs.                    *)
(***************************************************************************)
EXTENDS StrategyLifecycle, SequenceTheorems, TLAPS

(***************************************************************************)
(* The shape of a call.                                                    *)
(***************************************************************************)

\* What a manager asks of the registry is always one of the plans, never a
\* registration, and nothing if the strategy is unknown or deprecated.
LEMMA PlanType ==
  ASSUME NEW op \in RegistryOps, NEW st \in Statuses \cup {"absent"}
  PROVE  /\ Plan(op, st) \in Plans
         /\ Plan(op, st) # <<"register">>
         /\ st \in {"absent", "deprecated"} => Plan(op, st) = << >>
BY DEF Plan, Plans, RegistryOps, Statuses

\* Finishing the head of a plan leaves a plan, and never <<"register">>.
LEMMA TailOfPlan ==
  ASSUME NEW p \in Plans, p # << >>
  PROVE  /\ Tail(p) \in Plans
         /\ Tail(p) # <<"register">>
         /\ Tail(p) # << >> => Head(Tail(p)) = "deprecate"
         /\ Head(p) \in RegistryOps \cup {"register"}
         /\ Head(p) = "register" => p = <<"register">>
<1>1. \A x : Tail(<<x>>) = << >> /\ Head(<<x>>) = x /\ << >> # <<x>>
  OBVIOUS
<1>2. CASE \E x \in RegistryOps \cup {"register"} : p = <<x>>
  BY <1>1, <1>2 DEF Plans
<1>3. CASE p = <<"deactivate", "deprecate">>
  <2>1. Tail(p) = <<"deprecate">> /\ Head(p) = "deactivate"
    BY <1>3
  <2>. QED  BY <2>1 DEF Plans, RegistryOps
<1>. QED  BY <1>2, <1>3 DEF Plans, RegistryOps

\* A clock reading is a natural number, never before an earlier reading.
LEMMA ReadingsType ==
  ASSUME now \in Nat, NEW t \in Readings
  PROVE  t \in Nat /\ t >= now
BY CoarseClockAssumption DEF Readings

LEMMA NewStatusType ==
  \A op \in RegistryOps \cup {"register"} : NewStatus[op] \in Statuses
BY DEF RegistryOps, NewStatus, Statuses

(***************************************************************************)
(* The version in force.                                                   *)
(***************************************************************************)

\* The scan of _latest_versions() ends with at most one version of a strategy.
LEMMA CurrentUnique ==
  ASSUME NEW l \in Seq(Versions), NEW s, NEW i, NEW j,
         IsCurrent(l, s, i), IsCurrent(l, s, j)
  PROVE  i = j
<1>1. i \in Nat /\ j \in Nat
  BY DEF IsCurrent
<1>2. l[i] \in Versions /\ l[j] \in Versions
  BY DEF IsCurrent
<1>3. l[i].registered_at \in Nat /\ l[j].registered_at \in Nat
  BY <1>2 DEF Versions
<1>. QED  BY <1>1, <1>3 DEF IsCurrent

\* ... so the version at any such position is the version in force.
LEMMA InForceIs ==
  ASSUME NEW l \in Seq(Versions), NEW s, NEW i, IsCurrent(l, s, i)
  PROVE  InForce(l, s) = l[i]
<1>. DEFINE c == CHOOSE j \in DOMAIN l : IsCurrent(l, s, j)
<1>1. i \in DOMAIN l
  BY DEF IsCurrent
<1>2. c \in DOMAIN l /\ IsCurrent(l, s, c)
  <2>. HIDE DEF c
  <2>1. \E j \in DOMAIN l : IsCurrent(l, s, j)
    BY <1>1
  <2>. QED  BY <2>1, Zenon DEF c
<1>3. c = i
  BY <1>2, CurrentUnique
<1>. QED  BY <1>3 DEF InForce

\* Every strategy with a version in the log has one in force.
HasCurrent(l) ==
    \A s \in StrategyIds : IsRegistered(l, s) => \E i \in DOMAIN l : IsCurrent(l, s, i)

\* Positions of the log after an append.
LEMMA AppendPositions ==
  ASSUME NEW l \in Seq(Versions), NEW r \in Versions, NEW k, k = Append(l, r)
  PROVE  /\ k \in Seq(Versions)
         /\ Len(k) = Len(l) + 1 /\ Len(l) \in Nat
         /\ DOMAIN k = 1..Len(k) /\ DOMAIN l = 1..Len(l)
         /\ Len(k) \in DOMAIN k /\ k[Len(k)] = r
         /\ \A i \in DOMAIN l : i \in DOMAIN k /\ k[i] = l[i]
         /\ \A i \in DOMAIN k : i \in DOMAIN l \/ i = Len(k)
         /\ \A i \in DOMAIN k : k[i].registered_at \in Nat
<1>1. /\ k \in Seq(Versions) /\ Len(k) = Len(l) + 1 /\ Len(l) \in Nat
      /\ DOMAIN k = 1..Len(k) /\ DOMAIN l = 1..Len(l)
  OBVIOUS
<1>2. /\ k[Len(l) + 1] = r
      /\ \A i \in DOMAIN l : k[i] = l[i]
  OBVIOUS
<1>3. \A i \in DOMAIN k : k[i] \in Versions
  BY <1>1
<1>4. \A i \in DOMAIN k : k[i].registered_at \in Nat
  BY <1>3 DEF Versions
<1>. QED  BY <1>1, <1>2, <1>4

\* Appending the first version of a strategy puts it in force.
LEMMA AppendFirst ==
  ASSUME NEW l \in Seq(Versions), NEW r \in Versions, NEW k, k = Append(l, r),
         ~ IsRegistered(l, r.strategy_id)
  PROVE  IsCurrent(k, r.strategy_id, Len(k))
BY AppendPositions DEF IsCurrent, IsRegistered

\* Appending to a registered strategy: the version in force is the appended one
\* if that is stamped strictly later, and stays what it was otherwise.
LEMMA AppendNext ==
  ASSUME NEW l \in Seq(Versions), NEW r \in Versions,
         NEW s, NEW i, IsCurrent(l, s, i)
  PROVE  \/ IsCurrent(Append(l, r), s, i) /\ Append(l, r)[i] = l[i]
         \/ /\ s = r.strategy_id
            /\ r.registered_at > l[i].registered_at
            /\ IsCurrent(Append(l, r), s, Len(Append(l, r))) /\ Append(l, r)[Len(Append(l, r))] = r
<1>. DEFINE k == Append(l, r)
<1>1. i \in DOMAIN l
  BY DEF IsCurrent
<1>. DEFINE n == Len(k)
<1>2. /\ n = Len(l) + 1 /\ Len(l) \in Nat
      /\ DOMAIN k = 1..n /\ DOMAIN l = 1..Len(l)
      /\ n \in DOMAIN k /\ k[n] = r
      /\ \A j \in DOMAIN l : j \in DOMAIN k /\ k[j] = l[j]
      /\ \A j \in DOMAIN k : j \in DOMAIN l \/ j = n
      /\ \A j \in DOMAIN k : k[j].registered_at \in Nat
  BY AppendPositions
<1>. HIDE DEF n
<1>3. CASE s = r.strategy_id /\ r.registered_at > l[i].registered_at
  <2>1. IsCurrent(k, s, n)
    BY <1>1, <1>2, <1>3 DEF IsCurrent
  <2>. QED  BY <1>2, <1>3, <2>1 DEF n
<1>4. CASE ~ (s = r.strategy_id /\ r.registered_at > l[i].registered_at)
  <2>1. IsCurrent(k, s, i)
    BY <1>1, <1>2, <1>4 DEF IsCurrent
  <2>. QED  BY <1>1, <1>2, <2>1
<1>. QED  BY <1>3, <1>4

\* An append leaves every registered strategy with a version in force.
LEMMA AppendHasCurrent ==
  ASSUME NEW l \in Seq(Versions), HasCurrent(l), NEW r \in Versions,
         NEW k, k = Append(l, r)
  PROVE  k \in Seq(Versions) /\ HasCurrent(k)
<1>1. ASSUME NEW s \in StrategyIds, IsRegistered(k, s)
      PROVE  \E i \in DOMAIN k : IsCurrent(k, s, i)
  <2>1. CASE IsRegistered(l, s)
    <3>1. PICK i \in DOMAIN l : IsCurrent(l, s, i)
      BY <2>1 DEF HasCurrent
    <3>2. IsCurrent(k, s, i) \/ IsCurrent(k, s, Len(k))
      BY <3>1, AppendNext
    <3>. QED  BY <3>1, <3>2, AppendPositions
  <2>2. CASE ~ IsRegistered(l, s)
    <3>1. s = r.strategy_id
      BY <1>1, <2>2, AppendPositions DEF IsRegistered
    <3>2. IsCurrent(k, s, Len(k))
      BY <2>2, <3>1, AppendFirst
    <3>. QED  BY <3>2, AppendPositions
  <2>. QED  BY <2>1, <2>2
<1>2. HasCurrent(k)
  BY <1>1 DEF HasCurrent
<1>. QED  BY <1>2, AppendPositions

\* ... and a strategy that was registered is, with its old version in force or
\* with the new one.
LEMMA AppendToRegistered ==
  ASSUME NEW l \in Seq(Versions), HasCurrent(l), NEW r \in Versions,
         NEW s \in StrategyIds, IsRegistered(l, s)
  PROVE  /\ IsRegistered(Append(l, r), s)
         /\ InForce(l, s) \in Versions
         /\ \/ InForce(Append(l, r), s) = InForce(l, s)
            \/ /\ s = r.strategy_id
               /\ r.registered_at > InForce(l, s).registered_at
               /\ InForce(Append(l, r), s) = r
<1>. DEFINE k == Append(l, r)
<1>1. PICK i \in DOMAIN l : IsCurrent(l, s, i)
  BY DEF HasCurrent
<1>2. InForce(l, s) = l[i] /\ l[i] \in Versions
  BY <1>1, InForceIs
<1>3. IsRegistered(k, s)
  BY AppendPositions DEF IsRegistered
<1>4. \/ IsCurrent(k, s, i) /\ k[i] = l[i]
      \/ /\ s = r.strategy_id
         /\ r.registered_at > l[i].registered_at
         /\ IsCurrent(k, s, Len(k)) /\ k[Len(k)] = r
  BY <1>1, AppendNext, Zenon
<1>5. \A p : IsCurrent(k, s, p) => InForce(k, s) = k[p]
  <2>1. k \in Seq(Versions)
    BY AppendPositions
  <2>. QED  BY <2>1, InForceIs, Zenon
<1>. QED  BY <1>2, <1>3, <1>4, <1>5

(***************************************************************************)
(* Type correctness, with the existence of a version in force.             *)
(***************************************************************************)

\* A status read from the log is one of the enumeration, or None.
LEMMA StatusType ==
  ASSUME RegistryTypeOK, HasCurrent(log), NEW s \in StrategyIds
  PROVE  Status(s) \in Statuses \cup {"absent"}
<1>1. CASE IsRegistered(log, s)
  <2>1. PICK i \in DOMAIN log : IsCurrent(log, s, i)
    BY <1>1 DEF HasCurrent
  <2>2. InForce(log, s) = log[i] /\ log[i] \in Versions
    BY <2>1, InForceIs DEF RegistryTypeOK
  <2>. QED  BY <1>1, <2>2 DEF Status, Versions
<1>. QED  BY <1>1 DEF Status

\* The version a manager appends is well formed.
LEMMA WrittenVersion ==
  ASSUME TypeOK, NEW m \in Managers, pc[m] = "append"
  PROVE  [strategy_id |-> sid[m], status |-> NewStatus[Head(todo[m])],
          registered_at |-> stamp[m]] \in Versions
<1>1. todo[m] \in Plans /\ todo[m] # << >>
  BY DEF TypeOK
<1>2. NewStatus[Head(todo[m])] \in Statuses
  BY <1>1, TailOfPlan, NewStatusType
<1>. QED  BY <1>2 DEF TypeOK, Versions

TypeInv == TypeOK /\ HasCurrent(log)

LEMMA TypeStep ==
  ASSUME TypeInv, [Next]_vars
  PROVE  TypeInv'
<1>. USE DEF TypeInv
<1>1. ASSUME NEW m \in Managers, NEW s \in StrategyIds, Register(m, s)
      PROVE  TypeInv'
  <2>1. PICK t \in Readings : now' = t /\ stamp' = [stamp EXCEPT ![m] = t]
    BY <1>1 DEF Register
  <2>2. t \in Nat
    BY <2>1, ReadingsType DEF TypeOK, RegistryTypeOK
  <2>3. <<"register">> \in Plans /\ <<"register">> # << >>
    BY DEF Plans
  <2>. QED  BY <1>1, <2>1, <2>2, <2>3 DEF Register, MayStart, TypeOK, RegistryTypeOK
<1>2. ASSUME NEW m \in Managers, NEW s \in StrategyIds, NEW op \in RegistryOps,
             Call(m, op, s)
      PROVE  TypeInv'
  <2>1. Plan(op, Status(s)) \in Plans /\ Plan(op, Status(s)) # <<"register">>
    BY StatusType, PlanType DEF TypeOK
  <2>. QED  BY <1>2, <2>1 DEF Call, MayStart, TypeOK, RegistryTypeOK
<1>3. ASSUME NEW m \in Managers, Done(m), todo[m] # << >>, pc[m] \notin {"idle", "down"},
             UNCHANGED <<now, sid, stamp>>, RegistryTypeOK', HasCurrent(log)'
      PROVE  TypeInv'
  <2>1. Tail(todo[m]) \in Plans /\ Tail(todo[m]) # <<"register">>
    BY <1>3, TailOfPlan DEF TypeOK
  <2>2. \A n \in Managers : n # m => todo'[n] = todo[n] /\ pc'[n] = pc[n]
    BY <1>3 DEF Done, TypeOK
  <2>3. todo'[m] = Tail(todo[m])
        /\ pc'[m] = IF Tail(todo[m]) = << >> THEN "idle" ELSE "read"
    BY <1>3 DEF Done, TypeOK
  <2>4. /\ pc' \in [Managers -> {"idle", "read", "stamp", "append", "down"}]
        /\ todo' \in [Managers -> Plans]
    BY <1>3, <2>1 DEF Done, TypeOK
  <2>5. \A n \in Managers : (pc'[n] \in {"idle", "down"} <=> todo'[n] = << >>)
                            /\ (todo'[n] = <<"register">> => pc'[n] = "append")
    BY <2>1, <2>2, <2>3 DEF TypeOK
  <2>. QED  BY <1>3, <2>4, <2>5 DEF TypeOK
<1>4. ASSUME NEW m \in Managers, Read(m)
      PROVE  TypeInv'
  <2>1. CASE Accepts(Head(todo[m]), Status(sid[m]))
    BY <1>4, <2>1 DEF Read, TypeOK, RegistryTypeOK
  <2>2. CASE ~ Accepts(Head(todo[m]), Status(sid[m]))
    <3>1. Done(m) /\ UNCHANGED <<log, now, sid, stamp>> /\ pc[m] = "read"
      BY <1>4, <2>2 DEF Read
    <3>2. RegistryTypeOK' /\ HasCurrent(log)' /\ todo[m] # << >>
      BY <3>1 DEF TypeOK, RegistryTypeOK
    <3>. QED  BY <1>3, <3>1, <3>2
  <2>. QED  BY <2>1, <2>2
<1>5. ASSUME NEW m \in Managers, Stamp(m)
      PROVE  TypeInv'
  <2>1. PICK t \in Readings : now' = t /\ stamp' = [stamp EXCEPT ![m] = t]
    BY <1>5 DEF Stamp
  <2>2. t \in Nat
    BY <2>1, ReadingsType DEF TypeOK, RegistryTypeOK
  <2>. QED  BY <1>5, <2>1, <2>2 DEF Stamp, TypeOK, RegistryTypeOK
<1>6. ASSUME NEW m \in Managers, Write(m)
      PROVE  TypeInv'
  <2>. DEFINE r == [strategy_id |-> sid[m], status |-> NewStatus[Head(todo[m])],
                    registered_at |-> stamp[m]]
  <2>0. r \in Versions /\ log' = Append(log, r) /\ log \in Seq(Versions)
    BY <1>6, WrittenVersion DEF Write, AppendVersion, TypeOK, RegistryTypeOK
  <2>1. log' \in Seq(Versions) /\ HasCurrent(log')
    <3>. HIDE DEF r
    <3>. QED  BY <2>0, AppendHasCurrent
  <2>2. RegistryTypeOK' /\ HasCurrent(log)'
    BY <1>6, <2>1 DEF Write, TypeOK, RegistryTypeOK
  <2>. QED  BY <1>3, <1>6, <2>2 DEF Write, TypeOK
<1>7. ASSUME NEW m \in Managers, Crash(m)
      PROVE  TypeInv'
  <2>1. << >> \in Plans /\ << >> # <<"register">>
    BY DEF Plans
  <2>. QED  BY <1>7, <2>1 DEF Crash, TypeOK, RegistryTypeOK
<1>8. ASSUME NEW m \in Managers, Restart(m)
      PROVE  TypeInv'
  BY <1>8 DEF Restart, TypeOK, RegistryTypeOK
<1>9. CASE UNCHANGED vars
  BY <1>9 DEF vars, TypeOK, RegistryTypeOK
<1>. QED  BY <1>1, <1>2, <1>4, <1>5, <1>6, <1>7, <1>8, <1>9 DEF Next

\* Types, and a version in force of every registered strategy, in every state.
LEMMA TypeInvariant == Spec => []TypeInv
<1>1. Init => TypeInv
  <2>1. << >> \in Plans /\ << >> # <<"register">>
    BY DEF Plans
  <2>. QED  BY <2>1 DEF Init, RegistryInit, TypeInv, TypeOK, RegistryTypeOK, HasCurrent, IsRegistered
<1>2. TypeInv /\ [Next]_vars => TypeInv'
  BY TypeStep
<1>. QED  BY <1>1, <1>2, PTL DEF Spec

\* The variables keep their types: in particular a manager is idle or down exactly
\* when nothing is left of its call, and only an append can be left of a registration.
THEOREM TypeCorrect == Spec => []TypeOK
<1>1. TypeInv => TypeOK
  BY DEF TypeInv
<1>. QED  BY <1>1, TypeInvariant, PTL

(***************************************************************************)
(* Nothing but register() brings a strategy into being.                    *)
(***************************************************************************)

\* The log holds a candidate version of s.
Known(s) == \E j \in DOMAIN log : log[j].strategy_id = s /\ log[j].status = "candidate"

\* RegisteredFirst is not inductive: a call under way must be about a strategy
\* that was registered when the call was let through.
RegisteredInv ==
    /\ RegisteredFirst
    /\ \A m \in Managers : todo[m] \notin {<< >>, <<"register">>} => Known(sid[m])

LEMMA RegisteredStep ==
  ASSUME TypeInv, RegisteredInv, [Next]_vars
  PROVE  RegisteredInv'
<1>. USE DEF TypeInv
<1>1. ASSUME NEW m \in Managers, NEW s \in StrategyIds, Register(m, s)
      PROVE  RegisteredInv'
  BY <1>1 DEF Register, TypeOK, RegisteredInv, RegisteredFirst, Known
<1>2. ASSUME NEW m \in Managers, NEW s \in StrategyIds, NEW op \in RegistryOps,
             Call(m, op, s)
      PROVE  RegisteredInv'
  <2>1. IsRegistered(log, s)
    BY <1>2, PlanType DEF Call, Status
  <2>2. Known(s)
    BY <2>1 DEF IsRegistered, Known, RegisteredInv, RegisteredFirst, TypeOK, RegistryTypeOK
  <2>. QED  BY <1>2, <2>2 DEF Call, TypeOK, RegisteredInv, RegisteredFirst, Known
<1>3. ASSUME NEW m \in Managers, Read(m)
      PROVE  RegisteredInv'
  BY <1>3 DEF Read, Done, TypeOK, RegisteredInv, RegisteredFirst, Known, Plans
<1>4. ASSUME NEW m \in Managers, Stamp(m)
      PROVE  RegisteredInv'
  BY <1>4 DEF Stamp, TypeOK, RegisteredInv, RegisteredFirst, Known
<1>5. ASSUME NEW m \in Managers, Write(m)
      PROVE  RegisteredInv'
  <2>. DEFINE r == [strategy_id |-> sid[m], status |-> NewStatus[Head(todo[m])],
                    registered_at |-> stamp[m]]
  <2>1. log' = Append(log, r) /\ log \in Seq(Versions) /\ r \in Versions
    BY <1>5, WrittenVersion DEF Write, AppendVersion, TypeOK, RegistryTypeOK
  <2>2. /\ DOMAIN log' = 1..(Len(log) + 1) /\ DOMAIN log = 1..Len(log) /\ Len(log) \in Nat
        /\ \A i \in DOMAIN log : log'[i] = log[i]
        /\ log'[Len(log) + 1] = r
    <3>. HIDE DEF r
    <3>. QED  BY <2>1
  <2>3. r.status = "candidate" \/ Known(r.strategy_id)
    BY <1>5, TailOfPlan DEF Write, TypeOK, RegisteredInv, NewStatus
  <2>4. \A s : Known(s) => Known(s)'
    BY <2>2 DEF Known
  <2>5. RegisteredFirst'
    <3>1. ASSUME NEW i \in DOMAIN log
          PROVE  \E j \in 1..i : log'[j].strategy_id = log'[i].strategy_id
                                 /\ log'[j].status = "candidate"
      BY <2>2 DEF RegisteredInv, RegisteredFirst
    <3>2. \E j \in 1..(Len(log) + 1) : log'[j].strategy_id = r.strategy_id
                                       /\ log'[j].status = "candidate"
      BY <2>2, <2>3 DEF Known
    <3>. QED  BY <2>2, <3>1, <3>2 DEF RegisteredFirst
  <2>6. \A n \in Managers : n # m => todo'[n] = todo[n] /\ sid'[n] = sid[n]
    BY <1>5 DEF Write, Done, TypeOK
  <2>7. /\ todo'[m] = Tail(todo[m]) /\ sid'[m] = sid[m]
        /\ todo'[m] # << >> => todo[m] \notin {<< >>, <<"register">>}
    <3>1. todo[m] # << >> /\ Tail(<<"register">>) = << >>
      BY <1>5 DEF Write, TypeOK
    <3>. QED  BY <1>5, <3>1 DEF Write, Done, TypeOK
  <2>. QED  BY <2>4, <2>5, <2>6, <2>7 DEF RegisteredInv
<1>6. ASSUME NEW m \in Managers, Crash(m)
      PROVE  RegisteredInv'
  BY <1>6 DEF Crash, TypeOK, RegisteredInv, RegisteredFirst, Known
<1>7. ASSUME NEW m \in Managers, Restart(m)
      PROVE  RegisteredInv'
  BY <1>7 DEF Restart, TypeOK, RegisteredInv, RegisteredFirst, Known
<1>8. CASE UNCHANGED vars
  BY <1>8 DEF vars, RegisteredInv, RegisteredFirst, Known
<1>. QED  BY <1>1, <1>2, <1>3, <1>4, <1>5, <1>6, <1>7, <1>8 DEF Next

\* Whoever races and whoever dies, the first version of a strategy in the log
\* is preceded by nothing but candidates: only register() creates strategies.
THEOREM RegistrationFirst == Spec => []RegisteredFirst
<1>1. Init => RegisteredInv
  BY DEF Init, RegistryInit, RegisteredInv, RegisteredFirst
<1>2. TypeInv /\ RegisteredInv /\ [Next]_vars => RegisteredInv'
  BY RegisteredStep
<1>3. RegisteredInv => RegisteredFirst
  BY DEF RegisteredInv
<1>. QED  BY <1>1, <1>2, <1>3, TypeInvariant, PTL DEF Spec

(***************************************************************************)
(* A settled deprecation is permanent.                                     *)
(***************************************************************************)

\* One write, seen from a strategy in force: the version in force stays or is
\* the one written, and its time stamp never decreases.
LEMMA WriteInForce ==
  ASSUME TypeInv, NEW m \in Managers, Write(m), NEW s \in StrategyIds, IsRegistered(log, s)
  PROVE  /\ IsRegistered(log', s)
         /\ InForce(log, s).registered_at \in Nat
         /\ \/ InForce(log', s) = InForce(log, s)
            \/ /\ sid[m] = s
               /\ stamp[m] > InForce(log, s).registered_at
               /\ InForce(log', s).status = NewStatus[Head(todo[m])]
               /\ InForce(log', s).registered_at = stamp[m]
<1>. DEFINE r == [strategy_id |-> sid[m], status |-> NewStatus[Head(todo[m])],
                  registered_at |-> stamp[m]]
<1>1. r \in Versions /\ log' = Append(log, r) /\ log \in Seq(Versions) /\ HasCurrent(log)
  BY WrittenVersion DEF Write, AppendVersion, TypeInv, TypeOK, RegistryTypeOK
<1>2. r.strategy_id = sid[m] /\ r.status = NewStatus[Head(todo[m])] /\ r.registered_at = stamp[m]
  OBVIOUS
<1>. HIDE DEF r
<1>3. /\ IsRegistered(log', s)
      /\ InForce(log, s) \in Versions
      /\ \/ InForce(log', s) = InForce(log, s)
         \/ /\ s = r.strategy_id
            /\ r.registered_at > InForce(log, s).registered_at
            /\ InForce(log', s) = r
  BY <1>1, AppendToRegistered, Zenon
<1>. QED  BY <1>2, <1>3 DEF Versions

LEMMA SettledStep ==
  ASSUME TypeInv, TypeInv', [Next]_vars, NEW s \in StrategyIds, Settled(s)
  PROVE  Settled(s)'
<1>. USE DEF TypeInv
<1>1. IsRegistered(log, s) /\ InForce(log, s).status = "deprecated" /\ Status(s) = "deprecated"
  BY DEF Settled, Status
<1>2. \A m \in Managers : ~ Threatens(m, s)
  BY DEF Settled
<1>3. ASSUME UNCHANGED log, \A n \in Managers : ~ Threatens(n, s)'
      PROVE  Settled(s)'
  BY <1>1, <1>3 DEF Settled, Status
<1>4. ASSUME NEW n \in Managers, UNCHANGED log,
             pc'[n] = pc[n], todo'[n] = todo[n], sid'[n] = sid[n], stamp'[n] = stamp[n]
      PROVE  ~ Threatens(n, s)'
  BY <1>2, <1>4 DEF Threatens
<1>5. ASSUME NEW m \in Managers, NEW s2 \in StrategyIds, Register(m, s2)
      PROVE  Settled(s)'
  <2>1. s2 # s
    BY <1>1, <1>5 DEF Register
  <2>2. ~ Threatens(m, s)'
    BY <1>5, <2>1 DEF Register, Threatens, TypeOK
  <2>3. \A n \in Managers : n # m => ~ Threatens(n, s)'
    BY <1>4, <1>5 DEF Register, TypeOK
  <2>. QED  BY <1>3, <1>5, <2>2, <2>3 DEF Register
<1>6. ASSUME NEW m \in Managers, NEW s2 \in StrategyIds, NEW op \in RegistryOps, Call(m, op, s2)
      PROVE  Settled(s)'
  <2>1. s2 # s
    BY <1>1, <1>6, PlanType DEF Call, Statuses
  <2>2. ~ Threatens(m, s)'
    BY <1>6, <2>1 DEF Call, Threatens, TypeOK
  <2>3. \A n \in Managers : n # m => ~ Threatens(n, s)'
    BY <1>4, <1>6 DEF Call, TypeOK
  <2>. QED  BY <1>3, <1>6, <2>2, <2>3 DEF Call
<1>7. ASSUME NEW m \in Managers, Done(m), UNCHANGED sid, todo[m] # << >>
      PROVE  ~ Threatens(m, s)'
  <2>1. pc'[m] = "idle" \/ (pc'[m] = "read" /\ Head(todo'[m]) = "deprecate")
    BY <1>7, TailOfPlan DEF Done, TypeOK
  <2>. QED  BY <2>1 DEF Threatens
<1>8. ASSUME NEW m \in Managers, Read(m)
      PROVE  Settled(s)'
  <2>1. ~ Threatens(m, s)'
    <3>1. CASE sid[m] # s
      BY <1>8, <3>1 DEF Read, Threatens
    <3>2. CASE sid[m] = s /\ Accepts(Head(todo[m]), "deprecated")
      <4>1. Head(todo[m]) \in RegistryOps /\ Head(todo[m]) # "deactivate"
        BY <1>2, <1>8, <3>2, TailOfPlan DEF Read, Threatens, TypeOK
      <4>2. Head(todo[m]) = "deprecate"
        BY <3>2, <4>1 DEF Accepts, RegistryOps
      <4>3. todo' = todo
        BY <1>1, <1>8, <3>2 DEF Read
      <4>. QED  BY <4>2, <4>3, <1>8 DEF Threatens, Read, TypeOK
    <3>3. CASE sid[m] = s /\ ~ Accepts(Head(todo[m]), "deprecated")
      <4>1. Done(m) /\ UNCHANGED sid /\ todo[m] # << >>
        BY <1>1, <1>8, <3>3 DEF Read, TypeOK
      <4>. QED  BY <1>7, <4>1
    <3>. QED  BY <3>1, <3>2, <3>3
  <2>2. \A n \in Managers : n # m => ~ Threatens(n, s)'
    BY <1>4, <1>8 DEF Read, Done, TypeOK
  <2>. QED  BY <1>3, <1>8, <2>1, <2>2 DEF Read
<1>9. ASSUME NEW m \in Managers, Stamp(m)
      PROVE  Settled(s)'
  <2>1. ~ Threatens(m, s)'
    <3>1. sid[m] # s \/ Head(todo[m]) = "deprecate"
      BY <1>2, <1>9 DEF Stamp, Threatens
    <3>. QED  BY <1>9, <3>1 DEF Stamp, Threatens, TypeOK
  <2>2. \A n \in Managers : n # m => ~ Threatens(n, s)'
    BY <1>4, <1>9 DEF Stamp, TypeOK
  <2>. QED  BY <1>3, <1>9, <2>1, <2>2 DEF Stamp
<1>10. ASSUME NEW m \in Managers, Write(m)
       PROVE  Settled(s)'
  <2>1. /\ IsRegistered(log', s)
        /\ InForce(log, s).registered_at \in Nat
        /\ \/ InForce(log', s) = InForce(log, s)
           \/ /\ sid[m] = s
              /\ stamp[m] > InForce(log, s).registered_at
              /\ InForce(log', s).status = NewStatus[Head(todo[m])]
              /\ InForce(log', s).registered_at = stamp[m]
    BY <1>1, <1>10, WriteInForce
  <2>2. InForce(log', s).status = "deprecated"
        /\ InForce(log', s).registered_at \in Nat
        /\ InForce(log', s).registered_at >= InForce(log, s).registered_at
    <3>1. CASE InForce(log', s) = InForce(log, s)
      BY <1>1, <2>1, <3>1
    <3>2. CASE sid[m] = s /\ stamp[m] > InForce(log, s).registered_at
               /\ InForce(log', s).status = NewStatus[Head(todo[m])]
               /\ InForce(log', s).registered_at = stamp[m]
      <4>1. Head(todo[m]) = "deprecate"
        BY <1>2, <1>10, <3>2 DEF Write, Threatens
      <4>. QED  BY <2>1, <3>2, <4>1 DEF NewStatus, TypeOK
    <3>. QED  BY <2>1, <3>1, <3>2
  <2>3. Status(s)' = "deprecated"
    BY <2>1, <2>2 DEF Status
  <2>4. ~ Threatens(m, s)'
    BY <1>7, <1>10 DEF Write, TypeOK
  <2>5. ASSUME NEW n \in Managers, n # m
        PROVE  ~ Threatens(n, s)'
    <3>1. pc'[n] = pc[n] /\ todo'[n] = todo[n] /\ sid'[n] = sid[n] /\ stamp'[n] = stamp[n]
      BY <1>10, <2>5 DEF Write, Done, TypeOK
    <3>2. stamp[n] \in Nat
      BY DEF TypeOK
    <3>. QED  BY <1>2, <2>1, <2>2, <3>1, <3>2 DEF Threatens
  <2>. QED  BY <2>3, <2>4, <2>5 DEF Settled
<1>11. ASSUME NEW m \in Managers, Crash(m)
       PROVE  Settled(s)'
  <2>1. ~ Threatens(m, s)'
    BY <1>11 DEF Crash, Threatens, TypeOK
  <2>2. \A n \in Managers : n # m => ~ Threatens(n, s)'
    BY <1>4, <1>11 DEF Crash, TypeOK
  <2>. QED  BY <1>3, <1>11, <2>1, <2>2 DEF Crash
<1>12. ASSUME NEW m \in Managers, Restart(m)
       PROVE  Settled(s)'
  <2>1. ~ Threatens(m, s)'
    BY <1>12 DEF Restart, Threatens, TypeOK
  <2>2. \A n \in Managers : n # m => ~ Threatens(n, s)'
    BY <1>4, <1>12 DEF Restart, TypeOK
  <2>. QED  BY <1>3, <1>12, <2>1, <2>2 DEF Restart
<1>13. CASE UNCHANGED vars
  BY <1>3, <1>4, <1>13 DEF vars
<1>. QED  BY <1>5, <1>6, <1>8, <1>9, <1>10, <1>11, <1>12, <1>13 DEF Next

\* Once no call that tested the strategy before its deprecation is still under
\* way, a deprecated strategy is deprecated for ever: activate(), deactivate(),
\* reactivate() and register() of any number of managers all refuse it.
THEOREM SettledIsPermanent == Spec => SettledDeprecation
<1>1. TypeInv /\ TypeInv' /\ [Next]_vars => [\A s \in StrategyIds : Settled(s) => Settled(s)']_vars
  BY SettledStep
<1>. QED  BY <1>1, TypeInvariant, PTL DEF Spec, SettledDeprecation

(***************************************************************************)
(* One manager and a clock that tells any two readings apart.              *)
(***************************************************************************)

Alone == (\E m : Managers = {m}) /\ ~ CoarseClock

\* No version is stamped after the latest reading, and when a version is about to
\* be appended every version in the log is stamped before it.
StampInv ==
    /\ \A i \in DOMAIN log : log[i].registered_at <= now
    /\ \A m \in Managers : pc[m] = "append" =>
          /\ stamp[m] = now
          /\ \A i \in DOMAIN log : log[i].registered_at < stamp[m]

\* What a lone manager has tested still holds: the version its call is going to
\* append is a step of the life cycle from the version in force.
FreshInv ==
    \A m \in Managers :
        \/ pc[m] = "read" /\ Accepts(Head(todo[m]), Status(sid[m]))
        \/ pc[m] \in {"stamp", "append"}
        => NewStatus[Head(todo[m])] \in Abs!Step[Status(sid[m])]

AloneInv == StampInv /\ FreshInv

\* The plan a manager makes from the status in force begins with a legal step.
LEMMA PlanIsLegal ==
  ASSUME NEW op \in RegistryOps, NEW st \in Statuses \cup {"absent"}, Plan(op, st) # << >>,
         Accepts(Head(Plan(op, st)), st)
  PROVE  NewStatus[Head(Plan(op, st))] \in Abs!Step[st]
<1>1. CASE op = "activate"
  <2>1. Plan(op, st) = <<"activate">> /\ st \in {"candidate", "inactive"}
    BY <1>1 DEF Plan
  <2>. QED  BY <2>1 DEF NewStatus, Abs!Step
<1>2. CASE op = "deactivate"
  <2>1. Plan(op, st) = <<"deactivate">> /\ st \in {"candidate", "active"}
    BY <1>2 DEF Plan
  <2>. QED  BY <2>1 DEF NewStatus, Abs!Step
<1>3. CASE op = "deprecate" /\ st = "active"
  <2>1. Head(Plan(op, st)) = "deactivate"
    BY <1>3 DEF Plan
  <2>. QED  BY <1>3, <2>1 DEF NewStatus, Abs!Step
<1>4. CASE op = "deprecate" /\ st # "active"
  <2>1. Plan(op, st) = <<"deprecate">> /\ st \in {"candidate", "inactive"}
    BY <1>4 DEF Plan
  <2>. QED  BY <2>1 DEF NewStatus, Abs!Step
<1>5. CASE op = "reactivate"
  <2>1. Head(Plan(op, st)) = "reactivate"
    BY <1>5 DEF Plan
  <2>2. st = "inactive"
    BY <2>1 DEF Accepts
  <2>. QED  BY <2>1, <2>2 DEF NewStatus, Abs!Step
<1>. QED  BY <1>1, <1>2, <1>3, <1>4, <1>5 DEF RegistryOps

\* The append of a lone manager puts its version in force and touches no other
\* strategy.
LEMMA WriteTakesEffect ==
  ASSUME TypeInv, StampInv, NEW m \in Managers, Write(m)
  PROVE  /\ Status(sid[m])' = NewStatus[Head(todo[m])]
         /\ \A s \in StrategyIds : s # sid[m] => Status(s)' = Status(s)
<1>. DEFINE r == [strategy_id |-> sid[m], status |-> NewStatus[Head(todo[m])],
                  registered_at |-> stamp[m]]
<1>1. r \in Versions /\ log' = Append(log, r) /\ log \in Seq(Versions) /\ HasCurrent(log)
  BY WrittenVersion DEF Write, AppendVersion, TypeInv, TypeOK, RegistryTypeOK
<1>2. r.strategy_id = sid[m] /\ r.status = NewStatus[Head(todo[m])] /\ r.registered_at = stamp[m]
  OBVIOUS
<1>. HIDE DEF r
<1>3. sid' = sid /\ sid[m] \in StrategyIds /\ pc[m] = "append" /\ stamp[m] \in Nat
  BY DEF Write, TypeInv, TypeOK
<1>4. Status(sid[m])' = NewStatus[Head(todo[m])]
  <2>1. CASE IsRegistered(log, sid[m])
    <3>1. PICK i \in DOMAIN log : IsCurrent(log, sid[m], i)
      BY <1>1, <1>3, <2>1 DEF HasCurrent
    <3>2. log[i].registered_at < r.registered_at /\ log[i].registered_at \in Nat
      <4>1. log[i] \in Versions
        BY <1>1
      <4>. QED  BY <1>2, <1>3, <3>1, <4>1 DEF StampInv, Versions
    <3>3. ~ (IsCurrent(log', sid[m], i) /\ log'[i] = log[i])
      <4>1. Len(log') \in DOMAIN log' /\ log'[Len(log')] = r
        BY <1>1, AppendPositions
      <4>. QED  BY <1>2, <1>3, <3>2, <4>1 DEF IsCurrent
    <3>4. IsCurrent(log', sid[m], Len(log')) /\ log'[Len(log')] = r
      BY <1>1, <3>1, <3>3, AppendNext
    <3>5. InForce(log', sid[m]) = r /\ IsRegistered(log', sid[m])
      <4>1. log' \in Seq(Versions)
        BY <1>1, AppendPositions
      <4>2. InForce(log', sid[m]) = log'[Len(log')]
        BY <3>4, <4>1, InForceIs
      <4>3. IsRegistered(log', sid[m])
        BY <3>4 DEF IsCurrent, IsRegistered
      <4>. QED  BY <3>4, <4>2, <4>3
    <3>. QED  BY <1>2, <1>3, <3>5 DEF Status
  <2>2. CASE ~ IsRegistered(log, sid[m])
    <3>1. IsCurrent(log', sid[m], Len(log')) /\ log'[Len(log')] = r /\ log' \in Seq(Versions)
      BY <1>1, <1>2, <2>2, AppendFirst, AppendPositions
    <3>2. InForce(log', sid[m]) = r /\ IsRegistered(log', sid[m])
      <4>2. InForce(log', sid[m]) = log'[Len(log')]
        BY <3>1, InForceIs
      <4>3. IsRegistered(log', sid[m])
        BY <3>1 DEF IsCurrent, IsRegistered
      <4>. QED  BY <3>1, <4>2, <4>3
    <3>. QED  BY <1>2, <1>3, <3>2 DEF Status
  <2>. QED  BY <2>1, <2>2
<1>5. ASSUME NEW s \in StrategyIds, s # sid[m]
      PROVE  Status(s)' = Status(s)
  <2>1. CASE IsRegistered(log, s)
    <3>1. IsRegistered(log', s) /\ InForce(log', s) = InForce(log, s)
      BY <1>1, <1>2, <1>5, <2>1, AppendToRegistered, Zenon
    <3>. QED  BY <2>1, <3>1 DEF Status
  <2>2. CASE ~ IsRegistered(log, s)
    <3>1. ~ IsRegistered(log', s)
      BY <1>1, <1>2, <1>5, <2>2, AppendPositions DEF IsRegistered
    <3>. QED  BY <2>2, <3>1 DEF Status
  <2>. QED  BY <2>1, <2>2
<1>. QED  BY <1>4, <1>5

\* The stamps in the log are natural numbers.
LEMMA StampType == TypeInv => \A i \in DOMAIN log : log[i].registered_at \in Nat
<1>. SUFFICES ASSUME TypeInv, NEW i \in DOMAIN log PROVE log[i].registered_at \in Nat
  OBVIOUS
<1>1. log[i] \in Versions
  BY DEF TypeInv, TypeOK, RegistryTypeOK
<1>. QED  BY <1>1 DEF Versions

\* Every step of a lone manager keeps StampInv.
LEMMA StampStep ==
  ASSUME Alone, TypeInv, TypeInv', StampInv, [Next]_vars
  PROVE  StampInv'
<1>0. PICK m : Managers = {m}
  BY DEF Alone
<1>1. now \in Nat /\ \A i \in DOMAIN log : log[i].registered_at \in Nat
  BY StampType DEF TypeInv, TypeOK, RegistryTypeOK
<1>2. ASSUME UNCHANGED log, now' = now + 1, stamp' = [stamp EXCEPT ![m] = now + 1]
      PROVE  StampInv'
  <2>1. stamp'[m] = now + 1
    BY <1>0, <1>2 DEF TypeInv, TypeOK
  <2>. QED  BY <1>0, <1>1, <1>2, <2>1 DEF StampInv
<1>3. ASSUME UNCHANGED <<log, now, stamp>>, pc'[m] = "append" => pc[m] = "append"
      PROVE  StampInv'
  BY <1>0, <1>3 DEF StampInv
<1>4. Readings = {now + 1}
  BY DEF Alone, Readings
<1>5. ASSUME NEW s \in StrategyIds, Register(m, s) PROVE StampInv'
  BY <1>2, <1>4, <1>5 DEF Register
<1>6. ASSUME NEW s \in StrategyIds, NEW op \in RegistryOps, Call(m, op, s) PROVE StampInv'
  BY <1>0, <1>3, <1>6 DEF Call, TypeInv, TypeOK
<1>7. CASE Read(m)
  BY <1>0, <1>3, <1>7 DEF Read, Done, TypeInv, TypeOK
<1>8. CASE Stamp(m)
  BY <1>2, <1>4, <1>8 DEF Stamp
<1>9. CASE Write(m)
  <2>. DEFINE r == [strategy_id |-> sid[m], status |-> NewStatus[Head(todo[m])],
                    registered_at |-> stamp[m]]
  <2>1. r \in Versions /\ log' = Append(log, r) /\ log \in Seq(Versions)
    BY <1>0, <1>9, WrittenVersion DEF Write, AppendVersion, TypeInv, TypeOK, RegistryTypeOK
  <2>2. r.registered_at = now
    BY <1>0, <1>9 DEF Write, StampInv
  <2>. HIDE DEF r
  <2>3. \A i \in DOMAIN log' : (i \in DOMAIN log /\ log'[i] = log[i]) \/ log'[i] = r
    BY <2>1, AppendPositions
  <2>4. now' = now /\ pc'[m] # "append"
    BY <1>0, <1>9 DEF Write, Done, TypeInv, TypeOK
  <2>. QED  BY <1>0, <1>1, <2>2, <2>3, <2>4 DEF StampInv
<1>10. CASE Crash(m)
  BY <1>0, <1>3, <1>10 DEF Crash, TypeInv, TypeOK
<1>11. CASE Restart(m)
  BY <1>0, <1>3, <1>11 DEF Restart, TypeInv, TypeOK
<1>12. CASE UNCHANGED vars
  BY <1>3, <1>12 DEF vars
<1>. QED  BY <1>0, <1>5, <1>6, <1>7, <1>8, <1>9, <1>10, <1>11, <1>12 DEF Next

\* Every step of a lone manager keeps FreshInv.
LEMMA FreshStep ==
  ASSUME Alone, TypeInv, AloneInv, [Next]_vars
  PROVE  FreshInv'
<1>0. PICK m : Managers = {m}
  BY DEF Alone
<1>1. /\ sid[m] \in StrategyIds /\ todo[m] \in Plans
      /\ pc \in [Managers -> {"idle", "read", "stamp", "append", "down"}]
      /\ todo \in [Managers -> Plans] /\ sid \in [Managers -> StrategyIds]
      /\ pc[m] \in {"read", "stamp", "append"} => todo[m] # << >>
  BY <1>0 DEF TypeInv, TypeOK
<1>2. UNCHANGED log => \A s : Status(s)' = Status(s)
  BY DEF Status
<1>3. ASSUME NEW s \in StrategyIds, Register(m, s) PROVE FreshInv'
  <2>1. UNCHANGED log /\ sid'[m] = s /\ todo'[m] = <<"register">>
    BY <1>0, <1>1, <1>3 DEF Register
  <2>2. Status(s)' = "absent"
    BY <1>3, <2>1 DEF Register, Status
  <2>. QED  BY <1>0, <2>1, <2>2 DEF FreshInv, NewStatus, Abs!Step
<1>4. ASSUME NEW s \in StrategyIds, NEW op \in RegistryOps, Call(m, op, s) PROVE FreshInv'
  <2>1. /\ UNCHANGED log /\ sid'[m] = s /\ todo'[m] = Plan(op, Status(s)) /\ pc'[m] = "read"
        /\ Plan(op, Status(s)) # << >>
    BY <1>0, <1>1, <1>4 DEF Call
  <2>2. Status(s) \in Statuses \cup {"absent"} /\ Status(s)' = Status(s)
    BY <1>2, <2>1, StatusType DEF TypeInv, TypeOK
  <2>3. ASSUME Accepts(Head(Plan(op, Status(s))), Status(s))
        PROVE  NewStatus[Head(Plan(op, Status(s)))] \in Abs!Step[Status(s)]
    BY <2>1, <2>2, <2>3, PlanIsLegal
  <2>. QED  BY <1>0, <2>1, <2>2, <2>3 DEF FreshInv
<1>5. ASSUME Done(m), UNCHANGED sid, todo[m] # << >>,
             todo[m] = <<"deactivate", "deprecate">> => Status(sid[m])' \in {"absent", "inactive"}
      PROVE  FreshInv'
  <2>1. /\ sid'[m] = sid[m] /\ todo'[m] = Tail(todo[m])
        /\ pc'[m] = IF Tail(todo[m]) = << >> THEN "idle" ELSE "read"
    BY <1>0, <1>1, <1>5 DEF Done
  <2>2. CASE todo[m] = <<"deactivate", "deprecate">>
    <3>1. Head(todo'[m]) = "deprecate" /\ pc'[m] = "read"
      BY <2>1, <2>2
    <3>2. Accepts("deprecate", "absent") = FALSE /\ NewStatus["deprecate"] \in Abs!Step["inactive"]
      BY DEF Accepts, NewStatus, Abs!Step
    <3>3. Status(sid[m])' = "absent" \/ Status(sid[m])' = "inactive"
      BY <1>5, <2>2
    <3>. QED  BY <1>0, <1>5, <3>1, <3>2, <3>3 DEF FreshInv
  <2>3. CASE todo[m] # <<"deactivate", "deprecate">>
    <3>1. \E x : todo[m] = <<x>>
      BY <1>1, <1>5, <2>3 DEF Plans
    <3>2. Tail(todo[m]) = << >>
      BY <3>1
    <3>. QED  BY <1>0, <2>1, <3>2 DEF FreshInv
  <2>. QED  BY <2>2, <2>3
<1>6. CASE Read(m)
  <2>1. CASE Accepts(Head(todo[m]), Status(sid[m]))
    <3>1. UNCHANGED <<log, sid>> /\ pc[m] = "read" /\ UNCHANGED todo
      BY <1>6, <2>1 DEF Read
    <3>. QED  BY <1>0, <1>2, <2>1, <3>1 DEF AloneInv, FreshInv
  <2>2. CASE ~ Accepts(Head(todo[m]), Status(sid[m]))
    <3>1. Done(m) /\ UNCHANGED <<log, sid>> /\ todo[m] # << >>
      BY <1>1, <1>6, <2>2 DEF Read
    <3>2. todo[m] = <<"deactivate", "deprecate">> => Status(sid[m]) = "absent"
      BY <2>2 DEF Accepts
    <3>3. Status(sid[m])' = Status(sid[m])
      BY <1>2, <3>1
    <3>. QED  BY <1>5, <3>1, <3>2, <3>3
  <2>. QED  BY <2>1, <2>2
<1>7. CASE Stamp(m)
  <2>1. UNCHANGED <<log, sid, todo>> /\ pc[m] = "stamp"
    BY <1>7 DEF Stamp
  <2>. QED  BY <1>0, <1>2, <2>1 DEF AloneInv, FreshInv
<1>8. CASE Write(m)
  <2>1. Done(m) /\ UNCHANGED sid /\ todo[m] # << >>
    BY <1>1, <1>8 DEF Write
  <2>2. Status(sid[m])' = NewStatus[Head(todo[m])]
    BY <1>0, <1>8, WriteTakesEffect DEF AloneInv
  <2>3. todo[m] = <<"deactivate", "deprecate">> => NewStatus[Head(todo[m])] = "inactive"
    BY DEF NewStatus
  <2>. QED  BY <1>5, <2>1, <2>2, <2>3
<1>9. CASE Crash(m)
  <2>1. pc'[m] = "down"
    BY <1>0, <1>1, <1>9 DEF Crash
  <2>. QED  BY <1>0, <2>1 DEF FreshInv
<1>10. CASE Restart(m)
  <2>1. pc'[m] = "idle"
    BY <1>0, <1>1, <1>10 DEF Restart
  <2>. QED  BY <1>0, <2>1 DEF FreshInv
<1>11. CASE UNCHANGED vars
  BY <1>2, <1>11 DEF vars, AloneInv, FreshInv
<1>. QED  BY <1>0, <1>3, <1>4, <1>6, <1>7, <1>8, <1>9, <1>10, <1>11 DEF Next

LEMMA AloneInvariant == ASSUME Alone PROVE Spec => [](TypeInv /\ AloneInv)
<1>1. Init => AloneInv
  BY DEF Init, RegistryInit, AloneInv, StampInv, FreshInv
<1>2. TypeInv /\ AloneInv /\ [Next]_vars => AloneInv'
  BY TypeStep, StampStep, FreshStep DEF AloneInv
<1>. QED  BY <1>1, <1>2, TypeInvariant, PTL DEF Spec

\* The log changes only by an append.
LEMMA OnlyWrites == ASSUME [Next]_vars, log' # log PROVE \E m \in Managers : Write(m)
BY DEF Next, vars, Register, Call, Read, Stamp, Crash, Restart

\* One manager with a clock that tells any two readings apart implements the life
\* cycle of LifecycleAbs, whenever it dies: every append is one step of one strategy
\* from the version in force, and every other step changes no version in force.
THEOREM AloneImplementsLifecycle == ASSUME Alone PROVE Spec => ImplementsLifecycle
<1>1. Init => Abs!Init
  BY DEF Init, RegistryInit, Abs!Init, Status, IsRegistered
<1>2. ASSUME TypeInv, AloneInv, [Next]_vars
      PROVE  [Abs!Next]_([s \in StrategyIds |-> Status(s)])
  <2>1. CASE UNCHANGED log
    BY <2>1 DEF Status
  <2>2. ASSUME NEW m \in Managers, Write(m) PROVE Abs!Next
    <3>. DEFINE to == NewStatus[Head(todo[m])]
    <3>1. sid[m] \in StrategyIds /\ pc[m] = "append"
      BY <1>2, <2>2 DEF Write, TypeInv, TypeOK
    <3>2. /\ Status(sid[m])' = to
          /\ \A s \in StrategyIds : s # sid[m] => Status(s)' = Status(s)
      BY <1>2, <2>2, WriteTakesEffect DEF AloneInv
    <3>3. to \in Abs!Step[Status(sid[m])]
      BY <1>2, <3>1 DEF AloneInv, FreshInv
    <3>4. UNCHANGED sid
      BY <2>2 DEF Write
    <3>. HIDE DEF to
    <3>5. [s \in StrategyIds |-> Status(s)]'
             = [[s \in StrategyIds |-> Status(s)] EXCEPT ![sid[m]] = to]
      BY <3>1, <3>2, <3>4
    <3>6. Abs!Move(sid[m])
      BY <3>1, <3>3, <3>5 DEF Abs!Move
    <3>. QED  BY <3>1, <3>6 DEF Abs!Next
  <2>. QED  BY <1>2, <2>1, <2>2, OnlyWrites
<1>. QED  BY <1>1, <1>2, AloneInvariant, PTL DEF Spec, ImplementsLifecycle, Abs!Spec

\* What the shared log does not keep (DeprecatedIsFinal), a lone manager does: the
\* abstract life cycle has no step that leaves "deprecated".
THEOREM AloneDeprecationIsFinal == ASSUME Alone PROVE Spec => DeprecatedIsFinal
<1>1. ASSUME TypeInv, AloneInv, [Next]_vars, NEW s \in StrategyIds, Status(s) = "deprecated"
      PROVE  Status(s)' = "deprecated"
  <2>1. CASE UNCHANGED log
    BY <1>1, <2>1 DEF Status
  <2>2. ASSUME NEW m \in Managers, Write(m) PROVE Status(s)' = "deprecated"
    <3>1. sid[m] \in StrategyIds /\ pc[m] = "append"
      BY <1>1, <2>2 DEF Write, TypeInv, TypeOK
    <3>2. NewStatus[Head(todo[m])] \in Abs!Step[Status(sid[m])]
      BY <1>1, <3>1 DEF AloneInv, FreshInv
    <3>3. s # sid[m]
      BY <1>1, <3>2 DEF Abs!Step
    <3>. QED  BY <1>1, <2>2, <3>3, WriteTakesEffect DEF AloneInv
  <2>. QED  BY <1>1, <2>1, <2>2, OnlyWrites
<1>2. TypeInv /\ AloneInv /\ [Next]_vars
        => [\A s \in StrategyIds : Status(s) = "deprecated" => Status(s)' = "deprecated"]_vars
  BY <1>1
<1>. QED  BY <1>2, AloneInvariant, PTL DEF Spec, DeprecatedIsFinal

=============================================================================
