--------------------------- MODULE LiveNode_proofs --------------------------
(***************************************************************************)
(* Proofs about the execution engine (ExecEngine) for any orders, trades   *)
(* and venue order ids, and about the live node (LiveNode), whose steps    *)
(* change the engine's state by steps of the engine only.  They begin with *)
(* what SumFunctionOnSet() computes over a finite set, by induction over   *)
(* its subsets.                                                            *)
(***************************************************************************)
EXTENDS LiveNode, FiniteSetTheorems, TLAPS

-----------------------------------------------------------------------------
(* Sums over finite sets *)

\* Induction over the subsets of a finite set; T holds those of which the claim is
\* known.
LEMMA SubsetInduction ==
    ASSUME NEW S, IsFiniteSet(S), NEW T,
           \A s \in SUBSET S : (\A r \in SUBSET s : r # s => r \in T) => s \in T
    PROVE  SUBSET S \subseteq T
  <1> DEFINE W == (SUBSET S) \ T
  <1>1. SUFFICES ASSUME W # {} PROVE FALSE
    OBVIOUS
  <1>2. IsWellFoundedOn(StrictSubsetOrdering(S), SUBSET S)
    <2>1. FiniteSubsetsOf(S) = SUBSET S
      BY FS_FiniteSubsetsOfFinite
    <2>2. IsWellFoundedOn(StrictSubsetOrdering(S), FiniteSubsetsOf(S))
      BY FS_StrictSubsetOrderingWellFounded
    <2> QED
      BY <2>1, <2>2
  <1>3. PICK s \in W : \A r \in W : <<r, s>> \notin StrictSubsetOrdering(S)
    <2>1. W \subseteq SUBSET S
      OBVIOUS
    <2> HIDE DEF W
    <2> QED
      BY <1>1, <1>2, <2>1, WFMin
  <1>4. \A r \in SUBSET s : r # s => r \in T
    BY <1>3 DEF StrictSubsetOrdering
  <1> QED
    BY <1>3, <1>4

Chosen(s) == CHOOSE x \in s : TRUE

\* The function by which SumFunctionOnSet() is defined.
IsSum(g, F, S) ==
    g = [s \in SUBSET S |-> IF s = {} THEN 0 ELSE F[Chosen(s)] + g[s \ {Chosen(s)}]]

Solution(F, S) == CHOOSE g : IsSum(g, F, S)

LEMMA SumUnfold ==
    ASSUME NEW F, NEW S
    PROVE  SumFunctionOnSet(F, S) = Solution(F, S)[S]
  BY DEF SumFunctionOnSet, FoldFunctionOnSet, MapThenFoldSet, Solution, IsSum, Chosen

LEMMA ChosenIn ==
    ASSUME NEW s, s # {}
    PROVE  Chosen(s) \in s
  BY DEF Chosen

LEMMA SumAt ==
    ASSUME NEW g, NEW F, NEW S, IsSum(g, F, S), NEW s \in SUBSET S
    PROVE  g[s] = IF s = {} THEN 0 ELSE F[Chosen(s)] + g[s \ {Chosen(s)}]
  <1> DEFINE h == [r \in SUBSET S |-> IF r = {} THEN 0 ELSE F[Chosen(r)] + g[r \ {Chosen(r)}]]
  <1>1. g = h
    BY DEF IsSum
  <1>2. h[s] = IF s = {} THEN 0 ELSE F[Chosen(s)] + g[s \ {Chosen(s)}]
    OBVIOUS
  <1> HIDE DEF h
  <1> QED
    BY <1>1, <1>2

\* It is the same on the sets that two of them share.
LEMMA SumUnique ==
    ASSUME NEW F, NEW S, NEW R, IsFiniteSet(S), NEW g, NEW h, IsSum(g, F, S), IsSum(h, F, R),
           NEW s \in SUBSET S, s \in SUBSET R
    PROVE  g[s] = h[s]
  <1> DEFINE T == {r \in SUBSET S : r \in SUBSET R => g[r] = h[r]}
  <1>1. ASSUME NEW r \in SUBSET S, \A q \in SUBSET r : q # r => q \in T
        PROVE  r \in T
    <2> SUFFICES ASSUME r \in SUBSET R PROVE g[r] = h[r]
      OBVIOUS
    <2>1. /\ g[r] = IF r = {} THEN 0 ELSE F[Chosen(r)] + g[r \ {Chosen(r)}]
          /\ h[r] = IF r = {} THEN 0 ELSE F[Chosen(r)] + h[r \ {Chosen(r)}]
      BY SumAt
    <2>2. CASE r = {}
      BY <2>1, <2>2
    <2>3. CASE r # {}
      <3>1. Chosen(r) \in r
        BY <2>3, ChosenIn
      <3>2. r \ {Chosen(r)} \in T /\ r \ {Chosen(r)} \in SUBSET R
        BY <1>1, <3>1
      <3> QED
        BY <2>1, <2>3, <3>2
    <2> QED
      BY <2>2, <2>3
  <1>2. SUBSET S \subseteq T
    <2> HIDE DEF T
    <2> QED
      BY <1>1, SubsetInduction
  <1> QED
    BY <1>2

\* There is one for every finite set: the value at a subset is taken from one of its own.
LEMMA SumExists ==
    ASSUME NEW F, NEW S, IsFiniteSet(S)
    PROVE  IsSum(Solution(F, S), F, S)
  <1> DEFINE T == {s \in SUBSET S : IsSum(Solution(F, s), F, s)}
  <1>1. ASSUME NEW s \in SUBSET S, \A r \in SUBSET s : r # s => r \in T
        PROVE  s \in T
    <2> DEFINE Before(r) == r \ {Chosen(r)}
               v(r) == Solution(F, r)[r]
               g == [r \in SUBSET s |-> IF r = {} THEN 0 ELSE F[Chosen(r)] + v(Before(r))]
    <2>1. ASSUME NEW r \in SUBSET s, r # s
          PROVE  g[r] = v(r)
      <3>1. IsSum(Solution(F, r), F, r)
        BY <1>1, <2>1
      <3>2. v(r) = IF r = {} THEN 0 ELSE F[Chosen(r)] + Solution(F, r)[Before(r)]
        BY <3>1, SumAt
      <3>3. CASE r = {}
        BY <3>2, <3>3
      <3>4. CASE r # {}
        <4>1. Before(r) \in SUBSET r /\ Before(r) \in SUBSET s /\ Before(r) # s
          BY <2>1
        <4>2. IsSum(Solution(F, Before(r)), F, Before(r)) /\ IsFiniteSet(r)
          BY <1>1, <4>1, FS_Subset
        <4>3. Solution(F, r)[Before(r)] = v(Before(r))
          <5>1. Before(r) \in SUBSET Before(r)
            OBVIOUS
          <5> HIDE DEF Before
          <5> QED
            BY <3>1, <4>1, <4>2, <5>1, SumUnique
        <4> QED
          BY <3>2, <3>4, <4>3
      <3> QED
        BY <3>3, <3>4
    <2>2. ASSUME NEW r \in SUBSET s
          PROVE  (IF r = {} THEN 0 ELSE F[Chosen(r)] + v(Before(r)))
                     = IF r = {} THEN 0 ELSE F[Chosen(r)] + g[Before(r)]
      <3>1. CASE r = {}
        BY <3>1
      <3>2. CASE r # {}
        <4>1. Before(r) \in SUBSET s /\ Before(r) # s
          BY <3>2, ChosenIn
        <4>2. g[Before(r)] = v(Before(r))
          BY <2>1, <4>1
        <4> HIDE DEF g, v
        <4> QED
          BY <3>2, <4>2
      <3> QED
        BY <3>1, <3>2
    <2>3. g = [r \in SUBSET s |-> IF r = {} THEN 0 ELSE F[Chosen(r)] + g[Before(r)]]
      <3> DEFINE k == [r \in SUBSET s |-> IF r = {} THEN 0 ELSE F[Chosen(r)] + g[Before(r)]]
      <3>1. \A r \in SUBSET s : g[r] = k[r]
        BY <2>2
      <3>2. g = k
        BY <3>1
      <3> QED
        BY <3>2
    <2>4. IsSum(g, F, s)
      BY <2>3 DEF IsSum
    <2> HIDE DEF g
    <2> QED
      BY <2>4 DEF Solution
  <1>2. SUBSET S \subseteq T
    <2> HIDE DEF T
    <2> QED
      BY <1>1, SubsetInduction
  <1> QED
    BY <1>2

\* What SumFunctionOnSet() computes.
LEMMA SumStep ==
    ASSUME NEW F, NEW S, IsFiniteSet(S)
    PROVE  SumFunctionOnSet(F, S) =
               IF S = {} THEN 0 ELSE F[Chosen(S)] + SumFunctionOnSet(F, S \ {Chosen(S)})
  <1> DEFINE B == S \ {Chosen(S)}
  <1>1. IsFiniteSet(B)
    BY FS_RemoveElement
  <1>2. IsSum(Solution(F, S), F, S) /\ IsSum(Solution(F, B), F, B)
    BY <1>1, SumExists
  <1>3. Solution(F, S)[S] = IF S = {} THEN 0 ELSE F[Chosen(S)] + Solution(F, S)[B]
    BY <1>2, SumAt
  <1>4. Solution(F, S)[B] = Solution(F, B)[B]
    <2>1. B \in SUBSET S
      OBVIOUS
    <2> HIDE DEF B
    <2> QED
      BY <1>2, <2>1, SumUnique
  <1> QED
    BY <1>3, <1>4, SumUnfold

LEMMA SumType ==
    ASSUME NEW F, NEW S, IsFiniteSet(S), \A x \in S : F[x] \in Int
    PROVE  SumFunctionOnSet(F, S) \in Int
  <1> DEFINE T == {s \in SUBSET S : SumFunctionOnSet(F, s) \in Int}
  <1>1. ASSUME NEW s \in SUBSET S, \A r \in SUBSET s : r # s => r \in T
        PROVE  s \in T
    <2>1. SumFunctionOnSet(F, s) = IF s = {} THEN 0 ELSE F[Chosen(s)] + SumFunctionOnSet(F, s \ {Chosen(s)})
      BY FS_Subset, SumStep
    <2>2. CASE s = {}
      BY <2>1, <2>2
    <2>3. CASE s # {}
      <3>1. Chosen(s) \in s
        BY <2>3, ChosenIn
      <3>2. s \ {Chosen(s)} \in T
        BY <1>1, <3>1
      <3> QED
        BY <2>1, <2>3, <3>1, <3>2
    <2> QED
      BY <2>2, <2>3
  <1>2. SUBSET S \subseteq T
    <2> HIDE DEF T
    <2> QED
      BY <1>1, SubsetInduction
  <1> QED
    BY <1>2

\* The sum depends on the values at the elements of the set only.
LEMMA SumSame ==
    ASSUME NEW F, NEW G, NEW S, IsFiniteSet(S), \A x \in S : F[x] = G[x]
    PROVE  SumFunctionOnSet(F, S) = SumFunctionOnSet(G, S)
  <1> DEFINE T == {s \in SUBSET S : SumFunctionOnSet(F, s) = SumFunctionOnSet(G, s)}
  <1>1. ASSUME NEW s \in SUBSET S, \A r \in SUBSET s : r # s => r \in T
        PROVE  s \in T
    <2>1. /\ SumFunctionOnSet(F, s) = IF s = {} THEN 0 ELSE F[Chosen(s)] + SumFunctionOnSet(F, s \ {Chosen(s)})
          /\ SumFunctionOnSet(G, s) = IF s = {} THEN 0 ELSE G[Chosen(s)] + SumFunctionOnSet(G, s \ {Chosen(s)})
      BY FS_Subset, SumStep
    <2>2. CASE s = {}
      BY <2>1, <2>2
    <2>3. CASE s # {}
      <3>1. Chosen(s) \in s
        BY <2>3, ChosenIn
      <3>2. s \ {Chosen(s)} \in T
        BY <1>1, <3>1
      <3>3. F[Chosen(s)] = G[Chosen(s)]
        BY <3>1
      <3> QED
        BY <2>1, <2>3, <3>2, <3>3
    <2> QED
      BY <2>2, <2>3
  <1>2. SUBSET S \subseteq T
    <2> HIDE DEF T
    <2> QED
      BY <1>1, SubsetInduction
  <1> QED
    BY <1>2

\* Any element may be taken out of the sum, not the chosen one only.
LEMMA SumWithout ==
    ASSUME NEW F, NEW S, IsFiniteSet(S), \A x \in S : F[x] \in Int, NEW y \in S
    PROVE  SumFunctionOnSet(F, S) = F[y] + SumFunctionOnSet(F, S \ {y})
  <1> DEFINE Sum(s) == SumFunctionOnSet(F, s)
             T == {s \in SUBSET S : \A x \in s : Sum(s) = F[x] + Sum(s \ {x})}
  <1>1. ASSUME NEW s \in SUBSET S, \A r \in SUBSET s : r # s => r \in T
        PROVE  s \in T
    <2> SUFFICES ASSUME NEW x \in s PROVE Sum(s) = F[x] + Sum(s \ {x})
      OBVIOUS
    <2> DEFINE c == Chosen(s)
    <2>1. c \in s /\ IsFiniteSet(s)
      BY ChosenIn, FS_Subset
    <2>2. Sum(s) = F[c] + Sum(s \ {c})
      BY <2>1, SumStep
    <2>3. CASE x = c
      BY <2>2, <2>3
    <2>4. CASE x # c
      <3>1. Sum(s \ {c}) = F[x] + Sum((s \ {c}) \ {x})
        <4>1. s \ {c} \in T /\ x \in s \ {c}
          BY <1>1, <2>1, <2>4
        <4> HIDE DEF c, Sum
        <4> QED
          BY <4>1
      <3>2. Sum(s \ {x}) = F[c] + Sum((s \ {x}) \ {c})
        <4>1. s \ {x} \in T /\ c \in s \ {x}
          BY <1>1, <2>1, <2>4
        <4> HIDE DEF c, Sum
        <4> QED
          BY <4>1
      <3>3. (s \ {c}) \ {x} = (s \ {x}) \ {c}
        OBVIOUS
      <3>4. F[x] \in Int /\ F[c] \in Int /\ Sum((s \ {x}) \ {c}) \in Int
        <4>1. (s \ {x}) \ {c} \in SUBSET S
          OBVIOUS
        <4>2. IsFiniteSet((s \ {x}) \ {c})
          BY <4>1, FS_Subset
        <4>3. F[x] \in Int /\ F[c] \in Int
          BY <2>1
        <4> QED
          BY <4>1, <4>2, <4>3, SumType
      <3>5. Sum((s \ {c}) \ {x}) = Sum((s \ {x}) \ {c})
        BY <3>3
      <3>6. \A a, b, r \in Int : a + (b + r) = b + (a + r)
        OBVIOUS
      <3>7. Sum(s) = F[c] + (F[x] + Sum((s \ {x}) \ {c}))
        BY <2>2, <3>1, <3>5
      <3>8. F[c] + (F[x] + Sum((s \ {x}) \ {c})) = F[x] + (F[c] + Sum((s \ {x}) \ {c}))
        BY <3>4, <3>6
      <3> QED
        BY <3>2, <3>7, <3>8
    <2> QED
      BY <2>3, <2>4
  <1>2. SUBSET S \subseteq T
    <2> HIDE DEF T
    <2> QED
      BY <1>1, SubsetInduction
  <1> QED
    BY <1>2

\* An element that is added.
LEMMA SumWith ==
    ASSUME NEW F, NEW S, IsFiniteSet(S), NEW y, y \notin S, \A x \in S \cup {y} : F[x] \in Int
    PROVE  SumFunctionOnSet(F, S \cup {y}) = SumFunctionOnSet(F, S) + F[y]
  <1>1. IsFiniteSet(S \cup {y}) /\ y \in S \cup {y} /\ (S \cup {y}) \ {y} = S
    BY FS_AddElement
  <1>2. SumFunctionOnSet(F, S \cup {y}) = F[y] + SumFunctionOnSet(F, S)
    <2> DEFINE R == S \cup {y}
    <2>1. SumFunctionOnSet(F, R) = F[y] + SumFunctionOnSet(F, R \ {y})
      <3> HIDE DEF R
      <3>1. IsFiniteSet(R) /\ y \in R /\ \A x \in R : F[x] \in Int
        BY <1>1 DEF R
      <3> QED
        BY <3>1, SumWithout
    <2> QED
      BY <2>1, <1>1
  <1>3. SumFunctionOnSet(F, S) \in Int /\ F[y] \in Int
    BY SumType
  <1> QED
    BY <1>2, <1>3

LEMMA SumEmpty ==
    ASSUME NEW F
    PROVE  SumFunctionOnSet(F, {}) = 0
  BY SumStep, FS_EmptySet

-----------------------------------------------------------------------------
(* One order *)

Base == {"Submitted", "Accepted", "Triggered", "PartiallyFilled"}

\* What every order of the cache satisfies.
OrderOK(o) ==
    /\ o \in Orders
    /\ o.status \in Pending => o.previous_status \in Base
    /\ o.status = "Filled" => o.filled_qty >= o.quantity
    /\ o.status = "Initialized" => o.venue_order_id = None

EventOK(e) ==
    e \in [kind : Plain \cup {"Denied", "Accepted", "Updated"}, venue : VenueIds \cup {None},
           quantity : Nat]

\* The head of apply() changes previous_status only.
LEMMA NotedOK ==
    ASSUME NEW o, OrderOK(o), NEW kind
    PROVE  /\ OrderOK(Noted(o, kind))
           /\ Noted(o, kind).status = o.status
           /\ Noted(o, kind).trade_ids = o.trade_ids
           /\ Noted(o, kind).filled_qty = o.filled_qty
           /\ Noted(o, kind).quantity = o.quantity
           /\ Noted(o, kind).venue_order_id = o.venue_order_id
  BY DEF Noted, OrderOK, Orders, Status, Pending, Open, Closed

\* An event that is not a fill keeps an order's trades, and a closed order's status;
\* no order is returned to Initialized.
LEMMA ApplyOK ==
    ASSUME NEW o, OrderOK(o), NEW e, EventOK(e),
           o.status = "Initialized" => e.kind \in {"Submitted", "Denied"}
    PROVE  /\ OrderOK(Apply(o, e))
           /\ Apply(o, e).trade_ids = o.trade_ids
           /\ Apply(o, e).status # "Initialized"
           /\ o.status \in Closed => Apply(o, e).status = o.status
           /\ o.status = "Initialized" => Apply(o, e).venue_order_id = None
  <1> DEFINE n == Noted(o, e.kind)
  <1>1. /\ OrderOK(n) /\ n.status = o.status /\ n.trade_ids = o.trade_ids
        /\ n.venue_order_id = o.venue_order_id
    BY NotedOK
  <1> HIDE DEF n
  <1>2. CASE o.status \notin Sources(e.kind)
    <2>1. Apply(o, e) = n
      BY <1>2 DEF Apply, n
    <2>2. o.status # "Initialized"
      BY <1>2 DEF Sources
    <2> QED
      BY <2>1, <2>2, <1>1
  <1>3. CASE o.status \in Sources(e.kind)
    <2>1. Apply(o, e) = Moved(n, e)
      BY <1>3 DEF Apply, n
    <2>2. o.status \notin Closed
      BY <1>3 DEF Sources, EventOK, Plain, Closed, Open, Pending, AcceptedFrom
    <2>3. CASE e.kind \in {"ModifyRejected", "CancelRejected"}
      <3>1. Moved(n, e) = [n EXCEPT !.status = n.previous_status]
        BY <2>3 DEF Moved
      <3>2. n.previous_status \in Base
        BY <1>1, <1>3, <2>3 DEF OrderOK, Sources, Pending
      <3>3. o.status # "Initialized"
        BY <2>3
      <3>4. n.previous_status \in Status \ (Pending \cup {"Filled", "Initialized"})
        BY <3>2 DEF Base, Status, Pending, Open
      <3>5. n \in Orders
        BY <1>1 DEF OrderOK
      <3>6. /\ Moved(n, e) \in Orders
            /\ Moved(n, e).status = n.previous_status
            /\ Moved(n, e).trade_ids = n.trade_ids
        BY <3>1, <3>4, <3>5 DEF Orders
      <3> HIDE DEF Orders
      <3>7. OrderOK(Moved(n, e))
        BY <3>4, <3>6 DEF OrderOK
      <3> QED
        BY <2>1, <2>2, <3>3, <3>4, <3>6, <3>7, <1>1
    <2>4. CASE e.kind = "Updated"
      <3>1. Moved(n, e) = [n EXCEPT
                !.status = IF n.status = "PendingUpdate" THEN n.previous_status ELSE n.status,
                !.venue_order_id = IF e.venue = None THEN n.venue_order_id ELSE e.venue,
                !.quantity = e.quantity]
        BY <2>4 DEF Moved
      <3>2. o.status # "Initialized"
        BY <2>4
      <3>3. n.status = "PendingUpdate" => n.previous_status \in Base
        BY <1>1 DEF OrderOK, Pending
      <3>4. n.status \notin {"Filled", "Initialized"}
        BY <2>2, <3>2, <1>1 DEF Closed
      <3> DEFINE st == IF n.status = "PendingUpdate" THEN n.previous_status ELSE n.status
      <3>5. n \in Orders /\ e.venue \in VenueIds \cup {None} /\ e.quantity \in Nat
        BY <1>1 DEF OrderOK, EventOK
      <3>6. st \in Status \ {"Filled", "Initialized", "PendingUpdate"}
        BY <3>3, <3>4, <3>5 DEF Orders, Base, Status, Open, Pending
      <3>7. st \in Pending => n.previous_status \in Base
        BY <3>3, <1>1 DEF OrderOK, Base, Pending
      <3>8. /\ Moved(n, e) \in Orders
            /\ Moved(n, e).status = st
            /\ Moved(n, e).previous_status = n.previous_status
            /\ Moved(n, e).trade_ids = n.trade_ids
        BY <3>1, <3>5, <3>6 DEF Orders
      <3> HIDE DEF st
      <3>9. OrderOK(Moved(n, e))
        BY <3>6, <3>7, <3>8 DEF OrderOK
      <3> QED
        BY <2>1, <2>2, <3>2, <3>6, <3>8, <3>9, <1>1
    <2>5. CASE e.kind = "Accepted"
      <3>1. Moved(n, e) = [n EXCEPT !.status = "Accepted", !.venue_order_id = e.venue]
        BY <2>5 DEF Moved
      <3>2. o.status # "Initialized"
        BY <2>5
      <3>3. n \in Orders /\ e.venue \in VenueIds \cup {None} /\ "Accepted" \in Status
        BY <1>1 DEF OrderOK, EventOK, Status, Open
      <3>4. /\ Moved(n, e) \in Orders
            /\ Moved(n, e).status = "Accepted"
            /\ Moved(n, e).trade_ids = n.trade_ids
        BY <3>1, <3>3 DEF Orders
      <3>5. OrderOK(Moved(n, e))
        BY <3>4 DEF OrderOK, Pending
      <3> QED
        BY <2>1, <2>2, <3>2, <3>4, <3>5, <1>1
    <2>6. CASE e.kind \in (Plain \ {"ModifyRejected", "CancelRejected"}) \cup {"Denied"}
      <3>1. Moved(n, e) = [n EXCEPT !.status = e.kind]
        BY <2>6 DEF Moved, Plain
      <3>2. e.kind \in Status \ {"Filled", "Initialized"}
        BY <2>6 DEF Plain, Status, Open, Closed, Pending
      <3>3. e.kind \in Pending => n.previous_status \in Base
        <4>1. SUFFICES ASSUME e.kind \in Pending PROVE n.previous_status \in Base
          OBVIOUS
        <4>2. o.status \in {"Submitted"} \cup Open
          BY <1>3, <4>1 DEF Sources, Pending
        <4>3. CASE o.status \in Pending
          BY <4>3, <1>1 DEF OrderOK
        <4>4. CASE o.status \notin Pending
          <5>1. n.previous_status = o.status
            BY <4>1, <4>4 DEF n, Noted, Pending, OrderOK, Orders
          <5> QED
            BY <5>1, <4>2, <4>4 DEF Open, Base
        <4> QED
          BY <4>3, <4>4
      <3> QED
        BY <2>1, <2>2, <3>1, <3>2, <3>3, <1>1 DEF OrderOK, Orders
    <2> QED
      BY <2>3, <2>4, <2>5, <2>6 DEF EventOK
  <1> QED
    BY <1>2, <1>3

\* A fill that is not a duplicate is recorded if the order's status allows it, and
\* changes nothing but previous_status otherwise.
LEMMA ApplyFillOK ==
    ASSUME NEW o, OrderOK(o), o.status # "Initialized", NEW t \in Trades
    PROVE  LET r == ApplyFill(o, Fill[t]) IN
           /\ OrderOK(r)
           /\ r.status # "Initialized"
           /\ o.status \in FilledFrom =>
                 r.trade_ids = o.trade_ids \cup {t} /\ r.venue_order_id = Fill[t].venue
           /\ o.status \notin FilledFrom => r.trade_ids = o.trade_ids
           /\ o.status \in Closed =>
                 \/ r.status = o.status
                 \/ o.status = "Canceled" /\ r.status \in {"PartiallyFilled", "Filled"}
  <1> DEFINE n == Noted(o, "Filled")
  <1>1. /\ OrderOK(n) /\ n.status = o.status /\ n.trade_ids = o.trade_ids
    BY NotedOK
  <1> HIDE DEF n
  <1>2. Sources("Filled") = FilledFrom
    BY DEF Sources
  <1>3. /\ Fill[t].qty \in Nat \ {0} /\ Fill[t].venue \in VenueIds /\ Fill[t].trade_id = t
    BY EngineAssumption
  <1>4. CASE o.status \notin FilledFrom
    <2>1. ApplyFill(o, Fill[t]) = n
      BY <1>4, <1>2 DEF ApplyFill, n
    <2> QED
      BY <2>1, <1>1, <1>4
  <1>5. CASE o.status \in FilledFrom
    <2>1. ApplyFill(o, Fill[t]) = Filled(n, Fill[t])
      BY <1>5, <1>2 DEF ApplyFill, n
    <2>2. Filled(n, Fill[t]) =
             [n EXCEPT !.status = IF n.filled_qty + Fill[t].qty < n.quantity
                                  THEN "PartiallyFilled" ELSE "Filled",
                       !.venue_order_id = Fill[t].venue,
                       !.filled_qty = n.filled_qty + Fill[t].qty,
                       !.trade_ids = n.trade_ids \cup {t}]
      BY <1>3 DEF Filled
    <2>3. o.status \in Closed => o.status = "Canceled"
      BY <1>5 DEF FilledFrom, Closed, Open, Pending
    <2> DEFINE r == Filled(n, Fill[t])
    <2>4. n \in Orders
      BY <1>1 DEF OrderOK
    <2> DEFINE st == IF n.filled_qty + Fill[t].qty < n.quantity THEN "PartiallyFilled" ELSE "Filled"
    <2>5. n.filled_qty \in Nat /\ n.quantity \in Nat
      BY <2>4 DEF Orders
    <2>6. st \in Status /\ n.filled_qty + Fill[t].qty \in Nat /\ n.trade_ids \cup {t} \in SUBSET Trades
      BY <2>4, <2>5, <1>3 DEF Orders, Status, Open, Closed
    <2>7. st \in {"PartiallyFilled", "Filled"} /\ (st = "Filled" => n.filled_qty + Fill[t].qty >= n.quantity)
      BY <2>5, <1>3
    <2>8. r = [n EXCEPT !.status = st,
                       !.venue_order_id = Fill[t].venue,
                       !.filled_qty = n.filled_qty + Fill[t].qty,
                       !.trade_ids = n.trade_ids \cup {t}]
      BY <2>2
    <2> HIDE DEF r, st
    <2>9. /\ r \in Orders
          /\ r.status = st
          /\ r.filled_qty = n.filled_qty + Fill[t].qty
          /\ r.quantity = n.quantity
          /\ r.trade_ids = n.trade_ids \cup {t}
          /\ r.venue_order_id = Fill[t].venue
      BY <2>8, <2>6, <2>4, <1>3 DEF Orders
    <2>10. r.status \in {"PartiallyFilled", "Filled"}
      BY <2>9, <2>7
    <2>11. r.status = "Filled" => r.filled_qty >= r.quantity
      BY <2>9, <2>7
    <2>12. OrderOK(r)
      BY <2>9, <2>10, <2>11 DEF OrderOK, Pending
    <2> QED
      BY <2>1, <2>3, <2>9, <2>10, <2>12, <1>1, <1>5 DEF r
  <1> QED
    BY <1>4, <1>5

-----------------------------------------------------------------------------
(* The cache: the orders and their indexes *)

OrderType ==
    /\ orders \in [ClientIds -> Orders \cup {NoOrder}]
    /\ orders_active_local \subseteq ClientIds /\ orders_inflight \subseteq ClientIds
    /\ orders_open \subseteq ClientIds /\ orders_closed \subseteq ClientIds
    /\ client_order_ids \in [ClientIds -> VenueIds \cup {None}]
    /\ venue_order_ids \subseteq VenueIds

\* The part of the inductive invariant that is about the orders.
OrderInv ==
    /\ OrderType
    /\ OrdersIndexed
    /\ \A c \in Cached : OrderOK(orders[c])

\* OrdersIndexed, order by order.
IndexedAt(d) ==
    /\ d \in orders_active_local <=> orders[d].status \in ActiveLocal
    /\ d \in orders_inflight <=> orders[d].status \in Inflight
    /\ d \in orders_closed <=> orders[d].status \in Closed
    /\ orders[d].status \in Open => d \in orders_open
    /\ d \in orders_open => orders[d].status \in Open \cup {"Submitted"}

LEMMA NoneIsNoStatus == None \notin Status
  BY DEF None, Status, Open, Closed, Pending

\* An order that is in the cache.
LEMMA CachedOrder ==
    ASSUME OrderType, NEW c \in ClientIds
    PROVE  /\ c \in Cached <=> orders[c] \in Orders
           /\ c \notin Cached <=> orders[c] = NoOrder
  <1>1. orders[c] \in Orders \cup {NoOrder}
    BY DEF OrderType
  <1>2. orders[c] \in Orders => orders[c].status # None
    BY NoneIsNoStatus DEF Orders
  <1>3. NoOrder.status = None
    BY DEF NoOrder
  <1> QED
    BY <1>1, <1>2, <1>3 DEF Cached

LEMMA IndexedEach ==
    ASSUME OrdersIndexed, NEW d \in ClientIds
    PROVE  IndexedAt(d)
  <1>1. orders[d].status \in ActiveLocal \cup Inflight \cup Closed \cup Open => d \in Cached
    BY DEF Cached, ActiveLocal, Inflight, Closed, Open, Pending, None
  <1> QED
    BY <1>1 DEF OrdersIndexed, IndexedAt

\* update_order() of an order that is in the cache.
LEMMA UpdateOrderStep ==
    ASSUME OrderInv, NEW c \in Cached, NEW o, OrderOK(o), UpdateOrder(c, o),
           o.status # "Initialized",
           orders[c].status = "Initialized" => o.venue_order_id = None,
           orders[c].status \in Closed => o.status \in Closed \cup Open
    PROVE  /\ OrderInv'
           /\ Cached' = Cached
           /\ \A d \in ClientIds \ {c} : orders'[d] = orders[d]
           /\ \/ orders'[c] = o
              \/ Conflicts(c, o) /\ orders'[c] = orders[c]
  <1>1. OrderType /\ OrdersIndexed /\ c \in ClientIds /\ o \in Orders
    BY DEF OrderInv, Cached, OrderOK
  <1>2. orders_active_local' = orders_active_local \ {c}
    BY DEF UpdateOrder, Indexed, ActiveLocal
  <1>3. CASE Conflicts(c, o)
    <2>1. UNCHANGED <<orders, client_order_ids, venue_order_ids, orders_inflight, orders_open, orders_closed>>
      BY <1>3 DEF UpdateOrder
    <2>2. c \notin orders_active_local
      <3>1. orders[c].status # "Initialized"
        BY <1>3 DEF Conflicts
      <3> QED
        BY <3>1, <1>1 DEF OrdersIndexed, ActiveLocal
    <2>3. orders_active_local' = orders_active_local
      BY <1>2, <2>2
    <2>4. Cached' = Cached
      BY <2>1 DEF Cached
    <2>5. OrderType'
      BY <1>1, <2>1, <2>3 DEF OrderType
    <2>6. OrdersIndexed'
      BY <1>1, <2>1, <2>3, <2>4 DEF OrdersIndexed
    <2>7. (\A d \in Cached : OrderOK(orders[d]))'
      BY <2>1, <2>4 DEF OrderInv
    <2> QED
      BY <2>1, <2>4, <2>5, <2>6, <2>7, <1>3 DEF OrderInv
  <1>4. CASE ~Conflicts(c, o)
    <2>1. /\ client_order_ids' = IF o.venue_order_id \in venue_order_ids \cup {None}
                                 THEN client_order_ids
                                 ELSE [client_order_ids EXCEPT ![c] = o.venue_order_id]
          /\ venue_order_ids' = venue_order_ids \cup ({o.venue_order_id} \ {None})
          /\ orders_inflight' = Indexed(orders_inflight, c, o.status \in Inflight)
          /\ OpenIndex(c, o)
          /\ orders' = [orders EXCEPT ![c] = o]
      BY <1>4 DEF UpdateOrder
    <2>2. orders'[c] = o /\ \A d \in ClientIds \ {c} : orders'[d] = orders[d]
      BY <2>1, <1>1 DEF OrderType
    <2>3. o.status # None /\ o.venue_order_id \in VenueIds \cup {None}
      BY <1>1, NoneIsNoStatus DEF Orders
    <2>4. Cached' = Cached
      BY <2>2, <2>3, <1>1 DEF Cached
    <2>5. orders_open' \subseteq ClientIds /\ orders_closed' \subseteq ClientIds
      BY <2>1, <1>1 DEF OpenIndex, OrderType
    <2>6. OrderType'
      <3>1. orders' \in [ClientIds -> Orders \cup {NoOrder}]
        BY <2>1, <1>1 DEF OrderType
      <3>2. client_order_ids' \in [ClientIds -> VenueIds \cup {None}]
        BY <2>1, <2>3, <1>1 DEF OrderType
      <3>3. venue_order_ids' \subseteq VenueIds
        BY <2>1, <2>3, <1>1 DEF OrderType
      <3>4. orders_inflight' \subseteq ClientIds /\ orders_active_local' \subseteq ClientIds
        BY <2>1, <1>2, <1>1 DEF OrderType, Indexed
      <3> QED
        BY <3>1, <3>2, <3>3, <3>4, <2>5 DEF OrderType
    <2>7. OrdersIndexed'
      <3>1. ASSUME NEW d \in ClientIds
            PROVE  IndexedAt(d)'
        <4>1. IndexedAt(d)
          BY <1>1, IndexedEach
        <4>2. CASE d # c
          <5>1. orders'[d] = orders[d]
            BY <4>2, <2>2
          <5>2. /\ d \in orders_active_local' <=> d \in orders_active_local
                /\ d \in orders_inflight' <=> d \in orders_inflight
            BY <4>2, <1>2, <2>1 DEF Indexed
          <5>3. /\ d \in orders_open' <=> d \in orders_open
                /\ d \in orders_closed' <=> d \in orders_closed
            BY <4>2, <2>1 DEF OpenIndex
          <5> QED
            BY <4>1, <5>1, <5>2, <5>3 DEF IndexedAt
        <4>3. CASE d = c
          <5>1. orders'[d] = o
            BY <4>3, <2>2
          <5>2. /\ d \notin orders_active_local' /\ o.status \notin ActiveLocal
                /\ d \in orders_inflight' <=> o.status \in Inflight
            BY <4>3, <1>2, <2>1 DEF Indexed, ActiveLocal
          <5>3. CASE o.status \in Open
            BY <4>3, <5>1, <5>2, <5>3, <2>1 DEF OpenIndex, IndexedAt, Open, Closed, Pending
          <5>4. CASE o.status \in Closed
            BY <4>3, <5>1, <5>2, <5>4, <2>1 DEF OpenIndex, IndexedAt, Open, Closed, Pending
          <5>5. CASE o.status \notin Open \cup Closed
            <6>1. o.status = "Submitted"
              BY <5>5, <1>1 DEF Orders, Status
            <6>2. orders_open' = orders_open /\ orders_closed' = orders_closed
              BY <5>5, <2>1 DEF OpenIndex
            <6>3. d \notin orders_closed
              BY <4>1, <4>3, <5>5 DEF IndexedAt
            <6> QED
              BY <5>1, <5>2, <5>5, <6>1, <6>2, <6>3 DEF IndexedAt
          <5> QED
            BY <5>3, <5>4, <5>5
        <4> QED
          BY <4>2, <4>3
      <3>2. \A d \in ClientIds :
                orders'[d].status \in ActiveLocal \cup Inflight \cup Closed \cup Open => d \in Cached'
        BY DEF Cached, ActiveLocal, Inflight, Closed, Open, Pending, None
      <3>3. \A d \in ClientIds : orders'[d].status = "Submitted" => d \in Cached'
        BY DEF Cached, None
      <3>4. Cached' \subseteq ClientIds
        BY DEF Cached
      <3> QED
        BY <3>1, <3>2, <3>3, <3>4, <2>6 DEF IndexedAt, OrdersIndexed, OrderType
    <2>8. (\A d \in Cached : OrderOK(orders[d]))'
      BY <2>2, <2>4, <1>1 DEF OrderInv, Cached
    <2> QED
      BY <2>2, <2>4, <2>6, <2>7, <2>8 DEF OrderInv
  <1> QED
    BY <1>3, <1>4

-----------------------------------------------------------------------------
(* The position *)

PosType ==
    /\ position \in [known : BOOLEAN, signed_qty : Int, trade_ids : SUBSET Trades,
                     events : SUBSET (Trades \X Int)]
    /\ positions_open \in BOOLEAN /\ positions_closed \in BOOLEAN
    /\ snapshots \subseteq Trades /\ snapshot_qty \in Int /\ panicked \in BOOLEAN
    /\ taken \in [Trades -> Nat]

\* The part of the inductive invariant that is about the position: an event has its
\* trade id, and a trade id was taken.
PosInv ==
    /\ PosType
    /\ PositionIndexed
    /\ ~position.known => position = NoPosition
    /\ \A t \in Trades, q \in Int : <<t, q>> \in position.events => t \in position.trade_ids
    /\ \A t \in position.trade_ids : taken[t] > 0
    /\ CyclesKept

LEMMA SignedQtyOK ==
    ASSUME NEW t \in Trades
    PROVE  SignedQty(t) \in Int /\ SignedQty(t) # 0
  <1>1. Fill[t].qty \in Nat \ {0} /\ Side[Fill[t].order] \in {1, -1}
    BY EngineAssumption
  <1> QED
    BY <1>1 DEF SignedQty

LEMMA CommissionOK ==
    ASSUME NEW t \in Trades
    PROVE  /\ Commission(t) \in Int /\ SignedQty(t) - Commission(t) \in Int
           /\ SignedQty(t) - Commission(t) # 0
  <1>1. /\ Fill[t].qty \in Nat \ {0} /\ Side[Fill[t].order] \in {1, -1} /\ Fill[t].commission \in Int
        /\ 2 * Fill[t].commission < Fill[t].qty /\ 2 * Fill[t].commission > -Fill[t].qty
    BY EngineAssumption
  <1> QED
    BY <1>1 DEF SignedQty, Commission

LEMMA AtLeast == \A d, w \in Int : d >= 1 /\ w >= 0 => d * w >= w
  <1> SUFFICES ASSUME NEW d \in Int, NEW w \in Int, d >= 1, w >= 0 PROVE d * w >= w
    OBVIOUS
  <1>1. (d - 1) * w >= 0
    OBVIOUS
  <1>2. (d - 1) * w = d * w - w
    OBVIOUS
  <1> QED
    BY <1>1, <1>2

\* What opens the next position when a fill of n, less a commission K that is less
\* than half of it, flips a position p, and k is the share that closes p.
LEMMA FlipLeaves ==
    ASSUME NEW p \in Int, NEW n \in Nat \ {0}, NEW K \in Int, NEW k \in Int, NEW s \in {1, -1},
           p * (s * n) < 0, Abs(s * n) > Abs(p), 2 * K < n, 2 * K > -n,
           Abs(2 * k * n - 2 * K * Abs(p)) <= n
    PROVE  (s * n + p) - (K - k) # 0
  <1> SUFFICES ASSUME (s * n + p) - (K - k) = 0 PROVE FALSE
    OBVIOUS
  <1> DEFINE d == n - Abs(p)
  <1>1. s = 1 \/ s = -1
    OBVIOUS
  <1>2. d \in Int /\ d >= 1
    BY <1>1 DEF Abs
  <1>3. CASE s = 1
    <2>1. p < 0
      BY <1>3
    <2>2. Abs(p) = n - d /\ k = K - d
      BY <1>3, <2>1 DEF Abs
    <2>3. 2 * k * n - 2 * K * Abs(p) = -(d * (2 * (n - K)))
      <3> HIDE DEF d
      <3>1. 2 * (K - d) * n - 2 * K * (n - d) = -(d * (2 * (n - K)))
        BY <1>2
      <3> QED
        BY <2>2, <3>1
    <2>4. d * (2 * (n - K)) >= 2 * (n - K)
      <3>1. 2 * (n - K) \in Int /\ 2 * (n - K) >= 0
        OBVIOUS
      <3> HIDE DEF d
      <3> QED
        BY <1>2, <3>1, AtLeast
    <2> DEFINE z == d * (2 * (n - K))
    <2>5. z \in Int
      BY <1>2
    <2>6. Abs(-z) <= n /\ z >= 2 * (n - K)
      BY <2>3, <2>4
    <2> HIDE DEF z, d
    <2> QED
      BY <2>5, <2>6 DEF Abs
  <1>4. CASE s = -1
    <2>1. p > 0
      BY <1>4
    <2>2. Abs(p) = n - d /\ k = K + d
      BY <1>4, <2>1 DEF Abs
    <2>3. 2 * k * n - 2 * K * Abs(p) = d * (2 * (n + K))
      <3> HIDE DEF d
      <3>1. 2 * (K + d) * n - 2 * K * (n - d) = d * (2 * (n + K))
        BY <1>2
      <3> QED
        BY <2>2, <3>1
    <2>4. d * (2 * (n + K)) >= 2 * (n + K)
      <3>1. 2 * (n + K) \in Int /\ 2 * (n + K) >= 0
        OBVIOUS
      <3> HIDE DEF d
      <3> QED
        BY <1>2, <3>1, AtLeast
    <2> DEFINE z == d * (2 * (n + K))
    <2>5. z \in Int
      BY <1>2
    <2>6. Abs(z) <= n /\ z >= 2 * (n + K)
      BY <2>3, <2>4
    <2> HIDE DEF z, d
    <2> QED
      BY <2>5, <2>6 DEF Abs
  <1> QED
    BY <1>1, <1>3, <1>4

\* A flip opens a position that is not flat.
LEMMA ShareOK ==
    ASSUME NEW t \in Trades, position.signed_qty \in Int, WillFlip(SignedQty(t)),
           NEW k \in ClosingShare(t)
    PROVE  /\ k \in Int
           /\ (SignedQty(t) + position.signed_qty) - (Commission(t) - k) # 0
  <1> DEFINE n == Fill[t].qty
             s == Side[Fill[t].order]
             p == position.signed_qty
             K == Commission(t)
  <1>1. n \in Nat \ {0} /\ s \in {1, -1} /\ K \in Int /\ 2 * K < n /\ 2 * K > -n
    BY EngineAssumption DEF Commission
  <1>2. SignedQty(t) = s * n
    BY DEF SignedQty
  <1>3. k \in Int /\ Abs(2 * k * n - 2 * K * Abs(p)) <= n
    BY DEF ClosingShare
  <1>4. p * (s * n) < 0 /\ Abs(s * n) > Abs(p)
    BY <1>2 DEF WillFlip
  <1>5. p \in Int
    OBVIOUS
  <1> HIDE DEF n, s, p, K
  <1>6. (s * n + p) - (K - k) # 0
    BY <1>1, <1>3, <1>4, <1>5, FlipLeaves
  <1> QED
    BY <1>2, <1>3, <1>6 DEF p, K

\* A position opened by a part q of the trade t, less a commission k, keeps the trades
\* it forgets in a snapshot.
LEMMA OpenedStep ==
    ASSUME PosInv, NEW t \in Trades, NEW q \in Int, NEW k \in Int, q - k # 0,
           Opened(t, q, k), Takes(t),
           position.trade_ids \subseteq snapshots', snapshots' \subseteq Trades,
           snapshots \subseteq snapshots', snapshot_qty' \in Int, panicked' = panicked
    PROVE  PosInv'
  <1>1. /\ position' = [known |-> TRUE, signed_qty |-> q - k, trade_ids |-> {t}, events |-> {<<t, q>>}]
        /\ positions_open' = TRUE /\ positions_closed' = FALSE
    BY DEF Opened
  <1>2. taken \in [Trades -> Nat] /\ taken' = [taken EXCEPT ![t] = @ + 1]
    BY DEF PosInv, PosType, Takes
  <1>3. taken' \in [Trades -> Nat] /\ taken'[t] > 0
    BY <1>2
  <1>4. PosType'
    <2>1. position' \in [known : BOOLEAN, signed_qty : Int, trade_ids : SUBSET Trades,
                         events : SUBSET (Trades \X Int)]
      BY <1>1
    <2> QED
      BY <2>1, <1>1, <1>3 DEF PosInv, PosType
  <1>5. PositionIndexed'
    BY <1>1 DEF PositionIndexed
  <1>6. (\A u \in Trades, p \in Int : <<u, p>> \in position.events => u \in position.trade_ids)'
    BY <1>1
  <1>7. (\A u \in position.trade_ids : taken[u] > 0)'
    BY <1>1, <1>3
  <1>8. CyclesKept'
    <2> SUFFICES ASSUME NEW u \in Trades, taken'[u] > 0
                 PROVE  u \in position'.trade_ids \cup snapshots'
      BY DEF CyclesKept
    <2>1. CASE u = t
      BY <2>1, <1>1
    <2>2. CASE u # t
      <3>1. taken[u] > 0
        BY <2>2, <1>2
      <3> QED
        BY <3>1 DEF PosInv, CyclesKept
    <2> QED
      BY <2>1, <2>2
  <1> QED
    BY <1>1, <1>4, <1>5, <1>6, <1>7, <1>8 DEF PosInv

\* handle_position_update(): the position takes the trade, or it has it already.
LEMMA PositionStep ==
    ASSUME PosInv, ~panicked, NEW t \in Trades, HandlePositionUpdate(t)
    PROVE  /\ PosInv'
           /\ \/ Takes(t) /\ panicked' = panicked
              \/ taken' = taken /\ taken[t] > 0
  <1>1. /\ PosType /\ position.signed_qty \in Int /\ position.trade_ids \subseteq Trades
        /\ SignedQty(t) \in Int /\ Commission(t) \in Int /\ SignedQty(t) - Commission(t) # 0
        /\ snapshot_qty \in Int
    BY SignedQtyOK, CommissionOK DEF PosInv, PosType
  <1>2. CASE OpenPosition(t)
    <2>1. Opened(t, SignedQty(t), Commission(t)) /\ Takes(t) /\ UNCHANGED <<snapshots, snapshot_qty, panicked>>
      BY <1>2 DEF OpenPosition
    <2>2. position.trade_ids = {}
      BY <1>2 DEF OpenPosition, PosInv, NoPosition
    <2>3. snapshots' \subseteq Trades
      BY <2>1, <1>1 DEF PosType
    <2> QED
      BY <2>1, <2>2, <2>3, <1>1, OpenedStep
  <1>3. CASE ReopenPosition(t)
    <2>1. CASE <<t, SignedQty(t)>> \in position.events
      <3>1. UNCHANGED book
        BY <1>3, <2>1 DEF ReopenPosition
      <3>2. taken[t] > 0
        BY <2>1, <1>1 DEF PosInv
      <3>3. PosInv'
        BY <3>1 DEF book, PosInv, PosType, PositionIndexed, CyclesKept
      <3> QED
        BY <3>1, <3>2, <3>3 DEF book
    <2>2. CASE <<t, SignedQty(t)>> \notin position.events
      <3>1. /\ Opened(t, SignedQty(t), Commission(t)) /\ Takes(t)
            /\ panicked' = panicked /\ snapshot_qty' = snapshot_qty
            /\ snapshots' = snapshots \cup position.trade_ids
        BY <1>3, <2>2 DEF ReopenPosition
      <3>2. snapshots' \subseteq Trades
        BY <3>1, <1>1 DEF PosType
      <3> QED
        BY <3>1, <3>2, <1>1, OpenedStep
    <2> QED
      BY <2>1, <2>2
  <1>4. CASE Panic(t)
    <2>1. /\ t \in position.trade_ids /\ panicked' = TRUE
          /\ UNCHANGED <<position, positions_open, positions_closed, snapshots, snapshot_qty, taken>>
      BY <1>4 DEF Panic
    <2>2. taken[t] > 0
      BY <2>1 DEF PosInv
    <2>3. PosInv'
      BY <2>1 DEF PosInv, PosType, PositionIndexed, CyclesKept
    <2> QED
      BY <2>1, <2>2, <2>3
  <1>5. CASE FlipPosition(t)
    <2>1. PICK k \in ClosingShare(t) :
              /\ Opened(t, SignedQty(t) + position.signed_qty, Commission(t) - k)
              /\ snapshot_qty' = snapshot_qty - k
      BY <1>5 DEF FlipPosition
    <2>2. /\ WillFlip(SignedQty(t)) /\ panicked' = panicked /\ Takes(t)
          /\ snapshots' = snapshots \cup position.trade_ids \cup {t}
      BY <1>5 DEF FlipPosition
    <2>3. /\ k \in Int /\ SignedQty(t) + position.signed_qty \in Int /\ Commission(t) - k \in Int
          /\ (SignedQty(t) + position.signed_qty) - (Commission(t) - k) # 0
      BY <2>2, <1>1, ShareOK
    <2>4. snapshots' \subseteq Trades /\ snapshot_qty' \in Int
      BY <2>1, <2>2, <2>3, <1>1 DEF PosType
    <2> DEFINE q == SignedQty(t) + position.signed_qty
               r == Commission(t) - k
    <2>5. q \in Int /\ r \in Int /\ q - r # 0
      BY <2>3
    <2>6. Opened(t, q, r)
      BY <2>1
    <2> HIDE DEF q, r
    <2>7. PosInv'
      BY <2>2, <2>4, <2>5, <2>6, OpenedStep
    <2> QED
      BY <2>2, <2>7
  <1>6. CASE UpdatePosition(t)
    <2> DEFINE q == SignedQty(t)
               net == position.signed_qty + q - Commission(t)
    <2>1. /\ position.signed_qty # 0 /\ Takes(t) /\ UNCHANGED <<snapshots, snapshot_qty, panicked>>
          /\ position' = [position EXCEPT !.signed_qty = net,
                                          !.trade_ids = position.trade_ids \cup {t},
                                          !.events = position.events \cup {<<t, q>>}]
          /\ positions_open' = (net # 0)
          /\ positions_closed' = (net = 0)
      BY <1>6 DEF UpdatePosition, Changed
    <2>2. q \in Int /\ net \in Int
      BY <1>1
    <2> HIDE DEF q, net
    <2>3. position.known
      BY <2>1 DEF PosInv, NoPosition
    <2>4. taken \in [Trades -> Nat] /\ taken' = [taken EXCEPT ![t] = @ + 1]
      BY <2>1 DEF PosInv, PosType, Takes
    <2>5. taken' \in [Trades -> Nat] /\ taken'[t] > 0
      BY <2>4
    <2>6. /\ position' \in [known : BOOLEAN, signed_qty : Int, trade_ids : SUBSET Trades,
                             events : SUBSET (Trades \X Int)]
          /\ position'.known
          /\ position'.signed_qty = net
          /\ position'.trade_ids = position.trade_ids \cup {t}
          /\ position'.events = position.events \cup {<<t, q>>}
      <3> DEFINE ids == position.trade_ids \cup {t}
                 evs == position.events \cup {<<t, q>>}
      <3>1. ids \in SUBSET Trades /\ evs \in SUBSET (Trades \X Int)
        BY <2>2, <1>1 DEF PosType
      <3>2. position' = [position EXCEPT !.signed_qty = net, !.trade_ids = ids, !.events = evs]
        BY <2>1
      <3>3. position \in [known : BOOLEAN, signed_qty : Int, trade_ids : SUBSET Trades,
                          events : SUBSET (Trades \X Int)]
        BY <1>1 DEF PosType
      <3> HIDE DEF ids, evs
      <3>4. /\ position' \in [known : BOOLEAN, signed_qty : Int, trade_ids : SUBSET Trades,
                               events : SUBSET (Trades \X Int)]
            /\ position'.known = position.known
            /\ position'.signed_qty = net
            /\ position'.trade_ids = ids
            /\ position'.events = evs
        BY <3>1, <3>2, <3>3, <2>2
      <3> QED
        BY <3>4, <2>3 DEF ids, evs
    <2>7. PosType'
      BY <2>1, <2>5, <2>6, <1>1 DEF PosType
    <2>8. PositionIndexed'
      BY <2>1, <2>6 DEF PositionIndexed
    <2>9. (\A u \in Trades, p \in Int : <<u, p>> \in position.events => u \in position.trade_ids)'
      BY <2>6 DEF PosInv
    <2>10. (\A u \in position.trade_ids : taken[u] > 0)'
      <3> SUFFICES ASSUME NEW u \in position'.trade_ids PROVE taken'[u] > 0
        OBVIOUS
      <3>1. CASE u = t
        BY <3>1, <2>5
      <3>2. CASE u # t
        BY <3>2, <2>4, <2>6, <1>1 DEF PosInv
      <3> QED
        BY <3>1, <3>2
    <2>11. CyclesKept'
      <3> SUFFICES ASSUME NEW u \in Trades, taken'[u] > 0
                   PROVE  u \in position'.trade_ids \cup snapshots'
        BY DEF CyclesKept
      <3>1. CASE u = t
        BY <3>1, <2>6
      <3>2. CASE u # t
        <4>1. taken[u] > 0
          BY <3>2, <2>4
        <4> QED
          BY <4>1, <2>1, <2>6 DEF PosInv, CyclesKept
      <3> QED
        BY <3>1, <3>2
    <2> QED
      BY <2>1, <2>6, <2>7, <2>8, <2>9, <2>10, <2>11 DEF PosInv
  <1> QED
    BY <1>2, <1>3, <1>4, <1>5, <1>6 DEF HandlePositionUpdate

-----------------------------------------------------------------------------
(* The engine *)

\* The inductive invariant.
EngineInv ==
    /\ OrderInv /\ PosInv /\ BookedOnce
    /\ unbooked \subseteq Trades /\ unaccounted \subseteq Trades /\ account \in BOOLEAN
    /\ ~account => unbooked = {}

\* What ClosedIsFinal says of one step.
KeepsClosed ==
    \A c \in Cached :
        orders[c].status \in Closed =>
            \/ orders'[c].status = orders[c].status
            \/ /\ orders[c].status = "Canceled"
               /\ orders'[c].status \in {"PartiallyFilled", "Filled"}
               /\ orders'[c].trade_ids # orders[c].trade_ids

\* What OrderTakesFill says of one step.
TakesFill ==
    \A t \in unbooked' \ unbooked :
        LET o == orders[Fill[t].order] IN
        \/ o.status \in {"Rejected", "Expired"}
        \/ o.status = "Filled" /\ AllowOverfills
        \/ client_order_ids[Fill[t].order] \notin {None, Fill[t].venue}

LEMMA InitInv == Init => EngineInv
  <1> SUFFICES ASSUME Init PROVE EngineInv
    OBVIOUS
  <1>1. OrderType
    BY DEF Init, OrderType
  <1>2. Cached = {}
    BY DEF Init, Cached, NoOrder, None
  <1>3. OrderInv
    BY <1>1, <1>2 DEF Init, OrderInv, OrdersIndexed
  <1>4. PosType /\ PositionIndexed
    <2>1. position \in [known : BOOLEAN, signed_qty : Int, trade_ids : SUBSET Trades,
                        events : SUBSET (Trades \X Int)]
      BY DEF Init, NoPosition
    <2>2. taken \in [Trades -> Nat]
      BY DEF Init
    <2> QED
      BY <2>1, <2>2 DEF Init, PosType, PositionIndexed, NoPosition
  <1>5. \A t \in Trades, q \in Int : <<t, q>> \in position.events => t \in position.trade_ids
    BY DEF Init, NoPosition
  <1>6. (\A t \in position.trade_ids : taken[t] > 0) /\ CyclesKept
    BY DEF Init, NoPosition, CyclesKept
  <1>7. BookedOnce
    BY <1>2 DEF Init, BookedOnce, Recorded
  <1> QED
    BY <1>3, <1>4, <1>5, <1>6, <1>7 DEF Init, EngineInv, PosInv

\* A step that leaves the position alone keeps what is known of it.
LEMMA PositionKept ==
    ASSUME EngineInv, UNCHANGED <<book, unbooked>>
    PROVE  PosInv' /\ unbooked' \subseteq Trades
  BY DEF EngineInv, book, PosInv, PosType, PositionIndexed, CyclesKept

\* So does one that changes no order's trades, of what was booked.
LEMMA BookedKept ==
    ASSUME EngineInv, UNCHANGED <<book, unbooked, unaccounted>>,
           \A t \in Trades : Recorded(t)' <=> Recorded(t)
    PROVE  BookedOnce'
  <1>1. taken' = taken /\ panicked' = panicked /\ unbooked' = unbooked /\ unaccounted' = unaccounted
    BY DEF book
  <1>2. BookedOnce /\ unaccounted \subseteq Trades
    BY DEF EngineInv
  <1>3. ASSUME NEW t \in Trades \ unbooked
        PROVE  taken[t] = IF Recorded(t)' /\ t \notin unaccounted THEN 1 ELSE 0
    BY <1>2 DEF BookedOnce
  <1>4. \A t \in unaccounted : Recorded(t)' /\ taken[t] = 0
    BY <1>2 DEF BookedOnce
  <1>5. panicked => unbooked # {}
    BY <1>2 DEF BookedOnce
  <1> QED
    BY <1>1, <1>3, <1>4, <1>5 DEF BookedOnce

\* The strategy adds an order, which may be denied at once.
LEMMA NewOrderStep ==
    ASSUME EngineInv, NEW c \in ClientIds, c \notin Cached, NEW o, OrderOK(o),
           o.status \in {"Initialized", "Denied"}, o.trade_ids = {},
           orders' = [orders EXCEPT ![c] = o],
           orders_active_local' = IF o.status = "Initialized" THEN orders_active_local \cup {c} ELSE orders_active_local,
           orders_closed' = IF o.status = "Denied" THEN orders_closed \cup {c} ELSE orders_closed,
           UNCHANGED <<orders_inflight, orders_open, client_order_ids, venue_order_ids>>,
           UNCHANGED positionVars
    PROVE  EngineInv' /\ KeepsClosed /\ TakesFill
  <1>1. OrderType /\ OrdersIndexed
    BY DEF EngineInv, OrderInv
  <1>2. o \in Orders
    BY DEF OrderOK
  <1>3. orders'[c] = o /\ \A d \in ClientIds \ {c} : orders'[d] = orders[d]
    BY <1>1 DEF OrderType
  <1>4. Cached' = Cached \cup {c}
    BY <1>3 DEF Cached, None
  <1>5. OrderType'
    BY <1>1, <1>2 DEF OrderType
  <1>6. OrdersIndexed'
    <2>1. /\ "Initialized" \in ActiveLocal \ (Inflight \cup Closed \cup Open \cup {"Submitted"})
          /\ "Denied" \in Closed \ (Inflight \cup ActiveLocal \cup Open \cup {"Submitted"})
      BY DEF ActiveLocal, Inflight, Closed, Open, Pending
    <2>2. \A d \in Cached : d \in ClientIds \ {c}
      BY DEF Cached
    <2>3. orders_active_local' = {d \in Cached' : orders'[d].status \in ActiveLocal}
      BY <1>1, <1>3, <1>4, <2>1, <2>2 DEF OrdersIndexed
    <2>4. orders_inflight' = {d \in Cached' : orders'[d].status \in Inflight}
      BY <1>1, <1>3, <1>4, <2>1, <2>2 DEF OrdersIndexed
    <2>5. orders_closed' = {d \in Cached' : orders'[d].status \in Closed}
      BY <1>1, <1>3, <1>4, <2>1, <2>2 DEF OrdersIndexed
    <2>6. /\ {d \in Cached' : orders'[d].status \in Open} \subseteq orders_open'
          /\ orders_open' \subseteq {d \in Cached' : orders'[d].status \in Open \cup {"Submitted"}}
      BY <1>1, <1>3, <1>4, <2>1, <2>2 DEF OrdersIndexed
    <2> QED
      BY <2>3, <2>4, <2>5, <2>6 DEF OrdersIndexed
  <1>7. OrderInv'
    BY <1>3, <1>4, <1>5, <1>6 DEF EngineInv, OrderInv, Cached
  <1>8. UNCHANGED <<book, unbooked, unaccounted, account>>
    BY DEF positionVars
  <1>9. BookedOnce'
    <2>1. ASSUME NEW t \in Trades
          PROVE  Recorded(t)' <=> Recorded(t)
      <3>1. Fill[t].order \in ClientIds
        BY EngineAssumption
      <3>2. CASE Fill[t].order = c
        BY <3>2, <1>3 DEF Recorded
      <3>3. CASE Fill[t].order # c
        BY <3>1, <3>3, <1>3, <1>4 DEF Recorded
      <3> QED
        BY <3>2, <3>3
    <2> QED
      BY <2>1, <1>8, BookedKept
  <1>10. KeepsClosed
    BY <1>3 DEF KeepsClosed, Cached
  <1>11. TakesFill
    BY <1>8 DEF TakesFill
  <1> QED
    BY <1>7, <1>8, <1>9, <1>10, <1>11, PositionKept DEF EngineInv

\* A new order that has not been sent.
LEMMA InitializedOK ==
    ASSUME NEW c \in ClientIds
    PROVE  LET o == Initialized(Quantity[c]) IN
           OrderOK(o) /\ o.status = "Initialized" /\ o.trade_ids = {}
  <1>1. Quantity[c] \in Nat
    BY EngineAssumption
  <1> QED
    BY <1>1 DEF Initialized, OrderOK, Orders, Status, Pending

LEMMA AddOrderStep ==
    ASSUME EngineInv, NEW c \in ClientIds, AddOrder(c)
    PROVE  EngineInv' /\ KeepsClosed /\ TakesFill
  <1> DEFINE o == Initialized(Quantity[c])
  <1>1. OrderOK(o) /\ o.status = "Initialized" /\ o.trade_ids = {}
    BY InitializedOK
  <1>2. /\ c \notin Cached /\ orders' = [orders EXCEPT ![c] = o]
        /\ orders_active_local' = orders_active_local \cup {c}
        /\ UNCHANGED <<orders_inflight, orders_open, orders_closed, client_order_ids, venue_order_ids>>
        /\ UNCHANGED positionVars
    BY DEF AddOrder
  <1> HIDE DEF o
  <1> QED
    BY <1>1, <1>2, NewOrderStep

\* What deny_order() of the strategy puts into the cache.
DeniedNew(c) == Apply(Initialized(Quantity[c]), [kind |-> "Denied", venue |-> None, quantity |-> 0])

LEMMA DeniedNewOK ==
    ASSUME NEW c \in ClientIds
    PROVE  /\ OrderOK(DeniedNew(c))
           /\ DeniedNew(c).status = "Denied" /\ DeniedNew(c).trade_ids = {}
           /\ DeniedNew(c).venue_order_id = None
  <1> DEFINE o == Initialized(Quantity[c])
             e == [kind |-> "Denied", venue |-> None, quantity |-> 0]
  <1>1. OrderOK(o) /\ o.status = "Initialized" /\ o.trade_ids = {}
    BY InitializedOK
  <1>2. EventOK(e) /\ e.kind = "Denied"
    BY DEF EventOK
  <1>3. Apply(o, e).status = "Denied"
    BY DEF Apply, Sources, Moved, Noted, Initialized, Pending
  <1> HIDE DEF o, e
  <1>4. OrderOK(Apply(o, e)) /\ Apply(o, e).trade_ids = {} /\ Apply(o, e).venue_order_id = None
    BY <1>1, <1>2, ApplyOK
  <1> QED
    BY <1>3, <1>4 DEF DeniedNew, o, e

LEMMA DenyNewStep ==
    ASSUME EngineInv, NEW c \in ClientIds, DenyNew(c)
    PROVE  EngineInv' /\ KeepsClosed /\ TakesFill
  <1> DEFINE o == DeniedNew(c)
  <1>1. OrderOK(o) /\ o.status = "Denied" /\ o.trade_ids = {} /\ o.venue_order_id = None
    BY DeniedNewOK
  <1>2. c \notin Cached /\ UpdateOrder(c, o) /\ UNCHANGED positionVars
    BY DEF DenyNew, DeniedNew
  <1> HIDE DEF o
  <1>3. OrderType /\ OrdersIndexed
    BY DEF EngineInv, OrderInv
  <1>4. c \notin orders_active_local \cup orders_inflight \cup orders_open
    BY <1>2, <1>3 DEF OrdersIndexed
  <1>5. "Denied" \in Closed \ (ActiveLocal \cup Inflight \cup Open)
    BY DEF Closed, ActiveLocal, Inflight, Open, Pending
  <1>6. ~Conflicts(c, o)
    BY <1>1 DEF Conflicts
  <1>7. orders_active_local' = orders_active_local
    BY <1>1, <1>2, <1>4, <1>5 DEF UpdateOrder, Indexed
  <1>8. /\ orders' = [orders EXCEPT ![c] = o]
        /\ client_order_ids' = client_order_ids /\ venue_order_ids' = venue_order_ids
    BY <1>1, <1>2, <1>6 DEF UpdateOrder
  <1>9. orders_inflight' = orders_inflight
    BY <1>1, <1>2, <1>4, <1>5, <1>6 DEF UpdateOrder, Indexed
  <1>10. orders_open' = orders_open /\ orders_closed' = orders_closed \cup {c}
    BY <1>1, <1>2, <1>4, <1>5, <1>6 DEF UpdateOrder, OpenIndex
  <1> QED
    BY <1>1, <1>2, <1>7, <1>8, <1>9, <1>10, NewOrderStep

\* The account becomes known.
LEMMA AccountStep ==
    ASSUME EngineInv, AccountState
    PROVE  EngineInv' /\ KeepsClosed /\ TakesFill
  <1>1. /\ UNCHANGED <<orders, orders_active_local, orders_inflight, orders_open, orders_closed,
                       client_order_ids, venue_order_ids>>
        /\ UNCHANGED <<book, unbooked, unaccounted>> /\ account' = TRUE
    BY DEF AccountState, indexes
  <1>2. Cached' = Cached
    BY <1>1 DEF Cached
  <1>3. OrderInv'
    BY <1>1, <1>2 DEF EngineInv, OrderInv, OrderType, OrdersIndexed
  <1>4. \A t \in Trades : Recorded(t)' <=> Recorded(t)
    BY <1>1, <1>2 DEF Recorded
  <1>5. BookedOnce'
    BY <1>1, <1>4, BookedKept
  <1>6. KeepsClosed /\ TakesFill
    BY <1>1 DEF KeepsClosed, TakesFill
  <1> QED
    BY <1>1, <1>3, <1>5, <1>6, PositionKept DEF EngineInv

\* An event that is not a fill, and the denial of an order.
LEMMA EventStep ==
    ASSUME EngineInv, NEW c \in Cached, NEW e, EventOK(e),
           orders[c].status = "Initialized" => e.kind \in {"Submitted", "Denied"},
           UpdateOrder(c, Apply(orders[c], e)), UNCHANGED positionVars
    PROVE  EngineInv' /\ KeepsClosed /\ TakesFill
  <1> DEFINE o == Apply(orders[c], e)
  <1>1. OrderInv /\ OrderOK(orders[c])
    BY DEF EngineInv, OrderInv
  <1>2. /\ OrderOK(o)
        /\ o.trade_ids = orders[c].trade_ids
        /\ o.status # "Initialized"
        /\ orders[c].status \in Closed => o.status = orders[c].status
        /\ orders[c].status = "Initialized" => o.venue_order_id = None
    BY <1>1, ApplyOK
  <1>3. UpdateOrder(c, o)
    OBVIOUS
  <1> HIDE DEF o
  <1>4. /\ OrderInv' /\ Cached' = Cached
        /\ \A d \in ClientIds \ {c} : orders'[d] = orders[d]
        /\ orders'[c] = o \/ orders'[c] = orders[c]
    BY <1>1, <1>2, <1>3, UpdateOrderStep
  <1>5. \A d \in Cached : orders'[d].trade_ids = orders[d].trade_ids
    BY <1>2, <1>4 DEF Cached
  <1>6. UNCHANGED <<book, unbooked, unaccounted, account>>
    BY DEF positionVars
  <1>7. BookedOnce'
    <2>1. \A t \in Trades : Recorded(t)' <=> Recorded(t)
      BY <1>4, <1>5 DEF Recorded
    <2> QED
      BY <2>1, <1>6, BookedKept
  <1>8. KeepsClosed
    BY <1>2, <1>4 DEF KeepsClosed, Cached
  <1>9. TakesFill
    BY <1>6 DEF TakesFill
  <1> QED
    BY <1>4, <1>6, <1>7, <1>8, <1>9, PositionKept DEF EngineInv

\* A fill that is not a duplicate.
LEMMA FillStep ==
    ASSUME EngineInv, NEW t \in Trades, HandleFill(t)
    PROVE  EngineInv' /\ KeepsClosed /\ TakesFill
  <1> DEFINE c == Fill[t].order
             o == orders[c]
             r == ApplyFill(o, Fill[t])
  <1>1. /\ ~panicked /\ c \in Cached /\ o.status \notin {"Initialized", "Denied"}
        /\ t \notin o.trade_ids
        /\ AllowOverfills \/ ~Overfills(o, Fill[t])
        /\ UpdateOrder(c, r) /\ account' = account
        /\ \/ /\ account /\ HandlePositionUpdate(t) /\ unaccounted' = unaccounted
              /\ unbooked' = IF t \in orders'[c].trade_ids THEN unbooked ELSE unbooked \cup {t}
           \/ /\ ~account /\ UNCHANGED <<book, unbooked>>
              /\ unaccounted' = IF t \in orders'[c].trade_ids THEN unaccounted \cup {t} ELSE unaccounted
    BY DEF HandleFill, Sent, Duplicate
  <1>2. c \in ClientIds /\ Fill[t].qty \in Nat \ {0}
    BY EngineAssumption
  <1>3. OrderInv /\ OrderOK(o)
    BY <1>1 DEF EngineInv, OrderInv
  <1>4. /\ OrderOK(r)
        /\ r.status # "Initialized"
        /\ o.status \in FilledFrom => r.trade_ids = o.trade_ids \cup {t} /\ r.venue_order_id = Fill[t].venue
        /\ o.status \notin FilledFrom => r.trade_ids = o.trade_ids
        /\ o.status \in Closed =>
              \/ r.status = o.status
              \/ o.status = "Canceled" /\ r.status \in {"PartiallyFilled", "Filled"}
    BY <1>1, <1>3, ApplyFillOK
  <1> HIDE DEF r
  <1>5. {"PartiallyFilled", "Filled"} \subseteq Closed \cup Open
    BY DEF Closed, Open
  <1>6. /\ OrderInv' /\ Cached' = Cached
        /\ \A d \in ClientIds \ {c} : orders'[d] = orders[d]
        /\ orders'[c] = r \/ (Conflicts(c, r) /\ orders'[c] = orders[c])
    <2>1. o.status = "Initialized" => r.venue_order_id = None
      BY <1>1
    <2>2. o.status \in Closed => r.status \in Closed \cup Open
      BY <1>4, <1>5
    <2> QED
      BY <1>1, <1>3, <1>4, <2>1, <2>2, UpdateOrderStep
  <1>7. /\ BookedOnce /\ unbooked \subseteq Trades /\ unaccounted \subseteq Trades
        /\ account \in BOOLEAN /\ taken \in [Trades -> Nat]
    BY DEF EngineInv, PosInv, PosType
  <1>8. ~Recorded(t) /\ (Recorded(t)' <=> t \in orders'[c].trade_ids)
    BY <1>1, <1>6 DEF Recorded
  <1>9. \A u \in Trades \ {t} : Recorded(u)' <=> Recorded(u)
    <2> SUFFICES ASSUME NEW u \in Trades \ {t} PROVE Recorded(u)' <=> Recorded(u)
      OBVIOUS
    <2>1. Fill[u].order \in ClientIds
      BY EngineAssumption
    <2>2. CASE Fill[u].order # c
      BY <2>1, <2>2, <1>6 DEF Recorded
    <2>3. CASE Fill[u].order = c
      BY <2>3, <1>4, <1>6 DEF Recorded
    <2> QED
      BY <2>2, <2>3
  <1>10. t \notin unaccounted
    BY <1>7, <1>8 DEF BookedOnce
  <1>11. unbooked \subseteq unbooked' /\ unbooked' \subseteq unbooked \cup {t}
    BY <1>1
  <1>12. BookedOnce' /\ PosInv' /\ unaccounted' \subseteq Trades
    <2>1. CASE ~account
      <3>1. /\ taken' = taken /\ panicked' = panicked /\ unbooked' = unbooked
            /\ unaccounted' = IF Recorded(t)' THEN unaccounted \cup {t} ELSE unaccounted
        BY <2>1, <1>1, <1>8 DEF book
      <3>2. ASSUME NEW u \in Trades \ unbooked
            PROVE  taken[u] = IF Recorded(u)' /\ u \notin unaccounted' THEN 1 ELSE 0
        <4>1. taken[u] = IF Recorded(u) /\ u \notin unaccounted THEN 1 ELSE 0
          BY <1>7 DEF BookedOnce
        <4>2. CASE u = t
          BY <4>1, <4>2, <3>1, <1>8
        <4>3. CASE u # t
          BY <4>1, <4>3, <3>1, <1>9
        <4> QED
          BY <4>2, <4>3
      <3>3. taken[t] = 0
        BY <2>1, <1>7, <1>8 DEF EngineInv, BookedOnce
      <3>4. ASSUME NEW u \in unaccounted'
            PROVE  Recorded(u)' /\ taken[u] = 0
        <4>1. CASE u = t
          BY <4>1, <3>1, <3>3, <3>4, <1>10
        <4>2. CASE u # t
          BY <4>2, <3>1, <1>7, <1>9 DEF BookedOnce
        <4> QED
          BY <4>1, <4>2
      <3>5. BookedOnce'
        BY <3>1, <3>2, <3>4, <1>7 DEF BookedOnce
      <3>6. PosInv' /\ unaccounted' \subseteq Trades
        BY <2>1, <3>1, <1>1, <1>7, PositionKept
      <3> QED
        BY <3>5, <3>6
    <2>2. CASE account
      <3>1. /\ HandlePositionUpdate(t) /\ unaccounted' = unaccounted
            /\ unbooked' = IF Recorded(t)' THEN unbooked ELSE unbooked \cup {t}
        BY <2>2, <1>1, <1>8
      <3>2. /\ PosInv'
            /\ \/ Takes(t) /\ panicked' = panicked
               \/ taken' = taken /\ taken[t] > 0
        BY <3>1, <1>1, PositionStep DEF EngineInv
      <3>3. t \notin unbooked => taken[t] = 0
        BY <1>7, <1>8 DEF BookedOnce
      <3>4. t \notin unbooked => Takes(t) /\ panicked' = panicked
        BY <3>2, <3>3
      <3>5. \A u \in Trades \ {t} : taken'[u] = taken[u]
        BY <3>2, <1>7 DEF Takes
      <3>6. ASSUME NEW u \in Trades \ unbooked'
            PROVE  taken'[u] = IF Recorded(u)' /\ u \notin unaccounted THEN 1 ELSE 0
        <4>1. u \notin unbooked
          BY <1>11
        <4>2. CASE u = t
          <5>1. Recorded(t)'
            BY <3>1, <3>6, <4>2
          <5>2. taken'[t] = 1
            BY <4>1, <4>2, <3>3, <3>4, <1>7 DEF Takes
          <5> QED
            BY <4>2, <5>1, <5>2, <1>10
        <4>3. CASE u # t
          <5>1. taken[u] = IF Recorded(u) /\ u \notin unaccounted THEN 1 ELSE 0
            BY <4>1, <1>7 DEF BookedOnce
          <5> QED
            BY <4>3, <5>1, <3>5, <1>9
        <4> QED
          BY <4>2, <4>3
      <3>7. ASSUME NEW u \in unaccounted
            PROVE  Recorded(u)' /\ taken'[u] = 0
        BY <3>5, <1>7, <1>9, <1>10 DEF BookedOnce
      <3>8. panicked' => unbooked' # {}
        BY <3>4, <1>1, <1>11
      <3>9. BookedOnce'
        BY <3>1, <3>6, <3>7, <3>8 DEF BookedOnce
      <3> QED
        BY <3>1, <3>2, <3>9, <1>7
    <2> QED
      BY <2>1, <2>2
  <1>13. KeepsClosed
    <2> SUFFICES ASSUME NEW d \in Cached, orders[d].status \in Closed
                 PROVE  \/ orders'[d].status = orders[d].status
                        \/ /\ orders[d].status = "Canceled"
                           /\ orders'[d].status \in {"PartiallyFilled", "Filled"}
                           /\ orders'[d].trade_ids # orders[d].trade_ids
      BY DEF KeepsClosed
    <2>1. CASE d # c
      BY <2>1, <1>6 DEF Cached
    <2>2. CASE d = c
      <3>1. CASE orders'[c] = orders[c]
        BY <2>2, <3>1
      <3>2. CASE orders'[c] = r
        <4>1. o.status = "Canceled" => t \in r.trade_ids
          BY <1>4 DEF FilledFrom
        <4> QED
          BY <2>2, <3>2, <4>1, <1>1, <1>4
      <3> QED
        BY <3>1, <3>2, <1>6
    <2> QED
      BY <2>1, <2>2
  <1>14. TakesFill
    <2> SUFFICES ASSUME t \in unbooked' \ unbooked
                 PROVE  \/ o.status \in {"Rejected", "Expired"}
                        \/ o.status = "Filled" /\ AllowOverfills
                        \/ client_order_ids[c] \notin {None, Fill[t].venue}
      BY <1>11 DEF TakesFill
    <2>1. t \notin orders'[c].trade_ids
      BY <1>1 DEF book
    <2>2. CASE o.status \in FilledFrom
      <3>1. t \in r.trade_ids /\ r.venue_order_id = Fill[t].venue
        BY <2>2, <1>4
      <3>2. Conflicts(c, r)
        BY <2>1, <3>1, <1>6
      <3> QED
        BY <3>1, <3>2 DEF Conflicts
    <2>3. CASE o.status \notin FilledFrom
      <3>1. o \in Orders
        BY <1>3 DEF OrderOK
      <3>2. o.status \in {"Rejected", "Expired", "Filled"}
        BY <2>3, <3>1, <1>1 DEF Orders, Status, FilledFrom, Closed
      <3>3. o.status = "Filled" => Overfills(o, Fill[t])
        <4>1. o.filled_qty \in Nat /\ o.quantity \in Nat
          BY <3>1 DEF Orders
        <4>2. o.status = "Filled" => o.filled_qty >= o.quantity
          BY <1>3 DEF OrderOK
        <4> HIDE DEF o
        <4> QED
          BY <4>1, <4>2, <1>2 DEF Overfills
      <3> QED
        BY <3>2, <3>3, <1>1
    <2> QED
      BY <2>2, <2>3
  <1> QED
    BY <1>1, <1>6, <1>7, <1>11, <1>12, <1>13, <1>14 DEF EngineInv

\* Every event that may arrive is one that ApplyOK is about.
LEMMA EventsOK ==
    ASSUME NEW c \in ClientIds, NEW e \in Events(c)
    PROVE  EventOK(e)
  <1>1. CASE e \in {[kind |-> k, venue |-> None, quantity |-> 0] : k \in Plain}
    BY <1>1 DEF EventOK
  <1>2. CASE e \in {[kind |-> "Accepted", venue |-> v, quantity |-> 0] : v \in {v \in VenueIds : Owner[v] = c}}
    BY <1>2 DEF EventOK
  <1>3. CASE e \in {[kind |-> "Updated", venue |-> v, quantity |-> q] :
                       v \in {v \in VenueIds : Owner[v] = c} \cup {None}, q \in Quantities}
    <2>1. Quantities \subseteq Nat
      BY EngineAssumption
    <2> QED
      BY <1>3, <2>1 DEF EventOK
  <1> QED
    BY <1>1, <1>2, <1>3 DEF Events

LEMMA HandleEventStep ==
    ASSUME EngineInv, NEW c \in ClientIds, NEW e, EventOK(e), HandleEvent(c, e)
    PROVE  EngineInv' /\ KeepsClosed /\ TakesFill
  <1>1. /\ c \in Cached
        /\ orders[c].status = "Initialized" => e.kind \in {"Submitted", "Denied"}
        /\ UpdateOrder(c, Apply(orders[c], e)) /\ UNCHANGED positionVars
    BY DEF HandleEvent, Sent
  <1> QED
    BY <1>1, EventStep

LEMMA DenyStep ==
    ASSUME EngineInv, NEW c \in ClientIds, DenyOrder(c)
    PROVE  EngineInv' /\ KeepsClosed /\ TakesFill
  <1> DEFINE e == [kind |-> "Denied", venue |-> None, quantity |-> 0]
  <1>1. /\ orders[c].status = "Initialized"
        /\ UpdateOrder(c, Apply(orders[c], e)) /\ UNCHANGED positionVars
    BY DEF DenyOrder, Sources
  <1>2. c \in Cached
    BY <1>1 DEF Cached, None
  <1>3. EventOK(e) /\ e.kind = "Denied"
    BY DEF EventOK
  <1> QED
    BY <1>1, <1>2, <1>3, EventStep

LEMMA NextStep ==
    ASSUME EngineInv, Next
    PROVE  EngineInv' /\ KeepsClosed /\ TakesFill
  <1>1. CASE \E c \in ClientIds : AddOrder(c)
    BY <1>1, AddOrderStep
  <1>2. CASE \E c \in ClientIds : DenyOrder(c) \/ DenyNew(c)
    BY <1>2, DenyStep, DenyNewStep
  <1>3. CASE \E c \in ClientIds : \E e \in Events(c) : HandleEvent(c, e)
    BY <1>3, EventsOK, HandleEventStep
  <1>4. CASE \E t \in Trades : HandleFill(t)
    BY <1>4, FillStep
  <1>5. CASE AccountState
    BY <1>5, AccountStep
  <1> QED
    BY <1>1, <1>2, <1>3, <1>4, <1>5 DEF Next

LEMMA StutterStep ==
    ASSUME EngineInv, UNCHANGED engineVars
    PROVE  EngineInv'
  <1>1. UNCHANGED <<orders, orders_active_local, orders_inflight, orders_open, orders_closed,
                    client_order_ids, venue_order_ids>> /\ UNCHANGED positionVars
    BY DEF engineVars, indexes
  <1>2. Cached' = Cached
    BY <1>1 DEF Cached
  <1>3. OrderInv'
    BY <1>1, <1>2 DEF EngineInv, OrderInv, OrderType, OrdersIndexed
  <1>4. UNCHANGED <<book, unbooked, unaccounted, account>>
    BY <1>1 DEF positionVars
  <1>5. BookedOnce'
    <2>1. \A t \in Trades : Recorded(t)' <=> Recorded(t)
      BY <1>1, <1>2 DEF Recorded
    <2> QED
      BY <2>1, <1>4, BookedKept
  <1> QED
    BY <1>3, <1>4, <1>5, PositionKept DEF EngineInv

LEMMA EngineInvariant == EngineSpec => []EngineInv
  <1>1. Init => EngineInv
    BY InitInv
  <1>2. EngineInv /\ [Next]_engineVars => EngineInv'
    BY NextStep, StutterStep
  <1> QED
    BY <1>1, <1>2, PTL DEF EngineSpec

-----------------------------------------------------------------------------
(* The quantities *)

\* The trades of an order and the quantity it counts.  The previous status is in it
\* because a refused change restores it.
CountOK(o) ==
    /\ IsFiniteSet(o.trade_ids)
    /\ o.filled_qty = SumFunctionOnSet(TradeQty, o.trade_ids)
    /\ "PartiallyFilled" \in {o.status, o.previous_status} => o.trade_ids # {}

CountInv ==
    \A c \in Cached :
        /\ CountOK(orders[c])
        /\ \A t \in orders[c].trade_ids : Fill[t].order = c

\* What the position is the sum of: finitely many trades.
NetInv == IsFiniteSet(TakenTrades) /\ NetIsSum

LEMMA NotedCount ==
    ASSUME NEW o, OrderOK(o), CountOK(o), NEW kind
    PROVE  CountOK(Noted(o, kind))
  <1>1. /\ Noted(o, kind).status = o.status /\ Noted(o, kind).trade_ids = o.trade_ids
        /\ Noted(o, kind).filled_qty = o.filled_qty
    BY NotedOK
  <1>2. Noted(o, kind).previous_status \in {o.status, o.previous_status}
    BY DEF Noted, OrderOK, Orders
  <1> QED
    BY <1>1, <1>2 DEF CountOK

\* An event that is not a fill changes neither trades nor quantity, and leads to no
\* partly filled order but one that was so before.
LEMMA ApplyCount ==
    ASSUME NEW o, OrderOK(o), CountOK(o), NEW e, EventOK(e)
    PROVE  CountOK(Apply(o, e)) /\ Apply(o, e).trade_ids = o.trade_ids
  <1> DEFINE n == Noted(o, e.kind)
  <1>1. OrderOK(n) /\ CountOK(n) /\ n.trade_ids = o.trade_ids
    BY NotedOK, NotedCount
  <1>2. Apply(o, e) = n \/ Apply(o, e) = Moved(n, e)
    BY DEF Apply
  <1> HIDE DEF n
  <1>3. n \in Orders
    BY <1>1 DEF OrderOK
  <1>4. /\ Moved(n, e).trade_ids = n.trade_ids
        /\ Moved(n, e).filled_qty = n.filled_qty
        /\ Moved(n, e).previous_status = n.previous_status
        /\ Moved(n, e).status \in {n.status, n.previous_status, "Accepted", e.kind}
    <2>1. CASE e.kind \in {"ModifyRejected", "CancelRejected"}
      <3>1. Moved(n, e) = [n EXCEPT !.status = n.previous_status]
        BY <2>1 DEF Moved
      <3> QED
        BY <3>1, <1>3 DEF Orders
    <2>2. CASE e.kind = "Updated"
      <3>1. Moved(n, e) = [n EXCEPT
                !.status = IF n.status = "PendingUpdate" THEN n.previous_status ELSE n.status,
                !.venue_order_id = IF e.venue = None THEN n.venue_order_id ELSE e.venue,
                !.quantity = e.quantity]
        BY <2>2 DEF Moved
      <3> QED
        BY <3>1, <1>3 DEF Orders
    <2>3. CASE e.kind = "Accepted"
      <3>1. Moved(n, e) = [n EXCEPT !.status = "Accepted", !.venue_order_id = e.venue]
        BY <2>3 DEF Moved
      <3> QED
        BY <3>1, <1>3 DEF Orders
    <2>4. CASE e.kind \notin {"ModifyRejected", "CancelRejected", "Updated", "Accepted"}
      <3>1. Moved(n, e) = [n EXCEPT !.status = e.kind]
        BY <2>4 DEF Moved
      <3> QED
        BY <3>1, <1>3 DEF Orders
    <2> QED
      BY <2>1, <2>2, <2>3, <2>4
  <1>5. e.kind # "PartiallyFilled"
    BY DEF EventOK, Plain
  <1> QED
    BY <1>1, <1>2, <1>4, <1>5 DEF CountOK

LEMMA TradeQtyOK ==
    ASSUME NEW t \in Trades
    PROVE  TradeQty[t] = Fill[t].qty /\ TradeQty[t] \in Int
  <1>1. Fill[t].qty \in Nat
    BY EngineAssumption
  <1> QED
    BY <1>1 DEF TradeQty

\* A fill that is not a duplicate is counted once if it is counted.
LEMMA ApplyFillCount ==
    ASSUME NEW o, OrderOK(o), CountOK(o), NEW t \in Trades, t \notin o.trade_ids
    PROVE  CountOK(ApplyFill(o, Fill[t]))
  <1> DEFINE n == Noted(o, "Filled")
  <1>1. OrderOK(n) /\ CountOK(n) /\ n.trade_ids = o.trade_ids
    BY NotedOK, NotedCount
  <1>2. ApplyFill(o, Fill[t]) = n \/ ApplyFill(o, Fill[t]) = Filled(n, Fill[t])
    BY DEF ApplyFill
  <1> HIDE DEF n
  <1>3. n \in Orders /\ n.trade_ids \subseteq Trades
    BY <1>1 DEF OrderOK, Orders
  <1> DEFINE r == Filled(n, Fill[t])
  <1>4. r.filled_qty = n.filled_qty + Fill[t].qty /\ r.trade_ids = n.trade_ids \cup {t}
    <2>1. Fill[t].trade_id = t
      BY EngineAssumption
    <2> QED
      BY <1>3, <2>1 DEF Filled, Orders
  <1> HIDE DEF r
  <1>5. SumFunctionOnSet(TradeQty, n.trade_ids \cup {t}) =
            SumFunctionOnSet(TradeQty, n.trade_ids) + TradeQty[t]
    <2>1. IsFiniteSet(n.trade_ids) /\ t \notin n.trade_ids
      BY <1>1 DEF CountOK
    <2>2. \A u \in n.trade_ids \cup {t} : TradeQty[u] \in Int
      BY <1>3, TradeQtyOK
    <2> QED
      BY <2>1, <2>2, SumWith
  <1>6. IsFiniteSet(n.trade_ids \cup {t})
    BY <1>1, FS_AddElement DEF CountOK
  <1>7. CountOK(r)
    BY <1>1, <1>4, <1>5, <1>6, TradeQtyOK DEF CountOK
  <1> QED
    BY <1>1, <1>2, <1>7 DEF r

\* update_order(), also when it gives up.
LEMMA UpdateCount ==
    ASSUME OrderType, CountInv, NEW c \in Cached, NEW o, UpdateOrder(c, o), CountOK(o),
           \A t \in o.trade_ids : Fill[t].order = c
    PROVE  CountInv'
  <1>1. orders' = orders \/ orders' = [orders EXCEPT ![c] = o]
    BY DEF UpdateOrder
  <1>2. ASSUME NEW d \in Cached'
        PROVE  CountOK(orders'[d]) /\ \A t \in orders'[d].trade_ids : Fill[t].order = d
    <2>1. d \in ClientIds /\ orders'[d].status # None /\ c \in ClientIds
      BY <1>2 DEF Cached
    <2>2. orders'[d] = orders[d] \/ (d = c /\ orders'[d] = o)
      BY <1>1, <2>1 DEF OrderType
    <2>3. CASE orders'[d] = orders[d]
      <3>1. d \in Cached
        BY <2>1, <2>3 DEF Cached
      <3> QED
        BY <2>3, <3>1 DEF CountInv
    <2>4. CASE d = c /\ orders'[d] = o
      BY <2>4
    <2> QED
      BY <2>2, <2>3, <2>4
  <1> QED
    BY <1>2 DEF CountInv, CountOK

-----------------------------------------------------------------------------

\* What the position takes of a trade.
Net(u) == SignedQty(u) - Commission(u)

\* TakenTrades and TakenQty, for trades taken as often as k says.
Among(k) == {u \in Trades : k[u] > 0}
Amount(k) == [u \in Trades |-> k[u] * Net(u)]

\* One trade more.
LEMMA TakenOnceMore ==
    ASSUME NEW k \in [Trades -> Nat], NEW m \in [Trades -> Nat], NEW t \in Trades,
           m[t] = k[t] + 1, \A u \in Trades \ {t} : m[u] = k[u],
           IsFiniteSet(Among(k))
    PROVE  /\ IsFiniteSet(Among(m))
           /\ SumFunctionOnSet(Amount(m), Among(m)) =
                  SumFunctionOnSet(Amount(k), Among(k)) + Net(t)
  <1> DEFINE F == Amount(k)
             G == Amount(m)
             S == Among(k)
             R == Among(m)
             B == S \ {t}
  <1> USE DEF Amount, Among
  <1>1. m \in [Trades -> Nat] /\ m[t] = k[t] + 1 /\ \A u \in Trades \ {t} : m[u] = k[u]
    OBVIOUS
  <1>2. Net(t) \in Int /\ \A u \in Trades : Net(u) \in Int
    BY CommissionOK DEF Net
  <1>3. \A u \in Trades : F[u] \in Int /\ G[u] \in Int
    BY <1>1, <1>2
  <1>4. \A u \in Trades \ {t} : F[u] = G[u]
    BY <1>1
  <1>5. G[t] = F[t] + Net(t)
    <2>1. G[t] = (k[t] + 1) * Net(t) /\ F[t] = k[t] * Net(t)
      BY <1>1
    <2>2. k[t] \in Int
      OBVIOUS
    <2>3. \A a, q \in Int : (a + 1) * q = a * q + q
      OBVIOUS
    <2> QED
      BY <1>2, <2>1, <2>2, <2>3
  <1>6. R = B \cup {t}
    BY <1>1
  <1>7. IsFiniteSet(B) /\ IsFiniteSet(R)
    BY <1>6, FS_RemoveElement, FS_AddElement
  <1>8. t \notin B /\ B \subseteq Trades \ {t}
    OBVIOUS
  <1>9. k[t] = 0 => S = B /\ F[t] = 0
    <2>1. k[t] = 0 => t \notin S
      OBVIOUS
    <2>2. \A q \in Int : 0 * q = 0
      OBVIOUS
    <2> QED
      BY <1>2, <2>1, <2>2
  <1>10. k[t] # 0 => S = B \cup {t}
    OBVIOUS
  <1> HIDE DEF F, G, S, R, B
  <1>11. SumFunctionOnSet(G, R) = SumFunctionOnSet(G, B) + G[t]
    <2>1. \A u \in B \cup {t} : G[u] \in Int
      BY <1>3, <1>8
    <2> QED
      BY <1>6, <1>7, <1>8, <2>1, SumWith
  <1>12. SumFunctionOnSet(G, B) = SumFunctionOnSet(F, B)
    <2>1. \A u \in B : G[u] = F[u]
      BY <1>4, <1>8
    <2> QED
      BY <1>7, <2>1, SumSame
  <1>13. SumFunctionOnSet(F, B) \in Int
    <2>1. \A u \in B : F[u] \in Int
      BY <1>3, <1>8
    <2> QED
      BY <1>7, <2>1, SumType
  <1>14. SumFunctionOnSet(F, S) = SumFunctionOnSet(F, B) + F[t]
    <2>1. CASE k[t] = 0
      BY <1>9, <1>13, <2>1
    <2>2. CASE k[t] # 0
      <3>1. \A u \in B \cup {t} : F[u] \in Int
        BY <1>3, <1>8
      <3> QED
        BY <1>7, <1>8, <1>10, <2>2, <3>1, SumWith
    <2> QED
      BY <2>1, <2>2
  <1>15. SumFunctionOnSet(G, R) = SumFunctionOnSet(F, S) + Net(t)
    BY <1>2, <1>3, <1>5, <1>11, <1>12, <1>13, <1>14
  <1> QED
    BY <1>7, <1>15 DEF F, G, S, R

\* handle_position_update() changes the position by what it takes.
LEMMA NetStep ==
    ASSUME PosInv, NetInv, NEW t \in Trades, HandlePositionUpdate(t)
    PROVE  NetInv'
  <1> DEFINE held == position.signed_qty + snapshot_qty
  <1>1. /\ position \in [known : BOOLEAN, signed_qty : Int, trade_ids : SUBSET Trades,
                         events : SUBSET (Trades \X Int)]
        /\ taken \in [Trades -> Nat]
        /\ ~position.known => position.signed_qty = 0
    BY DEF PosInv, PosType, NoPosition
  <1>2. /\ position.signed_qty \in Int /\ snapshot_qty \in Int
        /\ SignedQty(t) \in Int /\ Commission(t) \in Int
    BY <1>1, SignedQtyOK, CommissionOK DEF PosInv, PosType
  <1>3. \/ Takes(t) /\ held' = held + Net(t)
        \/ UNCHANGED <<position, snapshot_qty, taken>>
    <2>1. CASE OpenPosition(t)
      BY <1>1, <1>2, <2>1 DEF OpenPosition, Opened, Net
    <2>2. CASE ReopenPosition(t)
      BY <1>2, <2>2 DEF ReopenPosition, Opened, book, Net
    <2>3. CASE Panic(t)
      BY <2>3 DEF Panic
    <2>4. CASE FlipPosition(t)
      <3>1. PICK k \in ClosingShare(t) :
                /\ Opened(t, SignedQty(t) + position.signed_qty, Commission(t) - k)
                /\ snapshot_qty' = snapshot_qty - k
        BY <2>4 DEF FlipPosition
      <3>2. k \in Int /\ Takes(t)
        BY <2>4 DEF ClosingShare, FlipPosition
      <3>3. position'.signed_qty = (SignedQty(t) + position.signed_qty) - (Commission(t) - k)
        BY <3>1 DEF Opened
      <3> QED
        BY <1>2, <3>1, <3>2, <3>3 DEF Net
    <2>5. CASE UpdatePosition(t)
      BY <1>1, <1>2, <2>5 DEF UpdatePosition, Changed, Net
    <2> QED
      BY <2>1, <2>2, <2>3, <2>4, <2>5 DEF HandlePositionUpdate
  <1>4. CASE UNCHANGED <<position, snapshot_qty, taken>>
    BY <1>4 DEF NetInv, NetIsSum, TakenTrades, TakenQty
  <1>5. CASE Takes(t) /\ held' = held + Net(t)
    <2>1. taken' = [taken EXCEPT ![t] = @ + 1] /\ IsFiniteSet(Among(taken))
      BY <1>5 DEF Takes, NetInv, TakenTrades, Among
    <2>2. /\ IsFiniteSet(Among(taken'))
          /\ SumFunctionOnSet(Amount(taken'), Among(taken')) =
                 SumFunctionOnSet(Amount(taken), Among(taken)) + Net(t)
      <3>1. /\ taken' \in [Trades -> Nat] /\ taken'[t] = taken[t] + 1
            /\ \A u \in Trades \ {t} : taken'[u] = taken[u]
        BY <1>1, <2>1
      <3>2. ASSUME NEW m \in [Trades -> Nat], m[t] = taken[t] + 1,
                   \A u \in Trades \ {t} : m[u] = taken[u]
            PROVE  /\ IsFiniteSet(Among(m))
                   /\ SumFunctionOnSet(Amount(m), Among(m)) =
                          SumFunctionOnSet(Amount(taken), Among(taken)) + Net(t)
        BY <1>1, <2>1, <3>2, TakenOnceMore
      <3> QED
        BY <3>1, <3>2
    <2>3. /\ TakenTrades = Among(taken) /\ TakenTrades' = Among(taken')
          /\ TakenQty = Amount(taken) /\ TakenQty' = Amount(taken')
      BY DEF TakenTrades, TakenQty, Among, Amount, Net, SignedQty, Commission
    <2> QED
      BY <1>5, <2>2, <2>3 DEF NetInv, NetIsSum
  <1> QED
    BY <1>3, <1>4, <1>5

-----------------------------------------------------------------------------

\* The part of the inductive invariant that is about quantities.
SumInv == CountInv /\ NetInv

LEMMA SumInit == Init => SumInv
  <1> SUFFICES ASSUME Init PROVE SumInv
    OBVIOUS
  <1>1. Cached = {}
    BY DEF Init, Cached, NoOrder, None
  <1>2. TakenTrades = {}
    BY DEF Init, TakenTrades
  <1>3. position.signed_qty = 0 /\ snapshot_qty = 0
    BY DEF Init, NoPosition
  <1> QED
    BY <1>1, <1>2, <1>3, SumEmpty, FS_EmptySet DEF SumInv, CountInv, NetInv, NetIsSum

\* A step that leaves the position alone.
LEMMA NetKept ==
    ASSUME NetInv, UNCHANGED book
    PROVE  NetInv'
  BY DEF NetInv, NetIsSum, TakenTrades, TakenQty, book

LEMMA SumNext ==
    ASSUME EngineInv, SumInv, Next
    PROVE  SumInv'
  <1>1. OrderType /\ PosInv /\ CountInv /\ NetInv /\ \A c \in Cached : OrderOK(orders[c])
    BY DEF EngineInv, OrderInv, SumInv
  <1>2. ASSUME NEW c \in Cached, NEW e, EventOK(e), UpdateOrder(c, Apply(orders[c], e))
        PROVE  CountInv'
    <2> DEFINE o == Apply(orders[c], e)
    <2>1. CountOK(orders[c]) /\ OrderOK(orders[c])
      BY <1>1 DEF CountInv
    <2>2. CountOK(o) /\ o.trade_ids = orders[c].trade_ids
      BY <1>2, <2>1, ApplyCount
    <2>3. \A t \in o.trade_ids : Fill[t].order = c
      BY <1>1, <2>2 DEF CountInv
    <2> HIDE DEF o
    <2>4. UpdateOrder(c, o)
      BY <1>2 DEF o
    <2> QED
      BY <1>1, <2>2, <2>3, <2>4, UpdateCount
  <1>3. ASSUME NEW c \in ClientIds, NEW o, orders' = [orders EXCEPT ![c] = o] /\ UNCHANGED positionVars,
               IsFiniteSet(o.trade_ids), o.trade_ids = {}, o.filled_qty = 0,
               "PartiallyFilled" \notin {o.status, o.previous_status}
        PROVE  SumInv'
    <2>1. CountOK(o)
      BY <1>3, SumEmpty DEF CountOK
    <2>2. ASSUME NEW d \in Cached'
          PROVE  CountOK(orders'[d]) /\ \A t \in orders'[d].trade_ids : Fill[t].order = d
      <3>1. d \in ClientIds /\ orders'[d].status # None
        BY <2>2 DEF Cached
      <3>2. CASE d = c
        BY <1>1, <1>3, <2>1, <3>2 DEF OrderType
      <3>3. CASE d # c
        <4>1. orders'[d] = orders[d]
          BY <1>1, <1>3, <3>1, <3>3 DEF OrderType
        <4>2. d \in Cached
          BY <3>1, <4>1 DEF Cached
        <4> QED
          BY <1>1, <4>1, <4>2 DEF CountInv
      <3> QED
        BY <3>2, <3>3
    <2>3. CountInv'
      BY <2>2 DEF CountInv, CountOK
    <2> QED
      BY <1>1, <1>3, <2>3, NetKept DEF SumInv, positionVars
  <1>4. ASSUME NEW c \in ClientIds, DenyOrder(c)
        PROVE  SumInv'
    <2> DEFINE e == [kind |-> "Denied", venue |-> None, quantity |-> 0]
    <2>1. /\ orders[c].status = "Initialized"
          /\ UpdateOrder(c, Apply(orders[c], e)) /\ UNCHANGED positionVars
      BY <1>4 DEF DenyOrder, Sources
    <2>2. c \in Cached /\ EventOK(e)
      BY <2>1 DEF Cached, None, EventOK
    <2> HIDE DEF e
    <2> QED
      BY <1>1, <1>2, <2>1, <2>2, NetKept DEF SumInv, positionVars
  <1>5. ASSUME NEW c \in ClientIds, NEW e \in Events(c), HandleEvent(c, e)
        PROVE  SumInv'
    <2>1. c \in Cached /\ UpdateOrder(c, Apply(orders[c], e)) /\ UNCHANGED positionVars
      BY <1>5 DEF HandleEvent
    <2>2. EventOK(e)
      BY EventsOK
    <2> QED
      BY <1>1, <1>2, <2>1, <2>2, NetKept DEF SumInv, positionVars
  <1>6. ASSUME NEW t \in Trades, HandleFill(t)
        PROVE  SumInv'
    <2> DEFINE c == Fill[t].order
               o == ApplyFill(orders[c], Fill[t])
    <2>1. /\ c \in Cached /\ orders[c].status # "Initialized" /\ t \notin orders[c].trade_ids
          /\ UpdateOrder(c, o) /\ (HandlePositionUpdate(t) \/ UNCHANGED book)
      BY <1>6 DEF HandleFill, Sent, Duplicate
    <2>2. OrderOK(orders[c]) /\ CountOK(orders[c])
      BY <1>1, <2>1 DEF CountInv
    <2>3. CountOK(o)
      BY <2>1, <2>2, ApplyFillCount
    <2>4. o.trade_ids \subseteq orders[c].trade_ids \cup {t}
      BY <2>1, <2>2, ApplyFillOK
    <2>5. \A u \in o.trade_ids : Fill[u].order = c
      <3>1. \A u \in orders[c].trade_ids : Fill[u].order = c
        BY <1>1, <2>1 DEF CountInv
      <3> QED
        BY <2>4, <3>1
    <2> HIDE DEF c, o
    <2>6. CountInv'
      BY <1>1, <2>1, <2>3, <2>5, UpdateCount
    <2>7. NetInv'
      BY <1>1, <2>1, NetStep, NetKept
    <2> QED
      BY <2>6, <2>7 DEF SumInv
  <1>7. ASSUME NEW c \in ClientIds, AddOrder(c)
        PROVE  SumInv'
    <2> DEFINE o == Initialized(Quantity[c])
    <2>1. /\ IsFiniteSet(o.trade_ids) /\ o.trade_ids = {} /\ o.filled_qty = 0
          /\ "PartiallyFilled" \notin {o.status, o.previous_status}
      BY FS_EmptySet DEF Initialized, None
    <2>2. orders' = [orders EXCEPT ![c] = o] /\ UNCHANGED positionVars
      BY <1>7 DEF AddOrder
    <2> HIDE DEF o
    <2> QED
      BY <1>3, <2>1, <2>2
  <1>8. ASSUME NEW c \in ClientIds, DenyNew(c)
        PROVE  SumInv'
    <2> DEFINE o == DeniedNew(c)
    <2>1. /\ IsFiniteSet(o.trade_ids) /\ o.trade_ids = {} /\ o.filled_qty = 0
          /\ "PartiallyFilled" \notin {o.status, o.previous_status} /\ o.venue_order_id = None
      BY FS_EmptySet DEF DeniedNew, Apply, Sources, Moved, Noted, Initialized, Pending, None
    <2> HIDE DEF o
    <2>2. UpdateOrder(c, o) /\ UNCHANGED positionVars
      BY <1>8 DEF DenyNew, DeniedNew, o
    <2>3. orders' = [orders EXCEPT ![c] = o]
      BY <2>1, <2>2 DEF UpdateOrder, Conflicts
    <2> QED
      BY <1>3, <2>1, <2>2, <2>3
  <1>9. ASSUME AccountState
        PROVE  SumInv'
    <2>1. orders' = orders /\ UNCHANGED book /\ Cached' = Cached
      BY <1>9 DEF AccountState, Cached
    <2>2. CountInv'
      BY <1>1, <2>1 DEF CountInv, CountOK
    <2> QED
      BY <1>1, <2>1, <2>2, NetKept DEF SumInv
  <1> QED
    BY <1>4, <1>5, <1>6, <1>7, <1>8, <1>9 DEF Next

LEMMA SumInvariant == EngineSpec => []SumInv
  <1>1. EngineInv /\ SumInv /\ [Next]_engineVars => SumInv'
    <2>1. ASSUME SumInv, UNCHANGED engineVars
          PROVE  SumInv'
      <3>1. orders' = orders /\ Cached' = Cached /\ UNCHANGED book
        BY <2>1 DEF engineVars, positionVars, Cached
      <3>2. CountInv'
        BY <2>1, <3>1 DEF SumInv, CountInv, CountOK
      <3> QED
        BY <2>1, <3>1, <3>2, NetKept DEF SumInv
    <2> QED
      BY <2>1, SumNext
  <1> QED
    BY <1>1, SumInit, EngineInvariant, PTL DEF EngineSpec

-----------------------------------------------------------------------------
(* Theorems about the engine *)

\* The engine keeps its types, for any orders, venue order ids and trades.
THEOREM EngineTypeCorrect == EngineSpec => []TypeOK
  <1>1. EngineInv => TypeOK
    BY DEF EngineInv, OrderInv, OrderType, PosInv, PosType, TypeOK
  <1> QED
    BY <1>1, EngineInvariant, PTL

\* The indexes of the cache always agree with the orders and the position, whatever
\* is sent late, again or refused, and wherever update_order() gives up.
THEOREM IndexesAlwaysAgree == EngineSpec => []IndexesAgree
  <1>1. EngineInv => IndexesAgree
    BY DEF EngineInv, OrderInv, PosInv, IndexesAgree
  <1> QED
    BY <1>1, EngineInvariant, PTL

\* The status that a refused change restores is never a pending or a closed one.
THEOREM RefusalRestoresBase == EngineSpec => []PendingHasBase
  <1>1. EngineInv => PendingHasBase
    BY DEF EngineInv, OrderInv, OrderOK, PendingHasBase, Base
  <1> QED
    BY <1>1, EngineInvariant, PTL

\* The position takes a trade once, exactly if its order recorded it when the account
\* was known, unless it was handed over unrecorded; only such a trade makes
\* Position::apply() panic.  A trade recorded before the account was known is never
\* taken.
THEOREM TradesBookedOnce == EngineSpec => []BookedOnce
  <1>1. EngineInv => BookedOnce
    BY DEF EngineInv
  <1> QED
    BY <1>1, EngineInvariant, PTL

\* An order counts each of its trades once, however often and late they come, and is
\* Filled only when all of its quantity is.
THEOREM TradesCountedOnce == EngineSpec => []FilledOnce
  <1>1. EngineInv /\ SumInv => FilledOnce
    <2> SUFFICES ASSUME EngineInv, SumInv, NEW c \in Cached
                 PROVE  /\ \A t \in orders[c].trade_ids : Fill[t].order = c
                        /\ orders[c].filled_qty = SumFunctionOnSet(TradeQty, orders[c].trade_ids)
                        /\ orders[c].status = "Filled" => orders[c].filled_qty >= orders[c].quantity
                        /\ orders[c].status = "PartiallyFilled" => orders[c].trade_ids # {}
      BY DEF FilledOnce
    <2>1. OrderOK(orders[c])
      BY DEF EngineInv, OrderInv
    <2>2. CountOK(orders[c]) /\ \A t \in orders[c].trade_ids : Fill[t].order = c
      BY DEF SumInv, CountInv
    <2> QED
      BY <2>1, <2>2 DEF OrderOK, CountOK
  <1> QED
    BY <1>1, EngineInvariant, SumInvariant, PTL

\* However fills open, change, close, reopen and flip the position, its quantity and
\* what flips left in snapshots are the sum of the trades it took, net of commissions
\* in the base currency, however those are split and rounded.
THEOREM PositionIsNet == EngineSpec => []NetIsSum
  <1>1. SumInv => NetIsSum
    BY DEF SumInv, NetInv
  <1> QED
    BY <1>1, SumInvariant, PTL

\* No trade is lost when a netting position is reopened or flipped.
THEOREM CyclesAreKept == EngineSpec => []CyclesKept
  <1>1. EngineInv => CyclesKept
    BY DEF EngineInv, PosInv
  <1> QED
    BY <1>1, EngineInvariant, PTL

\* A closed order keeps its status, but for a canceled one that a new trade reaches.
THEOREM ClosedOrdersStay == EngineSpec => ClosedIsFinal
  <1>1. EngineInv /\ [Next]_engineVars => [KeepsClosed]_engineVars
    BY NextStep
  <1>2. EngineSpec => [][KeepsClosed]_engineVars
    BY <1>1, EngineInvariant, PTL DEF EngineSpec
  <1> QED
    BY <1>2 DEF ClosedIsFinal, KeepsClosed

\* A trade that reaches the position without being recorded on its order met an order
\* that was rejected, expired or overfilled, or that has another venue order id.
THEOREM FillsAreRecorded == EngineSpec => OrderTakesFill
  <1>1. EngineInv /\ [Next]_engineVars => [TakesFill]_engineVars
    BY NextStep
  <1>2. EngineSpec => [][TakesFill]_engineVars
    BY <1>1, EngineInvariant, PTL DEF EngineSpec
  <1> QED
    BY <1>2 DEF OrderTakesFill, TakesFill

-----------------------------------------------------------------------------
(* The live node *)

\* Every step of the node's loop, its in-flight check included, changes orders and
\* position by one step of the engine or not at all.
THEOREM NodeImplementsEngine == NodeSpec => EngineSpec
  <1>1. NodeInit => Init
    BY DEF NodeInit
  <1>2. [NodeNext]_vars => [Next]_engineVars
    <2> SUFFICES ASSUME [NodeNext]_vars PROVE Next \/ UNCHANGED engineVars
      OBVIOUS
    <2>1. CASE UNCHANGED vars
      BY <2>1 DEF vars
    <2>2. ASSUME NEW c \in ClientIds, NewOrder(c)
          PROVE  Next
      BY <2>2 DEF NewOrder, Next
    <2>3. ASSUME NEW c \in ClientIds, Submit(c) \/ Request(c)
          PROVE  UNCHANGED engineVars
      BY <2>3 DEF Submit, Request
    <2>4. ASSUME NEW c \in ClientIds, SubmitFails(c)
          PROVE  Next
      BY <2>4 DEF SubmitFails, Next
    <2>5. ASSUME NEW c \in ClientIds, NEW e \in Arrivals(c), OrderEvent(c, e)
          PROVE  Next
      <3>1. e \in Events(c) /\ HandleEvent(c, e)
        BY <2>5 DEF OrderEvent, Arrivals
      <3> QED
        BY <3>1 DEF Next
    <2>6. ASSUME NEW c \in ClientIds, Check(c)
          PROVE  Next \/ UNCHANGED engineVars
      <3>1. CASE CheckSkips(c) \/ CheckQueries(c)
        BY <3>1 DEF CheckSkips, CheckQueries
      <3>2. CASE CheckResolves(c)
        <4>1. UNCHANGED engineVars \/ HandleEvent(c, Resolution(orders[c]))
          BY <3>2 DEF CheckResolves
        <4>2. Resolution(orders[c]) \in Events(c)
          BY DEF Resolution, Events, Plain
        <4> QED
          BY <4>1, <4>2 DEF Next
      <3> QED
        BY <2>6, <3>1, <3>2 DEF Check
    <2>7. ASSUME NEW t \in Trades, FillEvent(t)
          PROVE  Next
      BY <2>7 DEF FillEvent, Next
    <2>8. CASE Tick
      BY <2>8 DEF Tick
    <2>9. CASE AccountEvent
      BY <2>9 DEF AccountEvent, Next
    <2> QED
      BY <2>1, <2>2, <2>3, <2>4, <2>5, <2>6, <2>7, <2>8, <2>9 DEF NodeNext
  <1> QED
    BY <1>1, <1>2, PTL DEF NodeSpec, EngineSpec

\* An event handled, or the order no longer followed.
LEMMA ClearStep ==
    ASSUME NodeTypeOK, NEW c \in ClientIds, NEW kind, Clear(c, kind), UNCHANGED <<due, commands>>
    PROVE  NodeTypeOK'
  <1>1. NoCheck \in [tracked : BOOLEAN, age : 0..(Threshold + 1), retry_count : 0..(MaxRetries - 1),
                     last_query : (0..Threshold) \cup {NoQuery}]
    BY NodeAssumption DEF NoCheck
  <1> QED
    BY <1>1 DEF NodeTypeOK, Clear

\* The in-flight check never counts more tries than configured, and no age runs past
\* its threshold.
THEOREM NodeTypeCorrect == NodeSpec => []NodeTypeOK
  <1> DEFINE K == [tracked : BOOLEAN, age : 0..(Threshold + 1), retry_count : 0..(MaxRetries - 1),
                   last_query : (0..Threshold) \cup {NoQuery}]
  <1>1. NoCheck \in K /\ NewCheck \in K
    BY NodeAssumption DEF NoCheck, NewCheck
  <1>2. NodeInit => NodeTypeOK
    BY <1>1 DEF NodeInit, NodeTypeOK
  <1>3. NodeTypeOK /\ [NodeNext]_vars => NodeTypeOK'
    <2> SUFFICES ASSUME NodeTypeOK, [NodeNext]_vars PROVE NodeTypeOK'
      OBVIOUS
    <2>1. inflight_checks \in [ClientIds -> K] /\ due \subseteq ClientIds /\ commands \in [ClientIds -> Nat]
      BY DEF NodeTypeOK
    <2>2. CASE UNCHANGED nodeVars
      BY <2>1, <2>2 DEF nodeVars, NodeTypeOK
    <2>3. ASSUME NEW c \in ClientIds, Register(c)
          PROVE  NodeTypeOK'
      BY <2>1, <2>3, <1>1 DEF Register, NodeTypeOK
    <2>4. ASSUME NEW c \in ClientIds, NEW e, OrderEvent(c, e)
          PROVE  NodeTypeOK'
      BY <2>4, ClearStep DEF OrderEvent
    <2>5. ASSUME NEW t \in Trades, FillEvent(t)
          PROVE  NodeTypeOK'
      <3>1. Fill[t].order \in ClientIds
        BY EngineAssumption
      <3> QED
        BY <2>5, <3>1, ClearStep DEF FillEvent
    <2>6. ASSUME NEW c \in ClientIds, Check(c)
          PROVE  NodeTypeOK'
      <3>1. CASE CheckSkips(c)
        BY <2>1, <3>1 DEF CheckSkips, NodeTypeOK
      <3>2. CASE CheckQueries(c)
        <4> DEFINE k == inflight_checks[c]
        <4>1. /\ inflight_checks' = [inflight_checks EXCEPT ![c].retry_count = k.retry_count + 1,
                                                            ![c].last_query = 0]
              /\ k.retry_count + 1 < MaxRetries /\ due' = due \ {c} /\ commands' = commands
          BY <3>2 DEF CheckQueries
        <4>2. k \in K
          BY <2>1
        <4>3. k.retry_count + 1 \in 0..(MaxRetries - 1) /\ 0 \in 0..Threshold
          BY <4>1, <4>2, NodeAssumption
        <4>4. inflight_checks' \in [ClientIds -> K]
          BY <2>1, <4>1, <4>2, <4>3
        <4> QED
          BY <2>1, <4>1, <4>4 DEF NodeTypeOK
      <3>3. CASE CheckResolves(c)
        BY <2>1, <3>3, <1>1 DEF CheckResolves, NodeTypeOK
      <3> QED
        BY <2>6, <3>1, <3>2, <3>3 DEF Check
    <2>7. CASE Tick
      <3>1. ASSUME NEW c \in ClientIds
            PROVE  [inflight_checks[c] EXCEPT !.age = Later(@, Threshold + 1),
                                              !.last_query = Later(@, Threshold)] \in K
        <4> DEFINE k == inflight_checks[c]
        <4>1. k \in K
          BY <2>1
        <4>2. Later(k.age, Threshold + 1) \in 0..(Threshold + 1)
          BY <4>1, NodeAssumption DEF Later, NoQuery
        <4>3. Later(k.last_query, Threshold) \in (0..Threshold) \cup {NoQuery}
          BY <4>1, NodeAssumption DEF Later, NoQuery
        <4> QED
          BY <4>1, <4>2, <4>3
      <3>2. inflight_checks' \in [ClientIds -> K]
        BY <2>1, <2>7, <3>1 DEF Tick
      <3>3. due' \subseteq ClientIds /\ commands' = commands
        BY <2>7 DEF Tick, Followed
      <3> QED
        BY <2>1, <3>2, <3>3 DEF NodeTypeOK
    <2> QED
      BY <2>2, <2>3, <2>4, <2>5, <2>6, <2>7
      DEF NodeNext, vars, NewOrder, AccountEvent, Submit, SubmitFails, Request
  <1> QED
    BY <1>2, <1>3, PTL DEF NodeSpec

=============================================================================
