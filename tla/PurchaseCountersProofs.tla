----------------------- MODULE PurchaseCountersProofs -----------------------
(***************************************************************************)
(* Theorems of PurchaseCounters, for any finite sets of orders and         *)
(* settling goroutines, any limit and any number of repeated commands.     *)
(***************************************************************************)
EXTENDS PurchaseCounters, FiniteSetTheorems, TLAPS

\* What PaidOnTheWay counts.
LEMMA PaidAndCommittingFinite ==
  /\ IsFiniteSet(PaidOrders) /\ Cardinality(PaidOrders) \in Nat
  /\ IsFiniteSet(Committing) /\ Cardinality(Committing) \in Nat
  /\ Cardinality(Committing) <= Cardinality(Settlers)
  /\ Cardinality(Settlers) \in Nat
<1>1. PaidOrders \subseteq Orders /\ Committing \subseteq Settlers
  BY DEF PaidOrders, Committing
<1>2. IsFiniteSet(Orders) /\ IsFiniteSet(Settlers)
  BY CountersAssumption
<1> QED
  BY <1>1, <1>2, FS_Subset, FS_CardinalityType

LEMMA ActiveOrdersCount == Cardinality(ActiveOrders) \in Nat
<1>1. ActiveOrders \subseteq Orders
  BY DEF ActiveOrders
<1> QED
  BY <1>1, CountersAssumption, FS_Subset, FS_CardinalityType

\* A repeated command leaves tables and calls alone, and the histories tell
\* which counter it may have led astray.
LEMMA Repeated ==
  ASSUME TypeOK, ResendStep
  PROVE  /\ UNCHANGED <<status, locking, seed, tail, settling>>
         /\ disturbed' \subseteq {"active", "take"} /\ disturbed \subseteq disturbed'
         /\ doubled' \in BOOLEAN /\ (doubled => doubled') /\ resends' \in 0..MaxResent
         /\ active' \in Int \union {NoKey} /\ (active' = NoKey => active = NoKey)
         /\ take' \in Nat \union {NoKey}
         /\ \/ active' = active
            \/ active' = Value(active) + 1 /\ doubled'
            \/ "active" \in disturbed'
         /\ take' = take \/ take' = Value(take) + 1 \/ "take" \in disturbed'
<1> USE DEF TypeOK, SendAgain
<1>1. resends' \in 0..MaxResent
  BY CountersAssumption DEF ResendStep, IncrActiveAgain, DecrActiveAgain, DecrTakeAgain,
    IncrTakeAgain
<1>2. CASE \E o \in Orders : IncrActiveAgain(o)
  BY <1>1, <1>2, CountersAssumption DEF IncrActiveAgain, Value
<1>3. CASE \E o \in Orders : DecrActiveAgain(o)
  BY <1>1, <1>3, CountersAssumption DEF DecrActiveAgain, Value
<1>4. CASE \E o \in Orders : DecrTakeAgain(o)
  BY <1>1, <1>4, CountersAssumption DEF DecrTakeAgain, DecrGuarded, Value
<1>5. CASE \E c \in Settlers : IncrTakeAgain(c)
  BY <1>1, <1>5, CountersAssumption DEF IncrTakeAgain, Value
<1> QED
  BY <1>2, <1>3, <1>4, <1>5 DEF ResendStep

LEMMA LockType == ASSUME TypeOK, NEW o \in Orders, LockStep(o) PROVE TypeOK'
<1> USE DEF TypeOK, LockGoto, LockSteps
<1>1. CASE GetActiveCount(o)
  <2>1. PICK at \in LockSteps : locking' = [locking EXCEPT ![o] = at]
    BY <1>1 DEF GetActiveCount
  <2> QED
    BY <1>1, <2>1 DEF GetActiveCount
<1>2. CASE CountActiveOrders(o)
  <2>1. seed' \in [Orders -> Nat]
    BY <1>2, ActiveOrdersCount DEF CountActiveOrders
  <2> QED
    BY <1>2, <2>1 DEF CountActiveOrders
<1>3. CASE InitActiveCount(o)
  <2>1. active' \in Int \union {NoKey}
    BY <1>3 DEF InitActiveCount, Seeded
  <2>2. PICK at \in LockSteps : locking' = [locking EXCEPT ![o] = at]
    BY <1>3 DEF InitActiveCount
  <2> QED
    BY <1>3, <2>1, <2>2 DEF InitActiveCount
<1>4. CASE InsertOrder(o)
  BY <1>4 DEF InsertOrder
<1>5. CASE IncrActiveCount(o)
  BY <1>5 DEF IncrActiveCount, Value
<1>6. CASE IncrActiveFails(o)
  BY <1>6 DEF IncrActiveFails
<1>7. CASE PaymentCreated(o)
  BY <1>7 DEF PaymentCreated
<1>8. CASE RollbackLock(o)
  BY <1>8 DEF RollbackLock
<1>9. CASE RollbackExists(o)
  <2>1. PICK at \in LockSteps : locking' = [locking EXCEPT ![o] = at]
    BY <1>9 DEF RollbackExists
  <2> QED
    BY <1>9, <2>1 DEF RollbackExists
<1>10. CASE RollbackDecr(o)
  BY <1>10 DEF RollbackDecr, Value
<1> QED
  BY <1>1, <1>2, <1>3, <1>4, <1>5, <1>6, <1>7, <1>8, <1>9, <1>10 DEF LockStep

LEMMA SettleType == ASSUME TypeOK, NEW c \in Settlers, SettleStep(c) PROVE TypeOK'
<1> USE DEF TypeOK, SettleGoto, SettleState
<1>1. ASSUME NEW o \in Orders, BeginSettle(c, o) PROVE TypeOK'
  BY <1>1 DEF BeginSettle
<1>2. CASE SettleOrder(c)
  BY <1>2 DEF SettleOrder
<1>3. CASE IncrTakeCount(c)
  BY <1>3, CountersAssumption DEF IncrTakeCount, Value
<1>4. CASE SettleStops(c)
  BY <1>4 DEF SettleStops
<1> QED
  BY <1>1, <1>2, <1>3, <1>4 DEF SettleStep

LEMMA RefundType == ASSUME TypeOK, NEW o \in Orders, RefundStep(o) PROVE TypeOK'
<1> USE DEF TypeOK, TailGoto, TailSteps
<1>1. CASE RefundOrder(o)
  <2>1. FirstCounter(status[o]) \in TailSteps
    BY DEF FirstCounter
  <2> QED
    BY <1>1, <2>1 DEF RefundOrder
<1>2. CASE DecrTakeCount(o)
  BY <1>2, CountersAssumption DEF DecrTakeCount, DecrGuarded, Value
<1>3. CASE RefundExists(o)
  <2>1. PICK at \in TailSteps : tail' = [tail EXCEPT ![o] = at]
    BY <1>3 DEF RefundExists
  <2> QED
    BY <1>3, <2>1 DEF RefundExists
<1>4. CASE RefundDecr(o)
  BY <1>4 DEF RefundDecr, Value
<1>5. CASE DecrTakeFails(o)
  BY <1>5 DEF DecrTakeFails
<1> QED
  BY <1>1, <1>2, <1>3, <1>4, <1>5 DEF RefundStep

LEMMA TypeStep == TypeOK /\ [Next]_vars => TypeOK'
<1> SUFFICES ASSUME TypeOK, [Next]_vars PROVE TypeOK'
  OBVIOUS
<1>1. CASE ActiveLost
  BY <1>1 DEF ActiveLost, TypeOK
<1>2. CASE TakeLost
  BY <1>2 DEF TakeLost, TypeOK
<1>3. CASE UNCHANGED vars
  BY <1>3 DEF vars, TypeOK, SettleState
<1>4. CASE ResendStep
  BY <1>4, Repeated DEF TypeOK, SettleState
<1> QED
  BY <1>1, <1>2, <1>3, <1>4, LockType, SettleType, RefundType DEF Next

\* What a step may do to the paid orders and to the settlements that are about
\* to commit: add to neither, begin one settlement below the limit, or turn
\* one settlement into one paid order.
LimitMove ==
  \/ PaidOrders' \subseteq PaidOrders /\ Committing' \subseteq Committing
  \/ PaidOrders' = PaidOrders /\ ~AtLimit(Cardinality(PaidOrders))
  \/ \E o \in Orders, c \in Committing :
       PaidOrders' = PaidOrders \union {o} /\ Committing' = Committing \ {c}

LEMMA LimitMoves == TypeOK /\ [Next]_vars => LimitMove
<1> SUFFICES ASSUME TypeOK, [Next]_vars PROVE LimitMove
  OBVIOUS
<1> USE DEF TypeOK, PaidOrders, Committing
<1>1. ASSUME UNCHANGED <<status, settling>> PROVE LimitMove
  BY <1>1 DEF LimitMove
<1>2. ASSUME NEW o \in Orders, LockStep(o) PROVE LimitMove
  <2>1. CASE InsertOrder(o)
    BY <2>1 DEF InsertOrder, LimitMove
  <2>2. CASE RollbackLock(o)
    BY <2>2 DEF RollbackLock, LimitMove
  <2> QED
    BY <1>1, <1>2, <2>1, <2>2
    DEF LockStep, GetActiveCount, CountActiveOrders, InitActiveCount, IncrActiveCount,
        IncrActiveFails, PaymentCreated, RollbackExists, RollbackDecr
<1>3. ASSUME NEW o \in Orders, RefundStep(o) PROVE LimitMove
  <2>1. CASE RefundOrder(o)
    BY <2>1 DEF RefundOrder, LimitMove
  <2> QED
    BY <1>1, <1>3, <2>1
    DEF RefundStep, DecrTakeCount, RefundExists, RefundDecr, DecrTakeFails
<1>4. ASSUME NEW c \in Settlers, SettleStep(c) PROVE LimitMove
  <2>1. ASSUME NEW o \in Orders, BeginSettle(c, o) PROVE LimitMove
    BY <2>1 DEF BeginSettle, RefusedAt, LimitMove
  <2>2. CASE SettleOrder(c)
    <3>1. settling[c].at = "commit" /\ settling[c].ord \in Orders
      BY <2>2 DEF SettleOrder, SettleState, Idle, Counting
    <3>2. PaidOrders' = PaidOrders \union {settling[c].ord}
      BY <2>2, <3>1 DEF SettleOrder
    <3>3. Committing' = Committing \ {c}
      BY <2>2 DEF SettleOrder, SettleGoto, Counting
    <3> QED
      BY <3>1, <3>2, <3>3 DEF LimitMove
  <2>3. CASE IncrTakeCount(c) \/ SettleStops(c)
    BY <2>3 DEF IncrTakeCount, SettleStops, SettleGoto, Idle, LimitMove
  <2> QED
    BY <1>4, <2>1, <2>2, <2>3 DEF SettleStep
<1>5. CASE ResendStep
  BY <1>1, <1>5, Repeated
<1> QED
  BY <1>1, <1>2, <1>3, <1>4, <1>5 DEF Next, ActiveLost, TakeLost, vars

LEMMA PaidOnTheWayStep == TypeOK /\ PaidOnTheWay /\ [Next]_vars => PaidOnTheWay'
<1> DEFINE paid == Cardinality(PaidOrders)
           near == Cardinality(Committing)
           all  == Cardinality(Settlers)
<1> SUFFICES ASSUME TypeOK, PaidOnTheWay, [Next]_vars, Limit > 0
             PROVE  paid' + near' <= Limit + all - 1
  BY DEF PaidOnTheWay
<1>1. paid \in Nat /\ near \in Nat /\ near <= all /\ all \in Nat /\ Limit \in Nat
  BY PaidAndCommittingFinite, CountersAssumption
<1>2. IsFiniteSet(PaidOrders) /\ IsFiniteSet(Committing)
  BY PaidAndCommittingFinite
<1>3. paid + near <= Limit + all - 1
  BY DEF PaidOnTheWay
<1>4. near' \in Nat /\ near' <= all
  <2>1. Committing' \subseteq Settlers
    BY DEF Committing
  <2> QED
    BY <2>1, CountersAssumption, FS_Subset, FS_CardinalityType
<1>5. CASE PaidOrders' \subseteq PaidOrders /\ Committing' \subseteq Committing
  <2>1. paid' <= paid /\ near' <= near /\ paid' \in Nat
    BY <1>2, <1>5, FS_Subset, FS_CardinalityType
  <2> QED
    BY <1>1, <1>3, <1>4, <2>1
<1>6. CASE PaidOrders' = PaidOrders /\ ~AtLimit(Cardinality(PaidOrders))
  <2>1. paid' = paid /\ paid <= Limit - 1
    BY <1>1, <1>6 DEF AtLimit
  <2> QED
    BY <1>1, <1>4, <2>1
<1>7. ASSUME NEW o \in Orders, NEW c \in Committing,
             PaidOrders' = PaidOrders \union {o}, Committing' = Committing \ {c}
      PROVE  paid' + near' <= Limit + all - 1
  <2>1. paid' = paid \/ paid' = paid + 1
    <3>1. CASE o \in PaidOrders
      <4>1. PaidOrders' = PaidOrders
        BY <1>7, <3>1
      <4> QED
        BY <4>1
    <3>2. CASE o \notin PaidOrders
      BY <1>2, <1>7, <3>2, FS_AddElement
    <3> QED
      BY <3>1, <3>2
  <2>2. near' = near - 1
    BY <1>2, <1>7, FS_RemoveElement
  <2> QED
    BY <1>1, <1>3, <2>1, <2>2
<1> QED
  BY <1>5, <1>6, <1>7, LimitMoves DEF LimitMove

-----------------------------------------------------------------------------
(* The counters in Redis.                                                  *)

\* A key that is there goes only with a loss, which is remembered.
LEMMA KeyStays ==
  ASSUME TypeOK, [Next]_vars
  PROVE  /\ disturbed \subseteq disturbed' /\ (doubled => doubled')
         /\ active' = NoKey /\ "active" \notin disturbed' => active = NoKey
<1> USE DEF TypeOK
<1>1. ASSUME NEW o \in Orders, LockStep(o)
      PROVE  /\ disturbed \subseteq disturbed' /\ (doubled => doubled')
             /\ active' = NoKey => active = NoKey
  <2>1. CASE IncrActiveCount(o) \/ RollbackDecr(o)
    BY <2>1, CountersAssumption DEF IncrActiveCount, RollbackDecr, Value
  <2>2. CASE InitActiveCount(o)
    BY <2>2, CountersAssumption DEF InitActiveCount, Seeded
  <2> QED
    BY <1>1, <2>1, <2>2 DEF LockStep, GetActiveCount, CountActiveOrders, InsertOrder,
      IncrActiveFails, PaymentCreated, RollbackLock, RollbackExists
<1>2. ASSUME NEW o \in Orders, RefundStep(o)
      PROVE  /\ disturbed \subseteq disturbed' /\ (doubled => doubled')
             /\ active' = NoKey => active = NoKey
  BY <1>2, CountersAssumption DEF RefundStep, RefundOrder, DecrTakeCount, RefundExists,
    RefundDecr, DecrTakeFails, Value
<1>3. ASSUME NEW c \in Settlers, SettleStep(c)
      PROVE  disturbed \subseteq disturbed' /\ (doubled => doubled') /\ active' = active
  BY <1>3 DEF SettleStep, BeginSettle, SettleOrder, IncrTakeCount, SettleStops
<1>4. CASE ResendStep
  BY <1>4, Repeated
<1> QED
  BY <1>1, <1>2, <1>3, <1>4 DEF Next, ActiveLost, TakeLost, vars

\* What a settlement does to an order.
LEMMA SettledOrder ==
  ASSUME TypeOK, NEW c \in Settlers, SettleStep(c)
  PROVE  /\ UNCHANGED <<locking, tail, active, seed, doubled>>
         /\ status' = status \/ (\E o \in Orders : /\ status[o] = "Locked"
                                                   /\ status' = [status EXCEPT ![o] = "Paid"])
<1>1. CASE SettleOrder(c)
  <2>1. settling[c].ord \in Orders
    BY <1>1 DEF SettleOrder, TypeOK, SettleState, Idle, Counting
  <2> QED
    BY <1>1, <2>1 DEF SettleOrder
<1> QED
  BY <1>1 DEF SettleStep, BeginSettle, IncrTakeCount, SettleStops

LEMMA TogetherStep ==
  ASSUME TypeOK, [Next]_vars, NEW x \in Orders, Together(x)
  PROVE  Together(x)'
<1> USE DEF TypeOK, LockGoto, TailGoto, Together
<1>1. /\ disturbed \subseteq disturbed'
      /\ active' = NoKey /\ "active" \notin disturbed' => active = NoKey
  BY KeyStays
<1>2. ASSUME NEW o \in Orders, LockStep(o) PROVE Together(x)'
  <2>1. CASE GetActiveCount(o) \/ CountActiveOrders(o) \/ InitActiveCount(o) \/ InsertOrder(o)
    BY <1>1, <2>1, SMTT(30) DEF GetActiveCount, CountActiveOrders, InitActiveCount, InsertOrder
  <2>2. CASE IncrActiveCount(o) \/ IncrActiveFails(o) \/ PaymentCreated(o)
    BY <1>1, <2>2, CountersAssumption, SMTT(30) DEF IncrActiveCount, IncrActiveFails,
      PaymentCreated, Value
  <2>3. CASE RollbackLock(o)
    BY <1>1, <2>3, SMTT(30) DEF RollbackLock
  <2>4. CASE RollbackExists(o) \/ RollbackDecr(o)
    BY <1>1, <2>4, SMTT(30) DEF RollbackExists, RollbackDecr
  <2> QED
    BY <1>2, <2>1, <2>2, <2>3, <2>4 DEF LockStep
<1>3. ASSUME NEW o \in Orders, RefundStep(o) PROVE Together(x)'
  <2>1. CASE RefundOrder(o)
    BY <1>1, <2>1, SMTT(30) DEF RefundOrder, FirstCounter
  <2>2. CASE DecrTakeCount(o) \/ RefundExists(o) \/ RefundDecr(o) \/ DecrTakeFails(o)
    BY <1>1, <2>2, SMTT(30) DEF DecrTakeCount, RefundExists, RefundDecr, DecrTakeFails
  <2> QED
    BY <1>3, <2>1, <2>2 DEF RefundStep
<1>4. ASSUME NEW c \in Settlers, SettleStep(c) PROVE Together(x)'
  BY <1>1, <1>4, SettledOrder
<1>5. CASE ActiveLost \/ TakeLost \/ UNCHANGED vars
  BY <1>1, <1>5 DEF ActiveLost, TakeLost, vars
<1>6. CASE ResendStep
  BY <1>1, <1>6, Repeated
<1> QED
  BY <1>2, <1>3, <1>4, <1>5, <1>6 DEF Next

LEMMA CountedFinite ==
  /\ IsFiniteSet(ActiveOrders) /\ Cardinality(ActiveOrders) \in Nat
  /\ IsFiniteSet(NotTakenBack) /\ Cardinality(NotTakenBack) \in Nat
  /\ IsFiniteSet(Uncounted) /\ Cardinality(Uncounted) \in Nat
  /\ IsFiniteSet(Countable) /\ Cardinality(Countable) \in Nat
  /\ IsFiniteSet(TakenEarly) /\ Cardinality(TakenEarly) \in Nat
<1>1. /\ ActiveOrders \in SUBSET Orders /\ NotTakenBack \in SUBSET Orders
      /\ Uncounted \in SUBSET Orders /\ Countable \in SUBSET Orders
      /\ TakenEarly \in SUBSET Orders
  BY DEF ActiveOrders, NotTakenBack, Uncounted, Countable, TakenEarly
<1> QED
  BY <1>1, CountersAssumption, FS_Subset, FS_CardinalityType

LEMMA OneMore ==
  ASSUME NEW S, IsFiniteSet(S), NEW o
  PROVE  /\ o \notin S => Cardinality(S \union {o}) = Cardinality(S) + 1
         /\ Cardinality(S \union {o}) <= Cardinality(S) + 1
         /\ Cardinality(S \union {o}) \in Nat
<1>1. Cardinality(S) \in Nat
  BY FS_CardinalityType
<1> QED
  BY <1>1, FS_AddElement

LEMMA OneLess ==
  ASSUME NEW S, IsFiniteSet(S), NEW o
  PROVE  /\ o \in S => Cardinality(S \ {o}) = Cardinality(S) - 1
         /\ Cardinality(S \ {o}) >= Cardinality(S) - 1
         /\ Cardinality(S \ {o}) \in Nat
<1>1. Cardinality(S) \in Nat /\ Cardinality(S \ {o}) \in Nat
  BY FS_CardinalityType, FS_RemoveElement
<1> QED
  BY <1>1, FS_RemoveElement

\* What a step may do to the active counter and to the orders it must cover.
CoverMove(o) ==
  \/ /\ Value(active)' >= Value(active) /\ Value(active)' \in Int
     /\ ActiveOrders' = ActiveOrders /\ Uncounted' = Uncounted
     /\ NotTakenBack' = NotTakenBack \/ NotTakenBack' = NotTakenBack \ {o}
  \/ /\ active' = active /\ NotTakenBack' = NotTakenBack
     /\ ActiveOrders' = ActiveOrders \union {o}
     /\ o \notin Uncounted /\ Uncounted' = Uncounted \union {o}
  \/ /\ Value(active)' = Value(active) + 1
     /\ ActiveOrders' = ActiveOrders /\ NotTakenBack' = NotTakenBack
     /\ Uncounted' = Uncounted \ {o}
  \/ /\ active' = active /\ Uncounted' = Uncounted
     /\ o \in ActiveOrders /\ ActiveOrders' = ActiveOrders \ {o}
     /\ NotTakenBack' = NotTakenBack \union {o}
  \/ /\ Value(active)' = Value(active) - 1
     /\ ActiveOrders' = ActiveOrders /\ Uncounted' = Uncounted
     /\ o \in NotTakenBack /\ NotTakenBack' = NotTakenBack \ {o}

LEMMA CoverCounted ==
  ASSUME TypeOK, ActiveCovers, "active" \notin disturbed, NEW o, CoverMove(o)
  PROVE  ActiveCovers'
<1> DEFINE v == Value(active)
           A == ActiveOrders
           N == NotTakenBack
           U == Uncounted
           w == Value(active)'
           B == ActiveOrders'
           M == NotTakenBack'
           V == Uncounted'
<1>1. /\ IsFiniteSet(A) /\ Cardinality(A) \in Nat
      /\ IsFiniteSet(N) /\ Cardinality(N) \in Nat
      /\ IsFiniteSet(U) /\ Cardinality(U) \in Nat
  BY CountedFinite
<1>2. Cardinality(A) + Cardinality(N) <= v + Cardinality(U)
  BY DEF ActiveCovers
<1>3. v \in Int
  BY DEF TypeOK, Value
<1>4. active' = active => w = v
  BY DEF Value
<1>5. \/ w >= v /\ w \in Int /\ B = A /\ V = U /\ (M = N \/ M = N \ {o})
      \/ w = v /\ M = N /\ B = A \union {o} /\ o \notin U /\ V = U \union {o}
      \/ w = v + 1 /\ B = A /\ M = N /\ V = U \ {o}
      \/ w = v /\ V = U /\ o \in A /\ B = A \ {o} /\ M = N \union {o}
      \/ w = v - 1 /\ B = A /\ V = U /\ o \in N /\ M = N \ {o}
  BY <1>4 DEF CoverMove
<1> SUFFICES Cardinality(B) + Cardinality(M) <= w + Cardinality(V)
  BY DEF ActiveCovers
<1> HIDE DEF v, A, N, U, w, B, M, V
<1>6. /\ Cardinality(U \ {o}) >= Cardinality(U) - 1 /\ Cardinality(U \ {o}) \in Nat
      /\ o \notin U => Cardinality(U \union {o}) = Cardinality(U) + 1
      /\ o \in A => Cardinality(A \ {o}) = Cardinality(A) - 1
      /\ Cardinality(A \union {o}) <= Cardinality(A) + 1 /\ Cardinality(A \union {o}) \in Nat
      /\ o \in N => Cardinality(N \ {o}) = Cardinality(N) - 1
      /\ Cardinality(N \union {o}) <= Cardinality(N) + 1 /\ Cardinality(N \union {o}) \in Nat
  BY <1>1, OneMore, OneLess
<1>7. CASE w >= v /\ w \in Int /\ B = A /\ V = U /\ (M = N \/ M = N \ {o})
  <2>1. Cardinality(M) <= Cardinality(N) /\ Cardinality(M) \in Nat
    <3>1. CASE M = N
      BY <1>1, <3>1
    <3>2. CASE M = N \ {o}
      <4>1. M \in SUBSET N
        BY <3>2
      <4> QED
        BY <1>1, <4>1, FS_Subset, FS_CardinalityType
    <3> QED
      BY <1>7, <3>1, <3>2
  <2> QED
    BY <1>1, <1>2, <1>3, <1>7, <2>1
<1>8. CASE w = v /\ M = N /\ B = A \union {o} /\ o \notin U /\ V = U \union {o}
  BY <1>1, <1>2, <1>3, <1>6, <1>8
<1>9. CASE w = v + 1 /\ B = A /\ M = N /\ V = U \ {o}
  BY <1>1, <1>2, <1>3, <1>6, <1>9
<1>10. CASE w = v /\ V = U /\ o \in A /\ B = A \ {o} /\ M = N \union {o}
  BY <1>1, <1>2, <1>3, <1>6, <1>10
<1>11. CASE w = v - 1 /\ B = A /\ V = U /\ o \in N /\ M = N \ {o}
  BY <1>1, <1>2, <1>3, <1>6, <1>11
<1> QED
  BY <1>5, <1>7, <1>8, <1>9, <1>10, <1>11

LEMMA CoverMoves ==
  ASSUME TypeOK, [Next]_vars, \A x \in Orders : Together(x), "active" \notin disturbed'
  PROVE  \E o : CoverMove(o)
<1> USE DEF TypeOK, LockGoto, TailGoto
<1>a. "active" \notin disturbed
  BY KeyStays
<1>b. Value(active) \in Int
  BY DEF Value
<1>0. ASSUME UNCHANGED <<active, ActiveOrders, NotTakenBack, Uncounted>>
      PROVE  \E o : CoverMove(o)
  BY <1>0, <1>b DEF CoverMove, Value
<1>1. ASSUME NEW o \in Orders, LockStep(o) PROVE \E p : CoverMove(p)
  <2>1. CASE GetActiveCount(o) \/ CountActiveOrders(o) \/ PaymentCreated(o)
    <3>1. UNCHANGED <<active, ActiveOrders, NotTakenBack, Uncounted>>
      BY <2>1 DEF GetActiveCount, CountActiveOrders, PaymentCreated, ActiveOrders, NotTakenBack,
        Uncounted
    <3> QED
      BY <1>0, <3>1
  <2>2. CASE InitActiveCount(o)
    <3>1. UNCHANGED <<ActiveOrders, NotTakenBack, Uncounted>>
      BY <2>2 DEF InitActiveCount, ActiveOrders, NotTakenBack, Uncounted
    <3>2. Value(active)' >= Value(active) /\ Value(active)' \in Int
      BY <2>2, CountersAssumption DEF InitActiveCount, Seeded, Value
    <3> QED
      BY <3>1, <3>2 DEF CoverMove
  <2>3. CASE InsertOrder(o)
    <3>1. /\ ActiveOrders' = ActiveOrders \union {o} /\ NotTakenBack' = NotTakenBack
          /\ Uncounted' = Uncounted \union {o} /\ o \notin Uncounted
      BY <2>3 DEF InsertOrder, ActiveOrders, NotTakenBack, Uncounted
    <3>2. active' = active
      BY <2>3 DEF InsertOrder
    <3> QED
      BY <3>1, <3>2 DEF CoverMove
  <2>4. CASE IncrActiveCount(o)
    <3>1. ActiveOrders' = ActiveOrders /\ NotTakenBack' = NotTakenBack
      BY <2>4 DEF IncrActiveCount, ActiveOrders, NotTakenBack
    <3>2. Uncounted' = Uncounted \ {o}
      BY <2>4 DEF IncrActiveCount, Uncounted
    <3>3. Value(active)' = Value(active) + 1
      BY <1>b, <2>4, CountersAssumption DEF IncrActiveCount, Value
    <3> QED
      BY <3>1, <3>2, <3>3 DEF CoverMove
  <2>5. ~IncrActiveFails(o)
    BY DEF IncrActiveFails
  <2>6. CASE RollbackLock(o)
    <3>1. status' = [status EXCEPT ![o] = "deleted"] /\ status[o] \in {"Locked", "Paid"}
      BY <2>6 DEF RollbackLock, Together
    <3>2. ActiveOrders' = ActiveOrders \ {o} /\ o \in ActiveOrders
      BY <3>1 DEF ActiveOrders
    <3>3. NotTakenBack' = NotTakenBack \union {o} /\ Uncounted' = Uncounted
      BY <2>6 DEF RollbackLock, NotTakenBack, Uncounted
    <3>4. active' = active
      BY <2>6 DEF RollbackLock
    <3> QED
      BY <3>2, <3>3, <3>4 DEF CoverMove
  <2>7. CASE RollbackExists(o)
    <3>1. ActiveOrders' = ActiveOrders /\ Uncounted' = Uncounted /\ active' = active
      BY <2>7 DEF RollbackExists, ActiveOrders, Uncounted
    <3>2. NotTakenBack' = NotTakenBack \/ NotTakenBack' = NotTakenBack \ {o}
      BY <1>a, <2>7 DEF RollbackExists, NotTakenBack, Together
    <3> QED
      BY <1>b, <3>1, <3>2 DEF CoverMove, Value
  <2>8. CASE RollbackDecr(o)
    <3>1. ActiveOrders' = ActiveOrders /\ Uncounted' = Uncounted
      BY <2>8 DEF RollbackDecr, ActiveOrders, Uncounted
    <3>2. NotTakenBack' = NotTakenBack \ {o} /\ o \in NotTakenBack
      BY <1>a, <2>8 DEF RollbackDecr, NotTakenBack, Together
    <3>3. Value(active)' = Value(active) - 1
      BY <1>b, <2>8, CountersAssumption DEF RollbackDecr, Value
    <3> QED
      BY <3>1, <3>2, <3>3 DEF CoverMove
  <2> QED
    BY <1>1, <2>1, <2>2, <2>3, <2>4, <2>5, <2>6, <2>7, <2>8 DEF LockStep
<1>2. ASSUME NEW o \in Orders, RefundStep(o) PROVE \E p : CoverMove(p)
  <2>1. CASE RefundOrder(o)
    <3>1. ActiveOrders' = ActiveOrders \ {o} /\ o \in ActiveOrders
      BY <2>1 DEF RefundOrder, ActiveOrders
    <3>2. NotTakenBack' = NotTakenBack \union {o} /\ Uncounted' = Uncounted
      BY <2>1 DEF RefundOrder, FirstCounter, NotTakenBack, Uncounted
    <3>3. active' = active
      BY <2>1 DEF RefundOrder
    <3> QED
      BY <3>1, <3>2, <3>3 DEF CoverMove
  <2>2. CASE DecrTakeCount(o) \/ DecrTakeFails(o)
    <3>1. UNCHANGED <<active, ActiveOrders, NotTakenBack, Uncounted>>
      BY <2>2 DEF DecrTakeCount, DecrTakeFails, ActiveOrders, NotTakenBack, Uncounted
    <3> QED
      BY <1>0, <3>1
  <2>3. CASE RefundExists(o)
    <3>1. ActiveOrders' = ActiveOrders /\ Uncounted' = Uncounted /\ active' = active
      BY <2>3 DEF RefundExists, ActiveOrders, Uncounted
    <3>2. NotTakenBack' = NotTakenBack \/ NotTakenBack' = NotTakenBack \ {o}
      BY <1>a, <2>3 DEF RefundExists, NotTakenBack, Together
    <3> QED
      BY <1>b, <3>1, <3>2 DEF CoverMove, Value
  <2>4. CASE RefundDecr(o)
    <3>1. ActiveOrders' = ActiveOrders /\ Uncounted' = Uncounted
      BY <2>4 DEF RefundDecr, ActiveOrders, Uncounted
    <3>2. NotTakenBack' = NotTakenBack \ {o} /\ o \in NotTakenBack
      BY <1>a, <2>4 DEF RefundDecr, NotTakenBack, Together
    <3>3. Value(active)' = Value(active) - 1
      BY <1>b, <2>4, CountersAssumption DEF RefundDecr, Value
    <3> QED
      BY <3>1, <3>2, <3>3 DEF CoverMove
  <2> QED
    BY <1>2, <2>1, <2>2, <2>3, <2>4 DEF RefundStep
<1>3. ASSUME NEW c \in Settlers, SettleStep(c) PROVE \E p : CoverMove(p)
  <2>1. UNCHANGED <<active, ActiveOrders, NotTakenBack, Uncounted>>
    BY <1>3, SettledOrder DEF ActiveOrders, NotTakenBack, Uncounted
  <2> QED
    BY <1>0, <2>1
<1>4. CASE TakeLost \/ UNCHANGED vars
  <2>1. UNCHANGED <<active, ActiveOrders, NotTakenBack, Uncounted>>
    BY <1>4 DEF TakeLost, vars, ActiveOrders, NotTakenBack, Uncounted
  <2> QED
    BY <1>0, <2>1
<1>5. ~ActiveLost
  BY DEF ActiveLost
<1>6. CASE ResendStep
  <2>1. UNCHANGED <<ActiveOrders, NotTakenBack, Uncounted>>
    BY <1>6, Repeated DEF ActiveOrders, NotTakenBack, Uncounted
  <2>2. CASE active' = active
    BY <1>0, <2>1, <2>2
  <2>3. CASE active' = Value(active) + 1
    <3>1. Value(active)' = Value(active) + 1
      BY <1>b, <2>3, CountersAssumption DEF Value
    <3> QED
      BY <1>b, <2>1, <3>1 DEF CoverMove
  <2> QED
    BY <1>6, <2>2, <2>3, Repeated
<1> QED
  BY <1>1, <1>2, <1>3, <1>4, <1>5, <1>6 DEF Next

LEMMA ActiveCoversStep ==
  ASSUME TypeOK, [Next]_vars, \A x \in Orders : Together(x), ActiveCovers
  PROVE  ActiveCovers'
<1> SUFFICES ASSUME "active" \notin disturbed' PROVE ActiveCovers'
  BY DEF ActiveCovers
<1> QED
  BY KeyStays, CoverMoves, CoverCounted

\* What a step may do to the active counter and to the orders it may count.
ExcessMove(o) ==
  \/ Value(active)' = Value(active) /\ Countable' = Countable /\ TakenEarly' = TakenEarly
  \/ /\ Value(active)' = Value(active) + 1
     /\ \/ /\ o \notin Countable /\ Countable' = Countable \union {o}
           /\ TakenEarly' = TakenEarly
        \/ Countable' = Countable /\ o \in TakenEarly /\ TakenEarly' = TakenEarly \ {o}
  \/ /\ Value(active)' = Value(active) - 1
     /\ \/ Countable' = Countable \ {o} /\ TakenEarly' = TakenEarly
        \/ Countable' = Countable /\ TakenEarly' = TakenEarly \union {o}

LEMMA ExcessCounted ==
  ASSUME TypeOK, ActiveCovered, "active" \notin disturbed, ~doubled, NEW o, ExcessMove(o)
  PROVE  ActiveCovered'
<1> DEFINE v == Value(active)
           K == Countable
           E == TakenEarly
           w == Value(active)'
           L == Countable'
           F == TakenEarly'
<1>1. /\ IsFiniteSet(K) /\ Cardinality(K) \in Nat
      /\ IsFiniteSet(E) /\ Cardinality(E) \in Nat
  BY CountedFinite
<1>2. v + Cardinality(E) <= Cardinality(K) /\ v \in Int
  BY DEF ActiveCovered, TypeOK, Value
<1>3. \/ w = v /\ L = K /\ F = E
      \/ w = v + 1 /\ o \notin K /\ L = K \union {o} /\ F = E
      \/ w = v + 1 /\ L = K /\ o \in E /\ F = E \ {o}
      \/ w = v - 1 /\ L = K \ {o} /\ F = E
      \/ w = v - 1 /\ L = K /\ F = E \union {o}
  BY DEF ExcessMove
<1> SUFFICES w + Cardinality(F) <= Cardinality(L)
  BY DEF ActiveCovered
<1> HIDE DEF v, K, E, w, L, F
<1>4. /\ o \notin K => Cardinality(K \union {o}) = Cardinality(K) + 1
      /\ Cardinality(K \ {o}) >= Cardinality(K) - 1 /\ Cardinality(K \ {o}) \in Nat
      /\ o \in E => Cardinality(E \ {o}) = Cardinality(E) - 1
      /\ Cardinality(E \union {o}) <= Cardinality(E) + 1 /\ Cardinality(E \union {o}) \in Nat
  BY <1>1, OneMore, OneLess
<1>5. CASE w = v /\ L = K /\ F = E
  BY <1>2, <1>5
<1>6. CASE w = v + 1 /\ o \notin K /\ L = K \union {o} /\ F = E
  BY <1>1, <1>2, <1>4, <1>6
<1>7. CASE w = v + 1 /\ L = K /\ o \in E /\ F = E \ {o}
  BY <1>1, <1>2, <1>4, <1>7
<1>8. CASE w = v - 1 /\ L = K \ {o} /\ F = E
  BY <1>1, <1>2, <1>4, <1>8
<1>9. CASE w = v - 1 /\ L = K /\ F = E \union {o}
  BY <1>1, <1>2, <1>4, <1>9
<1> QED
  BY <1>3, <1>5, <1>6, <1>7, <1>8, <1>9

\* A counter that is seeded starts from nothing: no order is counted yet.
LEMMA ExcessSeeded ==
  ASSUME TypeOK, ActiveCovered, \A x \in Orders : Together(x), "active" \notin disturbed,
         ~doubled', NEW o \in Orders, InitActiveCount(o), active' # active
  PROVE  ActiveCovered'
<1>1. active = NoKey /\ active' = seed[o] /\ seed[o] \in Nat
  BY DEF InitActiveCount, Seeded, TypeOK
<1>2. ~doubled /\ seed[o] <= Cardinality(Counted)
  <2>1. ~doubled /\ ~(seed[o] > Cardinality(Counted))
    BY DEF InitActiveCount
  <2>2. Counted = {}
    BY <1>1 DEF Counted, ActiveOrders, Together
  <2> QED
    BY <1>1, <2>1, <2>2, FS_EmptySet
<1>3. Counted = {} /\ Countable = {}
  BY <1>1 DEF Counted, Countable, ActiveOrders, NotTakenBack, Together
<1>4. Cardinality(Counted) = 0 /\ Cardinality(Countable) = 0
  BY <1>3, FS_EmptySet
<1>5. Cardinality(TakenEarly) = 0
  <2>1. Value(active) = 0
    BY <1>1 DEF Value
  <2> QED
    BY <1>2, <1>4, <2>1, CountedFinite DEF ActiveCovered
<1>6. Countable' = Countable /\ TakenEarly' = TakenEarly
  BY DEF InitActiveCount, LockGoto, Countable, TakenEarly, ActiveOrders, NotTakenBack, Uncounted,
    TypeOK
<1>7. Value(active)' = 0
  BY <1>1, <1>2, <1>4 DEF Value
<1> QED
  BY <1>4, <1>5, <1>6, <1>7 DEF ActiveCovered

LEMMA ExcessMoves ==
  ASSUME TypeOK, [Next]_vars, \A x \in Orders : Together(x), "active" \notin disturbed', ~doubled',
         \A x \in Orders : InitActiveCount(x) => active' = active
  PROVE  \E o : ExcessMove(o)
<1> USE DEF TypeOK, LockGoto, TailGoto
<1>a. "active" \notin disturbed
  BY KeyStays
<1>b. Value(active) \in Int
  BY DEF Value
<1>0. ASSUME UNCHANGED <<active, Countable, TakenEarly>> PROVE \E o : ExcessMove(o)
  BY <1>0 DEF ExcessMove, Value
<1> DEFINE Sets == UNCHANGED <<active, Countable, TakenEarly>>
<1>1. ASSUME NEW o \in Orders, LockStep(o) PROVE \E p : ExcessMove(p)
  <2> USE DEF Countable, TakenEarly, ActiveOrders, NotTakenBack, Uncounted
  <2>1. CASE GetActiveCount(o) \/ CountActiveOrders(o) \/ PaymentCreated(o)
    <3>1. Sets
      BY <2>1 DEF GetActiveCount, CountActiveOrders, PaymentCreated
    <3> QED
      BY <1>0, <3>1
  <2>2. CASE InitActiveCount(o)
    <3>1. Sets
      BY <2>2 DEF InitActiveCount
    <3> QED
      BY <1>0, <3>1
  <2>3. CASE InsertOrder(o)
    <3>1. status[o] = "none" /\ tail[o] = "no"
      BY <2>3 DEF InsertOrder, Together
    <3>2. Sets
      BY <2>3, <3>1 DEF InsertOrder
    <3> QED
      BY <1>0, <3>2
  <2>4. CASE IncrActiveCount(o)
    <3>1. status[o] \in {"Locked", "Paid", "Refunded"}
      BY <2>4 DEF IncrActiveCount, Together
    <3>2. Value(active)' = Value(active) + 1
      BY <1>b, <2>4, CountersAssumption DEF IncrActiveCount, Value
    <3>3. CASE status[o] = "Refunded" /\ tail[o] = "no"
      <4>1. Countable' = Countable /\ o \in TakenEarly /\ TakenEarly' = TakenEarly \ {o}
        BY <2>4, <3>3 DEF IncrActiveCount
      <4> QED
        BY <3>2, <4>1 DEF ExcessMove
    <3>4. CASE status[o] \in {"Locked", "Paid"} \/ tail[o] # "no"
      <4>1. o \notin Countable /\ Countable' = Countable \union {o} /\ TakenEarly' = TakenEarly
        BY <2>4, <3>1, <3>4 DEF IncrActiveCount, Together
      <4> QED
        BY <3>2, <4>1 DEF ExcessMove
    <3> QED
      BY <3>1, <3>3, <3>4
  <2>5. ~IncrActiveFails(o)
    BY DEF IncrActiveFails
  <2>6. CASE RollbackLock(o)
    <3>1. status' = [status EXCEPT ![o] = "deleted"] /\ status[o] \in {"Locked", "Paid"}
      BY <2>6 DEF RollbackLock, Together
    <3>2. Sets
      BY <2>6, <3>1 DEF RollbackLock
    <3> QED
      BY <1>0, <3>2
  <2>7. CASE RollbackExists(o)
    <3>1. active # NoKey
      BY <1>a, <2>7 DEF RollbackExists, Together
    <3>2. Sets
      BY <2>7, <3>1 DEF RollbackExists
    <3> QED
      BY <1>0, <3>2
  <2>8. CASE RollbackDecr(o)
    <3>1. Countable' = Countable \ {o} /\ TakenEarly' = TakenEarly
      BY <1>a, <2>8 DEF RollbackDecr, Together
    <3>2. Value(active)' = Value(active) - 1
      BY <1>b, <2>8, CountersAssumption DEF RollbackDecr, Value
    <3> QED
      BY <3>1, <3>2 DEF ExcessMove
  <2> QED
    BY <1>1, <2>1, <2>2, <2>3, <2>4, <2>5, <2>6, <2>7, <2>8 DEF LockStep
<1>2. ASSUME NEW o \in Orders, RefundStep(o) PROVE \E p : ExcessMove(p)
  <2> USE DEF Countable, TakenEarly, ActiveOrders, NotTakenBack, Uncounted
  <2>1. CASE RefundOrder(o)
    <3>1. Sets
      BY <2>1 DEF RefundOrder, FirstCounter
    <3> QED
      BY <1>0, <3>1
  <2>2. CASE DecrTakeCount(o) \/ DecrTakeFails(o)
    <3>1. Sets
      BY <2>2 DEF DecrTakeCount, DecrTakeFails
    <3> QED
      BY <1>0, <3>1
  <2>3. CASE RefundExists(o)
    <3>1. active # NoKey
      BY <1>a, <2>3 DEF RefundExists, Together
    <3>2. Sets
      BY <2>3, <3>1 DEF RefundExists
    <3> QED
      BY <1>0, <3>2
  <2>4. CASE RefundDecr(o)
    <3>1. Value(active)' = Value(active) - 1
      BY <1>b, <2>4, CountersAssumption DEF RefundDecr, Value
    <3>2. CASE locking[o] = "incr"
      <4>1. Countable' = Countable /\ TakenEarly' = TakenEarly \union {o}
        BY <2>4, <3>2 DEF RefundDecr, Together
      <4> QED
        BY <3>1, <4>1 DEF ExcessMove
    <3>3. CASE locking[o] # "incr"
      <4>1. Countable' = Countable \ {o} /\ TakenEarly' = TakenEarly
        BY <1>a, <2>4, <3>3 DEF RefundDecr, Together
      <4> QED
        BY <3>1, <4>1 DEF ExcessMove
    <3> QED
      BY <3>2, <3>3
  <2> QED
    BY <1>2, <2>1, <2>2, <2>3, <2>4 DEF RefundStep
<1>3. ASSUME NEW c \in Settlers, SettleStep(c) PROVE \E p : ExcessMove(p)
  <2>1. Sets
    BY <1>3, SettledOrder DEF Countable, TakenEarly, ActiveOrders, NotTakenBack, Uncounted
  <2> QED
    BY <1>0, <2>1
<1>4. CASE TakeLost \/ UNCHANGED vars
  <2>1. Sets
    BY <1>4 DEF TakeLost, vars, Countable, TakenEarly, ActiveOrders, NotTakenBack, Uncounted
  <2> QED
    BY <1>0, <2>1
<1>5. ~ActiveLost
  BY DEF ActiveLost
<1>6. CASE ResendStep
  <2>1. Sets
    BY <1>6, Repeated DEF Countable, TakenEarly, ActiveOrders, NotTakenBack, Uncounted
  <2> QED
    BY <1>0, <2>1
<1> QED
  BY <1>1, <1>2, <1>3, <1>4, <1>5, <1>6 DEF Next

LEMMA ActiveCoveredStep ==
  ASSUME TypeOK, [Next]_vars, \A x \in Orders : Together(x), ActiveCovered
  PROVE  ActiveCovered'
<1> SUFFICES ASSUME "active" \notin disturbed', ~doubled' PROVE ActiveCovered'
  BY DEF ActiveCovered
<1>1. "active" \notin disturbed /\ ~doubled
  BY KeyStays
<1>2. CASE \E o \in Orders : InitActiveCount(o) /\ active' # active
  BY <1>1, <1>2, ExcessSeeded
<1>3. CASE \A o \in Orders : InitActiveCount(o) => active' = active
  BY <1>1, <1>3, ExcessMoves, ExcessCounted
<1> QED
  BY <1>2, <1>3

\* What a step may do to the take counter and to the orders it must cover.
TakeMove(o, c) ==
  \/ /\ Value(take)' >= Value(take) /\ Value(take)' \in Int /\ PaidOrders' \subseteq PaidOrders
     /\ TakenBackNext' = TakenBackNext /\ CountingCalls' = CountingCalls
  \/ /\ take' = take /\ PaidOrders' = PaidOrders \union {o} /\ TakenBackNext' = TakenBackNext
     /\ c \notin CountingCalls /\ CountingCalls' = CountingCalls \union {c}
  \/ /\ Value(take)' = Value(take) + 1 /\ PaidOrders' = PaidOrders
     /\ TakenBackNext' = TakenBackNext /\ CountingCalls' = CountingCalls \ {c}
  \/ /\ take' = take /\ CountingCalls' = CountingCalls
     /\ o \in PaidOrders /\ PaidOrders' = PaidOrders \ {o}
     /\ TakenBackNext' = TakenBackNext \union {o}
  \/ /\ Value(take)' \in Int /\ Value(take)' >= Value(take) - 1
     /\ PaidOrders' = PaidOrders /\ CountingCalls' = CountingCalls
     /\ o \in TakenBackNext /\ TakenBackNext' = TakenBackNext \ {o}

LEMMA TakeFinite ==
  /\ IsFiniteSet(PaidOrders) /\ Cardinality(PaidOrders) \in Nat
  /\ IsFiniteSet(TakenBackNext) /\ Cardinality(TakenBackNext) \in Nat
  /\ IsFiniteSet(CountingCalls) /\ Cardinality(CountingCalls) \in Nat
<1>1. /\ PaidOrders \in SUBSET Orders /\ TakenBackNext \in SUBSET Orders
      /\ CountingCalls \in SUBSET Settlers
  BY DEF PaidOrders, TakenBackNext, CountingCalls
<1> QED
  BY <1>1, CountersAssumption, FS_Subset, FS_CardinalityType

LEMMA TakeCounted ==
  ASSUME TypeOK, TakeCovers, "take" \notin disturbed, NEW o, NEW c, TakeMove(o, c)
  PROVE  TakeCovers'
<1> DEFINE v == Value(take)
           P == PaidOrders
           T == TakenBackNext
           C == CountingCalls
           w == Value(take)'
           Q == PaidOrders'
           S == TakenBackNext'
           D == CountingCalls'
<1>1. /\ IsFiniteSet(P) /\ Cardinality(P) \in Nat
      /\ IsFiniteSet(T) /\ Cardinality(T) \in Nat
      /\ IsFiniteSet(C) /\ Cardinality(C) \in Nat
  BY TakeFinite
<1>2. Cardinality(P) + Cardinality(T) <= v + Cardinality(C)
  BY DEF TakeCovers
<1>3. v \in Int
  BY DEF TypeOK, Value
<1>4. take' = take => w = v
  BY DEF Value
<1>5. \/ w >= v /\ w \in Int /\ Q \subseteq P /\ S = T /\ D = C
      \/ w = v /\ Q = P \union {o} /\ S = T /\ c \notin C /\ D = C \union {c}
      \/ w = v + 1 /\ Q = P /\ S = T /\ D = C \ {c}
      \/ w = v /\ D = C /\ o \in P /\ Q = P \ {o} /\ S = T \union {o}
      \/ w \in Int /\ w >= v - 1 /\ Q = P /\ D = C /\ o \in T /\ S = T \ {o}
  BY <1>4 DEF TakeMove
<1> SUFFICES Cardinality(Q) + Cardinality(S) <= w + Cardinality(D)
  BY DEF TakeCovers
<1> HIDE DEF v, P, T, C, w, Q, S, D
<1>6. /\ c \notin C => Cardinality(C \union {c}) = Cardinality(C) + 1
      /\ Cardinality(C \ {c}) >= Cardinality(C) - 1 /\ Cardinality(C \ {c}) \in Nat
      /\ o \in P => Cardinality(P \ {o}) = Cardinality(P) - 1
      /\ Cardinality(P \union {o}) <= Cardinality(P) + 1 /\ Cardinality(P \union {o}) \in Nat
      /\ o \in T => Cardinality(T \ {o}) = Cardinality(T) - 1
      /\ Cardinality(T \union {o}) <= Cardinality(T) + 1 /\ Cardinality(T \union {o}) \in Nat
  BY <1>1, OneMore, OneLess
<1>7. CASE w >= v /\ w \in Int /\ Q \subseteq P /\ S = T /\ D = C
  <2>1. Cardinality(Q) <= Cardinality(P) /\ Cardinality(Q) \in Nat
    BY <1>1, <1>7, FS_Subset, FS_CardinalityType
  <2> QED
    BY <1>1, <1>2, <1>3, <1>7, <2>1
<1>8. CASE w = v /\ Q = P \union {o} /\ S = T /\ c \notin C /\ D = C \union {c}
  BY <1>1, <1>2, <1>3, <1>6, <1>8
<1>9. CASE w = v + 1 /\ Q = P /\ S = T /\ D = C \ {c}
  BY <1>1, <1>2, <1>3, <1>6, <1>9
<1>10. CASE w = v /\ D = C /\ o \in P /\ Q = P \ {o} /\ S = T \union {o}
  BY <1>1, <1>2, <1>3, <1>6, <1>10
<1>11. CASE w \in Int /\ w >= v - 1 /\ Q = P /\ D = C /\ o \in T /\ S = T \ {o}
  BY <1>1, <1>2, <1>3, <1>6, <1>11
<1> QED
  BY <1>5, <1>7, <1>8, <1>9, <1>10, <1>11

LEMMA TakeMoves ==
  ASSUME TypeOK, [Next]_vars, \A x \in Orders : Together(x), "take" \notin disturbed'
  PROVE  \E o, c : TakeMove(o, c)
<1> USE DEF TypeOK, LockGoto, TailGoto, SettleGoto, PaidOrders, TakenBackNext, CountingCalls
<1>a. Value(take) \in Int
  BY DEF Value
<1>0. ASSUME take' = take, PaidOrders' \subseteq PaidOrders,
             UNCHANGED <<TakenBackNext, CountingCalls>>
      PROVE  \E o, c : TakeMove(o, c)
  BY <1>a, <1>0 DEF TakeMove, Value
<1>1. ASSUME NEW o \in Orders, LockStep(o) PROVE \E p, c : TakeMove(p, c)
  <2>1. UNCHANGED <<take, tail, settling>>
    BY <1>1 DEF LockStep, GetActiveCount, CountActiveOrders, InitActiveCount, InsertOrder,
      IncrActiveCount, IncrActiveFails, PaymentCreated, RollbackLock, RollbackExists, RollbackDecr
  <2>2. PaidOrders' \subseteq PaidOrders
    BY <1>1 DEF LockStep, GetActiveCount, CountActiveOrders, InitActiveCount, InsertOrder,
      IncrActiveCount, IncrActiveFails, PaymentCreated, RollbackLock, RollbackExists, RollbackDecr
  <2> QED
    BY <1>0, <2>1, <2>2
<1>2. ASSUME NEW o \in Orders, RefundStep(o) PROVE \E p, c : TakeMove(p, c)
  <2>1. CASE RefundOrder(o) /\ status[o] = "Paid"
    <3>1. o \in PaidOrders /\ PaidOrders' = PaidOrders \ {o} /\ UNCHANGED <<take, settling>>
      BY <2>1 DEF RefundOrder
    <3>2. TakenBackNext' = TakenBackNext \union {o}
      BY <2>1 DEF RefundOrder, FirstCounter
    <3> QED
      BY <3>1, <3>2 DEF TakeMove
  <2>2. CASE RefundOrder(o) /\ status[o] = "Locked"
    <3>1. tail[o] = "no"
      BY <2>2 DEF Together, TailSteps
    <3>2. UNCHANGED <<take, PaidOrders, TakenBackNext, CountingCalls>>
      BY <2>2, <3>1 DEF RefundOrder, FirstCounter
    <3> QED
      BY <1>0, <3>2
  <2>3. CASE DecrTakeCount(o) \/ DecrTakeFails(o)
    <3>1. o \in TakenBackNext /\ TakenBackNext' = TakenBackNext \ {o}
      BY <2>3 DEF DecrTakeCount, DecrTakeFails
    <3>2. UNCHANGED <<PaidOrders, CountingCalls>>
      BY <2>3 DEF DecrTakeCount, DecrTakeFails
    <3>3. Value(take)' \in Int /\ Value(take)' >= Value(take) - 1
      <4>1. take' = DecrGuarded(take) \/ take' = take
        BY <2>3 DEF DecrTakeCount, DecrTakeFails
      <4>2. CASE take = NoKey
        BY <4>1, <4>2, CountersAssumption DEF DecrGuarded, Value
      <4>3. CASE take \in Nat /\ take # NoKey
        <5>1. DecrGuarded(take) \in {take, take - 1} /\ Value(take) = take
          BY <4>3 DEF DecrGuarded, Value
        <5>2. take' \in Int /\ take' >= take - 1
          BY <4>1, <4>3, <5>1
        <5>3. Value(take)' = take'
          BY <5>2, CountersAssumption DEF Value
        <5> QED
          BY <5>1, <5>2, <5>3
      <4> QED
        BY <4>2, <4>3
    <3> QED
      BY <3>1, <3>2, <3>3 DEF TakeMove
  <2>4. CASE RefundExists(o) \/ RefundDecr(o)
    <3>1. UNCHANGED <<take, PaidOrders, TakenBackNext, CountingCalls>>
      BY <2>4 DEF RefundExists, RefundDecr
    <3> QED
      BY <1>0, <3>1
  <2> QED
    BY <1>2, <2>1, <2>2, <2>3, <2>4 DEF RefundStep, RefundOrder
<1>3. ASSUME NEW c \in Settlers, SettleStep(c) PROVE \E o, d : TakeMove(o, d)
  <2>1. ASSUME NEW o \in Orders, BeginSettle(c, o) PROVE \E p, d : TakeMove(p, d)
    <3>1. UNCHANGED <<take, PaidOrders, TakenBackNext, CountingCalls>>
      BY <2>1 DEF BeginSettle, Idle, Counting
    <3> QED
      BY <1>0, <3>1
  <2>2. CASE SettleOrder(c)
    <3>1. settling[c].ord \in Orders
      BY <2>2 DEF SettleOrder, SettleState, Idle, Counting
    <3>2. PaidOrders' = PaidOrders \union {settling[c].ord} /\ UNCHANGED <<take, TakenBackNext>>
      BY <2>2, <3>1 DEF SettleOrder
    <3>3. c \notin CountingCalls /\ CountingCalls' = CountingCalls \union {c}
      BY <2>2 DEF SettleOrder, Counting
    <3> QED
      BY <3>2, <3>3 DEF TakeMove
  <2>3. CASE IncrTakeCount(c)
    <3>1. UNCHANGED <<PaidOrders, TakenBackNext>> /\ CountingCalls' = CountingCalls \ {c}
      BY <2>3 DEF IncrTakeCount, Idle, Counting
    <3>2. Value(take)' = Value(take) + 1
      BY <2>3, CountersAssumption DEF IncrTakeCount, Value
    <3> QED
      BY <3>1, <3>2 DEF TakeMove
  <2>4. CASE SettleStops(c)
    <3>1. settling[c] # Counting
      BY <2>4 DEF SettleStops
    <3>2. UNCHANGED <<take, PaidOrders, TakenBackNext, CountingCalls>>
      BY <2>4, <3>1 DEF SettleStops, Idle, Counting
    <3> QED
      BY <1>0, <3>2
  <2> QED
    BY <1>3, <2>1, <2>2, <2>3, <2>4 DEF SettleStep
<1>4. CASE ActiveLost \/ UNCHANGED vars
  <2>1. UNCHANGED <<take, PaidOrders, TakenBackNext, CountingCalls>>
    BY <1>4 DEF ActiveLost, vars
  <2> QED
    BY <1>0, <2>1
<1>5. ~TakeLost
  BY DEF TakeLost
<1>6. CASE ResendStep
  <2>1. UNCHANGED <<PaidOrders, TakenBackNext, CountingCalls>>
    BY <1>6, Repeated
  <2>2. CASE take' = take
    BY <1>0, <2>1, <2>2
  <2>3. CASE take' = Value(take) + 1
    <3>1. Value(take)' = Value(take) + 1
      BY <1>a, <2>3, CountersAssumption DEF Value
    <3> QED
      BY <1>a, <2>1, <3>1 DEF TakeMove
  <2> QED
    BY <1>6, <2>2, <2>3, Repeated
<1> QED
  BY <1>1, <1>2, <1>3, <1>4, <1>5, <1>6 DEF Next

LEMMA TakeCoversStep ==
  ASSUME TypeOK, [Next]_vars, \A x \in Orders : Together(x), TakeCovers
  PROVE  TakeCovers'
<1> SUFFICES ASSUME "take" \notin disturbed' PROVE TakeCovers'
  BY DEF TakeCovers
<1> QED
  BY KeyStays, TakeMoves, TakeCounted

\* The bounds of the counters, what is under way included, in every reachable
\* state: each holds until its counter loses a key, misses a count, or has a
\* command applied twice.
THEOREM CountersInvariance == Spec => []IInv
<1>1. Init => IInv
  <2> SUFFICES ASSUME Init PROVE IInv
    OBVIOUS
  <2>1. TypeOK
    <3>1. resends \in 0..MaxResent
      BY CountersAssumption DEF Init
    <3> QED
      BY <3>1 DEF Init, TypeOK, LockSteps, TailSteps, SettleState
  <2>2. /\ PaidOrders = {} /\ Committing = {} /\ TakenBackNext = {}
        /\ ActiveOrders = {} /\ NotTakenBack = {} /\ TakenEarly = {}
    <3>1. PaidOrders = {} /\ ActiveOrders = {}
      BY DEF Init, PaidOrders, ActiveOrders
    <3>2. Committing = {}
      BY DEF Init, Committing, Idle
    <3>3. TakenBackNext = {} /\ NotTakenBack = {}
      BY DEF Init, TakenBackNext, NotTakenBack
    <3>4. TakenEarly = {}
      BY DEF Init, TakenEarly, Uncounted
    <3> QED
      BY <3>1, <3>2, <3>3, <3>4
  <2>3. /\ Cardinality(PaidOrders) = 0 /\ Cardinality(Committing) = 0
        /\ Cardinality(TakenBackNext) = 0 /\ Cardinality(ActiveOrders) = 0
        /\ Cardinality(NotTakenBack) = 0 /\ Cardinality(TakenEarly) = 0
    BY <2>2, FS_EmptySet
  <2>4. Cardinality(Settlers) \in Nat /\ Cardinality(Settlers) # 0
    BY CountersAssumption, FS_CardinalityType, FS_EmptySet
  <2>5. PaidOnTheWay
    BY <2>3, <2>4, CountersAssumption DEF PaidOnTheWay
  <2>6. \A o \in Orders : Together(o)
    BY DEF Init, Together
  <2>7. Value(active) = 0 /\ Value(take) = 0
    BY DEF Init, Value
  <2>8. ActiveCovers /\ ActiveCovered /\ TakeCovers
    BY <2>3, <2>7, CountedFinite, TakeFinite DEF ActiveCovers, ActiveCovered, TakeCovers
  <2> QED
    BY <2>1, <2>5, <2>6, <2>8 DEF IInv
<1>2. IInv /\ [Next]_vars => IInv'
  BY TypeStep, PaidOnTheWayStep, TogetherStep, ActiveCoversStep, ActiveCoveredStep, TakeCoversStep
  DEF IInv
<1> QED
  BY <1>1, <1>2, PTL DEF Spec

\* Paid orders and settlements that have counted pass the limit together by
\* less than the number of goroutines that settle.
THEOREM LimitOnTheWay == Spec => []PaidOnTheWay
<1>1. IInv => PaidOnTheWay
  BY DEF IInv
<1> QED
  BY <1>1, CountersInvariance, PTL

\* The purchase limit: with any loss and any drift of the counters in Redis, a
\* user with one settlement at a time never passes it, and n settlements that
\* overlap pass it by n - 1 orders at most.
THEOREM LimitHolds == Spec => []PaidWithinLimit
<1>1. IInv => PaidWithinLimit
  <2> SUFFICES ASSUME IInv, Limit > 0
               PROVE  Cardinality(PaidOrders) <= Limit + Cardinality(Settlers) - 1
    BY DEF PaidWithinLimit
  <2>1. Cardinality(PaidOrders) + Cardinality(Committing) <= Limit + Cardinality(Settlers) - 1
    BY DEF IInv, PaidOnTheWay
  <2> QED
    BY <2>1, PaidAndCommittingFinite, CountersAssumption
<1> QED
  BY <1>1, CountersInvariance, PTL

\* Lock() lets nobody through on a counter that is too low: but for INCRs that
\* are missing or to come, it covers every active order, unless Redis lost the
\* key or ran a decrement twice.
THEOREM ActiveCoversAll == Spec => []ActiveNotUndercounted
<1>1. IInv => ActiveNotUndercounted
  <2> SUFFICES ASSUME IInv, active # NoKey, "active" \notin disturbed
               PROVE  Cardinality(ActiveOrders) <= active + Cardinality(Uncounted)
    BY DEF ActiveNotUndercounted
  <2>1. Cardinality(ActiveOrders) + Cardinality(NotTakenBack) <= active + Cardinality(Uncounted)
    BY DEF IInv, ActiveCovers, Value
  <2>2. active \in Int
    BY DEF IInv, TypeOK
  <2> QED
    BY <2>1, <2>2, CountedFinite
<1> QED
  BY <1>1, CountersInvariance, PTL

\* Lock() refuses nobody for orders that are gone, but for decrements that are
\* missing or to come, unless an order was counted twice: by an INCR that Redis
\* ran again, or by one that met the seed.
THEOREM ActiveCountsNoMore == Spec => []ActiveNotOvercounted
<1>1. IInv => ActiveNotOvercounted
  <2> SUFFICES ASSUME IInv, active # NoKey, "active" \notin disturbed, ~doubled
               PROVE  active <= Cardinality(ActiveOrders) + Cardinality(NotTakenBack)
    BY DEF ActiveNotOvercounted
  <2>1. active + Cardinality(TakenEarly) <= Cardinality(Countable) /\ active \in Int
    BY DEF IInv, ActiveCovered, TypeOK, Value
  <2>2. Cardinality(Countable) <= Cardinality(ActiveOrders) + Cardinality(NotTakenBack)
    <3>1. /\ IsFiniteSet(ActiveOrders \union NotTakenBack)
          /\ Cardinality(ActiveOrders \union NotTakenBack)
               <= Cardinality(ActiveOrders) + Cardinality(NotTakenBack)
          /\ Cardinality(ActiveOrders \union NotTakenBack) \in Nat
      <4>1. /\ IsFiniteSet(ActiveOrders \union NotTakenBack)
            /\ IsFiniteSet(ActiveOrders \intersect NotTakenBack)
            /\ Cardinality(ActiveOrders \union NotTakenBack) =
                 Cardinality(ActiveOrders) + Cardinality(NotTakenBack)
                   - Cardinality(ActiveOrders \intersect NotTakenBack)
        BY CountedFinite, FS_Union, FS_Intersection
      <4>2. Cardinality(ActiveOrders \intersect NotTakenBack) \in Nat
        BY <4>1, FS_CardinalityType
      <4> QED
        BY <4>1, <4>2, CountedFinite, FS_CardinalityType
    <3>2. Countable \in SUBSET (ActiveOrders \union NotTakenBack)
      BY DEF Countable
    <3>3. Cardinality(Countable) <= Cardinality(ActiveOrders \union NotTakenBack)
      BY <3>1, <3>2, FS_Subset
    <3> QED
      BY <3>1, <3>3, CountedFinite
  <2> QED
    BY <2>1, <2>2, CountedFinite
<1> QED
  BY <1>1, CountersInvariance, PTL

\* Settle() passes nobody on a counter that is too low: but for INCRs that are
\* missing or to come, it covers every paid order, unless Redis lost the key or
\* ran the decrement twice.
THEOREM TakeCoversAll == Spec => []TakeNotUndercounted
<1>1. IInv => TakeNotUndercounted
  <2> SUFFICES ASSUME IInv, take # NoKey, "take" \notin disturbed
               PROVE  Cardinality(PaidOrders) <= take + Cardinality(CountingCalls)
    BY DEF TakeNotUndercounted
  <2>1. Cardinality(PaidOrders) + Cardinality(TakenBackNext) <= take + Cardinality(CountingCalls)
    BY DEF IInv, TakeCovers, Value
  <2>2. take \in Int
    BY DEF IInv, TypeOK
  <2> QED
    BY <2>1, <2>2, TakeFinite
<1> QED
  BY <1>1, CountersInvariance, PTL
=============================================================================
