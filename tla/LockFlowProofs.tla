--------------------------- MODULE LockFlowProofs ---------------------------
(***************************************************************************)
(* Theorems of LockFlow, for any finite sets of requests and outTradeNo    *)
(* values, any teams and concurrent refund calls, and any crashes.         *)
(*                                                                         *)
(* First, what the gate does by itself. Then, every step of LockFlow is a  *)
(* step of TeamLedger and of SlotGate or leaves their variables alone, so  *)
(* that what is proved of the two holds here. Then the parts of IInv, one  *)
(* at a time.                                                              *)
(***************************************************************************)
EXTENDS LockFlow, FiniteSetTheorems, TLAPS

-----------------------------------------------------------------------------
(* The gate by itself.                                                     *)

GateInv == GateTypeOK /\ CapacityBound /\ FlagMeansFull

LEMMA HoldersFinite ==
  ASSUME GateTypeOK, NEW t \in Teams
  PROVE  IsFiniteSet(holders[t]) /\ Cardinality(holders[t]) \in Nat
<1>1. holders[t] \in SUBSET Trades
  BY DEF GateTypeOK
<1>2. IsFiniteSet(Trades)
  BY GateAssumption
<1> QED
  BY <1>1, <1>2, FS_Subset, FS_CardinalityType

\* What a step may do to one team: nothing to its keys, the flag going up on
\* MySQL's word, a seat taken below the caller's target, the count refusing a
\* caller, or seats given back.
GateMove(t) ==
  \/ holders'[t] = holders[t] /\ full'[t] = full[t] /\ (t \in unsure <=> t \in unsure')
  \/ holders'[t] = holders[t] /\ (~full'[t] \/ t \in unsure')
  \/ /\ holders'[t] = holders[t]
     /\ \E n \in Targets : Cardinality(holders[t]) >= n
  \/ \E p \in Trades, n \in Targets :
       /\ p \notin holders[t] /\ Cardinality(holders[t]) < n
       /\ holders'[t] = holders[t] \union {p}
       /\ full'[t] => Cardinality(holders[t]) + 1 >= n
  \/ holders'[t] \subseteq holders[t] /\ (~full'[t] \/ t \in unsure')

LEMMA GateTypeStep == GateTypeOK /\ [GateNext]_gateVars => GateTypeOK'
<1> SUFFICES ASSUME GateTypeOK, [GateNext]_gateVars PROVE GateTypeOK'
  OBVIOUS
<1> USE DEF GateTypeOK
<1>1. ASSUME NEW t \in Teams, NEW p \in Trades, NEW n \in Targets,
             TryOccupyStock(t, p, n)
      PROVE  GateTypeOK'
  <2>1. CASE OccupyUnchanged(t, p)
    BY <2>1 DEF OccupyUnchanged, gateVars
  <2>2. CASE OccupyRefused(t, p, n)
    BY <2>2 DEF OccupyRefused
  <2>3. CASE OccupySeat(t, p, n)
    <3> DEFINE b == Cardinality(holders[t]) + 1 >= n
    <3>1. b \in BOOLEAN
      OBVIOUS
    <3>2. full' = [full EXCEPT ![t] = b]
      BY <2>3 DEF OccupySeat
    <3>3. full' \in [Teams -> BOOLEAN]
      <4> HIDE DEF b
      <4> QED
        BY <3>1, <3>2
    <3> QED
      BY <2>3, <3>3 DEF OccupySeat
  <2> QED
    BY <1>1, <2>1, <2>2, <2>3 DEF TryOccupyStock
<1>2. ASSUME NEW t \in Teams, NEW p \in Trades, ReleaseStock(t, p) PROVE GateTypeOK'
  BY <1>2 DEF ReleaseStock, FlagAfterRelease
<1>3. ASSUME NEW t \in Teams, MarkTeamFull(t) PROVE GateTypeOK'
  BY <1>3 DEF MarkTeamFull
<1>4. ASSUME NEW t \in Teams, ExpireHolders(t) PROVE GateTypeOK'
  BY <1>4 DEF ExpireHolders
<1>5. ASSUME NEW t \in Teams, ExpireFull(t) PROVE GateTypeOK'
  BY <1>5 DEF ExpireFull
<1> QED
  BY <1>1, <1>2, <1>3, <1>4, <1>5 DEF GateNext, gateVars

LEMMA GateMoves == GateTypeOK /\ [GateNext]_gateVars => \A t \in Teams : GateMove(t)
<1> SUFFICES ASSUME GateTypeOK, [GateNext]_gateVars, NEW x \in Teams PROVE GateMove(x)
  OBVIOUS
<1> USE DEF GateTypeOK, GateMove
<1>1. ASSUME NEW t \in Teams, NEW p \in Trades, NEW n \in Targets,
             TryOccupyStock(t, p, n)
      PROVE  GateMove(x)
  <2>1. CASE OccupyUnchanged(t, p)
    BY <2>1 DEF OccupyUnchanged, gateVars
  <2>2. CASE OccupyRefused(t, p, n)
    <3>1. Cardinality(holders[t]) >= n
      <4>1. Cardinality(holders[t]) \in Nat
        BY HoldersFinite
      <4>2. n \in Nat /\ ~(Cardinality(holders[t]) < n)
        BY <2>2, GateAssumption DEF OccupyRefused, HasSeat
      <4> QED
        BY <4>1, <4>2
    <3> QED
      BY <2>2, <3>1 DEF OccupyRefused
  <2>3. CASE OccupySeat(t, p, n)
    <3>1. CASE x = t
      BY <2>3, <3>1 DEF OccupySeat, HasSeat
    <3>2. CASE x # t
      BY <2>3, <3>2 DEF OccupySeat
    <3> QED
      BY <3>1, <3>2
  <2> QED
    BY <1>1, <2>1, <2>2, <2>3 DEF TryOccupyStock
<1>2. ASSUME NEW t \in Teams, NEW p \in Trades, ReleaseStock(t, p) PROVE GateMove(x)
  BY <1>2 DEF ReleaseStock, FlagAfterRelease
<1>3. ASSUME NEW t \in Teams, MarkTeamFull(t) PROVE GateMove(x)
  BY <1>3 DEF MarkTeamFull
<1>4. ASSUME NEW t \in Teams, ExpireHolders(t) PROVE GateMove(x)
  BY <1>4 DEF ExpireHolders
<1>5. ASSUME NEW t \in Teams, ExpireFull(t) PROVE GateMove(x)
  BY <1>5 DEF ExpireFull
<1>6. CASE UNCHANGED gateVars
  BY <1>6 DEF gateVars
<1> QED
  BY <1>1, <1>2, <1>3, <1>4, <1>5, <1>6 DEF GateNext

LEMMA CapacityStep == GateInv /\ [GateNext]_gateVars => CapacityBound'
<1> SUFFICES ASSUME GateInv, [GateNext]_gateVars, NEW t \in Teams
             PROVE  \E n \in Targets : Cardinality(holders'[t]) <= n
  BY DEF CapacityBound
<1>1. GateTypeOK /\ GateMove(t)
  BY GateMoves DEF GateInv
<1>2. IsFiniteSet(holders[t]) /\ Cardinality(holders[t]) \in Nat
  BY <1>1, HoldersFinite
<1>3. PICK n \in Targets : Cardinality(holders[t]) <= n
  BY DEF GateInv, CapacityBound
<1>4. \A m \in Targets : m \in Nat
  BY GateAssumption
<1>5. CASE holders'[t] \subseteq holders[t]
  <2>1. Cardinality(holders'[t]) <= Cardinality(holders[t]) /\ Cardinality(holders'[t]) \in Nat
    BY <1>2, <1>5, FS_Subset, FS_CardinalityType
  <2>2. Cardinality(holders'[t]) <= n
    BY <1>2, <1>3, <1>4, <2>1
  <2> QED
    BY <2>2
<1>6. ASSUME NEW p \in Trades, NEW m \in Targets, p \notin holders[t],
             Cardinality(holders[t]) < m, holders'[t] = holders[t] \union {p}
      PROVE  \E k \in Targets : Cardinality(holders'[t]) <= k
  <2>1. Cardinality(holders'[t]) = Cardinality(holders[t]) + 1
    BY <1>2, <1>6, FS_AddElement
  <2>2. Cardinality(holders'[t]) <= m
    BY <1>2, <1>4, <1>6, <2>1
  <2> QED
    BY <2>2
<1> QED
  BY <1>1, <1>5, <1>6 DEF GateMove

LEMMA FlagStep == GateInv /\ [GateNext]_gateVars => FlagMeansFull'
<1> SUFFICES ASSUME GateInv, [GateNext]_gateVars, NEW t \in Teams, full'[t], t \notin unsure'
             PROVE  \E n \in Targets : Cardinality(holders'[t]) >= n
  BY DEF FlagMeansFull
<1>1. GateTypeOK /\ GateMove(t)
  BY GateMoves DEF GateInv
<1>2. IsFiniteSet(holders[t]) /\ Cardinality(holders[t]) \in Nat
  BY <1>1, HoldersFinite
<1>3. CASE holders'[t] = holders[t] /\ full'[t] = full[t] /\ (t \in unsure <=> t \in unsure')
  BY <1>3 DEF GateInv, FlagMeansFull
<1>4. ASSUME NEW p \in Trades, NEW n \in Targets, p \notin holders[t],
             holders'[t] = holders[t] \union {p}, Cardinality(holders[t]) + 1 >= n
      PROVE  \E k \in Targets : Cardinality(holders'[t]) >= k
  <2>1. Cardinality(holders'[t]) = Cardinality(holders[t]) + 1
    BY <1>2, <1>4, FS_AddElement
  <2> QED
    BY <1>4, <2>1
<1> QED
  BY <1>1, <1>3, <1>4 DEF GateMove

LEMMA GateStarts == GateInit => GateInv
<1> SUFFICES ASSUME GateInit PROVE GateInv
  OBVIOUS
<1>1. GateTypeOK
  BY DEF GateInit, GateTypeOK
<1>2. ASSUME NEW t \in Teams PROVE \E n \in Targets : Cardinality(holders[t]) <= n
  <2>1. Cardinality(holders[t]) = 0
    BY FS_EmptySet DEF GateInit
  <2>2. PICK n \in Targets : n \in Nat
    BY GateAssumption
  <2> QED
    BY <2>1, <2>2
<1> QED
  BY <1>1, <1>2 DEF GateInv, CapacityBound, FlagMeansFull, GateInit

LEMMA GateKept == GateInv /\ [GateNext]_gateVars => GateInv'
  BY GateTypeStep, CapacityStep, FlagStep DEF GateInv

LEMMA GateInvariance == GateSpec => []GateInv
  BY GateStarts, GateKept, PTL DEF GateSpec

\* The gate never admits more permits than the largest target its callers
\* passed, for any number of permits, teams and changes of the target
\* (occupy_stock.lua, release_stock.lua), whoever calls it.
THEOREM GateCapacity == GateSpec => []CapacityBound
<1>1. GateInv => CapacityBound
  BY DEF GateInv
<1> QED
  BY <1>1, GateInvariance, PTL

\* The gate turns callers away only when it is full, unless MySQL said so or
\* the holders expired first.
THEOREM GateFlag == GateSpec => []FlagMeansFull
<1>1. GateInv => FlagMeansFull
  BY DEF GateInv
<1> QED
  BY <1>1, GateInvariance, PTL

-----------------------------------------------------------------------------
(* The tables by themselves.                                               *)

LP == INSTANCE TeamLedgerProofs WITH Orders <- Requests

\* L is the instance the specification is made of, LP the one with the theorems.
LEMMA SameLedgerInit == L!Init <=> LP!Init
  BY Zenon DEF L!Init, LP!Init, L!NoRow, LP!NoRow, L!Idle, LP!Idle

LEMMA SameLedgerNext == L!Next <=> LP!Next
  BY Zenon DEF L!Next, L!LockStep, L!RefundStep, L!CreateTeamWithOrder, L!Insert,
    L!JoinTeamWithOrder, L!Exists, L!HasRoom, L!Bump, L!PaymentCreated, L!RollbackNewTeam,
    L!RollbackJoinTeam, L!DeleteOrder, L!SettleOrder, L!Settleable, L!TakesPayment, L!Completes,
    L!TeamExpires, L!ReadForRefund, L!RefundPath, L!FlipOrder, L!StillAsRead, L!FromStatus,
    L!UpdatesTeam, L!LoseRace, L!UpdateTeam, L!RefundTeamForming, L!CompleteDelta,
    L!FormingUpdatable, L!RefundCompleteTeam, L!DissolvesAt, L!UpdateTeamFails, L!FinishRefund,
    L!AbandonRefund, L!Idle, LP!Next, LP!LockStep, LP!RefundStep, LP!CreateTeamWithOrder,
    LP!Insert, LP!JoinTeamWithOrder, LP!Exists, LP!HasRoom, LP!Bump, LP!PaymentCreated,
    LP!RollbackNewTeam, LP!RollbackJoinTeam, LP!DeleteOrder, LP!SettleOrder, LP!Settleable,
    LP!TakesPayment, LP!Completes, LP!TeamExpires, LP!ReadForRefund, LP!RefundPath, LP!FlipOrder,
    LP!StillAsRead, LP!FromStatus, LP!UpdatesTeam, LP!LoseRace, LP!UpdateTeam,
    LP!RefundTeamForming, LP!CompleteDelta, LP!FormingUpdatable, LP!RefundCompleteTeam,
    LP!DissolvesAt, LP!UpdateTeamFails, LP!FinishRefund, LP!AbandonRefund, LP!Idle

LEMMA SameLedgerInv == L!IInv <=> LP!IInv
<1>1. L!TypeOK <=> LP!TypeOK
  BY Zenon DEF L!TypeOK, LP!TypeOK, L!OrderStatus, LP!OrderStatus, L!TeamRow, LP!TeamRow,
    L!TeamStatus, LP!TeamStatus, L!RefundState, LP!RefundState, L!Idle, LP!Idle, L!Paths, LP!Paths
<1>2. ASSUME NEW t \in Teams
      PROVE  /\ L!RowShape(t) <=> LP!RowShape(t)
             /\ L!PaidCounted(t) <=> LP!PaidCounted(t)
             /\ L!LockedCounted(t) <=> LP!LockedCounted(t)
             /\ L!SeatsCounted(t) <=> LP!SeatsCounted(t)
  BY Zenon DEF L!RowShape, LP!RowShape, L!PaidCounted, LP!PaidCounted, L!LockedCounted,
    LP!LockedCounted, L!PaidSeats, LP!PaidSeats, L!LockedSeats, LP!LockedSeats, L!Pending,
    LP!Pending, L!Flipped, LP!Flipped, L!Idle, LP!Idle, L!RolledBack, LP!RolledBack,
    L!NoRow, LP!NoRow, L!Cardinality, LP!Cardinality, L!SeatsCounted, LP!SeatsCounted,
    L!Seats, LP!Seats, L!StrandedIn, LP!StrandedIn, L!DoubledIn, LP!DoubledIn
<1>3. ASSUME NEW r \in Requests
      PROVE  /\ L!InsertedInTeam(r) <=> LP!InsertedInTeam(r)
             /\ L!Untouched(r) <=> LP!Untouched(r)
             /\ L!DriftsOnce(r) <=> LP!DriftsOnce(r)
  BY Zenon DEF L!InsertedInTeam, LP!InsertedInTeam, L!Untouched, LP!Untouched, L!DriftsOnce,
    LP!DriftsOnce, L!Pending, LP!Pending, L!Paths, LP!Paths, L!Flipped, LP!Flipped, L!Idle, LP!Idle
<1>4. ASSUME NEW c \in Callers
      PROVE  /\ L!FlippedAlone(c) <=> LP!FlippedAlone(c)
             /\ L!RefundsARow(c) <=> LP!RefundsARow(c)
             /\ L!PathFits(c) <=> LP!PathFits(c)
  BY Zenon DEF L!PathFits, LP!PathFits, L!FlippedAlone, LP!FlippedAlone, L!RefundsARow,
    LP!RefundsARow, L!Flipped, LP!Flipped, L!Idle, LP!Idle, L!UpdatesTeam, LP!UpdatesTeam
<1> QED
  BY <1>1, <1>2, <1>3, <1>4, Zenon DEF L!IInv, LP!IInv

LEMMA LedgerAssumed == LP!LedgerAssumption
  BY FlowAssumption, GateAssumption, Zenon DEF LP!LedgerAssumption, IsFiniteSet, LP!IsFiniteSet

LEMMA LedgerInit == L!Init => L!IInv
  BY LedgerAssumed, LP!IInvInit, SameLedgerInit, SameLedgerInv

LEMMA LedgerKept == L!IInv /\ [L!Next]_ledgerVars => L!IInv'
<1>1. [L!Next]_ledgerVars <=> [LP!Next]_(LP!vars)
  BY SameLedgerNext DEF ledgerVars, LP!vars
<1> QED
  BY <1>1, LedgerAssumed, LP!IInvStep, SameLedgerInv, PTL

-----------------------------------------------------------------------------
(* The tables and the gate.                                                *)

LEMMA TradeKnown == ASSUME NEW r \in Requests PROVE TradeOf[r] \in Trades
  BY FlowAssumption

\* Two requests have one key when they have one user and one outTradeNo.
LEMMA KeyKnown ==
  ASSUME NEW r \in Requests
  PROVE  /\ KeyOf(r) \in Keys
         /\ \A s \in Requests : KeyOf(s) = KeyOf(r) <=> (SameUser(r, s) /\ TradeOf[s] = TradeOf[r])
  BY FlowAssumption DEF KeyOf, Keys, SameUser

\* Where the permit of a refund call is, is known from its order.
LEMMA RefundKnown ==
  ASSUME L!IInv, NEW c \in Callers, refund[c] # L!Idle
  PROVE  /\ refund[c] \in [at : {"read", "flipped", "tail"}, ord : Requests, path : L!Paths]
         /\ refund[c].ord \in Requests
         /\ status[refund[c].ord] # "none"
         /\ teamOf[refund[c].ord] \in Teams
         /\ team[teamOf[refund[c].ord]].status # "none"
  BY DEF L!IInv, L!TypeOK, L!RefundState, L!RefundsARow, L!InsertedInTeam

\* Giving up a payment that is not awaited changes nothing.
LEMMA NoLongerPaying ==
  ASSUME TypeOK, NEW r \in Requests, paying' = [paying EXCEPT ![r] = "no"],
         UNCHANGED <<status, teamOf, team, expired, refund, stranded, doubled>>
  PROVE  L!PaymentCreated(r) \/ UNCHANGED ledgerVars
<1>1. CASE paying[r] = "no"
  BY <1>1 DEF TypeOK, L!TypeOK, ledgerVars
<1>2. CASE paying[r] # "no"
  BY <1>2 DEF L!PaymentCreated
<1> QED
  BY <1>1, <1>2

LEMMA CommitStep ==
  ASSUME NEW r \in Requests, NEW n \in Targets, RowAt(r), Commit(r, n)
  PROVE  L!LockStep(r)
  BY DEF Commit, JoinTx, RowAt, L!LockStep

\* Each step of the flow runs at most one transaction of the tables.
LEMMA LedgerStep ==
  ASSUME TypeOK, \A r \in Requests : RowAt(r), [Next]_vars
  PROVE  [L!Next]_ledgerVars
<1>1. ASSUME NEW r \in Requests, LockStep(r) PROVE L!LockStep(r) \/ UNCHANGED ledgerVars
  <2>1. ASSUME NEW n \in Targets, InsertOrder(r, n) \/ CommitLost(r, n)
        PROVE  L!LockStep(r)
    BY <2>1, CommitStep DEF InsertOrder, CommitLost
  <2>2. CASE GiveBack(r)
    BY <2>2, NoLongerPaying DEF GiveBack, L!LockStep
  <2>3. CASE PaymentCreated(r) \/ UndoTables(r) \/ UndoTablesFails(r)
    BY <2>3 DEF PaymentCreated, UndoTables, UndoTablesFails, L!LockStep
  <2>4. CASE CacheHit(r) \/ CacheMiss(r) \/ AcquireLock(r) \/ LockHeld(r) \/ RecheckCached(r)
             \/ FindExistingOrder(r) \/ CacheExisting(r) \/ Proceed(r) \/ ProceedBlindly(r)
             \/ ProceedBesideForeign(r)
             \/ Refuse(r) \/ CheckTeam(r) \/ InsertRefused(r) \/ StatementFails(r)
             \/ ReleaseUnanswered(r) \/ ReleaseFails(r) \/ MarkFull(r) \/ PaymentFails(r)
             \/ UndoGate(r) \/ CacheResult(r) \/ CreateDirectOrder(r) \/ DirectRefused(r)
             \/ DirectPayment(r) \/ DeleteOrder(r)
    BY <2>4 DEF CacheHit, CacheMiss, AcquireLock, LockHeld, RecheckCached, FindExistingOrder,
      CacheExisting, Proceed, ProceedBlindly, ProceedBesideForeign, Pass, Refuse, CheckTeam,
      InsertRefused, StatementFails, ReleaseUnanswered, ReleaseFails, MarkFull, PaymentFails,
      UndoGate, CacheResult, CreateDirectOrder, DirectRefused, DirectPayment, DeleteOrder
  <2>5. ASSUME NEW n \in Targets, Occupy(r, n) \/ OccupyUnanswered(r, n)
        PROVE  UNCHANGED ledgerVars
    BY <2>5 DEF Occupy, OccupyUnanswered
  <2> QED
    BY <1>1, <2>1, <2>2, <2>3, <2>4, <2>5 DEF LockStep
<1>2. ASSUME NEW r \in Requests, Crash(r) PROVE L!LockStep(r) \/ UNCHANGED ledgerVars
  BY <1>2, NoLongerPaying DEF Crash, L!LockStep
<1>3. ASSUME NEW r \in Requests, Settle(r) \/ DirectLeaves(r)
      PROVE  L!SettleOrder(r) \/ UNCHANGED ledgerVars
  BY <1>3 DEF Settle, DirectLeaves
<1>4. ASSUME NEW k \in Keys, LockExpires(k) \/ CacheExpires(k) PROVE UNCHANGED ledgerVars
  BY <1>4 DEF LockExpires, CacheExpires
<1>5. ASSUME NEW t \in Teams, TeamExpires(t) \/ HoldersExpire(t) \/ FlagExpires(t)
      PROVE  L!TeamExpires(t) \/ UNCHANGED ledgerVars
  BY <1>5 DEF TeamExpires, HoldersExpire, FlagExpires
<1>6. ASSUME NEW c \in Callers, RefundStep(c) PROVE L!RefundStep(c) \/ UNCHANGED ledgerVars
  BY <1>6 DEF RefundStep, RefundTables, RefundTail, RefundReleaseUnanswered, RefundStops,
    L!RefundStep
<1>7. CASE UNCHANGED vars
  BY <1>7 DEF vars
<1> QED
  BY <1>1, <1>2, <1>3, <1>4, <1>5, <1>6, <1>7 DEF Next, L!Next

\* Each step of the flow runs at most one script or command of the gate.
LEMMA GateStep ==
  ASSUME TypeOK, L!IInv, \A r \in Requests : RowAt(r), [Next]_vars
  PROVE  [GateNext]_gateVars
<1> USE TradeKnown
<1>1. ASSUME NEW r \in Requests, LockStep(r) PROVE [GateNext]_gateVars
  <2>1. ASSUME NEW n \in Targets, Occupy(r, n) \/ OccupyUnanswered(r, n)
        PROVE  GateNext
    <3>1. TryOccupyStock(goal[r], TradeOf[r], n) /\ goal[r] \in Teams
      BY <2>1 DEF Occupy, OccupyUnanswered, RowAt, TryOccupyStock
    <3> QED
      BY <3>1 DEF GateNext
  <2>2. CASE GiveBack(r) \/ UndoGate(r) \/ ReleaseUnanswered(r)
    <3>1. ReleaseStock(goal[r], TradeOf[r]) /\ goal[r] \in Teams
      BY <2>2 DEF GiveBack, UndoGate, ReleaseUnanswered, RowAt
    <3> QED
      BY <3>1 DEF GateNext
  <2>3. CASE MarkFull(r)
    BY <2>3 DEF MarkFull, RowAt, GateNext
  <2>4. CASE CacheHit(r) \/ CacheMiss(r) \/ AcquireLock(r) \/ LockHeld(r) \/ RecheckCached(r)
             \/ FindExistingOrder(r) \/ CacheExisting(r) \/ Proceed(r) \/ ProceedBlindly(r)
             \/ ProceedBesideForeign(r)
             \/ Refuse(r) \/ CheckTeam(r) \/ InsertRefused(r) \/ StatementFails(r)
             \/ ReleaseFails(r) \/ PaymentCreated(r) \/ PaymentFails(r) \/ UndoTables(r)
             \/ UndoTablesFails(r) \/ CacheResult(r) \/ CreateDirectOrder(r) \/ DirectRefused(r)
             \/ DirectPayment(r) \/ DeleteOrder(r)
    BY <2>4 DEF CacheHit, CacheMiss, AcquireLock, LockHeld, RecheckCached, FindExistingOrder,
      CacheExisting, Proceed, ProceedBlindly, ProceedBesideForeign, Pass, Refuse, CheckTeam,
      InsertRefused, StatementFails, ReleaseFails, PaymentCreated, PaymentFails, UndoTables,
      UndoTablesFails, CacheResult, CreateDirectOrder, DirectRefused, DirectPayment, DeleteOrder
  <2>5. ASSUME NEW n \in Targets, InsertOrder(r, n) \/ CommitLost(r, n)
        PROVE  UNCHANGED gateVars
    BY <2>5 DEF InsertOrder, CommitLost
  <2> QED
    BY <1>1, <2>1, <2>2, <2>3, <2>4, <2>5 DEF LockStep
<1>2. ASSUME NEW c \in Callers, RefundStep(c) PROVE [GateNext]_gateVars
  <2>1. CASE RefundTables(c) \/ RefundStops(c)
    BY <2>1 DEF RefundTables, RefundStops
  <2>2. CASE RefundTail(c) \/ RefundReleaseUnanswered(c)
    <3>1. refund[c] # L!Idle
      BY <2>2 DEF RefundTail, RefundReleaseUnanswered, L!FinishRefund, L!Idle
    <3>2. teamOf[refund[c].ord] \in Teams /\ TradeOf[refund[c].ord] \in Trades
      BY <3>1, RefundKnown
    <3> QED
      BY <2>2, <3>2 DEF RefundTail, RefundReleaseUnanswered, RefundReleases, Refunded, GateNext
  <2> QED
    BY <1>2, <2>1, <2>2 DEF RefundStep
<1>3. ASSUME NEW r \in Requests, Crash(r) \/ Settle(r) \/ DirectLeaves(r)
      PROVE  UNCHANGED gateVars
  BY <1>3 DEF Crash, Settle, DirectLeaves
<1>4. ASSUME NEW k \in Keys, LockExpires(k) \/ CacheExpires(k) PROVE UNCHANGED gateVars
  BY <1>4 DEF LockExpires, CacheExpires
<1>5. ASSUME NEW t \in Teams, TeamExpires(t) \/ HoldersExpire(t) \/ FlagExpires(t)
      PROVE  [GateNext]_gateVars
  BY <1>5 DEF TeamExpires, HoldersExpire, FlagExpires, GateNext
<1>6. CASE UNCHANGED vars
  BY <1>6 DEF vars
<1> QED
  BY <1>1, <1>2, <1>3, <1>4, <1>5, <1>6 DEF Next

-----------------------------------------------------------------------------
(* Types.                                                                  *)

Labels == {"start", "missed", "recheck", "found", "occupy", "check", "insert", "giveback",
           "full", "mark", "pay", "undo_gate", "undo_db", "cache", "buy", "payDirect",
           "undoDirect", "done", "dead"}

FlowTypes ==
  /\ pc \in [Requests -> Labels]
  /\ goal \in [Requests -> Teams \union {NoTeam}]
  /\ saw \in [Requests -> Requests \union {NoReq}]
  /\ lock \in [Keys -> Requests \union {NoReq}]
  /\ cached \in [Keys -> Requests \union {NoReq}]
  /\ direct \in [Requests -> Stored \union {"none", "deleted"}]
  /\ leaked \subseteq Teams \X Trades
  /\ unbacked \subseteq Requests
  /\ unguarded \subseteq Keys
  /\ crossed \subseteq Trades
  /\ lapsed \subseteq Teams \X Trades

LEMMA TypesOfParts == TypeOK <=> FlowTypes /\ GateTypeOK /\ L!TypeOK
  BY DEF TypeOK, FlowTypes, Labels

LEMMA GotoType ==
  ASSUME FlowTypes, NEW r \in Requests, NEW l \in Labels, Goto(r, l)
  PROVE  pc' \in [Requests -> Labels] /\ lock' \in [Keys -> Requests \union {NoReq}]
  BY DEF FlowTypes, Goto

LEMMA ReturnType ==
  ASSUME FlowTypes, NEW r \in Requests, Return(r)
  PROVE  pc' \in [Requests -> Labels] /\ lock' \in [Keys -> Requests \union {NoReq}]
  BY KeyKnown DEF FlowTypes, Return, FreeOwnLock, Labels

LEMMA FlowTypeStep ==
  ASSUME TypeOK, L!IInv, \A r \in Requests : RowAt(r), [Next]_vars
  PROVE  FlowTypes'
<1> FlowTypes
  BY TypesOfParts
<1> USE TradeKnown, KeyKnown
<1>1. ASSUME NEW r \in Requests, LockStep(r) PROVE FlowTypes'
  <2> USE GotoType, ReturnType DEF Labels
  <2>1. ASSUME NEW n \in Targets, Occupy(r, n) \/ OccupyUnanswered(r, n) PROVE FlowTypes'
    <3>1. goal[r] \in Teams
      BY <2>1 DEF Occupy, OccupyUnanswered, RowAt
    <3> QED
      BY <2>1, <3>1 DEF Occupy, OccupyUnanswered, Permit, history, FlowTypes
  <2>2. ASSUME NEW n \in Targets, InsertOrder(r, n) \/ CommitLost(r, n) PROVE FlowTypes'
    BY <2>2 DEF InsertOrder, CommitLost, history, FlowTypes
  <2>3. CASE CacheHit(r) \/ CacheMiss(r) \/ AcquireLock(r) \/ LockHeld(r) \/ RecheckCached(r)
             \/ FindExistingOrder(r) \/ CacheExisting(r)
    BY <2>3, SMTT(30) DEF CacheHit, CacheMiss, AcquireLock, LockHeld, RecheckCached,
      FindExistingOrder, CacheExisting, OwnRows, RowsOf, FlowTypes, history
  <2>4. CASE Proceed(r) \/ ProceedBlindly(r) \/ ProceedBesideForeign(r)
    BY <2>4, SMTT(30) DEF Proceed, ProceedBlindly, ProceedBesideForeign, Pass, ToTeam, ToDirect,
      FlowTypes
  <2>5. CASE Refuse(r) \/ CheckTeam(r) \/ InsertRefused(r) \/ StatementFails(r)
             \/ MarkFull(r) \/ PaymentCreated(r) \/ PaymentFails(r) \/ UndoTables(r)
             \/ CacheResult(r)
    BY <2>5, SMTT(30) DEF Refuse, CheckTeam, InsertRefused, StatementFails, MarkFull,
      PaymentCreated, PaymentFails, UndoTables, CacheResult, FlowTypes, history, RefusedTo
  <2>6. CASE \/ GiveBack(r) \/ ReleaseUnanswered(r) \/ ReleaseFails(r)
             \/ UndoGate(r) \/ UndoTablesFails(r)
    <3>1. goal[r] \in Teams
      BY <2>6 DEF GiveBack, ReleaseUnanswered, ReleaseFails, UndoGate, UndoTablesFails, RowAt
    <3> QED
      BY <2>6, <3>1, SMTT(30) DEF GiveBack, ReleaseUnanswered, ReleaseFails, UndoGate,
        UndoTablesFails, Permit, FlowTypes
  <2>7. CASE CreateDirectOrder(r) \/ DirectRefused(r) \/ DirectPayment(r) \/ DeleteOrder(r)
    BY <2>7, SMTT(30) DEF CreateDirectOrder, DirectRefused, DirectPayment, DeleteOrder, Stored,
      FlowTypes, history
  <2> QED
    BY <1>1, <2>1, <2>2, <2>3, <2>4, <2>5, <2>6, <2>7 DEF LockStep
<1>2. ASSUME NEW c \in Callers, RefundStep(c) PROVE FlowTypes'
  <2>1. CASE RefundTables(c)
    BY <2>1 DEF RefundTables, flowVars, history, FlowTypes
  <2>2. CASE RefundTail(c) \/ RefundReleaseUnanswered(c)
    BY <2>2 DEF RefundTail, RefundReleaseUnanswered, RefundReleases, FlowTypes
  <2>3. CASE RefundStops(c)
    <3>1. refund[c] # L!Idle
      BY <2>3 DEF RefundStops, L!UpdateTeamFails, L!AbandonRefund, L!Idle
    <3>2. Refunded(c) \in Teams \X Trades
      BY <3>1, RefundKnown DEF Refunded
    <3> QED
      BY <2>3, <3>2 DEF RefundStops, FlowTypes
  <2> QED
    BY <1>2, <2>1, <2>2, <2>3 DEF RefundStep
<1>3. ASSUME NEW r \in Requests, Crash(r) PROVE FlowTypes'
  <2>1. HasPermit(r) => goal[r] \in Teams
    BY DEF HasPermit, RowAt
  <2> QED
    BY <1>3, <2>1 DEF Crash, Permit, FlowTypes, Labels
<1>4. ASSUME NEW r \in Requests, Settle(r) \/ DirectLeaves(r) PROVE FlowTypes'
  BY <1>4 DEF Settle, DirectLeaves, flowVars, history, Stored, FlowTypes
<1>5. ASSUME NEW k \in Keys, LockExpires(k) \/ CacheExpires(k) PROVE FlowTypes'
  BY <1>5 DEF LockExpires, CacheExpires, history, FlowTypes
<1>6. ASSUME NEW t \in Teams, TeamExpires(t) \/ HoldersExpire(t) \/ FlagExpires(t) PROVE FlowTypes'
  <2>1. GateTypeOK
    BY TypesOfParts
  <2>2. {t} \X holders[t] \subseteq Teams \X Trades
    BY <2>1 DEF GateTypeOK
  <2> QED
    BY <1>6, <2>2 DEF TeamExpires, HoldersExpire, FlagExpires, flowVars, history, FlowTypes
<1>7. CASE UNCHANGED vars
  BY <1>7 DEF vars, flowVars, history, FlowTypes
<1> QED
  BY <1>1, <1>2, <1>3, <1>4, <1>5, <1>6, <1>7 DEF Next

-----------------------------------------------------------------------------
(* What the tables never take back, and what a refund call may rely on.    *)

LEMMA OrderMoves ==
  ASSUME L!IInv, [L!Next]_ledgerVars, NEW r \in Requests
  PROVE  /\ status[r] # "none" => teamOf'[r] = teamOf[r] /\ status'[r] # "none"
         /\ status[r] = "Refunded" => status'[r] \in {"Refunded", "deleted"}
         /\ status[r] = "deleted" => status'[r] = "deleted"
         /\ \/ status'[r] = status[r] /\ teamOf'[r] = teamOf[r]
            \/ status[r] = "none" /\ status'[r] = "Locked"
            \/ /\ status[r] # "none" /\ teamOf'[r] = teamOf[r]
               /\ status'[r] \in {"Paid", "Refunded", "deleted"}
<1>1. LP!OrderMove(r) /\ LP!IInv
  <2>1. [LP!Next]_(LP!vars) /\ LP!IInv
    BY SameLedgerNext, SameLedgerInv DEF ledgerVars, LP!vars
  <2> QED
    BY <2>1, LedgerAssumed, LP!OrderMoves
<1>2. status[r] = "deleted" => status'[r] = "deleted"
  BY <1>1 DEF LP!OrderMove
<1> QED
  BY <1>1, <1>2 DEF LP!OrderMove

\* A team never comes back to forming, a deleted one never comes back at all.
LEMMA TeamMoves ==
  ASSUME L!IInv, [L!Next]_ledgerVars, NEW t \in Teams
  PROVE  /\ MayOpen(t)' => MayOpen(t)
         /\ team[t].status \notin {"none", "Forming"} => team'[t].status \notin {"none", "Forming"}
         /\ team[t].status = "deleted" => team'[t].status = "deleted"
         /\ doubled \subseteq doubled' /\ expired \subseteq expired'
<1> L!TypeOK
  BY DEF L!IInv
<1> USE DEF L!TypeOK, L!TeamRow
<1>1. ASSUME NEW r \in Requests, L!LockStep(r) \/ L!SettleOrder(r)
      PROVE  /\ team'[t].status \in {"none", "Forming"} => team[t].status \in {"none", "Forming"}
             /\ team[t].status = "deleted" => team'[t].status = "deleted"
             /\ doubled \subseteq doubled' /\ expired' = expired
  <2>1. ASSUME NEW k \in Teams, NEW n \in Targets, L!CreateTeamWithOrder(r, k, n)
        PROVE  /\ team'[t] = team[t] \/ team[t].status = "none"
               /\ doubled' = doubled /\ expired' = expired
    BY <2>1 DEF L!CreateTeamWithOrder, L!Insert
  <2>2. ASSUME NEW k \in Teams, L!JoinTeamWithOrder(r, k)
        PROVE  team'[t].status = team[t].status /\ doubled' = doubled /\ expired' = expired
    BY <2>2 DEF L!JoinTeamWithOrder, L!Insert, L!Bump
  <2>3. CASE L!RollbackJoinTeam(r)
    <3>1. team'[t].status = team[t].status
      BY <2>3 DEF L!RollbackJoinTeam, L!Bump
    <3> QED
      BY <2>3, <3>1 DEF L!RollbackJoinTeam, L!DeleteOrder
  <2>4. CASE L!PaymentCreated(r) \/ L!RollbackNewTeam(r)
    BY <2>4 DEF L!PaymentCreated, L!RollbackNewTeam, L!DeleteOrder
  <2>5. CASE L!SettleOrder(r)
    <3>1. team'[t].status = team[t].status \/ (t = teamOf[r] /\ team[t].status = "Forming")
      BY <2>5 DEF L!SettleOrder, L!TakesPayment
    <3> QED
      BY <2>5, <3>1 DEF L!SettleOrder
  <2> QED
    BY <1>1, <2>1, <2>2, <2>3, <2>4, <2>5 DEF L!LockStep
<1>2. ASSUME NEW c \in Callers, L!RefundStep(c)
      PROVE  /\ team'[t].status \in {"none", "Forming"} => team[t].status \in {"none", "Forming"}
             /\ team[t].status = "deleted" => team'[t].status = "deleted"
             /\ doubled \subseteq doubled' /\ expired' = expired
  BY <1>2 DEF L!RefundStep, L!ReadForRefund, L!FlipOrder, L!LoseRace, L!UpdateTeam,
    L!RefundTeamForming, L!RefundCompleteTeam, L!FormingUpdatable, L!Bump, L!UpdateTeamFails,
    L!FinishRefund, L!AbandonRefund
<1>3. ASSUME NEW k \in Teams, L!TeamExpires(k)
      PROVE  team' = team /\ doubled' = doubled /\ expired \subseteq expired'
  BY <1>3 DEF L!TeamExpires
<1>4. CASE UNCHANGED ledgerVars
  BY <1>4 DEF ledgerVars, MayOpen
<1> QED
  BY <1>1, <1>2, <1>3, <1>4 DEF L!Next, MayOpen

\* An order that was refunded stays so, or is deleted by a rollback, which
\* deletes its team as well or is remembered.
LEMMA RefundedStays ==
  ASSUME L!IInv, [L!Next]_ledgerVars, NEW r \in Requests, status[r] = "Refunded"
  PROVE  status'[r] = "Refunded" \/ r \in doubled' \/ team'[teamOf[r]].status = "deleted"
<1> L!TypeOK /\ teamOf[r] \in Teams
  BY DEF L!IInv, L!InsertedInTeam
<1> USE DEF L!TypeOK, L!TeamRow
<1>1. ASSUME NEW o \in Requests, L!LockStep(o) \/ L!SettleOrder(o)
      PROVE  status'[r] = "Refunded" \/ r \in doubled' \/ team'[teamOf[r]].status = "deleted"
  BY <1>1 DEF L!LockStep, L!CreateTeamWithOrder, L!JoinTeamWithOrder, L!Insert, L!PaymentCreated,
    L!RollbackNewTeam, L!RollbackJoinTeam, L!DeleteOrder, L!SettleOrder, L!Settleable
<1>2. ASSUME NEW c \in Callers, L!RefundStep(c) PROVE status'[r] = "Refunded"
  BY <1>2 DEF L!RefundStep, L!ReadForRefund, L!FlipOrder, L!LoseRace, L!UpdateTeam,
    L!UpdateTeamFails, L!FinishRefund, L!AbandonRefund
<1>3. ASSUME NEW k \in Teams, L!TeamExpires(k) PROVE status'[r] = "Refunded"
  BY <1>3 DEF L!TeamExpires
<1>4. CASE UNCHANGED ledgerVars
  BY <1>4 DEF ledgerVars
<1> QED
  BY <1>1, <1>2, <1>3, <1>4 DEF L!Next

\* A refund call that is not idle afterwards was there already, or has just read.
LEMMA CallerMoves ==
  ASSUME L!IInv, [L!Next]_ledgerVars, NEW c \in Callers, refund'[c] # L!Idle
  PROVE  \/ refund'[c] = refund[c]
         \/ /\ refund'[c].at = "read" /\ UNCHANGED <<team, teamOf, status>>
            /\ refund'[c].ord \in Requests /\ teamOf[refund'[c].ord] \in Teams
            /\ refund'[c].path = L!RefundPath(status[refund'[c].ord], team[teamOf[refund'[c].ord]].status)
         \/ /\ refund[c] # L!Idle
            /\ refund'[c].ord = refund[c].ord /\ refund'[c].path = refund[c].path
            /\ refund[c].at # "read" \/ status'[refund[c].ord] = "Refunded"
<1> L!TypeOK
  BY DEF L!IInv
<1>1. ASSUME NEW o \in Requests, L!LockStep(o) \/ L!SettleOrder(o) PROVE refund' = refund
  BY <1>1 DEF L!LockStep, L!CreateTeamWithOrder, L!JoinTeamWithOrder, L!Insert, L!PaymentCreated,
    L!RollbackNewTeam, L!RollbackJoinTeam, L!DeleteOrder, L!SettleOrder
<1>2. ASSUME NEW d \in Callers, L!RefundStep(d), d # c PROVE refund'[c] = refund[c]
  BY <1>2 DEF L!RefundStep, L!ReadForRefund, L!FlipOrder, L!LoseRace, L!UpdateTeam, L!TypeOK,
    L!UpdateTeamFails, L!FinishRefund, L!AbandonRefund
<1>3. CASE \E o \in Requests : L!ReadForRefund(c, o)
  BY <1>3 DEF L!ReadForRefund, L!TypeOK, L!IInv, L!InsertedInTeam
<1>4. CASE L!FlipOrder(c) \/ L!UpdateTeam(c)
  <2>1. refund[c] # L!Idle
    BY <1>4 DEF L!FlipOrder, L!UpdateTeam, L!Idle
  <2> QED
    BY <1>4, <2>1, RefundKnown DEF L!FlipOrder, L!UpdateTeam, L!TypeOK
<1>5. CASE L!LoseRace(c) \/ L!UpdateTeamFails(c) \/ L!FinishRefund(c) \/ L!AbandonRefund(c)
  BY <1>5 DEF L!LoseRace, L!UpdateTeamFails, L!FinishRefund, L!AbandonRefund, L!TypeOK
<1>6. CASE UNCHANGED ledgerVars \/ \E k \in Teams : L!TeamExpires(k)
  BY <1>6 DEF ledgerVars, L!TeamExpires
<1> QED
  BY <1>1, <1>2, <1>3, <1>4, <1>5, <1>6 DEF L!Next, L!RefundStep

LEMMA RefundAtStep ==
  ASSUME L!IInv, [L!Next]_ledgerVars, NEW c \in Callers, RefundAt(c)
  PROVE  RefundAt(c)'
<1> SUFFICES ASSUME refund'[c] # L!Idle PROVE RefundAt(c)'
  BY DEF RefundAt, L!Idle
<1>1. CASE /\ refund'[c].at = "read" /\ UNCHANGED <<team, teamOf, status>>
           /\ refund'[c].path = L!RefundPath(status[refund'[c].ord], team[teamOf[refund'[c].ord]].status)
  BY <1>1 DEF RefundAt, Releases, L!RefundPath
<1>2. ASSUME refund[c] # L!Idle, refund'[c].ord = refund[c].ord, refund'[c].path = refund[c].path,
             \/ refund'[c].at = "read" \/ refund[c].at # "read"
             \/ status'[refund[c].ord] = "Refunded"
      PROVE  RefundAt(c)'
  <2> DEFINE o == refund[c].ord
  <2>1. o \in Requests /\ teamOf[o] \in Teams /\ teamOf'[o] = teamOf[o]
    BY <1>2, RefundKnown, OrderMoves
  <2>2. ~Releases(refund[c].path) => team'[teamOf[o]].status \notin {"none", "Forming"}
    BY <1>2, <2>1, TeamMoves DEF RefundAt
  <2>3. refund'[c].at # "read" =>
          status'[o] = "Refunded" \/ o \in doubled' \/ team'[teamOf[o]].status = "deleted"
    BY <1>2, <2>1, TeamMoves, RefundedStays DEF RefundAt
  <2> QED
    BY <1>2, <2>1, <2>2, <2>3 DEF RefundAt, Releases
<1> QED
  BY <1>1, <1>2, CallerMoves

-----------------------------------------------------------------------------
(* A step of one request, and what it leaves alone.                        *)

Frame(r) ==
  /\ \A s \in Requests \ {r} :
       /\ pc'[s] = pc[s] /\ goal'[s] = goal[s] /\ saw'[s] = saw[s]
       /\ direct'[s] = direct[s] /\ status'[s] = status[s] /\ teamOf'[s] = teamOf[s]
  /\ \A k \in Keys \ {KeyOf(r)} : lock'[k] = lock[k] /\ cached'[k] = cached[k]
  /\ refund' = refund
  /\ unguarded \subseteq unguarded' /\ unguarded' \subseteq unguarded \union {KeyOf(r)}
  /\ crossed \subseteq crossed' /\ lapsed' = lapsed
  /\ unbacked \subseteq unbacked' /\ unbacked' \subseteq unbacked \union {r}

LEMMA CommitFrame ==
  ASSUME TypeOK, NEW r \in Requests, NEW n \in Targets, Commit(r, n)
  PROVE  /\ \A s \in Requests \ {r} : status'[s] = status[s] /\ teamOf'[s] = teamOf[s]
         /\ status[r] = "none" /\ status'[r] = "Locked" /\ teamOf'[r] = goal[r]
         /\ RowsOf(TradeOf[r]) = {} /\ pc[r] = "insert"
         /\ UNCHANGED <<refund, expired, stranded, doubled>>
  BY DEF Commit, JoinTx, L!CreateTeamWithOrder, L!JoinTeamWithOrder, L!Insert, TypeOK, L!TypeOK

LEMMA UndoFrame ==
  ASSUME TypeOK, NEW r \in Requests, UndoTables(r)
  PROVE  /\ \A s \in Requests \ {r} : status'[s] = status[s]
         /\ status'[r] = "deleted" /\ pc[r] = "undo_db" /\ pc'[r] = "done"
         /\ UNCHANGED <<teamOf, refund, expired, goal, saw, direct, cached, history, gateVars>>
         /\ Return(r)
  BY DEF UndoTables, L!RollbackNewTeam, L!RollbackJoinTeam, L!DeleteOrder, Return, TypeOK, L!TypeOK

LEMMA FrameStep ==
  ASSUME TypeOK, NEW r \in Requests, LockStep(r) \/ Crash(r)
  PROVE  Frame(r)
<1> FlowTypes
  BY TypesOfParts
<1> USE KeyKnown DEF FlowTypes
<1>1. CASE \/ CacheHit(r) \/ CacheMiss(r) \/ AcquireLock(r) \/ LockHeld(r) \/ RecheckCached(r)
           \/ FindExistingOrder(r) \/ CacheExisting(r)
  BY <1>1, SMTT(30) DEF CacheHit, CacheMiss, AcquireLock, LockHeld, RecheckCached,
    FindExistingOrder, CacheExisting, Goto, Return, ledgerVars, history, Frame
<1>2. CASE Proceed(r) \/ ProceedBlindly(r) \/ ProceedBesideForeign(r)
  BY <1>2, SMTT(30) DEF Proceed, ProceedBlindly, ProceedBesideForeign, Pass, ToTeam, ToDirect,
    Goto, ledgerVars, Frame
<1>3. ASSUME NEW n \in Targets, Occupy(r, n) \/ OccupyUnanswered(r, n) PROVE Frame(r)
  BY <1>3 DEF Occupy, OccupyUnanswered, Goto, Return, ledgerVars, history, Frame
<1>4. ASSUME NEW n \in Targets, InsertOrder(r, n) \/ CommitLost(r, n) PROVE Frame(r)
  BY <1>4, CommitFrame DEF InsertOrder, CommitLost, Goto, history, Frame
<1>5. CASE \/ Refuse(r) \/ CheckTeam(r) \/ InsertRefused(r) \/ StatementFails(r)
           \/ MarkFull(r) \/ PaymentFails(r) \/ CacheResult(r)
  BY <1>5, SMTT(30) DEF Refuse, CheckTeam, InsertRefused, StatementFails, MarkFull,
    PaymentFails, CacheResult, Goto, Return, ledgerVars, history, Frame
<1>6. CASE GiveBack(r) \/ ReleaseUnanswered(r) \/ ReleaseFails(r) \/ UndoGate(r)
  BY <1>6, SMTT(30) DEF GiveBack, ReleaseUnanswered, ReleaseFails, UndoGate, Goto, Return,
    ledgerVars, Frame
<1>7. CASE PaymentCreated(r) \/ UndoTablesFails(r)
  BY <1>7, SMTT(30) DEF PaymentCreated, UndoTablesFails, L!PaymentCreated, Goto, Return, history,
    Frame
<1>8. CASE UndoTables(r)
  BY <1>8, UndoFrame DEF Return, history, Frame
<1>9. CASE CreateDirectOrder(r) \/ DirectRefused(r) \/ DirectPayment(r) \/ DeleteOrder(r)
  BY <1>9, SMTT(30) DEF CreateDirectOrder, DirectRefused, DirectPayment, DeleteOrder,
    Goto, Return, ledgerVars, history, Frame
<1>10. CASE Crash(r)
  BY <1>10 DEF Crash, Frame
<1> QED
  BY <1>1, <1>2, <1>3, <1>4, <1>5, <1>6, <1>7, <1>8, <1>9, <1>10 DEF LockStep

\* Everybody else: settlements, refunds, and the clock.
Beside ==
  \/ \E r \in Requests : Settle(r) \/ DirectLeaves(r)
  \/ \E k \in Keys : LockExpires(k) \/ CacheExpires(k)
  \/ \E t \in Teams : TeamExpires(t) \/ HoldersExpire(t) \/ FlagExpires(t)
  \/ \E c \in Callers : RefundStep(c)

LEMMA StepKinds ==
  ASSUME [Next]_vars
  PROVE  \/ \E r \in Requests : LockStep(r) \/ Crash(r)
         \/ Beside
         \/ UNCHANGED vars
  BY DEF Next, Beside

\* Nobody else moves a request, deletes an order or makes a new one.
OnlyOrdersLeave ==
  /\ UNCHANGED <<pc, goal, saw, teamOf, unbacked>>
  /\ unguarded \subseteq unguarded' /\ crossed' = crossed /\ lapsed \subseteq lapsed'
  /\ \A r \in Requests :
       /\ \/ status'[r] = status[r]
          \/ status[r] \in {"Locked", "Paid"} /\ status'[r] \in {"Paid", "Refunded"}
       /\ \/ direct'[r] = direct[r]
          \/ direct[r] \in {"Locked", "Paid"} /\ direct'[r] \in {"Paid", "Refunded"}

LEMMA BesideFrame ==
  ASSUME TypeOK, L!IInv, Beside \/ UNCHANGED vars
  PROVE  OnlyOrdersLeave
<1> FlowTypes /\ L!TypeOK
  BY TypesOfParts
<1> USE DEF FlowTypes, OnlyOrdersLeave
<1>1. ASSUME NEW r \in Requests, Settle(r) PROVE OnlyOrdersLeave
  BY <1>1 DEF Settle, L!SettleOrder, L!Settleable, L!TypeOK, flowVars, history
<1>2. ASSUME NEW r \in Requests, DirectLeaves(r) PROVE OnlyOrdersLeave
  BY <1>2 DEF DirectLeaves, history, ledgerVars
<1>3. ASSUME NEW k \in Keys, LockExpires(k) \/ CacheExpires(k) PROVE OnlyOrdersLeave
  BY <1>3 DEF LockExpires, CacheExpires, history, ledgerVars
<1>4. ASSUME NEW t \in Teams, TeamExpires(t) \/ HoldersExpire(t) \/ FlagExpires(t)
      PROVE  OnlyOrdersLeave
  BY <1>4 DEF TeamExpires, HoldersExpire, FlagExpires, L!TeamExpires, flowVars, history, ledgerVars
<1>5. ASSUME NEW c \in Callers, RefundStep(c) PROVE OnlyOrdersLeave
  <2>1. CASE L!FlipOrder(c) /\ UNCHANGED flowVars
    <3>1. refund[c] # L!Idle
      BY <2>1 DEF L!FlipOrder, L!Idle
    <3> QED
      BY <2>1, <3>1, RefundKnown
      DEF L!FlipOrder, L!StillAsRead, L!FromStatus, L!TypeOK, flowVars, history
  <2> QED
    BY <1>5, <2>1 DEF RefundStep, RefundTables, RefundTail, RefundReleaseUnanswered,
      RefundStops, flowVars, ledgerVars, history, L!ReadForRefund, L!LoseRace, L!UpdateTeam,
      L!UpdateTeamFails, L!FinishRefund, L!AbandonRefund
<1>6. CASE UNCHANGED vars
  BY <1>6 DEF vars, flowVars, history, ledgerVars
<1> QED
  BY <1>1, <1>2, <1>3, <1>4, <1>5, <1>6 DEF Beside

-----------------------------------------------------------------------------
(* The rows of a request, and of an outTradeNo.                            *)

\* A request that stands still while its order may be settled or refunded.
LEMMA RowAtKept ==
  ASSUME L!IInv, [L!Next]_ledgerVars, NEW r \in Requests, RowAt(r),
         pc'[r] = pc[r], goal'[r] = goal[r], unbacked \subseteq unbacked',
         status'[r] = status[r] \/ (status[r] # "none" /\ status'[r] # "deleted"),
         direct'[r] = direct[r] \/ (direct[r] # "none" /\ direct'[r] # "deleted"),
         status[r] = "none" => teamOf'[r] = teamOf[r]
  PROVE  RowAt(r)'
  BY OrderMoves DEF RowAt

LEMMA RowAtOwn ==
  ASSUME TypeOK, L!IInv, NEW r \in Requests, RowAt(r), LockStep(r) \/ Crash(r)
  PROVE  RowAt(r)'
<1> FlowTypes
  BY TypesOfParts
<1> USE DEF FlowTypes
<1>1. CASE \/ CacheHit(r) \/ CacheMiss(r) \/ AcquireLock(r) \/ LockHeld(r) \/ RecheckCached(r)
           \/ FindExistingOrder(r) \/ CacheExisting(r) \/ Refuse(r)
  BY <1>1, SMTT(30) DEF CacheHit, CacheMiss, AcquireLock, LockHeld, RecheckCached,
    FindExistingOrder, CacheExisting, Refuse, Goto, Return, ledgerVars, history, RowAt
<1>2. CASE Proceed(r) \/ ProceedBlindly(r) \/ ProceedBesideForeign(r)
  BY <1>2, SMTT(30) DEF Proceed, ProceedBlindly, ProceedBesideForeign, Pass, ToTeam, ToDirect,
    Goto, ledgerVars, RowAt
<1>3. ASSUME NEW n \in Targets, Occupy(r, n) \/ OccupyUnanswered(r, n) PROVE RowAt(r)'
  BY <1>3, SMTT(30) DEF Occupy, OccupyUnanswered, Goto, Return, ledgerVars, history, RowAt
<1>4. ASSUME NEW n \in Targets, InsertOrder(r, n) \/ CommitLost(r, n) PROVE RowAt(r)'
  BY <1>4, CommitFrame DEF InsertOrder, CommitLost, Goto, history, RowAt
<1>5. CASE \/ CheckTeam(r) \/ InsertRefused(r) \/ StatementFails(r) \/ MarkFull(r)
           \/ PaymentFails(r) \/ CacheResult(r)
  BY <1>5, SMTT(30) DEF CheckTeam, InsertRefused, StatementFails, MarkFull, RefusedTo,
    PaymentFails, CacheResult, Goto, Return, ledgerVars, history, RowAt
<1>6. CASE GiveBack(r) \/ ReleaseUnanswered(r) \/ ReleaseFails(r) \/ UndoGate(r)
  BY <1>6, SMTT(30) DEF GiveBack, ReleaseUnanswered, ReleaseFails, UndoGate, Goto, Return,
    ledgerVars, RowAt
<1>7. CASE PaymentCreated(r) \/ UndoTablesFails(r)
  BY <1>7, SMTT(30) DEF PaymentCreated, UndoTablesFails, L!PaymentCreated, Goto, Return, history,
    RowAt
<1>8. CASE UndoTables(r)
  <2>1. status[r] # "none"
    BY <1>8 DEF UndoTables, L!RollbackNewTeam, L!RollbackJoinTeam, L!IInv, L!Untouched
  <2> QED
    BY <1>8, <2>1, UndoFrame DEF Return, history, RowAt
<1>9. CASE CreateDirectOrder(r) \/ DirectRefused(r) \/ DirectPayment(r) \/ DeleteOrder(r)
  BY <1>9, SMTT(30) DEF CreateDirectOrder, DirectRefused, DirectPayment, DeleteOrder,
    Goto, Return, ledgerVars, history, RowAt
<1>10. CASE Crash(r)
  BY <1>10 DEF Crash, Running, RowAt
<1> QED
  BY <1>1, <1>2, <1>3, <1>4, <1>5, <1>6, <1>7, <1>8, <1>9, <1>10 DEF LockStep

LEMMA RowAtStep ==
  ASSUME TypeOK, L!IInv, \A r \in Requests : RowAt(r), [Next]_vars, NEW s \in Requests
  PROVE  RowAt(s)'
<1>1. [L!Next]_ledgerVars
  BY LedgerStep
<1>2. ASSUME NEW r \in Requests, LockStep(r) \/ Crash(r) PROVE RowAt(s)'
  <2>1. CASE s = r
    BY <1>2, <2>1, RowAtOwn
  <2>2. CASE s # r
    BY <1>1, <1>2, <2>2, FrameStep, RowAtKept DEF Frame
  <2> QED
    BY <2>1, <2>2
<1>3. ASSUME Beside \/ UNCHANGED vars PROVE RowAt(s)'
  <2>1. OnlyOrdersLeave
    BY <1>3, BesideFrame
  <2> QED
    BY <1>1, <2>1, RowAtKept DEF OnlyOrdersLeave
<1> QED
  BY <1>2, <1>3, StepKinds

-----------------------------------------------------------------------------
(* Lock, look-up and unique key.                                           *)

\* What a request does to its lock and to the rows of its outTradeNo.
LockMove(r) ==
  LET k == KeyOf(r)
      x == TradeOf[r]
  IN  /\ lock'[k] = lock[k] \/ lock[k] \in {NoReq, r}
      /\ Running(r)' =>
           \/ Running(r) /\ lock'[k] = lock[k]
           \/ pc'[r] = "recheck" /\ lock'[k] = r /\ (Meets(r) => x \in crossed')
      /\ pc[r] \in {"recheck", "found"} /\ Looked(r)' =>
           /\ OwnRows(r) = {} \/ k \in unguarded'
           /\ RowsOf(x) \subseteq OwnRows(r) \/ x \in crossed'
      /\ \/ RowsOf(x) = {} /\ pc[r] \in {"insert", "buy"}
         \/ /\ status'[r] \in Stored => status[r] \in Stored
            /\ direct'[r] \in Stored => direct[r] \in Stored

LEMMA LockMoves ==
  ASSUME TypeOK, NEW r \in Requests, UniqueRow(TradeOf[r]), LockStep(r) \/ Crash(r)
  PROVE  LockMove(r)
<1> FlowTypes
  BY TypesOfParts
<1> USE KeyKnown DEF FlowTypes, LockMove, Looked, Running
<1>1. CASE \/ CacheHit(r) \/ CacheMiss(r) \/ AcquireLock(r) \/ LockHeld(r) \/ RecheckCached(r)
           \/ FindExistingOrder(r) \/ CacheExisting(r) \/ Refuse(r)
  BY <1>1, SMTT(30) DEF CacheHit, CacheMiss, AcquireLock, LockHeld, Acquirable, RecheckCached,
    FindExistingOrder, CacheExisting, Refuse, Goto, Return, FreeOwnLock, ledgerVars, history
<1>2. CASE Proceed(r) \/ ProceedBlindly(r) \/ ProceedBesideForeign(r)
  <2>1. OwnRows(r) = {} \/ KeyOf(r) \in unguarded'
    BY <1>2 DEF Proceed, ProceedBlindly, ProceedBesideForeign, Unknown, OwnRows
  <2>2. OwnRows(r) # {} => RowsOf(TradeOf[r]) \subseteq OwnRows(r)
    BY DEF UniqueRow, OwnRows
  <2>3. RowsOf(TradeOf[r]) \subseteq OwnRows(r) \/ TradeOf[r] \in crossed'
    BY <1>2, <2>2 DEF Proceed, ProceedBlindly, ProceedBesideForeign, Unknown
  <2>4. pc[r] = "recheck" /\ lock' = lock /\ UNCHANGED <<direct, status>>
    BY <1>2 DEF Proceed, ProceedBlindly, ProceedBesideForeign, Pass, ToTeam, ToDirect, Goto,
      ledgerVars
  <2> QED
    BY <2>1, <2>3, <2>4
<1>3. ASSUME NEW n \in Targets, Occupy(r, n) \/ OccupyUnanswered(r, n) PROVE LockMove(r)
  BY <1>3, SMTT(30) DEF Occupy, OccupyUnanswered, Goto, Return, FreeOwnLock, ledgerVars, history
<1>4. ASSUME NEW n \in Targets, InsertOrder(r, n) \/ CommitLost(r, n) PROVE LockMove(r)
  BY <1>4, CommitFrame DEF InsertOrder, CommitLost, Goto, history
<1>5. CASE \/ CheckTeam(r) \/ InsertRefused(r) \/ StatementFails(r) \/ MarkFull(r)
           \/ PaymentFails(r) \/ CacheResult(r)
  BY <1>5, SMTT(30) DEF CheckTeam, InsertRefused, StatementFails, MarkFull, RefusedTo,
    PaymentFails, CacheResult, Goto, Return, FreeOwnLock, ledgerVars, history
<1>6. CASE GiveBack(r) \/ ReleaseUnanswered(r) \/ ReleaseFails(r) \/ UndoGate(r)
  BY <1>6, SMTT(30) DEF GiveBack, ReleaseUnanswered, ReleaseFails, UndoGate, Goto, Return,
    FreeOwnLock, ledgerVars
<1>7. CASE PaymentCreated(r) \/ UndoTablesFails(r)
  BY <1>7, SMTT(30) DEF PaymentCreated, UndoTablesFails, L!PaymentCreated, Goto, Return, FreeOwnLock
<1>8. CASE UndoTables(r)
  BY <1>8, UndoFrame DEF Return, FreeOwnLock, Stored
<1>9. CASE CreateDirectOrder(r) \/ DirectRefused(r) \/ DirectPayment(r) \/ DeleteOrder(r)
  BY <1>9, SMTT(30) DEF CreateDirectOrder, DirectRefused, DirectPayment, DeleteOrder, Stored,
    Goto, Return, FreeOwnLock, ledgerVars, history
<1>10. CASE Crash(r)
  BY <1>10 DEF Crash
<1> QED
  BY <1>1, <1>2, <1>3, <1>4, <1>5, <1>6, <1>7, <1>8, <1>9, <1>10 DEF LockStep

\* A new row is the only one of its outTradeNo.
LEMMA RowsOwn ==
  ASSUME NEW r \in Requests, Frame(r), LockMove(r), NEW x \in Trades
  PROVE  \/ RowsOf(x)' \subseteq RowsOf(x)
         \/ /\ RowsOf(x) = {} /\ RowsOf(x)' \subseteq {r}
            /\ TradeOf[r] = x /\ pc[r] \in {"insert", "buy"}
  BY DEF Frame, LockMove, RowsOf

LEMMA RowsBeside ==
  ASSUME OnlyOrdersLeave, NEW x \in Trades
  PROVE  RowsOf(x)' \subseteq RowsOf(x)
  BY DEF OnlyOrdersLeave, RowsOf, Stored

LEMMA UniqueRowStep ==
  ASSUME TypeOK, L!IInv, [Next]_vars, \A y \in Trades : UniqueRow(y), NEW x \in Trades
  PROVE  UniqueRow(x)'
<1>1. ASSUME NEW r \in Requests, LockStep(r) \/ Crash(r) PROVE UniqueRow(x)'
  BY <1>1, TradeKnown, FrameStep, LockMoves, RowsOwn DEF UniqueRow
<1>2. ASSUME Beside \/ UNCHANGED vars PROVE UniqueRow(x)'
  BY <1>2, BesideFrame, RowsBeside DEF UniqueRow
<1> QED
  BY <1>1, <1>2, StepKinds

LEMMA LockExpiry ==
  ASSUME TypeOK, Beside \/ UNCHANGED vars, NEW k \in Keys
  PROVE  \/ lock'[k] = lock[k]
         \/ lock[k] \in Requests /\ (Running(lock[k]) => k \in unguarded')
<1> FlowTypes
  BY TypesOfParts
<1>1. ASSUME NEW j \in Keys, LockExpires(j)
      PROVE  \/ lock'[k] = lock[k]
             \/ lock[k] \in Requests /\ (Running(lock[k]) => k \in unguarded')
  BY <1>1, FlowAssumption DEF LockExpires, FlowTypes
<1>2. ASSUME NEW c \in Callers, RefundStep(c) PROVE lock' = lock
  BY <1>2 DEF RefundStep, RefundTables, RefundTail, RefundReleaseUnanswered, RefundStops, flowVars
<1>3. CASE UNCHANGED vars
  BY <1>3 DEF vars, flowVars
<1> QED
  BY <1>1, <1>2, <1>3 DEF Beside, Settle, DirectLeaves, CacheExpires, TeamExpires, HoldersExpire,
    FlagExpires, flowVars

\* Two calls of one user and outTradeNo are never both past the lock.
LEMMA OneAtATime ==
  ASSUME NEW r \in Requests, NEW s \in Requests, TradeOf[r] = TradeOf[s], SameUser(r, s),
         KeptApart(r), KeptApart(s), Running(r), Running(s), KeyOf(r) \notin unguarded
  PROVE  r = s
  BY DEF KeptApart, KeyOf, SameUser

\* Nor are two calls of an outTradeNo of any users, unless they are remembered.
LEMMA NeverTwo ==
  ASSUME NEW r \in Requests, NEW s \in Requests, TradeOf[r] = TradeOf[s],
         KeptApart(r), KeptApart(s), Running(r), Running(s), ~Disturbed(TradeOf[r])
  PROVE  r = s
<1>1. KeyOf(r) \notin unguarded /\ TradeOf[r] \notin crossed
  BY FlowAssumption DEF Disturbed, KeyOf
<1>2. SameUser(r, s)
  BY <1>1 DEF KeptApart, Meets
<1> QED
  BY <1>1, <1>2, OneAtATime

\* What the look-up of an undisturbed call leaves in the table.
LEMMA LookedAlone ==
  ASSUME NEW r \in Requests, KeptApart(r), Looked(r), ~Disturbed(TradeOf[r])
  PROVE  RowsOf(TradeOf[r]) \subseteq {r}
<1>1. KeyOf(r) \notin unguarded /\ TradeOf[r] \notin crossed
  BY FlowAssumption DEF Disturbed, KeyOf
<1> QED
  BY <1>1 DEF KeptApart, Looked

\* KeptApart, of one request and its own user.
OwnApart(r) == lock[KeyOf(r)] = r /\ (Looked(r) => OwnRows(r) \subseteq {r})

\* KeptApart, of one request and the other users.
OthersApart(r) == ~Meets(r) /\ (Looked(r) => RowsOf(TradeOf[r]) \subseteq OwnRows(r))

LEMMA ApartParts ==
  ASSUME NEW r \in Requests
  PROVE  KeptApart(r) <=> /\ Running(r) /\ KeyOf(r) \notin unguarded => OwnApart(r)
                          /\ Running(r) /\ TradeOf[r] \notin crossed => OthersApart(r)
  BY DEF KeptApart, OwnApart, OthersApart

\* Rows of others come and go without those of this user changing.
LEMMA OwnRowsOf ==
  ASSUME NEW s \in Requests, RowsOf(TradeOf[s])' \subseteq RowsOf(TradeOf[s])
  PROVE  /\ OwnRows(s)' \subseteq OwnRows(s)
         /\ RowsOf(TradeOf[s]) \subseteq OwnRows(s) => RowsOf(TradeOf[s])' \subseteq OwnRows(s)'
  BY DEF OwnRows, SameUser

LEMMA OwnApartStep ==
  ASSUME TypeOK, L!IInv, \A r \in Requests : KeptApart(r), \A x \in Trades : UniqueRow(x),
         [Next]_vars, NEW s \in Requests, Running(s)', KeyOf(s) \notin unguarded'
  PROVE  OwnApart(s)'
<1> DEFINE x == TradeOf[s]
           k == KeyOf(s)
<1>0. x \in Trades /\ k \in Keys /\ NoReq # s
  BY TradeKnown, KeyKnown, FlowAssumption
<1>1. ASSUME NEW r \in Requests, LockStep(r) \/ Crash(r) PROVE OwnApart(s)'
  <2> Frame(r) /\ LockMove(r) /\ KeptApart(s) /\ KeptApart(r)
    BY <1>1, TradeKnown, FrameStep, LockMoves
  <2>1. k \notin unguarded
    BY DEF Frame
  <2>2. CASE s = r
    <3>1. lock'[k] = s
      BY <2>1, <2>2, ApartParts DEF LockMove, OwnApart
    <3>2. Looked(s)' => OwnRows(s) \subseteq {s}
      BY <2>1, <2>2, ApartParts DEF LockMove, OwnApart, Looked, Running
    <3>3. OwnRows(s)' \subseteq OwnRows(s) \/ OwnRows(s)' \subseteq {s}
      BY <1>0, <2>2, RowsOwn, OwnRowsOf DEF OwnRows, SameUser
    <3> QED
      BY <3>1, <3>2, <3>3 DEF OwnApart
  <2>3. CASE s # r
    <3>1. Running(s) /\ pc'[s] = pc[s]
      BY <2>3 DEF Frame, Running
    <3>2. lock[k] = s /\ (Looked(s) => OwnRows(s) \subseteq {s})
      BY <2>1, <3>1, ApartParts DEF OwnApart
    <3>3. lock'[k] = s
      <4>1. CASE KeyOf(r) = k
        BY <1>0, <2>3, <3>2, <4>1 DEF LockMove
      <4>2. CASE KeyOf(r) # k
        BY <1>0, <3>2, <4>2 DEF Frame
      <4> QED
        BY <4>1, <4>2
    <3>4. OwnRows(s)' \subseteq OwnRows(s)
      <4>1. CASE RowsOf(x)' \subseteq RowsOf(x)
        BY <4>1, OwnRowsOf
      <4>2. CASE RowsOf(x)' \subseteq {r} /\ TradeOf[r] = x /\ pc[r] \in {"insert", "buy"}
        <5>1. ~SameUser(s, r)
          <6>1. SameUser(s, r) => SameUser(r, s) /\ KeyOf(r) = k
            BY <4>2 DEF SameUser, KeyOf
          <6> QED
            BY <2>1, <2>3, <3>1, <4>2, <6>1, OneAtATime DEF Running
        <5> QED
          BY <4>2, <5>1 DEF OwnRows, SameUser
      <4> QED
        BY <1>0, <4>1, <4>2, RowsOwn
    <3> QED
      BY <3>1, <3>2, <3>3, <3>4 DEF OwnApart, Looked, Running
  <2> QED
    BY <2>2, <2>3
<1>2. ASSUME Beside \/ UNCHANGED vars PROVE OwnApart(s)'
  <2>1. OnlyOrdersLeave /\ OwnRows(s)' \subseteq OwnRows(s)
    BY <1>0, <1>2, BesideFrame, RowsBeside, OwnRowsOf
  <2>2. Running(s) /\ k \notin unguarded /\ pc'[s] = pc[s] /\ KeptApart(s)
    BY <2>1 DEF OnlyOrdersLeave, Running
  <2>3. lock[k] = s /\ (Looked(s) => OwnRows(s) \subseteq {s})
    BY <2>2, ApartParts DEF OwnApart
  <2>4. lock'[k] = s
    BY <1>0, <1>2, <2>2, <2>3, LockExpiry
  <2> QED
    BY <2>1, <2>2, <2>3, <2>4 DEF OwnApart, Looked, Running
<1> QED
  BY <1>1, <1>2, StepKinds

LEMMA OthersApartStep ==
  ASSUME TypeOK, L!IInv, \A r \in Requests : KeptApart(r), \A x \in Trades : UniqueRow(x),
         [Next]_vars, NEW s \in Requests, Running(s)', TradeOf[s] \notin crossed'
  PROVE  OthersApart(s)'
<1> DEFINE x == TradeOf[s]
<1>0. x \in Trades
  BY TradeKnown
<1>1. ASSUME NEW r \in Requests, LockStep(r) \/ Crash(r) PROVE OthersApart(s)'
  <2> Frame(r) /\ LockMove(r) /\ KeptApart(s) /\ KeptApart(r)
    BY <1>1, TradeKnown, FrameStep, LockMoves
  <2>1. x \notin crossed
    BY DEF Frame
  <2>2. \A q \in Requests \ {r} : Running(q)' <=> Running(q)
    BY DEF Frame, Running
  <2>3. CASE s = r
    <3>1. ~Meets(s)
      BY <2>1, <2>3, ApartParts DEF LockMove, OthersApart
    <3>2. ~Meets(s)'
      BY <2>2, <2>3, <3>1 DEF Meets, SameUser
    <3>3. Looked(s)' => RowsOf(x) \subseteq OwnRows(s)
      BY <2>1, <2>3, ApartParts DEF LockMove, OthersApart, Looked, Running
    <3>4. \/ RowsOf(x)' \subseteq RowsOf(x)
          \/ RowsOf(x)' \subseteq {s}
      BY <1>0, <2>3, RowsOwn
    <3>5. RowsOf(x)' \subseteq {s} => RowsOf(x)' \subseteq OwnRows(s)'
      BY DEF OwnRows, SameUser
    <3> QED
      BY <3>2, <3>3, <3>4, <3>5, OwnRowsOf DEF OthersApart
  <2>4. CASE s # r
    <3>1. Running(s) /\ pc'[s] = pc[s]
      BY <2>4 DEF Frame, Running
    <3>2. ~Meets(s) /\ (Looked(s) => RowsOf(x) \subseteq OwnRows(s))
      BY <2>1, <3>1, ApartParts DEF OthersApart
    <3>3. ~Meets(s)'
      <4>1. CASE TradeOf[r] = x /\ ~SameUser(s, r) /\ Running(r)'
        <5>1. Meets(r)
          BY <3>1, <4>1 DEF Meets, SameUser
        <5>2. ~Running(r)
          BY <3>2, <4>1 DEF Meets
        <5> QED
          BY <4>1, <5>1, <5>2 DEF LockMove
      <4> QED
        BY <2>2, <3>2, <4>1 DEF Meets, SameUser
    <3>4. CASE RowsOf(x)' \subseteq RowsOf(x)
      BY <3>1, <3>2, <3>3, <3>4, OwnRowsOf DEF OthersApart, Looked, Running
    <3>5. CASE RowsOf(x)' \subseteq {r} /\ TradeOf[r] = x /\ pc[r] \in {"insert", "buy"}
      <4>1. SameUser(s, r)
        BY <3>2, <3>5 DEF Meets, Running
      <4>2. RowsOf(x)' \subseteq OwnRows(s)'
        BY <3>5, <4>1 DEF OwnRows, SameUser
      <4> QED
        BY <3>3, <4>2 DEF OthersApart
    <3> QED
      BY <1>0, <3>4, <3>5, RowsOwn
  <2> QED
    BY <2>3, <2>4
<1>2. ASSUME Beside \/ UNCHANGED vars PROVE OthersApart(s)'
  <2>1. OnlyOrdersLeave /\ RowsOf(x)' \subseteq RowsOf(x)
    BY <1>0, <1>2, BesideFrame, RowsBeside
  <2>2. Running(s) /\ x \notin crossed /\ pc' = pc /\ KeptApart(s)
    BY <2>1 DEF OnlyOrdersLeave, Running
  <2>3. ~Meets(s) /\ (Looked(s) => RowsOf(x) \subseteq OwnRows(s))
    BY <2>2, ApartParts DEF OthersApart
  <2>4. ~Meets(s)'
    BY <2>2, <2>3 DEF Meets, Running, SameUser
  <2> QED
    BY <2>1, <2>2, <2>3, <2>4, OwnRowsOf DEF OthersApart, Looked, Running
<1> QED
  BY <1>1, <1>2, StepKinds

LEMMA KeptApartStep ==
  ASSUME TypeOK, L!IInv, \A r \in Requests : KeptApart(r), \A x \in Trades : UniqueRow(x),
         [Next]_vars, NEW s \in Requests
  PROVE  KeptApart(s)'
<1>1. Running(s)' /\ KeyOf(s) \notin unguarded' => OwnApart(s)'
  BY OwnApartStep
<1>2. Running(s)' /\ TradeOf[s] \notin crossed' => OthersApart(s)'
  BY OthersApartStep
<1> QED
  BY <1>1, <1>2 DEF KeptApart, OwnApart, OthersApart, KeyOf

-----------------------------------------------------------------------------
(* The result cache.                                                       *)

LastsOn(r) == pc'[r] \in {"done", "dead"} /\ status'[r] # "deleted" /\ direct'[r] # "deleted"

LEMMA LastingStays ==
  ASSUME TypeOK, L!IInv, [Next]_vars, NEW s \in Requests, Lasting(s)
  PROVE  LastsOn(s)
<1>1. ASSUME NEW r \in Requests, LockStep(r) \/ Crash(r) PROVE LastsOn(s)
  <2>1. Frame(r)
    BY <1>1, FrameStep
  <2>2. s # r
    BY <1>1 DEF Lasting, LockStep, Crash, Running, CacheHit, CacheMiss, AcquireLock, LockHeld,
      RecheckCached, FindExistingOrder, CacheExisting, Proceed, ProceedBlindly,
      ProceedBesideForeign, Pass, Refuse, Occupy, OccupyUnanswered, InsertOrder, CommitLost,
      Commit, CheckTeam, InsertRefused, StatementFails, GiveBack, ReleaseUnanswered, ReleaseFails,
      MarkFull, PaymentCreated, PaymentFails, UndoGate, UndoTables, UndoTablesFails, CacheResult,
      CreateDirectOrder, DirectRefused, DirectPayment, DeleteOrder
  <2> QED
    BY <2>1, <2>2 DEF Frame, Lasting, LastsOn
<1>2. ASSUME Beside \/ UNCHANGED vars PROVE LastsOn(s)
  BY <1>2, BesideFrame DEF OnlyOrdersLeave, Lasting, LastsOn
<1> QED
  BY <1>1, <1>2, StepKinds

\* What the look-up finds under the lock is nobody's to roll back any more.
LEMMA FoundLasts ==
  ASSUME NEW r \in Requests, NEW s \in OwnRows(r), pc[r] = "recheck",
         KeyOf(r) \notin unguarded, \A q \in Requests : RowAt(q) /\ KeptApart(q)
  PROVE  Lasting(s)
<1>1. /\ s \in Requests /\ TradeOf[s] = TradeOf[r] /\ SameUser(r, s)
      /\ status[s] \in Stored \/ direct[s] \in Stored
  BY DEF OwnRows, RowsOf
<1>2. s # r
  BY <1>1 DEF RowAt, Stored
<1>3. ~Running(s)
  BY <1>1, <1>2, OneAtATime DEF Running
<1> QED
  BY <1>1, <1>3 DEF Running, RowAt, Lasting, Stored

\* Two steps write what a request saw.
LEMMA SawMoves ==
  ASSUME TypeOK, NEW r \in Requests, LockStep(r) \/ Crash(r), pc'[r] = "found"
  PROVE  pc[r] = "recheck" /\ saw'[r] \in OwnRows(r)
<1> FlowTypes
  BY TypesOfParts
<1>1. CASE FindExistingOrder(r)
  <2>1. PICK s \in OwnRows(r) : saw' = [saw EXCEPT ![r] = s]
    BY <1>1 DEF FindExistingOrder
  <2> QED
    BY <1>1, <2>1 DEF FindExistingOrder, FlowTypes
<1>2. CASE \/ CacheHit(r) \/ CacheMiss(r) \/ AcquireLock(r) \/ LockHeld(r) \/ RecheckCached(r)
           \/ CacheExisting(r) \/ Refuse(r) \/ Proceed(r) \/ ProceedBlindly(r)
           \/ ProceedBesideForeign(r)
  BY <1>2, SMTT(30) DEF CacheHit, CacheMiss, AcquireLock, LockHeld, RecheckCached, CacheExisting,
    Refuse, Proceed, ProceedBlindly, ProceedBesideForeign, Pass, ToTeam, ToDirect, Goto, Return,
    FlowTypes
<1>3. ASSUME NEW n \in Targets,
             Occupy(r, n) \/ OccupyUnanswered(r, n) \/ InsertOrder(r, n) \/ CommitLost(r, n)
      PROVE  FALSE
  BY <1>3, SMTT(30) DEF Occupy, OccupyUnanswered, InsertOrder, CommitLost, Goto, Return, FlowTypes
<1>4. CASE \/ CheckTeam(r) \/ InsertRefused(r) \/ StatementFails(r) \/ MarkFull(r)
           \/ PaymentFails(r) \/ CacheResult(r) \/ GiveBack(r) \/ ReleaseUnanswered(r)
           \/ ReleaseFails(r) \/ UndoGate(r)
  BY <1>4, SMTT(30) DEF CheckTeam, InsertRefused, StatementFails, MarkFull, PaymentFails,
    RefusedTo, CacheResult, GiveBack, ReleaseUnanswered, ReleaseFails, UndoGate, Goto, Return,
    FlowTypes
<1>5. CASE \/ PaymentCreated(r) \/ UndoTablesFails(r) \/ UndoTables(r)
           \/ CreateDirectOrder(r) \/ DirectRefused(r) \/ DirectPayment(r) \/ DeleteOrder(r)
  BY <1>5, SMTT(30) DEF PaymentCreated, UndoTablesFails, UndoTables, CreateDirectOrder,
    DirectRefused, DirectPayment, DeleteOrder, Goto, Return, FlowTypes
<1>6. CASE Crash(r)
  BY <1>6 DEF Crash, FlowTypes
<1> QED
  BY <1>1, <1>2, <1>3, <1>4, <1>5, <1>6 DEF LockStep

LEMMA SawLastingStep ==
  ASSUME TypeOK, L!IInv, \A r \in Requests : RowAt(r) /\ KeptApart(r), [Next]_vars,
         NEW s \in Requests, SawLasting(s)
  PROVE  SawLasting(s)'
<1> SUFFICES ASSUME pc'[s] = "found"
             PROVE  /\ saw'[s] \in Requests
                    /\ KeyOf(s) \notin unguarded' => LastsOn(saw'[s])
  BY DEF SawLasting, Lasting, LastsOn, KeyOf
<1>0. unguarded \subseteq unguarded'
  BY StepKinds, FrameStep, BesideFrame DEF Frame, OnlyOrdersLeave
<1>1. CASE (LockStep(s) \/ Crash(s))
  <2>1. pc[s] = "recheck" /\ saw'[s] \in OwnRows(s)
    BY <1>1, SawMoves
  <2>2. saw'[s] \in Requests
    BY <2>1 DEF OwnRows, RowsOf
  <2>3. KeyOf(s) \notin unguarded => Lasting(saw'[s])
    BY <2>1, FoundLasts
  <2>4. ASSUME NEW q \in Requests, q = saw'[s], Lasting(q) PROVE LastsOn(q)
    BY <2>4, LastingStays
  <2> QED
    BY <1>0, <2>2, <2>3, <2>4
<1>2. CASE pc[s] = "found" /\ saw'[s] = saw[s]
  <2>1. saw[s] \in Requests /\ (KeyOf(s) \notin unguarded => Lasting(saw[s]))
    BY <1>2 DEF SawLasting
  <2>2. KeyOf(s) \notin unguarded => LastsOn(saw[s])
    BY <2>1, LastingStays
  <2> QED
    BY <1>0, <1>2, <2>1, <2>2
<1>3. ASSUME NEW r \in Requests, LockStep(r) \/ Crash(r), r # s
      PROVE  pc[s] = "found" /\ saw'[s] = saw[s]
  BY <1>3, FrameStep DEF Frame
<1>4. ASSUME Beside \/ UNCHANGED vars PROVE pc[s] = "found" /\ saw'[s] = saw[s]
  BY <1>4, BesideFrame DEF OnlyOrdersLeave
<1> QED
  BY <1>1, <1>2, <1>3, <1>4, StepKinds

\* Two steps fill the cache.
LEMMA CachedMoves ==
  ASSUME TypeOK, [Next]_vars, NEW k \in Keys, cached'[k] # NoReq, cached'[k] # cached[k]
  PROVE  \E r \in Requests : KeyOf(r) = k /\ (CacheExisting(r) \/ CacheResult(r))
<1> FlowTypes
  BY TypesOfParts
<1>1. ASSUME NEW r \in Requests, LockStep(r) \/ Crash(r)
      PROVE  cached' = cached \/ CacheExisting(r) \/ CacheResult(r)
  BY <1>1 DEF LockStep, Crash, CacheHit, CacheMiss, AcquireLock, LockHeld, RecheckCached,
    FindExistingOrder, Proceed, ProceedBlindly, ProceedBesideForeign, Pass, Refuse, Occupy,
    OccupyUnanswered, InsertOrder, CommitLost, CheckTeam, InsertRefused, StatementFails, GiveBack,
    ReleaseUnanswered, ReleaseFails, MarkFull, PaymentCreated, PaymentFails, UndoGate, UndoTables,
    UndoTablesFails, CreateDirectOrder, DirectRefused, DirectPayment, DeleteOrder
<1>2. ASSUME NEW r \in Requests, CacheExisting(r) \/ CacheResult(r) PROVE KeyOf(r) = k
  BY <1>2, KeyKnown DEF CacheExisting, CacheResult, FlowTypes
<1>3. ASSUME NEW c \in Callers, RefundStep(c) PROVE cached' = cached
  BY <1>3 DEF RefundStep, RefundTables, RefundTail, RefundReleaseUnanswered, RefundReleases,
    RefundStops, flowVars
<1>4. ASSUME NEW j \in Keys, CacheExpires(j) PROVE cached'[k] \in {cached[k], NoReq}
  BY <1>4 DEF CacheExpires, FlowTypes
<1>5. ASSUME Beside \/ UNCHANGED vars PROVE cached'[k] \in {cached[k], NoReq}
  BY <1>3, <1>4, <1>5 DEF Beside, Settle, DirectLeaves, LockExpires, TeamExpires, HoldersExpire,
    FlagExpires,
    vars, flowVars
<1> QED
  BY <1>1, <1>2, <1>5, StepKinds

LEMMA CachedLastingStep ==
  ASSUME TypeOK, L!IInv, \A r \in Requests : RowAt(r) /\ SawLasting(r), [Next]_vars,
         NEW k \in Keys, CachedLasting(k)
  PROVE  CachedLasting(k)'
<1> SUFFICES ASSUME k \notin unguarded', cached'[k] # NoReq PROVE LastsOn(cached'[k])
  BY DEF CachedLasting, Lasting, LastsOn
<1> FlowTypes
  BY TypesOfParts
<1>0. k \notin unguarded
  BY StepKinds, FrameStep, BesideFrame DEF Frame, OnlyOrdersLeave
<1>1. CASE cached'[k] = cached[k]
  <2>1. cached[k] \in Requests /\ Lasting(cached[k])
    BY <1>0, <1>1 DEF CachedLasting, FlowTypes
  <2>2. LastsOn(cached[k])
    BY <2>1, LastingStays
  <2> QED
    BY <1>1, <2>2
<1>2. ASSUME NEW r \in Requests, KeyOf(r) = k, CacheExisting(r) PROVE LastsOn(cached'[k])
  <2>1. cached'[k] = saw[r] /\ saw[r] \in Requests /\ Lasting(saw[r])
    BY <1>0, <1>2 DEF CacheExisting, SawLasting, FlowTypes
  <2>2. LastsOn(saw[r])
    BY <2>1, LastingStays
  <2> QED
    BY <2>1, <2>2
<1>3. ASSUME NEW r \in Requests, KeyOf(r) = k, CacheResult(r) PROVE LastsOn(cached'[k])
  <2>1. cached'[k] = r /\ pc'[r] = "done" /\ pc[r] = "cache"
    BY <1>3 DEF CacheResult, Return, FlowTypes
  <2>2. status'[r] # "deleted" /\ direct'[r] # "deleted"
    BY <1>3, <2>1 DEF CacheResult, RowAt, ledgerVars
  <2> QED
    BY <2>1, <2>2 DEF LastsOn
<1> QED
  BY <1>1, <1>2, <1>3, CachedMoves

-----------------------------------------------------------------------------
(* Permits.                                                                *)

\* What a request does to the permits: at most its own moves, and when it lets
\* go of it the seat is free, the loss is remembered, or its order has the seat.
PermitMove(r) ==
  /\ \A t \in Teams, x \in Trades : <<t, x>> # Permit(r) =>
       /\ x \in holders'[t] <=> x \in holders[t]
       /\ <<t, x>> \in leaked => <<t, x>> \in leaked'
  /\ \/ TradeOf[r] \notin holders'[goal[r]]
     \/ Permit(r) \in leaked'
     \/ HasPermit(r)' /\ goal'[r] = goal[r]
     \/ pc'[r] = "pay" /\ status'[r] = "Locked" /\ teamOf'[r] = goal[r]
     \/ /\ ~HasPermit(r) /\ pc'[r] # "undo_db"
        /\ holders' = holders /\ leaked' = leaked
        /\ pc[r] = "undo_db" \/ (status'[r] = status[r] /\ teamOf'[r] = teamOf[r])

LEMMA PermitMoves ==
  ASSUME TypeOK, NEW r \in Requests, RowAt(r), LockStep(r) \/ Crash(r)
  PROVE  PermitMove(r)
<1> FlowTypes /\ GateTypeOK
  BY TypesOfParts
<1> USE TradeKnown DEF FlowTypes, GateTypeOK, PermitMove, HasPermit, Permit
<1>1. CASE \/ CacheHit(r) \/ CacheMiss(r) \/ AcquireLock(r) \/ LockHeld(r) \/ RecheckCached(r)
           \/ FindExistingOrder(r) \/ CacheExisting(r) \/ Refuse(r)
  BY <1>1, SMTT(30) DEF CacheHit, CacheMiss, AcquireLock, LockHeld, RecheckCached,
    FindExistingOrder, CacheExisting, Refuse, Goto, Return, gateVars, ledgerVars, history
<1>2. CASE Proceed(r) \/ ProceedBlindly(r) \/ ProceedBesideForeign(r)
  BY <1>2, SMTT(30) DEF Proceed, ProceedBlindly, ProceedBesideForeign, Pass, ToTeam, ToDirect,
    Goto, gateVars, ledgerVars
<1>3. ASSUME NEW n \in Targets, Occupy(r, n) PROVE PermitMove(r)
  <2>1. goal[r] \in Teams
    BY <1>3 DEF Occupy, RowAt
  <2>2. CASE OccupyUnchanged(goal[r], TradeOf[r]) \/ OccupyRefused(goal[r], TradeOf[r], n)
    BY <1>3, <2>1, <2>2, SMTT(30) DEF Occupy, Goto, Return, OccupyUnchanged, OccupyRefused,
      gateVars, ledgerVars, history
  <2>3. CASE OccupySeat(goal[r], TradeOf[r], n)
    <3>1. OccupyResult(goal[r], TradeOf[r], n) # "OccupyFull"
      BY <2>3 DEF OccupySeat, OccupyResult
    <3> QED
      BY <1>3, <2>1, <2>3, <3>1, SMTT(30) DEF Occupy, Goto, OccupySeat, history
  <2> QED
    BY <1>3, <2>2, <2>3 DEF Occupy, TryOccupyStock
<1>4. ASSUME NEW n \in Targets, OccupyUnanswered(r, n) PROVE PermitMove(r)
  BY <1>4, SMTT(30) DEF OccupyUnanswered, OccupySeat, RowAt
<1>5. ASSUME NEW n \in Targets, InsertOrder(r, n) \/ CommitLost(r, n) PROVE PermitMove(r)
  BY <1>5, CommitFrame DEF InsertOrder, CommitLost, Goto, gateVars, history
<1>6. CASE \/ CheckTeam(r) \/ InsertRefused(r) \/ StatementFails(r) \/ PaymentFails(r)
           \/ CacheResult(r)
  BY <1>6, SMTT(30) DEF CheckTeam, InsertRefused, StatementFails, RefusedTo,
    PaymentFails, CacheResult, Goto, Return, gateVars, ledgerVars, history
<1>7. CASE MarkFull(r)
  BY <1>7, SMTT(30) DEF MarkFull, MarkTeamFull, Return, ledgerVars, history
<1>8. CASE GiveBack(r) \/ UndoGate(r) \/ ReleaseUnanswered(r)
  <2>1. goal[r] \in Teams /\ ReleaseStock(goal[r], TradeOf[r]) /\ leaked' = leaked \ {Permit(r)}
    BY <1>8 DEF GiveBack, UndoGate, ReleaseUnanswered, RowAt
  <2>2. TradeOf[r] \notin holders'[goal[r]]
    BY <2>1 DEF ReleaseStock
  <2>3. \A t \in Teams, x \in Trades : <<t, x>> # Permit(r) =>
          (x \in holders'[t] <=> x \in holders[t])
    BY <2>1, SMTT(30) DEF ReleaseStock
  <2> QED
    BY <2>1, <2>2, <2>3
<1>9. CASE ReleaseFails(r)
  BY <1>9, SMTT(30) DEF ReleaseFails, gateVars
<1>10. CASE PaymentCreated(r) \/ UndoTablesFails(r)
  BY <1>10, SMTT(30) DEF PaymentCreated, UndoTablesFails, L!PaymentCreated, Goto, Return,
    gateVars, history
<1>11. CASE UndoTables(r)
  BY <1>11, UndoFrame DEF gateVars, history
<1>12. CASE CreateDirectOrder(r) \/ DirectRefused(r) \/ DirectPayment(r) \/ DeleteOrder(r)
  BY <1>12, SMTT(30) DEF CreateDirectOrder, DirectRefused, DirectPayment, DeleteOrder,
    Goto, Return, gateVars, ledgerVars, history
<1>13. CASE Crash(r)
  BY <1>13, SMTT(30) DEF Crash, gateVars
<1> QED
  BY <1>1, <1>2, <1>3, <1>4, <1>5, <1>6, <1>7, <1>8, <1>9, <1>10, <1>11, <1>12, <1>13 DEF LockStep

\* A refund that moves on keeps the order it refunds, and the order its team.
LEMMA RefundedKept ==
  ASSUME L!IInv, [L!Next]_ledgerVars, NEW c \in Callers, refund[c] # L!Idle,
         refund'[c] # L!Idle, refund'[c].ord = refund[c].ord
  PROVE  Refunded(c)' = Refunded(c)
  BY RefundKnown, OrderMoves DEF Refunded

LEMMA RefundingKept ==
  ASSUME L!IInv, [L!Next]_ledgerVars, NEW x, NEW t, Refunding(x, t), refund' = refund
  PROVE  Refunding(x, t)'
<1>1. PICK c \in Callers : /\ refund[c] # L!Idle
                           /\ refund[c].at \in {"flipped", "tail"}
                           /\ Refunded(c) = <<t, x>>
  BY DEF Refunding
<1>2. Refunded(c)' = <<t, x>>
  BY <1>1, RefundedKept
<1> QED
  BY <1>1, <1>2 DEF Refunding, L!Idle

LEMMA BackedOwn ==
  ASSUME TypeOK, L!IInv, [L!Next]_ledgerVars, NEW r \in Requests, RowAt(r),
         LockStep(r) \/ Crash(r), NEW t \in Teams, NEW x \in Trades, x \in holders'[t],
         x \in holders[t] => Backing(x, t)
  PROVE  Backing(x, t)'
<1>1. Frame(r) /\ PermitMove(r)
  BY FrameStep, PermitMoves
<1>2. ASSUME Refunding(x, t) PROVE Backing(x, t)'
  BY <1>1, <1>2, RefundingKept DEF Backing, Frame
<1>3. ASSUME NEW s \in Requests \ {r}, s \in ActiveOf(x, t), pc[s] # "undo_db"
      PROVE  Backing(x, t)'
  BY <1>1, <1>3 DEF Backing, Frame, ActiveOf
<1>4. ASSUME NEW s \in Requests \ {r}, TradeOf[s] = x, goal[s] = t, HasPermit(s)
      PROVE  Backing(x, t)'
  BY <1>1, <1>4 DEF Backing, Frame, Requested, HasPermit
<1>5. CASE <<t, x>> # Permit(r)
  <2>1. x \in holders[t] /\ (<<t, x>> \in leaked => <<t, x>> \in leaked')
    BY <1>1, <1>5 DEF PermitMove
  <2>2. r \notin ActiveOf(x, t) /\ ~(TradeOf[r] = x /\ goal[r] = t)
    BY <1>5 DEF ActiveOf, RowAt, Permit
  <2> QED
    BY <1>2, <1>3, <1>4, <2>1, <2>2 DEF Backing, Requested, ActiveOf
<1>6. CASE <<t, x>> = Permit(r)
  <2>1. t = goal[r] /\ x = TradeOf[r]
    BY <1>6 DEF Permit
  <2>2. CASE Permit(r) \in leaked'
    BY <1>6, <2>2 DEF Backing
  <2>3. CASE HasPermit(r)' /\ goal'[r] = goal[r]
    BY <2>1, <2>3 DEF Backing, Requested
  <2>4. CASE pc'[r] = "pay" /\ status'[r] = "Locked" /\ teamOf'[r] = goal[r]
    BY <2>1, <2>4 DEF Backing, ActiveOf
  <2>5. CASE /\ ~HasPermit(r) /\ pc'[r] # "undo_db"
             /\ holders' = holders /\ leaked' = leaked
             /\ pc[r] = "undo_db" \/ (status'[r] = status[r] /\ teamOf'[r] = teamOf[r])
    <3>1. ASSUME r \in ActiveOf(x, t), pc[r] # "undo_db" PROVE Backing(x, t)'
      BY <2>5, <3>1 DEF Backing, ActiveOf
    <3>2. Backing(x, t)
      BY <2>5
    <3> QED
      BY <1>2, <1>3, <1>4, <2>5, <3>1, <3>2 DEF Backing, Requested, ActiveOf
  <2> QED
    BY <1>1, <2>1, <2>2, <2>3, <2>4, <2>5 DEF PermitMove
<1> QED
  BY <1>5, <1>6

\* Orders may be settled, and leave the team in the hands of a refund.
LEMMA BackedBeside ==
  ASSUME TypeOK, L!IInv, [L!Next]_ledgerVars, Beside \/ UNCHANGED vars, NEW t \in Teams,
         MayOpen(t)', MayOpen(t), \A c \in Callers : RefundAt(c),
         NEW x \in Trades, x \in holders'[t], x \in holders[t] => Backing(x, t)
  PROVE  Backing(x, t)'
<1> FlowTypes /\ GateTypeOK /\ L!TypeOK
  BY TypesOfParts
<1>0. OnlyOrdersLeave
  BY BesideFrame
<1>1. ASSUME UNCHANGED <<pc, goal, leaked>>, holders'[t] = holders[t], status' = status,
             refund' = refund
      PROVE  Backing(x, t)'
  BY <1>0, <1>1, RefundingKept DEF OnlyOrdersLeave, Backing, Requested, HasPermit, ActiveOf
<1>2. ASSUME NEW r \in Requests, Settle(r) PROVE Backing(x, t)'
  <2>1. /\ UNCHANGED <<pc, goal, leaked, holders, teamOf, refund>>
        /\ \A s \in Requests : status'[s] = status[s] \/ status'[s] = "Paid"
    BY <1>2 DEF Settle, flowVars, history, gateVars, L!SettleOrder, L!TypeOK
  <2>2. \A s \in ActiveOf(x, t) : s \in ActiveOf(x, t)'
    BY <2>1 DEF ActiveOf
  <2> QED
    BY <2>1, <2>2, RefundingKept DEF Backing, Requested, HasPermit
<1>3. ASSUME NEW k \in Teams, HoldersExpire(k) \/ FlagExpires(k) PROVE holders'[t] = holders[t]
  BY <1>3 DEF HoldersExpire, FlagExpires, ExpireHolders, ExpireFull, GateTypeOK
<1>4. ASSUME NEW c \in Callers, RefundStep(c) PROVE Backing(x, t)'
  <2> DEFINE o == refund[c].ord
  <2>1. ASSUME NEW d \in Callers, d # c PROVE refund'[d] = refund[d]
    BY <1>4, <2>1 DEF RefundStep, RefundTables, RefundTail, RefundReleaseUnanswered,
      ledgerVars, RefundStops, L!ReadForRefund, L!FlipOrder, L!LoseRace, L!UpdateTeam,
      L!UpdateTeamFails, L!FinishRefund, L!AbandonRefund, L!TypeOK
  <2>2. UNCHANGED <<pc, goal, teamOf>>
    BY <1>0 DEF OnlyOrdersLeave
  <2>3. ASSUME Requested(x, t) PROVE Backing(x, t)'
    BY <2>2, <2>3 DEF Backing, Requested, HasPermit
  <2>4. ASSUME NEW d \in Callers, d # c, refund[d] # L!Idle, refund[d].at \in {"flipped", "tail"},
               Refunded(d) = <<t, x>>
        PROVE  Backing(x, t)'
    <3>1. Refunded(d)' = Refunded(d)
      BY <2>1, <2>2, <2>4 DEF Refunded
    <3> QED
      BY <2>1, <2>4, <3>1 DEF Backing, Refunding, L!Idle
  <2>5. ASSUME refund'[c] # L!Idle, refund'[c].at \in {"flipped", "tail"}, refund'[c].ord = o,
               Refunded(c) = <<t, x>>
        PROVE  Backing(x, t)'
    BY <2>2, <2>5 DEF Backing, Refunding, Refunded, L!Idle
  <2>6. CASE L!FlipOrder(c) /\ UNCHANGED <<flowVars, gateVars>>
    <3>1. refund[c] # L!Idle
      BY <2>6 DEF L!FlipOrder, L!Idle
    <3>2. /\ refund'[c] # L!Idle /\ refund'[c].at \in {"flipped", "tail"} /\ refund'[c].ord = o
          /\ refund[c].at = "read" /\ o \in Requests
      BY <2>6, <3>1, RefundKnown DEF L!FlipOrder, L!TypeOK, L!Idle
    <3>3. \A s \in Requests \ {o} : status'[s] = status[s]
      BY <2>6, <3>2 DEF L!FlipOrder, L!TypeOK
    <3>4. x \in holders[t] /\ leaked' = leaked
      BY <2>6 DEF flowVars, history, gateVars
    <3>5. ASSUME o \in ActiveOf(x, t) PROVE Backing(x, t)'
      BY <2>5, <3>2, <3>5 DEF ActiveOf, Refunded
    <3>6. ASSUME NEW s \in ActiveOf(x, t), s # o, pc[s] # "undo_db" PROVE Backing(x, t)'
      BY <2>2, <3>3, <3>6 DEF ActiveOf, Backing
    <3>7. ASSUME Refunding(x, t) PROVE Backing(x, t)'
      BY <2>4, <3>2, <3>7 DEF Refunding
    <3> QED
      BY <2>3, <3>4, <3>5, <3>6, <3>7 DEF Backing
  <2>7. CASE /\ (\E q \in Requests : L!ReadForRefund(c, q)) \/ L!LoseRace(c)
             /\ UNCHANGED <<flowVars, gateVars>>
    <3>1. ~(refund[c] # L!Idle /\ refund[c].at \in {"flipped", "tail"}) /\ status' = status
      BY <2>7 DEF L!ReadForRefund, L!LoseRace
    <3>2. x \in holders[t] /\ leaked' = leaked
      BY <2>7 DEF flowVars, history, gateVars
    <3>3. ASSUME Refunding(x, t) PROVE Backing(x, t)'
      BY <2>4, <3>1, <3>3 DEF Refunding
    <3> QED
      BY <2>2, <2>3, <3>1, <3>2, <3>3 DEF Backing, ActiveOf
  <2>8. CASE L!UpdateTeam(c) /\ UNCHANGED <<flowVars, gateVars>>
    <3>1. refund[c] # L!Idle
      BY <2>8 DEF L!UpdateTeam, L!Idle
    <3>2. /\ refund'[c] # L!Idle /\ refund'[c].at \in {"flipped", "tail"} /\ refund'[c].ord = o
          /\ status' = status
      BY <2>8, <3>1, RefundKnown DEF L!UpdateTeam, L!TypeOK, L!Idle
    <3>3. x \in holders[t] /\ leaked' = leaked
      BY <2>8 DEF flowVars, history, gateVars
    <3>4. ASSUME Refunding(x, t) PROVE Backing(x, t)'
      BY <2>4, <2>5, <3>2, <3>4 DEF Refunding
    <3> QED
      BY <2>2, <2>3, <3>2, <3>3, <3>4 DEF Backing, ActiveOf
  <2>9. CASE RefundTail(c) \/ RefundReleaseUnanswered(c)
    <3>1. refund[c] # L!Idle /\ refund[c].at = "tail" /\ status' = status
      BY <2>9 DEF RefundTail, RefundReleaseUnanswered, L!FinishRefund, L!Idle, ledgerVars
    <3>2. o \in Requests /\ teamOf[o] \in Teams /\ TradeOf[o] \in Trades
      BY <3>1, RefundKnown, TradeKnown
    <3>3. Refunded(c) # <<t, x>>
      <4>1. CASE Releases(refund[c].path)
        <5>1. ReleaseStock(teamOf[o], TradeOf[o])
          BY <2>9, <4>1 DEF RefundTail, RefundReleaseUnanswered, RefundReleases, Refunded
        <5>2. TradeOf[o] \notin holders'[teamOf[o]]
          BY <3>2, <5>1 DEF ReleaseStock, GateTypeOK
        <5> QED
          BY <5>2 DEF Refunded
      <4>2. CASE ~Releases(refund[c].path)
        BY <3>1, <4>2 DEF RefundAt, MayOpen, Refunded
      <4> QED
        BY <4>1, <4>2
    <3>4. x \in holders[t]
      BY <2>9, <3>2 DEF RefundTail, RefundReleaseUnanswered, RefundReleases, ReleaseStock,
        GateTypeOK, gateVars, Refunded
    <3>5. <<t, x>> \in leaked => <<t, x>> \in leaked'
      BY <2>9, <3>3 DEF RefundTail, RefundReleaseUnanswered, RefundReleases
    <3>6. ASSUME Refunding(x, t) PROVE Backing(x, t)'
      BY <2>4, <3>3, <3>6 DEF Refunding
    <3> QED
      BY <2>2, <2>3, <3>1, <3>4, <3>5, <3>6 DEF Backing, ActiveOf
  <2>10. CASE RefundStops(c)
    <3>1. x \in holders[t] /\ status' = status /\ leaked \subseteq leaked'
      BY <2>10 DEF RefundStops, gateVars, L!UpdateTeamFails, L!AbandonRefund
    <3>2. refund[c].at \in {"flipped", "tail"} => Refunded(c) \in leaked'
      BY <2>10 DEF RefundStops
    <3>3. ASSUME Refunding(x, t) PROVE Backing(x, t)'
      <4>1. CASE <<t, x>> \in leaked'
        BY <4>1 DEF Backing
      <4> QED
        BY <2>4, <3>2, <3>3, <4>1 DEF Refunding
    <3> QED
      BY <2>2, <2>3, <3>1, <3>3 DEF Backing, ActiveOf
  <2> QED
    BY <1>4, <2>6, <2>7, <2>8, <2>9, <2>10 DEF RefundStep, RefundTables
<1>5. CASE \/ \E r \in Requests : DirectLeaves(r)
           \/ \E y \in Keys : LockExpires(y) \/ CacheExpires(y)
           \/ \E k \in Teams : TeamExpires(k) \/ HoldersExpire(k) \/ FlagExpires(k)
           \/ UNCHANGED vars
  BY <1>1, <1>3, <1>5, SMTT(30) DEF DirectLeaves, LockExpires, CacheExpires, TeamExpires,
    HoldersExpire, FlagExpires, L!TeamExpires, vars, flowVars, history, gateVars, ledgerVars
<1> QED
  BY <1>2, <1>4, <1>5 DEF Beside

LEMMA BackedStep ==
  ASSUME TypeOK, L!IInv, \A r \in Requests : RowAt(r), \A c \in Callers : RefundAt(c),
         [Next]_vars, NEW t \in Teams, Backed(t)
  PROVE  Backed(t)'
<1>1. [L!Next]_ledgerVars
  BY LedgerStep
<1>2. holders'[t] \subseteq Trades
  <2>1. GateTypeOK /\ [GateNext]_gateVars
    BY GateStep, TypesOfParts
  <2>2. GateTypeOK'
    BY <2>1, GateTypeStep
  <2> QED
    BY <2>2 DEF GateTypeOK
<1> SUFFICES ASSUME MayOpen(t)', NEW x \in Trades, x \in holders'[t] PROVE Backing(x, t)'
  BY <1>2 DEF Backed
<1>3. MayOpen(t) /\ (x \in holders[t] => Backing(x, t))
  BY <1>1, TeamMoves DEF Backed
<1> QED
  BY <1>1, <1>3, StepKinds, BackedOwn, BackedBeside

-----------------------------------------------------------------------------
(* Seats.                                                                  *)

\* Before the team closes, a permit goes in one of three ways: a request gives it
\* back, a refund releases it, or its key expires.
LEMMA PermitLost ==
  ASSUME TypeOK, L!IInv, \A r \in Requests : RowAt(r), [Next]_vars, NEW t \in Teams,
  NEW x \in Trades, MayOpen(t), x \in holders[t], x \notin holders'[t]
  PROVE  \/ \E r \in Requests :
              /\ goal[r] = t /\ TradeOf[r] = x
              /\ pc[r] \in {"giveback", "full", "undo_gate"}
              /\ status' = status
         \/ \E c \in Callers :
              /\ refund[c] # L!Idle /\ refund[c].at = "tail"
              /\ Refunded(c) = <<t, x>>
              /\ status' = status
         \/ <<t, x>> \in lapsed'
<1> FlowTypes /\ GateTypeOK
  BY TypesOfParts
<1>1. ASSUME NEW r \in Requests, LockStep(r) \/ Crash(r)
      PROVE  \/ UNCHANGED holders
             \/ GiveBack(r) \/ UndoGate(r) \/ ReleaseUnanswered(r)
             \/ \E n \in Targets : Occupy(r, n) \/ OccupyUnanswered(r, n)
  BY <1>1 DEF LockStep, Crash, CacheHit, CacheMiss, AcquireLock, LockHeld, RecheckCached,
    FindExistingOrder, CacheExisting, Proceed, ProceedBlindly, ProceedBesideForeign, Pass, Refuse,
    InsertOrder, CommitLost, CheckTeam, InsertRefused, StatementFails, ReleaseFails, MarkFull,
    MarkTeamFull, PaymentCreated, PaymentFails, UndoTables, UndoTablesFails, CacheResult,
    CreateDirectOrder, DirectRefused, DirectPayment, DeleteOrder, gateVars
<1>2. ASSUME NEW r \in Requests, NEW n \in Targets, Occupy(r, n) \/ OccupyUnanswered(r, n) PROVE FALSE
  <2>1. goal[r] \in Teams
    BY <1>2 DEF Occupy, OccupyUnanswered, RowAt
  <2> QED
    BY <1>2, <2>1 DEF Occupy, OccupyUnanswered, TryOccupyStock, OccupyUnchanged, OccupyRefused,
      OccupySeat, gateVars, GateTypeOK
<1>3. ASSUME NEW r \in Requests, GiveBack(r) \/ UndoGate(r) \/ ReleaseUnanswered(r)
      PROVE  /\ goal[r] = t /\ TradeOf[r] = x
             /\ pc[r] \in {"giveback", "full", "undo_gate"}
             /\ status' = status
  <2>1. goal[r] \in Teams /\ ReleaseStock(goal[r], TradeOf[r])
    BY <1>3 DEF GiveBack, UndoGate, ReleaseUnanswered, RowAt
  <2>2. goal[r] = t /\ TradeOf[r] = x
    BY <2>1 DEF ReleaseStock, GateTypeOK
  <2> QED
    BY <1>3, <2>2 DEF GiveBack, UndoGate, ReleaseUnanswered, Goto, FlowTypes, ledgerVars
<1>4. ASSUME NEW c \in Callers, RefundStep(c)
      PROVE  /\ refund[c] # L!Idle /\ refund[c].at = "tail"
             /\ Refunded(c) = <<t, x>>
             /\ status' = status
  <2>1. RefundTail(c) \/ RefundReleaseUnanswered(c)
    BY <1>4 DEF RefundStep, RefundTables, RefundStops, gateVars
  <2>2. refund[c] # L!Idle /\ refund[c].at = "tail" /\ status' = status
    BY <2>1 DEF RefundTail, RefundReleaseUnanswered, L!FinishRefund, L!Idle, ledgerVars
  <2>3. teamOf[refund[c].ord] \in Teams /\ ReleaseStock(Refunded(c)[1], Refunded(c)[2])
    BY <2>1, <2>2, RefundKnown DEF RefundTail, RefundReleaseUnanswered, RefundReleases, gateVars
  <2> QED
    BY <2>2, <2>3 DEF ReleaseStock, GateTypeOK, Refunded
<1>5. ASSUME NEW k \in Teams, HoldersExpire(k) PROVE <<t, x>> \in lapsed'
  <2>1. k = t
    BY <1>5 DEF HoldersExpire, ExpireHolders, GateTypeOK
  <2> QED
    BY <1>5, <2>1 DEF HoldersExpire
<1>6. CASE UNCHANGED vars
  BY <1>6 DEF vars, gateVars
<1>7. ASSUME Beside
      PROVE  (\E c \in Callers : RefundStep(c)) \/ \E k \in Teams : HoldersExpire(k)
  BY <1>7 DEF Beside, Settle, DirectLeaves, LockExpires, CacheExpires, TeamExpires, FlagExpires,
    ExpireFull, gateVars
<1> QED
  BY <1>1, <1>2, <1>3, <1>4, <1>5, <1>6, <1>7, StepKinds

LEMMA DisturbedStays ==
  ASSUME TypeOK, L!IInv, \A r \in Requests : RowAt(r), [Next]_vars, NEW x, Disturbed(x),
         Teams # {}
  PROVE  Disturbed(x)'
<1>1. unguarded \subseteq unguarded' /\ crossed \subseteq crossed'
  BY StepKinds, FrameStep, BesideFrame DEF Frame, OnlyOrdersLeave
<1>2. doubled \subseteq doubled'
  BY LedgerStep, TeamMoves
<1> QED
  BY <1>1, <1>2 DEF Disturbed

\* A refund that releases the permit of this outTradeNo had an order of it,
\* which stands refunded in the one row there may be.
LEMMA ReleaserHasRow ==
  ASSUME L!IInv, NEW c \in Callers, refund[c] # L!Idle, refund[c].at = "tail", RefundAt(c),
         NEW t \in Teams, NEW x, Refunded(c) = <<t, x>>, MayOpen(t), ~Disturbed(x)
  PROVE  \E o \in RowsOf(x) : status[o] = "Refunded"
<1>1. refund[c].ord \in Requests /\ teamOf[refund[c].ord] = t /\ TradeOf[refund[c].ord] = x
  BY RefundKnown DEF Refunded
<1> QED
  BY <1>1 DEF RefundAt, MayOpen, Disturbed, RowsOf, Stored

LEMMA OccupiedSeat ==
  ASSUME TypeOK, NEW r \in Requests, RowAt(r), LockStep(r) \/ Crash(r),
         pc'[r] \in {"check", "insert"}, pc[r] \notin {"check", "insert"}
  PROVE  TradeOf[r] \in holders'[goal'[r]]
<1> FlowTypes /\ GateTypeOK
  BY TypesOfParts
<1>1. ASSUME NEW n \in Targets, Occupy(r, n) PROVE TradeOf[r] \in holders'[goal'[r]]
  <2>1. goal[r] \in Teams /\ goal' = goal
    BY <1>1 DEF Occupy, RowAt
  <2>2. OccupyResult(goal[r], TradeOf[r], n) # "OccupyFull"
    BY <1>1 DEF Occupy, Return, FlowTypes
  <2>3. CASE OccupyUnchanged(goal[r], TradeOf[r])
    BY <2>1, <2>2, <2>3 DEF OccupyUnchanged, OccupyResult, gateVars
  <2>4. CASE OccupyRefused(goal[r], TradeOf[r], n)
    BY <2>2, <2>4 DEF OccupyRefused, OccupyResult
  <2>5. CASE OccupySeat(goal[r], TradeOf[r], n)
    BY <2>1, <2>5 DEF OccupySeat, GateTypeOK
  <2> QED
    BY <1>1, <2>3, <2>4, <2>5 DEF Occupy, TryOccupyStock
<1>2. CASE \/ CacheHit(r) \/ CacheMiss(r) \/ AcquireLock(r) \/ LockHeld(r) \/ RecheckCached(r)
           \/ FindExistingOrder(r) \/ CacheExisting(r) \/ Refuse(r) \/ Proceed(r)
           \/ ProceedBlindly(r) \/ ProceedBesideForeign(r)
  BY <1>2, SMTT(30) DEF CacheHit, CacheMiss, AcquireLock, LockHeld, RecheckCached,
    FindExistingOrder, CacheExisting, Refuse, Proceed, ProceedBlindly, ProceedBesideForeign, Pass,
    ToTeam, ToDirect, Goto, Return, FlowTypes
<1>3. ASSUME NEW n \in Targets, OccupyUnanswered(r, n) \/ InsertOrder(r, n) \/ CommitLost(r, n)
      PROVE  FALSE
  BY <1>3, SMTT(30) DEF OccupyUnanswered, InsertOrder, CommitLost, Goto, Return, FlowTypes
<1>4. CASE \/ CheckTeam(r) \/ InsertRefused(r) \/ StatementFails(r) \/ MarkFull(r)
           \/ PaymentFails(r) \/ CacheResult(r) \/ GiveBack(r) \/ ReleaseUnanswered(r)
           \/ ReleaseFails(r) \/ UndoGate(r)
  BY <1>4, SMTT(30) DEF CheckTeam, InsertRefused, StatementFails, MarkFull, PaymentFails,
    RefusedTo, CacheResult, GiveBack, ReleaseUnanswered, ReleaseFails, UndoGate, Goto, Return,
    FlowTypes
<1>5. CASE \/ PaymentCreated(r) \/ UndoTablesFails(r) \/ UndoTables(r)
           \/ CreateDirectOrder(r) \/ DirectRefused(r) \/ DirectPayment(r) \/ DeleteOrder(r)
  BY <1>5, SMTT(30) DEF PaymentCreated, UndoTablesFails, UndoTables, CreateDirectOrder,
    DirectRefused, DirectPayment, DeleteOrder, Goto, Return, FlowTypes
<1>6. CASE Crash(r)
  BY <1>6 DEF Crash, FlowTypes
<1> QED
  BY <1>1, <1>2, <1>3, <1>4, <1>5, <1>6 DEF LockStep

\* Between the gate and the insert a request stays at its team.
LEMMA GoalStays ==
  ASSUME NEW r \in Requests, LockStep(r) \/ Crash(r), pc[r] # "recheck"
  PROVE  goal' = goal
BY DEF LockStep, Crash, CacheHit, CacheMiss, AcquireLock, LockHeld, RecheckCached,
  FindExistingOrder, CacheExisting, Proceed, ProceedBlindly, ProceedBesideForeign, Pass, Refuse,
  Occupy, OccupyUnanswered, InsertOrder, CommitLost, CheckTeam, InsertRefused, StatementFails,
  GiveBack, ReleaseUnanswered, ReleaseFails, MarkFull, PaymentCreated, PaymentFails, UndoGate,
  UndoTables, UndoTablesFails, CacheResult, CreateDirectOrder, DirectRefused, DirectPayment,
  DeleteOrder

\* MayOpen(t) after a step, for a t that the step itself names.
StaysOpen(t) == team'[t].status \in {"none", "Forming"} /\ t \notin expired'

LEMMA HoldsSeatStep ==
  ASSUME TypeOK, L!IInv, \A r \in Requests : RowAt(r) /\ KeptApart(r), [Next]_vars,
         \A c \in Callers : RefundAt(c), NEW s \in Requests, HoldsSeat(s)
  PROVE  HoldsSeat(s)'
<1> DEFINE x == TradeOf[s]
           t == goal'[s]
<1> SUFFICES ASSUME pc'[s] \in {"check", "insert"}, StaysOpen(t), ~Disturbed(x)',
                    <<t, x>> \notin lapsed'
             PROVE  x \in holders'[t]
  BY DEF HoldsSeat, StaysOpen, MayOpen, Permit
<1>1. CASE pc[s] \notin {"check", "insert"}
  <2>1. ASSUME NEW r \in Requests, LockStep(r) \/ Crash(r) PROVE s = r
    BY <1>1, <2>1, FrameStep DEF Frame
  <2>2. ~(Beside \/ UNCHANGED vars)
    BY <1>1, BesideFrame DEF OnlyOrdersLeave
  <2> QED
    BY <1>1, <2>1, <2>2, OccupiedSeat, StepKinds
<1>2. CASE pc[s] \in {"check", "insert"}
  <2>1. t = goal[s]
    <3>1. ASSUME NEW r \in Requests, LockStep(r) \/ Crash(r) PROVE t = goal[s]
      BY <1>2, <3>1, FrameStep, GoalStays DEF Frame
    <3>2. ASSUME Beside \/ UNCHANGED vars PROVE t = goal[s]
      BY <3>2, BesideFrame DEF OnlyOrdersLeave
    <3> QED
      BY <3>1, <3>2, StepKinds
  <2>2. t \in Teams /\ x \in Trades
    BY <1>2, <2>1, TradeKnown DEF RowAt
  <2>3. MayOpen(t) /\ ~Disturbed(x)
    <3>1. [L!Next]_ledgerVars
      BY LedgerStep
    <3>2. \A k \in Teams : StaysOpen(k) => MayOpen(k)
      BY <3>1, TeamMoves DEF StaysOpen, MayOpen
    <3>3. Disturbed(x) => Disturbed(x)'
      BY <2>2, DisturbedStays
    <3> QED
      BY <2>2, <3>2, <3>3
  <2>4. x \in holders[t]
    <3>1. lapsed \subseteq lapsed'
      BY StepKinds, FrameStep, BesideFrame DEF Frame, OnlyOrdersLeave
    <3> QED
      BY <1>2, <2>1, <2>3, <3>1 DEF HoldsSeat, Permit
  <2> SUFFICES ASSUME x \notin holders'[t] PROVE FALSE
    OBVIOUS
  <2>5. Running(s) /\ RowsOf(x) \subseteq {s} /\ status[s] = "none"
    BY <1>2, <2>3, LookedAlone DEF Looked, Running, RowAt
  <2>6. ASSUME NEW r \in Requests, TradeOf[r] = x, pc[r] \in {"giveback", "full", "undo_gate"}
        PROVE  FALSE
    BY <1>2, <2>3, <2>5, <2>6, NeverTwo DEF Running
  <2>7. ASSUME NEW c \in Callers, refund[c] # L!Idle, refund[c].at = "tail",
               Refunded(c) = <<t, x>>
        PROVE  FALSE
    BY <2>2, <2>3, <2>5, <2>7, ReleaserHasRow
  <2> QED
    BY <2>2, <2>3, <2>4, <2>6, <2>7, PermitLost
<1> QED
  BY <1>1, <1>2

\* An order appears in the transaction of its own request.
LEMMA InsertedOwn ==
  ASSUME TypeOK, NEW r \in Requests, LockStep(r) \/ Crash(r), status[r] = "none",
         status'[r] \in {"Locked", "Paid"}
  PROVE  \E n \in Targets : InsertOrder(r, n) \/ CommitLost(r, n)
<1> L!TypeOK
  BY TypesOfParts
<1>1. CASE PaymentCreated(r) \/ UndoTables(r) \/ UndoTablesFails(r)
  BY <1>1, UndoFrame DEF PaymentCreated, UndoTablesFails, L!PaymentCreated
<1>2. ASSUME NEW n \in Targets, Occupy(r, n) \/ OccupyUnanswered(r, n) PROVE status' = status
  BY <1>2 DEF Occupy, OccupyUnanswered, ledgerVars
<1>3. CASE \/ CacheHit(r) \/ CacheMiss(r) \/ AcquireLock(r) \/ LockHeld(r) \/ RecheckCached(r)
           \/ FindExistingOrder(r) \/ CacheExisting(r) \/ Refuse(r) \/ Proceed(r)
           \/ ProceedBlindly(r) \/ ProceedBesideForeign(r) \/ CheckTeam(r) \/ InsertRefused(r)
           \/ StatementFails(r)
  BY <1>3 DEF CacheHit, CacheMiss, AcquireLock, LockHeld, RecheckCached, FindExistingOrder,
    CacheExisting, Refuse, Proceed, ProceedBlindly, ProceedBesideForeign, Pass, CheckTeam,
    InsertRefused, StatementFails, ledgerVars
<1>4. CASE \/ MarkFull(r) \/ PaymentFails(r) \/ CacheResult(r) \/ GiveBack(r)
           \/ ReleaseUnanswered(r) \/ ReleaseFails(r) \/ UndoGate(r) \/ CreateDirectOrder(r)
           \/ DirectRefused(r) \/ DirectPayment(r) \/ DeleteOrder(r) \/ Crash(r)
  BY <1>4 DEF MarkFull, PaymentFails, CacheResult, GiveBack, ReleaseUnanswered, ReleaseFails,
    UndoGate, CreateDirectOrder, DirectRefused, DirectPayment, DeleteOrder, Crash, ledgerVars
<1> QED
  BY <1>1, <1>2, <1>3, <1>4 DEF LockStep

\* A rollback deletes the order or leaves it without a permit for good.
LEMMA UndoLeft ==
  ASSUME TypeOK, NEW r \in Requests, LockStep(r) \/ Crash(r),
         pc[r] \in {"undo_gate", "undo_db"}, pc'[r] \notin {"undo_gate", "undo_db"}
  PROVE  status'[r] = "deleted" \/ r \in unbacked'
<1> FlowTypes
  BY TypesOfParts
<1>1. UndoTables(r) \/ UndoTablesFails(r) \/ Crash(r)
  BY DEF LockStep, CacheHit, CacheMiss, AcquireLock, LockHeld, RecheckCached, FindExistingOrder,
    CacheExisting, Proceed, ProceedBlindly, ProceedBesideForeign, Pass, Refuse, Occupy,
    OccupyUnanswered, InsertOrder, CommitLost, Commit, CheckTeam, InsertRefused, StatementFails,
    GiveBack, ReleaseUnanswered, ReleaseFails, MarkFull, PaymentCreated, PaymentFails, UndoGate,
    CacheResult, CreateDirectOrder, DirectRefused, DirectPayment, DeleteOrder, Goto, FlowTypes
<1> QED
  BY <1>1, UndoFrame DEF UndoTablesFails, Crash

LEMMA SeatHeldStep ==
  ASSUME TypeOK, L!IInv, \A r \in Requests : RowAt(r) /\ KeptApart(r) /\ HoldsSeat(r),
         \A x \in Trades : UniqueRow(x), \A c \in Callers : RefundAt(c), [Next]_vars, SeatHeld
  PROVE  SeatHeld'
<1> SUFFICES ASSUME NEW s \in Requests, status'[s] \in {"Locked", "Paid"},
                    StaysOpen(teamOf'[s]), pc'[s] \notin {"undo_gate", "undo_db"},
                    s \notin unbacked', ~Disturbed(TradeOf[s])',
                    <<teamOf'[s], TradeOf[s]>> \notin lapsed'
             PROVE  TradeOf[s] \in holders'[teamOf'[s]]
  BY DEF SeatHeld, Open, StaysOpen
<1> DEFINE x == TradeOf[s]
<1>1. [L!Next]_ledgerVars
  BY LedgerStep
<1>2. \A k \in Teams : StaysOpen(k) => MayOpen(k)
  BY <1>1, TeamMoves DEF StaysOpen, MayOpen
<1>0. lapsed \subseteq lapsed'
  BY StepKinds, FrameStep, BesideFrame DEF Frame, OnlyOrdersLeave
<1>3. CASE status[s] = "none"
  <2>1. ASSUME NEW r \in Requests, LockStep(r) \/ Crash(r) PROVE s = r
    BY <1>3, <2>1, FrameStep DEF Frame
  <2>2. ~(Beside \/ UNCHANGED vars)
    BY <1>3, BesideFrame DEF OnlyOrdersLeave
  <2>3. PICK n \in Targets : InsertOrder(s, n) \/ CommitLost(s, n)
    BY <1>3, <2>1, <2>2, InsertedOwn, StepKinds
  <2>4. Commit(s, n) /\ teamOf'[s] = goal[s] /\ pc[s] = "insert"
    BY <2>3, CommitFrame DEF InsertOrder, CommitLost
  <2>5. UNCHANGED <<holders, unguarded, crossed, doubled>>
    BY <2>3, <2>4, CommitFrame DEF InsertOrder, CommitLost, history, gateVars
  <2>6. goal[s] \in Teams /\ MayOpen(goal[s])
    BY <1>2, <2>4 DEF RowAt
  <2>7. ~Disturbed(x)
    BY <2>5 DEF Disturbed
  <2> QED
    BY <1>0, <2>4, <2>5, <2>6, <2>7 DEF HoldsSeat, Permit
<1>4. CASE status[s] # "none"
  <2> DEFINE t == teamOf[s]
  <2>1. teamOf'[s] = t /\ status[s] \in {"Locked", "Paid"}
    BY <1>1, <1>4, OrderMoves DEF L!IInv, L!TypeOK, L!OrderStatus
  <2>2. t \in Teams /\ team[t].status # "none" /\ x \in Trades
    BY <1>4, TradeKnown DEF L!IInv, L!InsertedInTeam
  <2>3. MayOpen(t) /\ Open(t)
    BY <1>2, <2>1, <2>2 DEF MayOpen, Open
  <2>4. ~Disturbed(x)
    BY <2>2, DisturbedStays
  <2>5. s \notin unbacked /\ pc[s] \notin {"undo_gate", "undo_db"}
    <3>1. ASSUME NEW r \in Requests, LockStep(r) \/ Crash(r)
          PROVE  s \notin unbacked /\ pc[s] \notin {"undo_gate", "undo_db"}
      BY <3>1, FrameStep, UndoLeft DEF Frame
    <3>2. ASSUME Beside \/ UNCHANGED vars
          PROVE  s \notin unbacked /\ pc[s] \notin {"undo_gate", "undo_db"}
      BY <3>2, BesideFrame DEF OnlyOrdersLeave
    <3> QED
      BY <3>1, <3>2, StepKinds
  <2>6. x \in holders[t]
    BY <1>0, <2>1, <2>3, <2>4, <2>5 DEF SeatHeld
  <2> SUFFICES ASSUME x \notin holders'[t] PROVE FALSE
    BY <2>1
  <2>7. s \in RowsOf(x)
    BY <2>1 DEF RowsOf, Stored
  <2>8. ASSUME NEW r \in Requests, TradeOf[r] = x,
               pc[r] \in {"giveback", "full", "undo_gate"}
        PROVE  FALSE
    <3>1. CASE r = s
      BY <1>4, <2>5, <2>8, <3>1 DEF RowAt
    <3>2. CASE r # s
      BY <2>4, <2>7, <2>8, <3>2, LookedAlone DEF Looked, Running
    <3> QED
      BY <3>1, <3>2
  <2>9. ASSUME NEW c \in Callers, refund[c] # L!Idle, refund[c].at = "tail",
               Refunded(c) = <<t, x>>
        PROVE  FALSE
    <3>1. PICK o \in RowsOf(x) : status[o] = "Refunded"
      BY <2>2, <2>3, <2>4, <2>9, ReleaserHasRow
    <3> QED
      BY <2>1, <2>2, <2>7, <3>1 DEF UniqueRow
  <2> QED
    BY <2>1, <2>2, <2>3, <2>6, <2>8, <2>9, PermitLost
<1> QED
  BY <1>3, <1>4

-----------------------------------------------------------------------------
(* The invariant and what follows from it.                                 *)

\* Everything that holds of the flow, its tables and its gate.
Inv == L!IInv /\ GateInv /\ IInv

LEMMA InvInit == Init => Inv
<1> SUFFICES ASSUME Init PROVE Inv
  OBVIOUS
<1>1. L!IInv /\ GateInv
  BY LedgerInit, GateStarts DEF Init
<1>2. L!TypeOK /\ GateTypeOK
  BY <1>1 DEF L!IInv, GateInv
<1>3. FlowTypes
  BY DEF Init, FlowTypes, Labels
<1>4. TypeOK
  BY <1>2, <1>3, TypesOfParts
<1>5. \A r \in Requests : status[r] = "none" /\ direct[r] = "none" /\ pc[r] = "start"
  BY DEF Init, L!Init
<1>6. \A r \in Requests : RowAt(r) /\ KeptApart(r) /\ SawLasting(r) /\ HoldsSeat(r)
  BY <1>5 DEF RowAt, KeptApart, SawLasting, HoldsSeat, Running
<1>7. (\A x \in Trades : RowsOf(x) = {}) /\ \A k \in Keys : cached[k] = NoReq
  BY <1>5 DEF RowsOf, Stored, Init
<1>8. (\A x \in Trades : UniqueRow(x)) /\ \A k \in Keys : CachedLasting(k)
  BY <1>7 DEF UniqueRow, CachedLasting
<1>9. \A c \in Callers : RefundAt(c)
  BY DEF Init, L!Init, RefundAt, L!Idle
<1>10. \A t \in Teams : Backed(t)
  BY DEF Init, GateInit, Backed
<1>11. SeatHeld
  BY <1>5 DEF SeatHeld
<1> QED
  BY <1>1, <1>4, <1>6, <1>8, <1>9, <1>10, <1>11 DEF Inv, IInv

LEMMA InvStep == Inv /\ [Next]_vars => Inv'
<1> SUFFICES ASSUME Inv, [Next]_vars PROVE Inv'
  OBVIOUS
<1>1. /\ TypeOK /\ L!IInv /\ GateInv /\ SeatHeld
      /\ \A r \in Requests : RowAt(r) /\ KeptApart(r) /\ SawLasting(r) /\ HoldsSeat(r)
      /\ \A x \in Trades : UniqueRow(x)
      /\ \A k \in Keys : CachedLasting(k)
      /\ \A c \in Callers : RefundAt(c)
      /\ \A t \in Teams : Backed(t)
  BY DEF Inv, IInv
<1>2. [L!Next]_ledgerVars /\ [GateNext]_gateVars
  BY <1>1, LedgerStep, GateStep
<1>3. L!IInv' /\ GateInv'
  BY <1>1, <1>2, LedgerKept, GateKept
<1>4. TypeOK'
  <2>1. L!TypeOK' /\ GateTypeOK'
    BY <1>3 DEF L!IInv, GateInv
  <2>2. FlowTypes'
    BY <1>1, FlowTypeStep
  <2> QED
    BY <2>1, <2>2, TypesOfParts, PTL
<1>5. \A r \in Requests : RowAt(r)'
  BY <1>1, RowAtStep
<1>6. \A r \in Requests : KeptApart(r)'
  BY <1>1, KeptApartStep
<1>7. \A r \in Requests : SawLasting(r)'
  BY <1>1, SawLastingStep
<1>8. \A r \in Requests : HoldsSeat(r)'
  BY <1>1, HoldsSeatStep
<1>9. \A x \in Trades : UniqueRow(x)'
  BY <1>1, UniqueRowStep
<1>10. \A k \in Keys : CachedLasting(k)'
  BY <1>1, CachedLastingStep
<1>11. \A c \in Callers : RefundAt(c)'
  BY <1>1, <1>2, RefundAtStep
<1>12. \A t \in Teams : Backed(t)'
  BY <1>1, BackedStep
<1>13. SeatHeld'
  BY <1>1, SeatHeldStep
<1> QED
  BY <1>3, <1>4, <1>5, <1>6, <1>7, <1>8, <1>9, <1>10, <1>11, <1>12, <1>13 DEF Inv, IInv

LEMMA Invariance == Spec => []Inv
  BY InvInit, InvStep, PTL DEF Spec

LEMMA BackedPermits == IInv => PermitBacked
<1> SUFFICES ASSUME IInv, NEW t \in Teams, Open(t), NEW x \in holders[t]
             PROVE  \/ ActiveOf(x, t) # {} \/ Requested(x, t) \/ Refunding(x, t)
                    \/ <<t, x>> \in leaked
  BY DEF PermitBacked
<1>1. MayOpen(t) /\ Backed(t)
  BY DEF IInv, Open, MayOpen
<1>2. Backing(x, t)
  BY <1>1 DEF Backed
<1> QED
  BY <1>2 DEF Backing

LEMMA LiveCache == IInv => CachedIsLive
  BY DEF IInv, CachedIsLive, CachedLasting, Lasting

\* The inductive invariant of Lock() holds with that of the tables: at each step
\* a request has the row and the seat that step requires (lock.go), rows are
\* unique, and calls of one outTradeNo are kept apart: those of one user as long
\* as the lock lasts and the look-up answers, those of two users as long as they
\* do not meet. Where they were not, or the holders key expired before its team,
\* the history variables say so and the seat is not promised.
THEOREM FlowInvariance == Spec => [](IInv /\ L!IInv)
<1>1. Inv => IInv /\ L!IInv
  BY DEF Inv
<1> QED
  BY <1>1, Invariance, PTL

\* No seat is lost: in every reachable state a permit of a team that can still be
\* joined has an order, a request, a refund, or a call that died or failed to give
\* it back, to answer for it.
THEOREM PermitsBacked == Spec => []PermitBacked
<1>1. Inv => PermitBacked
  BY BackedPermits DEF Inv
<1> QED
  BY <1>1, Invariance, PTL

\* No seat is sold twice: an active order of a team that can still be joined holds
\* its permit, whatever users send the same outTradeNo and whenever keys expire,
\* but for the losses that SeatHeld names and the history variables record.
THEOREM SeatsHeld == Spec => []SeatHeld
<1>1. Inv => SeatHeld
  BY DEF Inv, IInv
<1> QED
  BY <1>1, Invariance, PTL

\* The result cache never answers with an order that was rolled back, unless the
\* lock of its user and outTradeNo ran out under its holder or a look-up failed.
THEOREM CacheIsLive == Spec => []CachedIsLive
<1>1. Inv => CachedIsLive
  BY LiveCache DEF Inv
<1> QED
  BY <1>1, Invariance, PTL

\* Lock() and Refund() never do to the tables what TeamLedger does not allow, in
\* whatever order their gate, their tables and the gateway answer.
THEOREM LedgerRefinement == Spec => LedgerImplemented
<1>1. Init => L!Init
  BY DEF Init
<1>2. Inv /\ [Next]_vars => [L!Next]_(L!vars)
  BY LedgerStep DEF Inv, IInv, ledgerVars, L!vars
<1> QED
  BY <1>1, <1>2, Invariance, PTL DEF Spec, LedgerImplemented, L!Spec

\* The scripts keep their promise under Lock() and Refund(): no team has more
\* holders than its largest target, and a flag says that the team is full.
THEOREM GateRefinement == Spec => GateSpec /\ [](CapacityBound /\ FlagMeansFull)
<1>1. Init => GateInit
  BY DEF Init
<1>2. Inv /\ [Next]_vars => [GateNext]_gateVars
  BY GateStep DEF Inv, IInv, gateVars
<1>3. Inv => CapacityBound /\ FlagMeansFull
  BY DEF Inv, GateInv
<1> QED
  BY <1>1, <1>2, <1>3, Invariance, PTL DEF Spec, GateSpec

\* What the tables promise survives the gate, the payment and their failures: no
\* team is oversold, a failed one holds nobody's money, and lock_count accounts
\* for the seats, in every state that Lock() and Refund() reach together.
THEOREM LedgerPromises ==
  Spec => [](L!PaidWithinTarget /\ L!FailedTeamOwesNothing /\ L!SeatsAccounted)
<1>1. LP!IInv => LP!PaidWithinTarget /\ LP!FailedTeamOwesNothing
  BY LedgerAssumed, LP!PaidBounded, LP!FailedEmpty
<1>2. /\ L!PaidWithinTarget <=> LP!PaidWithinTarget
      /\ L!FailedTeamOwesNothing <=> LP!FailedTeamOwesNothing
  BY Zenon DEF L!PaidWithinTarget, LP!PaidWithinTarget, L!FailedTeamOwesNothing,
    LP!FailedTeamOwesNothing, L!PaidIn, LP!PaidIn, L!Cardinality, LP!Cardinality
<1>3. L!IInv => L!SeatsAccounted
  BY DEF L!IInv, L!SeatsAccounted
<1>4. Inv => L!PaidWithinTarget /\ L!FailedTeamOwesNothing /\ L!SeatsAccounted
  BY <1>1, <1>2, <1>3, SameLedgerInv DEF Inv
<1> QED
  BY <1>4, Invariance, PTL

\* What TeamLedgerProofs knows of a step of the tables, it knows of a step here.
LEMMA LedgerMoves == Inv /\ [Next]_vars => LP!IInv /\ [LP!Next]_(LP!vars)
<1>1. Inv /\ [Next]_vars => [L!Next]_ledgerVars
  BY LedgerStep DEF Inv, IInv
<1>2. [L!Next]_ledgerVars <=> [LP!Next]_(LP!vars)
  BY SameLedgerNext DEF ledgerVars, LP!vars
<1> QED
  BY <1>1, <1>2, SameLedgerInv DEF Inv

\* So do its promises about steps: no call of Lock() or Refund() undoes a refund
\* or unlocks a paid order, and a team completes with nobody left locked in it
\* unless one of its orders was rolled back.
THEOREM LedgerSteps == Spec => LP!OrderForwardOnly /\ LP!CompletionLeavesNobody
<1>1. Inv /\ [Next]_vars => [LP!MovesForward]_(LP!vars) /\ [LP!CompletesFull]_(LP!vars)
  BY LedgerAssumed, LedgerMoves, LP!Forward, LP!CompletedFull
<1> QED
  BY <1>1, Invariance, PTL DEF Spec, LP!OrderForwardOnly, LP!CompletionLeavesNobody

\* The whole of it, gate, tables, gateway and refunds, is a group purchase as
\* GroupBuy describes it.
THEOREM FlowIsGroupBuy == Spec => LP!ImplementsGroupBuy
<1>1. Init => LP!GB!Init
  BY LedgerAssumed, LP!AbstractInit, SameLedgerInit DEF Init
<1>2. Inv /\ [Next]_vars => [LP!GB!Next]_(LP!GB!gbvars)
  BY LedgerAssumed, LedgerMoves, LP!Simulation
<1> QED
  BY <1>1, <1>2, Invariance, PTL DEF Spec, LP!ImplementsGroupBuy, LP!GB!Spec
=============================================================================
