-------------------------- MODULE PurchaseCounters --------------------------
(***************************************************************************)
(* The purchase limit of one user in one activity. MySQL has the orders;   *)
(* Redis has two counters of them, `active` (locked and paid) read by      *)
(* Lock(), and `take` (paid) read by Settle(). The counters are kept by    *)
(* commands that follow the transactions (internal/service/lock.go,        *)
(* settlement.go, refund.go, internal/redisx/cache.go), and the limit is   *)
(* counted once more inside the settlement transaction                     *)
(* (internal/repository/order.go).                                         *)
(*                                                                         *)
(* The orders may be in different teams, so no row lock relates them. What *)
(* else may refuse a lock or a settlement is TeamLedger's and LockFlow's   *)
(* subject: a call that is refused, or whose process dies, takes no        *)
(* further step here.                                                      *)
(***************************************************************************)
EXTENDS Integers, FiniteSets

CONSTANTS
  Orders,      \* order rows of the user; each is made by one call of Lock()
  Settlers,    \* goroutines inside Settle() for this user
  Limit,       \* activities.take_limit, 0 for no limit
  MaxResent,   \* bound: commands that may be applied a second time in a behaviour
  NoKey        \* a key that does not exist

ASSUME CountersAssumption ==
  /\ IsFiniteSet(Orders)
  /\ IsFiniteSet(Settlers) /\ Settlers # {}
  /\ Limit \in Nat /\ MaxResent \in Nat
  /\ NoKey \notin Int

VARIABLES
  status,      \* orders.status, "none" before the INSERT, "deleted" after a rollback
  locking,     \* where the call of Lock() stands that makes the order
  seed,        \* the count that call read in the table
  tail,        \* where the refund of the order stands behind the tables
  settling,    \* where each goroutine stands in Settle()
  active,      \* bgm:active:{activity}:{user}
  take,        \* bgm:take:{activity}:{user}
  disturbed,   \* history: counters that lost a key or missed an increment, or
               \* were decremented for an order that still counts, or twice: for
               \* one order, or by one command that was sent again
  doubled,     \* history: has the active counter counted an order twice, or
               \* one that was already gone? Also by an INCR sent again
  resends      \* how many commands were applied a second time

vars == <<status, locking, seed, tail, settling, active, take, disturbed, doubled, resends>>

-----------------------------------------------------------------------------
LockSteps == {"start", "seed", "init", "insert", "incr", "pay", "exists", "decr", "done"}
TailSteps == {"no", "take", "exists", "decr"}
Idle      == [at |-> "idle"]
Counting  == [at |-> "incr"]

ActiveOrders == {o \in Orders : status[o] \in {"Locked", "Paid"}}
PaidOrders   == {o \in Orders : status[o] = "Paid"}

\* GET and INCR take a missing key for zero.
Value(key) == IF key = NoKey THEN 0 ELSE key

AtLimit(n) == Limit > 0 /\ n >= Limit

Init ==
  /\ status    = [o \in Orders |-> "none"]
  /\ locking   = [o \in Orders |-> "start"]
  /\ seed      = [o \in Orders |-> 0]
  /\ tail      = [o \in Orders |-> "no"]
  /\ settling  = [c \in Settlers |-> Idle]
  /\ active    = NoKey
  /\ take      = NoKey
  /\ disturbed = {}
  /\ doubled   = FALSE
  /\ resends   = 0

-----------------------------------------------------------------------------
(* Lock(): look at the limit, insert, count.                               *)

LockGoto(o, at) == locking' = [locking EXCEPT ![o] = at]

\* A counter of zero is not trusted, any other is; without Redis the table is
\* asked instead.
GetActiveCount(o) ==
  /\ locking[o] = "start"
  /\ \E n \in {Value(active), Cardinality(ActiveOrders)} :
       LockGoto(o, IF n = 0 THEN "seed" ELSE IF AtLimit(n) THEN "done" ELSE "insert")
  /\ UNCHANGED <<status, seed, tail, settling, active, take, disturbed, doubled, resends>>

CountActiveOrders(o) ==
  /\ locking[o] = "seed"
  /\ seed' = [seed EXCEPT ![o] = Cardinality(ActiveOrders)]
  /\ LockGoto(o, "init")
  /\ UNCHANGED <<status, tail, settling, active, take, disturbed, doubled, resends>>

SeedsAlways(n) == n

\* SETNX.
Seeded(n) == IF active = NoKey THEN n ELSE active

\* Active orders that no INCR is to come for.
Counted == {o \in ActiveOrders : locking[o] # "incr"}

\* An error is only logged. By now an order that was read in the table may be
\* gone again, or its own INCR may follow.
InitActiveCount(o) ==
  /\ locking[o] = "init"
  /\ active' \in {active, Seeded(seed[o])}
  /\ doubled' = (doubled \/ (active' # active /\ seed[o] > Cardinality(Counted)))
  /\ LockGoto(o, IF AtLimit(seed[o]) THEN "done" ELSE "insert")
  /\ seed' = [seed EXCEPT ![o] = 0]
  /\ UNCHANGED <<status, tail, settling, take, disturbed, resends>>

InsertOrder(o) ==
  /\ locking[o] = "insert"
  /\ status' = [status EXCEPT ![o] = "Locked"]
  /\ LockGoto(o, "incr")
  /\ UNCHANGED <<seed, tail, settling, active, take, disturbed, doubled, resends>>

IncrActiveCount(o) ==
  /\ locking[o] = "incr"
  /\ active' = Value(active) + 1
  /\ LockGoto(o, "pay")
  /\ UNCHANGED <<status, seed, tail, settling, take, disturbed, doubled, resends>>

\* The error is logged and the call goes on.
IncrActiveFails(o) ==
  /\ locking[o] = "incr"
  /\ disturbed' = disturbed \union {"active"}
  /\ LockGoto(o, "pay")
  /\ UNCHANGED <<status, seed, tail, settling, active, take, doubled, resends>>

PaymentCreated(o) ==
  /\ locking[o] = "pay"
  /\ LockGoto(o, "done")
  /\ UNCHANGED <<status, seed, tail, settling, active, take, disturbed, doubled, resends>>

\* createPayment failed. The row is deleted whatever its status, and the
\* counter follows even when the row could not be deleted.
RollbackLock(o) ==
  /\ locking[o] = "pay"
  /\ status' \in {status, [status EXCEPT ![o] = "deleted"]}
  /\ disturbed' = IF status' = status \/ status[o] = "Refunded"
                  THEN disturbed \union {"active"} ELSE disturbed
  /\ LockGoto(o, "exists")
  /\ UNCHANGED <<seed, tail, settling, active, take, doubled, resends>>

\* DecrActiveCount: EXISTS, then DECR.
RollbackExists(o) ==
  /\ locking[o] = "exists"
  /\ LockGoto(o, IF active = NoKey THEN "done" ELSE "decr")
  /\ UNCHANGED <<status, seed, tail, settling, active, take, disturbed, doubled, resends>>

RollbackDecr(o) ==
  /\ locking[o] = "decr"
  /\ active' = Value(active) - 1
  /\ LockGoto(o, "done")
  /\ UNCHANGED <<status, seed, tail, settling, take, disturbed, doubled, resends>>

-----------------------------------------------------------------------------
(* Settle(): look at the counter, count in the transaction, count.         *)

SettleGoto(c, place) == settling' = [settling EXCEPT ![c] = place]

\* A counter that is missing or cannot be read is zero, which is not trusted:
\* the table is asked, and its error ignored.
SoftCheckPasses ==
  \E n \in {Value(take), 0}, m \in {Cardinality(PaidOrders), 0} :
    ~AtLimit(IF n = 0 THEN m ELSE n)

RefusedNever(n) == FALSE

RefusedAt(n) == AtLimit(n)

\* The soft check, and the first reads of the transaction, which are from one
\* snapshot: order and count are as of here, the update below works on the row
\* as it has become. The check can only refuse, and passes on an error, so
\* one step stands for both.
BeginSettle(c, o) ==
  /\ settling[c] = Idle
  /\ SoftCheckPasses
  /\ status[o] = "Locked"
  /\ ~RefusedAt(Cardinality(PaidOrders))
  /\ SettleGoto(c, [at |-> "commit", ord |-> o])
  /\ UNCHANGED <<status, locking, seed, tail, active, take, disturbed, doubled, resends>>

SettleOrder(c) ==
  /\ settling[c].at = "commit"
  /\ status[settling[c].ord] = "Locked"
  /\ status' = [status EXCEPT ![settling[c].ord] = "Paid"]
  /\ SettleGoto(c, Counting)
  /\ UNCHANGED <<locking, seed, tail, active, take, disturbed, doubled, resends>>

IncrTakeCount(c) ==
  /\ settling[c] = Counting
  /\ take' = Value(take) + 1
  /\ SettleGoto(c, Idle)
  /\ UNCHANGED <<status, locking, seed, tail, active, disturbed, doubled, resends>>

\* The order is not locked or the team not forming any more, an error, or the
\* process dies. The error of the last command is only logged.
SettleStops(c) ==
  /\ settling[c] # Idle
  /\ disturbed' = IF settling[c] = Counting THEN disturbed \union {"take"} ELSE disturbed
  /\ SettleGoto(c, Idle)
  /\ UNCHANGED <<status, locking, seed, tail, active, take, doubled, resends>>

-----------------------------------------------------------------------------
(* Refund(): flip the order, count back.                                   *)

TailGoto(o, at) == tail' = [tail EXCEPT ![o] = at]

TakesAlways(orderStatus) == "take"

SkipsUnpaid(orderStatus) == IF orderStatus = "Paid" THEN "take" ELSE "no"

\* Only a paid order was counted as taken.
FirstCounter(orderStatus) == IF orderStatus = "Paid" THEN "take" ELSE "exists"

RefundOrder(o) ==
  /\ status[o] \in {"Locked", "Paid"}
  /\ status' = [status EXCEPT ![o] = "Refunded"]
  /\ TailGoto(o, FirstCounter(status[o]))
  /\ UNCHANGED <<locking, seed, settling, active, take, disturbed, doubled, resends>>

DecrUnguarded(key) == Value(key) - 1

\* The script of DecrTakeCount.
DecrGuarded(key) == IF key # NoKey /\ Value(key) > 0 THEN Value(key) - 1 ELSE key

DecrTakeCount(o) ==
  /\ tail[o] = "take"
  /\ take' = DecrGuarded(take)
  /\ TailGoto(o, "exists")
  /\ UNCHANGED <<status, locking, seed, settling, active, disturbed, doubled, resends>>

\* DecrActiveCount: EXISTS, then DECR. When one of them fails nothing is left
\* to do, as for a process that dies. Without a key there is nothing to take
\* back, although the INCR of the order may be still to come.
RefundExists(o) ==
  /\ tail[o] = "exists"
  /\ TailGoto(o, IF active = NoKey THEN "no" ELSE "decr")
  /\ doubled' = (doubled \/ (active = NoKey /\ locking[o] = "incr"))
  /\ UNCHANGED <<status, locking, seed, settling, active, take, disturbed, resends>>

RefundDecr(o) ==
  /\ tail[o] = "decr"
  /\ active' = Value(active) - 1
  /\ TailGoto(o, "no")
  /\ UNCHANGED <<status, locking, seed, settling, take, disturbed, doubled, resends>>

\* Redis cannot be reached, which is only logged.
DecrTakeFails(o) ==
  /\ tail[o] = "take"
  /\ TailGoto(o, "exists")
  /\ UNCHANGED <<status, locking, seed, settling, active, take, disturbed, doubled, resends>>

-----------------------------------------------------------------------------
\* Redis restarts, or a key expires or is evicted.
ActiveLost ==
  /\ active # NoKey
  /\ active' = NoKey
  /\ disturbed' = disturbed \union {"active"}
  /\ UNCHANGED <<status, locking, seed, tail, settling, take, doubled, resends>>

TakeLost ==
  /\ take # NoKey
  /\ take' = NoKey
  /\ disturbed' = disturbed \union {"take"}
  /\ UNCHANGED <<status, locking, seed, tail, settling, active, doubled, resends>>

(* The client repeats a command that got no reply (MaxRetries), and Redis   *)
(* may have run it the first time: it is applied, and its call is still    *)
(* waiting. SETNX and the reads may be repeated without harm.              *)

SendAgain == resends < MaxResent /\ resends' = resends + 1

IncrActiveAgain(o) ==
  /\ locking[o] = "incr"
  /\ active' = Value(active) + 1
  /\ doubled' = TRUE
  /\ SendAgain
  /\ UNCHANGED <<status, locking, seed, tail, settling, take, disturbed>>

DecrActiveAgain(o) ==
  /\ locking[o] = "decr" \/ tail[o] = "decr"
  /\ active' = Value(active) - 1
  /\ disturbed' = disturbed \union {"active"}
  /\ SendAgain
  /\ UNCHANGED <<status, locking, seed, tail, settling, take, doubled>>

\* Only makes the counter too high.
IncrTakeAgain(c) ==
  /\ settling[c] = Counting
  /\ take' = Value(take) + 1
  /\ SendAgain
  /\ UNCHANGED <<status, locking, seed, tail, settling, active, disturbed, doubled>>

DecrTakeAgain(o) ==
  /\ tail[o] = "take"
  /\ take' = DecrGuarded(take)
  /\ disturbed' = disturbed \union {"take"}
  /\ SendAgain
  /\ UNCHANGED <<status, locking, seed, tail, settling, active, doubled>>

ResendStep ==
  \/ \E o \in Orders : IncrActiveAgain(o) \/ DecrActiveAgain(o) \/ DecrTakeAgain(o)
  \/ \E c \in Settlers : IncrTakeAgain(c)

-----------------------------------------------------------------------------
LockStep(o) ==
  \/ GetActiveCount(o) \/ CountActiveOrders(o) \/ InitActiveCount(o) \/ InsertOrder(o)
  \/ IncrActiveCount(o) \/ IncrActiveFails(o) \/ PaymentCreated(o)
  \/ RollbackLock(o) \/ RollbackExists(o) \/ RollbackDecr(o)

SettleStep(c) ==
  \/ \E o \in Orders : BeginSettle(c, o)
  \/ SettleOrder(c) \/ IncrTakeCount(c) \/ SettleStops(c)

RefundStep(o) ==
  \/ RefundOrder(o) \/ DecrTakeCount(o) \/ RefundExists(o) \/ RefundDecr(o) \/ DecrTakeFails(o)

Next ==
  \/ \E o \in Orders : LockStep(o) \/ RefundStep(o)
  \/ \E c \in Settlers : SettleStep(c)
  \/ ActiveLost
  \/ TakeLost
  \/ ResendStep

Spec == Init /\ [][Next]_vars

-----------------------------------------------------------------------------
SettleState == {Idle, Counting} \union [at : {"commit"}, ord : Orders]

\* Type invariant. The script keeps the take counter from going negative; the
\* active counter may.
TypeOK ==
  /\ status \in [Orders -> {"none", "Locked", "Paid", "Refunded", "deleted"}]
  /\ locking \in [Orders -> LockSteps]
  /\ seed \in [Orders -> Nat]
  /\ tail \in [Orders -> TailSteps]
  /\ settling \in [Settlers -> SettleState]
  /\ active \in Int \union {NoKey}
  /\ take \in Nat \union {NoKey}
  /\ disturbed \subseteq {"active", "take"}
  /\ doubled \in BOOLEAN
  /\ resends \in 0..MaxResent

\* Settlements whose transaction has counted and not yet committed.
Committing == {c \in Settlers : settling[c].at = "commit"}

\* The last line of defence of the limit is the count inside the settlement
\* transaction (order.go). Whatever becomes of the counters in Redis, a user
\* passes the limit by no more than the settlements that overlap with one.
PaidWithinLimit ==
  Limit > 0 => Cardinality(PaidOrders) <= Limit + Cardinality(Settlers) - 1

\* Calls of Lock() between the INSERT and the INCR of the active counter, those
\* included that end there.
Uncounted == {o \in Orders : locking[o] = "incr"}

\* The active counter never lets a user through who is at the limit: but for
\* INCRs that are still to come, or that their call died before, it covers
\* every active order, in whatever order refunds, rollbacks and the seeding of
\* the counter interleave, unless Redis lost a key, or the count of an order
\* went wrong on the way: its INCR failed, or its DECR came too soon, twice for
\* the order, or twice because the reply of the first was lost.
ActiveNotUndercounted ==
  active # NoKey /\ "active" \notin disturbed =>
    Cardinality(ActiveOrders) <= active + Cardinality(Uncounted)

\* Orders that are gone and not taken back from the active counter, those
\* included whose call died before, or failed.
NotTakenBack == {o \in Orders : tail[o] # "no" \/ locking[o] \in {"exists", "decr"}}

\* Nor does the active counter refuse a user for orders that are gone: what it
\* has too many are decrements still to come, or cut off, or the seed met an
\* INCR or a refund that was under way, or an INCR was sent again. Nothing
\* brings such a count down: decrActive (refund.go) logs a failed decrement and
\* counts on a rebuild from the table, but the table is asked only when the
\* counter is zero.
ActiveNotOvercounted ==
  active # NoKey /\ "active" \notin disturbed /\ ~doubled =>
    active <= Cardinality(ActiveOrders) + Cardinality(NotTakenBack)

CountingCalls == {c \in Settlers : settling[c] = Counting}

\* The same of the take counter and the paid orders: but for INCRs that are
\* missing or to come it covers every paid order, unless Redis lost the key or
\* ran the script of a decrement twice.
TakeNotUndercounted ==
  take # NoKey /\ "take" \notin disturbed =>
    Cardinality(PaidOrders) <= take + Cardinality(CountingCalls)

\* Why the count in the transaction is enough: a settlement that has counted is
\* as good as a paid order.
PaidOnTheWay ==
  Limit > 0 =>
    Cardinality(PaidOrders) + Cardinality(Committing) <= Limit + Cardinality(Settlers) - 1

\* How the order, the call that makes it and its refund go together. Until the
\* active counter has a key, no call is past its INCR.
Together(o) ==
  /\ locking[o] \in {"start", "seed", "init", "insert"} => status[o] = "none"
  /\ locking[o] \in {"incr", "pay"} => status[o] \in {"Locked", "Paid", "Refunded"}
  /\ locking[o] \in {"exists", "decr"} => status[o] # "none"
  /\ tail[o] # "no" => status[o] \in {"Refunded", "deleted"}
  /\ "active" \notin disturbed =>
       /\ locking[o] \in {"exists", "decr"} => status[o] = "deleted" /\ tail[o] = "no"
       /\ active = NoKey /\ status[o] # "none" => locking[o] = "incr" /\ tail[o] # "decr"

\* ActiveNotUndercounted, with the decrements that are still to come: each of
\* them must find its own order counted.
ActiveCovers ==
  "active" \notin disturbed =>
    Cardinality(ActiveOrders) + Cardinality(NotTakenBack) <= Value(active) + Cardinality(Uncounted)

\* Orders the active counter should have counted, and those taken back from it
\* before they were counted.
Countable  == {o \in ActiveOrders \union NotTakenBack : locking[o] # "incr"}
TakenEarly == {o \in Uncounted : status[o] = "Refunded" /\ tail[o] = "no"}

\* ActiveNotOvercounted, likewise.
ActiveCovered ==
  "active" \notin disturbed /\ ~doubled =>
    Value(active) + Cardinality(TakenEarly) <= Cardinality(Countable)

TakenBackNext == {o \in Orders : tail[o] = "take"}

\* TakeNotUndercounted, likewise.
TakeCovers ==
  "take" \notin disturbed =>
    Cardinality(PaidOrders) + Cardinality(TakenBackNext) <= Value(take) + Cardinality(CountingCalls)

\* The inductive invariant: increments and decrements follow the transactions
\* in any order, so each bound counts those that are under way as well.
IInv ==
  /\ TypeOK
  /\ PaidOnTheWay
  /\ \A o \in Orders : Together(o)
  /\ ActiveCovers /\ ActiveCovered /\ TakeCovers
=============================================================================
