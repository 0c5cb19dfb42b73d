----------------------------- MODULE TeamLedger -----------------------------
(***************************************************************************)
(* The MySQL tables `teams` and `orders` and every transaction that the    *)
(* services run on them (internal/repository/order.go), with the places    *)
(* where a service call stops between two of those transactions:           *)
(*                                                                         *)
(*   - Lock() commits the order, then calls the payment gateway, then may  *)
(*     roll the commit back (internal/service/lock.go);                    *)
(*   - Refund() reads the order and its team, flips the order, and updates *)
(*     the team's counters in a second transaction                         *)
(*     (internal/service/refund.go).                                       *)
(*                                                                         *)
(* Admission is left as free as the tables themselves leave it: the Redis  *)
(* slot gate in front of them is SlotGate, and LockFlow composes the two.  *)
(* Direct purchases (orders.team_id = '') touch no team and are not here.  *)
(***************************************************************************)
EXTENDS Integers, FiniteSets

CONSTANTS
  Orders,      \* order rows, one per order_id the system may generate
  Teams,       \* team rows, one per team_id
  Callers,     \* goroutines inside Refund(): users, the scanner, the consumer
  Targets,     \* values activities.target_count may have
  NoTeam       \* the team of an order row that does not exist yet

ASSUME LedgerAssumption ==
  /\ IsFiniteSet(Orders)
  /\ Targets \subseteq Nat \ {0}
  /\ NoTeam \notin Teams

VARIABLES
  status,      \* orders.status, "none" before the INSERT, "deleted" after a rollback
  teamOf,      \* orders.team_id
  team,        \* the teams row: status, lock_count, complete_count, target_count
  expired,     \* teams whose valid_end has passed
  paying,      \* what Lock() would roll back if createPayment failed now
  refund,      \* where each caller stands inside Refund()
  stranded,    \* history: orders flipped to Refunded whose team update never happened
  doubled      \* history: refunded orders that a rollback released a second time

vars == <<status, teamOf, team, expired, paying, refund, stranded, doubled>>

-----------------------------------------------------------------------------
OrderStatus == {"none", "Locked", "Paid", "Refunded", "deleted"}
TeamStatus  == {"none", "Forming", "Complete", "Failed", "CompleteRefunded", "deleted"}
Paths       == {"unpaid", "unpaidFailedTeam", "paid", "paidFailedTeam", "paidTeam"}

NoRow == [status |-> "none", lock |-> 0, complete |-> 0, target |-> 0]
Idle  == [at |-> "idle"]

\* A row that queries on teams still find.
Exists(t) == team[t].status \notin {"none", "deleted"}

\* The counter update of the conditional UPDATE statements.
Bump(t, dLock, dComplete) ==
  [team EXCEPT ![t].lock = @ + dLock, ![t].complete = @ + dComplete]

-----------------------------------------------------------------------------
Init ==
  /\ status   = [o \in Orders |-> "none"]
  /\ teamOf   = [o \in Orders |-> NoTeam]
  /\ team     = [t \in Teams |-> NoRow]
  /\ expired  = {}
  /\ paying   = [o \in Orders |-> "no"]
  /\ refund   = [c \in Callers |-> Idle]
  /\ stranded = {}
  /\ doubled  = {}

-----------------------------------------------------------------------------
(* Lock(): the two admission transactions, and the two compensations.      *)

Insert(o, t, kind) ==
  /\ status[o] = "none"
  /\ status' = [status EXCEPT ![o] = "Locked"]
  /\ teamOf' = [teamOf EXCEPT ![o] = t]
  /\ paying' = [paying EXCEPT ![o] = kind]
  /\ UNCHANGED <<expired, refund, stranded, doubled>>

CreateTeamWithOrder(o, t, n) ==
  /\ Insert(o, t, "new")
  /\ team[t].status = "none"
  /\ team' = [team EXCEPT ![t] =
                [status |-> "Forming", lock |-> 1, complete |-> 0, target |-> n]]

HasRoomOffByOne(t) == team[t].lock <= team[t].target

\* The row-locked capacity check; the team's status is not looked at here.
HasRoom(t) == team[t].lock < team[t].target

JoinTeamWithOrder(o, t) ==
  /\ Exists(t)
  /\ HasRoom(t)
  /\ Insert(o, t, "join")
  /\ team' = Bump(t, 1, 0)

\* createPayment succeeded, or the request died before it could roll back.
PaymentCreated(o) ==
  /\ paying[o] # "no"
  /\ paying' = [paying EXCEPT ![o] = "no"]
  /\ UNCHANGED <<status, teamOf, team, expired, refund, stranded, doubled>>

DeleteOrder(o) ==
  /\ status' = [status EXCEPT ![o] = "deleted"]
  /\ paying' = [paying EXCEPT ![o] = "no"]
  /\ UNCHANGED <<teamOf, expired, refund, stranded>>

\* createPayment failed for the order that opened the team: both rows go,
\* whoever else has joined in the meantime.
RollbackNewTeam(o) ==
  /\ paying[o] = "new"
  /\ DeleteOrder(o)
  /\ team' = [team EXCEPT ![teamOf[o]].status = "deleted"]
  /\ UNCHANGED doubled

\* createPayment failed for an order that joined: the row goes, whatever its
\* status has become, and the seat is given back unless the count is zero.
RollbackJoinTeam(o) ==
  LET t == teamOf[o] IN
  /\ paying[o] = "join"
  /\ DeleteOrder(o)
  /\ team' = IF Exists(t) /\ team[t].lock > 0 THEN Bump(t, -1, 0) ELSE team
  /\ doubled' = IF status[o] = "Refunded" THEN doubled \union {o} ELSE doubled

-----------------------------------------------------------------------------
(* Settle(): one transaction under the team's row lock.                    *)

CompletesOffByOne(t) == team[t].complete + 1 > team[t].target

Completes(t) == team[t].complete + 1 >= team[t].target

SettleAnyStatus(o) == status[o] \in {"Locked", "Refunded"}

Settleable(o) == status[o] = "Locked"

TakesPaymentAnyStatus(t) == t \notin expired

\* The checks under the team's row lock.
TakesPayment(t) == team[t].status = "Forming" /\ t \notin expired

\* The caller may still be refused by the purchase limit, which then changes
\* nothing: a step not taken.
SettleOrder(o) ==
  LET t == teamOf[o] IN
  /\ Settleable(o)
  /\ TakesPayment(t)
  /\ status' = [status EXCEPT ![o] = "Paid"]
  /\ team' = [team EXCEPT ![t].complete = @ + 1,
                          ![t].status = IF Completes(t) THEN "Complete" ELSE @]
  /\ UNCHANGED <<teamOf, expired, paying, refund, stranded, doubled>>

\* valid_end passes. Nothing in the program turns such a team into a failed one.
TeamExpires(t) ==
  /\ team[t].status = "Forming"
  /\ t \notin expired
  /\ expired' = expired \union {t}
  /\ UNCHANGED <<status, teamOf, team, paying, refund, stranded, doubled>>

-----------------------------------------------------------------------------
(* Refund(): read, flip the order, update the team, tail.                  *)

RefundPath(orderStatus, teamStatus) ==
  CASE orderStatus = "Locked" /\ teamStatus = "Forming" -> "unpaid"
    [] orderStatus = "Locked" /\ teamStatus = "Failed"  -> "unpaidFailedTeam"
    [] orderStatus = "Paid"   /\ teamStatus = "Forming" -> "paid"
    [] orderStatus = "Paid"   /\ teamStatus = "Failed"  -> "paidFailedTeam"
    [] orderStatus = "Paid"   /\ teamStatus \in {"Complete", "CompleteRefunded"} -> "paidTeam"
    [] OTHER -> "invalid"

FromStatus(path) == IF path \in {"unpaid", "unpaidFailedTeam"} THEN "Locked" ELSE "Paid"

UpdatesTeam(path) == path \in {"unpaid", "paid", "paidTeam"}

\* The order is read, then its team; on that pair the path is chosen, and it
\* may be stale by the time of the first write. One step stands for the two
\* reads: an order never returns to a status it left, so when the write below
\* still finds the status that was read, it held during both.
ReadForRefund(c, o) ==
  LET path == RefundPath(status[o], team[teamOf[o]].status) IN
  /\ refund[c] = Idle
  /\ status[o] \in {"Locked", "Paid"}
  /\ path # "invalid"
  /\ refund' = [refund EXCEPT ![c] = [at |-> "read", ord |-> o, path |-> path]]
  /\ UNCHANGED <<status, teamOf, team, expired, paying, stranded, doubled>>

StillAsReadUnchecked(c) == status[refund[c].ord] \in {"Locked", "Paid", "Refunded"}

\* The WHERE status = ? of UpdateOrderStatusWithCheck.
StillAsRead(c) == status[refund[c].ord] = FromStatus(refund[c].path)

FlipOrder(c) ==
  /\ refund[c].at = "read"
  /\ StillAsRead(c)
  /\ status' = [status EXCEPT ![refund[c].ord] = "Refunded"]
  /\ refund' = [refund EXCEPT ![c].at =
                  IF UpdatesTeam(refund[c].path) THEN "flipped" ELSE "tail"]
  /\ UNCHANGED <<teamOf, team, expired, paying, stranded, doubled>>

\* No row matched: another call was faster, and this one only reads again.
LoseRace(c) ==
  /\ refund[c].at = "read"
  /\ ~StillAsRead(c)
  /\ refund' = [refund EXCEPT ![c] = Idle]
  /\ UNCHANGED <<status, teamOf, team, expired, paying, stranded, doubled>>

CompleteDelta(path) == IF path = "unpaid" THEN 0 ELSE -1

FormingUpdatableUnchecked(t, dComplete) == team[t].status = "Forming"

\* The WHERE clause of RefundTeamForming.
FormingUpdatable(t, dComplete) ==
  /\ team[t].status = "Forming"
  /\ team[t].lock - 1 >= 0
  /\ team[t].complete + dComplete >= 0

RefundTeamForming(c) ==
  LET t  == teamOf[refund[c].ord]
      dc == CompleteDelta(refund[c].path)
  IN
  /\ refund[c].path \in {"unpaid", "paid"}
  /\ FormingUpdatable(t, dc)
  /\ team' = Bump(t, -1, dc)

FailsLate(newComplete) == newComplete <= 1

\* The team fails with its last paid member, and only then.
DissolvesAt(newComplete) == newComplete <= 0

RefundCompleteTeam(c) ==
  LET t == teamOf[refund[c].ord] IN
  /\ refund[c].path = "paidTeam"
  /\ team[t].status \in {"Complete", "CompleteRefunded"}
  /\ team' = [team EXCEPT
       ![t].lock     = IF @ > 0 THEN @ - 1 ELSE 0,
       ![t].complete = @ - 1,
       ![t].status   = IF DissolvesAt(team[t].complete - 1)
                       THEN "Failed" ELSE "CompleteRefunded"]

UpdateTeam(c) ==
  /\ refund[c].at = "flipped"
  /\ RefundTeamForming(c) \/ RefundCompleteTeam(c)
  /\ refund' = [refund EXCEPT ![c].at = "tail"]
  /\ UNCHANGED <<status, teamOf, expired, paying, stranded, doubled>>

\* The team left the expected status, lost its row, or would go negative: the
\* call returns an error, the order stays Refunded and the counters are wrong.
UpdateTeamFails(c) ==
  LET t == teamOf[refund[c].ord] IN
  /\ refund[c].at = "flipped"
  /\ IF refund[c].path = "paidTeam"
     THEN team[t].status \notin {"Complete", "CompleteRefunded"}
     ELSE ~FormingUpdatable(t, CompleteDelta(refund[c].path))
  /\ refund' = [refund EXCEPT ![c] = Idle]
  /\ stranded' = stranded \union {refund[c].ord}
  /\ UNCHANGED <<status, teamOf, team, expired, paying, doubled>>

\* Close the payment, file the notification, release the slot, adjust the
\* purchase counters: best-effort steps that touch neither table.
FinishRefund(c) ==
  /\ refund[c].at = "tail"
  /\ refund' = [refund EXCEPT ![c] = Idle]
  /\ UNCHANGED <<status, teamOf, team, expired, paying, stranded, doubled>>

\* The process dies, or a statement fails, between two steps of the call.
AbandonRefund(c) ==
  /\ refund[c] # Idle
  /\ refund' = [refund EXCEPT ![c] = Idle]
  /\ stranded' = IF refund[c].at = "flipped"
                 THEN stranded \union {refund[c].ord} ELSE stranded
  /\ UNCHANGED <<status, teamOf, team, expired, paying, doubled>>

-----------------------------------------------------------------------------
LockStep(o) ==
  \/ \E t \in Teams, n \in Targets : CreateTeamWithOrder(o, t, n)
  \/ \E t \in Teams : JoinTeamWithOrder(o, t)
  \/ PaymentCreated(o)
  \/ RollbackNewTeam(o)
  \/ RollbackJoinTeam(o)

RefundStep(c) ==
  \/ \E o \in Orders : ReadForRefund(c, o)
  \/ FlipOrder(c)
  \/ LoseRace(c)
  \/ UpdateTeam(c)
  \/ UpdateTeamFails(c)
  \/ FinishRefund(c)
  \/ AbandonRefund(c)

Next ==
  \/ \E o \in Orders : LockStep(o) \/ SettleOrder(o)
  \/ \E t \in Teams : TeamExpires(t)
  \/ \E c \in Callers : RefundStep(c)

Spec == Init /\ [][Next]_vars

-----------------------------------------------------------------------------
TeamRow == [status : TeamStatus, lock : Nat, complete : Nat, target : Targets \union {0}]

RefundState == {Idle} \union [at : {"read", "flipped", "tail"}, ord : Orders, path : Paths]

\* Type invariant. lock_count and complete_count are naturals: no interleaving
\* of rollbacks and refunds drives a team's counters below zero.
TypeOK ==
  /\ status \in [Orders -> OrderStatus]
  /\ teamOf \in [Orders -> Teams \union {NoTeam}]
  /\ team \in [Teams -> TeamRow]
  /\ expired \subseteq Teams
  /\ paying \in [Orders -> {"no", "new", "join"}]
  /\ refund \in [Callers -> RefundState]
  /\ stranded \subseteq Orders
  /\ doubled \subseteq Orders

Flipped(c) == refund[c] # Idle /\ refund[c].at = "flipped"

\* A refund of this order is between its two transactions.
Pending(o, paths) ==
  \E c \in Callers : /\ Flipped(c)
                     /\ refund[c].ord = o
                     /\ refund[c].path \in paths

PaidIn(t)    == {o \in Orders : teamOf[o] = t /\ status[o] = "Paid"}
Active(t)    == {o \in Orders : teamOf[o] = t /\ status[o] \in {"Locked", "Paid"}}

\* Orders whose unit of complete_count has not been taken back.
PaidSeats(t) == {o \in Orders : /\ teamOf[o] = t
                                /\ status[o] = "Paid" \/ Pending(o, {"paid", "paidTeam"})}

\* Orders whose unit of lock_count has not been taken back.
Seats(t)     == {o \in Orders : /\ teamOf[o] = t
                                /\ \/ status[o] \in {"Locked", "Paid"}
                                   \/ Pending(o, {"unpaid", "paid"})}

\* Neither counter of a team row passes its target, and a team is never left
\* forming once it has its members.
CountersBounded ==
  \A t \in Teams : Exists(t) =>
    /\ team[t].lock <= team[t].target
    /\ team[t].complete <= team[t].target
    /\ team[t].status = "Forming" => team[t].complete < team[t].target

\* No oversell: the members of a team that have paid and were not refunded
\* never outnumber its target, however settlements, refunds, rollbacks and
\* crashes interleave.
PaidWithinTarget ==
  \A t \in Teams : team[t].status # "none" =>
    Cardinality(PaidIn(t)) <= team[t].target

\* A team that dissolved keeps no member's money: status Failed is reached
\* only when nobody in the team is Paid.
FailedTeamOwesNothing ==
  \A t \in Teams : team[t].status = "Failed" => PaidIn(t) = {}

StrandedIn(t) == {o \in stranded : teamOf[o] = t}
DoubledIn(t)  == {o \in doubled : teamOf[o] = t}

SeatsCounted(t) ==
  team[t].status = "Forming" =>
    /\ team[t].lock <= Cardinality(Seats(t)) + Cardinality(StrandedIn(t))
    /\ team[t].lock >= Cardinality(Seats(t)) - Cardinality(DoubledIn(t))

\* lock_count of a forming team is the number of seats in use, up to the two
\* known drifts: refunds cut off between their transactions keep a seat
\* counted, and a rollback of an already refunded order gives one back twice.
SeatsAccounted == \A t \in Teams : SeatsCounted(t)

MovesForward ==
  \A o \in Orders :
    /\ status[o] = "Refunded" => status'[o] \in {"Refunded", "deleted"}
    /\ status[o] = "Paid" => status'[o] \in {"Paid", "Refunded", "deleted"}
    /\ status[o] = "deleted" => status'[o] = "deleted"

\* Settlement and refund race for an order: whichever loses must not undo the
\* winner, so a refunded order is never settled and a paid one never unlocked.
OrderForwardOnly == [][MovesForward]_vars

RolledBack(t) == \E o \in Orders : teamOf[o] = t /\ status[o] = "deleted"

CompletesFull ==
  \A t \in Teams : team[t].status = "Forming" /\ team'[t].status = "Complete" =>
    \/ \A o \in Orders : teamOf[o] = t => status'[o] # "Locked"
    \/ RolledBack(t)

\* A complete team takes no payment, and Refund() has no path for an order that
\* is locked in one. So completion must find nobody locked: the two counters,
\* updated by different transactions, agree when it matters. A rollback spoils
\* that, because it deletes a paid or refunded order as if it were locked.
CompletionLeavesNobody == [][CompletesFull]_vars

\* What a row of teams looks like at every moment.
RowShape(t) ==
  LET row == team[t] IN
  /\ row.status = "none" => row = NoRow
  /\ row.status \in {"Forming", "Complete", "CompleteRefunded", "Failed"} => row.lock <= row.target
  /\ row.complete <= row.target
  /\ row.status = "Forming" => row.complete < row.target
  /\ row.status \in {"Complete", "CompleteRefunded"} => row.complete > 0
  /\ row.status = "Failed" => row.complete = 0

\* An order row belongs to a team that was created.
InsertedInTeam(o) ==
  status[o] # "none" => teamOf[o] \in Teams /\ team[teamOf[o]].status # "none"

Untouched(o) == status[o] = "none" => paying[o] = "no"

RefundsARow(c) == refund[c] # Idle => status[refund[c].ord] # "none"

\* A refund between its transactions has its order to itself.
FlippedAlone(c) ==
  Flipped(c) =>
    /\ status[refund[c].ord] \in {"Refunded", "deleted"}
    /\ UpdatesTeam(refund[c].path)
    /\ \A d \in Callers : Flipped(d) /\ refund[d].ord = refund[c].ord => d = c

\* complete_count may count members that left, never miss one that paid.
PaidCounted(t) == Cardinality(PaidSeats(t)) <= team[t].complete

\* Orders whose unit of lock_count stands for a member that has not paid.
LockedSeats(t) == {o \in Orders : /\ teamOf[o] = t
                                  /\ status[o] = "Locked" \/ Pending(o, {"unpaid"})}

\* The two counters differ by no less than the members that have not paid.
LockedCounted(t) ==
  team[t].status = "Forming" /\ ~RolledBack(t) =>
    Cardinality(LockedSeats(t)) + team[t].complete <= team[t].lock

\* An order is stranded or doubled at most once.
DriftsOnce(o) ==
  /\ status[o] = "deleted" => paying[o] = "no"
  /\ o \in doubled => status[o] = "deleted"
  /\ o \in stranded => status[o] \in {"Refunded", "deleted"} /\ ~Pending(o, Paths)

\* Only the two paths that were read in a forming team give back a seat of one.
PathFits(c) ==
  refund[c] # Idle /\ refund[c].path \notin {"unpaid", "paid"} =>
    team[teamOf[refund[c].ord]].status # "Forming"

\* The inductive invariant: why the checks made under row locks are enough.
\* A refund that is cut off leaves complete_count too high, and nothing ever
\* makes it too low, so the target bounds the members as well as the count.
IInv ==
  /\ TypeOK
  /\ \A t \in Teams : RowShape(t) /\ PaidCounted(t) /\ LockedCounted(t) /\ SeatsCounted(t)
  /\ \A o \in Orders : InsertedInTeam(o) /\ Untouched(o) /\ DriftsOnce(o)
  /\ \A c \in Callers : FlippedAlone(c) /\ RefundsARow(c) /\ PathFits(c)

\* How the tables look to the members of a team. The program's two ways of
\* leaving, refund and rollback, are one here, and so are its two ways of
\* being complete.
Life(o) == IF status[o] \in {"Refunded", "deleted"} THEN "gone" ELSE status[o]

Phase(t) == IF team[t].status = "CompleteRefunded" THEN "Complete" ELSE team[t].status

GB == INSTANCE GroupBuy WITH
        life  <- [o \in Orders |-> Life(o)],
        home  <- teamOf,
        phase <- [t \in Teams |-> Phase(t)],
        size  <- [t \in Teams |-> team[t].target]

\* The tables implement GroupBuy: in every interleaving of settlements,
\* refunds, rollbacks and crashes, nobody pays beyond the target or outside a
\* forming team, and a team dissolves only after its last member was refunded.
ImplementsGroupBuy == GB!Spec

\* Refuted. orders.team_id refers to a row of teams.
OrdersHaveTeam ==
  \A o \in Orders : status[o] \in {"Locked", "Paid"} => Exists(teamOf[o])
=============================================================================
