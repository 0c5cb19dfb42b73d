-------------------------- MODULE TeamLedgerProofs --------------------------
(***************************************************************************)
(* Theorems of TeamLedger, for any finite set of orders and any teams,     *)
(* concurrent refund calls and target counts.                              *)
(*                                                                         *)
(* The invariant IInv is proved one part at a time: types, the shape of a  *)
(* team row, who refers to whom, and last the one that carries the result, *)
(* that complete_count never counts fewer than the members that paid.      *)
(***************************************************************************)
EXTENDS TeamLedger, FiniteSetTheorems, TLAPS

\* The counter updates keep a table of team rows, as long as neither counter
\* goes below zero.
LEMMA BumpType ==
  ASSUME TypeOK, NEW t \in Teams, NEW i \in Int, NEW j \in Int,
         team[t].lock + i \in Nat, team[t].complete + j \in Nat
  PROVE  Bump(t, i, j) \in [Teams -> TeamRow]
  BY DEF TypeOK, Bump, TeamRow

LEMMA RowType ==
  ASSUME TypeOK, NEW t \in Teams
  PROVE  /\ team[t].lock \in Nat
         /\ team[t].complete \in Nat
         /\ team[t].target \in Nat
         /\ team[t].status \in TeamStatus
<1>1. /\ team[t].lock \in Nat /\ team[t].complete \in Nat
      /\ team[t].status \in TeamStatus
      /\ team[t].target \in Targets \union {0}
  BY DEF TypeOK, TeamRow
<1>2. ASSUME NEW n \in Targets \union {0} PROVE n \in Nat
  BY LedgerAssumption
<1> QED
  BY <1>1, <1>2

\* A settlement counts the member and may change the team's status.
LEMMA SettleType ==
  ASSUME TypeOK, NEW t \in Teams, NEW s \in TeamStatus
  PROVE  [team EXCEPT ![t].complete = @ + 1, ![t].status = s] \in [Teams -> TeamRow]
<1> DEFINE counted == [team EXCEPT ![t].complete = @ + 1]
<1>1. counted \in [Teams -> TeamRow]
  BY DEF TypeOK, TeamRow
<1>2. [counted EXCEPT ![t].status = s] \in [Teams -> TeamRow]
  <2> HIDE DEF counted
  <2> QED
    BY <1>1 DEF TeamRow
<1> QED
  BY <1>2

\* An order row that exists, or that Lock() may still roll back, has a team.
LEMMA KnownTeam ==
  ASSUME IInv, NEW o \in Orders, status[o] # "none" \/ paying[o] # "no"
  PROVE  teamOf[o] \in Teams /\ team[teamOf[o]].status # "none" /\ status[o] # "none"
  BY DEF IInv, InsertedInTeam, Untouched

LEMMA RefundType ==
  ASSUME TypeOK, NEW c \in Callers, refund[c] # Idle
  PROVE  refund[c] \in [at : {"read", "flipped", "tail"}, ord : Orders, path : Paths]
  BY DEF TypeOK, RefundState

\* Types survive every step. Only RefundCompleteTeam lowers complete_count
\* unchecked, and the shape of a complete team's row keeps it a natural.
LEMMA TypeStep == IInv /\ [Next]_vars => TypeOK'
<1> SUFFICES ASSUME IInv, [Next]_vars PROVE TypeOK'
  OBVIOUS
<1> TypeOK
  BY DEF IInv
<1> USE LedgerAssumption DEF TypeOK, OrderStatus
<1>1. ASSUME NEW o \in Orders, NEW t \in Teams, NEW n \in Targets,
             CreateTeamWithOrder(o, t, n)
      PROVE  TypeOK'
  BY <1>1 DEF CreateTeamWithOrder, Insert, TeamRow, TeamStatus
<1>2. ASSUME NEW o \in Orders, NEW t \in Teams, JoinTeamWithOrder(o, t)
      PROVE  TypeOK'
  <2>1. team' \in [Teams -> TeamRow]
    BY <1>2, BumpType, RowType DEF JoinTeamWithOrder
  <2> QED
    BY <1>2, <2>1 DEF JoinTeamWithOrder, Insert
<1>3. ASSUME NEW o \in Orders, PaymentCreated(o) PROVE TypeOK'
  BY <1>3 DEF PaymentCreated
<1>4. ASSUME NEW o \in Orders, RollbackNewTeam(o) PROVE TypeOK'
  <2>1. teamOf[o] \in Teams
    BY <1>4, KnownTeam DEF RollbackNewTeam
  <2>2. team' \in [Teams -> TeamRow]
    BY <1>4, <2>1 DEF RollbackNewTeam, TeamRow, TeamStatus
  <2> QED
    BY <1>4, <2>2 DEF RollbackNewTeam, DeleteOrder
<1>5. ASSUME NEW o \in Orders, RollbackJoinTeam(o) PROVE TypeOK'
  <2>1. teamOf[o] \in Teams
    BY <1>5, KnownTeam DEF RollbackJoinTeam
  <2>2. team[teamOf[o]].lock > 0 => Bump(teamOf[o], -1, 0) \in [Teams -> TeamRow]
    BY <2>1, BumpType, RowType
  <2>3. team' \in [Teams -> TeamRow]
    BY <1>5, <2>2 DEF RollbackJoinTeam
  <2> QED
    BY <1>5, <2>3 DEF RollbackJoinTeam, DeleteOrder
<1>6. ASSUME NEW o \in Orders, SettleOrder(o) PROVE TypeOK'
  <2>1. teamOf[o] \in Teams
    BY <1>6, KnownTeam DEF SettleOrder, Settleable
  <2>2. team' \in [Teams -> TeamRow]
    BY <1>6, <2>1, RowType, SettleType DEF SettleOrder, TeamStatus
  <2> QED
    BY <1>6, <2>2 DEF SettleOrder
<1>7. ASSUME NEW t \in Teams, TeamExpires(t) PROVE TypeOK'
  BY <1>7 DEF TeamExpires
<1>8. ASSUME NEW c \in Callers, NEW o \in Orders, ReadForRefund(c, o)
      PROVE  TypeOK'
  <2>1. RefundPath(status[o], team[teamOf[o]].status) \in Paths
    BY <1>8 DEF ReadForRefund, RefundPath, Paths
  <2> QED
    BY <1>8, <2>1 DEF ReadForRefund, RefundState
<1>9. ASSUME NEW c \in Callers, FlipOrder(c) PROVE TypeOK'
  <2>1. refund[c] \in [at : {"read", "flipped", "tail"}, ord : Orders, path : Paths]
    BY <1>9, RefundType DEF FlipOrder, Idle
  <2>2. refund' \in [Callers -> RefundState]
    BY <1>9, <2>1 DEF FlipOrder, RefundState
  <2> QED
    BY <1>9, <2>1, <2>2 DEF FlipOrder
<1>10. ASSUME NEW c \in Callers, LoseRace(c) PROVE TypeOK'
  BY <1>10 DEF LoseRace, RefundState
<1>11. ASSUME NEW c \in Callers, UpdateTeam(c) PROVE TypeOK'
  <2> DEFINE t == teamOf[refund[c].ord]
  <2>1. refund[c] \in [at : {"read", "flipped", "tail"}, ord : Orders, path : Paths]
    BY <1>11, RefundType DEF UpdateTeam, Idle
  <2>2. t \in Teams
    BY <1>11, <2>1, KnownTeam DEF IInv, RefundsARow, UpdateTeam, Idle
  <2>3. ASSUME RefundTeamForming(c) PROVE team' \in [Teams -> TeamRow]
    <3>1. CompleteDelta(refund[c].path) \in Int
      BY DEF CompleteDelta
    <3>2. Bump(t, -1, CompleteDelta(refund[c].path)) \in [Teams -> TeamRow]
      BY <2>3, <2>2, <3>1, BumpType, RowType DEF RefundTeamForming, FormingUpdatable
    <3> QED
      BY <2>3, <3>2 DEF RefundTeamForming
  <2>4. ASSUME RefundCompleteTeam(c) PROVE team' \in [Teams -> TeamRow]
    <3>1. team[t].complete > 0
      BY <2>4, <2>2 DEF RefundCompleteTeam, IInv, RowShape
    <3> QED
      BY <2>4, <2>2, <3>1 DEF RefundCompleteTeam, TeamRow, TeamStatus
  <2>5. team' \in [Teams -> TeamRow]
    BY <1>11, <2>3, <2>4 DEF UpdateTeam
  <2>6. refund' \in [Callers -> RefundState]
    BY <1>11, <2>1 DEF UpdateTeam, RefundState
  <2> QED
    BY <1>11, <2>5, <2>6 DEF UpdateTeam
<1>12. ASSUME NEW c \in Callers, UpdateTeamFails(c) PROVE TypeOK'
  <2>1. refund[c].ord \in Orders
    BY <1>12, RefundType DEF UpdateTeamFails, Idle
  <2> QED
    BY <1>12, <2>1 DEF UpdateTeamFails, RefundState
<1>13. ASSUME NEW c \in Callers, FinishRefund(c) PROVE TypeOK'
  BY <1>13 DEF FinishRefund, RefundState
<1>14. ASSUME NEW c \in Callers, AbandonRefund(c) PROVE TypeOK'
  <2>1. refund[c].ord \in Orders
    BY <1>14, RefundType DEF AbandonRefund
  <2> QED
    BY <1>14, <2>1 DEF AbandonRefund, RefundState
<1>15. CASE UNCHANGED vars
  BY <1>15 DEF vars
<1> QED
  BY <1>1, <1>2, <1>3, <1>4, <1>5, <1>6, <1>7, <1>8, <1>9, <1>10, <1>11,
     <1>12, <1>13, <1>14, <1>15 DEF Next, LockStep, RefundStep

-----------------------------------------------------------------------------
\* The fields of the row a counter update touches, and every other row.
LEMMA BumpRow ==
  ASSUME TypeOK, NEW t \in Teams, NEW i \in Int, NEW j \in Int, NEW x \in Teams
  PROVE  /\ Bump(t, i, j)[x].status = team[x].status
         /\ Bump(t, i, j)[x].target = team[x].target
         /\ Bump(t, i, j)[x].lock = IF x = t THEN team[x].lock + i ELSE team[x].lock
         /\ Bump(t, i, j)[x].complete = IF x = t THEN team[x].complete + j ELSE team[x].complete
  BY DEF TypeOK, Bump, TeamRow

\* A row that keeps its fields keeps its shape.
LEMMA RowKept ==
  ASSUME NEW x \in Teams, RowShape(x), team'[x] = team[x]
  PROVE  RowShape(x)'
  BY DEF RowShape

\* Row locks keep a row in shape: a seat is taken below the target, a member
\* is counted while the team is forming, and the last to leave a complete
\* team fails it.
LEMMA RowStep == IInv /\ [Next]_vars => \A x \in Teams : RowShape(x)'
<1> SUFFICES ASSUME IInv, [Next]_vars, NEW x \in Teams PROVE RowShape(x)'
  OBVIOUS
<1> TypeOK /\ RowShape(x)
  BY DEF IInv
<1> /\ team[x].lock \in Nat /\ team[x].complete \in Nat /\ team[x].target \in Nat
    /\ team[x].status \in TeamStatus
  BY RowType
<1>1. ASSUME NEW o \in Orders, NEW t \in Teams, NEW n \in Targets,
             CreateTeamWithOrder(o, t, n)
      PROVE  RowShape(x)'
  <2>1. n \in Nat \ {0}
    BY LedgerAssumption
  <2>2. CASE x = t
    BY <1>1, <2>1, <2>2 DEF CreateTeamWithOrder, RowShape, TypeOK
  <2>3. CASE x # t
    BY <1>1, <2>3, RowKept DEF CreateTeamWithOrder, TypeOK
  <2> QED
    BY <2>2, <2>3
<1>2. ASSUME NEW o \in Orders, NEW t \in Teams, JoinTeamWithOrder(o, t)
      PROVE  RowShape(x)'
  <2>1. team' = Bump(t, 1, 0)
    BY <1>2 DEF JoinTeamWithOrder
  <2>2. /\ team'[x].status = team[x].status
        /\ team'[x].target = team[x].target
        /\ team'[x].lock = IF x = t THEN team[x].lock + 1 ELSE team[x].lock
        /\ team'[x].complete = team[x].complete
    BY <2>1, BumpRow
  <2>3. x = t => team[x].lock < team[x].target /\ team[x].status # "none"
    BY <1>2 DEF JoinTeamWithOrder, HasRoom, Exists
  <2>4. CASE x = t
    BY <2>2, <2>3, <2>4 DEF RowShape
  <2>5. CASE x # t
    BY <1>2, <2>5, RowKept DEF JoinTeamWithOrder, Bump, TypeOK
  <2> QED
    BY <2>4, <2>5
<1>3. ASSUME NEW o \in Orders, RollbackNewTeam(o) PROVE RowShape(x)'
  <2>1. teamOf[o] \in Teams
    BY <1>3, KnownTeam DEF RollbackNewTeam
  <2>2. CASE x = teamOf[o]
    BY <1>3, <2>2 DEF RollbackNewTeam, TypeOK, TeamRow, RowShape
  <2>3. CASE x # teamOf[o]
    BY <1>3, <2>3, RowKept DEF RollbackNewTeam, TypeOK
  <2> QED
    BY <2>2, <2>3
<1>4. ASSUME NEW o \in Orders, RollbackJoinTeam(o) PROVE RowShape(x)'
  <2> DEFINE t == teamOf[o]
  <2>1. t \in Teams /\ team[t].status # "none"
    BY <1>4, KnownTeam DEF RollbackJoinTeam
  <2>2. CASE team' = team
    BY <2>2, RowKept
  <2>3. CASE team' = Bump(t, -1, 0)
    <3>1. /\ team'[x].status = team[x].status
          /\ team'[x].target = team[x].target
          /\ team'[x].lock = IF x = t THEN team[x].lock - 1 ELSE team[x].lock
          /\ team'[x].complete = team[x].complete
      BY <2>1, <2>3, BumpRow
    <3>2. CASE x = t
      BY <2>1, <3>1, <3>2 DEF RowShape
    <3>3. CASE x # t
      BY <2>3, <3>3, RowKept DEF Bump, TypeOK
    <3> QED
      BY <3>2, <3>3
  <2> QED
    BY <1>4, <2>2, <2>3 DEF RollbackJoinTeam
<1>5. ASSUME NEW o \in Orders, SettleOrder(o) PROVE RowShape(x)'
  <2> DEFINE t == teamOf[o]
  <2>1. t \in Teams
    BY <1>5, KnownTeam DEF SettleOrder, Settleable
  <2>2. CASE x = t
    <3>1. /\ team'[x].target = team[x].target
          /\ team'[x].lock = team[x].lock
          /\ team'[x].complete = team[x].complete + 1
          /\ team'[x].status = IF team[x].complete + 1 >= team[x].target
                               THEN "Complete" ELSE team[x].status
      BY <1>5, <2>1, <2>2 DEF SettleOrder, Completes, TypeOK, TeamRow
    <3>2. team[x].status = "Forming"
      BY <1>5, <2>2 DEF SettleOrder, TakesPayment
    <3> QED
      BY <3>1, <3>2 DEF RowShape
  <2>3. CASE x # t
    BY <1>5, <2>3, RowKept DEF SettleOrder, TypeOK
  <2> QED
    BY <2>2, <2>3
<1>6. ASSUME NEW c \in Callers, UpdateTeam(c) PROVE RowShape(x)'
  <2> DEFINE t == teamOf[refund[c].ord]
             dc == CompleteDelta(refund[c].path)
  <2>1. refund[c] # Idle
    BY <1>6 DEF UpdateTeam, Idle
  <2>2. t \in Teams
    BY <2>1, KnownTeam, RefundType DEF IInv, RefundsARow
  <2>3. ASSUME RefundTeamForming(c) PROVE RowShape(x)'
    <3>1. dc \in {-1, 0} /\ team' = Bump(t, -1, dc)
      BY <2>3 DEF RefundTeamForming, CompleteDelta
    <3>2. /\ team'[x].status = team[x].status
          /\ team'[x].target = team[x].target
          /\ team'[x].lock = IF x = t THEN team[x].lock - 1 ELSE team[x].lock
          /\ team'[x].complete = IF x = t THEN team[x].complete + dc ELSE team[x].complete
      <4> HIDE DEF dc, t
      <4> QED
        BY <2>2, <3>1, BumpRow
    <3>3. CASE x = t
      <4>1. team[x].status = "Forming"
        BY <2>3, <3>3 DEF RefundTeamForming, FormingUpdatable
      <4> QED
        BY <3>1, <3>2, <3>3, <4>1 DEF RowShape
    <3>4. CASE x # t
      BY <3>1, <3>4, RowKept DEF Bump, TypeOK
    <3> QED
      BY <3>3, <3>4
  <2>4. ASSUME RefundCompleteTeam(c) PROVE RowShape(x)'
    <3>1. CASE x = t
      <4>1. /\ team'[x].target = team[x].target
            /\ team'[x].lock = IF team[x].lock > 0 THEN team[x].lock - 1 ELSE 0
            /\ team'[x].complete = team[x].complete - 1
            /\ team'[x].status = IF team[x].complete - 1 <= 0
                                 THEN "Failed" ELSE "CompleteRefunded"
        BY <2>2, <2>4, <3>1 DEF RefundCompleteTeam, DissolvesAt, TypeOK, TeamRow
      <4>2. team[x].status \in {"Complete", "CompleteRefunded"}
        BY <2>4, <3>1 DEF RefundCompleteTeam
      <4> QED
        BY <4>1, <4>2 DEF RowShape
    <3>2. CASE x # t
      BY <2>4, <3>2, RowKept DEF RefundCompleteTeam, TypeOK
    <3> QED
      BY <3>1, <3>2
  <2> QED
    BY <1>6, <2>3, <2>4 DEF UpdateTeam
<1>7. ASSUME team' = team PROVE RowShape(x)'
  BY <1>7, RowKept
<1> QED
  BY <1>1, <1>2, <1>3, <1>4, <1>5, <1>6, <1>7
  DEF Next, LockStep, RefundStep, vars, PaymentCreated, TeamExpires,
      ReadForRefund, FlipOrder, LoseRace, UpdateTeamFails, FinishRefund, AbandonRefund

-----------------------------------------------------------------------------
\* No step turns a team back into one that was never created.
LEMMA TeamStays ==
  ASSUME IInv, [Next]_vars, NEW x \in Teams, team[x].status # "none"
  PROVE  team'[x].status # "none"
<1> TypeOK
  BY DEF IInv
<1>1. ASSUME NEW o \in Orders, NEW t \in Teams, NEW n \in Targets,
             CreateTeamWithOrder(o, t, n)
      PROVE  team'[x].status # "none"
  BY <1>1 DEF CreateTeamWithOrder, TypeOK
<1>2. ASSUME NEW t \in Teams, NEW i \in Int, NEW j \in Int, team' = Bump(t, i, j)
      PROVE  team'[x].status # "none"
  BY <1>2, BumpRow
<1>3. ASSUME NEW o \in Orders, RollbackNewTeam(o) PROVE team'[x].status # "none"
  BY <1>3 DEF RollbackNewTeam, TypeOK, TeamRow
<1>4. ASSUME NEW o \in Orders, SettleOrder(o) PROVE team'[x].status # "none"
  BY <1>4 DEF SettleOrder, TypeOK, TeamRow
<1>5. ASSUME NEW c \in Callers, refund[c] # Idle, RefundTeamForming(c)
      PROVE  team'[x].status # "none"
  <2>1. teamOf[refund[c].ord] \in Teams
    BY <1>5, KnownTeam, RefundType DEF IInv, RefundsARow
  <2> QED
    BY <1>5, <1>2, <2>1 DEF RefundTeamForming, CompleteDelta
<1>6. ASSUME NEW c \in Callers, RefundCompleteTeam(c) PROVE team'[x].status # "none"
  BY <1>6 DEF RefundCompleteTeam, TypeOK, TeamRow
<1>7. ASSUME NEW c \in Callers, UpdateTeam(c) PROVE team'[x].status # "none"
  BY <1>7, <1>5, <1>6 DEF UpdateTeam, Idle
<1>8. ASSUME NEW o \in Orders, RollbackJoinTeam(o) PROVE team'[x].status # "none"
  <2>1. teamOf[o] \in Teams
    BY <1>8, KnownTeam DEF RollbackJoinTeam
  <2> QED
    BY <1>8, <1>2, <2>1 DEF RollbackJoinTeam
<1> QED
  BY <1>1, <1>2, <1>3, <1>4, <1>7, <1>8
  DEF Next, LockStep, RefundStep, vars, JoinTeamWithOrder, PaymentCreated, TeamExpires,
      ReadForRefund, FlipOrder, LoseRace, UpdateTeamFails, FinishRefund, AbandonRefund

\* What a step does to one order: it is inserted, paid, refunded or deleted,
\* in this direction only, and stays in its team.
OrderMove(o) ==
  \/ status'[o] = status[o] /\ teamOf'[o] = teamOf[o]
  \/ /\ status[o] = "none" /\ status'[o] = "Locked"
     /\ teamOf'[o] \in Teams /\ team'[teamOf'[o]].status # "none"
  \/ /\ teamOf'[o] = teamOf[o]
     /\ \/ status[o] = "Locked" /\ status'[o] = "Paid"
        \/ status[o] \in {"Locked", "Paid"} /\ status'[o] = "Refunded"
        \/ status[o] # "none" /\ status'[o] = "deleted"

LEMMA OrderMoves == IInv /\ [Next]_vars => \A x \in Orders : OrderMove(x)
<1> SUFFICES ASSUME IInv, [Next]_vars, NEW x \in Orders PROVE OrderMove(x)
  OBVIOUS
<1> TypeOK
  BY DEF IInv
<1> USE DEF TypeOK, OrderMove
<1>1. ASSUME NEW o \in Orders, NEW t \in Teams, NEW n \in Targets,
             CreateTeamWithOrder(o, t, n)
      PROVE  OrderMove(x)
  BY <1>1 DEF CreateTeamWithOrder, Insert
<1>2. ASSUME NEW o \in Orders, NEW t \in Teams, JoinTeamWithOrder(o, t)
      PROVE  OrderMove(x)
  <2>1. team'[t].status # "none"
    BY <1>2, BumpRow DEF JoinTeamWithOrder, Exists
  <2> QED
    BY <1>2, <2>1 DEF JoinTeamWithOrder, Insert
<1>3. ASSUME NEW o \in Orders, RollbackNewTeam(o) PROVE OrderMove(x)
  BY <1>3, KnownTeam DEF RollbackNewTeam, DeleteOrder
<1>4. ASSUME NEW o \in Orders, RollbackJoinTeam(o) PROVE OrderMove(x)
  BY <1>4, KnownTeam DEF RollbackJoinTeam, DeleteOrder
<1>5. ASSUME NEW o \in Orders, SettleOrder(o) PROVE OrderMove(x)
  BY <1>5 DEF SettleOrder, Settleable
<1>6. ASSUME NEW c \in Callers, FlipOrder(c) PROVE OrderMove(x)
  <2>1. refund[c].ord \in Orders
    BY <1>6, RefundType DEF FlipOrder, Idle
  <2> QED
    BY <1>6, <2>1 DEF FlipOrder, StillAsRead, FromStatus
<1>7. ASSUME status' = status, teamOf' = teamOf PROVE OrderMove(x)
  BY <1>7
<1> QED
  BY <1>1, <1>2, <1>3, <1>4, <1>5, <1>6, <1>7
  DEF Next, LockStep, RefundStep, vars, PaymentCreated, TeamExpires, ReadForRefund,
      LoseRace, UpdateTeam, UpdateTeamFails, FinishRefund, AbandonRefund

\* Order rows keep referring to a created team.
LEMMA OrderStep ==
  IInv /\ [Next]_vars => \A o \in Orders : InsertedInTeam(o)' /\ Untouched(o)'
<1> SUFFICES ASSUME IInv, [Next]_vars, NEW x \in Orders
             PROVE  InsertedInTeam(x)' /\ Untouched(x)'
  OBVIOUS
<1> TypeOK /\ InsertedInTeam(x) /\ Untouched(x)
  BY DEF IInv
<1>1. OrderMove(x)
  BY OrderMoves
<1>2. InsertedInTeam(x)'
  BY <1>1, TeamStays DEF OrderMove, InsertedInTeam
<1>3. Untouched(x)'
  <2>1. ASSUME status'[x] = "none" PROVE paying'[x] = paying[x]
    <3>1. status[x] = "none"
      BY <1>1, <2>1 DEF OrderMove
    <3> QED
      BY <2>1, <3>1 DEF Next, LockStep, RefundStep, vars, CreateTeamWithOrder, Insert,
         JoinTeamWithOrder, RollbackNewTeam, RollbackJoinTeam, DeleteOrder, SettleOrder,
         PaymentCreated, TeamExpires, ReadForRefund, FlipOrder, LoseRace, UpdateTeam,
         UpdateTeamFails, FinishRefund, AbandonRefund, TypeOK, Untouched
  <2> QED
    BY <1>1, <2>1 DEF OrderMove, Untouched
<1> QED
  BY <1>2, <1>3

-----------------------------------------------------------------------------
\* What a step does to one refund call: nothing, its first write, or a move
\* to a place where it no longer owes the team an update.
CallerMove(c) ==
  \/ refund'[c] = refund[c]
  \/ ~Flipped(c)' /\ (refund'[c] # Idle => status[refund'[c].ord] # "none")
  \/ /\ Flipped(c)' /\ ~Flipped(c) /\ refund[c] # Idle
     /\ refund'[c].ord = refund[c].ord /\ refund'[c].path = refund[c].path
     /\ UpdatesTeam(refund[c].path)
     /\ status[refund[c].ord] = FromStatus(refund[c].path)
     /\ status'[refund[c].ord] = "Refunded"
     /\ \A d \in Callers \ {c} : refund'[d] = refund[d]

LEMMA CallerMoves == IInv /\ [Next]_vars => \A x \in Callers : CallerMove(x)
<1> SUFFICES ASSUME IInv, [Next]_vars, NEW x \in Callers PROVE CallerMove(x)
  OBVIOUS
<1> TypeOK
  BY DEF IInv
<1>1. ASSUME NEW c \in Callers, NEW o \in Orders, ReadForRefund(c, o) PROVE CallerMove(x)
  BY <1>1 DEF ReadForRefund, CallerMove, Flipped, TypeOK, Idle
<1>2. ASSUME NEW c \in Callers, FlipOrder(c) PROVE CallerMove(x)
  <2>1. refund[c] # Idle /\ ~Flipped(c)
    BY <1>2 DEF FlipOrder, Idle, Flipped
  <2>2. refund[c] \in [at : {"read", "flipped", "tail"}, ord : Orders, path : Paths]
    BY <2>1, RefundType
  <2>3. CASE x # c
    BY <1>2, <2>3 DEF FlipOrder, CallerMove, TypeOK
  <2>4. CASE x = c /\ UpdatesTeam(refund[c].path)
    <3>1. /\ refund'[c].at = "flipped" /\ refund'[c].ord = refund[c].ord
          /\ refund'[c].path = refund[c].path
          /\ \A d \in Callers \ {c} : refund'[d] = refund[d]
      BY <1>2, <2>2, <2>4 DEF FlipOrder, TypeOK
    <3>2. status[refund[c].ord] = FromStatus(refund[c].path)
      BY <1>2 DEF FlipOrder, StillAsRead
    <3>3. status'[refund[c].ord] = "Refunded"
      BY <1>2, <2>2 DEF FlipOrder, TypeOK
    <3>4. Flipped(c)'
      BY <3>1 DEF Flipped, Idle
    <3> QED
      BY <2>1, <2>4, <3>1, <3>2, <3>3, <3>4 DEF CallerMove
  <2>5. CASE x = c /\ ~UpdatesTeam(refund[c].path)
    <3>1. refund'[c].at = "tail" /\ refund'[c].ord = refund[c].ord
      BY <1>2, <2>2, <2>5 DEF FlipOrder, TypeOK
    <3>2. status[refund[c].ord] # "none"
      BY <2>1 DEF IInv, RefundsARow
    <3> QED
      BY <2>5, <3>1, <3>2 DEF CallerMove, Flipped
  <2> QED
    BY <2>3, <2>4, <2>5
<1>3. ASSUME NEW c \in Callers, UpdateTeam(c) PROVE CallerMove(x)
  <2>1. refund[c] # Idle
    BY <1>3 DEF UpdateTeam, Idle
  <2>2. refund[c] \in [at : {"read", "flipped", "tail"}, ord : Orders, path : Paths]
    BY <2>1, RefundType
  <2>3. status[refund[c].ord] # "none"
    BY <2>1 DEF IInv, RefundsARow
  <2>4. CASE x = c
    <3>1. refund'[c].at = "tail" /\ refund'[c].ord = refund[c].ord
      BY <1>3, <2>2 DEF UpdateTeam, TypeOK
    <3> QED
      BY <2>3, <2>4, <3>1 DEF CallerMove, Flipped
  <2>5. CASE x # c
    BY <1>3, <2>5 DEF UpdateTeam, CallerMove, TypeOK
  <2> QED
    BY <2>4, <2>5
<1>4. ASSUME NEW c \in Callers, refund' = [refund EXCEPT ![c] = Idle] PROVE CallerMove(x)
  BY <1>4 DEF CallerMove, Flipped, TypeOK
<1>5. ASSUME refund' = refund PROVE CallerMove(x)
  BY <1>5 DEF CallerMove
<1> QED
  BY <1>1, <1>2, <1>3, <1>4, <1>5
  DEF Next, LockStep, RefundStep, vars, CreateTeamWithOrder, Insert, JoinTeamWithOrder,
      RollbackNewTeam, RollbackJoinTeam, DeleteOrder, SettleOrder, PaymentCreated,
      TeamExpires, LoseRace, UpdateTeamFails, FinishRefund, AbandonRefund

\* A refund call that flipped its order has it to itself: the flip needs a
\* status that a flipped order never has again.
LEMMA CallerStep ==
  IInv /\ [Next]_vars => \A c \in Callers : FlippedAlone(c)' /\ RefundsARow(c)'
<1> SUFFICES ASSUME IInv, [Next]_vars, NEW x \in Callers
             PROVE  FlippedAlone(x)' /\ RefundsARow(x)'
  OBVIOUS
<1> TypeOK
  BY DEF IInv
<1>1. \A c \in Callers : CallerMove(c)
  BY CallerMoves
<1>2. \A c \in Callers : FlippedAlone(c) /\ RefundsARow(c)
  BY DEF IInv
<1>3. \A o \in Orders : OrderMove(o)
  BY OrderMoves
<1>4. TypeOK'
  BY TypeStep
<1>5. RefundsARow(x)'
  <2> SUFFICES ASSUME refund'[x] # Idle PROVE status'[refund'[x].ord] # "none"
    BY DEF RefundsARow
  <2>1. refund'[x].ord \in Orders
    BY <1>4 DEF TypeOK, RefundState
  <2>2. status[refund'[x].ord] # "none"
    BY <1>1, <1>2 DEF CallerMove, RefundsARow
  <2> QED
    BY <1>3, <2>1, <2>2 DEF OrderMove
<1>6. FlippedAlone(x)'
  <2> SUFFICES ASSUME Flipped(x)'
      PROVE  /\ status'[refund'[x].ord] \in {"Refunded", "deleted"}
             /\ UpdatesTeam(refund'[x].path)
             /\ \A d \in Callers : Flipped(d)' /\ refund'[d].ord = refund'[x].ord => d = x
    BY DEF FlippedAlone, UpdatesTeam
  <2>1. refund'[x].ord \in Orders
    BY <1>4 DEF TypeOK, RefundState, Flipped
  <2>2. CASE refund'[x] = refund[x]
    <3>1. /\ Flipped(x)
          /\ status[refund[x].ord] \in {"Refunded", "deleted"}
          /\ UpdatesTeam(refund[x].path)
      BY <2>2, <1>2 DEF Flipped, FlippedAlone
    <3>2. status'[refund'[x].ord] \in {"Refunded", "deleted"}
      BY <1>3, <2>1, <2>2, <3>1 DEF OrderMove
    <3>3. ASSUME NEW d \in Callers, Flipped(d)', refund'[d].ord = refund'[x].ord
          PROVE  d = x
      <4>1. CASE refund'[d] = refund[d]
        BY <1>2, <2>2, <3>1, <3>3, <4>1 DEF FlippedAlone, Flipped
      <4>2. CASE refund'[d] # refund[d]
        <5>1. status[refund[x].ord] = FromStatus(refund[d].path)
          BY <1>1, <2>2, <3>3, <4>2 DEF CallerMove
        <5> QED
          BY <3>1, <5>1 DEF FromStatus
      <4> QED
        BY <4>1, <4>2
    <3> QED
      BY <2>2, <3>1, <3>2, <3>3
  <2>3. CASE refund'[x] # refund[x]
    <3>1. /\ refund'[x].ord = refund[x].ord /\ refund'[x].path = refund[x].path
          /\ UpdatesTeam(refund[x].path)
          /\ status[refund[x].ord] = FromStatus(refund[x].path)
          /\ status'[refund[x].ord] = "Refunded"
          /\ \A d \in Callers \ {x} : refund'[d] = refund[d]
      BY <1>1, <2>3 DEF CallerMove
    <3>2. ASSUME NEW d \in Callers \ {x}, Flipped(d)', refund'[d].ord = refund'[x].ord
          PROVE  FALSE
      <4>1. Flipped(d) /\ refund[d].ord = refund[x].ord
        BY <3>1, <3>2 DEF Flipped
      <4> QED
        BY <1>2, <3>1, <4>1 DEF FlippedAlone, FromStatus
    <3> QED
      BY <3>1, <3>2
  <2> QED
    BY <2>2, <2>3
<1> QED
  BY <1>5, <1>6

-----------------------------------------------------------------------------
LEMMA SeatsFinite ==
  ASSUME NEW t
  PROVE  /\ IsFiniteSet(PaidSeats(t)) /\ Cardinality(PaidSeats(t)) \in Nat
         /\ IsFiniteSet(PaidIn(t)) /\ Cardinality(PaidIn(t)) \in Nat
         /\ Cardinality(PaidIn(t)) <= Cardinality(PaidSeats(t))
<1>1. PaidSeats(t) \in SUBSET Orders /\ PaidIn(t) \in SUBSET PaidSeats(t)
  BY DEF PaidSeats, PaidIn
<1>2. IsFiniteSet(PaidSeats(t))
  BY <1>1, FS_Subset, LedgerAssumption
<1> QED
  BY <1>1, <1>2, FS_Subset, FS_CardinalityType

\* No seat is counted as paid that was not before, except the settled one.
LEMMA PaidSeatsStep ==
  ASSUME IInv, [Next]_vars, NEW t \in Teams, NEW o \in PaidSeats(t)',
         ~(status[o] = "Locked" /\ status'[o] = "Paid")
  PROVE  o \in PaidSeats(t)
<1> TypeOK
  BY DEF IInv
<1>1. o \in Orders /\ teamOf'[o] = t
  BY DEF PaidSeats
<1>2. OrderMove(o)
  BY <1>1, OrderMoves
<1>3. CASE status'[o] = "Paid"
  BY <1>1, <1>2, <1>3 DEF OrderMove, PaidSeats
<1>4. CASE status'[o] # "Paid"
  <2>1. PICK c \in Callers : /\ Flipped(c)'
                             /\ refund'[c].ord = o
                             /\ refund'[c].path \in {"paid", "paidTeam"}
    BY <1>4 DEF PaidSeats, Pending
  <2>2. CASE refund'[c] = refund[c]
    <3>1. Flipped(c) /\ refund[c].ord = o /\ refund[c].path \in {"paid", "paidTeam"}
      BY <2>1, <2>2 DEF Flipped
    <3>2. status[o] # "none"
      BY <3>1 DEF IInv, FlippedAlone
    <3>3. teamOf[o] = t
      BY <1>1, <1>2, <3>2 DEF OrderMove
    <3> QED
      BY <1>1, <3>1, <3>3 DEF PaidSeats, Pending
  <2>3. CASE refund'[c] # refund[c]
    <3>1. status[o] = FromStatus(refund[c].path) /\ refund[c].path \in {"paid", "paidTeam"}
      BY <2>1, <2>3, CallerMoves DEF CallerMove
    <3>2. status[o] = "Paid"
      BY <3>1 DEF FromStatus
    <3> QED
      BY <1>1, <1>2, <3>2 DEF OrderMove, PaidSeats
  <2> QED
    BY <2>2, <2>3
<1> QED
  BY <1>3, <1>4

\* When complete_count stays, the paid seats may only become fewer.
LEMMA CountKept ==
  ASSUME IInv, [Next]_vars, NEW t \in Teams, team'[t].complete = team[t].complete,
         \A o \in Orders : teamOf'[o] = t => ~(status[o] = "Locked" /\ status'[o] = "Paid")
  PROVE  PaidCounted(t)'
<1>1. PaidSeats(t)' \in SUBSET PaidSeats(t)
  BY PaidSeatsStep DEF PaidSeats
<1>2. Cardinality(PaidSeats(t)') <= Cardinality(PaidSeats(t))
  BY <1>1, SeatsFinite, FS_Subset
<1>3. Cardinality(PaidSeats(t)') \in Nat
  BY <1>1, SeatsFinite, FS_Subset, FS_CardinalityType
<1>4. team[t].complete \in Nat
  BY RowType DEF IInv
<1>5. Cardinality(PaidSeats(t)) \in Nat
  BY SeatsFinite
<1> QED
  BY <1>2, <1>3, <1>4, <1>5 DEF IInv, PaidCounted

\* complete_count moves together with the paid seats: up with a settlement,
\* down with the second transaction of the refund that gave the seat back.
LEMMA CountedStep == IInv /\ [Next]_vars => \A t \in Teams : PaidCounted(t)'
<1> SUFFICES ASSUME IInv, [Next]_vars, NEW x \in Teams PROVE PaidCounted(x)'
  OBVIOUS
<1> TypeOK /\ PaidCounted(x)
  BY DEF IInv
<1> DEFINE S == PaidSeats(x)
           T == PaidSeats(x)'
<1>0. /\ IsFiniteSet(S) /\ Cardinality(S) \in Nat
      /\ team[x].complete \in Nat
      /\ Cardinality(S) <= team[x].complete
  BY SeatsFinite, RowType DEF PaidCounted
<1>1. ASSUME NEW o \in Orders, SettleOrder(o) PROVE PaidCounted(x)'
  <2>1. /\ teamOf' = teamOf /\ status[o] = "Locked"
        /\ \A p \in Orders \ {o} : status'[p] = status[p]
    BY <1>1 DEF SettleOrder, Settleable, TypeOK
  <2>2. CASE teamOf[o] = x
    <3>1. team'[x].complete = team[x].complete + 1
      BY <1>1, <2>2 DEF SettleOrder, TypeOK, TeamRow
    <3>2. T \in SUBSET (S \union {o})
      BY <2>1, PaidSeatsStep DEF PaidSeats
    <3>3. /\ IsFiniteSet(S \union {o}) /\ Cardinality(S \union {o}) \in Nat
          /\ Cardinality(S \union {o}) <= Cardinality(S) + 1
      <4> HIDE DEF S
      <4>1. /\ IsFiniteSet(S \union {o})
            /\ Cardinality(S \union {o}) = IF o \in S THEN Cardinality(S) ELSE Cardinality(S) + 1
        BY <1>0, FS_AddElement
      <4> QED
        BY <1>0, <4>1
    <3>4. Cardinality(T) <= Cardinality(S \union {o}) /\ Cardinality(T) \in Nat
      <4> HIDE DEF S, T
      <4> QED
        BY <3>2, <3>3, FS_Subset, FS_CardinalityType
    <3>5. Cardinality(T) <= team'[x].complete
      <4> HIDE DEF S, T
      <4> QED
        BY <1>0, <3>1, <3>3, <3>4
    <3> QED
      BY <3>5 DEF PaidCounted
  <2>3. CASE teamOf[o] # x
    <3>1. team'[x] = team[x]
      BY <1>1, <2>3 DEF SettleOrder, TypeOK
    <3> QED
      BY <2>1, <2>3, <3>1, CountKept
  <2> QED
    BY <2>2, <2>3
<1>2. ASSUME ~ \E o \in Orders : SettleOrder(o)
      PROVE  \A p \in Orders : ~(status[p] = "Locked" /\ status'[p] = "Paid")
  <2> SUFFICES ASSUME NEW p \in Orders, status[p] = "Locked", status'[p] = "Paid"
               PROVE  FALSE
    OBVIOUS
  <2>1. ASSUME NEW c \in Callers, FlipOrder(c) PROVE FALSE
    BY <2>1 DEF FlipOrder, TypeOK
  <2>2. ASSUME NEW o \in Orders, RollbackNewTeam(o) \/ RollbackJoinTeam(o) PROVE FALSE
    BY <2>2 DEF RollbackNewTeam, RollbackJoinTeam, DeleteOrder, TypeOK
  <2> QED
    BY <1>2, <2>1, <2>2
    DEF Next, LockStep, RefundStep, vars, CreateTeamWithOrder, Insert, JoinTeamWithOrder,
        PaymentCreated, TeamExpires, ReadForRefund, LoseRace, UpdateTeam,
        UpdateTeamFails, FinishRefund, AbandonRefund, TypeOK
<1>3. ASSUME NEW c \in Callers, UpdateTeam(c), ~ \E o \in Orders : SettleOrder(o)
      PROVE  PaidCounted(x)'
  <2> DEFINE o == refund[c].ord
             t == teamOf[o]
  <2>1. refund[c] # Idle /\ Flipped(c)
    BY <1>3 DEF UpdateTeam, Idle, Flipped
  <2>2. refund[c] \in [at : {"read", "flipped", "tail"}, ord : Orders, path : Paths]
    BY <2>1, RefundType
  <2>3. t \in Teams
    BY <2>1, <2>2, KnownTeam DEF IInv, RefundsARow
  <2>4. status' = status /\ teamOf' = teamOf
    BY <1>3 DEF UpdateTeam
  <2>5. CASE x # t \/ refund[c].path = "unpaid"
    <3>1. ASSUME RefundTeamForming(c) PROVE team'[x].complete = team[x].complete
      <4>1. /\ team' = Bump(t, -1, CompleteDelta(refund[c].path))
            /\ CompleteDelta(refund[c].path) \in Int
        BY <3>1 DEF RefundTeamForming, CompleteDelta
      <4>2. team'[x].complete = IF x = t
                                THEN team[x].complete + CompleteDelta(refund[c].path)
                                ELSE team[x].complete
        <5> HIDE DEF t
        <5> QED
          BY <2>3, <4>1, BumpRow
      <4>3. refund[c].path = "unpaid" => CompleteDelta(refund[c].path) = 0
        BY DEF CompleteDelta
      <4> QED
        BY <1>0, <2>5, <4>2, <4>3
    <3>2. ASSUME RefundCompleteTeam(c) PROVE team'[x].complete = team[x].complete
      BY <2>5, <3>2 DEF RefundCompleteTeam, TypeOK
    <3>3. team'[x].complete = team[x].complete
      BY <1>3, <3>1, <3>2 DEF UpdateTeam
    <3> QED
      BY <1>2, <1>3, <3>3, CountKept
  <2>6. CASE x = t /\ refund[c].path # "unpaid"
    <3>1. refund[c].path \in {"paid", "paidTeam"}
      BY <1>3, <2>6 DEF UpdateTeam, RefundTeamForming, RefundCompleteTeam
    <3>2. o \in S
      BY <2>1, <2>2, <2>6, <3>1 DEF PaidSeats, Pending
    <3>3. o \notin T
      <4>1. status'[o] # "Paid"
        BY <2>1, <2>4 DEF IInv, FlippedAlone
      <4>2. ~Flipped(c)'
        BY <1>3, <2>2 DEF UpdateTeam, Flipped, TypeOK
      <4>3. ASSUME NEW d \in Callers, Flipped(d)', refund'[d].ord = o PROVE FALSE
        <5>1. d # c /\ refund'[d] = refund[d]
          BY <1>3, <4>2, <4>3 DEF UpdateTeam, TypeOK
        <5> QED
          BY <2>1, <4>3, <5>1 DEF IInv, FlippedAlone, Flipped
      <4> QED
        BY <4>1, <4>3 DEF PaidSeats, Pending
    <3>4. T \in SUBSET (S \ {o})
      BY <1>2, <1>3, <3>3, PaidSeatsStep DEF PaidSeats
    <3>5. /\ IsFiniteSet(S \ {o}) /\ Cardinality(S \ {o}) \in Nat
          /\ Cardinality(S \ {o}) = Cardinality(S) - 1
      <4> HIDE DEF S, o
      <4> QED
        BY <1>0, <3>2, FS_RemoveElement, FS_CardinalityType
    <3>6. Cardinality(T) <= Cardinality(S \ {o}) /\ Cardinality(T) \in Nat
      <4> HIDE DEF S, T, o
      <4> QED
        BY <3>4, <3>5, FS_Subset, FS_CardinalityType
    <3>7. team'[x].complete = team[x].complete - 1
      <4>1. ASSUME RefundTeamForming(c) PROVE team'[x].complete = team[x].complete - 1
        <5>1. team' = Bump(t, -1, -1)
          BY <2>6, <4>1 DEF RefundTeamForming, CompleteDelta
        <5>2. team'[x].complete = team[x].complete + (-1)
          <6> HIDE DEF t
          <6> QED
            BY <2>3, <2>6, <5>1, BumpRow
        <5> QED
          BY <1>0, <5>2
      <4>2. ASSUME RefundCompleteTeam(c) PROVE team'[x].complete = team[x].complete - 1
        BY <2>6, <4>2 DEF RefundCompleteTeam, TypeOK, TeamRow
      <4> QED
        BY <1>3, <4>1, <4>2 DEF UpdateTeam
    <3>8. Cardinality(T) <= team'[x].complete
      <4> HIDE DEF S, T, o
      <4> QED
        BY <1>0, <3>5, <3>6, <3>7
    <3> QED
      BY <3>8 DEF PaidCounted
  <2> QED
    BY <2>5, <2>6
<1>4. ASSUME NEW o \in Orders, NEW t \in Teams, NEW n \in Targets,
             CreateTeamWithOrder(o, t, n), ~ \E p \in Orders : SettleOrder(p)
      PROVE  PaidCounted(x)'
  <2>1. team'[x].complete = team[x].complete
    <3>1. CASE x = t
      BY <1>4, <3>1 DEF CreateTeamWithOrder, TypeOK, IInv, RowShape, NoRow
    <3>2. CASE x # t
      BY <1>4, <3>2 DEF CreateTeamWithOrder, TypeOK
    <3> QED
      BY <3>1, <3>2
  <2> QED
    BY <1>2, <1>4, <2>1, CountKept
<1>5. ASSUME NEW o \in Orders, NEW t \in Teams, JoinTeamWithOrder(o, t),
             ~ \E p \in Orders : SettleOrder(p)
      PROVE  PaidCounted(x)'
  <2>1. Bump(t, 1, 0)[x].complete = team[x].complete
    BY <1>0, BumpRow
  <2>2. team'[x].complete = team[x].complete
    BY <1>5, <2>1 DEF JoinTeamWithOrder
  <2> QED
    BY <1>2, <1>5, <2>2, CountKept
<1>6. ASSUME NEW o \in Orders, RollbackNewTeam(o) \/ RollbackJoinTeam(o),
             ~ \E p \in Orders : SettleOrder(p)
      PROVE  PaidCounted(x)'
  <2>1. teamOf[o] \in Teams
    BY <1>6, KnownTeam DEF RollbackNewTeam, RollbackJoinTeam
  <2>2. team'[x].complete = team[x].complete
    <3>1. CASE RollbackNewTeam(o)
      BY <2>1, <3>1 DEF RollbackNewTeam, TypeOK, TeamRow
    <3>2. CASE RollbackJoinTeam(o)
      <4>1. Bump(teamOf[o], -1, 0)[x].complete = team[x].complete
        BY <1>0, <2>1, BumpRow
      <4> QED
        BY <3>2, <4>1 DEF RollbackJoinTeam
    <3> QED
      BY <1>6, <3>1, <3>2
  <2> QED
    BY <1>2, <1>6, <2>2, CountKept
<1>7. ASSUME team' = team, ~ \E p \in Orders : SettleOrder(p) PROVE PaidCounted(x)'
  BY <1>2, <1>7, CountKept
<1> QED
  BY <1>1, <1>3, <1>4, <1>5, <1>6, <1>7
  DEF Next, LockStep, RefundStep, vars, PaymentCreated, TeamExpires,
      ReadForRefund, FlipOrder, LoseRace, UpdateTeamFails, FinishRefund, AbandonRefund

-----------------------------------------------------------------------------
LEMMA LockedFinite ==
  ASSUME NEW t
  PROVE  IsFiniteSet(LockedSeats(t)) /\ Cardinality(LockedSeats(t)) \in Nat
<1>1. LockedSeats(t) \in SUBSET Orders
  BY DEF LockedSeats
<1> QED
  BY <1>1, FS_Subset, FS_CardinalityType, LedgerAssumption

\* No seat is counted as unpaid that was not before, except the new member's.
LEMMA LockedSeatsStep ==
  ASSUME IInv, [Next]_vars, NEW t \in Teams, NEW o \in LockedSeats(t)',
         ~(status[o] = "none" /\ status'[o] = "Locked")
  PROVE  o \in LockedSeats(t)
<1>1. o \in Orders /\ teamOf'[o] = t
  BY DEF LockedSeats
<1>2. OrderMove(o)
  BY <1>1, OrderMoves
<1>3. CASE status'[o] = "Locked"
  BY <1>1, <1>2, <1>3 DEF OrderMove, LockedSeats
<1>4. CASE status'[o] # "Locked"
  <2>1. PICK c \in Callers : Flipped(c)' /\ refund'[c].ord = o /\ refund'[c].path = "unpaid"
    BY <1>4 DEF LockedSeats, Pending
  <2>2. status'[o] \in {"Refunded", "deleted"}
    BY <2>1, CallerStep DEF FlippedAlone
  <2>3. teamOf[o] = t
    BY <1>1, <1>2, <2>2 DEF OrderMove
  <2>4. CASE refund'[c] = refund[c]
    <3>1. Flipped(c) /\ refund[c].ord = o /\ refund[c].path = "unpaid"
      BY <2>1, <2>4 DEF Flipped
    <3> QED
      BY <1>1, <2>3, <3>1 DEF LockedSeats, Pending
  <2>5. CASE refund'[c] # refund[c]
    <3>1. status[o] = FromStatus("unpaid")
      BY <2>1, <2>5, CallerMoves DEF CallerMove
    <3>2. status[o] = "Locked"
      BY <3>1 DEF FromStatus
    <3> QED
      BY <1>1, <2>3, <3>2 DEF LockedSeats
  <2> QED
    BY <2>4, <2>5
<1> QED
  BY <1>3, <1>4

\* A row that was rolled back stays so.
LEMMA RolledBackStays ==
  ASSUME IInv, [Next]_vars, NEW t \in Teams, RolledBack(t)
  PROVE  RolledBack(t)'
BY OrderMoves DEF OrderMove, RolledBack

\* A team that gains no member and whose counters keep their distance.
LEMMA LockedKept ==
  ASSUME IInv, [Next]_vars, NEW t \in Teams, NEW k \in Int,
         team'[t].status = "Forming" => team[t].status = "Forming",
         team'[t].lock = team[t].lock + k, team'[t].complete = team[t].complete + k,
         \A o \in Orders : teamOf'[o] = t => ~(status[o] = "none" /\ status'[o] = "Locked")
  PROVE  LockedCounted(t)'
<1> SUFFICES ASSUME team'[t].status = "Forming", ~RolledBack(t)'
             PROVE  Cardinality(LockedSeats(t)') + team'[t].complete <= team'[t].lock
  BY DEF LockedCounted
<1>1. Cardinality(LockedSeats(t)) + team[t].complete <= team[t].lock
  BY RolledBackStays DEF IInv, LockedCounted
<1>2. LockedSeats(t)' \in SUBSET LockedSeats(t)
  BY LockedSeatsStep DEF LockedSeats
<1>3. Cardinality(LockedSeats(t)') <= Cardinality(LockedSeats(t)) /\ Cardinality(LockedSeats(t)') \in Nat
  BY <1>2, LockedFinite, FS_Subset, FS_CardinalityType
<1>4. team[t].lock \in Nat /\ team[t].complete \in Nat
  BY RowType DEF IInv
<1>5. Cardinality(LockedSeats(t)) \in Nat
  BY LockedFinite
<1> QED
  BY <1>1, <1>3, <1>4, <1>5

\* When a seat stops being unpaid, the counters may come one closer.
LEMMA LockedLess ==
  ASSUME IInv, [Next]_vars, NEW t \in Teams, NEW o \in LockedSeats(t), o \notin LockedSeats(t)',
         team[t].status = "Forming",
         team'[t].lock - team'[t].complete = team[t].lock - team[t].complete - 1,
         team'[t].lock \in Int, team'[t].complete \in Int,
         \A p \in Orders : ~(status[p] = "none" /\ status'[p] = "Locked")
  PROVE  LockedCounted(t)'
<1> SUFFICES ASSUME ~RolledBack(t)'
             PROVE  Cardinality(LockedSeats(t)') + team'[t].complete <= team'[t].lock
  BY DEF LockedCounted
<1> DEFINE S == LockedSeats(t)
           T == LockedSeats(t)'
<1>1. Cardinality(S) + team[t].complete <= team[t].lock
  BY RolledBackStays DEF IInv, LockedCounted
<1>2. T \in SUBSET (S \ {o})
  BY LockedSeatsStep DEF LockedSeats
<1>3. IsFiniteSet(S) /\ Cardinality(S) \in Nat
  BY LockedFinite
<1>4. team[t].lock \in Nat /\ team[t].complete \in Nat
  BY RowType DEF IInv
<1>5. o \in S
  OBVIOUS
<1> HIDE DEF S, T
<1>6. IsFiniteSet(S \ {o}) /\ Cardinality(S \ {o}) = Cardinality(S) - 1
  BY <1>3, <1>5, FS_RemoveElement
<1>7. Cardinality(T) <= Cardinality(S) - 1 /\ Cardinality(T) \in Nat
  BY <1>2, <1>6, FS_Subset, FS_CardinalityType
<1>8. Cardinality(T) + team'[t].complete <= team'[t].lock
  BY <1>1, <1>3, <1>4, <1>7
<1> QED
  BY <1>8 DEF T

\* A new member is one more unpaid seat, and lock_count counts it.
LEMMA LockedMore ==
  ASSUME IInv, [Next]_vars, NEW t \in Teams, NEW o \in Orders,
         team[t].status = "Forming",
         team'[t].lock = team[t].lock + 1, team'[t].complete = team[t].complete,
         \A p \in Orders \ {o} : ~(status[p] = "none" /\ status'[p] = "Locked")
  PROVE  LockedCounted(t)'
<1> SUFFICES ASSUME ~RolledBack(t)'
             PROVE  Cardinality(LockedSeats(t)') + team'[t].complete <= team'[t].lock
  BY DEF LockedCounted
<1> DEFINE S == LockedSeats(t)
           T == LockedSeats(t)'
<1>1. Cardinality(S) + team[t].complete <= team[t].lock
  BY RolledBackStays DEF IInv, LockedCounted
<1>2. T \in SUBSET (S \union {o})
  BY LockedSeatsStep DEF LockedSeats
<1>3. IsFiniteSet(S) /\ Cardinality(S) \in Nat
  BY LockedFinite
<1>4. team[t].lock \in Nat /\ team[t].complete \in Nat
  BY RowType DEF IInv
<1> HIDE DEF S, T
<1>5. /\ IsFiniteSet(S \union {o})
      /\ Cardinality(S \union {o}) = IF o \in S THEN Cardinality(S) ELSE Cardinality(S) + 1
  BY <1>3, FS_AddElement
<1>6. Cardinality(T) <= Cardinality(S) + 1 /\ Cardinality(T) \in Nat
  <2>1. Cardinality(T) <= Cardinality(S \union {o}) /\ Cardinality(T) \in Nat
    BY <1>2, <1>5, FS_Subset, FS_CardinalityType
  <2> QED
    BY <1>3, <1>5, <2>1
<1>7. Cardinality(T) + team'[t].complete <= team'[t].lock
  BY <1>1, <1>3, <1>4, <1>6
<1> QED
  BY <1>7 DEF T

\* lock_count moves together with the seats, complete_count with the paid
\* ones, so their distance never falls below the members that have not paid.
LEMMA LockedStep == IInv /\ [Next]_vars => \A t \in Teams : LockedCounted(t)'
<1> SUFFICES ASSUME IInv, [Next]_vars, NEW x \in Teams PROVE LockedCounted(x)'
  OBVIOUS
<1> TypeOK
  BY DEF IInv
<1>0. team[x].lock \in Nat /\ team[x].complete \in Nat
  BY RowType
<1>a. ASSUME team'[x] = team[x],
             \A p \in Orders : teamOf'[p] = x => ~(status[p] = "none" /\ status'[p] = "Locked")
      PROVE  LockedCounted(x)'
  BY <1>0, <1>a, LockedKept, 0 \in Int
<1>1. ASSUME NEW o \in Orders, SettleOrder(o) PROVE LockedCounted(x)'
  <2>1. /\ teamOf' = teamOf /\ refund' = refund /\ status[o] = "Locked" /\ status'[o] = "Paid"
        /\ \A p \in Orders \ {o} : status'[p] = status[p]
    BY <1>1 DEF SettleOrder, Settleable, TypeOK
  <2>2. CASE teamOf[o] = x
    <3>1. /\ team'[x].complete = team[x].complete + 1 /\ team'[x].lock = team[x].lock
          /\ team[x].status = "Forming"
      BY <1>1, <2>2 DEF SettleOrder, TakesPayment, TypeOK, TeamRow
    <3>2. o \in LockedSeats(x)
      BY <2>1, <2>2 DEF LockedSeats
    <3>3. o \notin LockedSeats(x)'
      <4>1. ASSUME NEW c \in Callers, Flipped(c)', refund'[c].ord = o PROVE FALSE
        BY <2>1, <4>1, CallerStep DEF FlippedAlone
      <4> QED
        BY <2>1, <4>1 DEF LockedSeats, Pending
    <3>4. team'[x].lock - team'[x].complete = team[x].lock - team[x].complete - 1
      BY <1>0, <3>1
    <3> QED
      BY <1>0, <2>1, <3>1, <3>2, <3>3, <3>4, LockedLess
  <2>3. CASE teamOf[o] # x
    <3>1. team'[x] = team[x]
      BY <1>1, <2>3 DEF SettleOrder, TypeOK
    <3> QED
      BY <1>a, <2>1, <3>1
  <2> QED
    BY <2>2, <2>3
<1>2. ASSUME NEW c \in Callers, UpdateTeam(c) PROVE LockedCounted(x)'
  <2> DEFINE o == refund[c].ord
             t == teamOf[o]
  <2>1. refund[c] # Idle /\ Flipped(c)
    BY <1>2 DEF UpdateTeam, Idle, Flipped
  <2>2. refund[c] \in [at : {"read", "flipped", "tail"}, ord : Orders, path : Paths]
    BY <2>1, RefundType
  <2>3. t \in Teams
    BY <2>1, <2>2, KnownTeam DEF IInv, RefundsARow
  <2>4. status' = status /\ teamOf' = teamOf
    BY <1>2 DEF UpdateTeam
  <2>5. CASE x # t
    <3>1. team'[x] = team[x]
      BY <1>2, <2>3, <2>5 DEF UpdateTeam, RefundTeamForming, RefundCompleteTeam, Bump, TypeOK
    <3> QED
      BY <1>a, <2>4, <3>1
  <2>6. CASE x = t /\ RefundCompleteTeam(c)
    <3>1. team'[x].status # "Forming"
      BY <2>6 DEF RefundCompleteTeam, TypeOK, TeamRow
    <3> QED
      BY <3>1 DEF LockedCounted
  <2>7. CASE x = t /\ RefundTeamForming(c)
    <3> DEFINE dc == CompleteDelta(refund[c].path)
    <3>1. team' = Bump(t, -1, dc) /\ team[t].status = "Forming" /\ dc \in Int
      BY <2>7 DEF RefundTeamForming, FormingUpdatable, CompleteDelta
    <3>2. /\ team'[x].status = "Forming" /\ team'[x].lock = team[x].lock + (-1)
          /\ team'[x].complete = team[x].complete + dc
      <4> HIDE DEF t, dc
      <4> QED
        BY <2>3, <2>7, <3>1, BumpRow
    <3>3. CASE refund[c].path = "paid"
      <4>1. dc = -1
        BY <3>3 DEF CompleteDelta
      <4> QED
        BY <2>4, <2>7, <3>1, <3>2, <4>1, LockedKept
    <3>4. CASE refund[c].path = "unpaid"
      <4>1. dc = 0
        BY <3>4 DEF CompleteDelta
      <4>2. o \in LockedSeats(x)
        BY <2>1, <2>2, <2>7, <3>4 DEF LockedSeats, Pending
      <4>3. o \notin LockedSeats(x)'
        <5>1. status'[o] # "Locked"
          BY <2>1, <2>4 DEF IInv, FlippedAlone
        <5>2. ~Flipped(c)'
          BY <1>2, <2>2 DEF UpdateTeam, Flipped, TypeOK
        <5>3. ASSUME NEW d \in Callers, Flipped(d)', refund'[d].ord = o PROVE FALSE
          <6>1. d # c /\ refund'[d] = refund[d]
            BY <1>2, <5>2, <5>3 DEF UpdateTeam, TypeOK
          <6> QED
            BY <2>1, <5>3, <6>1 DEF IInv, FlippedAlone, Flipped
        <5> QED
          BY <5>1, <5>3 DEF LockedSeats, Pending
      <4>4. /\ team'[x].lock - team'[x].complete = team[x].lock - team[x].complete - 1
            /\ team'[x].lock \in Int /\ team'[x].complete \in Int
        <5> HIDE DEF dc
        <5> QED
          BY <1>0, <3>2, <4>1
      <4> HIDE DEF o
      <4> QED
        BY <2>4, <2>7, <3>1, <4>2, <4>3, <4>4, LockedLess
    <3> QED
      BY <2>7, <3>3, <3>4 DEF RefundTeamForming
  <2> QED
    BY <1>2, <2>5, <2>6, <2>7 DEF UpdateTeam
<1>3. ASSUME NEW o \in Orders, NEW t \in Teams, NEW n \in Targets,
             CreateTeamWithOrder(o, t, n)
      PROVE  LockedCounted(x)'
  <2>1. /\ status' = [status EXCEPT ![o] = "Locked"] /\ teamOf' = [teamOf EXCEPT ![o] = t]
        /\ status[o] = "none" /\ team[t].status = "none" /\ refund' = refund
    BY <1>3 DEF CreateTeamWithOrder, Insert
  <2>2. CASE x = t
    <3>1. LockedSeats(x)' \in SUBSET {o}
      <4> SUFFICES ASSUME NEW p \in LockedSeats(x)', p # o PROVE FALSE
        OBVIOUS
      <4>1. p \in Orders /\ status'[p] = status[p] /\ teamOf'[p] = teamOf[p] /\ teamOf[p] = x
        BY <2>1 DEF LockedSeats, TypeOK
      <4>2. status[p] = "none"
        BY <2>1, <2>2, <4>1 DEF IInv, InsertedInTeam
      <4>3. PICK c \in Callers : Flipped(c)' /\ refund'[c].ord = p
        BY <4>1, <4>2 DEF LockedSeats, Pending
      <4> QED
        BY <4>1, <4>2, <4>3, CallerStep DEF FlippedAlone
    <3>2. Cardinality(LockedSeats(x)') <= 1 /\ Cardinality(LockedSeats(x)') \in Nat
      <4>1. IsFiniteSet({o}) /\ Cardinality({o}) = 1
        BY FS_Singleton
      <4> QED
        BY <3>1, <4>1, FS_Subset, FS_CardinalityType
    <3>3. team'[x].lock = 1 /\ team'[x].complete = 0
      BY <1>3, <2>2 DEF CreateTeamWithOrder, TypeOK
    <3> QED
      BY <3>2, <3>3 DEF LockedCounted
  <2>3. CASE x # t
    <3>1. team'[x] = team[x]
      BY <1>3, <2>3 DEF CreateTeamWithOrder, TypeOK
    <3>2. \A p \in Orders : teamOf'[p] = x => p # o
      BY <2>1, <2>3 DEF TypeOK
    <3> QED
      BY <1>a, <2>1, <3>1, <3>2 DEF TypeOK
  <2> QED
    BY <2>2, <2>3
<1>4. ASSUME NEW o \in Orders, NEW t \in Teams, JoinTeamWithOrder(o, t)
      PROVE  LockedCounted(x)'
  <2>1. /\ status' = [status EXCEPT ![o] = "Locked"] /\ teamOf' = [teamOf EXCEPT ![o] = t]
        /\ team' = Bump(t, 1, 0)
    BY <1>4 DEF JoinTeamWithOrder, Insert
  <2>2. \A p \in Orders \ {o} : ~(status[p] = "none" /\ status'[p] = "Locked")
    BY <2>1 DEF TypeOK
  <2>3. CASE x = t
    <3>1. /\ team'[x].status = team[x].status /\ team'[x].lock = team[x].lock + 1
          /\ team'[x].complete = team[x].complete
      BY <1>0, <2>1, <2>3, BumpRow
    <3>2. CASE team[x].status = "Forming"
      BY <2>2, <3>1, <3>2, LockedMore
    <3>3. CASE team[x].status # "Forming"
      BY <3>1, <3>3 DEF LockedCounted
    <3> QED
      BY <3>2, <3>3
  <2>4. CASE x # t
    <3>1. team'[x] = team[x]
      BY <2>1, <2>4 DEF Bump, TypeOK
    <3>2. \A p \in Orders : teamOf'[p] = x => p # o
      BY <2>1, <2>4 DEF TypeOK
    <3> QED
      BY <1>a, <2>2, <3>1, <3>2
  <2> QED
    BY <2>3, <2>4
<1>5. ASSUME NEW o \in Orders, RollbackNewTeam(o) \/ RollbackJoinTeam(o)
      PROVE  LockedCounted(x)'
  <2>1. teamOf' = teamOf /\ status' = [status EXCEPT ![o] = "deleted"]
    BY <1>5 DEF RollbackNewTeam, RollbackJoinTeam, DeleteOrder
  <2>2. CASE teamOf[o] = x
    <3>1. RolledBack(x)'
      BY <2>1, <2>2 DEF RolledBack, TypeOK
    <3> QED
      BY <3>1 DEF LockedCounted
  <2>3. CASE teamOf[o] # x
    <3>1. team'[x] = team[x]
      BY <1>5, <2>3 DEF RollbackNewTeam, RollbackJoinTeam, Bump, TypeOK
    <3> QED
      BY <1>a, <2>1, <3>1 DEF TypeOK
  <2> QED
    BY <2>2, <2>3
<1>6. ASSUME NEW c \in Callers, FlipOrder(c) PROVE LockedCounted(x)'
  BY <1>a, <1>6 DEF FlipOrder, TypeOK
<1>7. ASSUME UNCHANGED <<team, teamOf, status>> PROVE LockedCounted(x)'
  BY <1>a, <1>7
<1> QED
  BY <1>1, <1>2, <1>3, <1>4, <1>5, <1>6, <1>7
  DEF Next, LockStep, RefundStep, vars, PaymentCreated, TeamExpires,
      ReadForRefund, LoseRace, UpdateTeamFails, FinishRefund, AbandonRefund

-----------------------------------------------------------------------------
\* A team starts to form when it is created, and at no other time.
LEMMA FormingBefore ==
  ASSUME IInv, [Next]_vars, NEW x \in Teams, team'[x].status = "Forming"
  PROVE  \/ team[x].status = "Forming"
         \/ /\ team[x].status = "none"
            /\ \E o \in Orders, n \in Targets : CreateTeamWithOrder(o, x, n)
<1> TypeOK
  BY DEF IInv
<1>1. ASSUME NEW o \in Orders, NEW t \in Teams, NEW n \in Targets,
             CreateTeamWithOrder(o, t, n)
      PROVE  team[x].status = "Forming" \/ (x = t /\ team[x].status = "none")
  BY <1>1 DEF CreateTeamWithOrder, TypeOK
<1>2. ASSUME NEW t \in Teams, NEW i \in Int, NEW j \in Int, team' = Bump(t, i, j)
      PROVE  team[x].status = "Forming"
  BY <1>2, BumpRow
<1>3. ASSUME NEW o \in Orders, RollbackNewTeam(o) PROVE team[x].status = "Forming"
  BY <1>3 DEF RollbackNewTeam, TypeOK, TeamRow
<1>4. ASSUME NEW o \in Orders, SettleOrder(o) PROVE team[x].status = "Forming"
  BY <1>4 DEF SettleOrder, TakesPayment, TypeOK, TeamRow
<1>5. ASSUME NEW c \in Callers, refund[c] # Idle, RefundTeamForming(c)
      PROVE  team[x].status = "Forming"
  <2>1. teamOf[refund[c].ord] \in Teams
    BY <1>5, KnownTeam, RefundType DEF IInv, RefundsARow
  <2> QED
    BY <1>5, <1>2, <2>1 DEF RefundTeamForming, CompleteDelta
<1>6. ASSUME NEW c \in Callers, RefundCompleteTeam(c) PROVE team[x].status = "Forming"
  BY <1>6 DEF RefundCompleteTeam, TypeOK, TeamRow
<1>7. ASSUME NEW c \in Callers, UpdateTeam(c) PROVE team[x].status = "Forming"
  BY <1>7, <1>5, <1>6 DEF UpdateTeam, Idle
<1>8. ASSUME NEW o \in Orders, RollbackJoinTeam(o) PROVE team[x].status = "Forming"
  <2>1. teamOf[o] \in Teams
    BY <1>8, KnownTeam DEF RollbackJoinTeam
  <2> QED
    BY <1>8, <1>2, <2>1 DEF RollbackJoinTeam
<1> QED
  BY <1>1, <1>2, <1>3, <1>4, <1>7, <1>8
  DEF Next, LockStep, RefundStep, vars, JoinTeamWithOrder, PaymentCreated, TeamExpires,
      ReadForRefund, FlipOrder, LoseRace, UpdateTeamFails, FinishRefund, AbandonRefund

-----------------------------------------------------------------------------
(* Seats: lock_count and the orders it stands for.                         *)

LEMMA PathStep == IInv /\ [Next]_vars => \A c \in Callers : PathFits(c)'
<1> SUFFICES ASSUME IInv, [Next]_vars, NEW x \in Callers, refund'[x] # Idle,
                    refund'[x].path \notin {"unpaid", "paid"}
             PROVE  team'[teamOf'[refund'[x].ord]].status # "Forming"
  BY DEF PathFits
<1> DEFINE o == refund'[x].ord
<1> TypeOK
  BY DEF IInv
<1> DEFINE Fits == /\ status[o] # "none" /\ o \in Orders /\ teamOf[o] \in Teams
                   /\ team[teamOf[o]].status \notin {"none", "Forming"}
<1>1. Fits
  <2>1. ASSUME refund[x] # Idle, refund'[x].ord = refund[x].ord, refund'[x].path = refund[x].path
        PROVE  Fits
    BY <2>1, KnownTeam, RefundType DEF IInv, RefundsARow, PathFits
  <2>2. CASE refund'[x] = refund[x]
    BY <2>1, <2>2
  <2>3. CASE refund'[x] # refund[x]
    <3>1. ASSUME NEW q \in Orders, ReadForRefund(x, q) PROVE Fits
      <4>1. refund'[x] = [at |-> "read", ord |-> q,
                          path |-> RefundPath(status[q], team[teamOf[q]].status)]
        BY <3>1 DEF ReadForRefund, TypeOK
      <4>2. status[q] \in {"Locked", "Paid"} /\ teamOf[q] \in Teams /\ o = q
        BY <3>1, <4>1, KnownTeam DEF ReadForRefund
      <4>3. team[teamOf[q]].status \notin {"none", "Forming"}
        BY <3>1, <4>1, <4>2 DEF ReadForRefund, RefundPath
      <4> QED
        BY <4>2, <4>3
    <3>2. CASE FlipOrder(x) \/ UpdateTeam(x)
      <4>1. refund[x] # Idle
        BY <3>2 DEF FlipOrder, UpdateTeam, Idle
      <4>2. refund'[x].ord = refund[x].ord /\ refund'[x].path = refund[x].path
        BY <3>2, <4>1, RefundType DEF FlipOrder, UpdateTeam, TypeOK
      <4> QED
        BY <2>1, <4>1, <4>2
    <3>3. ASSUME refund' = [refund EXCEPT ![x] = Idle] PROVE FALSE
      BY <3>3 DEF TypeOK
    <3>4. \A c \in Callers \ {x} : ~RefundStep(c)
      BY <2>3 DEF RefundStep, ReadForRefund, FlipOrder, LoseRace, UpdateTeam, UpdateTeamFails,
        FinishRefund, AbandonRefund, TypeOK
    <3>5. RefundStep(x)
      BY <2>3, <3>4 DEF Next, LockStep, vars, CreateTeamWithOrder, Insert, JoinTeamWithOrder,
        RollbackNewTeam, RollbackJoinTeam, DeleteOrder, SettleOrder, PaymentCreated, TeamExpires
    <3> QED
      BY <3>1, <3>2, <3>3, <3>5 DEF RefundStep, LoseRace, UpdateTeamFails, FinishRefund,
        AbandonRefund
  <2> QED
    BY <2>2, <2>3
<1>2. teamOf'[o] = teamOf[o]
  BY <1>1, OrderMoves DEF OrderMove
<1> QED
  BY <1>1, <1>2, FormingBefore

\* A call that owes its team no update before or after a step says nothing of
\* any seat.
LEMMA PendingSame ==
  ASSUME NEW c \in Callers, ~Flipped(c), ~Flipped(c)',
         \A d \in Callers \ {c} : refund'[d] = refund[d], NEW o, NEW paths
  PROVE  Pending(o, paths)' <=> Pending(o, paths)
  BY DEF Pending, Flipped

\* One that updates its team or gives up takes its order's claim with it.
LEMMA PendingEnds ==
  ASSUME IInv, NEW c \in Callers, Flipped(c), ~Flipped(c)',
         \A d \in Callers \ {c} : refund'[d] = refund[d], NEW o, NEW paths
  PROVE  Pending(o, paths)' <=> Pending(o, paths) /\ o # refund[c].ord
<1>1. ASSUME NEW d \in Callers, Flipped(d), refund[d].ord = refund[c].ord PROVE d = c
  BY <1>1 DEF IInv, FlippedAlone
<1>2. ASSUME Pending(o, paths)' PROVE Pending(o, paths) /\ o # refund[c].ord
  <2>1. PICK d \in Callers : Flipped(d)' /\ refund'[d].ord = o /\ refund'[d].path \in paths
    BY <1>2 DEF Pending
  <2>2. d # c /\ refund'[d] = refund[d] /\ Flipped(d)
    BY <2>1 DEF Flipped
  <2> QED
    BY <1>1, <2>1, <2>2 DEF Pending
<1>3. ASSUME Pending(o, paths), o # refund[c].ord PROVE Pending(o, paths)'
  <2>1. PICK d \in Callers : Flipped(d) /\ refund[d].ord = o /\ refund[d].path \in paths
    BY <1>3 DEF Pending
  <2>2. d # c /\ refund'[d] = refund[d] /\ Flipped(d)'
    BY <1>3, <2>1 DEF Flipped
  <2> QED
    BY <2>1, <2>2 DEF Pending
<1> QED
  BY <1>2, <1>3

\* The order of a call between its transactions.
LEMMA FlippedOrder ==
  ASSUME IInv, NEW c \in Callers, Flipped(c)
  PROVE  /\ refund[c].ord \in Orders /\ refund[c].path \in {"unpaid", "paid", "paidTeam"}
         /\ status[refund[c].ord] \in {"Refunded", "deleted"}
         /\ teamOf[refund[c].ord] \in Teams
         /\ refund[c].ord \notin stranded
<1>1. refund[c] # Idle /\ FlippedAlone(c) /\ TypeOK
  BY DEF Flipped, IInv
<1>2. refund[c].ord \in Orders /\ refund[c].path \in Paths
  BY <1>1, RefundType
<1>3. Pending(refund[c].ord, Paths)
  BY <1>2 DEF Pending
<1> QED
  BY <1>1, <1>2, <1>3, KnownTeam DEF FlippedAlone, UpdatesTeam, IInv, DriftsOnce

LEMMA DriftStep == IInv /\ [Next]_vars => \A o \in Orders : DriftsOnce(o)'
<1> SUFFICES ASSUME IInv, [Next]_vars, NEW o \in Orders PROVE DriftsOnce(o)'
  OBVIOUS
<1> TypeOK /\ DriftsOnce(o) /\ OrderMove(o)
  BY OrderMoves DEF IInv
<1>1. status'[o] = "deleted" => paying'[o] = "no"
  <2>1. CASE status[o] = "deleted"
    BY <2>1 DEF DriftsOnce, TypeOK, Next, LockStep, RefundStep, vars, CreateTeamWithOrder, Insert,
      JoinTeamWithOrder, RollbackNewTeam, RollbackJoinTeam, DeleteOrder, SettleOrder,
      PaymentCreated, TeamExpires, ReadForRefund, FlipOrder, LoseRace, UpdateTeam,
      UpdateTeamFails, FinishRefund, AbandonRefund
  <2>2. CASE status[o] # "deleted" /\ status'[o] = "deleted"
    <3>1. \A q \in Orders : RollbackNewTeam(q) \/ RollbackJoinTeam(q) => q = o
      BY <2>2 DEF RollbackNewTeam, RollbackJoinTeam, DeleteOrder, TypeOK
    <3>2. ASSUME NEW c \in Callers PROVE ~FlipOrder(c)
      <4>1. FlipOrder(c) => refund[c].ord \in Orders
        BY RefundType DEF FlipOrder, Idle
      <4> QED
        BY <2>2, <4>1 DEF FlipOrder, TypeOK
    <3>3. RollbackNewTeam(o) \/ RollbackJoinTeam(o)
      BY <2>2, <3>1, <3>2 DEF TypeOK, Next, LockStep, RefundStep, vars, CreateTeamWithOrder,
        Insert, JoinTeamWithOrder, SettleOrder, PaymentCreated, TeamExpires, ReadForRefund,
        LoseRace, UpdateTeam, UpdateTeamFails, FinishRefund, AbandonRefund
    <3> QED
      BY <3>3 DEF RollbackNewTeam, RollbackJoinTeam, DeleteOrder, TypeOK
  <2> QED
    BY <2>1, <2>2
<1>2. o \in doubled' => status'[o] = "deleted"
  <2>1. CASE o \in doubled
    BY <2>1 DEF DriftsOnce, OrderMove
  <2>2. CASE o \notin doubled /\ o \in doubled'
    <3>1. RollbackJoinTeam(o)
      BY <2>2 DEF Next, LockStep, RefundStep, vars, CreateTeamWithOrder, Insert,
        JoinTeamWithOrder, RollbackNewTeam, RollbackJoinTeam, SettleOrder, PaymentCreated,
        TeamExpires, ReadForRefund, FlipOrder, LoseRace, UpdateTeam, UpdateTeamFails,
        FinishRefund, AbandonRefund
    <3> QED
      BY <3>1 DEF RollbackJoinTeam, DeleteOrder, TypeOK
  <2> QED
    BY <2>1, <2>2
<1>3. o \in stranded' => status'[o] \in {"Refunded", "deleted"} /\ ~Pending(o, Paths)'
  <2>1. CASE o \in stranded
    <3>1. status[o] \in {"Refunded", "deleted"} /\ ~Pending(o, Paths)
      BY <2>1 DEF DriftsOnce
    <3>2. ASSUME NEW c \in Callers, Flipped(c)', refund'[c].ord = o, refund'[c].path \in Paths
          PROVE  FALSE
      <4>1. CallerMove(c)
        BY CallerMoves
      <4>2. refund'[c] # refund[c]
        BY <3>1, <3>2 DEF Pending, Flipped
      <4> QED
        BY <3>1, <3>2, <4>1, <4>2 DEF CallerMove, FromStatus
    <3> QED
      BY <3>1, <3>2 DEF OrderMove, Pending
  <2>2. CASE o \notin stranded /\ o \in stranded'
    <3>1. PICK c \in Callers : /\ UpdateTeamFails(c) \/ AbandonRefund(c)
                               /\ refund[c].ord = o /\ refund[c].at = "flipped"
      BY <2>2 DEF Next, LockStep, RefundStep, vars, CreateTeamWithOrder, Insert,
        JoinTeamWithOrder, RollbackNewTeam, RollbackJoinTeam, DeleteOrder, SettleOrder,
        PaymentCreated, TeamExpires, ReadForRefund, FlipOrder, LoseRace, UpdateTeam,
        UpdateTeamFails, FinishRefund, AbandonRefund
    <3>2. Flipped(c) /\ ~Flipped(c)' /\ (\A d \in Callers \ {c} : refund'[d] = refund[d])
      BY <3>1 DEF UpdateTeamFails, AbandonRefund, Flipped, Idle, TypeOK
    <3>3. status' = status
      BY <3>1 DEF UpdateTeamFails, AbandonRefund
    <3> QED
      BY <3>1, <3>2, <3>3, FlippedOrder, PendingEnds
  <2> QED
    BY <2>1, <2>2
<1> QED
  BY <1>1, <1>2, <1>3 DEF DriftsOnce

LEMMA CountsFinite ==
  ASSUME TypeOK, NEW t
  PROVE  /\ IsFiniteSet(Seats(t)) /\ Cardinality(Seats(t)) \in Nat
         /\ IsFiniteSet(StrandedIn(t)) /\ Cardinality(StrandedIn(t)) \in Nat
         /\ IsFiniteSet(DoubledIn(t)) /\ Cardinality(DoubledIn(t)) \in Nat
<1>1. /\ Seats(t) \in SUBSET Orders /\ StrandedIn(t) \in SUBSET Orders
      /\ DoubledIn(t) \in SUBSET Orders
  BY DEF Seats, StrandedIn, DoubledIn, TypeOK
<1> QED
  BY <1>1, FS_Subset, FS_CardinalityType, LedgerAssumption

\* What a step may do to lock_count of a forming team and to the three sets it
\* is compared with, o being the order it is about.
SeatMove(t, o) ==
  \/ /\ team'[t].lock = team[t].lock
     /\ Seats(t)' = Seats(t) /\ StrandedIn(t)' = StrandedIn(t) /\ DoubledIn(t)' = DoubledIn(t)
  \/ /\ o \notin Seats(t) /\ team'[t].lock = team[t].lock + 1
     /\ Seats(t)' = Seats(t) \union {o}
     /\ StrandedIn(t)' = StrandedIn(t) /\ DoubledIn(t)' = DoubledIn(t)
  \/ /\ o \in Seats(t)
     /\ team'[t].lock = team[t].lock - 1 \/ (team[t].lock = 0 /\ team'[t].lock = 0)
     /\ Seats(t)' = Seats(t) \ {o}
     /\ StrandedIn(t)' = StrandedIn(t) /\ DoubledIn(t)' = DoubledIn(t)
  \/ /\ o \in Seats(t) /\ o \notin StrandedIn(t) /\ team'[t].lock = team[t].lock
     /\ Seats(t)' = Seats(t) \ {o}
     /\ StrandedIn(t)' = StrandedIn(t) \union {o} /\ DoubledIn(t)' = DoubledIn(t)
  \/ /\ o \notin DoubledIn(t) /\ team'[t].lock \in {team[t].lock, team[t].lock - 1}
     /\ Seats(t)' = Seats(t)
     /\ StrandedIn(t)' = StrandedIn(t) /\ DoubledIn(t)' = DoubledIn(t) \union {o}

LEMMA SeatsRecounted ==
  ASSUME IInv, NEW t \in Teams, team[t].status = "Forming", NEW o, SeatMove(t, o)
  PROVE  SeatsCounted(t)'
<1> DEFINE S == Seats(t)
           A == StrandedIn(t)
           D == DoubledIn(t)
           l == team[t].lock
           m == team'[t].lock
           T == Seats(t)'
           B == StrandedIn(t)'
           E == DoubledIn(t)'
<1>1. /\ IsFiniteSet(S) /\ Cardinality(S) \in Nat
      /\ IsFiniteSet(A) /\ Cardinality(A) \in Nat
      /\ IsFiniteSet(D) /\ Cardinality(D) \in Nat
  BY CountsFinite DEF IInv
<1>2. /\ l <= Cardinality(S) + Cardinality(A)
      /\ l >= Cardinality(S) - Cardinality(D)
  BY DEF IInv, SeatsCounted
<1>3. l \in Nat
  BY RowType DEF IInv
<1>4. \/ m = l /\ T = S /\ B = A /\ E = D
      \/ o \notin S /\ m = l + 1 /\ T = S \union {o} /\ B = A /\ E = D
      \/ o \in S /\ (m = l - 1 \/ (l = 0 /\ m = 0)) /\ T = S \ {o} /\ B = A /\ E = D
      \/ o \in S /\ o \notin A /\ m = l /\ T = S \ {o} /\ B = A \union {o} /\ E = D
      \/ o \notin D /\ m \in {l, l - 1} /\ T = S /\ B = A /\ E = D \union {o}
  BY DEF SeatMove
<1> SUFFICES /\ m <= Cardinality(T) + Cardinality(B)
             /\ m >= Cardinality(T) - Cardinality(E)
  BY DEF SeatsCounted
<1> HIDE DEF S, A, D, l, m, T, B, E
<1>5. /\ o \in S => Cardinality(S \ {o}) = Cardinality(S) - 1
      /\ o \notin S => Cardinality(S \union {o}) = Cardinality(S) + 1
      /\ o \notin A => Cardinality(A \union {o}) = Cardinality(A) + 1
      /\ o \notin D => Cardinality(D \union {o}) = Cardinality(D) + 1
  BY <1>1, FS_AddElement, FS_RemoveElement
<1>6. CASE m = l /\ T = S /\ B = A /\ E = D
  BY <1>2, <1>6
<1>7. CASE o \notin S /\ m = l + 1 /\ T = S \union {o} /\ B = A /\ E = D
  BY <1>1, <1>2, <1>3, <1>5, <1>7
<1>8. CASE o \in S /\ (m = l - 1 \/ (l = 0 /\ m = 0)) /\ T = S \ {o} /\ B = A /\ E = D
  BY <1>1, <1>2, <1>3, <1>5, <1>8, FS_CardinalityType, FS_RemoveElement
<1>9. CASE o \in S /\ o \notin A /\ m = l /\ T = S \ {o} /\ B = A \union {o} /\ E = D
  BY <1>1, <1>2, <1>3, <1>5, <1>9
<1>10. CASE o \notin D /\ m \in {l, l - 1} /\ T = S /\ B = A /\ E = D \union {o}
  BY <1>1, <1>2, <1>3, <1>5, <1>10
<1> QED
  BY <1>4, <1>6, <1>7, <1>8, <1>9, <1>10

\* Nothing about a team's seats changes when neither its row nor its orders do.
LEMMA SeatsUntouched ==
  ASSUME IInv, NEW t \in Teams, team[t].status = "Forming", team'[t].lock = team[t].lock,
         \A o \in Orders : /\ (o \in Seats(t)') <=> (o \in Seats(t))
                           /\ (o \in StrandedIn(t)') <=> (o \in StrandedIn(t))
                           /\ (o \in DoubledIn(t)') <=> (o \in DoubledIn(t)),
         stranded' \subseteq Orders, doubled' \subseteq Orders
  PROVE  SeatsCounted(t)'
<1>1. TypeOK
  BY DEF IInv
<1>2. Seats(t)' = Seats(t)
  BY DEF Seats
<1>3. StrandedIn(t)' = StrandedIn(t) /\ DoubledIn(t)' = DoubledIn(t)
  BY <1>1 DEF StrandedIn, DoubledIn, TypeOK
<1>4. SeatMove(t, t)
  BY <1>2, <1>3 DEF SeatMove
<1> QED
  BY <1>4, SeatsRecounted

\* The first seat of a new team is its creator's.
LEMMA SeatsOfNewTeam ==
  ASSUME IInv, [Next]_vars, NEW x \in Teams, NEW o \in Orders, NEW n \in Targets,
         CreateTeamWithOrder(o, x, n)
  PROVE  SeatsCounted(x)'
<1> TypeOK /\ TypeOK'
  BY TypeStep DEF IInv
<1>1. /\ status' = [status EXCEPT ![o] = "Locked"] /\ teamOf' = [teamOf EXCEPT ![o] = x]
      /\ team[x].status = "none" /\ refund' = refund /\ team'[x].lock = 1
  BY DEF CreateTeamWithOrder, Insert, TypeOK
<1>2. Seats(x)' = {o}
  <2>1. o \in Seats(x)'
    BY <1>1 DEF Seats, TypeOK
  <2>2. ASSUME NEW p \in Seats(x)', p # o PROVE FALSE
    <3>1. p \in Orders /\ status'[p] = status[p] /\ teamOf[p] = x
      BY <1>1, <2>2 DEF Seats, TypeOK
    <3>2. status[p] = "none"
      BY <1>1, <3>1 DEF IInv, InsertedInTeam
    <3>3. PICK c \in Callers : Flipped(c)' /\ refund'[c].ord = p
      BY <2>2, <3>1, <3>2 DEF Seats, Pending
    <3> QED
      BY <3>1, <3>2, <3>3, CallerStep DEF FlippedAlone
  <2> QED
    BY <2>1, <2>2
<1>3. Cardinality(Seats(x)') = 1
  BY <1>2, FS_Singleton
<1>4. Cardinality(StrandedIn(x)') \in Nat /\ Cardinality(DoubledIn(x)') \in Nat
  <2>1. StrandedIn(x)' \in SUBSET Orders /\ DoubledIn(x)' \in SUBSET Orders
    BY DEF StrandedIn, DoubledIn, TypeOK
  <2> QED
    BY <2>1, FS_Subset, FS_CardinalityType, LedgerAssumption
<1> QED
  BY <1>1, <1>3, <1>4 DEF SeatsCounted

\* A seat more for the row and for the team.
LEMMA SeatsJoin ==
  ASSUME IInv, [Next]_vars, NEW x \in Teams, team[x].status = "Forming", NEW o \in Orders,
         NEW t \in Teams, JoinTeamWithOrder(o, t)
  PROVE  SeatsCounted(x)'
<1> TypeOK
  BY DEF IInv
<1>1. /\ status' = [status EXCEPT ![o] = "Locked"] /\ teamOf' = [teamOf EXCEPT ![o] = t]
      /\ status[o] = "none" /\ team' = Bump(t, 1, 0)
      /\ UNCHANGED <<refund, stranded, doubled>>
  BY DEF JoinTeamWithOrder, Insert
<1>2. \A p \in Orders : Pending(p, {"unpaid", "paid"})' <=> Pending(p, {"unpaid", "paid"})
  BY <1>1 DEF Pending, Flipped
<1>3. o \notin stranded /\ o \notin doubled /\ ~Pending(o, {"unpaid", "paid"})
  <2>1. o \notin stranded /\ o \notin doubled
    BY <1>1 DEF IInv, DriftsOnce
  <2>2. ASSUME NEW c \in Callers, Flipped(c), refund[c].ord = o PROVE FALSE
    BY <1>1, <2>2, FlippedOrder
  <2> QED
    BY <2>1, <2>2 DEF Pending
<1>4. StrandedIn(x)' = StrandedIn(x) /\ DoubledIn(x)' = DoubledIn(x)
  BY <1>1, <1>3 DEF StrandedIn, DoubledIn, TypeOK
<1>5. o \notin Seats(x)
  BY <1>1, <1>3 DEF Seats
<1>6. CASE x = t
  <2>1. Seats(x)' = Seats(x) \union {o}
    BY <1>1, <1>2, <1>6 DEF Seats, TypeOK
  <2>2. team'[x].lock = team[x].lock + 1
    <3>1. team' = Bump(x, 1, 0)
      BY <1>1, <1>6
    <3> QED
      BY <3>1, BumpRow
  <2> QED
    BY <1>4, <1>5, <2>1, <2>2, SeatsRecounted DEF SeatMove
<1>7. CASE x # t
  <2>1. \A p \in Orders : p \in Seats(x)' <=> p \in Seats(x)
    BY <1>1, <1>2, <1>3, <1>7 DEF Seats, TypeOK
  <2>2. team'[x].lock = team[x].lock
    BY <1>1, <1>7 DEF Bump, TypeOK
  <2> QED
    BY <1>1, <1>4, <2>1, <2>2, SeatsUntouched DEF TypeOK
<1> QED
  BY <1>6, <1>7

\* A rollback of a joined order gives one seat back, of an order that had one or
\* of a refunded order, which then counts as given back twice.
LEMMA SeatsRollback ==
  ASSUME IInv, [Next]_vars, NEW x \in Teams, team[x].status = "Forming",
         team'[x].status = "Forming", NEW o \in Orders,
         RollbackJoinTeam(o) \/ RollbackNewTeam(o)
  PROVE  SeatsCounted(x)'
<1> TypeOK
  BY DEF IInv
<1>1. /\ status' = [status EXCEPT ![o] = "deleted"] /\ paying[o] # "no"
      /\ UNCHANGED <<teamOf, refund, stranded>>
  BY DEF RollbackJoinTeam, RollbackNewTeam, DeleteOrder
<1>2. teamOf[o] \in Teams /\ status[o] \in {"Locked", "Paid", "Refunded"} /\ o \notin doubled
  BY <1>1, KnownTeam DEF IInv, DriftsOnce, TypeOK, OrderStatus
<1>3. \A p \in Orders : Pending(p, {"unpaid", "paid"})' <=> Pending(p, {"unpaid", "paid"})
  BY <1>1 DEF Pending, Flipped
<1>4. StrandedIn(x)' = StrandedIn(x)
  BY <1>1 DEF StrandedIn
<1>5. CASE teamOf[o] = x
  <2>1. RollbackJoinTeam(o)
    BY <1>5 DEF RollbackNewTeam, TypeOK, TeamRow
  <2>2. team' = IF team[x].lock > 0 THEN Bump(x, -1, 0) ELSE team
    BY <1>5, <2>1 DEF RollbackJoinTeam, Exists
  <2>3. team'[x].lock = team[x].lock - 1 \/ (team[x].lock = 0 /\ team'[x].lock = 0)
    <3>1. team[x].lock \in Nat
      BY RowType
    <3>2. CASE team[x].lock > 0
      <4>1. team' = Bump(x, -1, 0)
        BY <2>2, <3>2
      <4>2. team'[x].lock = team[x].lock + (-1)
        BY <4>1, BumpRow
      <4> QED
        BY <3>1, <4>2
    <3>3. CASE team[x].lock = 0
      BY <2>2, <3>3
    <3> QED
      BY <3>1, <3>2, <3>3
  <2>4. CASE status[o] \in {"Locked", "Paid"}
    <3>1. ~Pending(o, {"unpaid", "paid"})
      <4>1. ASSUME NEW c \in Callers, Flipped(c), refund[c].ord = o PROVE FALSE
        BY <2>4, <4>1, FlippedOrder
      <4> QED
        BY <4>1 DEF Pending
    <3>2. o \in Seats(x) /\ Seats(x)' = Seats(x) \ {o}
      BY <1>1, <1>3, <1>5, <2>4, <3>1 DEF Seats, TypeOK
    <3>3. DoubledIn(x)' = DoubledIn(x)
      BY <1>1, <2>1, <2>4 DEF RollbackJoinTeam, DoubledIn
    <3> QED
      BY <1>4, <2>3, <3>2, <3>3, SeatsRecounted DEF SeatMove
  <2>5. CASE status[o] = "Refunded"
    <3>1. Seats(x)' = Seats(x)
      BY <1>1, <1>3, <2>5 DEF Seats, TypeOK
    <3>2. DoubledIn(x)' = DoubledIn(x) \union {o} /\ o \notin DoubledIn(x)
      BY <1>1, <1>2, <1>5, <2>1, <2>5 DEF RollbackJoinTeam, DoubledIn
    <3>3. team'[x].lock \in {team[x].lock, team[x].lock - 1}
      BY <2>3
    <3> QED
      BY <1>4, <3>1, <3>2, <3>3, SeatsRecounted DEF SeatMove
  <2> QED
    BY <1>2, <2>4, <2>5
<1>6. CASE teamOf[o] # x
  <2>1. \A p \in Orders : p \in Seats(x)' <=> p \in Seats(x)
    BY <1>1, <1>3, <1>6 DEF Seats, TypeOK
  <2>2. team'[x].lock = team[x].lock
    BY <1>6 DEF RollbackJoinTeam, RollbackNewTeam, Bump, TypeOK
  <2>3. DoubledIn(x)' = DoubledIn(x) /\ doubled' \subseteq Orders
    BY <1>1, <1>6 DEF RollbackJoinTeam, RollbackNewTeam, DoubledIn, TypeOK
  <2> QED
    BY <1>1, <1>4, <2>1, <2>2, <2>3, SeatsUntouched DEF TypeOK
<1> QED
  BY <1>5, <1>6

\* A refund moves an order's seat from its status to the call that still has to
\* give it back, and from there to lock_count, or strands it.
LEMMA SeatsRefund ==
  ASSUME IInv, [Next]_vars, NEW x \in Teams, team[x].status = "Forming",
         team'[x].status = "Forming", NEW c \in Callers, RefundStep(c)
  PROVE  SeatsCounted(x)'
<1> DEFINE o == refund[c].ord
           due == {"unpaid", "paid"}
<1> TypeOK
  BY DEF IInv
<1>1. /\ teamOf' = teamOf /\ doubled' = doubled
      /\ \A d \in Callers \ {c} : refund'[d] = refund[d]
  BY DEF RefundStep, ReadForRefund, FlipOrder, LoseRace, UpdateTeam, UpdateTeamFails,
    FinishRefund, AbandonRefund, TypeOK
<1>2. DoubledIn(x)' = DoubledIn(x)
  BY <1>1 DEF DoubledIn
<1>3. CASE ~Flipped(c) /\ ~Flipped(c)' /\ UNCHANGED <<status, team, stranded>>
  <2>1. \A p \in Orders : Pending(p, due)' <=> Pending(p, due)
    BY <1>1, <1>3, PendingSame
  <2>2. Seats(x)' = Seats(x) /\ StrandedIn(x)' = StrandedIn(x)
    BY <1>1, <1>3, <2>1 DEF Seats, StrandedIn
  <2> QED
    BY <1>2, <1>3, <2>2, SeatsRecounted DEF SeatMove
<1>4. CASE FlipOrder(c)
  <2>1. refund[c] # Idle /\ ~Flipped(c)
    BY <1>4 DEF FlipOrder, Idle, Flipped
  <2>2. /\ refund[c] \in [at : {"read", "flipped", "tail"}, ord : Orders, path : Paths]
        /\ o \in Orders /\ refund[c].path \in Paths
    BY <2>1, RefundType
  <2>3. /\ refund'[c].at = IF UpdatesTeam(refund[c].path) THEN "flipped" ELSE "tail"
        /\ refund'[c].ord = o /\ refund'[c].path = refund[c].path
    BY <1>4, <2>2 DEF FlipOrder, TypeOK
  <2>4. /\ status' = [status EXCEPT ![o] = "Refunded"] /\ status[o] \in {"Locked", "Paid"}
        /\ team' = team /\ stranded' = stranded
    BY <1>4 DEF FlipOrder, StillAsRead, FromStatus
  <2>5. \A p \in Orders \ {o} : Pending(p, due)' <=> Pending(p, due)
    BY <1>1, <2>1, <2>3 DEF Pending, Flipped
  <2>6. CASE refund[c].path \in due
    <3>1. Flipped(c)'
      BY <2>3, <2>6 DEF Flipped, UpdatesTeam, Idle
    <3>2. PICK q \in Orders : q = o /\ Pending(q, due)'
      BY <2>2, <2>3, <2>6, <3>1 DEF Pending
    <3>3. \A p \in Orders : p \in Seats(x)' <=> p \in Seats(x)
      <4>1. q \in Seats(x)' <=> q \in Seats(x)
        <5>1. q \in Seats(x) <=> teamOf[q] = x
          BY <2>4, <3>2 DEF Seats
        <5>2. q \in Seats(x)' <=> teamOf[q] = x
          BY <1>1, <3>2 DEF Seats
        <5> QED
          BY <5>1, <5>2
      <4>2. \A p \in Orders \ {o} : p \in Seats(x)' <=> p \in Seats(x)
        BY <1>1, <2>4, <2>5 DEF Seats, TypeOK
      <4> QED
        BY <3>2, <4>1, <4>2
    <3> QED
      BY <1>1, <1>2, <2>4, <3>3, SeatsUntouched DEF StrandedIn, TypeOK
  <2>7. CASE refund[c].path \notin due
    <3>1. teamOf[o] # x
      BY <2>1, <2>7 DEF IInv, PathFits
    <3>2. \A p \in Orders : p \in Seats(x)' <=> p \in Seats(x)
      BY <1>1, <2>4, <2>5, <3>1 DEF Seats, TypeOK
    <3> QED
      BY <1>1, <1>2, <2>4, <3>2, SeatsUntouched DEF StrandedIn, TypeOK
  <2> QED
    BY <2>6, <2>7
<1>5. CASE Flipped(c) /\ ~Flipped(c)' /\ status' = status
  <2>1. /\ o \in Orders /\ refund[c].path \in {"unpaid", "paid", "paidTeam"}
        /\ status[o] \in {"Refunded", "deleted"} /\ teamOf[o] \in Teams /\ o \notin stranded
    BY <1>5, FlippedOrder
  <2>2. \A p \in Orders : Pending(p, due)' <=> Pending(p, due) /\ p # o
    BY <1>1, <1>5, PendingEnds
  <2>3. refund[c].path \in due => Pending(o, due)
    BY <1>5 DEF Pending
  <2>4. teamOf[o] = x => refund[c].path \in due
    BY <1>5 DEF IInv, PathFits, Flipped
  <2>5. CASE teamOf[o] = x
    <3>1. o \in Seats(x) /\ o \notin StrandedIn(x)
      BY <2>1, <2>3, <2>4, <2>5 DEF Seats, StrandedIn
    <3>2. Seats(x)' = Seats(x) \ {o}
      BY <1>1, <1>5, <2>1, <2>2 DEF Seats
    <3>3. CASE UpdateTeam(c)
      <4>1. team' = Bump(x, -1, CompleteDelta(refund[c].path)) /\ stranded' = stranded
        BY <2>4, <2>5, <3>3 DEF UpdateTeam, RefundTeamForming, RefundCompleteTeam
      <4>2. CompleteDelta(refund[c].path) \in Int
        BY DEF CompleteDelta
      <4>3. team'[x].lock = team[x].lock + (-1)
        BY <4>1, <4>2, BumpRow
      <4>4. team'[x].lock = team[x].lock - 1
        BY <4>3, RowType
      <4>5. StrandedIn(x)' = StrandedIn(x)
        BY <1>1, <4>1 DEF StrandedIn
      <4> QED
        BY <1>2, <3>1, <3>2, <4>4, <4>5, SeatsRecounted DEF SeatMove
    <3>4. CASE UpdateTeamFails(c) \/ AbandonRefund(c)
      <4>1. stranded' = stranded \union {o} /\ team' = team
        BY <1>5, <3>4 DEF UpdateTeamFails, AbandonRefund, Flipped
      <4>2. StrandedIn(x)' = StrandedIn(x) \union {o}
        BY <1>1, <2>5, <4>1 DEF StrandedIn
      <4> QED
        BY <1>2, <3>1, <3>2, <4>1, <4>2, SeatsRecounted DEF SeatMove
    <3> QED
      BY <1>5, <3>3, <3>4 DEF RefundStep, ReadForRefund, FlipOrder, LoseRace, FinishRefund,
        Flipped, Idle
  <2>6. CASE teamOf[o] # x
    <3>1. \A p \in Orders : p \in Seats(x)' <=> p \in Seats(x)
      BY <1>1, <1>5, <2>2, <2>6 DEF Seats
    <3>2. team'[x].lock = team[x].lock
      BY <2>1, <2>6 DEF RefundStep, ReadForRefund, FlipOrder, LoseRace, UpdateTeam, UpdateTeamFails,
        FinishRefund, AbandonRefund, RefundTeamForming, RefundCompleteTeam, Bump, TypeOK
    <3>3. stranded' = stranded \/ stranded' = stranded \union {o}
      BY DEF RefundStep, ReadForRefund, FlipOrder, LoseRace, UpdateTeam, UpdateTeamFails,
        FinishRefund, AbandonRefund
    <3>4. StrandedIn(x)' = StrandedIn(x) /\ stranded' \subseteq Orders
      BY <1>1, <2>1, <2>6, <3>3 DEF StrandedIn, TypeOK
    <3> QED
      BY <1>1, <1>2, <3>1, <3>2, <3>4, SeatsUntouched DEF TypeOK
  <2> QED
    BY <2>5, <2>6
<1>6. CASE /\ \/ \E q \in Orders : ReadForRefund(c, q)
              \/ LoseRace(c) \/ FinishRefund(c) \/ (AbandonRefund(c) /\ ~Flipped(c))
  <2>1. ~Flipped(c)
    BY <1>6 DEF ReadForRefund, LoseRace, FinishRefund, Flipped
  <2>2. ~Flipped(c)'
    BY <1>6 DEF ReadForRefund, LoseRace, FinishRefund, AbandonRefund, Flipped, TypeOK, Idle
  <2>3. UNCHANGED <<status, team, stranded>>
    BY <1>6, <2>1 DEF ReadForRefund, LoseRace, FinishRefund, AbandonRefund, Flipped
  <2> QED
    BY <1>3, <2>1, <2>2, <2>3
<1>7. CASE UpdateTeam(c) \/ UpdateTeamFails(c) \/ (AbandonRefund(c) /\ Flipped(c))
  <2>1. refund[c] # Idle /\ Flipped(c)
    BY <1>7 DEF UpdateTeam, UpdateTeamFails, Idle, Flipped
  <2>2. ~Flipped(c)' /\ status' = status
    BY <1>7, <2>1, RefundType DEF UpdateTeam, UpdateTeamFails, AbandonRefund, Idle, Flipped, TypeOK
  <2> QED
    BY <1>5, <2>1, <2>2
<1> QED
  BY <1>4, <1>6, <1>7 DEF RefundStep

\* lock_count follows the seats: up with an insert, down with a rollback or with
\* the second transaction of a refund.
LEMMA SeatsStep == IInv /\ [Next]_vars => \A t \in Teams : SeatsCounted(t)'
<1> SUFFICES ASSUME IInv, [Next]_vars, NEW x \in Teams, team'[x].status = "Forming"
             PROVE  SeatsCounted(x)'
  BY DEF SeatsCounted
<1> TypeOK
  BY DEF IInv
<1>1. CASE \E o \in Orders, n \in Targets : CreateTeamWithOrder(o, x, n)
  BY <1>1, SeatsOfNewTeam
<1>2. CASE team[x].status = "Forming"
  <2>1. ASSUME UNCHANGED <<teamOf, refund, stranded, doubled>>, team'[x].lock = team[x].lock,
               \A o \in Orders : teamOf[o] = x =>
                 (status'[o] \in {"Locked", "Paid"} <=> status[o] \in {"Locked", "Paid"})
        PROVE  SeatsCounted(x)'
    <3>1. \A p \in Orders : Pending(p, {"unpaid", "paid"})' <=> Pending(p, {"unpaid", "paid"})
      BY <2>1 DEF Pending, Flipped
    <3>2. Seats(x)' = Seats(x)
      BY <2>1, <3>1 DEF Seats
    <3>3. StrandedIn(x)' = StrandedIn(x) /\ DoubledIn(x)' = DoubledIn(x)
      BY <2>1 DEF StrandedIn, DoubledIn
    <3> QED
      BY <1>2, <2>1, <3>2, <3>3, SeatsRecounted DEF SeatMove
  <2>2. ASSUME NEW o \in Orders, NEW t \in Teams, NEW n \in Targets,
               CreateTeamWithOrder(o, t, n)
        PROVE  SeatsCounted(x)'
    <3>1. /\ status' = [status EXCEPT ![o] = "Locked"] /\ teamOf' = [teamOf EXCEPT ![o] = t]
          /\ status[o] = "none" /\ x # t /\ team'[x].lock = team[x].lock
          /\ UNCHANGED <<refund, stranded, doubled>>
      BY <1>2, <2>2 DEF CreateTeamWithOrder, Insert, TypeOK
    <3>2. o \notin stranded /\ o \notin doubled /\ ~Pending(o, {"unpaid", "paid"})
      <4>1. ASSUME NEW c \in Callers, Flipped(c), refund[c].ord = o PROVE FALSE
        BY <3>1, <4>1, FlippedOrder
      <4> QED
        BY <3>1, <4>1 DEF IInv, DriftsOnce, Pending
    <3>3. \A p \in Orders : Pending(p, {"unpaid", "paid"})' <=> Pending(p, {"unpaid", "paid"})
      BY <3>1 DEF Pending, Flipped
    <3>4. \A p \in Orders : p \in Seats(x)' <=> p \in Seats(x)
      BY <3>1, <3>2, <3>3 DEF Seats, TypeOK
    <3>5. StrandedIn(x)' = StrandedIn(x) /\ DoubledIn(x)' = DoubledIn(x)
      BY <3>1, <3>2 DEF StrandedIn, DoubledIn, TypeOK
    <3> QED
      BY <1>2, <3>1, <3>4, <3>5, SeatsUntouched DEF TypeOK
  <2>3. ASSUME NEW o \in Orders, NEW t \in Teams, JoinTeamWithOrder(o, t)
        PROVE  SeatsCounted(x)'
    BY <1>2, <2>3, SeatsJoin
  <2>4. ASSUME NEW o \in Orders, RollbackJoinTeam(o) \/ RollbackNewTeam(o)
        PROVE  SeatsCounted(x)'
    BY <1>2, <2>4, SeatsRollback
  <2>5. ASSUME NEW o \in Orders, SettleOrder(o) PROVE SeatsCounted(x)'
    <3>1. UNCHANGED <<teamOf, refund, stranded, doubled>>
      BY <2>5 DEF SettleOrder
    <3>2. team'[x].lock = team[x].lock
      BY <2>5 DEF SettleOrder, TypeOK, TeamRow
    <3>3. \A p \in Orders : status'[p] \in {"Locked", "Paid"} <=> status[p] \in {"Locked", "Paid"}
      BY <2>5 DEF SettleOrder, Settleable, TypeOK
    <3> QED
      BY <2>1, <3>1, <3>2, <3>3
  <2>6. ASSUME NEW c \in Callers, RefundStep(c) PROVE SeatsCounted(x)'
    BY <1>2, <2>6, SeatsRefund
  <2>7. CASE UNCHANGED <<status, teamOf, team, refund, stranded, doubled>>
    BY <2>1, <2>7
  <2> QED
    BY <2>2, <2>3, <2>4, <2>5, <2>6, <2>7 DEF Next, LockStep, vars, PaymentCreated, TeamExpires
<1> QED
  BY <1>1, <1>2, FormingBefore

-----------------------------------------------------------------------------
LEMMA IInvInit == Init => IInv
<1> SUFFICES ASSUME Init PROVE IInv
  OBVIOUS
<1> USE DEF Init, NoRow
<1>1. TypeOK
  BY DEF TypeOK, OrderStatus, TeamRow, TeamStatus, RefundState
<1>2. ASSUME NEW t \in Teams PROVE RowShape(t) /\ PaidCounted(t) /\ LockedCounted(t) /\ SeatsCounted(t)
  <2>1. PaidSeats(t) = {}
    BY DEF PaidSeats, Pending, Flipped
  <2>2. team[t].complete = 0
    OBVIOUS
  <2>3. PaidCounted(t)
    BY <2>1, <2>2, FS_EmptySet DEF PaidCounted
  <2> QED
    BY <2>3 DEF RowShape, LockedCounted, SeatsCounted
<1>3. ASSUME NEW o \in Orders PROVE InsertedInTeam(o) /\ Untouched(o) /\ DriftsOnce(o)
  BY DEF InsertedInTeam, Untouched, DriftsOnce
<1>4. ASSUME NEW c \in Callers PROVE FlippedAlone(c) /\ RefundsARow(c) /\ PathFits(c)
  BY DEF FlippedAlone, RefundsARow, PathFits, Flipped
<1> QED
  BY <1>1, <1>2, <1>3, <1>4 DEF IInv

LEMMA IInvStep == IInv /\ [Next]_vars => IInv'
  BY TypeStep, RowStep, OrderStep, CallerStep, CountedStep, LockedStep, SeatsStep, DriftStep,
    PathStep DEF IInv

\* The inductive invariant holds in every reachable state: whatever refunds,
\* rollbacks and crashes do, complete_count never misses a member that paid.
THEOREM Invariance == Spec => []IInv
  BY IInvInit, IInvStep, PTL DEF Spec

\* Type correctness; with it, that lock_count and complete_count never go
\* below zero.
THEOREM TypeCorrect == Spec => []TypeOK
<1>1. IInv => TypeOK
  BY DEF IInv
<1> QED
  BY <1>1, Invariance, PTL

\* lock_count accounts for the seats of a forming team, but for the refunds that
\* were cut off and the refunded orders that a rollback gave back once more.
THEOREM SeatsAccountedFor == Spec => []SeatsAccounted
<1>1. IInv => SeatsAccounted
  BY DEF IInv, SeatsAccounted
<1> QED
  BY <1>1, Invariance, PTL

\* The counters of a team stay within its target, and a forming team still
\* lacks a member.
THEOREM CountersStayBounded == Spec => []CountersBounded
<1>1. IInv => CountersBounded
  <2> SUFFICES ASSUME IInv, NEW t \in Teams, Exists(t)
               PROVE  /\ team[t].lock <= team[t].target
                      /\ team[t].complete <= team[t].target
                      /\ team[t].status = "Forming" => team[t].complete < team[t].target
    BY DEF CountersBounded
  <2>1. team[t].status \in {"Forming", "Complete", "CompleteRefunded", "Failed"}
    BY RowType DEF IInv, Exists, TeamStatus
  <2> QED
    BY <2>1 DEF IInv, RowShape
<1> QED
  BY <1>1, Invariance, PTL

\* Each member that paid is counted, and the count stays within the target.
LEMMA PaidBounded == IInv => PaidWithinTarget
<1> SUFFICES ASSUME IInv, NEW t \in Teams
             PROVE  Cardinality(PaidIn(t)) <= team[t].target
  BY DEF PaidWithinTarget
<1>1. /\ Cardinality(PaidIn(t)) <= Cardinality(PaidSeats(t))
      /\ Cardinality(PaidIn(t)) \in Nat /\ Cardinality(PaidSeats(t)) \in Nat
  BY SeatsFinite
<1>2. team[t].complete \in Nat /\ team[t].target \in Nat
  BY RowType DEF IInv
<1>3. Cardinality(PaidSeats(t)) <= team[t].complete /\ team[t].complete <= team[t].target
  BY DEF IInv, PaidCounted, RowShape
<1> QED
  BY <1>1, <1>2, <1>3

LEMMA FailedEmpty == IInv => FailedTeamOwesNothing
<1> SUFFICES ASSUME IInv, NEW t \in Teams, team[t].status = "Failed"
             PROVE  PaidIn(t) = {}
  BY DEF FailedTeamOwesNothing
<1>1. /\ Cardinality(PaidIn(t)) <= Cardinality(PaidSeats(t))
      /\ Cardinality(PaidIn(t)) \in Nat /\ Cardinality(PaidSeats(t)) \in Nat
      /\ IsFiniteSet(PaidIn(t))
  BY SeatsFinite
<1>2. Cardinality(PaidSeats(t)) <= 0
  BY DEF IInv, PaidCounted, RowShape
<1>3. Cardinality(PaidIn(t)) = 0
  BY <1>1, <1>2
<1> QED
  BY <1>1, <1>3, FS_EmptySet

\* No team is oversold: the members that have paid never outnumber its
\* target, for any number of orders and of concurrent refunds.
THEOREM NoOversell == Spec => []PaidWithinTarget
  BY PaidBounded, Invariance, PTL

\* A team that failed owes nobody money: the last refund of a complete team
\* is the one that fails it.
THEOREM FailedOwesNothing == Spec => []FailedTeamOwesNothing
  BY FailedEmpty, Invariance, PTL

LEMMA Forward == IInv /\ [Next]_vars => [MovesForward]_vars
  BY OrderMoves DEF OrderMove, MovesForward

\* Orders only move forward: a refunded order is never settled, a paid one
\* never unlocked, a rolled back one never returns.
THEOREM ForwardOnly == Spec => OrderForwardOnly
  BY Forward, Invariance, PTL DEF Spec, OrderForwardOnly

\* Only a settlement completes a forming team.
LEMMA CompletedBySettling ==
  ASSUME IInv, [Next]_vars, NEW t \in Teams,
         team[t].status = "Forming", team'[t].status = "Complete"
  PROVE  \E o \in Orders : SettleOrder(o) /\ teamOf[o] = t /\ Completes(t)
<1> TypeOK
  BY DEF IInv
<1>1. ASSUME NEW x \in Teams, NEW i \in Int, NEW j \in Int, team' = Bump(x, i, j) PROVE FALSE
  BY <1>1, BumpRow
<1>2. ASSUME NEW o \in Orders, NEW x \in Teams, NEW n \in Targets, CreateTeamWithOrder(o, x, n)
      PROVE  FALSE
  BY <1>2 DEF CreateTeamWithOrder, TypeOK
<1>3. ASSUME NEW o \in Orders, NEW x \in Teams, JoinTeamWithOrder(o, x) PROVE FALSE
  BY <1>1, <1>3 DEF JoinTeamWithOrder
<1>4. ASSUME NEW o \in Orders, RollbackNewTeam(o) PROVE FALSE
  BY <1>4 DEF RollbackNewTeam, TypeOK, TeamRow
<1>5. ASSUME NEW o \in Orders, RollbackJoinTeam(o) PROVE FALSE
  <2>1. teamOf[o] \in Teams
    BY <1>5, KnownTeam DEF RollbackJoinTeam
  <2> QED
    BY <1>1, <1>5, <2>1 DEF RollbackJoinTeam
<1>6. ASSUME NEW c \in Callers, UpdateTeam(c) PROVE FALSE
  <2>1. teamOf[refund[c].ord] \in Teams
    BY <1>6, KnownTeam, RefundType DEF IInv, RefundsARow, UpdateTeam, Idle
  <2>2. CASE RefundTeamForming(c)
    BY <1>1, <2>1, <2>2 DEF RefundTeamForming, CompleteDelta
  <2>3. CASE RefundCompleteTeam(c)
    BY <2>3 DEF RefundCompleteTeam, TypeOK, TeamRow
  <2> QED
    BY <1>6, <2>2, <2>3 DEF UpdateTeam
<1>7. ASSUME NEW o \in Orders, SettleOrder(o) PROVE teamOf[o] = t /\ Completes(t)
  BY <1>7 DEF SettleOrder, TypeOK, TeamRow
<1> QED
  BY <1>2, <1>3, <1>4, <1>5, <1>6, <1>7
  DEF Next, LockStep, RefundStep, vars, PaymentCreated, TeamExpires, ReadForRefund, FlipOrder,
      LoseRace, UpdateTeamFails, FinishRefund, AbandonRefund

LEMMA CompletedFull == IInv /\ [Next]_vars => [CompletesFull]_vars
<1>1. ASSUME IInv, [Next]_vars, NEW t \in Teams,
             team[t].status = "Forming", team'[t].status = "Complete", ~RolledBack(t),
             NEW p \in Orders, teamOf[p] = t, status'[p] = "Locked"
      PROVE  FALSE
  <2>1. PICK o \in Orders : SettleOrder(o) /\ teamOf[o] = t /\ Completes(t)
    BY <1>1, CompletedBySettling
  <2>2. /\ p # o /\ status[p] = "Locked" /\ status[o] = "Locked"
    BY <1>1, <2>1 DEF SettleOrder, Settleable, IInv, TypeOK
  <2>3. {o, p} \in SUBSET LockedSeats(t)
    BY <1>1, <2>1, <2>2 DEF LockedSeats
  <2>4. /\ IsFiniteSet(LockedSeats(t)) /\ Cardinality(LockedSeats(t)) \in Nat
        /\ Cardinality({o, p}) <= Cardinality(LockedSeats(t))
    BY <2>3, LockedFinite, FS_Subset
  <2>5. Cardinality({o, p}) = 2
    <3>1. IsFiniteSet({o}) /\ Cardinality({o}) = 1 /\ p \notin {o} /\ {o, p} = {o} \union {p}
      BY <2>2, FS_Singleton
    <3>2. Cardinality({o} \union {p}) = Cardinality({o}) + 1
      BY <3>1, FS_AddElement
    <3> QED
      BY <3>1, <3>2
  <2>6. Cardinality(LockedSeats(t)) + team[t].complete <= team[t].lock
    BY <1>1 DEF IInv, LockedCounted
  <2>7. /\ team[t].lock <= team[t].target /\ team[t].complete + 1 >= team[t].target
    BY <1>1, <2>1 DEF IInv, RowShape, Completes
  <2>8. team[t].lock \in Nat /\ team[t].complete \in Nat /\ team[t].target \in Nat
    BY RowType, <1>1 DEF IInv
  <2> QED
    BY <2>4, <2>5, <2>6, <2>7, <2>8
<1> QED
  BY <1>1 DEF CompletesFull

\* A team completes with nobody left locked in it, unless one of its orders
\* was rolled back: the last unpaid seat is that of the order being settled.
THEOREM NobodyLeftLocked == Spec => CompletionLeavesNobody
  BY CompletedFull, Invariance, PTL DEF Spec, CompletionLeavesNobody

-----------------------------------------------------------------------------
(* The tables implement GroupBuy.                                          *)

life  == [o \in Orders |-> Life(o)]
phase == [t \in Teams |-> Phase(t)]
size  == [t \in Teams |-> team[t].target]

\* A step that changes one order's place in its life.
LEMMA LifeStep ==
  ASSUME TypeOK, NEW o \in Orders, NEW s, status' = [status EXCEPT ![o] = s]
  PROVE  life' = [life EXCEPT ![o] = IF s \in {"Refunded", "deleted"} THEN "gone" ELSE s]
  BY DEF TypeOK, life, Life

\* A step that keeps every team's status and target shows its members nothing.
LEMMA PhaseKept ==
  ASSUME \A t \in Teams : /\ team'[t].status = team[t].status
                          /\ team'[t].target = team[t].target
  PROVE  phase' = phase /\ size' = size
  BY DEF phase, Phase, size

LEMMA BumpKeepsStatus ==
  ASSUME TypeOK, NEW t \in Teams, NEW i \in Int, NEW j \in Int, NEW x \in Teams
  PROVE  /\ Bump(t, i, j)[x].status = team[x].status
         /\ Bump(t, i, j)[x].target = team[x].target
  BY BumpRow, SMTT(20)

LEMMA BumpKeepsPhase ==
  ASSUME TypeOK, NEW t \in Teams, NEW i \in Int, NEW j \in Int, team' = Bump(t, i, j)
  PROVE  phase' = phase /\ size' = size
<1>1. \A x \in Teams : /\ Bump(t, i, j)[x].status = team[x].status
                       /\ Bump(t, i, j)[x].target = team[x].target
  BY BumpKeepsStatus
<1> QED
  BY <1>1, PhaseKept

\* Every step of the tables is a step of GroupBuy, or one its members do not see.
LEMMA Simulation ==
  IInv /\ [Next]_vars => [GB!Next]_(GB!gbvars)
<1> SUFFICES ASSUME IInv, [Next]_vars PROVE [GB!Next]_(GB!gbvars)
  OBVIOUS
<1> TypeOK
  BY DEF IInv
<1> USE DEF GB!gbvars
<1>1. ASSUME NEW o \in Orders, NEW t \in Teams, NEW n \in Targets,
             CreateTeamWithOrder(o, t, n)
      PROVE  [GB!Next]_(GB!gbvars)
  <2>1. life' = [life EXCEPT ![o] = "Locked"] /\ life[o] = "none"
    BY <1>1, LifeStep DEF CreateTeamWithOrder, Insert, life, Life
  <2>2. phase[t] = "none" /\ phase' = [phase EXCEPT ![t] = "Forming"]
    BY <1>1 DEF CreateTeamWithOrder, phase, Phase, TypeOK
  <2>3. size' = [size EXCEPT ![t] = n]
    BY <1>1 DEF CreateTeamWithOrder, size, TypeOK
  <2>4. GB!Open(o, t, n)
    BY <1>1, <2>1, <2>2, <2>3
    DEF GB!Open, GB!Admit, CreateTeamWithOrder, Insert, life, phase, size
  <2> QED
    BY <2>4 DEF GB!Next
<1>2. ASSUME NEW o \in Orders, NEW t \in Teams, JoinTeamWithOrder(o, t)
      PROVE  [GB!Next]_(GB!gbvars)
  <2>1. life' = [life EXCEPT ![o] = "Locked"] /\ life[o] = "none"
    BY <1>2, LifeStep DEF JoinTeamWithOrder, Insert, life, Life
  <2>2. phase' = phase /\ size' = size
    BY <1>2, BumpKeepsPhase DEF JoinTeamWithOrder
  <2>3. phase[t] \in {"Forming", "Complete", "Failed"}
    BY <1>2, RowType DEF JoinTeamWithOrder, Exists, phase, Phase, TeamStatus
  <2>4. GB!Join(o, t)
    BY <1>2, <2>1, <2>2, <2>3 DEF GB!Join, GB!Admit, JoinTeamWithOrder, Insert, life, phase, size
  <2> QED
    BY <2>4 DEF GB!Next
<1>3. ASSUME NEW o \in Orders, RollbackNewTeam(o) PROVE [GB!Next]_(GB!gbvars)
  <2> DEFINE t == teamOf[o]
  <2>1. t \in Teams /\ status[o] # "none"
    BY <1>3, KnownTeam DEF RollbackNewTeam
  <2>2. life' = [life EXCEPT ![o] = "gone"] /\ life[o] # "none"
    BY <1>3, <2>1, LifeStep DEF RollbackNewTeam, DeleteOrder, life, Life
  <2>3. phase' = [phase EXCEPT ![t] = "deleted"] /\ size' = size
    BY <1>3, <2>1 DEF RollbackNewTeam, phase, Phase, size, TypeOK, TeamRow
  <2>4. GB!Undo(o)
    BY <1>3, <2>2, <2>3 DEF GB!Undo, RollbackNewTeam, DeleteOrder, life, phase, size
  <2> QED
    BY <2>4 DEF GB!Next
<1>4. ASSUME NEW o \in Orders, RollbackJoinTeam(o) PROVE [GB!Next]_(GB!gbvars)
  <2> DEFINE t == teamOf[o]
  <2>1. t \in Teams /\ status[o] # "none"
    BY <1>4, KnownTeam DEF RollbackJoinTeam
  <2>2. life' = [life EXCEPT ![o] = "gone"] /\ teamOf' = teamOf
    BY <1>4, LifeStep DEF RollbackJoinTeam, DeleteOrder
  <2>3. phase' = phase /\ size' = size
    <3>1. CASE team' = team
      BY <3>1, PhaseKept
    <3>2. CASE team' = Bump(t, -1, 0)
      <4> HIDE DEF t
      <4> QED
        BY <2>1, <3>2, BumpKeepsPhase
    <3> QED
      BY <1>4, <3>1, <3>2 DEF RollbackJoinTeam
  <2>4. CASE status[o] \in {"Locked", "Paid"}
    <3>1. life[o] \in {"Locked", "Paid"}
      BY <2>4 DEF life, Life
    <3>2. GB!Leave(o)
      BY <2>2, <2>3, <3>1 DEF GB!Leave, life, phase, size
    <3> QED
      BY <3>2 DEF GB!Next
  <2>5. CASE status[o] \in {"Refunded", "deleted"}
    <3>1. life' = life
      BY <2>2, <2>5 DEF life, Life
    <3> QED
      BY <2>2, <2>3, <3>1 DEF life, phase, size
  <2> QED
    BY <2>1, <2>4, <2>5 DEF TypeOK, OrderStatus
<1>5. ASSUME NEW o \in Orders, SettleOrder(o) PROVE [GB!Next]_(GB!gbvars)
  <2> DEFINE t == teamOf[o]
  <2>1. t \in Teams
    BY <1>5, KnownTeam DEF SettleOrder, Settleable
  <2>2. life' = [life EXCEPT ![o] = "Paid"] /\ life[o] = "Locked"
    BY <1>5, LifeStep DEF SettleOrder, Settleable, life, Life
  <2>3. phase[t] = "Forming" /\ team[t].status = "Forming"
    BY <1>5, <2>1 DEF SettleOrder, TakesPayment, phase, Phase
  <2>4. size' = size
    BY <1>5, <2>1 DEF SettleOrder, size, TypeOK, TeamRow
  <2>5. PICK s \in {"Forming", "Complete"} :
          team' = [team EXCEPT ![t].complete = @ + 1, ![t].status = s]
    BY <1>5, <2>3 DEF SettleOrder
  <2>6. phase' = [phase EXCEPT ![t] = s]
    BY <2>1, <2>5 DEF phase, Phase, TypeOK, TeamRow
  <2>7. Cardinality(PaidIn(t)) < size[t]
    <3>1. /\ Cardinality(PaidIn(t)) <= Cardinality(PaidSeats(t))
          /\ Cardinality(PaidIn(t)) \in Nat /\ Cardinality(PaidSeats(t)) \in Nat
      BY SeatsFinite
    <3>2. team[t].complete \in Nat /\ team[t].target \in Nat
      BY <2>1, RowType
    <3>3. Cardinality(PaidSeats(t)) <= team[t].complete /\ team[t].complete < team[t].target
      BY <2>1, <2>3 DEF IInv, PaidCounted, RowShape
    <3>4. size[t] = team[t].target
      BY <2>1 DEF size
    <3> HIDE DEF t
    <3> QED
      BY <3>1, <3>2, <3>3, <3>4
  <2>8. GB!Members(t) = PaidIn(t)
    BY DEF GB!Members, PaidIn, Life
  <2>9. GB!Pay(o)
    <3>1. teamOf' = teamOf
      BY <1>5 DEF SettleOrder
    <3>2. \E p \in {"Forming", "Complete"} : phase' = [phase EXCEPT ![t] = p]
      BY <2>6
    <3>3. life[o] = "Locked" /\ phase[teamOf[o]] = "Forming"
      BY <2>2, <2>3
    <3>4. GB!Cardinality(GB!Members(teamOf[o])) < size[teamOf[o]]
      <4>1. GB!Cardinality(PaidIn(t)) = Cardinality(PaidIn(t))
        BY DEF GB!Cardinality, Cardinality
      <4> QED
        BY <2>7, <2>8, <4>1
    <3>5. life' = [life EXCEPT ![o] = "Paid"] /\ size' = size
      BY <2>2, <2>4
    <3> QED
      BY <3>1, <3>2, <3>3, <3>4, <3>5 DEF GB!Pay, life, phase, size
  <2> QED
    BY <2>9 DEF GB!Next
<1>6. ASSUME NEW c \in Callers, FlipOrder(c) PROVE [GB!Next]_(GB!gbvars)
  <2> DEFINE o == refund[c].ord
  <2>1. o \in Orders
    BY <1>6, RefundType DEF FlipOrder, Idle
  <2>2. life' = [life EXCEPT ![o] = "gone"] /\ life[o] \in {"Locked", "Paid"}
    BY <1>6, <2>1, LifeStep DEF FlipOrder, StillAsRead, FromStatus, life, Life
  <2>3. GB!Leave(o)
    BY <1>6, <2>2 DEF GB!Leave, FlipOrder, life, Phase
  <2> QED
    BY <2>1, <2>3 DEF GB!Next
<1>7. ASSUME NEW c \in Callers, UpdateTeam(c) PROVE [GB!Next]_(GB!gbvars)
  <2> DEFINE o == refund[c].ord
             t == teamOf[o]
  <2>1. refund[c] # Idle /\ Flipped(c)
    BY <1>7 DEF UpdateTeam, Idle, Flipped
  <2>2. refund[c] \in [at : {"read", "flipped", "tail"}, ord : Orders, path : Paths]
    BY <2>1, RefundType
  <2>3. t \in Teams
    BY <2>1, <2>2, KnownTeam DEF IInv, RefundsARow
  <2>4. life' = life /\ teamOf' = teamOf
    BY <1>7 DEF UpdateTeam, life, Life
  <2>5. ASSUME RefundTeamForming(c) PROVE [GB!Next]_(GB!gbvars)
    <3>1. /\ team' = Bump(t, -1, CompleteDelta(refund[c].path))
          /\ CompleteDelta(refund[c].path) \in Int
      BY <2>5 DEF RefundTeamForming, CompleteDelta
    <3>2. phase' = phase /\ size' = size
      <4> HIDE DEF t
      <4> QED
        BY <2>3, <3>1, BumpKeepsPhase
    <3> QED
      BY <2>4, <3>2 DEF life, phase, size
  <2>6. ASSUME RefundCompleteTeam(c) PROVE [GB!Next]_(GB!gbvars)
    <3>1. size' = size
      BY <2>6, <2>3 DEF RefundCompleteTeam, size, TypeOK, TeamRow
    <3>2. phase[t] = "Complete"
      BY <2>6, <2>3 DEF RefundCompleteTeam, phase, Phase
    <3>3. CASE ~DissolvesAt(team[t].complete - 1)
      <4>1. phase' = phase
        BY <2>6, <2>3, <3>2, <3>3 DEF RefundCompleteTeam, phase, Phase, TypeOK, TeamRow
      <4> QED
        BY <2>4, <3>1, <4>1 DEF life, phase, size
    <3>4. CASE DissolvesAt(team[t].complete - 1)
      <4>1. phase' = [phase EXCEPT ![t] = "Failed"]
        BY <2>6, <2>3, <3>2, <3>4 DEF RefundCompleteTeam, phase, Phase, TypeOK, TeamRow
      <4>2. /\ IsFiniteSet(PaidSeats(t)) /\ Cardinality(PaidSeats(t)) \in Nat
            /\ Cardinality(PaidSeats(t)) <= 1
        <5>1. team[t].complete \in Nat /\ team[t].complete - 1 <= 0
          BY <2>3, <3>4, RowType DEF DissolvesAt
        <5>2. Cardinality(PaidSeats(t)) <= team[t].complete
          BY <2>3 DEF IInv, PaidCounted
        <5> HIDE DEF t
        <5> QED
          BY <5>1, <5>2, SeatsFinite
      <4>3. PaidIn(t) = {}
        <5>1. o \in PaidSeats(t)
          BY <2>1, <2>2, <2>6 DEF RefundCompleteTeam, PaidSeats, Pending
        <5>2. status[o] # "Paid"
          BY <2>1 DEF IInv, FlippedAlone
        <5>3. PaidIn(t) \in SUBSET (PaidSeats(t) \ {o})
          BY <5>2 DEF PaidIn, PaidSeats
        <5> HIDE DEF o, t
        <5>4. IsFiniteSet(PaidSeats(t) \ {o}) /\ Cardinality(PaidSeats(t) \ {o}) = 0
          <6>1. /\ IsFiniteSet(PaidSeats(t) \ {o})
                /\ Cardinality(PaidSeats(t) \ {o}) = Cardinality(PaidSeats(t)) - 1
            BY <4>2, <5>1, FS_RemoveElement
          <6>2. Cardinality(PaidSeats(t) \ {o}) \in Nat
            BY <6>1, FS_CardinalityType
          <6> QED
            BY <4>2, <6>1, <6>2
        <5>5. PaidSeats(t) \ {o} = {}
          BY <5>4, FS_EmptySet
        <5> QED
          BY <5>3, <5>5
      <4>4. GB!Members(t) = PaidIn(t)
        BY DEF GB!Members, PaidIn, Life
      <4>5. GB!Dissolve(t)
        BY <2>4, <3>1, <3>2, <4>1, <4>3, <4>4 DEF GB!Dissolve, life, phase, size
      <4> QED
        BY <2>3, <4>5 DEF GB!Next
    <3> QED
      BY <3>3, <3>4
  <2> QED
    BY <1>7, <2>5, <2>6 DEF UpdateTeam
<1>8. ASSUME status' = status, teamOf' = teamOf, team' = team PROVE [GB!Next]_(GB!gbvars)
  BY <1>8 DEF Life, Phase
<1> QED
  BY <1>1, <1>2, <1>3, <1>4, <1>5, <1>6, <1>7, <1>8
  DEF Next, LockStep, RefundStep, vars, PaymentCreated, TeamExpires,
      ReadForRefund, LoseRace, UpdateTeamFails, FinishRefund, AbandonRefund

LEMMA AbstractInit == Init => GB!Init
  BY DEF Init, GB!Init, Life, Phase, NoRow

\* Refinement: every behaviour of the tables is a group purchase as GroupBuy
\* describes it.
THEOREM Refinement == Spec => ImplementsGroupBuy
  BY AbstractInit, Simulation, Invariance, PTL DEF Spec, ImplementsGroupBuy, GB!Spec
=============================================================================
