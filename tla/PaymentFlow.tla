---------------------------- MODULE PaymentFlow ----------------------------
(***************************************************************************)
(* The money of an order: the payments row, the payment_logs row that      *)
(* deduplicates callbacks, the trade at the gateway, and the calls that    *)
(* race for them: Alipay's callback, the payment page that polls, the      *)
(* settlement endpoint, refunds asked for by the user, and the sweep of    *)
(* orders whose payment is overdue (internal/handler/pay.go,               *)
(* internal/service/settlement.go, refund.go, timeout.go).                 *)
(*                                                                         *)
(* Each action is one statement or one gateway request. A flag that an     *)
(* administrator may turn at any time says which gateway answers, the mock *)
(* or the real one (internal/pay/dynamic_gateway.go), while what becomes   *)
(* of a payment later also depends on the gateway that created it.         *)
(*                                                                         *)
(* Of the order's team and activity there is only whether their rows are   *)
(* there: both may be deleted while the order stays. Else a settlement may *)
(* be refused at any time, and TeamLedger says when a team refuses it. A   *)
(* direct purchase, which has no team, takes the steps of an order whose   *)
(* rows stay. An order that is Locked in a Complete team, for which        *)
(* Refund() has no path, is TimeoutScan's subject.                         *)
(***************************************************************************)
EXTENDS Naturals

CONSTANTS
  Orders,
  Handlers,    \* goroutines serving requests and messages
  Sweeper,     \* the one scanner that holds the scan lock
  Flags        \* values that feature.use_mock_payment takes

ASSUME PaymentAssumption ==
  /\ Sweeper \notin Handlers
  /\ Flags \subseteq BOOLEAN

VARIABLES
  useMock,     \* feature.use_mock_payment
  mock,        \* orders whose payments.trade_no says MOCK_
  order,       \* orders.status
  payment,     \* payments.status
  trade,       \* the trade at the real gateway, if that created the payment
  logged,      \* callbacks whose notify_id is in payment_logs
  acked,       \* callbacks answered "success", which are not sent again
  due,         \* the payment is overdue: five minutes, or the team expired
  rows,        \* are the rows there of the order's team and of its activity?
  call,        \* where each goroutine stands
  settled,     \* history: orders that were Paid at some time
  cutOff,      \* history: orders whose refund stopped after the gateway paid back
  skipped,     \* history: orders whose refund did not find the payments row
  misrouted    \* history: trades at the real gateway for which the mock answered

history == <<settled, cutOff, skipped, misrouted>>
vars    == <<useMock, mock, order, payment, trade, logged, acked, due, rows, call, history>>

-----------------------------------------------------------------------------
Callers == Handlers \union {Sweeper}
Kinds   == {"notify", "poll", "post", "refund", "sweep"}
Steps   == {"log", "query", "complete", "mark", "markMock", "settle",
            "read", "check", "payback", "flip", "close"}
Idle    == [at |-> "idle"]

\* The gateway that the flag named when the order was locked made the payment.
Init ==
  /\ useMock \in Flags
  /\ mock \in SUBSET Orders
  /\ order   = [o \in Orders |-> "Locked"]
  /\ payment = [o \in Orders |-> "Pending"]
  /\ trade   = [o \in Orders |-> IF o \in mock THEN "none" ELSE "waiting"]
  /\ logged  = {}
  /\ acked   = {}
  /\ due     = {}
  /\ rows    = [o \in Orders |-> "whole"]
  /\ call    = [c \in Callers |-> Idle]
  /\ settled = {}
  /\ cutOff  = {}
  /\ skipped = {}
  /\ misrouted = {}

Begin(c, kind, o, at) ==
  /\ call[c] = Idle
  /\ call' = [call EXCEPT ![c] = [at |-> at, kind |-> kind, ord |-> o, read |-> ""]]

At(c, kinds, at) == call[c] # Idle /\ call[c].at = at /\ call[c].kind \in kinds

Goto(c, at) == call' = [call EXCEPT ![c].at = at]

Return(c) == call' = [call EXCEPT ![c] = Idle]

-----------------------------------------------------------------------------
(* The gateway and the clock.                                              *)

\* The QR code stays payable: closing the payment does not close the trade.
UserPays(o) ==
  /\ trade[o] = "waiting"
  /\ trade' = [trade EXCEPT ![o] = "captured"]
  /\ UNCHANGED <<useMock, mock, order, payment, logged, acked, due, rows, call, history>>

\* The order is five minutes old, or its team or activity has ended.
TimePasses(o) ==
  /\ o \notin due
  /\ due' = due \union {o}
  /\ UNCHANGED <<useMock, mock, order, payment, trade, logged, acked, rows, call, history>>

\* The Lock() of the order's opener gets no payment and deletes the team, also
\* when others have joined it (RollbackNewTeam).
TeamRemoved(o) ==
  /\ rows' = [rows EXCEPT ![o] = "noTeam"]
  /\ UNCHANGED <<useMock, mock, order, payment, trade, logged, acked, due, call, history>>

\* An administrator deletes the activity, or makes a new one of that id.
ActivityRemoved(o) ==
  /\ rows[o] = "whole"
  /\ rows' = [rows EXCEPT ![o] = "noActivity"]
  /\ UNCHANGED <<useMock, mock, order, payment, trade, logged, acked, due, call, history>>

ActivityCreated(o) ==
  /\ rows[o] = "noActivity"
  /\ rows' = [rows EXCEPT ![o] = "whole"]
  /\ UNCHANGED <<useMock, mock, order, payment, trade, logged, acked, due, call, history>>

RowsMove(o) == TeamRemoved(o) \/ ActivityRemoved(o) \/ ActivityCreated(o)

\* An administrator turns the flag.
SwitchGateway ==
  /\ useMock' \in Flags \ {useMock}
  /\ UNCHANGED <<mock, order, payment, trade, logged, acked, due, rows, call, history>>

-----------------------------------------------------------------------------
(* Notify, GetPayment and the settlement endpoint.                         *)

\* Alipay sends the callback of a trade until it is answered "success". A
\* notify_id that is logged is answered so at once.
NotifyArrives(c, o) ==
  /\ trade[o] \in {"captured", "returned"}
  /\ o \notin acked
  /\ ~useMock
  /\ IF o \in logged
     THEN call[c] = Idle /\ acked' = acked \union {o} /\ UNCHANGED call
     ELSE Begin(c, "notify", o, "log") /\ UNCHANGED acked
  /\ UNCHANGED <<useMock, mock, order, payment, trade, logged, due, rows, history>>

\* The mock gateway can not read Alipay's callback: all of them look to it like
\* one, of an order that does not exist. The first is logged and answered
\* "fail", the others are its duplicates and are answered "success".
NotifyMistaken(o) ==
  /\ trade[o] \in {"captured", "returned"}
  /\ o \notin acked
  /\ useMock
  /\ acked' = acked \union {o}
  /\ misrouted' = misrouted \union {o}
  /\ UNCHANGED <<useMock, mock, order, payment, trade, logged, due, rows, call,
                 settled, cutOff, skipped>>

\* Best effort: neither a duplicate nor an error is an obstacle.
RecordLog(c) ==
  /\ At(c, {"notify"}, "log")
  /\ logged' \in {logged, logged \union {call[c].ord}}
  /\ Goto(c, "mark")
  /\ UNCHANGED <<useMock, mock, order, payment, trade, acked, due, rows, history>>

\* The payment page polls while the row is Pending. A mock payment completes
\* by being looked at; for a real one the gateway is asked.
PollArrives(c, o) ==
  /\ payment[o] = "Pending"
  /\ Begin(c, "poll", o, IF o \in mock THEN "complete" ELSE "query")
  /\ UNCHANGED <<useMock, mock, order, payment, trade, logged, acked, due, rows, history>>

TradeExists(o) == TRUE

\* TRADE_SUCCESS, which ends when the trade is refunded.
TradeSuccess(o) == trade[o] = "captured"

QueryOrder(c) ==
  /\ At(c, {"poll"}, "query")
  /\ ~useMock
  /\ IF TradeSuccess(call[c].ord) THEN Goto(c, "mark") ELSE Return(c)
  /\ UNCHANGED <<useMock, mock, order, payment, trade, logged, acked, due, rows, history>>

\* The mock says of every order that it is paid.
QueryMock(c) ==
  /\ At(c, {"poll"}, "query")
  /\ useMock
  /\ Goto(c, "markMock")
  /\ misrouted' = misrouted \union {call[c].ord}
  /\ UNCHANGED <<useMock, mock, order, payment, trade, logged, acked, due, rows,
                 settled, cutOff, skipped>>

\* POST /trade/settlement settles on the caller's word.
PostArrives(c, o) ==
  /\ Begin(c, "post", o, "settle")
  /\ UNCHANGED <<useMock, mock, order, payment, trade, logged, acked, due, rows, history>>

\* WHERE status = Pending; the trade_no becomes the one that was answered. No
\* row matched, or an error, stops only the completion of a mock payment.
UpdatePaymentPaid(c) ==
  LET o == call[c].ord IN
  /\ At(c, {"notify", "poll"}, call[c].at) /\ call[c].at \in {"complete", "mark", "markMock"}
  /\ payment' \in {payment, [payment EXCEPT ![o] = IF @ = "Pending" THEN "Paid" ELSE @]}
  /\ mock' = IF call[c].at = "markMock" /\ payment' # payment THEN mock \union {o} ELSE mock
  /\ IF call[c].at = "complete" /\ payment' = payment THEN Return(c) ELSE Goto(c, "settle")
  /\ UNCHANGED <<useMock, order, trade, logged, acked, due, rows, history>>

SettleableAnyStatus(o) == order[o] \in {"Locked", "Refunded"}

\* The status check, which the UPDATE repeats.
Settleable(o) == order[o] = "Locked"

\* Settled, for which the team is looked up, or found settled: a callback is
\* answered "success".
SettleOrder(c) ==
  LET o == call[c].ord IN
  /\ At(c, {"notify", "poll", "post"}, "settle")
  /\ (Settleable(o) /\ rows[o] # "noTeam") \/ order[o] = "Paid"
  /\ order' = [order EXCEPT ![o] = "Paid"]
  /\ settled' = settled \union {o}
  /\ acked' = IF call[c].kind = "notify" THEN acked \union {o} ELSE acked
  /\ Return(c)
  /\ UNCHANGED <<useMock, mock, payment, trade, logged, due, rows, cutOff, skipped, misrouted>>

\* Wrong state, a team that takes no payments, purchase limit, or an error: a
\* callback is answered "fail", and Alipay will send it again.
SettleFails(c) ==
  /\ At(c, {"notify", "poll", "post"}, "settle")
  /\ Return(c)
  /\ UNCHANGED <<useMock, mock, order, payment, trade, logged, acked, due, rows, history>>

-----------------------------------------------------------------------------
(* Refund().                                                               *)

\* A user asks.
RefundArrives(c, o) ==
  /\ Begin(c, "refund", o, "read")
  /\ UNCHANGED <<useMock, mock, order, payment, trade, logged, acked, due, rows, history>>

TimedOutUnpaid(o) == order[o] = "Locked" /\ o \in due /\ payment[o] = "Pending"

\* The WHERE of FindTimeoutOrders, and the check of the consumer.
TimedOut(o) == order[o] = "Locked" /\ o \in due

\* Its JOINs, with teams and activities.
Listed(o) == rows[o] = "whole"

\* The scanner found the order in its list, or the consumer of the timeout
\* message, who looks at the order alone, found it locked and overdue. The
\* call to Refund() that follows reads it again.
SweepArrives(c, o) ==
  /\ TimedOut(o)
  /\ c = Sweeper => Listed(o)
  /\ Begin(c, "sweep", o, "read")
  /\ UNCHANGED <<useMock, mock, order, payment, trade, logged, acked, due, rows, history>>

NeverRefunded(o) == FALSE

\* Answered at once: a refund is idempotent.
AlreadyRefunded(o) == order[o] = "Refunded"

\* Without its team an order that is not refunded yet gets an error.
ReadOrder(c) ==
  LET o == call[c].ord IN
  /\ At(c, {"refund", "sweep"}, "read")
  /\ IF AlreadyRefunded(o) \/ rows[o] = "noTeam"
     THEN Return(c)
     ELSE call' = [call EXCEPT ![c].read = order[o],
                               ![c].at = IF order[o] = "Paid" THEN "check" ELSE "flip"]
  /\ UNCHANGED <<useMock, mock, order, payment, trade, logged, acked, due, rows, history>>

\* A paid order goes to the gateway first, unless its payment is a mock or
\* its payments row is not found.
CheckMockPayment(c) ==
  LET o == call[c].ord IN
  /\ At(c, {"refund", "sweep"}, "check")
  /\ \/ Goto(c, IF o \in mock THEN "flip" ELSE "payback") /\ UNCHANGED skipped
     \/ Goto(c, "flip") /\ skipped' = skipped \union {o}
  /\ UNCHANGED <<useMock, mock, order, payment, trade, logged, acked, due, rows,
                 settled, cutOff, misrouted>>

\* The gateway pays back once, and says yes again when asked again.
GatewayRefund(c) ==
  LET o == call[c].ord IN
  /\ At(c, {"refund", "sweep"}, "payback")
  /\ ~useMock
  /\ IF trade[o] = "waiting"
     THEN Return(c) /\ UNCHANGED trade
     ELSE Goto(c, "flip") /\ trade' = [trade EXCEPT ![o] = "returned"]
  /\ UNCHANGED <<useMock, mock, order, payment, logged, acked, due, rows, history>>

\* The mock says yes and pays nothing.
MockRefund(c) ==
  /\ At(c, {"refund", "sweep"}, "payback")
  /\ useMock
  /\ Goto(c, "flip")
  /\ misrouted' = misrouted \union {call[c].ord}
  /\ UNCHANGED <<useMock, mock, order, payment, trade, logged, acked, due, rows,
                 settled, cutOff, skipped>>

StillAsReadUnchecked(c) == order[call[c].ord] \in {"Locked", "Paid"}

\* The WHERE status = ? of UpdateOrderStatusWithCheck.
StillAsRead(c) == order[call[c].ord] = call[c].read

FlipOrder(c) ==
  LET o == call[c].ord IN
  /\ At(c, {"refund", "sweep"}, "flip")
  /\ StillAsRead(c)
  /\ order' = [order EXCEPT ![o] = "Refunded"]
  /\ IF call[c].read = "Locked" THEN Goto(c, "close") ELSE Return(c)
  /\ UNCHANGED <<useMock, mock, payment, trade, logged, acked, due, rows, history>>

LoseRace(c) ==
  /\ At(c, {"refund", "sweep"}, "flip")
  /\ ~StillAsRead(c)
  /\ Return(c)
  /\ UNCHANGED <<useMock, mock, order, payment, trade, logged, acked, due, rows, history>>

UpdatePaymentClosed(c) ==
  LET o == call[c].ord IN
  /\ At(c, {"refund", "sweep"}, "close")
  /\ payment' = [payment EXCEPT ![o] = IF @ = "Pending" THEN "Closed" ELSE @]
  /\ Return(c)
  /\ UNCHANGED <<useMock, mock, order, trade, logged, acked, due, rows, history>>

\* The process dies, or a statement fails, between two steps of the call.
Crash(c) ==
  /\ call[c] # Idle
  /\ cutOff' = IF At(c, {"refund", "sweep"}, "flip") /\ call[c].read = "Paid"
               THEN cutOff \union {call[c].ord} ELSE cutOff
  /\ Return(c)
  /\ UNCHANGED <<useMock, mock, order, payment, trade, logged, acked, due, rows,
                 settled, skipped, misrouted>>

-----------------------------------------------------------------------------
Continue(c) ==
  \/ RecordLog(c) \/ QueryOrder(c) \/ QueryMock(c) \/ UpdatePaymentPaid(c)
  \/ SettleOrder(c) \/ SettleFails(c)
  \/ ReadOrder(c) \/ CheckMockPayment(c) \/ GatewayRefund(c) \/ MockRefund(c)
  \/ FlipOrder(c) \/ LoseRace(c) \/ UpdatePaymentClosed(c)

Next ==
  \/ \E o \in Orders :
       \/ UserPays(o) \/ TimePasses(o) \/ NotifyMistaken(o) \/ RowsMove(o)
       \/ \E c \in Handlers : \/ NotifyArrives(c, o) \/ PollArrives(c, o)
                              \/ PostArrives(c, o) \/ RefundArrives(c, o)
       \/ \E c \in Callers : SweepArrives(c, o)
  \/ \E c \in Callers : Continue(c) \/ Crash(c)
  \/ SwitchGateway

Sweeping(o) == call[Sweeper] # Idle /\ call[Sweeper].ord = o

\* Calls run on; the scan is repeated, and does not die on the same order
\* every time; Alipay repeats its callback.
Fairness ==
  /\ \A c \in Callers : WF_vars(Continue(c))
  /\ \A o \in Orders : /\ WF_vars(SweepArrives(Sweeper, o))
                       /\ SF_vars(Sweeping(o) /\ ReadOrder(Sweeper))
                       /\ SF_vars(Sweeping(o) /\ FlipOrder(Sweeper))
                       /\ SF_vars(\E c \in Handlers : NotifyArrives(c, o))

Spec == Init /\ [][Next]_vars /\ Fairness

-----------------------------------------------------------------------------
CallState ==
  {Idle} \union [at : Steps, kind : Kinds, ord : Orders, read : {"", "Locked", "Paid"}]

\* Type invariant.
TypeOK ==
  /\ useMock \in Flags
  /\ mock \subseteq Orders
  /\ order \in [Orders -> {"Locked", "Paid", "Refunded"}]
  /\ payment \in [Orders -> {"Pending", "Paid", "Closed"}]
  /\ trade \in [Orders -> {"none", "waiting", "captured", "returned"}]
  /\ logged \subseteq Orders
  /\ acked \subseteq Orders
  /\ due \subseteq Orders
  /\ rows \in [Orders -> {"whole", "noActivity", "noTeam"}]
  /\ call \in [Callers -> CallState]
  /\ settled \subseteq Orders
  /\ cutOff \subseteq Orders
  /\ skipped \subseteq Orders
  /\ misrouted \subseteq Orders

\* Orders whose payment the real gateway made and alone answered for.
RealThroughout == {o \in Orders : trade[o] # "none"} \ misrouted

\* Settlement racing a refund never keeps the money: an order that was paid
\* and is refunded had its payment returned by the gateway first, unless its
\* payments row was not found, when the program chooses to skip the gateway, or
\* the flag was turned while the payment lived and the mock answered for it.
RefundReturnsMoney ==
  \A o \in RealThroughout \ skipped :
    order[o] = "Refunded" /\ o \in settled => trade[o] = "returned"

\* The payments table and the gateway agree: a row that says Paid has a capture
\* behind it, and one that says MOCK_ has no trade, so a refund that skips the
\* gateway skips nothing.
RowMatchesTrade ==
  \A o \in RealThroughout :
    /\ payment[o] = "Paid" => trade[o] \in {"captured", "returned"}
    /\ o \notin mock

\* Nobody keeps a seat whose money was returned, except while the refund is
\* on its way from the gateway to the table, or when it was cut off there.
PaidNotReturned ==
  \A o \in Orders : order[o] = "Paid" /\ trade[o] = "returned" =>
    \/ \E c \in Callers : At(c, {"refund", "sweep"}, "flip") /\ call[c].ord = o
    \/ o \in cutOff

\* The payments row is closed only behind an order that gave up its seat, so
\* no interleaving of callback, poll and sweep leaves a paid order closed.
ClosedMeansRefunded ==
  \A o \in Orders : payment[o] = "Closed" => order[o] = "Refunded"

\* Where the payment was made: no trade means a mock row, and a mock row means
\* no trade, or that the mock answered for the real gateway.
MadeBy(o) ==
  /\ trade[o] = "none" => o \in mock
  /\ o \in mock => trade[o] = "none" \/ o \in misrouted

\* Money is paid back only for an order that is or was Paid.
Settled(o) ==
  /\ order[o] = "Locked" => o \notin settled
  /\ trade[o] = "returned" => order[o] # "Locked"

\* What a call may rely on at the step it has reached, however long it slept
\* there: each of these facts, once true, is never undone by anybody else.
Justified(c) ==
  LET o == call[c].ord
      at(steps) == call[c].at \in steps
  IN
  call[c] # Idle =>
    /\ at({"complete"}) => o \in mock
    /\ at({"log", "mark"}) => trade[o] \in {"captured", "returned"}
    /\ at({"markMock"}) => o \in misrouted
    /\ at({"check", "payback"}) => call[c].read = "Paid"
    /\ at({"payback"}) => trade[o] # "none"
    /\ at({"flip"}) /\ call[c].read = "Paid" =>
         trade[o] = "returned" \/ o \in mock \union skipped \union misrouted
    /\ at({"close"}) => order[o] = "Refunded"
    /\ call[c].read = "Paid" => order[o] # "Locked"

\* Between gateway and table the money of a paid order is in the hands of a
\* refund that read the order as Paid, which no other call can make lose.
ReturnUnderWay(o) ==
  order[o] = "Paid" /\ trade[o] = "returned" =>
    \/ \E c \in Callers : /\ At(c, {"refund", "sweep"}, "flip")
                          /\ call[c].ord = o /\ call[c].read = "Paid"
    \/ o \in cutOff

\* The inductive invariant: no call locks the order over its steps, so each
\* step is justified by facts that only grow.
IInv ==
  /\ TypeOK
  /\ \A c \in Callers : Justified(c)
  /\ \A o \in Orders : MadeBy(o) /\ Settled(o) /\ ReturnUnderWay(o)
  /\ RefundReturnsMoney
  /\ RowMatchesTrade
  /\ ClosedMeansRefunded

\* No seat stays locked for ever that the sweep can reach: once overdue, an
\* order is settled or refunded, whatever callbacks, polls, crashes and changes
\* of gateway come between. Only an order whose activity is deleted is not in
\* the sweep's list any more, and one whose team is deleted can be neither
\* settled nor refunded.
OverdueLeaves == \A o \in Orders : o \in due ~> order[o] # "Locked" \/ ~Listed(o)

Untended(o) == \A c \in Callers : call[c] # Idle => call[c].ord # o

\* Refuted. Who has paid for an order is settled in time, or gets the money
\* back, also when the first settlement failed: the callback is repeated, and
\* the page that keeps polling settles it, as long as its team is there.
MoneySettles ==
  (\A o \in Orders : SF_vars(\E c \in Handlers : PollArrives(c, o)))
  => \A o \in Orders :
       payment[o] = "Paid" /\ trade[o] = "captured" /\ order[o] = "Locked" /\ Untended(o) ~>
         order[o] = "Paid" \/ trade[o] = "returned" \/ ~Listed(o)
=============================================================================
