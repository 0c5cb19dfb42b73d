------------------------- MODULE PaymentFlowProofs -------------------------
(***************************************************************************)
(* Theorems of PaymentFlow, for any orders, any goroutines and any         *)
(* behaviour of the mock flag: where the money of an order is when the     *)
(* tables say it is paid, refunded or closed.                              *)
(*                                                                         *)
(* The argument is that of code without locks. A call relies only on facts *)
(* that no step of anybody undoes (Grows), so what justified its last step *)
(* still justifies its next one (OthersJustified).                         *)
(***************************************************************************)
EXTENDS PaymentFlow, TLAPS

\* Moving a call on changes nothing but its step.
LEMMA GotoCall ==
  ASSUME TypeOK, NEW c \in Callers, call[c] # Idle, NEW s \in Steps, Goto(c, s)
  PROVE  /\ call' \in [Callers -> CallState]
         /\ call'[c] # Idle
         /\ call'[c].at = s
         /\ call'[c].kind = call[c].kind
         /\ call'[c].ord = call[c].ord
         /\ call'[c].read = call[c].read
         /\ \A d \in Callers \ {c} : call'[d] = call[d]
  BY DEF TypeOK, CallState, Goto, Idle, Steps, Kinds

LEMMA ReturnCall ==
  ASSUME TypeOK, NEW c \in Callers, Return(c)
  PROVE  /\ call' \in [Callers -> CallState]
         /\ call'[c] = Idle
         /\ \A d \in Callers \ {c} : call'[d] = call[d]
  BY DEF TypeOK, CallState, Return

LEMMA BeginCall ==
  ASSUME TypeOK, NEW c \in Callers, NEW o \in Orders, NEW k \in Kinds, NEW s \in Steps,
         Begin(c, k, o, s)
  PROVE  /\ call' \in [Callers -> CallState]
         /\ call'[c] # Idle
         /\ call'[c].at = s /\ call'[c].kind = k /\ call'[c].ord = o /\ call'[c].read = ""
         /\ \A d \in Callers \ {c} : call'[d] = call[d]
  BY DEF TypeOK, CallState, Begin, Idle, Steps, Kinds

\* A busy call has an order, a kind and a step.
LEMMA BusyCall ==
  ASSUME TypeOK, NEW c \in Callers, call[c] # Idle
  PROVE  /\ call[c].ord \in Orders /\ call[c].at \in Steps /\ call[c].kind \in Kinds
         /\ call[c].read \in {"", "Locked", "Paid"}
  BY DEF TypeOK, CallState

\* A refund remembers the status it read.
LEMMA ReadCall ==
  ASSUME TypeOK, NEW c \in Callers, call[c] # Idle, ReadOrder(c),
         ~AlreadyRefunded(call[c].ord), rows[call[c].ord] # "noTeam"
  PROVE  /\ call' \in [Callers -> CallState]
         /\ call'[c] # Idle
         /\ call'[c].at = IF order[call[c].ord] = "Paid" THEN "check" ELSE "flip"
         /\ call'[c].kind = call[c].kind
         /\ call'[c].ord = call[c].ord
         /\ call'[c].read = order[call[c].ord]
         /\ \A d \in Callers \ {c} : call'[d] = call[d]
<1> DEFINE st   == order[call[c].ord]
           at   == IF st = "Paid" THEN "check" ELSE "flip"
           next == [call EXCEPT ![c].read = st, ![c].at = at]
<1>1. st \in {"Locked", "Paid"}
  BY BusyCall DEF TypeOK, AlreadyRefunded
<1>2. at \in Steps
  BY DEF Steps
<1>3. call' = next
  BY DEF ReadOrder
<1>4. call[c] \in [at : Steps, kind : Kinds, ord : Orders, read : {"", "Locked", "Paid"}]
  BY DEF TypeOK, CallState
<1> HIDE DEF st, at
<1>5. next[c] = [at |-> at, kind |-> call[c].kind, ord |-> call[c].ord, read |-> st]
  BY <1>4 DEF TypeOK
<1> HIDE DEF next
<1>6. next[c] \in CallState
  <2>1. call[c].kind \in Kinds /\ call[c].ord \in Orders
    BY BusyCall
  <2>2. [at |-> at, kind |-> call[c].kind, ord |-> call[c].ord, read |-> st]
          \in [at : Steps, kind : Kinds, ord : Orders, read : {"", "Locked", "Paid"}]
    BY <1>1, <1>2, <2>1
  <2> QED
    BY <1>5, <2>2 DEF CallState
<1>7. /\ next \in [Callers -> CallState]
      /\ \A d \in Callers \ {c} : next[d] = call[d]
  BY <1>6 DEF TypeOK, next
<1>8. next[c] # Idle
  BY <1>2, <1>5 DEF Idle, Steps
<1> QED
  BY <1>1, <1>3, <1>5, <1>7, <1>8 DEF st, at

-----------------------------------------------------------------------------
\* Types survive every step.
LEMMA TypeStep == TypeOK /\ [Next]_vars => TypeOK'
<1> SUFFICES ASSUME TypeOK, [Next]_vars PROVE TypeOK'
  OBVIOUS
<1> USE DEF history
<1>1. ASSUME NEW o \in Orders, UserPays(o) \/ TimePasses(o) \/ NotifyMistaken(o) \/ RowsMove(o)
      PROVE  TypeOK'
  BY <1>1 DEF UserPays, TimePasses, NotifyMistaken, RowsMove, TeamRemoved,
              ActivityRemoved, ActivityCreated, TypeOK
<1>2. ASSUME NEW o \in Orders, NEW c \in Callers, NotifyArrives(c, o) PROVE TypeOK'
  <2>1. call' \in [Callers -> CallState]
    BY <1>2, BeginCall DEF NotifyArrives, Steps, Kinds, TypeOK
  <2> QED
    BY <1>2, <2>1 DEF NotifyArrives, TypeOK
<1>3. ASSUME NEW o \in Orders, NEW c \in Callers,
             PollArrives(c, o) \/ PostArrives(c, o) \/ RefundArrives(c, o) \/ SweepArrives(c, o)
      PROVE  TypeOK'
  <2>1. call' \in [Callers -> CallState]
    BY <1>3, BeginCall DEF PollArrives, PostArrives, RefundArrives, SweepArrives, Steps, Kinds
  <2> QED
    BY <1>3, <2>1 DEF PollArrives, PostArrives, RefundArrives, SweepArrives, TypeOK
<1>4. ASSUME NEW c \in Callers,
             RecordLog(c) \/ QueryOrder(c) \/ QueryMock(c) \/ SettleFails(c)
      PROVE  TypeOK'
  <2>1. call' \in [Callers -> CallState]
    BY <1>4, GotoCall, ReturnCall
       DEF RecordLog, QueryOrder, QueryMock, SettleFails, At, Steps
  <2> QED
    BY <1>4, <2>1, BusyCall
       DEF RecordLog, QueryOrder, QueryMock, SettleFails, At, TypeOK
<1>5. ASSUME NEW c \in Callers, UpdatePaymentPaid(c) PROVE TypeOK'
  <2>1. call' \in [Callers -> CallState]
    BY <1>5, GotoCall, ReturnCall DEF UpdatePaymentPaid, At, Steps
  <2>2. payment' \in [Orders -> {"Pending", "Paid", "Closed"}]
    BY <1>5 DEF UpdatePaymentPaid, TypeOK
  <2>3. mock' \subseteq Orders
    <3>1. call[c].ord \in Orders
      BY <1>5, BusyCall DEF UpdatePaymentPaid, At
    <3> QED
      BY <1>5, <3>1 DEF UpdatePaymentPaid, TypeOK
  <2>4. UNCHANGED <<useMock, order, trade, logged, acked, due, rows, history>>
    BY <1>5 DEF UpdatePaymentPaid
  <2> QED
    BY <2>1, <2>2, <2>3, <2>4 DEF TypeOK
<1>6. ASSUME NEW c \in Callers, SettleOrder(c) PROVE TypeOK'
  BY <1>6, BusyCall, ReturnCall DEF SettleOrder, At, TypeOK
<1>7. ASSUME NEW c \in Callers, ReadOrder(c) PROVE TypeOK'
  <2>1. call' \in [Callers -> CallState]
    BY <1>7, ReadCall, ReturnCall DEF ReadOrder, At
  <2> QED
    BY <1>7, <2>1 DEF ReadOrder, TypeOK
<1>8. ASSUME NEW c \in Callers, CheckMockPayment(c) PROVE TypeOK'
  BY <1>8, BusyCall, GotoCall DEF CheckMockPayment, At, Steps, TypeOK
<1>9. ASSUME NEW c \in Callers, GatewayRefund(c) \/ MockRefund(c) PROVE TypeOK'
  <2>1. call' \in [Callers -> CallState]
    BY <1>9, GotoCall, ReturnCall DEF GatewayRefund, MockRefund, At, Steps
  <2> QED
    BY <1>9, <2>1, BusyCall DEF GatewayRefund, MockRefund, At, TypeOK
<1>10. ASSUME NEW c \in Callers, FlipOrder(c) \/ LoseRace(c) PROVE TypeOK'
  <2>1. call' \in [Callers -> CallState]
    BY <1>10, GotoCall, ReturnCall DEF FlipOrder, LoseRace, At, Steps
  <2> QED
    BY <1>10, <2>1, BusyCall DEF FlipOrder, LoseRace, At, TypeOK
<1>11. ASSUME NEW c \in Callers, UpdatePaymentClosed(c) \/ Crash(c) PROVE TypeOK'
  <2>1. call' \in [Callers -> CallState]
    BY <1>11, ReturnCall DEF UpdatePaymentClosed, Crash
  <2>2. CASE UpdatePaymentClosed(c)
    BY <2>1, <2>2 DEF UpdatePaymentClosed, TypeOK
  <2>3. CASE Crash(c)
    <3>1. cutOff' \subseteq Orders
      BY <2>3, BusyCall DEF Crash, TypeOK
    <3> QED
      BY <2>1, <2>3, <3>1 DEF Crash, TypeOK
  <2> QED
    BY <1>11, <2>2, <2>3
<1>12. ASSUME SwitchGateway PROVE TypeOK'
  BY <1>12 DEF SwitchGateway, TypeOK
<1>13. ASSUME UNCHANGED vars PROVE TypeOK'
  BY <1>13 DEF vars, TypeOK
<1> QED
  BY <1>1, <1>2, <1>3, <1>4, <1>5, <1>6, <1>7, <1>8, <1>9, <1>10, <1>11, <1>12, <1>13
     DEF Next, Continue, Callers

-----------------------------------------------------------------------------
\* The facts that a call relies on, and that only grow.
Grows ==
  /\ mock \subseteq mock' /\ misrouted \subseteq misrouted' /\ skipped \subseteq skipped'
  /\ \A o \in Orders :
       /\ trade[o] \in {"captured", "returned"} => trade'[o] \in {"captured", "returned"}
       /\ trade[o] = "returned" => trade'[o] = "returned"
       /\ trade[o] # "none" => trade'[o] # "none"
       /\ trade[o] = "none" => trade'[o] = "none"
       /\ order[o] = "Refunded" => order'[o] = "Refunded"
       /\ order[o] # "Locked" => order'[o] # "Locked"

\* No step of the program, the gateway, the clock or the administrator undoes
\* one of them. A mock payment gets no trade: nobody pays it and no refund
\* asks the gateway about it, which is what Justified says of a payback.
LEMMA GrowsStep ==
  (TypeOK /\ \A c \in Callers : Justified(c)) /\ [Next]_vars => Grows
<1> SUFFICES ASSUME TypeOK, \A c \in Callers : Justified(c), [Next]_vars PROVE Grows
  OBVIOUS
<1> USE DEF history, Grows
<1>1. ASSUME NEW o \in Orders, UserPays(o) \/ TimePasses(o) \/ NotifyMistaken(o) \/ RowsMove(o)
      PROVE  Grows
  BY <1>1 DEF UserPays, TimePasses, NotifyMistaken, RowsMove, TeamRemoved,
              ActivityRemoved, ActivityCreated, TypeOK
<1>2. ASSUME NEW o \in Orders, NEW c \in Callers,
             NotifyArrives(c, o) \/ PollArrives(c, o) \/ PostArrives(c, o)
               \/ RefundArrives(c, o) \/ SweepArrives(c, o)
      PROVE  Grows
  BY <1>2 DEF NotifyArrives, PollArrives, PostArrives, RefundArrives, SweepArrives
<1>3. ASSUME NEW c \in Callers,
             \/ RecordLog(c) \/ QueryOrder(c) \/ QueryMock(c) \/ SettleFails(c) \/ ReadOrder(c)
             \/ CheckMockPayment(c) \/ MockRefund(c) \/ LoseRace(c)
             \/ UpdatePaymentClosed(c) \/ Crash(c)
      PROVE  Grows
  BY <1>3 DEF RecordLog, QueryOrder, QueryMock, SettleFails, ReadOrder, CheckMockPayment,
              MockRefund, LoseRace, UpdatePaymentClosed, Crash
<1>4. ASSUME NEW c \in Callers, UpdatePaymentPaid(c) PROVE Grows
  BY <1>4 DEF UpdatePaymentPaid
<1>5. ASSUME NEW c \in Callers, SettleOrder(c) PROVE Grows
  BY <1>5, BusyCall DEF SettleOrder, Settleable, At, TypeOK
<1>6. ASSUME NEW c \in Callers, GatewayRefund(c) PROVE Grows
  <2>1. call[c] # Idle /\ call[c].at = "payback" /\ call[c].ord \in Orders
    BY <1>6, BusyCall DEF GatewayRefund, At
  <2>2. trade[call[c].ord] # "none"
    BY <2>1 DEF Justified
  <2> QED
    BY <1>6, <2>1, <2>2 DEF GatewayRefund, TypeOK
<1>7. ASSUME NEW c \in Callers, FlipOrder(c) PROVE Grows
  BY <1>7, BusyCall DEF FlipOrder, At, TypeOK
<1>8. ASSUME SwitchGateway \/ UNCHANGED vars PROVE Grows
  BY <1>8 DEF SwitchGateway, vars
<1> QED
  BY <1>1, <1>2, <1>3, <1>4, <1>5, <1>6, <1>7, <1>8 DEF Next, Continue, Callers

\* So a call that is not the one that moves stays justified, and so does one
\* that moves without changing its step.
LEMMA OthersJustified ==
  ASSUME TypeOK, Grows, NEW c \in Callers, Justified(c), call'[c] = call[c]
  PROVE  Justified(c)'
<1>1. CASE call[c] = Idle
  BY <1>1 DEF Justified
<1>2. CASE call[c] # Idle
  BY <1>2, BusyCall DEF Justified, Grows
<1> QED
  BY <1>1, <1>2

\* The step that a call takes leads to a step that is justified.
LEMMA JustifiedStep ==
  (TypeOK /\ \A o \in Orders : MadeBy(o)) /\ (\A c \in Callers : Justified(c)) /\ [Next]_vars
    => \A c \in Callers : Justified(c)'
<1> SUFFICES ASSUME TypeOK, \A o \in Orders : MadeBy(o),
                    \A c \in Callers : Justified(c), [Next]_vars
             PROVE  \A c \in Callers : Justified(c)'
  OBVIOUS
<1>0. Grows
  BY GrowsStep
<1> DEFINE Moves(c) == \A d \in Callers \ {c} : call'[d] = call[d]
<1>a. ASSUME NEW c \in Callers, Moves(c), Justified(c)' PROVE \A d \in Callers : Justified(d)'
  BY <1>0, <1>a, OthersJustified
<1>b. ASSUME call' = call PROVE \A c \in Callers : Justified(c)'
  BY <1>0, <1>b, OthersJustified
<1>c. ASSUME NEW c \in Callers, Return(c) PROVE \A d \in Callers : Justified(d)'
  <2>1. Justified(c)'
    BY <1>c, ReturnCall DEF Justified
  <2> QED
    BY <1>a, <1>c, <2>1, ReturnCall
<1> USE DEF history
<1>1. ASSUME NEW o \in Orders, UserPays(o) \/ TimePasses(o) \/ NotifyMistaken(o) \/ RowsMove(o)
      PROVE  \A c \in Callers : Justified(c)'
  BY <1>1, <1>b DEF UserPays, TimePasses, NotifyMistaken, RowsMove, TeamRemoved,
              ActivityRemoved, ActivityCreated
<1>2. ASSUME NEW o \in Orders, NEW c \in Callers, NotifyArrives(c, o)
      PROVE  \A d \in Callers : Justified(d)'
  <2>1. CASE o \in logged
    BY <1>2, <1>b, <2>1 DEF NotifyArrives
  <2>2. CASE o \notin logged
    <3>1. Begin(c, "notify", o, "log") /\ trade'[o] \in {"captured", "returned"}
      BY <1>2, <2>2 DEF NotifyArrives
    <3>2. /\ call'[c].at = "log" /\ call'[c].ord = o /\ call'[c].read = "" /\ Moves(c)
      BY <3>1, BeginCall DEF Steps, Kinds
    <3>3. Justified(c)'
      BY <3>1, <3>2 DEF Justified
    <3> QED
      BY <1>a, <3>2, <3>3
  <2> QED
    BY <2>1, <2>2
<1>3. ASSUME NEW o \in Orders, NEW c \in Callers,
             PollArrives(c, o) \/ PostArrives(c, o) \/ RefundArrives(c, o) \/ SweepArrives(c, o)
      PROVE  \A d \in Callers : Justified(d)'
  <2>1. /\ call'[c].at \in {"query", "settle", "read"} \/ (call'[c].at = "complete" /\ o \in mock')
        /\ call'[c].ord = o /\ call'[c].read = "" /\ Moves(c)
    BY <1>3, BeginCall DEF PollArrives, PostArrives, RefundArrives, SweepArrives, Steps, Kinds
  <2>2. Justified(c)'
    BY <2>1 DEF Justified
  <2> QED
    BY <1>a, <2>1, <2>2
\* A call that moves to a step about which nothing need be known.
<1>d. ASSUME NEW c \in Callers, NEW s \in {"query", "settle", "read"}, call[c] # Idle, Goto(c, s)
      PROVE  \A d \in Callers : Justified(d)'
  <2>1. /\ call'[c].at = s /\ call'[c].ord = call[c].ord /\ call'[c].read = call[c].read
        /\ Moves(c) /\ call[c].ord \in Orders
    BY <1>d, GotoCall, BusyCall DEF Steps
  <2>2. call[c].read = "Paid" => order[call[c].ord] # "Locked"
    BY <1>d DEF Justified
  <2>3. Justified(c)'
    BY <1>0, <2>1, <2>2 DEF Justified, Grows
  <2> QED
    BY <1>a, <2>1, <2>3
<1>4. ASSUME NEW c \in Callers, NEW s \in {"mark", "markMock"}, call[c] # Idle, Goto(c, s),
             s = "mark" => trade'[call[c].ord] \in {"captured", "returned"},
             s = "markMock" => call[c].ord \in misrouted'
      PROVE  \A d \in Callers : Justified(d)'
  <2>1. /\ call'[c].at = s /\ call'[c].ord = call[c].ord /\ call'[c].read = call[c].read
        /\ Moves(c) /\ call[c].ord \in Orders
    BY <1>4, GotoCall, BusyCall DEF Steps
  <2>2. call[c].read = "Paid" => order[call[c].ord] # "Locked"
    BY <1>4 DEF Justified
  <2>3. Justified(c)'
    BY <1>0, <1>4, <2>1, <2>2 DEF Justified, Grows
  <2> QED
    BY <1>a, <2>1, <2>3
<1>5. ASSUME NEW c \in Callers, RecordLog(c) PROVE \A d \in Callers : Justified(d)'
  <2>1. call[c] # Idle /\ trade[call[c].ord] \in {"captured", "returned"}
    BY <1>5 DEF RecordLog, At, Justified
  <2> QED
    BY <1>4, <1>5, <2>1 DEF RecordLog
<1>6. ASSUME NEW c \in Callers, QueryOrder(c) PROVE \A d \in Callers : Justified(d)'
  BY <1>4, <1>6, <1>c DEF QueryOrder, At, TradeSuccess
<1>7. ASSUME NEW c \in Callers, QueryMock(c) PROVE \A d \in Callers : Justified(d)'
  BY <1>4, <1>7 DEF QueryMock, At
<1>8. ASSUME NEW c \in Callers, UpdatePaymentPaid(c) PROVE \A d \in Callers : Justified(d)'
  BY <1>8, <1>c, <1>d DEF UpdatePaymentPaid, At
<1>9. ASSUME NEW c \in Callers,
             SettleOrder(c) \/ SettleFails(c) \/ LoseRace(c) \/ UpdatePaymentClosed(c) \/ Crash(c)
      PROVE  \A d \in Callers : Justified(d)'
  BY <1>9, <1>c DEF SettleOrder, SettleFails, LoseRace, UpdatePaymentClosed, Crash
<1>10. ASSUME NEW c \in Callers, ReadOrder(c) PROVE \A d \in Callers : Justified(d)'
  <2>1. CASE AlreadyRefunded(call[c].ord) \/ rows[call[c].ord] = "noTeam"
    BY <1>10, <1>c, <2>1 DEF ReadOrder
  <2>2. CASE ~AlreadyRefunded(call[c].ord) /\ rows[call[c].ord] # "noTeam"
    <3>1. /\ call'[c].at = IF order[call[c].ord] = "Paid" THEN "check" ELSE "flip"
          /\ call'[c].ord = call[c].ord /\ call'[c].read = order[call[c].ord]
          /\ Moves(c) /\ call[c].ord \in Orders
      BY <1>10, <2>2, ReadCall, BusyCall DEF ReadOrder, At
    <3>2. Justified(c)'
      BY <1>10, <3>1 DEF Justified, ReadOrder
    <3> QED
      BY <1>a, <3>1, <3>2
  <2> QED
    BY <2>1, <2>2
<1>11. ASSUME NEW c \in Callers, CheckMockPayment(c) PROVE \A d \in Callers : Justified(d)'
  <2> DEFINE o == call[c].ord
  <2>1. call[c] # Idle /\ call[c].read = "Paid" /\ order[o] # "Locked" /\ o \in Orders
    BY <1>11, BusyCall DEF CheckMockPayment, At, Justified
  <2>2. /\ call'[c].at \in {"flip", "payback"} /\ call'[c].ord = o /\ call'[c].read = "Paid"
        /\ call'[c].at = "flip" => o \in mock' \union skipped'
        /\ call'[c].at = "payback" => o \notin mock
        /\ Moves(c)
    BY <1>11, <2>1, GotoCall DEF CheckMockPayment, Steps
  <2>3. trade'[o] = "none" => o \in mock
    BY <1>0, <2>1 DEF MadeBy, Grows
  <2>4. Justified(c)'
    BY <1>0, <2>1, <2>2, <2>3 DEF Justified, Grows
  <2> QED
    BY <1>a, <2>2, <2>4
<1>12. ASSUME NEW c \in Callers, GatewayRefund(c) \/ MockRefund(c)
       PROVE  \A d \in Callers : Justified(d)'
  <2> DEFINE o == call[c].ord
  <2>1. call[c] # Idle /\ call[c].read = "Paid" /\ order[o] # "Locked" /\ o \in Orders
    BY <1>12, BusyCall DEF GatewayRefund, MockRefund, At, Justified
  <2>2. CASE Return(c)
    BY <1>c, <2>2
  <2>3. CASE Goto(c, "flip") /\ (trade'[o] = "returned" \/ o \in misrouted')
    <3>1. /\ call'[c].at = "flip" /\ call'[c].ord = o /\ call'[c].read = "Paid" /\ Moves(c)
      BY <2>1, <2>3, GotoCall DEF Steps
    <3>2. Justified(c)'
      BY <1>0, <2>1, <2>3, <3>1 DEF Justified, Grows
    <3> QED
      BY <1>a, <3>1, <3>2
  <2> QED
    BY <1>12, <2>1, <2>2, <2>3 DEF GatewayRefund, MockRefund, TypeOK
<1>13. ASSUME NEW c \in Callers, FlipOrder(c) PROVE \A d \in Callers : Justified(d)'
  <2> DEFINE o == call[c].ord
  <2>1. call[c] # Idle /\ o \in Orders
    BY <1>13, BusyCall DEF FlipOrder, At
  <2>2. CASE Return(c)
    BY <1>c, <2>2
  <2>3. CASE Goto(c, "close")
    <3>1. /\ call'[c].at = "close" /\ call'[c].ord = o /\ Moves(c)
      BY <2>1, <2>3, GotoCall DEF Steps
    <3>2. order'[o] = "Refunded"
      BY <1>13, <2>1 DEF FlipOrder, TypeOK
    <3>3. Justified(c)'
      BY <3>1, <3>2 DEF Justified
    <3> QED
      BY <1>a, <3>1, <3>3
  <2> QED
    BY <1>13, <2>2, <2>3 DEF FlipOrder
<1>14. ASSUME SwitchGateway \/ UNCHANGED vars PROVE \A c \in Callers : Justified(c)'
  BY <1>14, <1>b DEF SwitchGateway, vars
<1> QED
  BY <1>1, <1>2, <1>3, <1>5, <1>6, <1>7, <1>8, <1>9, <1>10, <1>11, <1>12, <1>13, <1>14
     DEF Next, Continue, Callers

-----------------------------------------------------------------------------
\* What a step may do to the columns of one order, apart from what Grows says:
\* who marks its payments row or closes it, who settles and who refunds it, and
\* when its money moves.
Columns(o) ==
  /\ o \in mock' => o \in mock \/ o \in misrouted
  /\ \/ payment'[o] = payment[o]
     \/ payment'[o] = "Closed" /\ order[o] = "Refunded"
     \/ /\ payment'[o] = "Paid"
        /\ trade[o] \in {"captured", "returned"} \/ o \in mock \union misrouted
  /\ o \in settled' => o \in settled \/ order'[o] = "Paid"
  /\ \/ order'[o] = order[o]
     \/ order[o] = "Locked" /\ order'[o] = "Paid" /\ UNCHANGED trade
     \/ order[o] = "Locked" /\ order'[o] = "Refunded" /\ UNCHANGED settled
     \/ /\ order[o] = "Paid" /\ order'[o] = "Refunded"
        /\ trade[o] = "returned" \/ o \in mock \union skipped \union misrouted
  /\ \/ trade'[o] = trade[o]
     \/ trade[o] = "waiting" /\ trade'[o] = "captured"
     \/ order[o] # "Locked" /\ trade'[o] = "returned" /\ UNCHANGED order

LEMMA ColumnStep == ASSUME IInv, [Next]_vars, NEW o \in Orders PROVE Columns(o)
<1> USE DEF Columns
<1> TypeOK /\ \A c \in Callers : Justified(c)
  BY DEF IInv
<1> USE DEF history
<1>1. ASSUME NEW p \in Orders, UserPays(p) \/ TimePasses(p) \/ NotifyMistaken(p) \/ RowsMove(p)
      PROVE  Columns(o)
  BY <1>1 DEF UserPays, TimePasses, NotifyMistaken, RowsMove, TeamRemoved,
              ActivityRemoved, ActivityCreated, TypeOK
<1>2. ASSUME NEW p \in Orders, NEW c \in Callers,
             NotifyArrives(c, p) \/ PollArrives(c, p) \/ PostArrives(c, p)
               \/ RefundArrives(c, p) \/ SweepArrives(c, p)
      PROVE  Columns(o)
  BY <1>2 DEF NotifyArrives, PollArrives, PostArrives, RefundArrives, SweepArrives
<1>3. ASSUME NEW c \in Callers,
             \/ RecordLog(c) \/ QueryOrder(c) \/ QueryMock(c) \/ SettleFails(c) \/ ReadOrder(c)
             \/ CheckMockPayment(c) \/ MockRefund(c) \/ LoseRace(c) \/ Crash(c)
      PROVE  Columns(o)
  BY <1>3 DEF RecordLog, QueryOrder, QueryMock, SettleFails, ReadOrder, CheckMockPayment,
              MockRefund, LoseRace, Crash
<1>4. ASSUME NEW c \in Callers, UpdatePaymentPaid(c) PROVE Columns(o)
  <2>1. call[c] # Idle /\ call[c].ord \in Orders
        /\ call[c].at \in {"complete", "mark", "markMock"}
    BY <1>4, BusyCall DEF UpdatePaymentPaid, At
  <2>2. \/ trade[call[c].ord] \in {"captured", "returned"}
        \/ call[c].ord \in mock \/ call[c].ord \in misrouted
    BY <2>1 DEF Justified
  <2>3. o \in mock' => o \in mock \/ o \in misrouted
    BY <1>4, <2>1 DEF UpdatePaymentPaid, Justified
  <2>4. \/ payment'[o] = payment[o]
        \/ payment'[o] = "Paid" /\ o = call[c].ord
    BY <1>4, <2>1 DEF UpdatePaymentPaid, TypeOK
  <2> QED
    BY <1>4, <2>2, <2>3, <2>4 DEF UpdatePaymentPaid
<1>5. ASSUME NEW c \in Callers, SettleOrder(c) PROVE Columns(o)
  BY <1>5, BusyCall DEF SettleOrder, Settleable, At, TypeOK
<1>6. ASSUME NEW c \in Callers, GatewayRefund(c) PROVE Columns(o)
  <2>1. call[c] # Idle /\ call[c].ord \in Orders /\ order[call[c].ord] # "Locked"
    BY <1>6, BusyCall DEF GatewayRefund, At, Justified
  <2> QED
    BY <1>6, <2>1 DEF GatewayRefund, TypeOK
<1>7. ASSUME NEW c \in Callers, FlipOrder(c) PROVE Columns(o)
  <2>1. /\ call[c] # Idle /\ call[c].ord \in Orders /\ call[c].at = "flip"
        /\ order[call[c].ord] = call[c].read
    BY <1>7, BusyCall DEF FlipOrder, At, StillAsRead
  <2>2. \/ order[call[c].ord] = "Locked"
        \/ /\ order[call[c].ord] = "Paid"
           /\ \/ trade[call[c].ord] = "returned"
              \/ call[c].ord \in mock \union skipped \union misrouted
    <3>1. order[call[c].ord] \in {"Locked", "Paid"}
      BY <2>1, BusyCall DEF TypeOK
    <3> QED
      BY <2>1, <3>1 DEF Justified
  <2> QED
    BY <1>7, <2>1, <2>2 DEF FlipOrder, TypeOK
<1>8. ASSUME NEW c \in Callers, UpdatePaymentClosed(c) PROVE Columns(o)
  <2>1. call[c] # Idle /\ call[c].ord \in Orders /\ order[call[c].ord] = "Refunded"
    BY <1>8, BusyCall DEF UpdatePaymentClosed, At, Justified
  <2> QED
    BY <1>8, <2>1 DEF UpdatePaymentClosed, TypeOK
<1>9. ASSUME SwitchGateway \/ UNCHANGED vars PROVE Columns(o)
  BY <1>9 DEF SwitchGateway, vars
<1> QED
  BY <1>1, <1>2, <1>3, <1>4, <1>5, <1>6, <1>7, <1>8, <1>9 DEF Next, Continue, Callers

LEMMA InvOfColumns ==
  ASSUME IInv, [Next]_vars
  PROVE  /\ \A o \in Orders : MadeBy(o)' /\ Settled(o)'
         /\ RefundReturnsMoney' /\ RowMatchesTrade' /\ ClosedMeansRefunded'
<1>0. Grows /\ \A o \in Orders : Columns(o)
  BY GrowsStep, ColumnStep DEF IInv
<1>1. ASSUME NEW o \in Orders PROVE MadeBy(o)'
  <2>1. MadeBy(o)
    BY DEF IInv
  <2> QED
    BY <1>0, <2>1 DEF MadeBy, Grows, Columns
<1>2. ASSUME NEW o \in Orders PROVE Settled(o)'
  <2>1. Settled(o)
    BY DEF IInv
  <2> QED
    BY <1>0, <2>1 DEF Settled, Grows, Columns
<1>3. ASSUME NEW o \in Orders,
             trade'[o] # "none", o \notin misrouted', o \notin skipped',
             order'[o] = "Refunded", o \in settled'
      PROVE  trade'[o] = "returned"
  <2>1. /\ trade[o] # "none" /\ o \notin misrouted /\ o \notin skipped /\ o \in settled
        /\ trade[o] = "returned" => trade'[o] = "returned"
    BY <1>0, <1>3 DEF Grows, Columns
  <2>2. o \notin mock /\ order[o] # "Locked"
    BY <2>1 DEF IInv, MadeBy, Settled
  <2>3. order[o] = "Refunded" => trade[o] = "returned"
    BY <2>1 DEF IInv, RefundReturnsMoney, RealThroughout
  <2> QED
    BY <1>0, <1>3, <2>1, <2>2, <2>3 DEF Columns
<1>4. ASSUME NEW o \in Orders, trade'[o] # "none", o \notin misrouted'
      PROVE  o \notin mock' /\ (payment'[o] = "Paid" => trade'[o] \in {"captured", "returned"})
  <2>1. trade[o] # "none" /\ o \notin misrouted
    BY <1>0, <1>4 DEF Grows
  <2>2. o \notin mock /\ (payment[o] = "Paid" => trade[o] \in {"captured", "returned"})
    BY <2>1 DEF IInv, MadeBy, RowMatchesTrade, RealThroughout
  <2> QED
    BY <1>0, <2>1, <2>2 DEF Columns, Grows
<1>5. ASSUME NEW o \in Orders, payment'[o] = "Closed" PROVE order'[o] = "Refunded"
  <2>1. payment[o] = "Closed" => order[o] = "Refunded"
    BY DEF IInv, ClosedMeansRefunded
  <2> QED
    BY <1>0, <1>5, <2>1 DEF Columns, Grows
<1> QED
  BY <1>1, <1>2, <1>3, <1>4, <1>5
     DEF RefundReturnsMoney, RowMatchesTrade, ClosedMeansRefunded, RealThroughout

\* A refund that is about to flip its order does that, loses a race, or stops.
LEMMA LeavesFlip ==
  ASSUME TypeOK, [Next]_vars, NEW c \in Callers,
         At(c, {"refund", "sweep"}, "flip"), call'[c] # call[c]
  PROVE  FlipOrder(c) \/ LoseRace(c) \/ Crash(c)
<1> DEFINE Stays == call'[c] = call[c]
<1> USE DEF At
<1>1. ASSUME NEW o \in Orders, UserPays(o) \/ TimePasses(o) \/ NotifyMistaken(o) \/ RowsMove(o) PROVE Stays
  BY <1>1 DEF UserPays, TimePasses, NotifyMistaken, RowsMove, TeamRemoved,
              ActivityRemoved, ActivityCreated
<1>2. ASSUME NEW o \in Orders, NEW d \in Callers,
             NotifyArrives(d, o) \/ PollArrives(d, o) \/ PostArrives(d, o)
               \/ RefundArrives(d, o) \/ SweepArrives(d, o)
      PROVE  Stays
  BY <1>2, BeginCall
     DEF NotifyArrives, PollArrives, PostArrives, RefundArrives, SweepArrives, Begin, TypeOK
<1>3. ASSUME NEW d \in Callers, d # c, Continue(d) \/ Crash(d) PROVE Stays
  BY <1>3 DEF Continue, RecordLog, QueryOrder, QueryMock, UpdatePaymentPaid, SettleOrder,
              SettleFails, ReadOrder, CheckMockPayment, GatewayRefund, MockRefund, FlipOrder,
              LoseRace, UpdatePaymentClosed, Crash, Goto, Return, TypeOK
<1>4. ASSUME Continue(c) PROVE FlipOrder(c) \/ LoseRace(c)
  BY <1>4 DEF Continue, RecordLog, QueryOrder, QueryMock, UpdatePaymentPaid, SettleOrder,
              SettleFails, ReadOrder, CheckMockPayment, GatewayRefund, MockRefund,
              UpdatePaymentClosed
<1>5. ASSUME SwitchGateway \/ UNCHANGED vars PROVE Stays
  BY <1>5 DEF SwitchGateway, vars
<1> QED
  BY <1>1, <1>2, <1>3, <1>4, <1>5 DEF Next, Callers

\* Only a refund that asks the gateway makes it pay back.
LEMMA PaysBack ==
  ASSUME TypeOK, [Next]_vars, NEW o \in Orders, trade[o] # "returned", trade'[o] = "returned"
  PROVE  \E c \in Callers : GatewayRefund(c) /\ call[c].ord = o
<1> USE DEF history
<1>1. ASSUME NEW p \in Orders, UserPays(p) PROVE FALSE
  BY <1>1 DEF UserPays, TypeOK
<1>2. ASSUME NEW c \in Callers, GatewayRefund(c) PROVE call[c].ord = o
  BY <1>2, BusyCall DEF GatewayRefund, At, TypeOK
<1> QED
  BY <1>1, <1>2 DEF Next, Continue, Callers, vars, TimePasses, NotifyMistaken, NotifyArrives,
     RowsMove, TeamRemoved, ActivityRemoved, ActivityCreated, PollArrives, PostArrives, RefundArrives, SweepArrives, RecordLog, QueryOrder,
     QueryMock, UpdatePaymentPaid, SettleOrder, SettleFails, ReadOrder, CheckMockPayment,
     MockRefund, FlipOrder, LoseRace, UpdatePaymentClosed, Crash, SwitchGateway

\* The refund that brought the money back finishes, or is cut off; while it is
\* on its way to the table, another refund of the same order can only finish
\* it in its place.
LEMMA ReturnStep ==
  ASSUME IInv, [Next]_vars, NEW o \in Orders
  PROVE  ReturnUnderWay(o)'
<1> TypeOK /\ TypeOK'
  BY TypeStep DEF IInv
<1>0. Grows /\ Columns(o)
  BY GrowsStep, ColumnStep DEF IInv
<1> SUFFICES ASSUME order'[o] = "Paid", trade'[o] = "returned"
             PROVE  ReturnUnderWay(o)'
  BY DEF ReturnUnderWay
<1> DEFINE Carries(c) == /\ At(c, {"refund", "sweep"}, "flip")
                         /\ call[c].ord = o /\ call[c].read = "Paid"
<1>1. order[o] = "Paid"
  BY <1>0 DEF Columns, IInv, Settled
<1>2. CASE trade[o] = "returned"
  <2>1. CASE o \in cutOff
    <3>1. cutOff \subseteq cutOff'
      BY DEF Next, Continue, vars, history, UserPays, TimePasses, NotifyMistaken, NotifyArrives,
             RowsMove, TeamRemoved, ActivityRemoved, ActivityCreated, PollArrives, PostArrives, RefundArrives, SweepArrives, RecordLog, QueryOrder,
             QueryMock, UpdatePaymentPaid, SettleOrder, SettleFails, ReadOrder, CheckMockPayment,
             GatewayRefund, MockRefund, FlipOrder, LoseRace, UpdatePaymentClosed, Crash,
             SwitchGateway
    <3> QED
      BY <2>1, <3>1 DEF ReturnUnderWay
  <2>2. CASE o \notin cutOff
    <3>1. PICK c \in Callers : Carries(c)
      BY <1>1, <1>2, <2>2 DEF IInv, ReturnUnderWay
    <3>2. CASE call'[c] = call[c]
      BY <3>1, <3>2 DEF ReturnUnderWay, At
    <3>3. CASE call'[c] # call[c]
      <4>1. Crash(c) \/ FlipOrder(c) \/ LoseRace(c)
        BY <3>1, <3>3, LeavesFlip
      <4>2. ~FlipOrder(c)
        BY <1>1, <3>1 DEF FlipOrder, TypeOK
      <4>3. ~LoseRace(c)
        BY <1>1, <3>1 DEF LoseRace, StillAsRead
      <4> QED
        BY <3>1, <4>1, <4>2, <4>3 DEF Crash, ReturnUnderWay
    <3> QED
      BY <3>2, <3>3
  <2> QED
    BY <2>1, <2>2
<1>3. CASE trade[o] # "returned"
  <2>1. PICK c \in Callers : GatewayRefund(c) /\ call[c].ord = o
    BY <1>3, PaysBack
  <2>2. /\ call[c] # Idle /\ call[c].kind \in {"refund", "sweep"} /\ Goto(c, "flip")
    BY <1>3, <2>1 DEF GatewayRefund, At
  <2>3. call[c].read = "Paid"
    BY <2>1 DEF IInv, Justified, GatewayRefund, At
  <2>4. At(c, {"refund", "sweep"}, "flip")' /\ call'[c].ord = o /\ call'[c].read = "Paid"
    BY <2>1, <2>2, <2>3, GotoCall DEF At, Steps
  <2> QED
    BY <2>4 DEF ReturnUnderWay
<1> QED
  BY <1>2, <1>3

-----------------------------------------------------------------------------
\* Nothing has happened yet.
LEMMA InitInv == Init => IInv
<1> SUFFICES ASSUME Init PROVE IInv
  OBVIOUS
<1>1. TypeOK
  BY DEF Init, TypeOK, CallState
<1>2. \A c \in Callers : Justified(c)
  BY DEF Init, Justified
<1>3. \A o \in Orders : MadeBy(o) /\ Settled(o) /\ ReturnUnderWay(o)
  BY DEF Init, MadeBy, Settled, ReturnUnderWay
<1>4. RefundReturnsMoney /\ RowMatchesTrade /\ ClosedMeansRefunded
  BY DEF Init, RefundReturnsMoney, RowMatchesTrade, ClosedMeansRefunded, RealThroughout
<1> QED
  BY <1>1, <1>2, <1>3, <1>4 DEF IInv

LEMMA InvStep == IInv /\ [Next]_vars => IInv'
<1> SUFFICES ASSUME IInv, [Next]_vars PROVE IInv'
  OBVIOUS
<1>1. TypeOK'
  BY TypeStep DEF IInv
<1>2. \A c \in Callers : Justified(c)'
  BY JustifiedStep DEF IInv
<1>3. \A o \in Orders : ReturnUnderWay(o)'
  BY ReturnStep
<1> QED
  BY <1>1, <1>2, <1>3, InvOfColumns DEF IInv

\* The inductive invariant of the money of an order (pay.go, settlement.go,
\* refund.go): every call is justified at the step it has reached, and the
\* tables and the gateway tell the same story, for any orders and goroutines.
THEOREM PaymentInvariance == Spec => []IInv
<1>1. Init => IInv
  BY InitInv
<1>2. IInv /\ [Next]_vars => IInv'
  BY InvStep
<1> QED
  BY <1>1, <1>2, PTL DEF Spec

\* Settlement and refund may race in any way: a paid order that is refunded got
\* its money back from the real gateway first, unless the program did not find
\* its payments row or the mock answered for it.
THEOREM MoneyComesBack == Spec => []RefundReturnsMoney
<1>1. IInv => RefundReturnsMoney
  BY DEF IInv
<1> QED
  BY <1>1, PaymentInvariance, PTL

\* A payments row says Paid only of a trade that was captured, and MOCK_ only
\* where there is no trade, as long as the gateway that made it answers for it.
THEOREM RowsMatchTrades == Spec => []RowMatchesTrade
<1>1. IInv => RowMatchesTrade
  BY DEF IInv
<1> QED
  BY <1>1, PaymentInvariance, PTL

\* Money that went back leaves no paid order behind: a refund carries it to the
\* table, or was cut off on the way.
THEOREM ReturnedIsNotPaid == Spec => []PaidNotReturned
<1>1. IInv => PaidNotReturned
  BY DEF IInv, ReturnUnderWay, PaidNotReturned
<1> QED
  BY <1>1, PaymentInvariance, PTL

\* Refund() closes a payments row only behind an order that is refunded, and
\* no settlement takes a refunded order back.
THEOREM ClosedIsRefunded == Spec => []ClosedMeansRefunded
<1>1. IInv => ClosedMeansRefunded
  BY DEF IInv
<1> QED
  BY <1>1, PaymentInvariance, PTL
=============================================================================
