--------------------------- MODULE MCPaymentFlow ---------------------------
(***************************************************************************)
(* TLC instances of PaymentFlow: one order, with a mock or a real payment, *)
(* and two goroutines beside the sweep.                                    *)
(***************************************************************************)
EXTENDS PaymentFlow, TLC

CONSTANTS o1, h1, h2, sweeper

MCOrders   == {o1}
MCHandlers == {h1, h2}

BothGateways == BOOLEAN
RealGateway  == {FALSE}

\* Bound: one of them serves callbacks and polls only.
SecondConfirms == call[h2] # Idle => call[h2].kind \in {"notify", "poll"}
=============================================================================
