----------------------------- MODULE MCLockFlow -----------------------------
(***************************************************************************)
(* TLC instances of LockFlow. One request opens a team of two, a second    *)
(* user asks to join it.                                                   *)
(* MCLockFlow.cfg: either the join is sent twice or a third user sends its *)
(* outTradeNo; the join may be a direct purchase instead and meets every   *)
(* fault, keys expire early, and orders are refunded.                      *)
(* MCLockDuplicate.cfg: the second user asks twice, under two outTradeNo   *)
(* values.                                                                 *)
(***************************************************************************)
EXTENDS LockFlow, TLC

CONSTANTS opener, join, resent, other, stranger, t1, c1, xA, xB, xC, u1, u2, u3

Meeting    == {opener, join, resent, stranger}
Contending == {opener, join, other}
MCTrades   == {xA, xB, xC}
TwoTrades  == {xA, xB}
MCUsers    == {u1, u2}
ThreeUsers == {u1, u2, u3}
MCTradeOf  == (opener :> xA) @@ (join :> xB) @@ (resent :> xB) @@ (other :> xC)
                @@ (stranger :> xB)
MCUserOf   == (opener :> u1) @@ (join :> u2) @@ (resent :> u2) @@ (other :> u2)
                @@ (stranger :> u3)
MCOpens    == {opener}
Directly   == {join}
NoDirects  == {}
MCFaulty   == {join}
MCTeams    == {t1}
MCCallers  == {c1}
Nobody     == {}
MCTargets  == {2}

-----------------------------------------------------------------------------
(* Bounds on what may come together in one behaviour.                      *)

RefundedTrades == {TradeOf[r] : r \in {s \in Requests : status[s] = "Refunded"}}

Refunds == refund[c1] # L!Idle \/ doubled # {} \/ RefundedTrades # {}

\* What a fault, an early expiry or a direct purchase left behind; a leaked
\* permit counts unless a refund may have left it.
Marked ==
  \/ unbacked # {} \/ unguarded # {} \/ lapsed # {}
  \/ \E p \in leaked : p[2] \notin RefundedTrades
  \/ \E r \in Requests : pc[r] = "dead" \/ direct[r] # "none"

OneHazardAtATime ==
  /\ pc[resent] = "start" \/ pc[stranger] = "start"
  /\ Refunds => ~Marked
  /\ pc[stranger] # "start" => status[opener] # "Refunded"
=============================================================================
