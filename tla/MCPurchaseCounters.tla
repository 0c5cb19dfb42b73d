------------------------- MODULE MCPurchaseCounters -------------------------
(***************************************************************************)
(* A TLC instance of PurchaseCounters: three orders of a user who may have *)
(* one, and two goroutines that settle them. Once the client has repeated  *)
(* a command (it may repeat two), or both counters have been disturbed,    *)
(* only two of the orders are begun.                                       *)
(***************************************************************************)
EXTENDS PurchaseCounters, TLC

CONSTANTS o1, o2, o3, c1, c2

MCOrders   == {o1, o2, o3}
MCSettlers == {c1, c2}

MCSymmetry == Permutations(MCOrders) \union Permutations(MCSettlers)

\* Bound.
TwoOrdersWhenDisturbed ==
  resends > 0 \/ disturbed = {"active", "take"} => \E o \in Orders : locking[o] = "start"
=============================================================================
