------------------------------ MODULE MCTrial ------------------------------
(***************************************************************************)
(* TLC instance of Trial: two activities and two discounts, of which one   *)
(* is in use, a change of any kind, and prices and rules that meet the     *)
(* floor, the threshold and half a cent, with a price of nothing and a     *)
(* rule that adds to the price among them.                                 *)
(***************************************************************************)
EXTENDS Trial

CONSTANTS a1, a2, d1, d2, t1

MCActivities == {a1, a2}
MCDiscounts  == {d1, d2}
MCRequests   == {t1}
MCPrices     == {0, 1, 100}

Row(active, discount, end, tag) ==
  [active |-> active, start |-> 0, end |-> end, discount |-> discount, tag |-> tag,
   scope |-> [hides |-> TRUE, bars |-> FALSE]]

MCActivityRows == {Row(TRUE, d1, 1, FALSE), Row(FALSE, d1, 1, FALSE), Row(TRUE, d2, 0, TRUE)}

Rule(plan, amount, threshold, tagged) ==
  [plan |-> plan, amount |-> amount, threshold |-> threshold, tagged |-> tagged]

MCRules == {Rule("ZJ", 100, 0, FALSE), Rule("MJ", 20, 100, FALSE),
            Rule("ZK", 50, 0, TRUE), Rule("N", 30, 0, FALSE), Rule("ZK", 150, 0, FALSE),
            Rule("unreadable", 0, 0, FALSE)}

\* Any rule for the activity in use. The other prices come with a change.
MCFirstTables ==
  {[mapping  |-> a1,
    activity |-> [a \in MCActivities |-> IF a = a1 THEN Row(TRUE, d1, 1, FALSE) ELSE Row(TRUE, d2, 0, TRUE)],
    discount |-> [d \in MCDiscounts |-> IF d = d1 THEN rule ELSE Rule("ZK", 50, 0, TRUE)],
    product  |-> 100] : rule \in MCRules}
=============================================================================
