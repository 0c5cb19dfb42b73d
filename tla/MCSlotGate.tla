----------------------------- MODULE MCSlotGate -----------------------------
(***************************************************************************)
(* TLC instance of SlotGate: two teams, and an activity whose target count *)
(* an administrator may change between calls.                              *)
(***************************************************************************)
EXTENDS SlotGate, TLC

CONSTANTS t1, t2, p1, p2, p3, p4

MCTeams   == {t1, t2}
MCTrades == {p1, p2, p3, p4}
MCTargets == {2, 3}

MCSymmetry == Permutations(MCTeams) \union Permutations(MCTrades)
=============================================================================
