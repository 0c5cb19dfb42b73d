---------------------------- MODULE MCTeamLedger ----------------------------
(***************************************************************************)
(* TLC instance of TeamLedger.                                             *)
(***************************************************************************)
EXTENDS TeamLedger, TLC

CONSTANTS o1, o2, o3, o4, t1, c1, c2

MCOrders  == {o1, o2, o3, o4}
MCTeams   == {t1}
MCCallers == {c1, c2}
MCTargets == {1, 2}

MCSymmetry == Permutations(MCOrders) \union Permutations(MCCallers)
=============================================================================
