-------------------------- MODULE MCDynamicConfig --------------------------
(***************************************************************************)
(* TLC instance of DynamicConfig: two instances and three changes of a     *)
(* switch.                                                                 *)
(***************************************************************************)
EXTENDS DynamicConfig

CONSTANTS i1, i2, c1, c2, c3, on, off

MCInstances == {i1, i2}
MCCalls     == {c1, c2, c3}
MCValues    == {on, off}
=============================================================================
