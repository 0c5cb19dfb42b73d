---------------------------- MODULE MCTimeoutScan ----------------------------
(***************************************************************************)
(* A TLC instance of TimeoutScan: pages of two rows, three orders, of      *)
(* which at most one can not be refunded or can not be found. The first is *)
(* a direct purchase: either the two team orders behind it fill a page, or *)
(* one more direct purchase and a team order mix with it on one.           *)
(***************************************************************************)
EXTENDS TimeoutScan

CONSTANT s1

MCIds      == 1 .. 3
MCScanners == {s1}
MCMixtures == {{1}, {1, 2}}
=============================================================================
