--------------------------- MODULE MCNotifyTasks ---------------------------
(***************************************************************************)
(* TLC instance of NotifyTasks: one handler, two instances of the         *)
(* application, two attempts per task, pages of one row. The outbox holds  *)
(* a settlement and a refund task per member.                              *)
(***************************************************************************)
EXTENDS NotifyTasks

CONSTANTS m1, h1, s1, s2

MCOne      == {m1}
MCHandlers == {h1}
MCScanners == {s1, s2}
=============================================================================
