------------------------------ MODULE SlotGate ------------------------------
(***************************************************************************)
(* The Redis gate in front of a team: the set of permits that hold a seat  *)
(* and the `full` flag that turns callers away before they reach MySQL.    *)
(* Each action is one atomic script or command: occupy_stock.lua,          *)
(* release_stock.lua, the SET of MarkTeamFull, and the expiry of the keys. *)
(* A permit is an outTradeNo. The target count is the caller's, read from  *)
(* the activity, so it may differ between calls. The keys also bear the    *)
(* activity of the caller, which no code compares with the team's; callers *)
(* here name the activity of the team. Names begin with Gate where         *)
(* LockFlow, which extends this module, has its own.                       *)
(***************************************************************************)
EXTENDS Naturals, FiniteSets

CONSTANTS
  Teams,
  Trades,      \* outTradeNo values, ARGV[1] of the scripts
  Targets      \* target counts callers may pass, ARGV[2]

ASSUME GateAssumption ==
  /\ IsFiniteSet(Trades)
  /\ Targets \subseteq Nat \ {0}
  /\ Targets # {}

VARIABLES
  holders,     \* per team, the members of the holders key
  full,        \* per team, does the full key exist
  unsure       \* history: teams whose flag is not the verdict of the holders

gateVars == <<holders, full, unsure>>

-----------------------------------------------------------------------------
GateInit ==
  /\ holders = [t \in Teams |-> {}]
  /\ full    = [t \in Teams |-> FALSE]
  /\ unsure  = {}

HasSeatOffByOne(t, n) == Cardinality(holders[t]) <= n

HasSeat(t, n) == Cardinality(holders[t]) < n

\* What occupy_stock.lua returns, in the order it checks.
OccupyResult(t, p, n) ==
  CASE full[t]           -> "OccupyFull"
    [] ~full[t] /\ p \in holders[t] -> "OccupyIdempotent"
    [] ~full[t] /\ p \notin holders[t] /\ ~HasSeat(t, n) -> "OccupyFull"
    [] OTHER             -> "OccupyOK"

\* Turned away by the flag, or let in again: the script writes nothing.
OccupyUnchanged(t, p) ==
  /\ full[t] \/ p \in holders[t]
  /\ UNCHANGED gateVars

\* Turned away by the count, which sets the flag for the next caller.
OccupyRefused(t, p, n) ==
  /\ ~full[t]
  /\ p \notin holders[t]
  /\ ~HasSeat(t, n)
  /\ full' = [full EXCEPT ![t] = TRUE]
  /\ UNCHANGED <<holders, unsure>>

\* A seat is taken; the last one sets the flag.
OccupySeat(t, p, n) ==
  /\ ~full[t]
  /\ p \notin holders[t]
  /\ HasSeat(t, n)
  /\ holders' = [holders EXCEPT ![t] = @ \union {p}]
  /\ full' = [full EXCEPT ![t] = Cardinality(holders[t]) + 1 >= n]
  /\ UNCHANGED unsure

TryOccupyStock(t, p, n) ==
  OccupyUnchanged(t, p) \/ OccupyRefused(t, p, n) \/ OccupySeat(t, p, n)

FlagKept(t) == full[t]

\* DEL of the full key.
FlagAfterRelease(t) == FALSE

ReleaseStock(t, p) ==
  /\ holders' = [holders EXCEPT ![t] = @ \ {p}]
  /\ full' = [full EXCEPT ![t] = FlagAfterRelease(t)]
  /\ unsure' = unsure \ {t}

\* A caller that MySQL told the team is full says so here, some time later.
MarkTeamFull(t) ==
  /\ full' = [full EXCEPT ![t] = TRUE]
  /\ unsure' = unsure \union {t}
  /\ UNCHANGED holders

\* The holders key carries the time to live of its first member.
ExpireHolders(t) ==
  /\ holders[t] # {}
  /\ holders' = [holders EXCEPT ![t] = {}]
  /\ unsure' = IF full[t] THEN unsure \union {t} ELSE unsure
  /\ UNCHANGED full

ExpireFull(t) ==
  /\ full[t]
  /\ full' = [full EXCEPT ![t] = FALSE]
  /\ unsure' = unsure \ {t}
  /\ UNCHANGED holders

GateNext ==
  \E t \in Teams :
    \/ \E p \in Trades : \/ \E n \in Targets : TryOccupyStock(t, p, n)
                         \/ ReleaseStock(t, p)
    \/ MarkTeamFull(t)
    \/ ExpireHolders(t)
    \/ ExpireFull(t)

GateSpec == GateInit /\ [][GateNext]_gateVars

-----------------------------------------------------------------------------
\* Type invariant.
GateTypeOK ==
  /\ holders \in [Teams -> SUBSET Trades]
  /\ full \in [Teams -> BOOLEAN]
  /\ unsure \subseteq Teams

\* A team's permits never outnumber the largest target a caller passed for
\* it, whatever releases, expiries and repeated requests come between.
CapacityBound ==
  \A t \in Teams : \E n \in Targets : Cardinality(holders[t]) <= n

\* Unless the flag was set on MySQL's word or outlived the holders, it is up
\* only while some caller's target is reached: a freed seat is offered again.
FlagMeansFull ==
  \A t \in Teams : full[t] /\ t \notin unsure =>
    \E n \in Targets : Cardinality(holders[t]) >= n
=============================================================================
