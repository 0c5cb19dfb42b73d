------------------------------ MODULE GroupBuy ------------------------------
(***************************************************************************)
(* What a group purchase promises its members, with no counters, no        *)
(* transactions and no races in it: an order is admitted to a team, pays   *)
(* while the team is forming, and may leave; a team completes, and         *)
(* dissolves only when no paying member is left. TeamLedger, the tables    *)
(* and transactions of the program, is shown to implement this.            *)
(***************************************************************************)
EXTENDS Naturals, FiniteSets

CONSTANTS Orders, Teams, Targets, NoTeam

VARIABLES
  life,        \* of an order: "none", "Locked", "Paid" or "gone"
  home,        \* the team an order was admitted to
  phase,       \* of a team: "none", "Forming", "Complete", "Failed" or "deleted"
  size         \* the members a team needs

gbvars == <<life, home, phase, size>>

Members(t) == {o \in Orders : home[o] = t /\ life[o] = "Paid"}

Init ==
  /\ life  = [o \in Orders |-> "none"]
  /\ home  = [o \in Orders |-> NoTeam]
  /\ phase = [t \in Teams |-> "none"]
  /\ size  = [t \in Teams |-> 0]

Admit(o, t) ==
  /\ life[o] = "none"
  /\ life' = [life EXCEPT ![o] = "Locked"]
  /\ home' = [home EXCEPT ![o] = t]

Open(o, t, n) ==
  /\ Admit(o, t)
  /\ phase[t] = "none"
  /\ phase' = [phase EXCEPT ![t] = "Forming"]
  /\ size' = [size EXCEPT ![t] = n]

Join(o, t) ==
  /\ Admit(o, t)
  /\ phase[t] \in {"Forming", "Complete", "Failed"}
  /\ UNCHANGED <<phase, size>>

\* Paying is possible only in a forming team that still lacks a member.
Pay(o) ==
  LET t == home[o] IN
  /\ life[o] = "Locked"
  /\ phase[t] = "Forming"
  /\ Cardinality(Members(t)) < size[t]
  /\ life' = [life EXCEPT ![o] = "Paid"]
  /\ \E p \in {"Forming", "Complete"} : phase' = [phase EXCEPT ![t] = p]
  /\ UNCHANGED <<home, size>>

Leave(o) ==
  /\ life[o] \in {"Locked", "Paid"}
  /\ life' = [life EXCEPT ![o] = "gone"]
  /\ UNCHANGED <<home, phase, size>>

\* A complete team fails only when every member has been refunded.
Dissolve(t) ==
  /\ phase[t] = "Complete"
  /\ Members(t) = {}
  /\ phase' = [phase EXCEPT ![t] = "Failed"]
  /\ UNCHANGED <<life, home, size>>

\* The opening of a team is undone: its first order leaves and the team with it.
Undo(o) ==
  /\ life[o] # "none"
  /\ life' = [life EXCEPT ![o] = "gone"]
  /\ phase' = [phase EXCEPT ![home[o]] = "deleted"]
  /\ UNCHANGED <<home, size>>

Next ==
  \/ \E o \in Orders, t \in Teams : \/ \E n \in Targets : Open(o, t, n)
                                    \/ Join(o, t)
  \/ \E o \in Orders : Pay(o) \/ Leave(o) \/ Undo(o)
  \/ \E t \in Teams : Dissolve(t)

Spec == Init /\ [][Next]_gbvars
=============================================================================
