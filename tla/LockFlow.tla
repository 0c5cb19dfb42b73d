------------------------------ MODULE LockFlow ------------------------------
(***************************************************************************)
(* LockService.Lock (internal/service/lock.go): a request for a seat goes  *)
(* through the result cache and the order lock in Redis, the slot gate     *)
(* (SlotGate), the tables (TeamLedger) and the payment gateway, and undoes *)
(* what it did when a later stage refuses. Refund calls run beside it and  *)
(* give seats back to the gate when they are through with the tables. A    *)
(* direct purchase takes the same way but for gate and teams.              *)
(*                                                                         *)
(* Each action is one call to Redis, MySQL or the gateway; between two of  *)
(* them anybody else may run, and the process may die.                     *)
(***************************************************************************)
EXTENDS Integers, FiniteSets, SlotGate

CONSTANTS
  Requests,    \* calls of Lock(); the order row a call inserts bears its name
  Users,
  TradeOf,     \* the outTradeNo of a request, chosen by its caller: retries and
               \* duplicates share one, and other users may send the same
  UserOf,      \* the user of a request
  Opens,       \* requests without a team_id, which open a team
  Directs,     \* requests that may be direct purchases
  Callers, NoTeam,
  NoReq,       \* nobody
  Fading,      \* bound: teams whose keys may expire while they can be joined
  Faulty       \* bound: requests that may meet a crash, a lost reply, a failed
               \* statement, have commands repeated by the Redis client, and whose
               \* lock and cached result may expire

ASSUME FlowAssumption ==
  /\ \A r \in Requests : TradeOf[r] \in Trades /\ UserOf[r] \in Users
  /\ Opens \subseteq Requests /\ Directs \subseteq Requests
  /\ Faulty \subseteq Requests /\ Fading \subseteq Teams
  /\ NoReq \notin Requests
  /\ NoTeam \notin Teams
  /\ IsFiniteSet(Requests)

VARIABLES
  pc,          \* where each request stands in Lock()
  goal,        \* the team each request asks for, NoTeam before it is known
  saw,         \* the order a request found for its outTradeNo
  lock,        \* lock:order:{user}:{outTradeNo}, with the request as token
  cached,      \* lock:result:{user}:{outTradeNo}, the order in the result
  direct,      \* orders.status of direct purchases, which have no team
  leaked,      \* history: permits whose owner died or failed before returning them
  unbacked,    \* history: orders that stay although their permit was given back,
               \* as far as the call knew
  unguarded,   \* history: keys whose lock ran out under its holder, or whose
               \* order a request failed to look up
  crossed,     \* history: outTradeNo values under which calls of two users met
  lapsed       \* history: permits that went with the holders key of a team that
               \* could still be joined

VARIABLES status, teamOf, team, expired, paying, refund, stranded, doubled \* TeamLedger

L == INSTANCE TeamLedger WITH Orders <- Requests

history    == <<leaked, unbacked, unguarded, crossed, lapsed>>
flowVars   == <<pc, goal, saw, lock, cached, direct, history>>
ledgerVars == <<status, teamOf, team, expired, paying, refund, stranded, doubled>>
vars       == <<flowVars, gateVars, ledgerVars>>

\* What lock and cached are keyed by; permits and rows have the outTradeNo alone.
Keys     == Users \X Trades
KeyOf(r) == <<UserOf[r], TradeOf[r]>>

-----------------------------------------------------------------------------
Init ==
  /\ pc       = [r \in Requests |-> "start"]
  /\ goal     = [r \in Requests |-> NoTeam]
  /\ saw      = [r \in Requests |-> NoReq]
  /\ lock     = [k \in Keys |-> NoReq]
  /\ cached   = [k \in Keys |-> NoReq]
  /\ direct   = [r \in Requests |-> "none"]
  /\ leaked   = {}
  /\ unbacked = {}
  /\ unguarded = {}
  /\ crossed  = {}
  /\ lapsed   = {}
  /\ GateInit
  /\ L!Init

Goto(r, label) == pc' = [pc EXCEPT ![r] = label] /\ UNCHANGED lock

\* The token check of the release script.
FreeOwnLock(r) == IF lock[KeyOf(r)] = r THEN NoReq ELSE lock[KeyOf(r)]

\* Return from Lock(): the deferred release runs.
Return(r) ==
  /\ pc' = [pc EXCEPT ![r] = "done"]
  /\ lock' = [lock EXCEPT ![KeyOf(r)] = FreeOwnLock(r)]

Permit(r) == <<goal[r], TradeOf[r]>>

Stored == {"Locked", "Paid", "Refunded"}

\* Past the lock.
Running(r) == pc[r] \notin {"start", "missed", "done", "dead"}

\* A team that is forming or still to be opened; none ever comes back to it.
MayOpen(t) == team[t].status \in {"none", "Forming"} /\ t \notin expired

\* The rows of an outTradeNo, unique in the table.
RowsOf(x) == {s \in Requests : TradeOf[s] = x /\ (status[s] \in Stored \/ direct[s] \in Stored)}

SameUser(r, s) == UserOf[s] = UserOf[r]

OwnRows(r) == {s \in RowsOf(TradeOf[r]) : SameUser(r, s)}

-----------------------------------------------------------------------------
(* Idempotency: cache, lock, cache and table again.                        *)

CacheHit(r) ==
  /\ pc[r] = "start"
  /\ cached[KeyOf(r)] # NoReq
  /\ pc' = [pc EXCEPT ![r] = "done"]
  /\ UNCHANGED <<goal, saw, direct, lock, cached, history, gateVars, ledgerVars>>

CacheMiss(r) ==
  /\ pc[r] = "start"
  /\ cached[KeyOf(r)] = NoReq
  /\ Goto(r, "missed")
  /\ UNCHANGED <<goal, saw, direct, cached, history, gateVars, ledgerVars>>

AcquireUnheld(r) == TRUE

\* SETNX.
Acquirable(r) == lock[KeyOf(r)] = NoReq

\* Another user's call with this outTradeNo is past its own lock.
Meets(r) == \E s \in Requests : TradeOf[s] = TradeOf[r] /\ ~SameUser(r, s) /\ Running(s)

AcquireLock(r) ==
  /\ pc[r] = "missed"
  /\ Acquirable(r)
  /\ pc' = [pc EXCEPT ![r] = "recheck"]
  /\ lock' = [lock EXCEPT ![KeyOf(r)] = r]
  /\ crossed' = IF Meets(r) THEN crossed \union {TradeOf[r]} ELSE crossed
  /\ UNCHANGED <<goal, saw, direct, cached, leaked, unbacked, unguarded, lapsed, gateVars,
                 ledgerVars>>

\* "system busy, please retry".
LockHeld(r) ==
  /\ pc[r] = "missed"
  /\ ~Acquirable(r)
  /\ Goto(r, "done")
  /\ UNCHANGED <<goal, saw, direct, cached, history, gateVars, ledgerVars>>

RecheckCached(r) ==
  /\ pc[r] = "recheck"
  /\ cached[KeyOf(r)] # NoReq
  /\ Return(r)
  /\ UNCHANGED <<goal, saw, direct, cached, history, gateVars, ledgerVars>>

\* A row of this user counts whatever its status.
FindExistingOrder(r) ==
  /\ pc[r] = "recheck"
  /\ cached[KeyOf(r)] = NoReq
  /\ \E s \in OwnRows(r) : saw' = [saw EXCEPT ![r] = s]
  /\ Goto(r, "found")
  /\ UNCHANGED <<goal, direct, cached, history, gateVars, ledgerVars>>

CacheExisting(r) ==
  /\ pc[r] = "found"
  /\ cached' = [cached EXCEPT ![KeyOf(r)] = saw[r]]
  /\ saw' = [saw EXCEPT ![r] = NoReq]
  /\ Return(r)
  /\ UNCHANGED <<goal, direct, history, gateVars, ledgerVars>>

UnknownUnchecked(r) == TRUE

\* No row bears this outTradeNo.
Unknown(r) == RowsOf(TradeOf[r]) = {}

\* Pricing and the purchase limit have no objection. A new team gets a fresh id.
ToTeam(r) ==
  /\ \E t \in Teams :
       /\ IF r \in Opens THEN team[t].status = "none" /\ \A s \in Requests : goal[s] # t
                         ELSE team[t].status # "none"
       /\ goal' = [goal EXCEPT ![r] = t]
  /\ Goto(r, "occupy")

\* A direct purchase asks for no seat and has no limit.
ToDirect(r) == r \in Directs /\ Goto(r, "buy") /\ UNCHANGED goal

\* Nothing before this looks at the kind of purchase.
Pass(r) ==
  /\ pc[r] = "recheck"
  /\ cached[KeyOf(r)] = NoReq
  /\ ToTeam(r) \/ ToDirect(r)
  /\ UNCHANGED <<saw, direct, cached, leaked, unbacked, lapsed, gateVars, ledgerVars>>

Proceed(r) == Pass(r) /\ Unknown(r) /\ UNCHANGED <<unguarded, crossed>>

\* The row is another user's: an error, which is logged and counts as no row.
ProceedBesideForeign(r) ==
  /\ Pass(r)
  /\ ~Unknown(r) /\ OwnRows(r) = {}
  /\ crossed' = crossed \union {TradeOf[r]}
  /\ UNCHANGED unguarded

\* The look-up fails, which counts as no row.
ProceedBlindly(r) ==
  /\ r \in Faulty
  /\ Pass(r)
  /\ OwnRows(r) # {}
  /\ unguarded' = unguarded \union {KeyOf(r)}
  /\ UNCHANGED crossed

\* No such product or activity, not in the crowd, or the purchase limit.
Refuse(r) ==
  /\ pc[r] = "recheck"
  /\ cached[KeyOf(r)] = NoReq
  /\ Return(r)
  /\ UNCHANGED <<goal, saw, direct, cached, history, gateVars, ledgerVars>>

-----------------------------------------------------------------------------
(* lockNewTeam and lockJoinTeam.                                           *)

Occupy(r, n) ==
  /\ pc[r] = "occupy"
  /\ TryOccupyStock(goal[r], TradeOf[r], n)
  /\ IF OccupyResult(goal[r], TradeOf[r], n) = "OccupyFull"
     THEN Return(r)
     ELSE Goto(r, IF r \in Opens THEN "insert" ELSE "check")
  /\ UNCHANGED <<goal, saw, direct, cached, history, ledgerVars>>

\* The script took the seat and its reply was lost: the Redis client sends it
\* again, and finds the permit there or the flag that it set itself; or the
\* call ends here.
OccupyUnanswered(r, n) ==
  /\ r \in Faulty
  /\ pc[r] = "occupy"
  /\ OccupySeat(goal[r], TradeOf[r], n)
  /\ Goto(r, "occupy") \/ Return(r)
  /\ leaked' = leaked \union {Permit(r)}
  /\ UNCHANGED <<goal, saw, direct, cached, unbacked, unguarded, crossed, lapsed, ledgerVars>>

AlreadyMember(r) ==
  \E s \in Requests : /\ UserOf[s] = UserOf[r]
                      /\ teamOf[s] = goal[r]
                      /\ status[s] \in {"Locked", "Paid"}

RefusedAtOnce == "done"

\* Where a request goes that was refused while it holds a permit.
RefusedTo == "giveback"

CheckTeam(r) ==
  /\ pc[r] = "check"
  /\ Goto(r, IF /\ team[goal[r]].status = "Forming"
                /\ goal[r] \notin expired
                /\ ~AlreadyMember(r)
             THEN "insert" ELSE RefusedTo)
  /\ UNCHANGED <<goal, saw, direct, cached, history, gateVars, ledgerVars>>

JoinUnchecked(r, t) ==
  /\ L!Insert(r, t, "join")
  /\ team' = IF L!Exists(t) /\ L!HasRoom(t) THEN L!Bump(t, 1, 0) ELSE team

JoinTx(r, t) == L!JoinTeamWithOrder(r, t)

\* The admission transaction; the unique key lets one row in per outTradeNo.
Commit(r, n) ==
  /\ pc[r] = "insert"
  /\ RowsOf(TradeOf[r]) = {}
  /\ IF r \in Opens THEN L!CreateTeamWithOrder(r, goal[r], n) ELSE JoinTx(r, goal[r])

InsertOrder(r, n) ==
  /\ Commit(r, n)
  /\ Goto(r, "pay")
  /\ UNCHANGED <<goal, saw, direct, cached, history, gateVars>>

InsertRefused(r) ==
  /\ pc[r] = "insert"
  /\ IF r \notin Opens /\ L!Exists(goal[r]) /\ ~L!HasRoom(goal[r])
     THEN Goto(r, "full")
     ELSE /\ RowsOf(TradeOf[r]) # {} \/ (r \notin Opens /\ ~L!Exists(goal[r]))
          /\ Goto(r, "giveback")
  /\ UNCHANGED <<goal, saw, direct, cached, history, gateVars, ledgerVars>>

\* The look-up of the team or of the member fails, or the transaction does.
StatementFails(r) ==
  /\ r \in Faulty
  /\ pc[r] \in {"check", "insert"}
  /\ Goto(r, "giveback")
  /\ UNCHANGED <<goal, saw, direct, cached, history, gateVars, ledgerVars>>

\* The transaction commits and its reply is lost: the call takes it for failed.
CommitLost(r, n) ==
  /\ r \in Faulty
  /\ Commit(r, n)
  /\ unbacked' = unbacked \union {r}
  /\ Goto(r, "giveback")
  /\ UNCHANGED <<goal, saw, direct, cached, leaked, unguarded, crossed, lapsed, gateVars>>

\* The permit given back is the outTradeNo's, whoever of its requests took it.
GiveBack(r) ==
  /\ pc[r] \in {"giveback", "full"}
  /\ ReleaseStock(goal[r], TradeOf[r])
  /\ IF pc[r] = "full" THEN Goto(r, "mark") ELSE Return(r)
  /\ leaked' = leaked \ {Permit(r)}
  /\ paying' = [paying EXCEPT ![r] = "no"]
  /\ UNCHANGED <<goal, saw, direct, cached, unbacked, unguarded, crossed, lapsed,
                 status, teamOf, team, expired, refund, stranded, doubled>>

\* The release was executed and its reply was lost: the client sends it again.
ReleaseUnanswered(r) ==
  /\ r \in Faulty
  /\ pc[r] \in {"giveback", "full", "undo_gate"}
  /\ ReleaseStock(goal[r], TradeOf[r])
  /\ leaked' = leaked \ {Permit(r)}
  /\ UNCHANGED <<pc, goal, saw, lock, direct, cached, unbacked, unguarded, crossed, lapsed,
                 ledgerVars>>

\* The error of a release is dropped.
ReleaseFails(r) ==
  /\ r \in Faulty
  /\ \/ pc[r] = "giveback"  /\ Return(r)
     \/ pc[r] = "full"      /\ Goto(r, "mark")
     \/ pc[r] = "undo_gate" /\ Goto(r, "undo_db")
  /\ leaked' = leaked \union {Permit(r)}
  /\ UNCHANGED <<goal, saw, direct, cached, unbacked, unguarded, crossed, lapsed, gateVars,
                 ledgerVars>>

MarkFull(r) ==
  /\ pc[r] = "mark"
  /\ MarkTeamFull(goal[r])
  /\ Return(r)
  /\ UNCHANGED <<goal, saw, direct, cached, history, ledgerVars>>

-----------------------------------------------------------------------------
(* createPayment, and rollbackLock when it fails.                          *)

PaymentCreated(r) ==
  /\ pc[r] = "pay"
  /\ L!PaymentCreated(r)
  /\ Goto(r, "cache")
  /\ UNCHANGED <<goal, saw, direct, cached, history, gateVars>>

PaymentFails(r) ==
  /\ pc[r] = "pay"
  /\ Goto(r, "undo_gate")
  /\ UNCHANGED <<goal, saw, direct, cached, history, gateVars, ledgerVars>>

UndoGate(r) ==
  /\ pc[r] = "undo_gate"
  /\ ReleaseStock(goal[r], TradeOf[r])
  /\ leaked' = leaked \ {Permit(r)}
  /\ Goto(r, "undo_db")
  /\ UNCHANGED <<goal, saw, direct, cached, unbacked, unguarded, crossed, lapsed, ledgerVars>>

UndoTables(r) ==
  /\ pc[r] = "undo_db"
  /\ L!RollbackNewTeam(r) \/ L!RollbackJoinTeam(r)
  /\ Return(r)
  /\ UNCHANGED <<goal, saw, direct, cached, history, gateVars>>

\* Best effort: the error is logged and the order stays.
UndoTablesFails(r) ==
  /\ r \in Faulty
  /\ pc[r] = "undo_db"
  /\ L!PaymentCreated(r)
  /\ Return(r)
  /\ unbacked' = unbacked \union {r}
  /\ UNCHANGED <<goal, saw, direct, cached, leaked, unguarded, crossed, lapsed, gateVars>>

CacheResult(r) ==
  /\ pc[r] = "cache"
  /\ cached' = [cached EXCEPT ![KeyOf(r)] = r]
  /\ Return(r)
  /\ UNCHANGED <<goal, saw, direct, history, gateVars, ledgerVars>>

-----------------------------------------------------------------------------
(* lockDirectBuy and rollbackDirectBuy.                                    *)

CreateDirectOrder(r) ==
  /\ pc[r] = "buy"
  /\ RowsOf(TradeOf[r]) = {}
  /\ direct' = [direct EXCEPT ![r] = "Locked"]
  /\ Goto(r, "payDirect") \/ (r \in Faulty /\ Return(r))
  /\ UNCHANGED <<goal, saw, cached, history, gateVars, ledgerVars>>

\* The unique key, or an error.
DirectRefused(r) ==
  /\ pc[r] = "buy"
  /\ RowsOf(TradeOf[r]) # {} \/ r \in Faulty
  /\ Return(r)
  /\ UNCHANGED <<goal, saw, direct, cached, history, gateVars, ledgerVars>>

DirectPayment(r) ==
  /\ pc[r] = "payDirect"
  /\ Goto(r, "cache") \/ Goto(r, "undoDirect")
  /\ UNCHANGED <<goal, saw, direct, cached, history, gateVars, ledgerVars>>

\* The row goes whatever its status; an error leaves it.
DeleteOrder(r) ==
  /\ pc[r] = "undoDirect"
  /\ \/ direct' = [direct EXCEPT ![r] = "deleted"]
     \/ r \in Faulty /\ UNCHANGED direct
  /\ Return(r)
  /\ UNCHANGED <<goal, saw, cached, history, gateVars, ledgerVars>>

-----------------------------------------------------------------------------
(* The process dies; keys expire.                                          *)

HasPermit(r) == pc[r] \in {"check", "insert", "giveback", "full"}

Crash(r) ==
  /\ r \in Faulty
  /\ Running(r)
  /\ pc' = [pc EXCEPT ![r] = "dead"]
  /\ leaked' = IF HasPermit(r) THEN leaked \union {Permit(r)} ELSE leaked
  /\ unbacked' = IF pc[r] \in {"undo_gate", "undo_db"} THEN unbacked \union {r} ELSE unbacked
  /\ paying' = [paying EXCEPT ![r] = "no"]
  /\ UNCHANGED <<goal, saw, direct, lock, cached, unguarded, crossed, lapsed, gateVars,
                 status, teamOf, team, expired, refund, stranded, doubled>>

LockExpires(k) ==
  /\ lock[k] \in Faulty
  /\ lock' = [lock EXCEPT ![k] = NoReq]
  /\ unguarded' = IF Running(lock[k]) THEN unguarded \union {k} ELSE unguarded
  /\ UNCHANGED <<pc, goal, saw, direct, cached, leaked, unbacked, crossed, lapsed, gateVars,
                 ledgerVars>>

CacheExpires(k) ==
  /\ cached[k] \in Faulty
  /\ cached' = [cached EXCEPT ![k] = NoReq]
  /\ UNCHANGED <<pc, goal, saw, direct, lock, history, gateVars, ledgerVars>>

TeamExpires(t) ==
  /\ L!TeamExpires(t)
  /\ UNCHANGED <<flowVars, gateVars>>

\* Keys may go while the team can still be joined. The time to live of the
\* holders starts in the script, before the team's validity is computed, and
\* again with whoever is first in an emptied set; that of the flag with the
\* caller that sets it. All are the activity's, which may have changed.
MayExpire(t) == t \in Fading \union expired

HoldersExpire(t) ==
  /\ MayExpire(t)
  /\ ExpireHolders(t)
  /\ lapsed' = IF MayOpen(t) THEN lapsed \union ({t} \X holders[t]) ELSE lapsed
  /\ UNCHANGED <<pc, goal, saw, lock, cached, direct, leaked, unbacked, unguarded, crossed,
                 ledgerVars>>

FlagExpires(t) ==
  /\ MayExpire(t)
  /\ ExpireFull(t)
  /\ UNCHANGED <<flowVars, ledgerVars>>

-----------------------------------------------------------------------------
(* Settlement and refund calls beside it.                                  *)

Settle(r) ==
  /\ L!SettleOrder(r)
  /\ UNCHANGED <<flowVars, gateVars>>

\* Each is one UPDATE on the status that was read.
DirectLeaves(r) ==
  /\ \/ direct[r] = "Locked" /\ direct' = [direct EXCEPT ![r] = "Paid"]
     \/ direct[r] \in {"Locked", "Paid"} /\ direct' = [direct EXCEPT ![r] = "Refunded"]
  /\ UNCHANGED <<pc, goal, saw, lock, cached, history, gateVars, ledgerVars>>

RefundTables(c) ==
  /\ \/ \E r \in Requests : L!ReadForRefund(c, r)
     \/ L!FlipOrder(c)
     \/ L!LoseRace(c)
     \/ L!UpdateTeam(c)
  /\ UNCHANGED <<flowVars, gateVars>>

Refunded(c) == <<teamOf[refund[c].ord], TradeOf[refund[c].ord]>>

\* A team that has completed keeps its seats.
Releases(path) == path # "paidTeam"

RefundReleases(c) ==
  /\ Releases(refund[c].path)
  /\ ReleaseStock(Refunded(c)[1], Refunded(c)[2])
  /\ leaked' = leaked \ {Refunded(c)}

RefundTail(c) ==
  /\ L!FinishRefund(c)
  /\ RefundReleases(c) \/ (~Releases(refund[c].path) /\ UNCHANGED <<leaked, gateVars>>)
  /\ UNCHANGED <<pc, goal, saw, direct, lock, cached, unbacked, unguarded, crossed, lapsed>>

\* Executed, the reply lost: sent again.
RefundReleaseUnanswered(c) ==
  /\ refund[c] # L!Idle
  /\ refund[c].at = "tail"
  /\ RefundReleases(c)
  /\ UNCHANGED <<pc, goal, saw, direct, lock, cached, unbacked, unguarded, crossed, lapsed,
                 ledgerVars>>

RefundStops(c) ==
  /\ L!UpdateTeamFails(c) \/ L!AbandonRefund(c)
  /\ leaked' = IF refund[c].at \in {"flipped", "tail"}
               THEN leaked \union {Refunded(c)} ELSE leaked
  /\ UNCHANGED <<pc, goal, saw, direct, lock, cached, unbacked, unguarded, crossed, lapsed,
                 gateVars>>

-----------------------------------------------------------------------------
LockStep(r) ==
  \/ CacheHit(r) \/ CacheMiss(r) \/ AcquireLock(r) \/ LockHeld(r) \/ RecheckCached(r)
  \/ FindExistingOrder(r) \/ CacheExisting(r)
  \/ Proceed(r) \/ ProceedBlindly(r) \/ ProceedBesideForeign(r) \/ Refuse(r)
  \/ \E n \in Targets : \/ Occupy(r, n) \/ OccupyUnanswered(r, n)
                       \/ InsertOrder(r, n) \/ CommitLost(r, n)
  \/ CheckTeam(r) \/ InsertRefused(r) \/ StatementFails(r)
  \/ GiveBack(r) \/ ReleaseUnanswered(r) \/ ReleaseFails(r) \/ MarkFull(r)
  \/ PaymentCreated(r) \/ PaymentFails(r)
  \/ UndoGate(r) \/ UndoTables(r) \/ UndoTablesFails(r) \/ CacheResult(r)
  \/ CreateDirectOrder(r) \/ DirectRefused(r) \/ DirectPayment(r) \/ DeleteOrder(r)

RefundStep(c) ==
  RefundTables(c) \/ RefundTail(c) \/ RefundReleaseUnanswered(c) \/ RefundStops(c)

Next ==
  \/ \E r \in Requests : LockStep(r) \/ Crash(r) \/ Settle(r) \/ DirectLeaves(r)
  \/ \E k \in Keys : LockExpires(k) \/ CacheExpires(k)
  \/ \E t \in Teams : TeamExpires(t) \/ HoldersExpire(t) \/ FlagExpires(t)
  \/ \E c \in Callers : RefundStep(c)

Spec == Init /\ [][Next]_vars

-----------------------------------------------------------------------------
\* Type invariant.
TypeOK ==
  /\ pc \in [Requests -> {"start", "missed", "recheck", "found", "occupy", "check", "insert",
                          "giveback", "full", "mark", "pay", "undo_gate", "undo_db",
                          "cache", "buy", "payDirect", "undoDirect", "done", "dead"}]
  /\ goal \in [Requests -> Teams \union {NoTeam}]
  /\ saw \in [Requests -> Requests \union {NoReq}]
  /\ lock \in [Keys -> Requests \union {NoReq}]
  /\ cached \in [Keys -> Requests \union {NoReq}]
  /\ direct \in [Requests -> Stored \union {"none", "deleted"}]
  /\ leaked \subseteq Teams \X Trades
  /\ unbacked \subseteq Requests
  /\ unguarded \subseteq Keys
  /\ crossed \subseteq Trades
  /\ lapsed \subseteq Teams \X Trades
  /\ GateTypeOK
  /\ L!TypeOK

\* A team its members can still join.
Open(t) == team[t].status = "Forming" /\ t \notin expired

ActiveOf(x, t) == {r \in Requests : /\ TradeOf[r] = x /\ teamOf[r] = t
                                    /\ status[r] \in {"Locked", "Paid"}}

Refunding(x, t) ==
  \E c \in Callers : /\ refund[c] # L!Idle
                     /\ refund[c].at \in {"flipped", "tail"}
                     /\ Refunded(c) = <<t, x>>

Requested(x, t) == \E r \in Requests : TradeOf[r] = x /\ goal[r] = t /\ HasPermit(r)

\* Calls of this outTradeNo were not kept apart, or a rollback deleted a
\* refunded order of it.
Disturbed(x) ==
  \/ x \in crossed
  \/ \E u \in Users : <<u, x>> \in unguarded
  \/ \E s \in doubled : TradeOf[s] = x

\* No seat is lost: in a team that can be joined every permit belongs to an
\* active order, to a request that will use it or give it back, to a refund
\* that is about to release it, or to a process that died.
PermitBacked ==
  \A t \in Teams : Open(t) => \A x \in holders[t] :
    \/ ActiveOf(x, t) # {}
    \/ Requested(x, t)
    \/ Refunding(x, t)
    \/ <<t, x>> \in leaked

\* No seat is sold twice: an active order of a team that can be joined holds
\* its permit, unless a rollback is giving it back or stopped on the way, or the
\* reply of the transaction that made the order was lost. Three more losses: the
\* holders key expired before the team did; a refund that met a rollback of the
\* same outTradeNo releases late and takes the permit of the retry; and calls of
\* one outTradeNo that were not kept apart, because lock or look-up failed or
\* because they are two users', of which the refused one gives the permit back.
SeatHeld ==
  \A r \in Requests :
    status[r] \in {"Locked", "Paid"} /\ Open(teamOf[r]) =>
      \/ TradeOf[r] \in holders[teamOf[r]]
      \/ pc[r] \in {"undo_gate", "undo_db"}
      \/ r \in unbacked
      \/ <<teamOf[r], TradeOf[r]>> \in lapsed
      \/ Disturbed(TradeOf[r])

\* The cache never answers with an order that was rolled back: a failed
\* payment caches nothing (lock.go), and nobody else may cache it either. Only
\* when the lock ran out under its holder may a duplicate cache the order of a
\* call that still waits for the gateway.
CachedIsLive ==
  \A k \in Keys \ unguarded :
    cached[k] # NoReq => status[cached[k]] # "deleted" /\ direct[cached[k]] # "deleted"

\* What a request has in the tables at each of its steps.
RowAt(r) ==
  /\ pc[r] \in {"occupy", "check", "insert", "giveback", "full", "mark", "pay",
                "undo_gate", "undo_db"} => goal[r] \in Teams
  /\ status[r] # "none" =>
       /\ pc[r] \in {"giveback", "pay", "undo_gate", "undo_db", "cache", "done", "dead"}
       /\ pc[r] = "giveback" => r \in unbacked
       /\ teamOf[r] = goal[r]
       /\ direct[r] = "none"
  /\ direct[r] # "none" => pc[r] \in {"payDirect", "undoDirect", "cache", "done", "dead"}
  /\ status[r] = "deleted" \/ direct[r] = "deleted" => pc[r] = "done"

Looked(r) == Running(r) /\ pc[r] \notin {"recheck", "found"}

\* As long as its lock did not run out and no look-up failed, one call of a user
\* and outTradeNo is past the lock, and past the look-up it is the only one with
\* a row. Of other users' calls with this outTradeNo none is past its lock or
\* has a row, as long as none has met this one.
KeptApart(r) ==
  /\ Running(r) /\ KeyOf(r) \notin unguarded =>
       /\ lock[KeyOf(r)] = r
       /\ Looked(r) => OwnRows(r) \subseteq {r}
  /\ Running(r) /\ TradeOf[r] \notin crossed =>
       /\ ~Meets(r)
       /\ Looked(r) => RowsOf(TradeOf[r]) \subseteq OwnRows(r)

UniqueRow(x) == \A r, s \in RowsOf(x) : r = s

\* An order whose call is over, so that no rollback can reach it any more.
Lasting(r) == pc[r] \in {"done", "dead"} /\ status[r] # "deleted" /\ direct[r] # "deleted"

SawLasting(r) ==
  pc[r] = "found" => saw[r] \in Requests /\ (KeyOf(r) \notin unguarded => Lasting(saw[r]))

CachedLasting(k) == k \notin unguarded /\ cached[k] # NoReq => Lasting(cached[k])

\* A refund that keeps the permit met a team that had completed; one past its
\* first write has an order that nobody else can hold.
RefundAt(c) ==
  LET o == refund[c].ord IN
  refund[c] # L!Idle =>
    /\ ~Releases(refund[c].path) => team[teamOf[o]].status \notin {"none", "Forming"}
    /\ refund[c].at # "read" =>
         status[o] = "Refunded" \/ o \in doubled \/ team[teamOf[o]].status = "deleted"

\* PermitBacked, without the orders whose permit is already given back, and from
\* before the team is opened.
Backing(x, t) ==
  \/ \E r \in ActiveOf(x, t) : pc[r] # "undo_db"
  \/ Requested(x, t)
  \/ Refunding(x, t)
  \/ <<t, x>> \in leaked

Backed(t) == MayOpen(t) => \A x \in holders[t] : Backing(x, t)

\* SeatHeld, of the request that is about to insert its order.
HoldsSeat(r) ==
  pc[r] \in {"check", "insert"} /\ MayOpen(goal[r]) =>
    \/ TradeOf[r] \in holders[goal[r]]
    \/ Permit(r) \in lapsed
    \/ Disturbed(TradeOf[r])

\* The inductive invariant, with that of the tables (L!IInv). Permits belong to
\* an outTradeNo and orders to a request; lock, look-up and unique key are what
\* makes the two the same.
IInv ==
  /\ TypeOK
  /\ \A r \in Requests : RowAt(r) /\ KeptApart(r) /\ SawLasting(r) /\ HoldsSeat(r)
  /\ \A x \in Trades : UniqueRow(x)
  /\ \A k \in Keys : CachedLasting(k)
  /\ \A c \in Callers : RefundAt(c)
  /\ \A t \in Teams : Backed(t)
  /\ SeatHeld

\* The tables behind the gate behave as TeamLedger says, so every theorem
\* about TeamLedger holds of Lock() and Refund() as they run here.
LedgerImplemented == L!Spec

\* Refuted. A user has at most one active order in a team.
OneSeatPerUser ==
  \A r, s \in Requests :
    /\ status[r] \in {"Locked", "Paid"} /\ status[s] \in {"Locked", "Paid"}
    /\ UserOf[r] = UserOf[s] /\ teamOf[r] = teamOf[s]
    => r = s
=============================================================================
