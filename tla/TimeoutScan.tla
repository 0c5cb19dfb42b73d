----------------------------- MODULE TimeoutScan -----------------------------
(***************************************************************************)
(* The sweep of overdue orders. Cron starts a scan on every instance       *)
(* (internal/app/app.go); the one that gets the scan lock pages through    *)
(* the overdue orders and hands each to Refund()                           *)
(* (internal/service/timeout.go). A page comes from two queries, team      *)
(* orders first and direct purchases in what room is left, under one       *)
(* cursor (internal/repository/order.go: FindTimeoutOrders). Team orders   *)
(* also have a delayed message each (internal/infra/mq/consumer.go),       *)
(* direct purchases have not.                                              *)
(*                                                                         *)
(* Ids stand for the orders that bear them. Refund() is one step here; its *)
(* own steps are TeamLedger's and PaymentFlow's subject.                   *)
(***************************************************************************)
EXTENDS Naturals, FiniteSets

CONSTANTS
  Ids,         \* orders.id
  Scanners,    \* goroutines that cron starts
  BatchSize,   \* TimeoutServiceConfig.BatchSize
  Mixtures,    \* bound: the sets that the direct purchases may be
  MaxAside,    \* bound: orders out of reach of Refund() or of the query
  NoOne        \* nobody holds the scan lock

ASSUME ScanAssumption ==
  /\ Ids \subseteq Nat \ {0} /\ IsFiniteSet(Ids)
  /\ BatchSize \in Nat \ {0}
  /\ Mixtures \subseteq SUBSET Ids
  /\ MaxAside \in Nat
  /\ NoOne \notin Scanners

VARIABLES
  direct,      \* orders with team_id = ''
  locked,      \* orders with status Locked
  due,         \* orders whose payment is overdue, or whose team or activity ended
  stuck,       \* locked orders of a complete team
  failed,      \* orders that were stuck until their team failed
  rows,        \* are the rows there of the order's team and of its activity?
  lock,        \* bgm:lock:timeout:scanner
  scan,        \* where each goroutine stands in ScanAndRefund()
  awaited      \* history: orders that were overdue and listed when the scan
               \* began, have been listed since, and that it neither handed to
               \* Refund() nor jumped over yet

vars == <<direct, locked, due, stuck, failed, rows, lock, scan, awaited>>

-----------------------------------------------------------------------------
Idle == [at |-> "idle", last |-> 0, page |-> {}, next |-> 0, full |-> FALSE]

Init ==
  /\ direct \in Mixtures
  /\ locked  = Ids
  /\ due     = {}
  /\ stuck   = {}
  /\ failed  = {}
  /\ rows    = [o \in Ids |-> "whole"]
  /\ lock    = NoOne
  /\ scan    = [s \in Scanners |-> Idle]
  /\ awaited = [s \in Scanners |-> {}]

-----------------------------------------------------------------------------
(* What happens to orders meanwhile.                                       *)

\* Five minutes pass, or the team or the activity ends.
TimePasses(o) ==
  /\ o \in locked \ due
  /\ due' = due \union {o}
  /\ UNCHANGED <<direct, locked, stuck, failed, rows, lock, scan, awaited>>

\* Settled, refunded at the user's request, or deleted by the Lock() that made
\* it and got no payment.
LeavesLocked(o) ==
  /\ o \in locked
  /\ locked' = locked \ {o}
  /\ UNCHANGED <<direct, due, stuck, failed, rows, lock, scan, awaited>>

Aside == stuck \union failed \union {o \in Ids : rows[o] # "whole"}

GoesAside(o) ==
  /\ o \in locked \ direct
  /\ o \in Aside \/ Cardinality(Aside) < MaxAside

\* The order's team is complete without it: Refund() answers "invalid state".
GetsStuck(o) ==
  /\ GoesAside(o)
  /\ o \notin stuck \union failed /\ rows[o] # "noTeam"
  /\ stuck' = stuck \union {o}
  /\ UNCHANGED <<direct, locked, due, failed, rows, lock, scan, awaited>>

\* Everybody who had paid in that team was refunded: the team is failed, and
\* Refund() has a path for its locked orders again. A failed team stays failed.
GetsFree(o) ==
  /\ o \in stuck /\ rows[o] # "noTeam"
  /\ stuck' = stuck \ {o}
  /\ failed' = failed \union {o}
  /\ UNCHANGED <<direct, locked, due, rows, lock, scan, awaited>>

\* Whoever awaits the order does not find it any more.
Unlisted(o, gone) ==
  /\ rows' = [rows EXCEPT ![o] = gone]
  /\ awaited' = [s \in Scanners |-> awaited[s] \ {o}]
  /\ UNCHANGED <<direct, locked, due, stuck, failed, lock, scan>>

\* The Lock() of the team's opener gets no payment and deletes the team, also
\* when others have joined it (RollbackNewTeam).
TeamRemoved(o) ==
  /\ GoesAside(o)
  /\ rows[o] # "noTeam"
  /\ Unlisted(o, "noTeam")

\* An administrator deletes the activity, or makes a new one of that id.
ActivityRemoved(o) ==
  /\ GoesAside(o)
  /\ rows[o] = "whole"
  /\ Unlisted(o, "noActivity")

ActivityCreated(o) ==
  /\ rows[o] = "noActivity"
  /\ rows' = [rows EXCEPT ![o] = "whole"]
  /\ UNCHANGED <<direct, locked, due, stuck, failed, lock, scan, awaited>>

\* Refund() has no path for an order that is stuck, and fails to find the team
\* of one that has none.
Refundable(o) == o \notin stuck /\ rows[o] # "noTeam"

\* Refund() of an order, whatever its status has become: it succeeds, or an
\* error leaves the order as it is.
RefundOrder(o) == locked' = locked \/ (Refundable(o) /\ locked' = locked \ {o})

\* The delayed message of a team order, which may be lost, repeated or late.
MessageArrives(o) ==
  /\ o \in (locked \intersect due) \ direct
  /\ RefundOrder(o)
  /\ UNCHANGED <<direct, due, stuck, failed, rows, lock, scan, awaited>>

-----------------------------------------------------------------------------
(* ScanAndRefund().                                                        *)

TimedOutAnyStatus(o) == o \in due

\* The WHERE of both queries.
TimedOut(o) == o \in locked \intersect due

\* The JOINs of query A, with teams and activities. A direct purchase, which
\* query B finds, has nothing that could be deleted.
Listed(o) == rows[o] = "whole"

\* The n smallest.
First(n, S) == {o \in S : Cardinality({p \in S : p < o}) < n}

Largest(S) == CHOOSE o \in S : \A p \in S : p <= o

Running(s) == scan[s].at # "idle"

AcquireScanLock(s) ==
  /\ ~Running(s)
  /\ lock = NoOne
  /\ lock' = s
  /\ scan' = [scan EXCEPT ![s] = [Idle EXCEPT !.at = "group"]]
  /\ awaited' = [awaited EXCEPT ![s] = {o \in Ids : TimedOut(o) /\ Listed(o)}]
  /\ UNCHANGED <<direct, locked, due, stuck, failed, rows>>

\* orders.id > lastID.
Beyond(s, o) == o > scan[s].last

\* Query A. A full page leaves no room for direct purchases, and those with
\* smaller ids will be behind the cursor.
FindGroupOrders(s) ==
  LET group == First(BatchSize, {o \in Ids \ direct : TimedOut(o) /\ Listed(o) /\ Beyond(s, o)})
      full  == Cardinality(group) >= BatchSize
  IN
  /\ scan[s].at = "group"
  /\ scan' = [scan EXCEPT ![s] =
       [@ EXCEPT !.at = IF full THEN "work" ELSE "direct", !.page = group, !.full = full,
                 !.next = IF full THEN Largest(group) ELSE 0]]
  /\ awaited' = IF full
                THEN [awaited EXCEPT ![s] = {o \in @ : o \notin direct \/ o > Largest(group)}]
                ELSE awaited
  /\ UNCHANGED <<direct, locked, due, stuck, failed, rows, lock>>

Released(s) == IF lock = s THEN NoOne ELSE lock

EndScan(s) ==
  /\ scan' = [scan EXCEPT ![s] = Idle]
  /\ lock' = Released(s)
  /\ awaited' = [awaited EXCEPT ![s] = {}]

CursorAtLargest(group, rest) == Largest(group \union rest)

\* The id of the page's last row, which is a direct purchase if there is any:
\* the cursor may stop short of team orders that were handed over.
CursorAt(group, rest) == IF rest = {} THEN Largest(group) ELSE Largest(rest)

\* Query B. An empty page ends the scan.
FindDirectOrders(s) ==
  LET group == scan[s].page
      rest  == First(BatchSize - Cardinality(group),
                     {o \in direct : TimedOut(o) /\ Beyond(s, o)})
  IN
  /\ scan[s].at = "direct"
  /\ IF group \union rest = {}
     THEN EndScan(s)
     ELSE /\ scan' = [scan EXCEPT ![s] =
               [@ EXCEPT !.at = "work", !.page = group \union rest,
                         !.full = Cardinality(group) + Cardinality(rest) >= BatchSize,
                         !.next = CursorAt(group, rest)]]
          /\ UNCHANGED <<lock, awaited>>
  /\ UNCHANGED <<direct, locked, due, stuck, failed, rows>>

\* Team orders come first.
NextOf(page) == IF page \subseteq direct THEN First(1, page) ELSE First(1, page \ direct)

\* An error is counted and the scan goes on. The order is not looked at again
\* before it is refunded: it may have been paid since the query.
HandOver(s, o) ==
  /\ scan[s].at = "work"
  /\ o \in NextOf(scan[s].page)
  /\ RefundOrder(o)
  /\ scan' = [scan EXCEPT ![s].page = @ \ {o}]
  /\ awaited' = [awaited EXCEPT ![s] = @ \ {o}]
  /\ UNCHANGED <<direct, due, stuck, failed, rows, lock>>

\* A page that was not full was the last one.
TurnPage(s) ==
  /\ scan[s].at = "work" /\ scan[s].page = {}
  /\ IF scan[s].full
     THEN /\ scan' = [scan EXCEPT ![s] = [Idle EXCEPT !.at = "group", !.last = scan[s].next]]
          /\ UNCHANGED <<lock, awaited>>
     ELSE EndScan(s)
  /\ UNCHANGED <<direct, locked, due, stuck, failed, rows>>

\* A query fails; or the process dies, or is shut down, which cancels the
\* context of the queries and of the release of the lock as well.
ScanStops(s) ==
  /\ Running(s)
  /\ scan' = [scan EXCEPT ![s] = Idle]
  /\ awaited' = [awaited EXCEPT ![s] = {}]
  /\ lock' \in {lock, Released(s)}
  /\ scan[s].at = "work" => lock' = lock
  /\ UNCHANGED <<direct, locked, due, stuck, failed, rows>>

\* A minute without a refresh: the holder is gone, or its watch-dog gave up,
\* which the scan does not notice.
LockExpires ==
  /\ lock # NoOne
  /\ lock' = NoOne
  /\ UNCHANGED <<direct, locked, due, stuck, failed, rows, scan, awaited>>

-----------------------------------------------------------------------------
Finish(s) == FindDirectOrders(s) \/ TurnPage(s)

ScanStep(s) ==
  \/ AcquireScanLock(s) \/ FindGroupOrders(s) \/ Finish(s)
  \/ \E o \in Ids : HandOver(s, o)
  \/ ScanStops(s)

Next ==
  \/ \E o \in Ids : \/ TimePasses(o) \/ LeavesLocked(o) \/ MessageArrives(o)
                    \/ GetsStuck(o) \/ GetsFree(o)
                    \/ TeamRemoved(o) \/ ActivityRemoved(o) \/ ActivityCreated(o)
  \/ \E s \in Scanners : ScanStep(s)
  \/ LockExpires

GoesPast(s, o) == HandOver(s, o) /\ (o \in locked' => ~Refundable(o))

\* Cron starts scans again and again, and no failure is tied to a query or to
\* a row: of the scans that come to an order some go past it, and refund it if
\* it can be refunded. Nothing is assumed about messages.
Fairness ==
  /\ WF_vars(LockExpires)
  /\ SF_vars(\E s \in Scanners : AcquireScanLock(s))
  /\ SF_vars(\E s \in Scanners : FindGroupOrders(s))
  /\ SF_vars(\E s \in Scanners : FindDirectOrders(s))
  /\ SF_vars(\E s \in Scanners : TurnPage(s))
  /\ \A o \in Ids : SF_vars(\E s \in Scanners : GoesPast(s, o))

Spec == Init /\ [][Next]_vars /\ Fairness

-----------------------------------------------------------------------------
ScanState ==
  [at : {"idle", "group", "direct", "work"}, last : Ids \union {0}, page : SUBSET Ids,
   next : Ids \union {0}, full : BOOLEAN]

\* Type invariant.
TypeOK ==
  /\ direct \subseteq Ids
  /\ locked \subseteq Ids
  /\ due \subseteq Ids
  /\ stuck \subseteq Ids
  /\ failed \subseteq Ids
  /\ rows \in [Ids -> {"whole", "noActivity", "noTeam"}]
  /\ lock \in Scanners \union {NoOne}
  /\ scan \in [Scanners -> ScanState]
  /\ awaited \in [Scanners -> SUBSET Ids]

\* The orders a scan must still see to.
Waiting(s) == awaited[s] \intersect locked

\* Where they are: ahead of the cursor, on the page, or ahead of the next
\* cursor. Between the queries team orders are on the page already.
Covered(s) ==
  /\ scan[s].at = "idle" => awaited[s] = {}
  /\ scan[s].at = "group" => \A o \in Waiting(s) : Beyond(s, o)
  /\ scan[s].at = "direct" =>
       /\ Cardinality(scan[s].page) < BatchSize
       /\ \A o \in Waiting(s) : IF o \in direct THEN Beyond(s, o) ELSE o \in scan[s].page
  /\ scan[s].at = "work" =>
       \A o \in Waiting(s) : o \in scan[s].page \/ (scan[s].full /\ o > scan[s].next)

\* What a scan awaits is overdue and can be found.
Findable(s) == \A o \in awaited[s] : o \in due /\ Listed(o)

\* Inductive invariant: what a scan must still see to can be found, and the
\* scan will come to it.
IInv ==
  /\ TypeOK
  /\ \A s \in Scanners : Findable(s) /\ Covered(s)

\* A scan that ends of itself has handed over every order that was overdue
\* when it began and still is, although the page is fed by two queries, the
\* cursor may go back, and orders leave the result between the pages. It leaves
\* out only direct purchases that a page full of team orders jumped over, and
\* orders whose team or activity was deleted before they were handed over.
ScanLeavesNothing ==
  [][\A s \in Scanners : Finish(s) /\ scan'[s] = Idle =>
       awaited[s] \intersect locked = {}]_vars

\* No order stays locked because of the paging: what one scan jumps over a
\* later one reaches, as long as the orders that can not be refunded do not
\* fill a page. A direct purchase has no message and depends on this alone.
\* Out of the sweep's reach are only orders of a complete team, and those whose
\* team or activity is deleted.
EveryOverdueSwept ==
  \A o \in Ids : o \in due ~> (o \in locked => o \in stuck \/ ~Listed(o))
=============================================================================
