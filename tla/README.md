# Group buying: a TLA+ development

The program is a group-purchase back end in Go. A customer opens a team or joins
one, holds a seat while paying, and gets the group price when the team reaches
its target in time; who does not pay loses the seat, who leaves gets the money
back. MySQL keeps the orders, Redis stands in front of it with seat permits,
locks and cached results, Alipay takes the money, RocketMQ delivers timeout
messages and notifications, and several instances of the program run at once.

What is hard here is never one function. It is the order in which the steps of
several calls interleave, and where a call may stop: the calls are sequences of
separate transactions, Redis commands and gateway requests, with best-effort
compensation. That is what is modelled.

Code is referred to as `file.go:function` under `src/internal/`.

## 1. Inventory

| Component | State | Operations | Talks to |
|---|---|---|---|
| Order and team tables (`repository/order.go`) | `orders.status`, `orders.team_id`, `teams.status`, `lock_count`, `complete_count`, `target_count` | create team, join, settle, five refund paths, two rollbacks, conditional status update, time-out queries | called by the three services |
| Slot gate (`redisx/stock.go`, `redisx/lua/occupy_stock.lua`, `release_stock.lua`) | set of permits and `full` flag per team | occupy, release, mark full, expiry | LockService, RefundService |
| LockService (`service/lock.go`) | result cache and order lock per user and outTradeNo | `Lock`: cache, lock, look-up, pricing, gate, transaction, payment, rollback | gate, tables, gateway, MQ |
| SettlementService (`service/settlement.go`) | none of its own | `Settle`: checks, transaction, task | tables, outbox |
| RefundService (`service/refund.go`) | none of its own | `Refund`: read, gateway, flip, team update, close payment, task, release | everything |
| Timeout scanner and consumer (`service/timeout.go`, `infra/mq/consumer.go`, `app/app.go`) | scan lock, paging cursor | sweep of overdue orders, time-out message | RefundService |
| Payments (`handler/pay.go`, `repository/payment.go`, `pay/`) | `payments.status`, `payment_logs`, the trade at Alipay | callback, polling page, create, query, refund | SettlementService |
| Outbox (`service/notify.go`, `repository/notify_task.go`) | `notify_tasks` rows | file, scan, send, record the outcome | merchant, MQ |
| Distributed lock (`redisx/lock.go`) | key with token and time to live | acquire, release, watch-dog | LockService, scanners |
| Trade endpoints (`handler/trade.go`) | - | lock, settle, refund over HTTP | the services |
| Pricing (`service/trial.go`) | an answer per user and goods in Redis, when switched on | three lookups, four discount formulas, crowd rules | local cache, tables, LockService |
| Purchase counters (`redisx/cache.go`, `lua/take_limit_incr.lua`) | active and taken orders per user and activity | increment, decrement, seed | LockService, settlement, refund |
| Dynamic configuration (`config/dynamic/`, `pay/dynamic_gateway.go`) | table, local value, channel | set, load, subscribe, choose gateway | gateway, services |
| Local reference cache (`cache/local.go`, `repository/activity.go`, `product.go`) | activities, discounts, products, mappings | periodic load, lookups | pricing, LockService, settlement |
| Administration of reference data (`handler/admin_activity.go`, `admin_activity_product.go`, `admin_product.go`) | the tables behind the cache | create, update, delete of single rows | - |
| Crowd tags, the other admin and index pages, middleware, metrics, clients, web front end, load test | rows without interaction, or none | CRUD, wiring | - |

### Hard behaviours, and what makes each component right

* **Tables.** Every transaction re-checks its condition under the team's row
  lock or in a `WHERE`, but a service call is several transactions. A refund
  flips the order first and corrects the team afterwards; a payment that cannot
  be created rolls back a commit that others have seen. Right means: no team
  gets more paid members than its target, no team dissolves while it keeps
  somebody's money, settlement and refund never undo one another, counters stay
  in range.
* **Slot gate.** Callers pass a target from a cached activity; keys expire; a
  caller that MySQL refused sets the flag some time later. Right means: permits
  never pass the target, and the flag does not outlive its reason unnoticed.
* **LockService.** The order lock has no watch-dog and three seconds to live; it
  and the cached result are a user's, permits and rows an outTradeNo's; the time
  to live of a permit is not that of its team; every undo is best effort. Right
  means: a permit and an active order go together, a repeated
  request is answered with a live order, a user has one seat per team.
* **Payments.** Callback, poll, settlement endpoint, user refund and sweep meet
  at one order, and the gateway is outside every transaction. Right means: a
  refunded order gave its money back, a settled one kept it, an overdue order
  does not stay locked, a payment that was made is settled or returned.
* **Gateway switch.** A flag chooses the gateway at every call, a payment outlives
  the call that made it. Right means: what the payments row says happened at the
  gateway it names, unless the flag was turned meanwhile.
* **Timeout scan.** One cursor pages through two queries while orders come and
  go, and so do the team and activity rows the first one joins. Right means: a scan leaves out nothing it could have seen, and what it
  leaves out a later one reaches.
* **Outbox.** It is written after the transaction, and read by scanners whose
  lock can be lost. Right means: one task per completion, bounded retries,
  finished tasks stay finished, every task ends.
* **Purchase counters.** Two commands for a decrement, a seed that may be old
  when it arrives, keys that vanish, commands that the Redis client repeats when
  their reply is lost. Right means: a counter that was not
  disturbed never falls short of the orders it counts, and whatever becomes of
  the counters, the count in the settlement transaction bounds the paid orders.

* **Dynamic configuration.** The notification names the key and not the value,
  delivery is at most once, and several instances may set one key, each in its
  own order of table and memory. Right means: instances that hear of every
  change end with the value of the table.
* **Pricing over the local cache.** The cache is filled by four queries, read by
  three lookups, exchanged between them, and backed by tables that change.
  Right means: an answer is never older than the load it rests on, what has a
  price is not given away and its amounts add up, what is gone from the tables leaves the cache.

`PROJECT.json` lists the hazards one by one with the line where each bites and
the properties that watch it.

## 2. The modules

```
GroupBuy            what a group purchase promises        (abstract)
   ^ implemented by
TeamLedger          tables and transactions      <--- TeamLedgerProofs
   ^ INSTANCE                                    SlotGate  permits in Redis
   |                                                ^ EXTENDS
LockFlow            Lock(), with both of them ------+    <--- LockFlowProofs
PaymentFlow         money of an order            <--- PaymentFlowProofs
TimeoutScan         sweep of overdue orders      <--- TimeoutScanProofs
NotifyTasks         outbox of a team             <--- NotifyTasksProofs
PurchaseCounters    purchase limit of a user     <--- PurchaseCountersProofs
DynamicConfig       a key on several instances   <--- DynamicConfigProofs
Trial               price, cache and tables      <--- TrialProofs
```

**TeamLedger** has one action per transaction and one variable per column that
matters. `status`, `teamOf` and `team` are the two tables. `paying` says what
`Lock()` would roll back if the payment could not be created now, `refund`
where a goroutine stands inside `Refund()`: `read` (path chosen), `flipped`
(order updated, team not), `tail` (best-effort steps left). `AbandonRefund` is
a crash or a failed statement at any of these places. `stranded` and `doubled`
are history variables for the two known drifts of `lock_count`. Admission is
as free as the tables leave it: capacity is checked, the team's status is not
(the transaction does not look at it), duplicates are not. The two reads of `Refund()`, order and
team, are one step; the comment at `ReadForRefund` says why.

**GroupBuy** has the same orders with no counters, races or crashes in it.
Refund and rollback are one action `Leave`, and being complete is one phase.
Joining a complete or a dissolved team is allowed in it because the program
allows it: the team's status is checked before the transaction only. Paying is
allowed only in a forming team that lacks a member, and a team dissolves only
when no paying member is left.

**SlotGate** has one action per script or command, each atomic in Redis.
`OccupyResult` is the script's answer in the order of its checks: flag, permit,
count. `unsure` is history: teams whose flag was set on MySQL's word or
outlived the holders key. Its `GateInit`, `GateNext` and `GateSpec` are named so
because LockFlow extends it.

**LockFlow** composes both: it extends SlotGate, whose variables and actions are
part of its own, and instantiates TeamLedger. `pc` walks through `Lock()`, one Redis, MySQL or
gateway call per step; `Occupy`, `GiveBack`, `InsertOrder`, `UndoTables` ...
conjoin a step of `Lock()` with an action of the gate or the tables. Refund calls run
beside it and release the permit in their tail. A lost reply is a separate
action, and so are a statement that fails, an undo that fails and a crash. After a
lost reply the Redis client sends the command again, so the script or the release
has run and its call still stands where it was (`OccupyUnanswered`,
`ReleaseUnanswered`, `RefundReleaseUnanswered`); a transaction is not repeated
(`CommitLost`).

Two keys matter. The order lock and the cached result belong to a user and an
outTradeNo (`KeyOf`), permits and rows to the outTradeNo alone. The look-up
reports the row of another user as an error, which is only logged
(`ProceedBesideForeign`). So two users who send the same outTradeNo run beside one
another, share one permit, and the one that the unique key refuses gives it back.

What the code loses is recorded in history variables, and the properties exempt
these cases and no others: `leaked` has the permits whose owner never returned
them; `unbacked` the orders that stay although their permit went back; `unguarded`
the keys whose order lock ran out under its holder, or whose order a request
failed to look up; `crossed` the outTradeNo values under which calls of two users
met; `lapsed` the permits that went with the holders key of a team that could
still be joined. That key's time to live starts in the occupy script and not with
the team's validity (`MayExpire`), and comes from an activity that may have
changed by the time somebody is first in an emptied set.

A direct purchase is a row of its own
(`direct`, with no team and no seat) and shares the cache, the lock and the
look-up with team orders; `Directs` has the requests that may be one.

**PaymentFlow** follows one call per goroutine through its statements and
gateway requests. Of team and activity there is only whether their rows exist
(`rows`): the compensation of the opener's `Lock()` deletes a team under its
members and an administrator may delete an activity, after which the sweep does
not list the order (`Listed`), and without the team `Refund()` fails on it. Else a
settlement may be refused at any time (`SettleFails`). A direct purchase takes the
steps of an order whose rows stay. `trade` is the
trade at Alipay; the set `mock` has the orders whose payments row bears a trade
number of the mock gateway, because the code decides by that prefix. `useMock`
is the flag that `DynamicGateway` reads at every call, and `SwitchGateway` turns
it at any time: queries, callbacks and refunds of a live Alipay trade may then
be answered by the mock (`QueryMock`, `NotifyMistaken`, `MockRefund`), which
says yes to everything. `misrouted` records the trades this happened to.

**TimeoutScan** is `ScanAndRefund()` over the ids of the orders: the scan lock,
the two queries of a page, the hand-over of each order to `Refund()`, the two
updates of the cursor, and the stops (a failed query, a shutdown that cancels
the context of the release as well, a crash). Beside it orders fall due, are
settled or refunded, and get out of reach of `Refund()` (`stuck`: locked in a
complete team) and back, when that team fails. The first query joins teams and
activities, so an order whose team or activity row is deleted is in no page
(`Listed`); an activity may be created again. `awaited` is history: what was overdue
and listed when the scan began, has been listed since, and is neither handed over
nor jumped over by a full page. Two facts of the
code are visible in it. The cursor is the id of the page's *last* row, a direct
purchase if there is one, so it may go back behind team orders already handed
over, which is harmless; and a page full of team orders puts direct purchases
with smaller ids behind the cursor for the rest of the scan.

**NotifyTasks** has the outbox rows of one team as a sequence in the order of
their ids, the scan lock, and per instance the cursor and the batch it has
copied. Writing back from a stale copy is therefore visible. Settlement and
refund are one step each, followed by the filing as a second one.

**PurchaseCounters** has the orders of one user in one activity and the two
Redis counters of them, which the services keep with single commands after
their transactions. `locking`, `settling` and `tail` say which command of
`Lock()`, `Settle()` and `Refund()` comes next. The count in the settlement
transaction is in `BeginSettle`, not in `SettleOrder`: it is a plain SELECT,
which in MySQL's default isolation reads the snapshot of the transaction's
first SELECT. The client repeats a command that got no answer
(`infra/redis/redis.go`: `MaxRetries`), so it may be applied while its call still
waits: `IncrActiveAgain`, `DecrActiveAgain`, `IncrTakeAgain`, `DecrTakeAgain`.
`disturbed` is history: counters that lost their key, missed an increment, or were
decremented for an order that was never counted or already counted back, or twice
by a repeated command. `doubled` says that the active counter counted an order
twice, by a seed that met an increment or by a repeated one. Calls that die or are refused take no further step.

**DynamicConfig** has one key: the row, the value in the memory of each
instance (`local`), the notifications waiting in its subscription as a number
(`inbox`, they carry no value), what `handleNotify` has read and not stored
(`read`), and the calls of `Set()`. An instance reads its values long before it
subscribes, so `mode` walks from `down` over `seeding` and `loaded` to
`watching`. A value of another type reaches the table, because `Set()` writes
first and parses afterwards. `missed` is history: instances that a change did
not reach, because it was published before they subscribed, not at all, or lost.

**Trial** follows one call of `Trial()` through its lookups and `Load()` through
its queries, for one user and one key. `versions` is the history of the tables,
of which the last is current; a request and an answer carry `since`, the version
at which the load began that they rest on. Amounts are integers: cents for what
people type, hundredths of a cent for what is computed. `StringFixed` is the
rounding of the decimal library. The periodic load is all that fills the cache: the refresh
over Redis Pub/Sub that the package comment names (`cache/local.go:9`) is in no code.

LockFlowProofs instantiates TeamLedgerProofs as LockFlow does TeamLedger, and so
uses its lemmas for the composed system. The lemmas about the gate stand first in
it, since they speak of the same variables.

The `MC...` modules only bind constants.

## 3. What is checked

A run without an error, at the bounds given:

| Run | Question | Bounds | Answer |
|---|---|---|---|
| `ledger` | Do admissions, settlements, cut-off refunds and rollbacks keep the promises of the tables? | 4 orders, 1 team, 2 callers of `Refund()`, targets 1 and 2 | `PaidWithinTarget`, `FailedTeamOwesNothing`, `CountersBounded`, `SeatsAccounted`, `OrderForwardOnly`, `CompletionLeavesNobody`, the refinement of GroupBuy and the inductive invariant hold |
| `gate` | Can the gate over-admit or stay shut? | 2 teams, 4 permits, targets 2 and 3 | `CapacityBound` and `FlagMeansFull` hold |
| `lock` | Is a seat ever lost, does idempotency work, and are the tables used as TeamLedger says? | 3 requests, one opens a team of two, the join of it is sent twice under one outTradeNo, and its first sending may fail, lose replies or crash at any step; 1 caller of `Refund()`; order locks and results expire at any time, keys of the gate with the team (3.2 M states) | `PermitBacked`, `SeatHeld`, `CachedIsLive` and the inductive invariant hold, and the flow implements TeamLedger |
| `lock_direct` | Do direct purchases and joins under one outTradeNo keep apart? | as `lock`, but each of the two may be a direct purchase, without refund calls, and the keys of the gate expire at any time (0.45 M states) | `CachedIsLive` and the inductive invariant hold |
| `lock_shared` | What does it cost when two users send one outTradeNo, and when permits expire before their team? | 3 requests of 3 users, two of them with one outTradeNo, 1 caller of `Refund()`, no faults; the keys of the gate expire at any time (4.6 M states) | `SeatHeld`, `CachedIsLive` and the inductive invariant hold |
| `payment` | Do money and seat leave together, and does the payments row say what the gateway did? | 1 order, real or mock, 2 goroutines and the sweep; the gateway is switched and the rows of team and activity go at any time (1.3 M states) | `RefundReturnsMoney`, `RowMatchesTrade`, `PaidNotReturned`, `ClosedMeansRefunded` and the inductive invariant hold |
| `payment_sweep` | Does an overdue order leave `Locked`? | the same with 1 goroutine and the sweep (0.1 M states) | the liveness property `OverdueLeaves` holds |
| `notify` | Do overlapping scans keep the outbox sane? | 1 member with two tasks, 1 handler, 2 instances, `MaxRetry` 2, pages of 1 row | `NotGivenUpEarly`, `FinalStays`, the inductive invariant, and the liveness property `EveryTaskEnds` hold |
| `counters` | Is the purchase limit kept, and can a counter drift from the orders? | 3 orders, limit 1, 2 settling goroutines; either key may be lost at any time, no command is repeated (9.1 M states) | `PaidWithinLimit`, `PaidOnTheWay`, `ActiveNotUndercounted`, `ActiveNotOvercounted`, `TakeNotUndercounted` and the inductive invariant hold |
| `counters_resent` | What do repeated commands do to the counters? | 2 orders, limit 1, 2 settling goroutines, 2 commands applied once more (1.4 M states) | the three counter properties and the inductive invariant hold |
| `config` | Do instances agree after changes made on several of them? | 2 instances, 3 changes of a switch, starts and crashes at any time | `AgreeWhenSettled`, the inductive invariant, and the liveness property `Converges` hold |
| `trial` | How old may a price be, and do its amounts make sense? | 1 request at a time, 2 activities, 2 discounts, 6 rules, prices of 0, 0.01 and 1.00; one change of any table, one tick of the clock (0.3 M states) | `AnswerWithinWindow`, `AmountsAddUp`, the inductive invariant, and the liveness property `CacheCatchesUp` hold |
| `scan` | Does the cursor over two queries miss an order in one scan? | 3 orders, each of a team or direct, pages of 2, 2 scanners, at most 1 order that is out of reach of `Refund()` or of the query (8.2 M states) | `ScanLeavesNothing` holds |
| `scan_sweep` | Does it miss one for ever? | 3 orders, the first a direct purchase and the others a full page of team orders, 1 scanner, at most 1 order out of reach (49 K states) | the liveness property `EveryOverdueSwept` holds |

Disagreements between the code and what its comments, schema or documents say,
each with the shortest behaviour TLC finds:

| Run | Violated | What happens |
|---|---|---|
| `ledger_orphan` | `OrdersHaveTeam` | the opener's payment fails, `RollbackNewTeam` deletes the team, and the order of somebody who joined meanwhile stays |
| `lock_duplicate_member` | `OneSeatPerUser` | two requests of one user with different outTradeNo values both pass the membership check before either inserts |
| `payment_money_lost` | `MoneySettles` | the payments row is Paid and the callback logged before settlement, so one failed settlement is never repeated |

### Bounds, and why they are enough

* *Orders and callers.* The races in the tables are between one transaction and
  at most one other in the gap of a call, around the last seat. Two seats, four
  orders and two refunds in progress give every such pair, plus a team that
  completes, loses members and dissolves. The proofs remove the bound for all
  properties of this run.
* *One team in LockFlow.* Locks and cached results belong to a user and an
  outTradeNo, permits and counters to a team; no step relates two teams. The proofs
  have any number of all of them, and let any request crash or lose a reply.
* *`Faulty`* bounds which requests may crash, lose a reply, fail to look up or
  to undo, and lose their order lock: one of three, the one that is also repeated;
  none in `lock_shared`. `CachedIsLive` exempts the key whose lock ran out, since a
  duplicate that enters during the gateway call finds and caches an order that
  the first call then rolls back.
* *`Fading`* has the teams whose permits may expire while they can be joined: none
  in `lock`, where the three causes of loss would multiply, and the team in
  `lock_direct` and `lock_shared`. The proofs have any of them.
* *`Targets`* has one value in each lock run; a row keeps its target from its
  creation. In `gate` callers pass different ones, as a stale activity would.
* *One order in PaymentFlow.* No statement relates two payments. Two handlers
  and the sweep give all pairs of a callback, poll, settlement or refund,
  with the sweep as a third. The flag may be turned any number of times. The safety
  properties are proved for any orders and calls.
* *Three orders and pages of two in TimeoutScan* make a full page and a second one,
  a mixed page whose cursor goes back, and a direct purchase that is jumped over.
  `Mixtures` has the sets the direct purchases may be: any in `scan`, and in
  `scan_sweep` the one in which the jump happens. What another scanner would do to
  the orders there, `LeavesLocked` and `MessageArrives` do; the proof has any
  number. `MaxAside` 1 is one less than a page: as many orders without a refund path
  as a page has rows, with ids above some direct purchase, would hide that purchase
  from every scan.
* *Three orders and a limit of one in PurchaseCounters* make a seeding race with
  an INSERT and an INCR of another order while a third one is refunded, and put
  two orders at the limit. Two settlements overlap. With two repeated commands
  (`MaxResent`) the third order is left out: a counter that has one count too many
  or too few needs one more order, or none, to meet it. The proofs have any number of
  orders, settlements and repetitions.
* *Two instances and three changes in DynamicConfig*: two changes that cross each
  other and a third while one of them is read; the proof removes the bound for
  `AgreeWhenSettled`.
* *Two versions of the tables in Trial*: every part of an answer is one read of
  one table, so a change before, between or after the queries of a load and the
  lookups of a request is what a part can meet. A second change adds answers
  whose parts were never in force together, of which the property says nothing;
  the code accepts them (`cache/local.go`). Each of the six rules may be the first
  one, with a price of 1.00; the other prices come with the change. The price of
  nothing and the rule that adds to the price are there for what `AmountsAddUp`
  exempts. The proofs have any number of changes, requests, rules and prices.
* *`MaxRetry` 2, `BatchSize` 1* make a retry and a second page happen.
  `attempts` saturates at `MaxRetry`, above which the property does not look. The
  proof has any values of both.
* Deadlock is not checked in the runs where the system may come to rest
  (all orders gone, all requests answered); the others check it.

### Fairness

* *PaymentFlow.* A call that runs goes on (`WF` on `Continue`): goroutines are
  not suspended for ever. The scan is started by cron again and again
  (`WF` on its start) and does not die on the same order each time
  (`SF` on its reading and flipping): a failure of MySQL or of the process is
  not tied to one row. Alipay repeats a callback until it is answered (`SF`).
  `MoneySettles` additionally assumes that the page keeps polling, and is
  violated all the same.
* *TimeoutScan.* Cron starts scans again and again (`SF` on the scan lock, and on
  each query and the turn of a page), a key with a time to live expires, and of
  the scans that come to an order some get past it. Nothing is assumed about
  delayed messages, which the code sends with best effort.
* *NotifyTasks.* A key with a time to live expires, a handler files or fails,
  cron starts scans again and again, and of the scans that reach a row some send
  it and record the outcome. Nothing is assumed about the merchant's answer:
  `EveryTaskEnds` holds for one that always fails.
* *DynamicConfig.* Goroutines that run go on (`WF` on the steps of `Set()` and of
  the watcher). Nothing is assumed about delivery or about instances starting.
* *Trial.* Cron starts loads again and again and MySQL does not fail for ever
  (`SF` on each query and on the exchange). Requests and administrators need not
  do anything.
* The safety runs assume no fairness.

## 4. What is proved

Every safety property the passing runs check is a theorem for all values of the
constants. The assumptions on constants are named in each module.

### The tables (TeamLedgerProofs)

For any number of orders, teams, callers and any targets, under
`LedgerAssumption` (finitely many orders, positive targets, `NoTeam` is no team):

* `Invariance`: `IInv` is an invariant of TeamLedger.
* `TypeCorrect`, `CountersStayBounded`, `NoOversell`, `FailedOwesNothing`,
  `SeatsAccountedFor`: `TypeOK`, `CountersBounded`, `PaidWithinTarget`,
  `FailedTeamOwesNothing`, `SeatsAccounted`.
* `ForwardOnly`: the action property `OrderForwardOnly`.
* `NobodyLeftLocked`: the action property `CompletionLeavesNobody`.
* `Refinement`: every behaviour of TeamLedger is one of GroupBuy.

None of these is inductive by itself. That a team's *paid orders* do not
outnumber its target follows from a check of the *counter* `complete_count`, and
a cut-off refund makes the two differ. The argument is that they differ in one
direction only. `PaidCounted` says that the orders whose unit is still counted,
the paid ones and those whose refund is between its transactions, never
outnumber the counter. To keep it, one needs that a refund between its
transactions has its order to itself (`FlippedAlone`), otherwise two callers
would take one unit back twice; that this order is really refunded, so it is
not counted twice itself; and that an order belongs to a team that was
created (`InsertedInTeam`, `RefundsARow`, `Untouched`), so a new team starts
with no members. `RowShape` ties the counters to the status:
a complete team counts at least one member, a failed one none, which
together with `PaidCounted` is `FailedTeamOwesNothing`. For the refinement the
only hard steps are `SettleOrder`, whose counter check must imply the abstract
one, and the step of `RefundCompleteTeam` that dissolves the team.
`LockedCounted` serves `CompletionLeavesNobody`: in a forming team of which no
order was rolled back, the orders that hold a seat unpaid are at most
`lock_count` minus `complete_count`. A settlement completes the team only when
`complete_count` reaches the target and `lock_count` does not pass it, so the
difference is zero and nobody is left. The exemption is needed: a rollback of an
order that was settled or refunded meanwhile takes a seat off the count that
was not its own, and somebody joins on it.

`SeatsAccounted` needs more than the seats of a team (`SeatsCounted`): that an
order drifts at most once (`DriftsOnce`), so the two drifts can be counted in
orders, and that only the two refund paths chosen in a forming team give back a
seat of one (`PathFits`). The latter holds because no team becomes forming again
(`FormingBefore`).

### The gate (LockFlowProofs)

For SlotGate by itself, under `GateAssumption` (finitely many outTradeNo values,
a non-empty set of positive targets): `GateCapacity` (`CapacityBound`) and
`GateFlag` (`FlagMeansFull`).

### Lock() over both (LockFlowProofs)

For any requests, outTradeNo values, users, teams and refund calls, under
`FlowAssumption` (finitely many requests, every request has an outTradeNo and a
user, any two of them the same or not, `NoReq` and `NoTeam` are nobody) and
`GateAssumption`:

* `FlowInvariance`: LockFlow's `IInv` and that of the tables.
* `PermitsBacked`, `SeatsHeld`, `CacheIsLive`: `PermitBacked`, `SeatHeld`,
  `CachedIsLive`.
* `LedgerRefinement`: `LedgerImplemented`, that is, every behaviour of the flow is
  one of TeamLedger.
* `GateRefinement`: and one of SlotGate, so `CapacityBound` and `FlagMeansFull`
  hold for the calls that `Lock()` and `Refund()` make.
* `LedgerPromises`: `PaidWithinTarget`, `FailedTeamOwesNothing` and
  `SeatsAccounted` hold of the tables behind the gate, and `LedgerSteps`: so do the
  two action properties.
* `FlowIsGroupBuy`: the composed flow implements GroupBuy.

The hard part is that a permit belongs to an outTradeNo, an order to a request,
and a seat counter to a team, and each is changed by its own call. `RowAt` says
which row a request has at each of its steps. `KeptApart` has two parts, because
the lock is a user's and the permit is not. While the order lock has not run out
and no look-up has failed, one call of a user and outTradeNo is past the lock and,
past the second look-up, is the only one of them with a row. And as long as no
calls of two users have met under an outTradeNo, no other user's call of it is
past its lock and none has a row: the first to meet one is recorded in `crossed`,
at its lock or at the row it finds. `UniqueRow` is the unique key, which holds whatever the lock does. `Lasting`
rows are those whose call is over; a request may answer with, or cache, only
these (`SawLasting`, `CachedLasting`), and no step takes a row out of that
state. This gives `CachedIsLive`. `Backed` is `PermitBacked` one step further:
it does not count an order in the gap of a rollback, where the permit has
already gone back, and it begins before the team is opened. `SeatHeld` is an
invariant with its exemptions: a rollback that is under way or stopped, a permit
that lapsed before its team, and an outTradeNo that is `Disturbed`, whose calls were
not kept apart or whose refunded order a rollback deleted. `HoldsSeat` is
`SeatHeld` one step earlier, for a request that will insert its order without
looking at the gate again. `RefundAt` says that a refund which keeps its permit
met a team that no longer forms, and that past its first write its order is
refunded, so nobody else releases for it. `MayOpen`, not `Open`, is the team's
state in these, because a team is joined at the gate before its row exists.

### Money of an order (PaymentFlowProofs)

For any orders, handlers and flags, under `PaymentAssumption` (the sweeper is
not a handler, flags are Booleans): `PaymentInvariance` (`IInv`),
`MoneyComesBack` (`RefundReturnsMoney`), `RowsMatchTrades` (`RowMatchesTrade`),
`ReturnedIsNotPaid` (`PaidNotReturned`) and `ClosedIsRefunded`
(`ClosedMeansRefunded`). No lock is held over the steps of a call, so the
invariant says what a call may rely on at each step however long it slept there
(`Justified`), and each of these facts is one that no other call can undo: a
trade that was captured stays captured or returned, a locked order that was left
is never locked again, who is misrouted or skipped stays so. `Settled` ties the
gateway to the table: money goes back only for an order that is or was paid.
`ReturnUnderWay` is `PaidNotReturned` with what the refund has read: it read the
order as paid, so its conditional update cannot lose against a settlement.
`MadeBy` says where the payment was made, without which the mock's answers could
not be told apart.

### Outbox (NotifyTasksProofs)

For any members, scanners, `Target`, `MaxRetry` and `BatchSize`, under
`NotifyAssumption` (finitely many members, the three numbers positive, `NoOne`
is no scanner): `OutboxInvariance` (`IInv`), `NoEarlyGiveUp`
(`NotGivenUpEarly`), and the action property `FinalForEver` (`FinalStays`): what is
recorded as delivered or given up stays so. A delivery that could not be recorded
is repeated, which the merchant has to bear.
Scans that overlap overwrite each other's `retry_count`. Why none gives up
early: a row counts no failure that did not happen (`RowCounted`), and neither
does any copy in the hands of a scanner, its own attempt included
(`JobCounted`); attempts only grow, so a stale copy writes a count that is too
low and never one that is too high. `OneRowEach` is the unique key on uuid; it
bounds the number of rows.

### Purchase counters (PurchaseCountersProofs)

For any limit, orders, settling goroutines and number of repeated commands, under
`CountersAssumption` (finitely many orders and goroutines, at least one goroutine, a
limit and a number of zero or more): `CountersInvariance` (`IInv`), `LimitOnTheWay` (`PaidOnTheWay`),
`LimitHolds` (`PaidWithinLimit`), `ActiveCoversAll` (`ActiveNotUndercounted`),
`ActiveCountsNoMore` (`ActiveNotOvercounted`) and `TakeCoversAll`
(`TakeNotUndercounted`).

The limit is not inductive, because a settlement that has counted is not paid yet;
adding those settlements to the paid orders makes it so (`PaidOnTheWay`). Every
step adds to neither, or begins one settlement below the limit, or turns one
settlement into one paid order (`LimitMoves`). Nothing about the counters in
Redis is used: the limit does not rest on them.

The bounds of the counters compare a key with commands that are still to come.
They become inductive when those are counted on their own side: `ActiveCovers`
counts the decrements still to come besides the active orders, `TakeCovers`
likewise, and `ActiveCovered` counts the orders that were taken back before
their INCR came. What links a command to its order is `Together`: up to the
INSERT there is no row, a decrement has an order that is gone, and not both a
refund and a rollback take it back. Its last line says that as long as the
active counter has no key, no call is past its INCR; it makes the seed harmless,
because a counter that SETNX creates meets no order already counted
(`ExcessSeeded`). The counters are not claimed to survive repeated commands: a DECR
that ran twice, or the script, is in `disturbed`, an INCR of the active counter that
ran twice is in `doubled`, and the theorems say that these, with the losses above,
are all that can make a counter wrong. Repeating an INCR of the take counter only
makes that higher, which `TakeCovers` allows. Each step is then one of a few moves of a counter and its sets
(`CoverMoves`, `ExcessMoves`, `TakeMoves`), and the arithmetic is done once per
move.

### Dynamic configuration and timeout scan

For DynamicConfig, under `ConfigAssumption` (the default is a value, and the
special values are none), any instances and calls: `ConfigInvariance` (`IInv`)
and `InstancesAgree` (`AgreeWhenSettled`). Agreement at rest is not inductive;
what is, is a reason to get there. `WillAgree` says that an instance behind the
table, which no change missed, has a notification waiting, or has read the
current row, or some call has still to publish. A row that changes behind a read
is always followed by its publication, and that reaches the instance again,
the publisher included. `OnlyRunning` and `SeedersHaveDefault` are needed for
the starts and crashes: what a process had on its way dies with it, and the row
an instance inserts is the default it already has.

For TimeoutScan, under `ScanAssumption` (finitely many orders with positive ids,
pages of at least one row): `ScanInvariance` (`IInv`) and `NothingLeft`
(`ScanLeavesNothing`). The invariant says where the orders are that a scan must
still see to: ahead of the cursor, on the page, or, if the page was full, ahead
of the cursor to come. A page of the `n` smallest rows is all of them when it
has less than `n` (`ShortPageIsAll`), and what a full page leaves out is larger
than its last row (`LeftOut`); the team orders of a page that the second query
did not fill are all there are, so the cursor may be that of the last direct
purchase without leaving out any of them.

### Pricing (TrialProofs)

For any requests, activities, rules, prices, and any number of changes of the
tables, under `TrialAssumption` (`NoRow` is no row, an activity names one of the
discounts, rules have a plan and whole numbers, prices are not negative) and
`FirstAssumption` (the tables the instance finds have the shape of tables):
`PricingInvariance` (`IInv`), `AnswersAreRecent` (`AnswerWithinWindow`) and
`AmountsAreRight` (`AmountsAddUp`).

An answer is made from four rows that are read at different times, each from a
cache that a load may exchange in between or from the tables that anybody may
change. What holds at each place is that a row is from a *window*: the versions
of the tables since some load began. No step takes a version away, so windows
only grow (`WindowsGrow`), and whoever holds a row keeps it in its window.
`LoadsWithinWindow` says so of the cache and of a load under way, query by query
(`LoadedSoFar`). `FoundWithinWindow` says it of a request, whose window begins no
later than that of the cache it will look into next; this is why a lookup may
meet a newer cache, or the tables themselves, and still find a row of the
request's window (`Sources`). `GivenRight` says it of the answers, those in Redis
included, which are handed to requests that began long after.

The amounts are arithmetic over any price and any rule: rounding moves an amount by
half a cent at most (`Rounding`) and a whole number of cents not at all
(`WholeCents`), a share of a price is no more than the price (`Share`), and so
what is due is positive, and no more than the price when the rule reduces it
(`PayPrice`). The conditions of `AmountsAddUp` are those of the code. The page
that creates a discount asks for an expression and does not look at it
(`handler/admin_activity.go:CreateDiscount`), so a rule may raise a price; and
what costs nothing costs a cent with a reduction.

### Only model-checked

* Liveness (`OverdueLeaves`, `EveryTaskEnds`, `Converges`, `CacheCatchesUp`,
  `EveryOverdueSwept`): proofs under fairness need ENABLED, which is beyond the
  prover.
* The three refuted properties, which have counterexamples.

## 5. What is not modelled

* The flows do not compose with Trial and DynamicConfig: there, pricing is a
  choice that may refuse a lock, and a configured value a constant or a choice.
  `ListProductsWithActivity` only reads.
* In NotifyTasks, two things the code permits and no property forbids: a repeated
  settlement of another member files a second settlement task (the uuid contains
  the member's outTradeNo), and a task whose INSERT failed is filed by no job.
* `TakeLimitCheckAndIncr` with its script, `InitTakeCount`, `SyncActiveCount`
  and `ScanActiveCountKeys`: no service calls them. In the other flows the
  purchase limit is a choice, it may refuse a settlement or a lock.
* A payment captured after the refund of an unpaid order: PaymentFlow reaches it,
  the code does nothing about it and promises nothing.
* An administrator who moves an activity's end to a later time: a team order that
  was overdue for that reason alone, and is not five minutes old, stops being so.
  In PaymentFlow and TimeoutScan an overdue order stays overdue.
* A team joined under another activity than its own. The gate's keys bear the
  activity the caller names, and `lockJoinTeam` does not compare it with the team's;
  in SlotGate and LockFlow the callers of a team name its activity. Who does not
  passes the gate by another set of permits, and only the tables' own check of the
  capacity (TeamLedger's `HasRoom`) is left.
* Crowd tags, admin pages other than those of reference data, index pages, the
  front end: single-row operations and reads; only the membership answer reaches the flows.
* Middleware, metrics, logging, wiring, and of the clients all but the repetition of
  Redis commands: no state the flows read.
* Signature checks, payload texts and the transport of notifications.

## 6. Plan

Done: the tables, the gate, `Lock()` over both, payments with the switch of the
gateway, the timeout scan, the outbox, the purchase counters, dynamic
configuration, and pricing over the local cache, each with proofs of its safety
properties. Next, in this order:

1. A composition of `Lock()` with Trial: an order charged by an answer that was
   withdrawn meanwhile, and the two reads of the activity that need not agree.
2. The members listed in a task's payload, with a smaller outbox.

## 7. Running it

```
tlc -config MCTeamLedger.cfg MCTeamLedger      # each run: its module and cfg
tlapm TeamLedgerProofs.tla
tlapm LockFlowProofs.tla
tlapm PaymentFlowProofs.tla
tlapm NotifyTasksProofs.tla
tlapm PurchaseCountersProofs.tla
tlapm DynamicConfigProofs.tla
tlapm TimeoutScanProofs.tla
tlapm TrialProofs.tla
```
