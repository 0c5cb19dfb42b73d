------------------------------- MODULE Trial -------------------------------
(***************************************************************************)
(* What a customer is told to pay (internal/service/trial.go) while the    *)
(* administrators change the tables behind it, for one user and one key    *)
(* (source, channel, goods). One instance of the program keeps the four    *)
(* tables in memory and loads them again every five minutes with four      *)
(* separate queries (internal/cache/local.go); a request looks into that   *)
(* cache three times, each time falls back to MySQL when it finds nothing, *)
(* and may keep its answer in Redis for a while.                           *)
(*                                                                         *)
(* A load ends before the next one begins, and a restart is a first load.  *)
(* There is nothing else that loads: the refresh over Redis Pub/Sub that   *)
(* local.go:9 names is in no code.                                         *)
(* Amounts: prices and rules are in cents, rates in percent, so everything *)
(* computed from them is an integer number of Grains, a hundredth of a     *)
(* cent. The membership test in a crowd is a free choice: it reads tables  *)
(* nothing here depends on, and an error counts as no.                     *)
(***************************************************************************)
EXTENDS Integers, Sequences

CONSTANTS
  Activities,
  ActivityRows,   \* [active, start, end, discount, tag, scope]
  Discounts,
  Rules,          \* discounts rows: [plan, amount, threshold, tagged]
  Prices,         \* products.original_price in cents
  Requests,
  NoRow,
  NoTables,       \* nothing loaded
  FirstTables,    \* what the tables may hold when the instance starts
  MaxVersions,    \* bounds the changes of the tables
  MaxTime         \* bounds the clock

ASSUME TrialAssumption ==
  /\ NoRow \notin Activities /\ NoRow \notin ActivityRows
  /\ NoRow \notin Rules /\ NoRow \notin Prices
  /\ \A row \in ActivityRows : row.discount \in Discounts
  /\ Rules \subseteq [plan : {"ZJ", "MJ", "ZK", "N", "unreadable"}, amount : Int,
                     threshold : Int, tagged : BOOLEAN]
  /\ Prices \subseteq Nat
  /\ MaxVersions \in Nat /\ MaxTime \in Nat

VARIABLES
  versions,   \* the tables, and history: every state they were in
  now,        \* the clock
  cache,      \* LocalCache: the loaded part of the tables
  since,      \* history: the version at which the load of the cache began
  load,       \* where Load() stands and what it has read
  request,    \* where each call of Trial() stands and what it has found
  kept        \* the answer in Redis

vars == <<versions, now, cache, since, load, request, kept>>

Tables == [mapping  : Activities \union {NoRow},
           activity : [Activities -> ActivityRows \union {NoRow}],
           discount : [Discounts -> Rules \union {NoRow}],
           product  : Prices \union {NoRow}]

ASSUME FirstAssumption == FirstTables \subseteq Tables

Latest == versions[Len(versions)]

Idle == [at |-> "idle"]

Init ==
  /\ versions \in {<<tables>> : tables \in FirstTables}
  /\ now = 0
  /\ cache = NoTables
  /\ since = 0
  /\ load = Idle
  /\ request = [t \in Requests |-> Idle]
  /\ kept = NoRow

Running(row) == row.active /\ row.start <= now /\ now <= row.end

-----------------------------------------------------------------------------
(* Amounts.                                                                *)

Grains(cents) == 100 * cents

OneCent == Grains(1)

FlooredBelowZero(pay) == IF pay < 0 THEN OneCent ELSE pay

Unfloored(pay) == pay

\* Nothing is free.
Floored(pay) == IF pay <= 0 THEN OneCent ELSE pay

\* A plan or an expression that cannot be read; who is not in the crowd gets the
\* original price before anybody looks.
Unreadable(rule, inCrowd) == rule.plan = "unreadable" /\ (rule.tagged => inCrowd)

CalculatePayPrice(price, rule, inCrowd) ==
  LET original == Grains(price) IN
  CASE rule.tagged /\ ~inCrowd -> original
    [] rule.plan = "MJ" /\ price < rule.threshold -> original
    [] rule.plan \in {"ZJ", "MJ"} -> Floored(original - Grains(rule.amount))
    [] rule.plan = "ZK" -> Floored(price * rule.amount)
    [] rule.plan = "N"  -> Floored(Grains(rule.amount))

\* Two decimals; half a cent goes away from zero.
StringFixed(grains) ==
  IF grains >= 0 THEN (grains + 50) \div 100 ELSE -((50 - grains) \div 100)

\* Who is not in the crowd of the activity does not see it, or does not take part.
ResolveTagScope(row, inCrowd) ==
  LET hidden == row.tag /\ ~inCrowd /\ row.scope.hides
      barred == row.tag /\ ~inCrowd /\ row.scope.bars
  IN  [visible |-> ~hidden, enable |-> ~hidden /\ ~barred]

-----------------------------------------------------------------------------
(* Administrators: single-row statements on each of the tables.            *)

Change(new) ==
  /\ Len(versions) < MaxVersions
  /\ new # Latest
  /\ versions' = Append(versions, new)
  /\ UNCHANGED <<now, cache, since, load, request, kept>>

\* There is no update: a mapping is deleted and created.
ChangeMapping ==
  \E m \in Activities \union {NoRow} :
    /\ NoRow \in {m, Latest.mapping}
    /\ Change([Latest EXCEPT !.mapping = m])

ChangeActivity ==
  \E a \in Activities, row \in ActivityRows \union {NoRow} :
    Change([Latest EXCEPT !.activity[a] = row])

ChangeDiscount ==
  \E d \in Discounts, rule \in Rules \union {NoRow} :
    Change([Latest EXCEPT !.discount[d] = rule])

ChangeProduct ==
  \E p \in Prices \union {NoRow} : Change([Latest EXCEPT !.product = p])

Tick ==
  /\ now < MaxTime
  /\ now' = now + 1
  /\ UNCHANGED <<versions, cache, since, load, request, kept>>

-----------------------------------------------------------------------------
(* LocalCache.Load(): four queries, then one exchange of all maps.         *)

LoadActivities ==
  /\ load = Idle
  /\ load' = [at |-> "discounts", since |-> Len(versions),
              activity |-> [a \in Activities |->
                 LET row == Latest.activity[a] IN
                 IF row # NoRow /\ Running(row) THEN row ELSE NoRow]]
  /\ UNCHANGED <<versions, now, cache, since, request, kept>>

\* Only those of the activities found.
Referenced(activity) == {activity[a].discount : a \in {b \in Activities : activity[b] # NoRow}}

LoadDiscounts ==
  /\ load.at = "discounts"
  /\ load' = [at |-> "product", since |-> load.since, activity |-> load.activity,
              discount |-> [d \in Discounts |->
                 IF d \in Referenced(load.activity) THEN Latest.discount[d] ELSE NoRow]]
  /\ UNCHANGED <<versions, now, cache, since, request, kept>>

LoadProducts ==
  /\ load.at = "product"
  /\ load' = [at |-> "mapping", since |-> load.since, activity |-> load.activity,
              discount |-> load.discount, product |-> Latest.product]
  /\ UNCHANGED <<versions, now, cache, since, request, kept>>

LoadMappings ==
  /\ load.at = "mapping"
  /\ load' = [at |-> "swap", since |-> load.since,
              tables |-> [mapping |-> Latest.mapping, activity |-> load.activity,
                          discount |-> load.discount, product |-> load.product]]
  /\ UNCHANGED <<versions, now, cache, since, request, kept>>

Merged(loaded) ==
  IF cache = NoTables THEN loaded
  ELSE LET Kept(new, old) == [x \in DOMAIN new |-> IF new[x] = NoRow THEN old[x] ELSE new[x]]
       IN  [loaded EXCEPT !.activity = Kept(@, cache.activity), !.discount = Kept(@, cache.discount)]

\* The new maps replace the old ones: what is gone from the tables is gone.
Replaced(loaded) == loaded

Swap ==
  /\ load.at = "swap"
  /\ cache' = Replaced(load.tables)
  /\ since' = load.since
  /\ load' = Idle
  /\ UNCHANGED <<versions, now, request, kept>>

\* A query fails: logged, and the old maps stay.
LoadFails ==
  /\ load.at \in {"discounts", "product", "mapping"}
  /\ load' = Idle
  /\ UNCHANGED <<versions, now, cache, since, request, kept>>

-----------------------------------------------------------------------------
(* Trial(): Redis, mapping, activity with discount, product.               *)

Goto(t, r) == request' = [request EXCEPT ![t] = r]

Refused == [at |-> "refused"]

\* The server starts behind the first load. `keeps` is the configured time to
\* live of an answer, zero or not, read once. `since` in a request is history.
BeginTrial(t) ==
  /\ cache # NoTables
  /\ request[t] = Idle
  /\ \E keeps \in BOOLEAN : Goto(t, [at |-> "mapping", keeps |-> keeps, since |-> since])
  /\ UNCHANGED <<versions, now, cache, since, load, kept>>

GetTrialResult(t) ==
  /\ request[t].at = "mapping" /\ request[t].keeps
  /\ kept # NoRow
  /\ Goto(t, [at |-> "answered", answer |-> kept])
  /\ UNCHANGED <<versions, now, cache, since, load, kept>>

\* Nothing in Redis, an error, or no look at all.
ResolveActivityID(t) ==
  LET r == request[t]
      mapping == IF cache.mapping # NoRow THEN cache.mapping ELSE Latest.mapping
  IN
  /\ r.at = "mapping"
  /\ Goto(t, IF mapping = NoRow THEN Refused
             ELSE [at |-> "activity", keeps |-> r.keeps, since |-> r.since, activity |-> mapping])
  /\ UNCHANGED <<versions, now, cache, since, load, kept>>

\* An activity with its discount, in the cache or in the joined tables.
Has(tables, a) ==
  /\ tables.activity[a] # NoRow
  /\ tables.discount[tables.activity[a].discount] # NoRow

\* The cache may have what the tables have no more, so the times and the
\* status are looked at again.
ResolveActivity(t) ==
  LET r == request[t]
      tables == IF Has(cache, r.activity) THEN cache ELSE Latest
      row == tables.activity[r.activity]
  IN
  /\ r.at = "activity"
  /\ Goto(t, IF ~ Has(tables, r.activity) THEN Refused
             ELSE IF ~ Running(row) THEN Refused
             ELSE [at |-> "product", keeps |-> r.keeps, since |-> r.since, activity |-> r.activity,
                   row |-> row, rule |-> tables.discount[row.discount]])
  /\ UNCHANGED <<versions, now, cache, since, load, kept>>

\* The answer, with what it was made from.
Answer(r, price, inCrowd, inScope) ==
  LET pay == CalculatePayPrice(price, r.rule, inCrowd) IN
  [activity |-> r.activity, row |-> r.row, rule |-> r.rule, price |-> price, since |-> r.since,
   pay |-> pay,
   originalPrice  |-> StringFixed(Grains(price)),
   payPrice       |-> StringFixed(pay),
   deductionPrice |-> StringFixed(Grains(price) - pay),
   scope |-> ResolveTagScope(r.row, inScope)]

ResolveProduct(t) ==
  LET r == request[t]
      price == IF cache.product # NoRow THEN cache.product ELSE Latest.product
  IN
  /\ r.at = "product"
  /\ \E inCrowd, inScope \in BOOLEAN :
       Goto(t, IF price = NoRow \/ Unreadable(r.rule, inCrowd) THEN Refused
               ELSE [at |-> IF r.keeps THEN "keep" ELSE "answered",
                     answer |-> Answer(r, price, inCrowd, inScope)])
  /\ UNCHANGED <<versions, now, cache, since, load, kept>>

\* A SET that fails is only logged.
CacheTrialResult(t) ==
  LET r == request[t] IN
  /\ r.at = "keep"
  /\ kept' \in {kept, r.answer}
  /\ Goto(t, [at |-> "answered", answer |-> r.answer])
  /\ UNCHANGED <<versions, now, cache, since, load>>

KeptExpires ==
  /\ kept # NoRow
  /\ kept' = NoRow
  /\ UNCHANGED <<versions, now, cache, since, load, request>>
-----------------------------------------------------------------------------
\* A query of the request itself fails.
LookupFails(t) ==
  /\ request[t].at \in {"mapping", "activity", "product"}
  /\ Goto(t, Refused)
  /\ UNCHANGED <<versions, now, cache, since, load, kept>>

Reply(t) ==
  /\ request[t].at \in {"refused", "answered"}
  /\ Goto(t, Idle)
  /\ UNCHANGED <<versions, now, cache, since, load, kept>>

AdminStep == ChangeMapping \/ ChangeActivity \/ ChangeDiscount \/ ChangeProduct

LoadStep ==
  \/ LoadActivities \/ LoadDiscounts \/ LoadProducts \/ LoadMappings
  \/ Swap \/ LoadFails

RequestStep(t) ==
  \/ BeginTrial(t) \/ GetTrialResult(t) \/ ResolveActivityID(t) \/ ResolveActivity(t)
  \/ ResolveProduct(t) \/ CacheTrialResult(t) \/ LookupFails(t) \/ Reply(t)

Next ==
  \/ AdminStep \/ Tick \/ LoadStep \/ KeptExpires
  \/ \E t \in Requests : RequestStep(t)

\* Cron starts loads again and again, and MySQL does not fail for ever.
Fairness ==
  /\ SF_vars(LoadActivities) /\ SF_vars(LoadDiscounts) /\ SF_vars(LoadProducts)
  /\ SF_vars(LoadMappings) /\ SF_vars(Swap)

Spec == Init /\ [][Next]_vars

FairSpec == Spec /\ Fairness

-----------------------------------------------------------------------------
Answers ==
  {request[t].answer : t \in {u \in Requests : request[u].at \in {"keep", "answered"}}}

Given == Answers \union ({kept} \ {NoRow})

\* Type invariant. No price is below zero.
TypeOK ==
  /\ versions \in Seq(Tables) /\ versions # <<>>
  /\ now \in 0 .. MaxTime
  /\ cache \in Tables \union {NoTables}
  /\ since \in 0 .. Len(versions)
  /\ load.at \in {"idle", "discounts", "product", "mapping", "swap"}
  /\ DOMAIN request = Requests
  /\ \A t \in Requests :
       request[t].at \in {"idle", "mapping", "activity", "product", "keep", "answered", "refused"}
  /\ \A x \in Given : x.payPrice \in Nat

\* The tables of a history `h` from version number `s` on.
Window(h, s) == {h[k] : k \in s .. Len(h)}

\* Each part of an answer was in one of the versions `w`.
AnswerIn(w, x) ==
  /\ \E v \in w : v.mapping = x.activity
  /\ \E v \in w : v.activity[x.activity] = x.row
  /\ \E v \in w : v.discount[x.row.discount] = x.rule
  /\ \E v \in w : v.product = x.price

\* Each part of an answer was in the tables at some time since the load began
\* that filled the cache when the request began, or when the request did that
\* left the answer in Redis (trial.go: three lookups in a cache that may be
\* exchanged between them; local.go: Load). The parts need not have been there
\* together: the four queries of a load are no snapshot.
AnswerWithinWindow == \A x \in Answers : AnswerIn(Window(versions, x.since), x)

\* A rule that takes something off. The administrators' pages check no more of
\* an expression than that there is one.
Reduces(rule) ==
  rule.plan # "N" /\ rule.amount >= 0 /\ (rule.plan = "ZK" => rule.amount <= 100)

AmountsRight(x) ==
  /\ x.price > 0 => x.pay > 0
  /\ x.price > 0 /\ Reduces(x.rule) => x.payPrice <= x.originalPrice
  /\ x.payPrice + x.deductionPrice - x.originalPrice \in -1 .. 1

\* What has a price is not given away, whatever the rule, and nobody pays more
\* than the original price by a rule that reduces it; and the three printed
\* amounts, each rounded by itself, add up to within a cent (trial.go:
\* calculatePayPrice, StringFixed). No more than that: half of one cent prints as
\* 0.01, and so does the other half; less than half a cent is due and prints as
\* 0.00; and what is free for everybody costs one cent with a reduction.
AmountsAddUp == \A x \in Answers : AmountsRight(x)

\* Each row of `tables` was in one of the versions `w`.
TablesIn(w, tables) ==
  /\ tables.mapping # NoRow => \E v \in w : v.mapping = tables.mapping
  /\ \A a \in Activities :
       tables.activity[a] # NoRow => \E v \in w : v.activity[a] = tables.activity[a]
  /\ \A d \in Discounts :
       tables.discount[d] # NoRow => \E v \in w : v.discount[d] = tables.discount[d]
  /\ tables.product # NoRow => \E v \in w : v.product = tables.product

\* The tables with the first queries of a load in them, and no row for the rest.
LoadedSoFar ==
  LET none == [mapping  |-> NoRow,
               activity |-> [a \in Activities |-> NoRow],
               discount |-> [d \in Discounts |-> NoRow],
               product  |-> NoRow]
  IN  CASE load.at = "discounts" -> [none EXCEPT !.activity = load.activity]
        [] load.at = "product" ->
             [none EXCEPT !.activity = load.activity, !.discount = load.discount]
        [] load.at = "mapping" ->
             [none EXCEPT !.activity = load.activity, !.discount = load.discount,
                          !.product = load.product]
        [] load.at = "swap" -> load.tables

\* The cache and a load under way have nothing older than the load's first query.
LoadsWithinWindow ==
  /\ cache # NoTables => since > 0
  /\ since > 0 => cache \in Tables /\ TablesIn(Window(versions, since), cache)
  /\ load.at # "idle" =>
       /\ load.since \in 1 .. Len(versions) /\ since <= load.since
       /\ LoadedSoFar \in Tables
       /\ TablesIn(Window(versions, load.since), LoadedSoFar)

\* A request that goes on has found what an answer is made from.
FoundWithinWindow ==
  \A t \in Requests :
    LET r == request[t] IN
    /\ r.at \in {"mapping", "activity", "product"} => r.since \in 1 .. since
    /\ r.at \in {"activity", "product"} =>
         /\ r.activity \in Activities
         /\ \E v \in Window(versions, r.since) : v.mapping = r.activity
    /\ r.at = "product" =>
         /\ r.row \in ActivityRows /\ r.rule \in Rules
         /\ \E v \in Window(versions, r.since) : v.activity[r.activity] = r.row
         /\ \E v \in Window(versions, r.since) : v.discount[r.row.discount] = r.rule

\* An answer is right when it is made, and stays so, in Redis too.
GivenRight ==
  \A x \in Given :
    /\ x.since \in 1 .. Len(versions)
    /\ AnswerIn(Window(versions, x.since), x)
    /\ AmountsRight(x)

\* The inductive invariant.
IInv == TypeOK /\ LoadsWithinWindow /\ FoundWithinWindow /\ GivenRight

Loaded ==
  LET activity == [a \in Activities |->
        IF Latest.activity[a] # NoRow /\ Running(Latest.activity[a]) THEN Latest.activity[a] ELSE NoRow]
  IN  [Latest EXCEPT !.activity = activity,
                     !.discount = [d \in Discounts |-> IF d \in Referenced(activity) THEN @[d] ELSE NoRow]]

\* The cache does not stay behind: what was deleted or has ended leaves it and
\* what was changed enters it (app.go: a load every five minutes).
CacheCatchesUp == []<>(cache = Loaded)
=============================================================================
