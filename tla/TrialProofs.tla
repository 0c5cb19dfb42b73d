---------------------------- MODULE TrialProofs ----------------------------
(***************************************************************************)
(* Theorems of Trial, for any activities, rules, prices and requests, and  *)
(* any number of changes of the tables.                                    *)
(***************************************************************************)
EXTENDS Trial, TLAPS

-----------------------------------------------------------------------------
(* Amounts.                                                                *)

\* Rounding to cents moves an amount by half a cent at most, and a whole number
\* of cents not at all.
LEMMA Rounding ==
  ASSUME NEW g \in Int
  PROVE  /\ StringFixed(g) \in Int
         /\ 100 * StringFixed(g) <= g + 50 /\ g - 50 <= 100 * StringFixed(g)
  BY DEF StringFixed

LEMMA WholeCents == ASSUME NEW p \in Nat PROVE StringFixed(Grains(p)) = p
<1>1. (100 * p + 50) \div 100 = p
  OBVIOUS
<1> QED
  BY <1>1 DEF StringFixed, Grains

\* A share of a price is no more than the price.
LEMMA Share ==
  ASSUME NEW p \in Nat, NEW rate \in Int
  PROVE  p * rate \in Int /\ (rate <= 100 => p * rate <= 100 * p)
<1>1. rate <= 100 => p * (100 - rate) >= 0
  OBVIOUS
<1>2. p * (100 - rate) = 100 * p - p * rate
  OBVIOUS
<1> QED
  BY <1>1, <1>2

\* What is due, whatever the rule.
LEMMA PayPrice ==
  ASSUME NEW price \in Nat, NEW rule \in Rules, NEW inCrowd \in BOOLEAN,
         ~ Unreadable(rule, inCrowd)
  PROVE  LET pay == CalculatePayPrice(price, rule, inCrowd) IN
         /\ pay \in Nat
         /\ price > 0 => pay > 0
         /\ price > 0 /\ Reduces(rule) => pay <= Grains(price)
<1> DEFINE pay == CalculatePayPrice(price, rule, inCrowd)
<1>a. /\ rule.plan \in {"ZJ", "MJ", "ZK", "N", "unreadable"}
      /\ rule.amount \in Int /\ rule.threshold \in Int /\ rule.tagged \in BOOLEAN
  BY TrialAssumption
<1>b. /\ Grains(price) = 100 * price /\ Grains(rule.amount) = 100 * rule.amount /\ OneCent = 100
  BY DEF Grains, OneCent
<1>1. CASE pay = Grains(price)
  BY <1>1, <1>b
<1>2. CASE rule.plan \in {"ZJ", "MJ"} /\ pay = Floored(Grains(price) - Grains(rule.amount))
  BY <1>2, <1>a, <1>b DEF Floored, Reduces
<1>3. CASE rule.plan = "ZK" /\ pay = Floored(price * rule.amount)
  BY <1>3, <1>a, <1>b, Share DEF Floored, Reduces
<1>4. CASE rule.plan = "N" /\ pay = Floored(Grains(rule.amount))
  BY <1>4, <1>a, <1>b DEF Floored, Reduces
<1>5. \/ pay = Grains(price)
      \/ rule.plan \in {"ZJ", "MJ"} /\ pay = Floored(Grains(price) - Grains(rule.amount))
      \/ rule.plan = "ZK" /\ pay = Floored(price * rule.amount)
      \/ rule.plan = "N" /\ pay = Floored(Grains(rule.amount))
  BY <1>a DEF CalculatePayPrice, Unreadable
<1> QED
  BY <1>1, <1>2, <1>3, <1>4, <1>5

\* The three amounts of an answer, however it was found.
LEMMA AnswerAmounts ==
  ASSUME NEW r, r.rule \in Rules, NEW price \in Prices,
         NEW inCrowd \in BOOLEAN, NEW inScope \in BOOLEAN, ~ Unreadable(r.rule, inCrowd)
  PROVE  /\ AmountsRight(Answer(r, price, inCrowd, inScope))
         /\ Answer(r, price, inCrowd, inScope).payPrice \in Nat
<1> DEFINE pay == CalculatePayPrice(price, r.rule, inCrowd)
           x   == Answer(r, price, inCrowd, inScope)
<1>1. price \in Nat
  BY TrialAssumption
<1>2. /\ pay \in Nat
      /\ price > 0 => pay > 0
      /\ price > 0 /\ Reduces(r.rule) => pay <= Grains(price)
  BY <1>1, PayPrice
<1>3. /\ x.price = price /\ x.rule = r.rule /\ x.pay = pay
      /\ x.originalPrice = StringFixed(Grains(price))
      /\ x.payPrice = StringFixed(pay)
      /\ x.deductionPrice = StringFixed(Grains(price) - pay)
  BY DEF Answer
<1> HIDE DEF pay, x
<1>4. x.originalPrice = price
  BY <1>1, <1>3, WholeCents
<1>5. Grains(price) = 100 * price
  BY DEF Grains
<1>6. /\ x.payPrice \in Int
      /\ 100 * x.payPrice <= pay + 50 /\ pay - 50 <= 100 * x.payPrice
  BY <1>2, <1>3, Rounding
<1>7. /\ x.deductionPrice \in Int
      /\ 100 * x.deductionPrice <= 100 * price - pay + 50
      /\ 100 * price - pay - 50 <= 100 * x.deductionPrice
  <2>1. Grains(price) - pay \in Int
    BY <1>1, <1>2, <1>5
  <2> QED
    BY <1>3, <1>5, <2>1, Rounding
<1>8. x.payPrice \in Nat
  BY <1>2, <1>6
<1>9. x.price > 0 /\ Reduces(x.rule) => x.payPrice <= x.originalPrice
  BY <1>1, <1>2, <1>3, <1>4, <1>5, <1>6
<1>10. x.payPrice + x.deductionPrice - x.originalPrice \in -1 .. 1
  BY <1>1, <1>2, <1>4, <1>6, <1>7
<1>11. x.price > 0 => x.pay > 0
  BY <1>2, <1>3
<1> QED
  BY <1>8, <1>9, <1>10, <1>11 DEF AmountsRight, x

-----------------------------------------------------------------------------
(* Versions.                                                               *)

LEMMA TablesShape ==
  ASSUME NEW v \in Tables
  PROVE  /\ v = [mapping  |-> v.mapping, activity |-> v.activity,
                 discount |-> v.discount, product |-> v.product]
         /\ v.mapping \in Activities \union {NoRow}
         /\ v.activity \in [Activities -> ActivityRows \union {NoRow}]
         /\ v.discount \in [Discounts -> Rules \union {NoRow}]
         /\ v.product \in Prices \union {NoRow}
  BY DEF Tables

\* What is in some versions is in more of them.
LEMMA InMore ==
  ASSUME NEW v, NEW w, v \subseteq w
  PROVE  /\ \A tables : TablesIn(v, tables) => TablesIn(w, tables)
         /\ \A x : AnswerIn(v, x) => AnswerIn(w, x)
  BY DEF TablesIn, AnswerIn

LEMMA Windows ==
  ASSUME TypeOK, NEW s \in 1 .. Len(versions)
  PROVE  /\ Len(versions) \in Nat
         /\ Latest \in Window(versions, s) /\ Latest \in Tables
         /\ \A r \in 1 .. s : Window(versions, s) \subseteq Window(versions, r)
  BY DEF TypeOK, Window, Latest

LEMMA HasVersion == TypeOK => Len(versions) \in 1 .. Len(versions)
  BY DEF TypeOK

\* An administrator adds a version, all others add none.
LEMMA AdminAppends ==
  ASSUME TypeOK, AdminStep
  PROVE  /\ \E new \in Tables : versions' = Append(versions, new)
         /\ UNCHANGED <<now, cache, since, load, request, kept>>
<1>1. Latest \in Tables
  BY HasVersion, Windows
<1>2. ASSUME NEW m \in Activities \union {NoRow}
      PROVE  [Latest EXCEPT !.mapping = m] \in Tables
  BY <1>1 DEF Tables
<1>3. ASSUME NEW a \in Activities, NEW row \in ActivityRows \union {NoRow}
      PROVE  [Latest EXCEPT !.activity[a] = row] \in Tables
  BY <1>1 DEF Tables
<1>4. ASSUME NEW d \in Discounts, NEW rule \in Rules \union {NoRow}
      PROVE  [Latest EXCEPT !.discount[d] = rule] \in Tables
  BY <1>1 DEF Tables
<1>5. ASSUME NEW p \in Prices \union {NoRow} PROVE [Latest EXCEPT !.product = p] \in Tables
  BY <1>1 DEF Tables
<1> QED
  BY <1>2, <1>3, <1>4, <1>5
  DEF AdminStep, ChangeMapping, ChangeActivity, ChangeDiscount, ChangeProduct, Change

\* No step takes a version away, so every window only grows.
LEMMA WindowsGrow ==
  ASSUME TypeOK, [Next]_vars
  PROVE  /\ versions' \in Seq(Tables) /\ versions' # <<>>
         /\ Len(versions) <= Len(versions')
         /\ \A s \in 1 .. Len(versions) : Window(versions, s) \subseteq Window(versions', s)
<1>1. ASSUME NEW new \in Tables, versions' = Append(versions, new)
      PROVE  /\ versions' \in Seq(Tables) /\ versions' # <<>>
             /\ Len(versions) <= Len(versions')
             /\ \A s \in 1 .. Len(versions) : Window(versions, s) \subseteq Window(versions', s)
  <2>1. /\ versions \in Seq(Tables) /\ Len(versions) \in Nat
        /\ versions' \in Seq(Tables) /\ Len(versions') = Len(versions) + 1
        /\ \A k \in 1 .. Len(versions) : versions'[k] = versions[k]
    BY <1>1 DEF TypeOK
  <2>2. versions' # <<>>
    BY <2>1
  <2> QED
    BY <2>1, <2>2 DEF Window
<1>2. CASE UNCHANGED versions
  BY <1>2 DEF TypeOK
<1>3. AdminStep \/ UNCHANGED versions
  BY DEF Next, Tick, LoadStep, LoadActivities, LoadDiscounts, LoadProducts, LoadMappings, Swap,
    LoadFails, KeptExpires, RequestStep, BeginTrial, GetTrialResult, ResolveActivityID,
    ResolveActivity, ResolveProduct, CacheTrialResult, LookupFails, Reply, vars
<1> QED
  BY <1>1, <1>2, <1>3, AdminAppends

-----------------------------------------------------------------------------
(* The cache and its load.                                                 *)

\* A load has read so far: what it had read, with the rows of one more query.
LEMMA MoreLoaded ==
  ASSUME NEW w, NEW v \in w, v \in Tables, NEW old, TablesIn(w, old), NEW new,
         new.mapping \in {old.mapping, v.mapping},
         \A a \in Activities : new.activity[a] \in {old.activity[a], v.activity[a], NoRow},
         \A d \in Discounts : new.discount[d] \in {old.discount[d], v.discount[d], NoRow},
         new.product \in {old.product, v.product}
  PROVE  TablesIn(w, new)
  BY DEF TablesIn

\* LoadedSoFar with its four parts.
LEMMA LoadedParts ==
  /\ load.at = "discounts" =>
       LoadedSoFar = [mapping |-> NoRow, activity |-> load.activity,
                      discount |-> [d \in Discounts |-> NoRow], product |-> NoRow]
  /\ load.at = "product" =>
       LoadedSoFar = [mapping |-> NoRow, activity |-> load.activity,
                      discount |-> load.discount, product |-> NoRow]
  /\ load.at = "mapping" =>
       LoadedSoFar = [mapping |-> NoRow, activity |-> load.activity,
                      discount |-> load.discount, product |-> load.product]
  /\ load.at = "swap" => LoadedSoFar = load.tables
  BY DEF LoadedSoFar

\* A load that begins or goes on has read rows of the tables as they are.
LEMMA LoadGoesOn ==
  ASSUME IInv, [Next]_vars,
         LoadActivities \/ LoadDiscounts \/ LoadProducts \/ LoadMappings
  PROVE  LoadsWithinWindow'
<1>a. TypeOK /\ LoadsWithinWindow
  BY DEF IInv
<1>b. /\ UNCHANGED <<versions, cache, since>>
      /\ Latest \in Tables
      /\ Len(versions) \in 1 .. Len(versions)
      /\ \A s \in 1 .. Len(versions) : Latest \in Window(versions, s)
  BY <1>a, HasVersion, Windows DEF LoadActivities, LoadDiscounts, LoadProducts, LoadMappings
<1> SUFFICES /\ load'.since \in 1 .. Len(versions) /\ since <= load'.since
             /\ LoadedSoFar' \in Tables
             /\ TablesIn(Window(versions, load'.since), LoadedSoFar')
  BY <1>a, <1>b DEF LoadsWithinWindow
<1>c. /\ Latest.activity \in [Activities -> ActivityRows \union {NoRow}]
      /\ Latest.discount \in [Discounts -> Rules \union {NoRow}]
      /\ Latest.product \in Prices \union {NoRow}
      /\ Latest.mapping \in Activities \union {NoRow}
  BY <1>b, TablesShape
<1>1. CASE LoadActivities
  <2>1. load'.at = "discounts" /\ load'.since = Len(versions)
    BY <1>1 DEF LoadActivities
  <2>2. /\ load'.activity \in [Activities -> ActivityRows \union {NoRow}]
        /\ \A a \in Activities : load'.activity[a] \in {Latest.activity[a], NoRow}
    BY <1>1, <1>c DEF LoadActivities
  <2>3. LoadedSoFar' = [mapping |-> NoRow, activity |-> load'.activity,
                        discount |-> [d \in Discounts |-> NoRow], product |-> NoRow]
    BY <2>1 DEF LoadedSoFar
  <2>4. LoadedSoFar' \in Tables
    BY <2>2, <2>3 DEF Tables
  <2>5. TablesIn(Window(versions, Len(versions)), LoadedSoFar')
    BY <1>b, <2>2, <2>3 DEF TablesIn
  <2>6. since <= Len(versions)
    BY <1>a DEF TypeOK
  <2> QED
    BY <1>b, <2>1, <2>4, <2>5, <2>6
<1>2. CASE LoadDiscounts
  <2>1. load.at = "discounts" /\ load'.at = "product" /\ load'.since = load.since
        /\ load'.activity = load.activity
    BY <1>2 DEF LoadDiscounts
  <2>2. /\ load'.discount \in [Discounts -> Rules \union {NoRow}]
        /\ \A d \in Discounts : load'.discount[d] \in {Latest.discount[d], NoRow}
    BY <1>2, <1>c DEF LoadDiscounts
  <2>3. LoadedSoFar = [mapping |-> NoRow, activity |-> load.activity,
                       discount |-> [d \in Discounts |-> NoRow], product |-> NoRow]
    BY <2>1, LoadedParts
  <2>4. LoadedSoFar' = [mapping |-> NoRow, activity |-> load.activity,
                        discount |-> load'.discount, product |-> NoRow]
    BY <2>1 DEF LoadedSoFar
  <2>5. /\ LoadedSoFar \in Tables /\ TablesIn(Window(versions, load.since), LoadedSoFar)
        /\ load.since \in 1 .. Len(versions) /\ since <= load.since
    BY <1>a, <2>1 DEF LoadsWithinWindow
  <2>6. LoadedSoFar' \in Tables
    BY <2>2, <2>3, <2>4, <2>5 DEF Tables
  <2>7. TablesIn(Window(versions, load.since), LoadedSoFar')
    BY <1>b, <2>2, <2>3, <2>4, <2>5, MoreLoaded
  <2> QED
    BY <2>1, <2>5, <2>6, <2>7
<1>3. CASE LoadProducts
  <2>1. /\ load.at = "product" /\ load'.at = "mapping" /\ load'.since = load.since
        /\ load'.activity = load.activity /\ load'.discount = load.discount
        /\ load'.product = Latest.product
    BY <1>3 DEF LoadProducts
  <2>2. LoadedSoFar = [mapping |-> NoRow, activity |-> load.activity,
                       discount |-> load.discount, product |-> NoRow]
    BY <2>1, LoadedParts
  <2>3. LoadedSoFar' = [mapping |-> NoRow, activity |-> load.activity,
                        discount |-> load.discount, product |-> Latest.product]
    BY <2>1 DEF LoadedSoFar
  <2>4. /\ LoadedSoFar \in Tables /\ TablesIn(Window(versions, load.since), LoadedSoFar)
        /\ load.since \in 1 .. Len(versions) /\ since <= load.since
    BY <1>a, <2>1 DEF LoadsWithinWindow
  <2>5. LoadedSoFar' \in Tables
    BY <1>c, <2>2, <2>3, <2>4 DEF Tables
  <2>6. TablesIn(Window(versions, load.since), LoadedSoFar')
    BY <1>b, <2>2, <2>3, <2>4, MoreLoaded
  <2> QED
    BY <2>1, <2>4, <2>5, <2>6
<1>4. CASE LoadMappings
  <2>1. /\ load.at = "mapping" /\ load'.at = "swap" /\ load'.since = load.since
        /\ load'.tables = [mapping |-> Latest.mapping, activity |-> load.activity,
                           discount |-> load.discount, product |-> load.product]
    BY <1>4 DEF LoadMappings
  <2>2. LoadedSoFar = [mapping |-> NoRow, activity |-> load.activity,
                       discount |-> load.discount, product |-> load.product]
    BY <2>1, LoadedParts
  <2>3. LoadedSoFar' = load'.tables
    BY <2>1 DEF LoadedSoFar
  <2>4. /\ LoadedSoFar \in Tables /\ TablesIn(Window(versions, load.since), LoadedSoFar)
        /\ load.since \in 1 .. Len(versions) /\ since <= load.since
    BY <1>a, <2>1 DEF LoadsWithinWindow
  <2>5. LoadedSoFar' \in Tables
    BY <1>c, <2>1, <2>2, <2>3, <2>4 DEF Tables
  <2>6. TablesIn(Window(versions, load.since), LoadedSoFar')
    BY <1>b, <2>1, <2>2, <2>3, <2>4, MoreLoaded
  <2> QED
    BY <2>1, <2>4, <2>5, <2>6
<1> QED
  BY <1>1, <1>2, <1>3, <1>4

LEMMA LoadsStep == ASSUME IInv, [Next]_vars PROVE LoadsWithinWindow'
<1>a. TypeOK /\ LoadsWithinWindow
  BY DEF IInv
<1>b. /\ since \in Nat /\ Len(versions) \in Nat /\ Len(versions') \in Nat
      /\ since <= Len(versions) /\ Len(versions) <= Len(versions')
      /\ \A s \in 1 .. Len(versions) : Window(versions, s) \subseteq Window(versions', s)
  BY <1>a, WindowsGrow DEF TypeOK
<1>1. CASE LoadActivities \/ LoadDiscounts \/ LoadProducts \/ LoadMappings
  BY <1>1, LoadGoesOn
<1>2. CASE Swap
  <2>1. LoadedSoFar = load.tables /\ load.at # "idle"
    BY <1>2, LoadedParts DEF Swap
  <2>2. /\ cache' = load.tables /\ since' = load.since /\ versions' = versions
        /\ load'.at = "idle"
    BY <1>2 DEF Swap, Replaced, Idle
  <2>3. /\ load.since \in 1 .. Len(versions)
        /\ load.tables \in Tables /\ TablesIn(Window(versions, load.since), load.tables)
    BY <1>a, <2>1 DEF LoadsWithinWindow
  <2> QED
    BY <1>b, <2>2, <2>3 DEF LoadsWithinWindow
<1>3. CASE LoadFails
  BY <1>a, <1>3 DEF LoadsWithinWindow, LoadFails, Idle
<1>4. CASE UNCHANGED <<cache, since, load>>
  <2>1. LoadedSoFar' = LoadedSoFar
    BY <1>4 DEF LoadedSoFar
  <2>2. since' > 0 => cache' \in Tables /\ TablesIn(Window(versions', since'), cache')
    BY <1>a, <1>b, <1>4, InMore DEF LoadsWithinWindow
  <2>3. load'.at # "idle" =>
          /\ load'.since \in 1 .. Len(versions') /\ since' <= load'.since
          /\ LoadedSoFar \in Tables
          /\ TablesIn(Window(versions', load'.since), LoadedSoFar)
    BY <1>a, <1>b, <1>4, InMore DEF LoadsWithinWindow
  <2> QED
    BY <1>a, <1>4, <2>1, <2>2, <2>3 DEF LoadsWithinWindow
<1>5. ASSUME NEW t \in Requests, RequestStep(t) PROVE UNCHANGED <<cache, since, load>>
  BY <1>5 DEF RequestStep, BeginTrial, GetTrialResult, ResolveActivityID, ResolveActivity,
    ResolveProduct, CacheTrialResult, LookupFails, Reply
<1>6. CASE AdminStep \/ Tick \/ KeptExpires \/ UNCHANGED vars
  BY <1>a, <1>4, <1>6, AdminAppends DEF Tick, KeptExpires, vars
<1> QED
  BY <1>1, <1>2, <1>3, <1>4, <1>5, <1>6 DEF Next, LoadStep

-----------------------------------------------------------------------------
(* Requests.                                                               *)

\* Whether it comes from the cache or from the tables as they are, what a
\* request finds is in the window that it began with.
LEMMA Sources ==
  ASSUME IInv, NEW s \in 1 .. since
  PROVE  /\ s \in 1 .. Len(versions)
         /\ cache \in Tables /\ Latest \in Tables
         /\ TablesIn(Window(versions, s), cache)
         /\ TablesIn(Window(versions, s), Latest)
<1>1. /\ since \in Nat /\ Len(versions) \in Nat /\ since <= Len(versions) /\ since > 0
      /\ s \in 1 .. Len(versions)
  BY DEF IInv, TypeOK
<1>2. cache \in Tables /\ TablesIn(Window(versions, since), cache)
  BY <1>1 DEF IInv, LoadsWithinWindow
<1>3. Window(versions, since) \subseteq Window(versions, s)
  BY <1>1, Windows DEF IInv
<1>4. Latest \in Window(versions, s) /\ Latest \in Tables
  BY <1>1, Windows DEF IInv
<1>5. TablesIn(Window(versions, s), Latest)
  BY <1>4 DEF TablesIn
<1> QED
  BY <1>1, <1>2, <1>3, <1>4, <1>5, InMore

\* FoundWithinWindow of one request.
FoundIn(h, top, r) ==
  /\ r.at \in {"mapping", "activity", "product"} => r.since \in 1 .. top
  /\ r.at \in {"activity", "product"} =>
       /\ r.activity \in Activities
       /\ \E v \in Window(h, r.since) : v.mapping = r.activity
  /\ r.at = "product" =>
       /\ r.row \in ActivityRows /\ r.rule \in Rules
       /\ \E v \in Window(h, r.since) : v.activity[r.activity] = r.row
       /\ \E v \in Window(h, r.since) : v.discount[r.row.discount] = r.rule

LEMMA FoundStep == ASSUME IInv, [Next]_vars PROVE FoundWithinWindow'
<1>a. TypeOK /\ \A t \in Requests : FoundIn(versions, since, request[t])
  BY DEF IInv, FoundWithinWindow, FoundIn
<1>b. DOMAIN request = Requests
  BY <1>a DEF TypeOK
<1>c. LoadsWithinWindow /\ LoadsWithinWindow'
  BY LoadsStep DEF IInv
<1>d. /\ since \in Nat /\ Len(versions) \in Nat /\ since <= Len(versions)
      /\ \A s \in 1 .. Len(versions) : Window(versions, s) \subseteq Window(versions', s)
  BY <1>a, WindowsGrow DEF TypeOK
<1> SUFFICES ASSUME NEW x \in Requests PROVE FoundIn(versions', since', request'[x])
  BY DEF FoundWithinWindow, FoundIn
\* What was found stays in the window.
<1>1. ASSUME request'[x] = request[x], since' \in Nat, since <= since'
      PROVE  FoundIn(versions', since', request'[x])
  <2> DEFINE r == request[x]
  <2>1. FoundIn(versions, since, r)
    BY <1>a
  <2> HIDE DEF r
  <2>2. r.at \in {"mapping", "activity", "product"} =>
          /\ r.since \in 1 .. since'
          /\ Window(versions, r.since) \subseteq Window(versions', r.since)
    BY <1>1, <1>d, <2>1 DEF FoundIn
  <2>3. FoundIn(versions', since', r)
    BY <2>1, <2>2 DEF FoundIn
  <2> QED
    BY <1>1, <2>3 DEF r
<1>2. ASSUME NEW t \in Requests, RequestStep(t) PROVE FoundIn(versions', since', request'[x])
  <2>1. UNCHANGED <<versions, since>>
    BY <1>2 DEF RequestStep, BeginTrial, GetTrialResult, ResolveActivityID, ResolveActivity,
      ResolveProduct, CacheTrialResult, LookupFails, Reply
  <2>2. CASE x # t
    <3>1. request'[x] = request[x]
      BY <1>2, <1>b, <2>2 DEF RequestStep, BeginTrial, GetTrialResult, ResolveActivityID,
        ResolveActivity, ResolveProduct, CacheTrialResult, LookupFails, Reply, Goto
    <3> QED
      BY <1>1, <1>d, <2>1, <3>1
  <2>3. CASE x = t
    <3> DEFINE r == request[t]
               new == request'[t]
    <3>a. FoundIn(versions, since, r)
      BY <1>a
    <3> SUFFICES FoundIn(versions, since, new)
      BY <2>1, <2>3
    <3>1. CASE BeginTrial(t)
      <4>1. new.at = "mapping" /\ new.since = since /\ cache # NoTables
        BY <3>1, <1>b DEF BeginTrial, Goto
      <4>2. since > 0
        BY <1>c, <4>1 DEF LoadsWithinWindow
      <4> QED
        BY <1>d, <4>1, <4>2 DEF FoundIn
    <3>2. CASE ResolveActivityID(t)
      <4> DEFINE m == IF cache.mapping # NoRow THEN cache.mapping ELSE Latest.mapping
      <4>1. r.since \in 1 .. since
        BY <3>2, <3>a DEF ResolveActivityID, FoundIn
      <4>2. m \in Activities \union {NoRow}
            /\ (m # NoRow => \E v \in Window(versions, r.since) : v.mapping = m)
        BY <4>1, Sources, TablesShape DEF TablesIn
      <4>3. new = IF m = NoRow THEN Refused
                  ELSE [at |-> "activity", keeps |-> r.keeps, since |-> r.since, activity |-> m]
        BY <3>2, <1>b DEF ResolveActivityID, Goto
      <4> HIDE DEF m, r, new
      <4>4. CASE m = NoRow
        BY <4>3, <4>4 DEF FoundIn, Refused
      <4>5. CASE m # NoRow
        BY <4>1, <4>2, <4>3, <4>5 DEF FoundIn
      <4> QED
        BY <4>4, <4>5
    <3>3. CASE ResolveActivity(t)
      <4> DEFINE from == IF Has(cache, r.activity) THEN cache ELSE Latest
                 row  == from.activity[r.activity]
      <4>1. r.at = "activity" /\ r.since \in 1 .. since /\ r.activity \in Activities
            /\ \E v \in Window(versions, r.since) : v.mapping = r.activity
        BY <3>3, <3>a DEF ResolveActivity, FoundIn
      <4>2. from \in Tables /\ TablesIn(Window(versions, r.since), from)
        BY <4>1, Sources
      <4>3. \/ new = Refused
            \/ /\ Has(from, r.activity)
               /\ new = [at |-> "product", keeps |-> r.keeps, since |-> r.since,
                         activity |-> r.activity, row |-> row,
                         rule |-> from.discount[row.discount]]
        BY <3>3, <1>b DEF ResolveActivity, Goto
      <4> HIDE DEF from, r, new
      <4>4. CASE new = Refused
        BY <4>4 DEF FoundIn, Refused
      <4>5. CASE new # Refused
        <5>1. Has(from, r.activity)
          BY <4>3, <4>5
        <5>2. row \in ActivityRows /\ row.discount \in Discounts
              /\ \E v \in Window(versions, r.since) : v.activity[r.activity] = row
          BY <4>1, <4>2, <5>1, TablesShape, TrialAssumption DEF Has, TablesIn
        <5>3. from.discount[row.discount] \in Rules
              /\ \E v \in Window(versions, r.since) :
                   v.discount[row.discount] = from.discount[row.discount]
          BY <4>2, <5>1, <5>2, TablesShape DEF Has, TablesIn
        <5> HIDE DEF row
        <5> QED
          BY <4>1, <4>3, <4>5, <5>2, <5>3 DEF FoundIn
      <4> QED
        BY <4>4, <4>5
    <3>4. CASE GetTrialResult(t) \/ ResolveProduct(t) \/ CacheTrialResult(t)
               \/ LookupFails(t) \/ Reply(t)
      <4>1. new.at \notin {"mapping", "activity", "product"}
        BY <3>4, <1>b DEF GetTrialResult, ResolveProduct, CacheTrialResult, LookupFails, Reply,
          Goto, Refused, Idle
      <4> QED
        BY <4>1 DEF FoundIn
    <3> QED
      BY <1>2, <3>1, <3>2, <3>3, <3>4 DEF RequestStep
  <2> QED
    BY <2>2, <2>3
<1>3. CASE Swap
  <2>1. since <= load.since /\ since' = load.since /\ load.since \in Nat /\ request' = request
    BY <1>c, <1>3 DEF Swap, LoadsWithinWindow
  <2> QED
    BY <1>1, <2>1
<1>4. CASE \/ AdminStep \/ Tick \/ LoadActivities \/ LoadDiscounts \/ LoadProducts
           \/ LoadMappings \/ LoadFails \/ KeptExpires \/ UNCHANGED vars
  <2>1. UNCHANGED <<since, request>>
    BY <1>a, <1>4, AdminAppends DEF Tick, LoadActivities, LoadDiscounts, LoadProducts,
      LoadMappings, LoadFails, KeptExpires, vars
  <2> QED
    BY <1>1, <1>d, <2>1
<1> QED
  BY <1>2, <1>3, <1>4 DEF Next, LoadStep

-----------------------------------------------------------------------------
(* Answers.                                                                *)

\* The answer that this request makes now.
MakesNow(t, x) ==
  /\ request[t].at = "product"
  /\ \E price \in Prices, inCrowd, inScope \in BOOLEAN :
       /\ price \in {cache.product, Latest.product}
       /\ ~ Unreadable(request[t].rule, inCrowd)
       /\ x = Answer(request[t], price, inCrowd, inScope)

\* The answer of a request is the one it had, the one in Redis, or a new one.
LEMMA AnswerComesFrom ==
  ASSUME IInv, NEW t \in Requests, RequestStep(t), NEW u \in Requests,
         request'[u].at \in {"keep", "answered"}
  PROVE  request'[u].answer \in Given \/ MakesNow(t, request'[u].answer)
<1> DEFINE x == request'[u].answer
<1>a. DOMAIN request = Requests
  BY DEF IInv, TypeOK
<1>b. \A y \in Requests : request[y].at \in {"keep", "answered"} => request[y].answer \in Given
  BY DEF Given, Answers
<1>1. CASE u # t
  <2>1. request'[u] = request[u]
    BY <1>1, <1>a DEF RequestStep, BeginTrial, GetTrialResult, ResolveActivityID,
      ResolveActivity, ResolveProduct, CacheTrialResult, LookupFails, Reply, Goto
  <2> QED
    BY <2>1, <1>b
<1>2. CASE u = t
  <2>1. CASE BeginTrial(t) \/ ResolveActivityID(t) \/ ResolveActivity(t) \/ LookupFails(t)
             \/ Reply(t)
    <3>1. request'[t].at \in {"mapping", "activity", "product", "refused", "idle"}
      BY <2>1, <1>a DEF BeginTrial, ResolveActivityID, ResolveActivity, LookupFails, Reply, Goto,
        Refused, Idle
    <3> QED
      BY <1>2, <3>1
  <2>2. CASE GetTrialResult(t)
    BY <1>2, <1>a, <2>2 DEF GetTrialResult, Goto, Given
  <2>3. CASE CacheTrialResult(t)
    BY <1>2, <1>a, <1>b, <2>3 DEF CacheTrialResult, Goto
  <2>4. CASE ResolveProduct(t)
    <3> DEFINE price == IF cache.product # NoRow THEN cache.product ELSE Latest.product
    <3>1. request[t].at = "product"
      BY <2>4 DEF ResolveProduct
    <3>2. PICK inCrowd \in BOOLEAN, inScope \in BOOLEAN :
            request'[t] =
              IF price = NoRow \/ Unreadable(request[t].rule, inCrowd) THEN Refused
              ELSE [at |-> IF request[t].keeps THEN "keep" ELSE "answered",
                    answer |-> Answer(request[t], price, inCrowd, inScope)]
      BY <2>4, <1>a DEF ResolveProduct, Goto
    <3>3. /\ price # NoRow /\ ~ Unreadable(request[t].rule, inCrowd)
          /\ request'[t].answer = Answer(request[t], price, inCrowd, inScope)
      BY <1>2, <3>2 DEF Refused
    <3>4. request[t].since \in 1 .. since
      BY <3>1 DEF IInv, FoundWithinWindow
    <3>5. price \in {cache.product, Latest.product} /\ price \in Prices
      BY <3>3, <3>4, Sources, TablesShape
    <3> QED
      BY <1>2, <3>1, <3>3, <3>5 DEF MakesNow
  <2> QED
    BY <2>1, <2>2, <2>3, <2>4 DEF RequestStep
<1> QED
  BY <1>1, <1>2

\* An answer is right when it is made.
LEMMA MadeRight ==
  ASSUME IInv, NEW t \in Requests, NEW x, MakesNow(t, x)
  PROVE  /\ x.since \in 1 .. Len(versions)
         /\ AnswerIn(Window(versions, x.since), x)
         /\ AmountsRight(x)
         /\ x.payPrice \in Nat
<1> DEFINE r == request[t]
<1>1. PICK price \in Prices, inCrowd \in BOOLEAN, inScope \in BOOLEAN :
        /\ price \in {cache.product, Latest.product}
        /\ ~ Unreadable(r.rule, inCrowd)
        /\ x = Answer(r, price, inCrowd, inScope)
  BY DEF MakesNow
<1>2. r.at = "product"
  BY DEF MakesNow
<1>3. /\ r.since \in 1 .. since
      /\ \E v \in Window(versions, r.since) : v.mapping = r.activity
      /\ r.row \in ActivityRows /\ r.rule \in Rules
      /\ \E v \in Window(versions, r.since) : v.activity[r.activity] = r.row
      /\ \E v \in Window(versions, r.since) : v.discount[r.row.discount] = r.rule
  BY <1>2 DEF IInv, FoundWithinWindow
<1> HIDE DEF r
<1>4. /\ x.since = r.since /\ x.activity = r.activity /\ x.row = r.row /\ x.rule = r.rule
      /\ x.price = price
  BY <1>1 DEF Answer
<1>5. price # NoRow
  BY TrialAssumption
<1>6. \E v \in Window(versions, r.since) : v.product = price
  BY <1>1, <1>3, <1>5, Sources DEF TablesIn
<1>7. AnswerIn(Window(versions, x.since), x)
  BY <1>3, <1>4, <1>6 DEF AnswerIn
<1>8. AmountsRight(x) /\ x.payPrice \in Nat
  BY <1>1, <1>3, AnswerAmounts
<1> QED
  BY <1>3, <1>4, <1>7, <1>8, Sources

\* What can be read after a step could be read before, or was made in the step.
LEMMA GivenComesFrom ==
  ASSUME IInv, [Next]_vars, NEW x \in Given'
  PROVE  x \in Given \/ \E t \in Requests : MakesNow(t, x)
<1>a. IInv /\ TypeOK
  BY DEF IInv
<1>b. \A y \in Requests : request[y].at \in {"keep", "answered"} => request[y].answer \in Given
  BY DEF Given, Answers
<1>1. ASSUME NEW t \in Requests, RequestStep(t)
      PROVE  x \in Given \/ \E u \in Requests : MakesNow(u, x)
  <2>1. CASE x \in Answers'
    <3>1. PICK u \in Requests :
            request'[u].at \in {"keep", "answered"} /\ x = request'[u].answer
      BY <2>1 DEF Answers
    <3> QED
      BY <1>1, <3>1, AnswerComesFrom
  <2>2. CASE x = kept' /\ kept' # NoRow
    <3>1. kept' = kept \/ (request[t].at = "keep" /\ kept' = request[t].answer)
      BY <1>1 DEF RequestStep, BeginTrial, GetTrialResult, ResolveActivityID, ResolveActivity,
        ResolveProduct, CacheTrialResult, LookupFails, Reply
    <3> QED
      BY <2>2, <3>1, <1>b DEF Given
  <2> QED
    BY <2>1, <2>2 DEF Given
<1>2. CASE AdminStep \/ Tick \/ LoadStep \/ KeptExpires \/ UNCHANGED vars
  <2>1. request' = request /\ kept' \in {kept, NoRow}
    BY <1>a, <1>2, AdminAppends DEF Tick, LoadStep, LoadActivities, LoadDiscounts, LoadProducts,
      LoadMappings, Swap, LoadFails, KeptExpires, vars
  <2>2. Answers' = Answers
    BY <2>1 DEF Answers
  <2> QED
    BY <2>1, <2>2 DEF Given
<1> QED
  BY <1>1, <1>2 DEF Next

LEMMA GivenStep ==
  ASSUME IInv, [Next]_vars
  PROVE  GivenRight' /\ \A x \in Given' : x.payPrice \in Nat
<1>a. TypeOK /\ GivenRight
  BY DEF IInv
<1> SUFFICES ASSUME NEW x \in Given'
             PROVE  /\ x.since \in 1 .. Len(versions')
                    /\ AnswerIn(Window(versions', x.since), x)
                    /\ AmountsRight(x)
                    /\ x.payPrice \in Nat
  BY DEF GivenRight
<1>1. /\ x.since \in 1 .. Len(versions)
      /\ AnswerIn(Window(versions, x.since), x)
      /\ AmountsRight(x)
      /\ x.payPrice \in Nat
  BY <1>a, GivenComesFrom, MadeRight DEF GivenRight, TypeOK
<1>2. /\ Len(versions) \in Nat /\ Len(versions') \in Nat /\ Len(versions) <= Len(versions')
      /\ Window(versions, x.since) \subseteq Window(versions', x.since)
  BY <1>a, <1>1, WindowsGrow DEF TypeOK
<1>3. AnswerIn(Window(versions', x.since), x)
  BY <1>1, <1>2, InMore
<1>4. x.since \in 1 .. Len(versions')
  BY <1>1, <1>2
<1> QED
  BY <1>1, <1>3, <1>4

-----------------------------------------------------------------------------
(* The invariant and what follows from it.                                 *)

LEMMA TypeStep == ASSUME IInv, [Next]_vars PROVE TypeOK'
<1>a. TypeOK
  BY DEF IInv
<1>1. versions' \in Seq(Tables) /\ versions' # <<>> /\ Len(versions) <= Len(versions')
  BY <1>a, WindowsGrow
<1>2. \A x \in Given' : x.payPrice \in Nat
  BY GivenStep
<1>3. cache' \in Tables \union {NoTables} /\ since' \in 0 .. Len(versions')
  <2>1. CASE UNCHANGED <<cache, since>>
    BY <1>a, <1>1, <2>1 DEF TypeOK
  <2>2. CASE Swap
    <3>1. LoadedSoFar = load.tables /\ load.at # "idle"
      BY <2>2, LoadedParts DEF Swap
    <3>2. load.tables \in Tables /\ load.since \in 1 .. Len(versions)
      BY <3>1 DEF IInv, LoadsWithinWindow
    <3> QED
      BY <1>1, <2>2, <3>2 DEF Swap, Replaced
  <2>3. UNCHANGED <<cache, since>> \/ Swap
    BY <1>a, AdminAppends DEF Next, Tick, LoadStep, LoadActivities, LoadDiscounts, LoadProducts,
      LoadMappings, LoadFails, KeptExpires, RequestStep, BeginTrial, GetTrialResult,
      ResolveActivityID, ResolveActivity, ResolveProduct, CacheTrialResult, LookupFails, Reply,
      vars
  <2> QED
    BY <2>1, <2>2, <2>3
<1>4. now' \in 0 .. MaxTime
  <2>1. now' = now \/ Tick
    BY <1>a, AdminAppends DEF Next, LoadStep, LoadActivities, LoadDiscounts, LoadProducts,
      LoadMappings, Swap, LoadFails, KeptExpires, RequestStep, BeginTrial, GetTrialResult,
      ResolveActivityID, ResolveActivity, ResolveProduct, CacheTrialResult, LookupFails, Reply,
      vars
  <2> QED
    BY <1>a, <2>1, TrialAssumption DEF TypeOK, Tick
<1>5. load'.at \in {"idle", "discounts", "product", "mapping", "swap"}
  <2>1. load' = load \/ LoadStep
    BY <1>a, AdminAppends DEF Next, Tick, KeptExpires, RequestStep, BeginTrial, GetTrialResult,
      ResolveActivityID, ResolveActivity, ResolveProduct, CacheTrialResult, LookupFails, Reply,
      vars
  <2> QED
    BY <1>a, <2>1 DEF TypeOK, LoadStep, LoadActivities, LoadDiscounts, LoadProducts, LoadMappings,
      Swap, LoadFails, Idle
<1>6. /\ DOMAIN request' = Requests
      /\ \A t \in Requests : request'[t].at \in
           {"idle", "mapping", "activity", "product", "keep", "answered", "refused"}
  <2>1. ASSUME NEW t \in Requests, RequestStep(t)
        PROVE  \E r : /\ request' = [request EXCEPT ![t] = r]
                      /\ r.at \in {"idle", "mapping", "activity", "product", "keep", "answered",
                                   "refused"}
    BY <2>1 DEF RequestStep, BeginTrial, GetTrialResult, ResolveActivityID, ResolveActivity,
      ResolveProduct, CacheTrialResult, LookupFails, Reply, Goto, Refused, Idle
  <2>2. CASE request' = request
    BY <1>a, <2>2 DEF TypeOK
  <2>3. ASSUME NEW t \in Requests, RequestStep(t)
        PROVE  /\ DOMAIN request' = Requests
               /\ \A u \in Requests : request'[u].at \in
                    {"idle", "mapping", "activity", "product", "keep", "answered", "refused"}
    BY <1>a, <2>1, <2>3 DEF TypeOK
  <2>4. request' = request \/ \E t \in Requests : RequestStep(t)
    BY <1>a, AdminAppends DEF Next, Tick, LoadStep, LoadActivities, LoadDiscounts, LoadProducts,
      LoadMappings, Swap, LoadFails, KeptExpires, vars
  <2> QED
    BY <2>2, <2>3, <2>4
<1> QED
  BY <1>1, <1>2, <1>3, <1>4, <1>5, <1>6 DEF TypeOK

LEMMA IInvInit == Init => IInv
<1> SUFFICES ASSUME Init PROVE IInv
  OBVIOUS
<1>1. PICK tables \in FirstTables : versions = <<tables>>
  BY DEF Init
<1>2. tables \in Tables
  BY FirstAssumption
<1>3. /\ versions \in Seq(Tables) /\ versions # <<>> /\ Len(versions) = 1
  BY <1>1, <1>2
<1>4. Given = {}
  BY DEF Init, Given, Answers, Idle
<1>5. TypeOK
  BY <1>3, <1>4, TrialAssumption DEF Init, TypeOK, Idle
<1>6. LoadsWithinWindow /\ FoundWithinWindow
  BY DEF Init, LoadsWithinWindow, FoundWithinWindow, Idle
<1>7. GivenRight
  BY <1>4 DEF GivenRight
<1> QED
  BY <1>5, <1>6, <1>7 DEF IInv

LEMMA IInvStep == IInv /\ [Next]_vars => IInv'
  BY TypeStep, LoadsStep, FoundStep, GivenStep DEF IInv

\* The inductive invariant, for any number of requests, loads and changes of the
\* tables: the cache and what is read on the way to it, what a request has found,
\* and the answers, in Redis too, are each from their window, and the amounts of
\* every answer are right.
THEOREM PricingInvariance == Spec => []IInv
  BY IInvInit, IInvStep, PTL DEF Spec

\* No part of an answer is older than the load that filled the cache when the
\* request began, or when the request did that left the answer in Redis
\* (trial.go: Trial; local.go: Load, and the exchange of the maps).
THEOREM AnswersAreRecent == Spec => []AnswerWithinWindow
<1>1. IInv => AnswerWithinWindow
  BY DEF IInv, GivenRight, Given, AnswerWithinWindow
<1> QED
  BY <1>1, PricingInvariance, PTL

\* The amounts of every answer make sense, for every price and every rule
\* (trial.go: calculatePayPrice and the three StringFixed).
THEOREM AmountsAreRight == Spec => []AmountsAddUp
<1>1. IInv => AmountsAddUp
  BY DEF IInv, GivenRight, Given, AmountsAddUp
<1> QED
  BY <1>1, PricingInvariance, PTL
=============================================================================
