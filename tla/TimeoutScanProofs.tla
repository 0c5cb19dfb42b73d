------------------------- MODULE TimeoutScanProofs -------------------------
(***************************************************************************)
(* Theorems of TimeoutScan, for any orders, goroutines and batch size.     *)
(***************************************************************************)
EXTENDS TimeoutScan, FiniteSetTheorems, WellFoundedInduction, TLAPS

-----------------------------------------------------------------------------
(* Pages: the n smallest of a set, and its largest member.                 *)

\* A non-empty set of numbers has a least one.
LEMMA LeastExists ==
  ASSUME NEW T \in SUBSET Nat, T # {}
  PROVE  \E m \in T : \A k \in T : m <= k
<1>1. PICK m \in T : \A k \in T : ~(<<k, m>> \in OpToRel(<, Nat))
  BY WFMin, NatLessThanWellFounded
<1>2. \A k \in T : ~(k < m)
  BY <1>1 DEF OpToRel
<1> QED
  BY <1>2

Below(o, S) == {p \in S : p < o}

LEMMA BelowFinite ==
  ASSUME NEW S, IsFiniteSet(S), NEW o
  PROVE  IsFiniteSet(Below(o, S)) /\ Cardinality(Below(o, S)) \in Nat
BY FS_Subset, FS_CardinalityType DEF Below

\* What a page leaves out is larger than all that is on it.
LEMMA FirstIsFirst ==
  ASSUME NEW S \in SUBSET Nat, IsFiniteSet(S), NEW n \in Nat,
         NEW o \in S, NEW f \in First(n, S), o <= f
  PROVE  o \in First(n, S)
<1>1. f \in S /\ Cardinality(Below(f, S)) < n
  BY DEF First, Below
<1>2. Below(o, S) \subseteq Below(f, S)
  <2> SUFFICES ASSUME NEW p \in S, p < o PROVE p < f
    BY DEF Below
  <2> QED
    BY <1>1
<1>3. Cardinality(Below(o, S)) <= Cardinality(Below(f, S))
  BY <1>2, BelowFinite, FS_Subset
<1>4. Cardinality(Below(o, S)) < n
  BY <1>1, <1>3, BelowFinite
<1> QED
  BY <1>4 DEF First, Below

\* A page that is not full has everything.
LEMMA ShortPageIsAll ==
  ASSUME NEW S \in SUBSET Nat, IsFiniteSet(S), NEW n \in Nat,
         Cardinality(First(n, S)) < n
  PROVE  First(n, S) = S
<1> DEFINE T == S \ First(n, S)
<1>1. SUFFICES ASSUME T # {} PROVE FALSE
  BY DEF First
<1>2. PICK m \in T : \A k \in T : m <= k
  BY <1>1, LeastExists
<1>3. Below(m, S) \subseteq First(n, S)
  <2> SUFFICES ASSUME NEW p \in S, p < m, p \notin First(n, S) PROVE FALSE
    BY DEF Below
  <2>1. p \in T
    OBVIOUS
  <2> QED
    BY <1>2, <2>1
<1>4. IsFiniteSet(First(n, S)) /\ Cardinality(First(n, S)) \in Nat
  BY FS_Subset, FS_CardinalityType DEF First
<1>5. Cardinality(Below(m, S)) <= Cardinality(First(n, S))
  BY <1>3, <1>4, FS_Subset
<1>6. Cardinality(Below(m, S)) < n
  BY <1>4, <1>5, BelowFinite
<1> QED
  BY <1>6 DEF First, Below

\* A page has a last row: the one with the most rows before it.
LEMMA LargestExists ==
  ASSUME NEW S \in SUBSET Nat, IsFiniteSet(S), S # {}
  PROVE  Largest(S) \in S /\ \A p \in S : p <= Largest(S)
<1> DEFINE after(o) == Cardinality(S) - Cardinality(Below(o, S))
           A == {after(o) : o \in S}
<1>1. ASSUME NEW o \in S PROVE after(o) \in Nat
  <2>1. Below(o, S) \subseteq S
    BY DEF Below
  <2> QED
    BY <2>1, FS_Subset, FS_CardinalityType
<1>2. PICK m \in A : \A k \in A : m <= k
  <2>1. A \in SUBSET Nat /\ A # {}
    BY <1>1
  <2> HIDE DEF A
  <2> QED
    BY <2>1, LeastExists
<1>3. PICK x \in S : m = after(x)
  BY <1>2
<1>4. ASSUME NEW p \in S, x < p PROVE FALSE
  <2>1. Below(x, S) \union {x} \subseteq Below(p, S)
    <3> SUFFICES ASSUME NEW q \in S, q < x \/ q = x PROVE q < p
      BY DEF Below
    <3> QED
      BY <1>4
  <2>2. Cardinality(Below(x, S) \union {x}) = Cardinality(Below(x, S)) + 1
    <3>1. x \notin Below(x, S)
      <4>1. x \in Nat
        OBVIOUS
      <4> QED
        BY ONLY <4>1, SMT DEF Below
    <3>2. IsFiniteSet(Below(x, S))
      BY BelowFinite
    <3> HIDE DEF A, after
    <3> QED
      BY <3>1, <3>2, FS_AddElement
  <2>3. Cardinality(Below(x, S) \union {x}) <= Cardinality(Below(p, S))
    BY <2>1, BelowFinite, FS_Subset
  <2>4. after(p) < after(x)
    BY <2>2, <2>3, BelowFinite, FS_CardinalityType
  <2>5. after(x) <= after(p)
    BY <1>2, <1>3
  <2> QED
    BY <2>4, <2>5, <1>1
<1>5. \A p \in S : p <= x
  BY <1>4
<1> QED
  BY <1>5 DEF Largest

-----------------------------------------------------------------------------
(* The orders a query returns.                                             *)

GroupResult(s)  == {o \in Ids \ direct : TimedOut(o) /\ Listed(o) /\ Beyond(s, o)}

DirectResult(s) == {o \in direct : TimedOut(o) /\ Beyond(s, o)}

LEMMA SetOfIds ==
  ASSUME NEW S, S \subseteq Ids
  PROVE  /\ S \in SUBSET Nat /\ IsFiniteSet(S) /\ Cardinality(S) \in Nat
         /\ \A n : First(n, S) \subseteq S
BY ScanAssumption, FS_Subset, FS_CardinalityType DEF First

LEMMA PageRange ==
  ASSUME NEW S, S \subseteq Ids, NEW n
  PROVE  First(n, S) \subseteq Ids /\ Cardinality(First(n, S)) \in Nat
BY SetOfIds

\* What a query's page leaves out is behind its last row.
LEMMA LeftOut ==
  ASSUME NEW S, S \subseteq Ids, NEW n \in Nat, First(n, S) # {},
         NEW o \in S, o \notin First(n, S)
  PROVE  o > Largest(First(n, S))
<1>1. S \in SUBSET Nat /\ IsFiniteSet(S)
  BY SetOfIds
<1>2. First(n, S) \in SUBSET Nat /\ IsFiniteSet(First(n, S))
  BY SetOfIds, PageRange
<1>3. Largest(First(n, S)) \in First(n, S)
  BY <1>2, LargestExists
<1>4. ~(o <= Largest(First(n, S)))
  BY <1>1, <1>3, FirstIsFirst
<1> QED
  BY <1>1, <1>2, <1>3, <1>4

-----------------------------------------------------------------------------
LEMMA InitInvariant == Init => IInv
BY ScanAssumption DEF Init, IInv, TypeOK, ScanState, Idle, Findable, Covered, Waiting

LEMMA LargestIsId ==
  ASSUME NEW S, S \subseteq Ids, S # {}
  PROVE  Largest(S) \in Ids
BY SetOfIds, LargestExists

LEMMA TypeStep == IInv /\ [Next]_vars => TypeOK'
<1> SUFFICES ASSUME IInv, [Next]_vars PROVE TypeOK'
  OBVIOUS
<1>a. TypeOK
  BY DEF IInv
<1> USE <1>a DEF TypeOK, ScanState
<1>b. ASSUME NEW s \in Scanners, EndScan(s), UNCHANGED <<direct, locked, due, stuck, failed, rows>>
      PROVE  TypeOK'
  BY <1>b DEF EndScan, Idle, Released
<1>1. ASSUME NEW o \in Ids, TimePasses(o) PROVE TypeOK'
  BY <1>1 DEF TimePasses
<1>2. ASSUME NEW o \in Ids, LeavesLocked(o) PROVE TypeOK'
  BY <1>2 DEF LeavesLocked
<1>3. ASSUME NEW o \in Ids, GetsStuck(o) \/ GetsFree(o) PROVE TypeOK'
  BY <1>3 DEF GetsStuck, GetsFree
<1>4. ASSUME NEW o \in Ids, MessageArrives(o) PROVE TypeOK'
  BY <1>4 DEF MessageArrives, RefundOrder
<1>8. ASSUME NEW o \in Ids, TeamRemoved(o) \/ ActivityRemoved(o) \/ ActivityCreated(o)
      PROVE  TypeOK'
  BY <1>8 DEF TeamRemoved, ActivityRemoved, ActivityCreated, Unlisted
<1>5. ASSUME NEW s \in Scanners, ScanStep(s) PROVE TypeOK'
  <2>1. CASE AcquireScanLock(s)
    BY <2>1 DEF AcquireScanLock, Idle
  <2>2. CASE FindGroupOrders(s)
    <3> DEFINE page == First(BatchSize, GroupResult(s))
               full == Cardinality(page) >= BatchSize
    <3>1. page \subseteq Ids
      BY PageRange DEF GroupResult
    <3>2. full => Largest(page) \in Ids
      <4>1. full => page # {}
        <5>1. BatchSize \in Nat \ {0}
          BY ScanAssumption
        <5> QED
          BY ONLY <5>1, FS_EmptySet
      <4> QED
        BY <3>1, <4>1, LargestIsId
    <3>3. /\ scan' = [scan EXCEPT ![s] =
               [@ EXCEPT !.at = IF full THEN "work" ELSE "direct", !.page = page,
                         !.full = full, !.next = IF full THEN Largest(page) ELSE 0]]
          /\ awaited' = IF full
                        THEN [awaited EXCEPT ![s] = {o \in @ : o \notin direct \/ o > Largest(page)}]
                        ELSE awaited
          /\ UNCHANGED <<direct, locked, due, stuck, failed, rows, lock>>
      BY <2>2 DEF FindGroupOrders, GroupResult
    <3> HIDE DEF page
    <3>4. CASE full
      <4>1. scan' = [scan EXCEPT ![s] = [@ EXCEPT !.at = "work", !.page = page,
                                                  !.full = TRUE, !.next = Largest(page)]]
        BY <3>3, <3>4
      <4>2. scan' \in [Scanners -> ScanState]
        BY <3>1, <3>2, <3>4, <4>1
      <4> QED
        BY <3>3, <3>4, <4>2
    <3>5. CASE ~full
      <4>1. scan' = [scan EXCEPT ![s] = [@ EXCEPT !.at = "direct", !.page = page,
                                                  !.full = full, !.next = 0]]
        BY <3>3, <3>5
      <4>2. full \in BOOLEAN
        OBVIOUS
      <4>3. scan' \in [Scanners -> ScanState]
        <5> HIDE DEF full
        <5> QED
          BY <3>1, <4>1, <4>2
      <4> QED
        BY <3>3, <3>5, <4>3
    <3> QED
      BY <3>4, <3>5
  <2>3. CASE FindDirectOrders(s)
    <3> DEFINE page == scan[s].page
               rest == First(BatchSize - Cardinality(page), DirectResult(s))
    <3>1. page \subseteq Ids /\ rest \subseteq Ids
      BY PageRange DEF DirectResult
    <3>2. page \union rest # {} => CursorAt(page, rest) \in Ids
      BY <3>1, LargestIsId DEF CursorAt
    <3>3. /\ UNCHANGED <<direct, locked, due, stuck, failed, rows>>
          /\ IF page \union rest = {}
             THEN EndScan(s)
             ELSE /\ scan' = [scan EXCEPT ![s] =
                       [@ EXCEPT !.at = "work", !.page = page \union rest,
                                 !.full = Cardinality(page) + Cardinality(rest) >= BatchSize,
                                 !.next = CursorAt(page, rest)]]
                  /\ UNCHANGED <<lock, awaited>>
      BY <2>3 DEF FindDirectOrders, DirectResult
    <3>4. CASE page \union rest = {}
      BY <3>3, <3>4, <1>b
    <3>5. CASE page \union rest # {}
      <4> DEFINE full == Cardinality(page) + Cardinality(rest) >= BatchSize
                 next == CursorAt(page, rest)
      <4>1. scan' = [scan EXCEPT ![s] = [@ EXCEPT !.at = "work", !.page = page \union rest,
                                                  !.full = full, !.next = next]]
        BY <3>3, <3>5
      <4>2. full \in BOOLEAN /\ next \in Ids /\ page \union rest \subseteq Ids
        BY <3>1, <3>2, <3>5
      <4> HIDE DEF full, next, page, rest
      <4>3. scan' \in [Scanners -> ScanState]
        BY <4>1, <4>2
      <4> QED
        BY <3>3, <3>5, <4>3
    <3> QED
      BY <3>4, <3>5
  <2>4. CASE TurnPage(s)
    <3>1. CASE scan[s].full
      <4>1. scan' = [scan EXCEPT ![s] = [Idle EXCEPT !.at = "group", !.last = scan[s].next]]
        BY <2>4, <3>1 DEF TurnPage
      <4>2. [Idle EXCEPT !.at = "group", !.last = scan[s].next] \in ScanState
        BY DEF Idle
      <4> QED
        BY <2>4, <3>1, <4>1, <4>2 DEF TurnPage
    <3>2. CASE ~scan[s].full
      BY <2>4, <3>2, <1>b DEF TurnPage
    <3> QED
      BY <3>1, <3>2
  <2>5. ASSUME NEW o \in Ids, HandOver(s, o) PROVE TypeOK'
    BY <2>5 DEF HandOver, RefundOrder
  <2>6. CASE ScanStops(s)
    BY <2>6 DEF ScanStops, Idle, Released
  <2> QED
    BY <1>5, <2>1, <2>2, <2>3, <2>4, <2>5, <2>6 DEF ScanStep, Finish
<1>6. CASE LockExpires
  BY <1>6 DEF LockExpires
<1>7. CASE UNCHANGED vars
  BY <1>7 DEF vars
<1> QED
  BY <1>1, <1>2, <1>3, <1>4, <1>5, <1>6, <1>7, <1>8 DEF Next

\* What the other actors do: orders leave Locked, become due, and are awaited
\* no more if they lose their team or activity; a goroutine's scan stays as it is.
LEMMA CoveredStays ==
  ASSUME IInv, NEW s \in Scanners, scan'[s] = scan[s], awaited'[s] \subseteq awaited[s],
         \A o \in awaited'[s] : rows'[o] = rows[o],
         locked' \subseteq locked, due \subseteq due', direct' = direct
  PROVE  Findable(s)' /\ Covered(s)'
<1>1. Findable(s) /\ Covered(s)
  BY DEF IInv
<1>2. Findable(s)'
  BY <1>1 DEF Findable, Listed
<1>3. Waiting(s)' \subseteq Waiting(s)
  BY DEF Waiting
<1>4. Covered(s)'
  BY <1>1, <1>3 DEF Covered, Beyond
<1> QED
  BY <1>2, <1>4

\* A scan that is over waits for nothing.
LEMMA CoveredAtEnd ==
  ASSUME NEW s \in Scanners, scan'[s] = Idle, awaited'[s] = {}
  PROVE  Findable(s)' /\ Covered(s)'
BY DEF Findable, Covered, Waiting, Idle

\* Query A puts the team orders on the page, or behind its last row.
LEMMA CoveredByGroup ==
  ASSUME IInv, NEW s \in Scanners, FindGroupOrders(s)
  PROVE  Findable(s)' /\ Covered(s)'
<1> DEFINE S    == GroupResult(s)
           page == First(BatchSize, S)
           full == Cardinality(page) >= BatchSize
<1>1. /\ scan[s].at = "group"
      /\ scan' = [scan EXCEPT ![s] =
           [@ EXCEPT !.at = IF full THEN "work" ELSE "direct", !.page = page,
                     !.full = full, !.next = IF full THEN Largest(page) ELSE 0]]
      /\ awaited' = IF full
                    THEN [awaited EXCEPT ![s] = {o \in @ : o \notin direct \/ o > Largest(page)}]
                    ELSE awaited
      /\ UNCHANGED <<direct, locked, due, stuck, failed, rows, lock>>
  BY DEF FindGroupOrders, GroupResult
<1>2. TypeOK /\ Findable(s) /\ Covered(s)
  BY DEF IInv
<1>3. \A o \in Waiting(s) : o \in Ids /\ (o \notin direct => o \in S)
  BY <1>1, <1>2 DEF TypeOK, Findable, Covered, Waiting, GroupResult, TimedOut
<1>4. /\ S \subseteq Ids /\ S \in SUBSET Nat /\ IsFiniteSet(S)
      /\ BatchSize \in Nat \ {0} /\ Cardinality(page) \in Nat
  <2>1. S \subseteq Ids
    BY DEF GroupResult
  <2> QED
    BY <2>1, SetOfIds, PageRange, ScanAssumption
<1>5. scan[s] \in ScanState /\ scan \in [Scanners -> ScanState] /\ awaited \in [Scanners -> SUBSET Ids]
  BY <1>2 DEF TypeOK
<1> HIDE DEF S
<1>6. CASE full
  <2>1. page # {}
    BY <1>4, <1>6, FS_EmptySet
  <2>2. /\ scan'[s].at = "work" /\ scan'[s].page = page /\ scan'[s].full
        /\ scan'[s].next = Largest(page)
    BY <1>1, <1>5, <1>6 DEF ScanState
  <2>3. awaited'[s] = {o \in awaited[s] : o \notin direct \/ o > Largest(page)}
    BY <1>1, <1>5, <1>6
  <2>4. ASSUME NEW o \in awaited'[s], o \in locked' PROVE o \in page \/ o > Largest(page)
    <3>1. o \in Waiting(s)
      BY <1>1, <2>3, <2>4 DEF Waiting
    <3>2. CASE o \in direct
      BY <2>3, <3>2
    <3>3. CASE o \notin direct
      BY <1>3, <1>4, <2>1, <3>1, <3>3, LeftOut
    <3> QED
      BY <3>2, <3>3
  <2> HIDE DEF page, full
  <2>5. Findable(s)'
    BY <1>1, <1>2, <2>3 DEF Findable, Listed
  <2> QED
    BY <1>1, <1>2, <2>2, <2>3, <2>4, <2>5 DEF Covered, Waiting
<1>7. CASE ~full
  <2>1. Cardinality(page) < BatchSize
    BY <1>4, <1>7
  <2>2. page = S
    BY <1>4, <2>1, ShortPageIsAll
  <2>3. /\ scan'[s].at = "direct" /\ scan'[s].page = page /\ scan'[s].last = scan[s].last
        /\ awaited'[s] = awaited[s]
    BY <1>1, <1>5, <1>7 DEF ScanState
  <2>4. \A o \in Waiting(s) : Beyond(s, o)
    BY <1>1, <1>2 DEF Covered
  <2> HIDE DEF page, full
  <2>5. Waiting(s)' = Waiting(s)
    BY <1>1, <2>3 DEF Waiting
  <2>6. Findable(s)'
    BY <1>1, <1>2, <2>3 DEF Findable, Listed
  <2> QED
    BY <1>1, <1>2, <1>3, <2>1, <2>2, <2>3, <2>4, <2>5, <2>6 DEF Covered, Beyond
<1> QED
  BY <1>6, <1>7

\* Query B puts the direct purchases on the page, or behind its last row;
\* a page that is not full leaves none.
LEMMA DirectPage ==
  ASSUME IInv, NEW s \in Scanners, scan[s].at = "direct", NEW o \in Waiting(s),
         NEW rest, rest = First(BatchSize - Cardinality(scan[s].page), DirectResult(s)),
         o \notin scan[s].page \union rest
  PROVE  /\ Cardinality(scan[s].page) + Cardinality(rest) >= BatchSize
         /\ rest # {} /\ o > Largest(rest)
<1> DEFINE S    == DirectResult(s)
           room == BatchSize - Cardinality(scan[s].page)
<1>1. TypeOK /\ Findable(s) /\ Covered(s)
  BY DEF IInv
<1>2. o \in S
  BY <1>1 DEF TypeOK, Findable, Covered, Waiting, DirectResult, TimedOut
<1>3. S \subseteq Ids /\ scan[s].page \subseteq Ids
  BY <1>1 DEF TypeOK, ScanState, DirectResult
<1>4. /\ S \in SUBSET Nat /\ IsFiniteSet(S)
      /\ Cardinality(scan[s].page) \in Nat
      /\ Cardinality(rest) \in Nat
  BY <1>3, SetOfIds, PageRange
<1>5. room \in Nat /\ room > 0
  BY <1>1, <1>4, ScanAssumption DEF Covered
<1>6. rest = First(room, S)
  OBVIOUS
<1> HIDE DEF S, room
<1>7. ~(Cardinality(rest) < room)
  BY <1>2, <1>4, <1>5, <1>6, ShortPageIsAll
<1>8. rest # {}
  BY <1>5, <1>7, FS_EmptySet
<1>9. o > Largest(rest)
  BY <1>2, <1>3, <1>5, <1>6, <1>8, LeftOut
<1> QED
  BY <1>4, <1>7, <1>8, <1>9, ScanAssumption DEF room

LEMMA CoveredByDirect ==
  ASSUME IInv, NEW s \in Scanners, FindDirectOrders(s),
         ~(scan'[s] = Idle /\ awaited'[s] = {})
  PROVE  Findable(s)' /\ Covered(s)'
<1> DEFINE page == scan[s].page
           rest == First(BatchSize - Cardinality(page), DirectResult(s))
           full == Cardinality(page) + Cardinality(rest) >= BatchSize
<1>1. TypeOK /\ Findable(s) /\ Covered(s)
  BY DEF IInv
<1>2. /\ scan[s].at = "direct"
      /\ UNCHANGED <<direct, locked, due, stuck, failed, rows>>
      /\ IF page \union rest = {}
         THEN EndScan(s)
         ELSE /\ scan' = [scan EXCEPT ![s] =
                   [@ EXCEPT !.at = "work", !.page = page \union rest,
                             !.full = full, !.next = CursorAt(page, rest)]]
              /\ UNCHANGED <<lock, awaited>>
  BY DEF FindDirectOrders, DirectResult
<1>3. ASSUME NEW o \in Waiting(s), o \notin page \union rest
      PROVE  full /\ rest # {} /\ o > Largest(rest)
  BY <1>2, <1>3, DirectPage
<1>4. page \union rest # {}
  <2>1. ~EndScan(s)
    BY <1>1 DEF EndScan, TypeOK
  <2> QED
    BY <1>2, <2>1
<1>5. scan \in [Scanners -> ScanState] /\ scan[s] \in ScanState
  BY <1>1 DEF TypeOK
<1>6. /\ scan' = [scan EXCEPT ![s] = [@ EXCEPT !.at = "work", !.page = page \union rest,
                                             !.full = full, !.next = CursorAt(page, rest)]]
      /\ awaited' = awaited
  BY <1>2, <1>4
<1>7. full \in BOOLEAN
  OBVIOUS
<1> HIDE DEF page, rest, full
<1>8. /\ scan'[s].at = "work" /\ scan'[s].page = page \union rest /\ scan'[s].full = full
      /\ scan'[s].next = CursorAt(page, rest)
  BY <1>5, <1>6, <1>7 DEF ScanState
<1>9. Waiting(s)' = Waiting(s)
  BY <1>2, <1>6 DEF Waiting
<1>10. Findable(s)'
  BY <1>1, <1>2, <1>6 DEF Findable, Listed
<1> QED
  BY <1>1, <1>2, <1>3, <1>6, <1>8, <1>9, <1>10 DEF Covered, CursorAt

\* A scan that ends of itself waits for nothing that is still locked.
LEMMA EndsCovered ==
  ASSUME IInv, NEW s \in Scanners, Finish(s), scan'[s] = Idle
  PROVE  Waiting(s) = {}
<1>1. TypeOK /\ Covered(s)
  BY DEF IInv
<1>2. CASE FindDirectOrders(s)
  <2> DEFINE page == scan[s].page
             rest == First(BatchSize - Cardinality(page), DirectResult(s))
  <2>1. scan[s].at = "direct" /\ (page \union rest # {} => scan'[s].at = "work")
    BY <1>1, <1>2 DEF FindDirectOrders, DirectResult, TypeOK, ScanState
  <2>2. page \union rest = {}
    BY <2>1 DEF Idle
  <2>3. ASSUME NEW o \in Waiting(s) PROVE FALSE
    BY <2>1, <2>2, DirectPage
  <2> QED
    BY <2>3
<1>3. CASE TurnPage(s)
  <2>1. scan[s].at = "work" /\ scan[s].page = {}
    BY <1>3 DEF TurnPage
  <2>2. ~scan[s].full
    <3> SUFFICES ASSUME scan[s].full PROVE FALSE
      OBVIOUS
    <3>1. scan' = [scan EXCEPT ![s] = [Idle EXCEPT !.at = "group", !.last = scan[s].next]]
      BY <1>3 DEF TurnPage
    <3>2. scan'[s].at = "group"
      BY <1>1, <3>1 DEF Idle, TypeOK
    <3> QED
      BY <3>2 DEF Idle
  <2> QED
    BY <1>1, <2>1, <2>2 DEF Covered
<1> QED
  BY <1>2, <1>3 DEF Finish

LEMMA CoveredStep ==
  ASSUME IInv, [Next]_vars, NEW s \in Scanners
  PROVE  Findable(s)' /\ Covered(s)'
<1>1. TypeOK /\ Findable(s) /\ Covered(s)
  BY DEF IInv
<1>2. ASSUME UNCHANGED <<scan, awaited, rows, direct>>, locked' \subseteq locked, due \subseteq due'
      PROVE  Findable(s)' /\ Covered(s)'
  BY <1>2, CoveredStays
<1>3. ASSUME NEW o \in Ids, \/ TimePasses(o) \/ LeavesLocked(o) \/ MessageArrives(o)
                            \/ GetsStuck(o) \/ GetsFree(o)
      PROVE  Findable(s)' /\ Covered(s)'
  BY <1>2, <1>3 DEF TimePasses, LeavesLocked, GetsStuck, GetsFree, MessageArrives, RefundOrder
<1>7. ASSUME NEW o \in Ids, TeamRemoved(o) \/ ActivityRemoved(o) \/ ActivityCreated(o)
      PROVE  Findable(s)' /\ Covered(s)'
  <2>1. UNCHANGED <<scan, direct, locked, due>>
    BY <1>7 DEF TeamRemoved, ActivityRemoved, ActivityCreated, Unlisted
  <2>2. awaited'[s] \subseteq awaited[s]
    BY <1>1, <1>7 DEF TypeOK, TeamRemoved, ActivityRemoved, ActivityCreated, Unlisted
  <2>3. ASSUME NEW p \in awaited'[s] PROVE rows'[p] = rows[p]
    <3>1. p \in awaited[s] /\ p \in Ids /\ rows[p] = "whole"
      BY <1>1, <2>2 DEF TypeOK, Findable, Listed
    <3>2. p # o
      BY <1>1, <1>7, <3>1 DEF TypeOK, TeamRemoved, ActivityRemoved, ActivityCreated, Unlisted
    <3> QED
      BY <1>1, <1>7, <3>1, <3>2 DEF TypeOK, TeamRemoved, ActivityRemoved, ActivityCreated, Unlisted
  <2> QED
    BY <2>1, <2>2, <2>3, CoveredStays
<1>4. ASSUME NEW t \in Scanners, ScanStep(t)
      PROVE  Findable(s)' /\ Covered(s)'
  <2>1. UNCHANGED <<direct, due, rows>> /\ locked' \subseteq locked
    BY <1>4 DEF ScanStep, AcquireScanLock, FindGroupOrders, Finish, FindDirectOrders, TurnPage,
                EndScan, HandOver, RefundOrder, ScanStops
  <2>2. CASE t # s
    <3>1. scan'[s] = scan[s] /\ awaited'[s] = awaited[s]
      BY <1>1, <1>4, <2>2 DEF TypeOK, ScanStep, AcquireScanLock, FindGroupOrders, Finish,
              FindDirectOrders, TurnPage, EndScan, HandOver, ScanStops
    <3> QED
      BY <2>1, <3>1, CoveredStays
  <2>3. CASE t = s /\ AcquireScanLock(s)
    <3>1. /\ scan'[s].at = "group" /\ scan'[s].last = 0
          /\ awaited'[s] = {o \in Ids : TimedOut(o) /\ Listed(o)}
      BY <1>1, <2>3 DEF AcquireScanLock, Idle, TypeOK
    <3>2. \A o \in Ids : o > 0
      BY ScanAssumption
    <3> QED
      BY <2>1, <3>1, <3>2 DEF Findable, Listed, Covered, Waiting, Beyond, TimedOut
  <2>4. CASE t = s /\ FindGroupOrders(s)
    BY <2>4, CoveredByGroup
  <2>5. CASE t = s /\ FindDirectOrders(s)
    BY <2>5, CoveredByDirect, CoveredAtEnd
  <2>6. CASE t = s /\ TurnPage(s)
    <3>1. CASE scan[s].full
      <4>1. /\ scan' = [scan EXCEPT ![s] = [Idle EXCEPT !.at = "group", !.last = scan[s].next]]
            /\ UNCHANGED <<awaited, locked>>
        BY <2>6, <3>1 DEF TurnPage
      <4>2. scan'[s].at = "group" /\ scan'[s].last = scan[s].next
        BY <1>1, <4>1 DEF Idle, TypeOK
      <4> QED
        BY <1>1, <2>1, <2>6, <3>1, <4>1, <4>2 DEF TurnPage, Findable, Listed, Covered, Waiting, Beyond
    <3>2. CASE ~scan[s].full
      BY <1>1, <2>6, <3>2, CoveredAtEnd DEF TurnPage, EndScan, TypeOK
    <3> QED
      BY <3>1, <3>2
  <2>7. ASSUME NEW o \in Ids, t = s, HandOver(s, o)
        PROVE  Findable(s)' /\ Covered(s)'
    <3>1. /\ scan[s].at = "work" /\ scan'[s].at = "work" /\ scan'[s].full = scan[s].full
          /\ scan'[s].next = scan[s].next /\ scan'[s].page = scan[s].page \ {o}
          /\ awaited'[s] = awaited[s] \ {o}
      BY <1>1, <2>7 DEF HandOver, TypeOK, ScanState
    <3> QED
      BY <1>1, <2>1, <3>1 DEF Findable, Listed, Covered, Waiting
  <2>8. CASE t = s /\ ScanStops(s)
    BY <1>1, <2>8, CoveredAtEnd DEF ScanStops, TypeOK
  <2> QED
    BY <1>4, <2>2, <2>3, <2>4, <2>5, <2>6, <2>7, <2>8 DEF ScanStep, Finish
<1>5. CASE LockExpires
  BY <1>2, <1>5 DEF LockExpires
<1>6. CASE UNCHANGED vars
  BY <1>2, <1>6 DEF vars
<1> QED
  BY <1>3, <1>4, <1>5, <1>6, <1>7 DEF Next

-----------------------------------------------------------------------------
\* The inductive invariant holds for any orders, goroutines and batch size:
\* what a scan must still see to can be found, and is on its page or in front
\* of it.
THEOREM ScanInvariance == Spec => []IInv
<1>1. IInv /\ [Next]_vars => IInv'
  BY TypeStep, CoveredStep DEF IInv
<1> QED
  BY <1>1, InitInvariant, PTL DEF Spec

\* A scan that ends of itself has handed over every order that was overdue when
\* it began and still is, but for the direct purchases it jumped over and the
\* orders whose team or activity was deleted.
THEOREM NothingLeft == Spec => ScanLeavesNothing
<1>1. IInv /\ [Next]_vars =>
        [\A s \in Scanners : Finish(s) /\ scan'[s] = Idle => awaited[s] \intersect locked = {}]_vars
  BY EndsCovered DEF Waiting
<1> QED
  BY <1>1, ScanInvariance, PTL DEF Spec, ScanLeavesNothing
=============================================================================
