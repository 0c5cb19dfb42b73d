------------------------- MODULE NotifyTasksProofs -------------------------
(***************************************************************************)
(* Theorems of NotifyTasks, for any team, any number of handlers and       *)
(* scanners, any retry limit and any batch size.                           *)
(*                                                                         *)
(* Scans may overlap, because the lock of a scan can be lost while its     *)
(* batch is worked off. The proof follows the copies a scan works with:    *)
(* however stale, a copy never claims more failures than were seen.        *)
(***************************************************************************)
EXTENDS NotifyTasks, FiniteSetTheorems, SequenceTheorems, TLAPS

LEMMA Constants ==
  /\ MaxRetry \in Nat /\ MaxRetry > 0 /\ BatchSize \in Nat /\ BatchSize > 0
  /\ Target \in Nat
  BY NotifyAssumption

\* The outbox can hold one row for each name.
LEMMA AsleepIsNat == Asleep \in Nat /\ Asleep > 0 /\ IsFiniteSet(Uuids)
<1>1. IsFiniteSet(Categories)
  <2>1. Categories = {"settlement"} \union {"refund"}
    BY DEF Categories
  <2> QED
    BY <2>1, FS_AddElement, FS_Singleton
<1>2. IsFiniteSet(Uuids)
  BY <1>1, FS_Product, NotifyAssumption DEF Uuids
<1> QED
  BY <1>2, FS_CardinalityType DEF Asleep

\* Rows with distinct names are no more than the names.
LEMMA RowsFit ==
  ASSUME tasks \in Seq(Task), OneRowEach
  PROVE  Len(tasks) < Asleep
<1> DEFINE f == [i \in TaskIds |-> tasks[i].uuid]
<1>1. Len(tasks) \in Nat
  BY LenProperties
<1>2. f \in [TaskIds -> Uuids]
  <2>1. \A i \in TaskIds : tasks[i] \in Task
    BY ElementOfSeq DEF TaskIds
  <2> QED
    BY <2>1 DEF Task
<1>3. f \in Injection(TaskIds, Uuids)
  BY <1>2 DEF OneRowEach, Injection, IsInjective
<1>4. Cardinality(TaskIds) <= Cardinality(Uuids)
  BY <1>3, AsleepIsNat, FS_Injection
<1>5. Cardinality(TaskIds) = Len(tasks)
  BY <1>1, FS_Interval DEF TaskIds
<1> QED
  BY <1>1, <1>4, <1>5, AsleepIsNat, FS_CardinalityType DEF Asleep

\* A page that is not empty has a last row.
LEMMA LastOfPage ==
  ASSUME NEW n \in Nat, NEW S \in SUBSET (1 .. n), S # {}
  PROVE  (CHOOSE i \in S : \A j \in S : j <= i) \in S
<1> DEFINE R == OpToRel(<, Nat)
           T == {n - i : i \in S}
<1>1. T \subseteq Nat /\ T # {}
  <2>1. \A i \in S : n - i \in Nat
    OBVIOUS
  <2>2. PICK i \in S : TRUE
    OBVIOUS
  <2>3. n - i \in T
    OBVIOUS
  <2> QED
    BY <2>1, <2>3
<1>2. PICK x \in T : \A y \in T : <<y, x>> \notin R
  BY <1>1, WFMin, NatLessThanWellFounded
<1>3. PICK i \in S : x = n - i
  OBVIOUS
<1>4. \A j \in S : <<n - j, x>> \notin R
  BY <1>2
<1>5. \A j \in S : ~(n - j < x)
  BY <1>1, <1>4 DEF OpToRel
<1>6. \A j \in S : j <= i
  BY <1>3, <1>5
<1> QED
  BY <1>6

-----------------------------------------------------------------------------
(* The outbox and the copies of its rows.                                  *)

Outbox ==
  /\ tasks \in Seq(Task)
  /\ attempts \in Seq(0 .. MaxRetry)
  /\ Len(attempts) = Len(tasks)
  /\ jobs \in [Scanners -> SUBSET Job]
  /\ OneRowEach
  /\ \A i \in TaskIds : RowCounted(i)
  /\ \A s \in Scanners : \A j \in jobs[s] : JobCounted(j)

LEMMA RowType ==
  ASSUME Outbox, NEW i \in TaskIds
  PROVE  /\ Len(tasks) \in Nat
         /\ tasks[i] \in Task
         /\ attempts[i] \in 0 .. MaxRetry /\ attempts[i] \in Nat
<1>1. Len(tasks) \in Nat /\ tasks[i] \in Task
  BY LenProperties, ElementOfSeq DEF Outbox, TaskIds
<1>2. attempts[i] \in 0 .. MaxRetry
  BY ElementOfSeq DEF Outbox, TaskIds
<1> QED
  BY <1>1, <1>2, Constants

\* The columns that UpdateTaskStatus writes keep their types.
LEMMA RowUpdate ==
  ASSUME NEW row \in Task, NEW st \in {"Init", "Success", "Retry", "Fail"}, NEW n \in 0 .. MaxRetry
  PROVE  [row EXCEPT !.status = st, !.retry = n] \in Task
<1> DEFINE marked == [row EXCEPT !.status = st]
<1>1. marked \in Task
  BY DEF Task
<1>2. [marked EXCEPT !.retry = n] \in Task
  <2> HIDE DEF marked
  <2> QED
    BY <1>1 DEF Task
<1> QED
  BY <1>2

LEMMA JobType ==
  ASSUME Outbox, NEW s \in Scanners, NEW j \in jobs[s]
  PROVE  /\ j \in Job /\ JobCounted(j)
         /\ j.id \in TaskIds /\ j.retry \in Nat /\ j.sent \in {"no", "ok", "error"}
<1>1. j \in Job /\ JobCounted(j)
  BY DEF Outbox
<1> QED
  BY <1>1, Constants DEF Job

\* A new row was never tried, and the copies are of older rows.
LEMMA OutboxCreate ==
  ASSUME Outbox, call \in [Handlers -> {Idle} \union ({"file"} \X Members \X Categories)],
         NEW h \in Handlers, CreateNotifyTask(h)
  PROVE  Outbox'
<1> DEFINE uuid == <<call[h][2], call[h][3]>>
           row  == [uuid |-> uuid, status |-> "Init", retry |-> 0]
<1>0. jobs' = jobs
  BY DEF CreateNotifyTask
<1>1. CASE Filed(uuid)
  BY <1>0, <1>1 DEF CreateNotifyTask, Outbox, OneRowEach, RowCounted, JobCounted, TaskIds, Job
<1>2. CASE ~Filed(uuid)
  <2>1. tasks' = Append(tasks, row) /\ attempts' = Append(attempts, 0)
    BY <1>2 DEF CreateNotifyTask
  <2>2. row \in Task
    <3>1. call[h] \in {"file"} \X Members \X Categories
      BY DEF CreateNotifyTask
    <3>2. uuid \in Uuids
      BY <3>1 DEF Uuids
    <3> QED
      BY <3>2, Constants DEF Task
  <2> DEFINE n == Len(tasks)
  <2>3. n \in Nat /\ Len(attempts) = n
    BY LenProperties DEF Outbox
  <2>4. /\ tasks' \in Seq(Task) /\ Len(tasks') = n + 1
        /\ \A i \in 1 .. n : tasks'[i] = tasks[i]
        /\ tasks'[n + 1] = row
    BY <2>1, <2>2, AppendProperties DEF Outbox
  <2>5. /\ attempts' \in Seq(0 .. MaxRetry) /\ Len(attempts') = n + 1
        /\ \A i \in 1 .. n : attempts'[i] = attempts[i]
        /\ attempts'[n + 1] = 0
    <3>1. 0 \in 0 .. MaxRetry
      BY Constants
    <3> QED
      BY <2>1, <2>3, <3>1, AppendProperties DEF Outbox
  <2>6. TaskIds = 1 .. n /\ TaskIds' = 1 .. n + 1
    BY <2>4 DEF TaskIds
  <2> HIDE DEF n, row
  <2>7. \A i \in TaskIds' : i \in TaskIds \/ i = n + 1
    BY <2>3, <2>6
  <2>8. jobs' \in [Scanners -> SUBSET (Job')]
    <3>1. TaskIds \subseteq TaskIds'
      BY <2>3, <2>6
    <3>2. Job \subseteq Job'
      BY <3>1 DEF Job
    <3> QED
      BY <1>0, <3>2 DEF Outbox
  <2>9. OneRowEach'
    <3> SUFFICES ASSUME NEW i \in TaskIds', NEW k \in TaskIds', tasks'[i].uuid = tasks'[k].uuid
                 PROVE  i = k
      BY DEF OneRowEach
    <3>1. \A l \in TaskIds : tasks'[l] = tasks[l] /\ tasks[l].uuid # uuid
      BY <1>2, <2>4, <2>6 DEF Filed
    <3>2. row.uuid = uuid
      BY DEF row
    <3> HIDE DEF uuid
    <3> QED
      BY <2>4, <2>7, <3>1, <3>2 DEF Outbox, OneRowEach
  <2>10. ASSUME NEW i \in TaskIds' PROVE RowCounted(i)'
    <3>1. CASE i \in TaskIds
      BY <2>4, <2>5, <2>6, <3>1 DEF Outbox, RowCounted
    <3>2. CASE i = n + 1
      BY <2>4, <2>5, <3>2, Constants DEF RowCounted, row
    <3> QED
      BY <2>7, <3>1, <3>2
  <2>11. ASSUME NEW s \in Scanners, NEW j \in jobs'[s] PROVE JobCounted(j)'
    <3>1. j.id \in TaskIds /\ JobCounted(j)
      BY <1>0, <2>11, JobType
    <3> QED
      BY <2>5, <2>6, <3>1 DEF JobCounted
  <2> QED
    BY <2>4, <2>5, <2>8, <2>9, <2>10, <2>11 DEF Outbox
<1> QED
  BY <1>1, <1>2

\* A copy claims what its row claims.
LEMMA OutboxFind ==
  ASSUME Outbox, NEW s \in Scanners, FindPendingTasks(s)
  PROVE  Outbox'
<1>0. tasks' = tasks /\ attempts' = attempts
  BY DEF FindPendingTasks
<1> DEFINE copies == jobs'[s]
<1>1. ASSUME NEW j \in copies
      PROVE  \E i \in TaskIds : Unfinished(i) /\ j = [id |-> i, retry |-> tasks[i].retry, sent |-> "no"]
  BY <1>1 DEF FindPendingTasks, Outbox
<1>2. \A r \in Scanners \ {s} : jobs'[r] = jobs[r]
  BY DEF FindPendingTasks, Outbox
<1>3. ASSUME NEW j \in copies PROVE j \in Job /\ JobCounted(j)
  <2>1. PICK i \in TaskIds : Unfinished(i) /\ j = [id |-> i, retry |-> tasks[i].retry, sent |-> "no"]
    BY <1>1
  <2>2. RowCounted(i) /\ tasks[i] \in Task
    BY RowType DEF Outbox
  <2>3. tasks[i].retry \in 0 .. MaxRetry /\ tasks[i].retry \in Nat
    BY <2>2, Constants DEF Task
  <2>4. tasks[i].retry < MaxRetry /\ tasks[i].retry <= attempts[i]
    BY <2>1, <2>2 DEF Unfinished, RowCounted
  <2> QED
    BY <2>1, <2>3, <2>4 DEF Job, JobCounted
<1>4. jobs' \in [Scanners -> SUBSET Job]
  <2>1. jobs' = [jobs EXCEPT ![s] = copies]
    BY DEF FindPendingTasks, Outbox
  <2>2. copies \in SUBSET Job
    BY <1>3
  <2> HIDE DEF copies
  <2> QED
    BY <2>1, <2>2 DEF Outbox
<1>5. \A r \in Scanners : \A j \in jobs'[r] : JobCounted(j)
  BY <1>2, <1>3 DEF Outbox
<1> QED
  BY <1>0, <1>4, <1>5 DEF Outbox, OneRowEach, RowCounted, JobCounted, TaskIds, Job

\* An attempt is counted in the history before its outcome is written.
LEMMA OutboxDispatch ==
  ASSUME Outbox, NEW s \in Scanners, NEW j \in jobs[s], NEW answer \in {"ok", "error"},
         Dispatch(s, j, answer)
  PROVE  Outbox'
<1> DEFINE k == [j EXCEPT !.sent = answer]
           a == attempts[j.id]
           b == IF a < MaxRetry THEN a + 1 ELSE a
<1>0. tasks' = tasks /\ TaskIds' = TaskIds /\ Len(tasks) \in Nat
  BY RowType, JobType DEF Dispatch, TaskIds
<1>1. /\ j \in Job /\ JobCounted(j) /\ j.id \in TaskIds /\ j.retry \in Nat /\ j.sent = "no"
      /\ a \in 0 .. MaxRetry /\ a \in Nat
  BY JobType, RowType DEF Dispatch
<1>2. b \in 0 .. MaxRetry /\ b \in Nat /\ a <= b
  BY <1>1, Constants
<1>3. attempts' = [attempts EXCEPT ![j.id] = b]
  BY DEF Dispatch
<1>4. /\ attempts' \in Seq(0 .. MaxRetry) /\ Len(attempts') = Len(attempts)
      /\ \A i \in TaskIds : attempts'[i] = IF i = j.id THEN b ELSE attempts[i]
  <2> HIDE DEF b
  <2>1. j.id \in 1 .. Len(attempts)
    BY <1>1 DEF TaskIds, Outbox
  <2> QED
    BY <1>2, <1>3, <2>1, ExceptSeq DEF Outbox, TaskIds
<1>5. \A i \in TaskIds : attempts[i] <= attempts'[i] /\ attempts[i] \in Nat /\ attempts'[i] \in Nat
  BY <1>1, <1>2, <1>4, RowType
<1>6. k \in Job /\ k.retry = j.retry /\ k.id = j.id /\ k.sent # "no"
  BY <1>1 DEF Job
<1>7. j.retry < MaxRetry /\ j.retry + 1 <= b
  BY <1>1, Constants DEF JobCounted
<1>8. JobCounted(k)'
  BY <1>1, <1>4, <1>6, <1>7 DEF JobCounted
<1>9. ASSUME NEW l \in Job, l.id \in TaskIds, JobCounted(l) PROVE JobCounted(l)'
  <2>1. l.retry \in Nat
    BY <1>9, Constants DEF Job
  <2> QED
    BY <1>5, <1>9, <2>1, Constants DEF JobCounted
<1>10. /\ jobs' \in [Scanners -> SUBSET Job]
       /\ \A r \in Scanners : \A l \in jobs'[r] : l = k \/ l \in jobs[r]
  BY <1>6 DEF Dispatch, Outbox
<1>11. \A r \in Scanners : \A l \in jobs'[r] : JobCounted(l)'
  BY <1>8, <1>9, <1>10, JobType
<1>12. ASSUME NEW i \in TaskIds PROVE RowCounted(i)'
  <2>1. RowCounted(i) /\ tasks[i] \in Task /\ attempts'[i] \in 0 .. MaxRetry
    BY <1>0, <1>2, <1>4, RowType DEF Outbox
  <2>2. tasks[i].retry \in Nat
    BY <2>1, Constants DEF Task
  <2> QED
    BY <1>0, <1>5, <2>1, <2>2, Constants DEF RowCounted
<1> QED
  BY <1>0, <1>4, <1>10, <1>11, <1>12 DEF Outbox, OneRowEach, Job

\* Whatever copy is written, its count is backed by attempts; the row is given
\* up only with MaxRetry of them.
LEMMA OutboxUpdate ==
  ASSUME Outbox, NEW s \in Scanners, NEW j \in jobs[s], UpdateTaskStatus(s, j)
  PROVE  Outbox'
<1> DEFINE new == [tasks[j.id] EXCEPT !.status = Outcome(j).status, !.retry = Outcome(j).retry]
<1>0. attempts' = attempts
  BY DEF UpdateTaskStatus
<1>1. /\ j \in Job /\ JobCounted(j) /\ j.id \in TaskIds /\ j.retry \in Nat
      /\ j.sent \in {"ok", "error"}
      /\ tasks[j.id] \in Task /\ attempts[j.id] \in 0 .. MaxRetry /\ attempts[j.id] \in Nat
  BY JobType, RowType DEF UpdateTaskStatus
<1>2. j.retry < MaxRetry /\ j.retry + 1 <= attempts[j.id]
  BY <1>1 DEF JobCounted
<1>3. /\ jobs' \in [Scanners -> SUBSET Job]
      /\ \A r \in Scanners : jobs'[r] \subseteq jobs[r]
  BY DEF UpdateTaskStatus, Outbox
<1>4. CASE tasks' = tasks
  BY <1>0, <1>3, <1>4 DEF Outbox, OneRowEach, RowCounted, JobCounted, TaskIds, Job
<1>5. CASE StillOpen(j.id)
  <2>1. tasks' = [tasks EXCEPT ![j.id] = new]
    <3>1. tasks' = [tasks EXCEPT ![j.id].status = Outcome(j).status,
                                 ![j.id].retry = Outcome(j).retry]
      BY <1>5 DEF UpdateTaskStatus
    <3>2. j.id \in DOMAIN tasks
      BY <1>1, LenProperties DEF Outbox, TaskIds
    <3> QED
      BY <3>1, <3>2
  <2>2. /\ new.uuid = tasks[j.id].uuid
        /\ new.status = Outcome(j).status /\ new.retry = Outcome(j).retry
        /\ Outcome(j).status \in {"Success", "Fail", "Retry"}
        /\ Outcome(j).retry \in 0 .. MaxRetry
        /\ Outcome(j).retry <= attempts[j.id]
        /\ Outcome(j).status = "Fail" => attempts[j.id] = MaxRetry
        /\ Outcome(j).status = "Retry" => Outcome(j).retry < MaxRetry
    BY <1>1, <1>2, Constants DEF Outcome, GivesUp, Task
  <2>3. new \in Task
    <3>1. Outcome(j).status \in {"Init", "Success", "Retry", "Fail"} /\ Outcome(j).retry \in 0 .. MaxRetry
      BY <2>2
    <3> QED
      BY <1>1, <3>1, RowUpdate
  <2> HIDE DEF new
  <2>4. /\ tasks' \in Seq(Task) /\ Len(tasks') = Len(tasks)
        /\ \A i \in TaskIds : tasks'[i] = IF i = j.id THEN new ELSE tasks[i]
    BY <1>1, <2>1, <2>3, ExceptSeq DEF Outbox, TaskIds
  <2>5. TaskIds' = TaskIds
    BY <2>4 DEF TaskIds
  <2>6. OneRowEach'
    <3>1. \A i \in TaskIds : tasks'[i].uuid = tasks[i].uuid
      BY <2>2, <2>4
    <3> QED
      BY <2>5, <3>1 DEF Outbox, OneRowEach
  <2>7. ASSUME NEW i \in TaskIds PROVE RowCounted(i)'
    <3>1. CASE i = j.id
      BY <1>0, <2>2, <2>4, <3>1 DEF RowCounted
    <3>2. CASE i # j.id
      BY <1>0, <2>4, <3>2 DEF Outbox, RowCounted
    <3> QED
      BY <3>1, <3>2
  <2>8. \A r \in Scanners : \A l \in jobs'[r] : JobCounted(l)'
    BY <1>0, <1>3 DEF Outbox, JobCounted
  <2> QED
    BY <1>0, <1>3, <2>4, <2>5, <2>6, <2>7, <2>8 DEF Outbox, Job
<1> QED
  BY <1>4, <1>5 DEF UpdateTaskStatus

\* Rows are otherwise left alone, and copies are only thrown away.
LEMMA OutboxKept ==
  ASSUME Outbox, UNCHANGED <<tasks, attempts>>, jobs' \in [Scanners -> SUBSET Job],
         \A s \in Scanners : jobs'[s] \subseteq jobs[s]
  PROVE  Outbox'
  BY DEF Outbox, OneRowEach, RowCounted, JobCounted, TaskIds, Job

LEMMA OutboxStep == IInv /\ [Next]_vars => Outbox'
<1> SUFFICES ASSUME IInv, [Next]_vars PROVE Outbox'
  OBVIOUS
<1>0. /\ Outbox /\ jobs \in [Scanners -> SUBSET Job]
      /\ call \in [Handlers -> {Idle} \union ({"file"} \X Members \X Categories)]
  BY DEF IInv, TypeOK, Outbox
<1>1. ASSUME NEW h \in Handlers, NEW m \in Members,
             SettleOrder(h, m) \/ SettleAgain(h, m) \/ RefundOrder(h, m) \/ CreateFails(h)
      PROVE  Outbox'
  BY <1>0, <1>1, OutboxKept DEF SettleOrder, SettleAgain, RefundOrder, CreateFails
<1>2. ASSUME NEW h \in Handlers, CreateFails(h) PROVE Outbox'
  BY <1>0, <1>2, OutboxKept DEF CreateFails
<1>3. ASSUME NEW h \in Handlers, CreateNotifyTask(h) PROVE Outbox'
  BY <1>0, <1>3, OutboxCreate
<1>4. ASSUME NEW s \in Scanners, AcquireScanLock(s) \/ ScanStops(s) PROVE Outbox'
  BY <1>0, <1>4, OutboxKept DEF AcquireScanLock, ScanStops
<1>5. ASSUME NEW s \in Scanners, FindPendingTasks(s) PROVE Outbox'
  BY <1>0, <1>5, OutboxFind
<1>6. ASSUME NEW s \in Scanners, NEW j \in jobs[s], NEW answer \in {"ok", "error"},
             Dispatch(s, j, answer)
      PROVE  Outbox'
  BY <1>0, <1>6, OutboxDispatch
<1>7. ASSUME NEW s \in Scanners, NEW j \in jobs[s], UpdateTaskStatus(s, j) PROVE Outbox'
  BY <1>0, <1>7, OutboxUpdate
<1>8. ASSUME NEW s \in Scanners, NEW j \in jobs[s], UpdateFails(s, j) PROVE Outbox'
  BY <1>0, <1>8, OutboxKept DEF UpdateFails
<1>9. ASSUME LockExpires \/ UNCHANGED vars PROVE Outbox'
  BY <1>0, <1>9, OutboxKept DEF LockExpires, vars
<1> QED
  BY <1>1, <1>2, <1>3, <1>4, <1>5, <1>6, <1>7, <1>8, <1>9 DEF Next, Serve, Scan

-----------------------------------------------------------------------------
(* Orders, calls, the scan lock and the cursors.                           *)

LEMMA HandlerTypes ==
  ASSUME IInv, [Next]_vars
  PROVE  /\ order' \in [Members -> {"Locked", "Paid", "Refunded"}]
         /\ team' \in {"Forming", "Complete", "CompleteRefunded", "Failed"}
         /\ call' \in [Handlers -> {Idle} \union ({"file"} \X Members \X Categories)]
<1> DEFINE Goal == /\ order' \in [Members -> {"Locked", "Paid", "Refunded"}]
                   /\ team' \in {"Forming", "Complete", "CompleteRefunded", "Failed"}
                   /\ call' \in [Handlers -> {Idle} \union ({"file"} \X Members \X Categories)]
<1> TypeOK
  BY DEF IInv
<1>1. ASSUME NEW h \in Handlers, NEW m \in Members,
             SettleOrder(h, m) \/ SettleAgain(h, m) \/ RefundOrder(h, m)
      PROVE  Goal
  <2>1. order' \in [Members -> {"Locked", "Paid", "Refunded"}]
    BY <1>1 DEF SettleOrder, SettleAgain, RefundOrder, TypeOK
  <2>2. team' \in {"Forming", "Complete", "CompleteRefunded", "Failed"}
    BY <1>1 DEF SettleOrder, SettleAgain, RefundOrder, TypeOK
  <2>3. ASSUME NEW c \in Categories
        PROVE  <<"file", m, c>> \in {"file"} \X Members \X Categories
    OBVIOUS
  <2>4. call' = call \/ \E x \in {Idle} \union ({"file"} \X Members \X Categories) :
                          call' = [call EXCEPT ![h] = x]
    BY <1>1, <2>3 DEF SettleOrder, SettleAgain, RefundOrder, Categories
  <2> QED
    BY <2>1, <2>2, <2>4 DEF TypeOK
<1>2. ASSUME NEW h \in Handlers, CreateNotifyTask(h) \/ CreateFails(h) PROVE Goal
  BY <1>2 DEF CreateNotifyTask, CreateFails, TypeOK
<1>3. ASSUME NEW s \in Scanners, Scan(s) PROVE Goal
  BY <1>3 DEF Scan, AcquireScanLock, FindPendingTasks, Dispatch, UpdateTaskStatus, UpdateFails,
              ScanStops, TypeOK
<1>4. ASSUME LockExpires \/ UNCHANGED vars PROVE Goal
  BY <1>4 DEF LockExpires, vars, TypeOK
<1> QED
  BY <1>1, <1>2, <1>3, <1>4 DEF Next, Serve

\* A cursor that moves is the id of a row, which is less than Asleep.
LEMMA ScannerTypes ==
  ASSUME IInv, [Next]_vars
  PROVE  /\ lock' \in Scanners \union {NoOne}
         /\ cursor' \in [Scanners -> 0 .. Asleep]
<1> DEFINE Goal == /\ lock' \in Scanners \union {NoOne}
                   /\ cursor' \in [Scanners -> 0 .. Asleep]
<1> TypeOK
  BY DEF IInv
<1>0. 0 \in 0 .. Asleep /\ Asleep \in 0 .. Asleep /\ Len(tasks) \in Nat /\ Len(tasks) < Asleep
  BY AsleepIsNat, RowsFit, LenProperties DEF IInv, TypeOK
<1>1. ASSUME NEW h \in Handlers, Serve(h) PROVE Goal
  BY <1>1 DEF Serve, SettleOrder, SettleAgain, RefundOrder, CreateNotifyTask, CreateFails, TypeOK
<1>2. ASSUME NEW s \in Scanners, AcquireScanLock(s) \/ ScanStops(s) PROVE Goal
  BY <1>0, <1>2 DEF AcquireScanLock, ScanStops, Released, TypeOK
<1>3. ASSUME NEW s \in Scanners, FindPendingTasks(s) PROVE Goal
  <2> DEFINE rest == {i \in TaskIds : Unfinished(i) /\ i > cursor[s]}
             page == {i \in rest : Cardinality({j \in rest : j < i}) < BatchSize}
             last == CHOOSE i \in page : \A j \in page : j <= i
  <2>1. CASE page = {}
    BY <1>0, <1>3, <2>1 DEF FindPendingTasks, Released, TypeOK
  <2>2. CASE page # {}
    <3>1. page \in SUBSET (1 .. Len(tasks))
      BY DEF TaskIds
    <3>2. last \in 0 .. Asleep
      <4> HIDE DEF page
      <4>1. last \in 1 .. Len(tasks)
        BY <1>0, <2>2, <3>1, LastOfPage
      <4> QED
        BY <1>0, <4>1, AsleepIsNat
    <3>3. cursor' = [cursor EXCEPT ![s] = last] /\ lock' = lock
      BY <1>3, <2>2 DEF FindPendingTasks
    <3> HIDE DEF last
    <3> QED
      BY <3>2, <3>3 DEF TypeOK
  <2> QED
    BY <2>1, <2>2
<1>4. ASSUME NEW s \in Scanners, NEW j \in jobs[s],
             (\E answer \in {"ok", "error"} : Dispatch(s, j, answer))
               \/ UpdateTaskStatus(s, j) \/ UpdateFails(s, j)
      PROVE  Goal
  BY <1>4 DEF Dispatch, UpdateTaskStatus, UpdateFails, TypeOK
<1>5. ASSUME LockExpires \/ UNCHANGED vars PROVE Goal
  BY <1>5 DEF LockExpires, vars, TypeOK
<1> QED
  BY <1>1, <1>2, <1>3, <1>4, <1>5 DEF Next, Scan

-----------------------------------------------------------------------------
LEMMA InitInv == Init => IInv
<1> SUFFICES ASSUME Init PROVE IInv
  OBVIOUS
<1>1. /\ tasks \in Seq(Task) /\ attempts \in Seq(0 .. MaxRetry)
      /\ Len(tasks) = 0 /\ Len(attempts) = 0 /\ TaskIds = {}
  BY EmptySeq DEF Init, TaskIds
<1>2. TypeOK
  BY <1>1, AsleepIsNat DEF Init, TypeOK
<1> QED
  BY <1>1, <1>2 DEF Init, IInv, OneRowEach

LEMMA InvStep == IInv /\ [Next]_vars => IInv'
  BY OutboxStep, HandlerTypes, ScannerTypes DEF IInv, TypeOK, Outbox

\* The inductive invariant of the outbox (notify.go, notify_task.go): no count
\* of failures, in a row or in a copy that any scan still holds, exceeds the
\* attempts that were made.
THEOREM OutboxInvariance == Spec => []IInv
<1>1. Init => IInv
  BY InitInv
<1>2. IInv /\ [Next]_vars => IInv'
  BY InvStep
<1> QED
  BY <1>1, <1>2, PTL DEF Spec

\* A callback that is given up was tried MaxRetry times, also when scans that
\* overlap write the counts they read.
THEOREM NoEarlyGiveUp == Spec => []NotGivenUpEarly
<1>1. IInv => NotGivenUpEarly
  BY DEF IInv, RowCounted, NotGivenUpEarly
<1> QED
  BY <1>1, OutboxInvariance, PTL

\* A row that is recorded as delivered, or given up, is never written again: the
\* WHERE of UpdateTaskStatus stops every scan that holds an old copy.
THEOREM FinalForEver == Spec => FinalStays
<1> DEFINE Kept == \A i \in TaskIds : tasks[i].status \in {"Success", "Fail"} => tasks'[i] = tasks[i]
<1>1. IInv /\ [Next]_vars => [Kept]_vars
  <2> SUFFICES ASSUME IInv, Next PROVE Kept
    BY DEF vars
  <2>0. Outbox
    BY DEF IInv, TypeOK, Outbox
  <2>1. CASE tasks' = tasks
    BY <2>1
  <2>2. ASSUME NEW h \in Handlers, CreateNotifyTask(h) PROVE Kept
    <3>1. \A row : tasks' = Append(tasks, row) => \A i \in TaskIds : tasks'[i] = tasks[i]
      BY <2>0 DEF Outbox, TaskIds
    <3> QED
      BY <2>1, <2>2, <3>1 DEF CreateNotifyTask
  <2>3. ASSUME NEW s \in Scanners, NEW j \in jobs[s], UpdateTaskStatus(s, j) PROVE Kept
    <3>1. ASSUME StillOpen(j.id), NEW i \in TaskIds, tasks[i].status \in {"Success", "Fail"}
          PROVE  tasks'[i] = tasks[i]
      <4>1. i # j.id
        BY <3>1 DEF StillOpen
      <4> QED
        BY <2>0, <2>3, <3>1, <4>1 DEF UpdateTaskStatus, Outbox, TaskIds
    <3> QED
      BY <2>1, <2>3, <3>1 DEF UpdateTaskStatus
  <2> QED
    BY <2>1, <2>2, <2>3
       DEF Next, Serve, Scan, SettleOrder, SettleAgain, RefundOrder, CreateFails, AcquireScanLock,
           FindPendingTasks, Dispatch, UpdateFails, ScanStops, LockExpires
<1> QED
  BY <1>1, OutboxInvariance, PTL DEF Spec, FinalStays
=============================================================================
