---------------------------- MODULE NotifyTasks ----------------------------
(***************************************************************************)
(* The outbox notify_tasks of one team: settlement and refund write a row  *)
(* after their own transaction has committed                               *)
(* (internal/service/settlement.go, refund.go), and a scanner that every   *)
(* instance of the application runs sends the rows, guarded by a           *)
(* distributed lock (internal/service/notify.go, internal/redisx/lock.go,  *)
(* internal/repository/notify_task.go).                                    *)
(*                                                                         *)
(* Settlement and refund are one step each here: what they do to the       *)
(* tables is TeamLedger's subject. Their call goes on to the outbox.       *)
(***************************************************************************)
EXTENDS Naturals, FiniteSets, Sequences

CONSTANTS
  Members,     \* orders of the team
  Target,      \* teams.target_count
  Handlers,    \* goroutines settling or refunding
  Scanners,    \* application instances
  MaxRetry,    \* NotifyConfig.MaxRetry
  BatchSize,   \* NotifyConfig.BatchSize
  NoOne        \* nobody holds the scan lock

ASSUME NotifyAssumption ==
  /\ IsFiniteSet(Members)
  /\ {Target, MaxRetry, BatchSize} \subseteq Nat \ {0}
  /\ NoOne \notin Scanners

VARIABLES
  order,       \* orders.status
  team,        \* teams.status
  call,        \* what each handler still has to do
  tasks,       \* notify_tasks, in the order of their ids
  lock,        \* bgm:lock:notify:scanner
  cursor,      \* lastID of each scanner, or Asleep
  jobs,        \* the batch of each scanner: copies of rows, as read
  attempts     \* history: how often each row was sent, counted up to MaxRetry

vars == <<order, team, call, tasks, lock, cursor, jobs, attempts>>

-----------------------------------------------------------------------------
Categories == {"settlement", "refund"}
Uuids      == Members \X Categories
Idle       == <<"idle">>
Asleep     == Cardinality(Uuids) + 1
TaskIds    == 1 .. Len(tasks)

Filed(uuid) == \E i \in TaskIds : tasks[i].uuid = uuid

Init ==
  /\ order    = [m \in Members |-> "Locked"]
  /\ team     = "Forming"
  /\ call     = [h \in Handlers |-> Idle]
  /\ tasks    = <<>>
  /\ lock     = NoOne
  /\ cursor   = [s \in Scanners |-> Asleep]
  /\ jobs     = [s \in Scanners |-> {}]
  /\ attempts = <<>>

-----------------------------------------------------------------------------
(* Writing the outbox.                                                     *)

Paid == {m \in Members : order[m] = "Paid"}

\* The payment that completes the team goes on to file the task.
SettleOrder(h, m) ==
  LET completes == Cardinality(Paid) + 1 >= Target IN
  /\ call[h] = Idle
  /\ order[m] = "Locked" /\ team = "Forming"
  /\ order' = [order EXCEPT ![m] = "Paid"]
  /\ team' = IF completes THEN "Complete" ELSE team
  /\ call' = IF completes THEN [call EXCEPT ![h] = <<"file", m, "settlement">>] ELSE call
  /\ UNCHANGED <<tasks, lock, cursor, jobs, attempts>>

\* Settle() of an order that is already paid looks whether the task is missing.
SettleAgain(h, m) ==
  /\ call[h] = Idle
  /\ order[m] = "Paid"
  /\ call' = [call EXCEPT ![h] =
       IF team = "Complete" /\ ~Filed(<<m, "settlement">>)
       THEN <<"file", m, "settlement">> ELSE Idle]
  /\ UNCHANGED <<order, team, tasks, lock, cursor, jobs, attempts>>

RefundOrder(h, m) ==
  /\ call[h] = Idle
  /\ \/ order[m] = "Locked" /\ team \in {"Forming", "Failed"}
     \/ order[m] = "Paid"
  /\ order' = [order EXCEPT ![m] = "Refunded"]
  /\ team' = IF order[m] = "Paid" /\ team # "Forming"
             THEN IF Paid = {m} THEN "Failed" ELSE "CompleteRefunded"
             ELSE team
  /\ call' = [call EXCEPT ![h] = <<"file", m, "refund">>]
  /\ UNCHANGED <<tasks, lock, cursor, jobs, attempts>>

\* The unique key on uuid refuses a second row.
CreateNotifyTask(h) ==
  /\ call[h] # Idle
  /\ LET uuid == <<call[h][2], call[h][3]>> IN
     IF Filed(uuid)
     THEN UNCHANGED <<tasks, attempts>>
     ELSE /\ tasks' = Append(tasks, [uuid |-> uuid, status |-> "Init", retry |-> 0])
          /\ attempts' = Append(attempts, 0)
  /\ call' = [call EXCEPT ![h] = Idle]
  /\ UNCHANGED <<order, team, lock, cursor, jobs>>

\* The INSERT fails, which is only logged, or the process dies before it.
CreateFails(h) ==
  /\ call[h] # Idle
  /\ call' = [call EXCEPT ![h] = Idle]
  /\ UNCHANGED <<order, team, tasks, lock, cursor, jobs, attempts>>

-----------------------------------------------------------------------------
(* ExecPendingTasks().                                                     *)

\* SET NX of the scan lock.
Free == lock = NoOne

AcquireScanLock(s) ==
  /\ cursor[s] = Asleep
  /\ Free
  /\ lock' = s
  /\ cursor' = [cursor EXCEPT ![s] = 0]
  /\ UNCHANGED <<order, team, call, tasks, jobs, attempts>>

NeverTried(i) == tasks[i].status = "Init"

\* The WHERE of FindPendingTasks.
Unfinished(i) == tasks[i].status \in {"Init", "Retry"}

Released(s) == IF lock = s THEN NoOne ELSE lock

\* The next page beyond the cursor, once the last one is worked off. The rows
\* are copied: retry is as read here. An empty page ends the scan.
FindPendingTasks(s) ==
  LET rest == {i \in TaskIds : Unfinished(i) /\ i > cursor[s]}
      page == {i \in rest : Cardinality({j \in rest : j < i}) < BatchSize}
  IN
  /\ cursor[s] # Asleep
  /\ jobs[s] = {}
  /\ jobs' = [jobs EXCEPT ![s] = {[id |-> i, retry |-> tasks[i].retry, sent |-> "no"] : i \in page}]
  /\ IF page = {}
     THEN /\ cursor' = [cursor EXCEPT ![s] = Asleep]
          /\ lock' = Released(s)
     ELSE /\ cursor' = [cursor EXCEPT ![s] = CHOOSE i \in page : \A j \in page : j <= i]
          /\ UNCHANGED lock
  /\ UNCHANGED <<order, team, call, tasks, attempts>>

\* The POST to the merchant, or the message to its topic. What comes back is
\* the merchant's choice; five seconds without an answer is a failure.
Dispatch(s, j, answer) ==
  /\ j \in jobs[s]
  /\ j.sent = "no"
  /\ jobs' = [jobs EXCEPT ![s] = (@ \ {j}) \union {[j EXCEPT !.sent = answer]}]
  /\ attempts' = [attempts EXCEPT ![j.id] = IF @ < MaxRetry THEN @ + 1 ELSE @]
  /\ UNCHANGED <<order, team, call, tasks, lock, cursor>>

GivesUpLate(n) == n > MaxRetry

GivesUpEarly(n) == n + 1 >= MaxRetry

GivesUp(n) == n >= MaxRetry

Outcome(j) ==
  IF j.sent = "ok"           THEN [status |-> "Success", retry |-> j.retry]
  ELSE IF GivesUp(j.retry + 1) THEN [status |-> "Fail", retry |-> j.retry + 1]
  ELSE [status |-> "Retry", retry |-> j.retry + 1]

AnyStatus(i) == i \in TaskIds

\* The WHERE of UpdateTaskStatus.
StillOpen(i) == tasks[i].status \in {"Init", "Retry"}

\* No row matched: another scanner finished it, which is only logged.
UpdateTaskStatus(s, j) ==
  /\ j \in jobs[s]
  /\ j.sent # "no"
  /\ tasks' = IF StillOpen(j.id)
              THEN [tasks EXCEPT ![j.id].status = Outcome(j).status,
                                   ![j.id].retry = Outcome(j).retry]
              ELSE tasks
  /\ jobs' = [jobs EXCEPT ![s] = @ \ {j}]
  /\ UNCHANGED <<order, team, call, lock, cursor, attempts>>

\* The UPDATE fails, which is only logged: the row stays as it was.
UpdateFails(s, j) ==
  /\ j \in jobs[s]
  /\ j.sent # "no"
  /\ jobs' = [jobs EXCEPT ![s] = @ \ {j}]
  /\ UNCHANGED <<order, team, call, tasks, lock, cursor, attempts>>

\* The query for the next page fails, or the process dies with its batch.
\* In the second case the lock stays behind until it expires.
ScanStops(s) ==
  /\ cursor[s] # Asleep
  /\ cursor' = [cursor EXCEPT ![s] = Asleep]
  /\ jobs' = [jobs EXCEPT ![s] = {}]
  /\ lock' \in {lock, Released(s)}
  /\ jobs[s] # {} => lock' = lock
  /\ UNCHANGED <<order, team, call, tasks, attempts>>

\* Thirty seconds without a refresh: the holder died, or its watch-dog could
\* not reach Redis and gave up, which the scan does not notice.
LockExpires ==
  /\ lock # NoOne
  /\ lock' = NoOne
  /\ UNCHANGED <<order, team, call, tasks, cursor, jobs, attempts>>

-----------------------------------------------------------------------------
Serve(h) ==
  \/ \E m \in Members : SettleOrder(h, m) \/ SettleAgain(h, m) \/ RefundOrder(h, m)
  \/ CreateNotifyTask(h)
  \/ CreateFails(h)

Scan(s) ==
  \/ AcquireScanLock(s)
  \/ FindPendingTasks(s)
  \/ \E j \in jobs[s] : \/ \E answer \in {"ok", "error"} : Dispatch(s, j, answer)
                        \/ UpdateTaskStatus(s, j)
                        \/ UpdateFails(s, j)
  \/ ScanStops(s)

Next ==
  \/ \E h \in Handlers : Serve(h)
  \/ \E s \in Scanners : Scan(s)
  \/ LockExpires

SendTask(i) ==
  \E s \in Scanners : \E j \in jobs[s] :
    j.id = i /\ \E answer \in {"ok", "error"} : Dispatch(s, j, answer)

RecordTask(i) ==
  \E s \in Scanners : \E j \in jobs[s] : j.id = i /\ UpdateTaskStatus(s, j)

\* Cron starts a scan again and again. Not all of them stop before the same
\* row: of the scans that come that far, some send it and record the outcome.
Fairness ==
  /\ WF_vars(LockExpires)
  /\ \A h \in Handlers : WF_vars(CreateNotifyTask(h))
  /\ SF_vars(\E s \in Scanners : AcquireScanLock(s))
  /\ SF_vars(\E s \in Scanners : FindPendingTasks(s))
  /\ \A i \in 1 .. Cardinality(Uuids) : SF_vars(SendTask(i)) /\ SF_vars(RecordTask(i))

Spec == Init /\ [][Next]_vars /\ Fairness

-----------------------------------------------------------------------------
Task == [uuid : Uuids, status : {"Init", "Success", "Retry", "Fail"}, retry : 0 .. MaxRetry]

Job == [id : TaskIds, retry : 0 .. MaxRetry, sent : {"no", "ok", "error"}]

\* Type invariant. A retry count never passes MaxRetry, in a row or in a copy,
\* and there are no more rows than names for them, so a cursor is a row's id.
TypeOK ==
  /\ order \in [Members -> {"Locked", "Paid", "Refunded"}]
  /\ team \in {"Forming", "Complete", "CompleteRefunded", "Failed"}
  /\ call \in [Handlers -> {Idle} \union ({"file"} \X Members \X Categories)]
  /\ tasks \in Seq(Task)
  /\ attempts \in Seq(0 .. MaxRetry)
  /\ Len(attempts) = Len(tasks)
  /\ lock \in Scanners \union {NoOne}
  /\ cursor \in [Scanners -> 0 .. Asleep]
  /\ jobs \in [Scanners -> SUBSET Job]

\* A callback is not given up before it was tried MaxRetry times, also when
\* scans overlap and both write the retry count they read.
NotGivenUpEarly ==
  \A i \in TaskIds : tasks[i].status = "Fail" => attempts[i] = MaxRetry

\* The unique key.
OneRowEach == \A i, k \in TaskIds : tasks[i].uuid = tasks[k].uuid => i = k

\* A row counts no failure that did not happen, and is open only while retries
\* are left.
RowCounted(i) ==
  /\ tasks[i].retry <= attempts[i]
  /\ tasks[i].status \in {"Init", "Retry"} => tasks[i].retry < MaxRetry
  /\ tasks[i].status = "Fail" => attempts[i] = MaxRetry

\* Nor does a copy, however stale: what it will write, if its attempt has
\* failed, counts that attempt and those before it was read.
JobCounted(j) ==
  /\ j.retry < MaxRetry
  /\ j.retry + (IF j.sent = "no" THEN 0 ELSE 1) <= attempts[j.id]

\* The inductive invariant: why overlapping scans, which overwrite each other's
\* retry count, give up late rather than early.
IInv ==
  /\ TypeOK
  /\ OneRowEach
  /\ \A i \in TaskIds : RowCounted(i)
  /\ \A s \in Scanners : \A j \in jobs[s] : JobCounted(j)

\* A callback that is recorded as delivered, or given up, is never opened again,
\* although a scan that lost its lock writes from stale copies (the WHERE of
\* UpdateTaskStatus). One that arrived without being recorded is sent again.
FinalStays ==
  [][\A i \in TaskIds : tasks[i].status \in {"Success", "Fail"} => tasks'[i] = tasks[i]]_vars

\* Every task ends: sooner or later it is delivered or given up.
EveryTaskEnds ==
  \A i \in 1 .. Cardinality(Uuids) :
    (i \in TaskIds) ~> (i \in TaskIds /\ tasks[i].status \in {"Success", "Fail"})
=============================================================================
