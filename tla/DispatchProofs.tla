--------------------------- MODULE DispatchProofs ---------------------------
(***************************************************************************)
(* Proofs about Dispatch for every set of groups, every bound and every    *)
(* choice of faults and stimuli.                                           *)
(***************************************************************************)
EXTENDS Dispatch, TLAPS, FiniteSetTheorems

(***************************************************************************)
(* Identifiers.                                                            *)
(***************************************************************************)

\* A job belongs to a log, a log to a run and a group, and every log has the
\* job named after it.
LEMMA Identifiers ==
    /\ \A j \in JobIds : LogOf(j) \in Logs
    /\ \A l \in Logs : <<l, 0>> \in JobIds /\ l[1] \in Runs /\ l[2] \in Groups
    /\ \A l \in Logs : LogOf(<<l, 0>>) = l
    /\ \A r \in Runs, g \in Groups : <<r, g>> \in Logs
BY BoundsAssumption DEF JobIds, Logs, LogOf

\* Fresh rows and jobs have their types.
LEMMA FreshRecords ==
    /\ NoRow \in RowType /\ NoJob \in JobType
    /\ \A reason \in Reasons : NewRow(reason) \in RowType
    /\ \A text \in Texts : NewJob(text) \in JobType
<1>1. NoRow \in RowType /\ \A reason \in Reasons : NewRow(reason) \in RowType
  BY DEF NoRow, NewRow, RowType, Reasons
<1>2. NoJob \in JobType
  BY BoundsAssumption DEF NoJob, JobType, Texts
<1>3. \A text \in Texts : NewJob(text) \in JobType
  BY <1>2 DEF NewJob, JobType
<1> QED BY <1>1, <1>2, <1>3

\* A moved job keeps its type.
LEMMA MovedJob ==
  ASSUME NEW job \in JobType, NEW pc \in {"free", "queued"} \cup WorkerSteps
  PROVE  [job EXCEPT !.pc = pc] \in JobType
BY DEF JobType

\* BullMQ keeps attemptsMade below attempts when it retries a job.
LEMMA SettledType ==
  ASSUME jobs \in [JobIds -> JobType], NEW j \in JobIds
  PROVE  Settled(j) \in JobType
<1>1. CASE jobs[j].pc = "done" \/ LastAttempt(j)
  BY <1>1, FreshRecords DEF Settled
<1>2. CASE ~(jobs[j].pc = "done" \/ LastAttempt(j))
  <2>1. jobs[j].attempts + 1 \in 0 .. Attempts - 1
    BY <1>2, BoundsAssumption DEF LastAttempt, JobType
  <2>2. [jobs[j] EXCEPT !.pc = "queued", !.attempts = jobs[j].attempts + 1] \in JobType
    BY <2>1 DEF JobType
  <2> QED BY <1>2, <2>2 DEF Settled
<1> QED BY <1>1, <1>2

\* A stalled job is dropped before its stalls exceed the limit.
LEMMA StalledType ==
  ASSUME NEW job \in JobType
  PROVE  AfterStall(job) \in JobType
<1>1. CASE job.stalls < MaxStalled
  <2>1. job.stalls + 1 \in 0 .. MaxStalled
    BY <1>1, BoundsAssumption DEF JobType
  <2>2. [job EXCEPT !.pc = "queued", !.stalls = job.stalls + 1] \in JobType
    BY <2>1 DEF JobType
  <2> QED BY <1>1, <2>2 DEF AfterStall
<1>2. CASE ~(job.stalls < MaxStalled)
  BY <1>2, FreshRecords DEF AfterStall
<1> QED BY <1>1, <1>2

\* Moving a job keeps the queue well typed.
LEMMA GotoType ==
  ASSUME NEW j \in JobIds, NEW pc \in WorkerSteps, jobs \in [JobIds -> JobType], Goto(j, pc)
  PROVE  jobs' \in [JobIds -> JobType]
BY MovedJob DEF Goto

\* So does adding the job named after a log.
LEMMA OriginalType ==
  ASSUME NEW l \in Logs, NEW text \in Texts, jobs \in [JobIds -> JobType]
  PROVE  WithOriginal(jobs, l, text) \in [JobIds -> JobType]
BY FreshRecords, Identifiers DEF WithOriginal

(***************************************************************************)
(* Type correctness.                                                       *)
(***************************************************************************)

\* The producers at rest are well typed.
LEMMA IdleTypes ==
    TrigIdle \in TrigType /\ RecIdle \in RecType /\ RepIdle \in RepType /\ ResIdle \in ResType
<1>1. 1 \in Runs /\ 1 \in Texts
  BY BoundsAssumption DEF Runs, Texts
<1> QED
  BY <1>1 DEF TrigIdle, RecIdle, RepIdle, ResIdle, TrigType, RecType, RepType, ResType

\* The initial state is well typed.
LEMMA TypeInit == Init => TypeOK
<1> SUFFICES ASSUME Init PROVE TypeOK
  OBVIOUS
<1>1. 1 \in Texts
  BY BoundsAssumption DEF Texts
<1>2. /\ schedule \in [status : {"active", "paused", "deleted"}, links : SUBSET Groups,
                       text : Texts]
      /\ runText \in [Runs -> Texts]
  BY <1>1 DEF Init
<1>3. /\ logs \in [Logs -> RowType] /\ jobs \in [JobIds -> JobType]
      /\ copies \in [Logs -> 0 .. 2]
  BY FreshRecords DEF Init
<1>4. runs \in 0 .. MaxRuns
  BY BoundsAssumption DEF Init
<1>5. trig \in TrigType /\ rec \in RecType /\ rep \in RepType /\ res \in ResType
  BY IdleTypes DEF Init
<1> QED BY <1>2, <1>3, <1>4, <1>5 DEF Init, TypeOK

\* A worker's step keeps the types.
LEMMA TypeWorker ==
  ASSUME TypeOK, NEW j \in JobIds, WorkerStep(j)
  PROVE  TypeOK'
<1> USE Identifiers, GotoType DEF tables, session, redisKeys, producers
<1>1. CASE Take(j)
  BY <1>1 DEF TypeOK, Take, WorkerSteps
<1>2. CASE CheckLog(j)
  BY <1>2 DEF TypeOK, CheckLog, AfterCheck, WorkerSteps
<1>3. CASE Gate(j)
  BY <1>3 DEF TypeOK, Gate, WorkerSteps
<1>4. CASE CapCheck(j)
  BY <1>4 DEF TypeOK, CapCheck, WorkerSteps
<1>5. CASE Acquire(j)
  BY <1>5 DEF TypeOK, Acquire, WorkerSteps
<1>6. CASE GiveUp(j) \/ AcquireThrows(j)
  BY <1>6 DEF TypeOK, GiveUp, AcquireThrows, AfterFailure, WorkerSteps
<1>7. ASSUME NEW l \in Logs, CountDelivery(l)
      PROVE  copies' \in [Logs -> 0 .. 2]
  BY <1>7, BoundsAssumption DEF TypeOK, CountDelivery
<1>8. CASE Deliver(j)
  BY <1>7, <1>8 DEF TypeOK, Deliver, WorkerSteps
<1>9. CASE SendFails(j)
  <2>1. jobs' \in [JobIds -> JobType]
    BY <1>9 DEF TypeOK, SendFails, AfterFailure, WorkerSteps
  <2>2. copies' \in [Logs -> 0 .. 2]
    BY <1>7, <1>9 DEF TypeOK, SendFails
  <2> QED BY <1>9, <2>1, <2>2 DEF TypeOK, SendFails
<1>10. CASE MarkSent(j)
  <2>1. logs' \in [Logs -> RowType]
    BY <1>10 DEF TypeOK, MarkSent, RowType
  <2> QED BY <1>10, <2>1 DEF TypeOK, MarkSent, WorkerSteps
<1>11. CASE MarkFails(j)
  BY <1>11 DEF TypeOK, MarkFails, AfterFailure, WorkerSteps
<1>12. CASE Resched(j)
  <2>1. logs' \in [Logs -> RowType]
    BY <1>12 DEF TypeOK, Resched, RowType, Reasons
  <2> QED BY <1>12, <2>1 DEF TypeOK, Resched, WorkerSteps
<1>13. CASE DatabaseThrows(j)
  BY <1>13 DEF TypeOK, DatabaseThrows, WorkerSteps
<1>14. ASSUME NEW k \in JobIds, Requeue(j, k) PROVE TypeOK'
  <2>1. NewJob(jobs[j].text) \in JobType
    BY FreshRecords DEF TypeOK, JobType
  <2>2. [jobs EXCEPT ![j].pc = "done"] \in [JobIds -> JobType]
    BY MovedJob DEF TypeOK, WorkerSteps
  <2>3. jobs' = [[jobs EXCEPT ![j].pc = "done"] EXCEPT ![k] = NewJob(jobs[j].text)]
    BY <1>14 DEF Requeue, AfterRequeue
  <2>4. jobs' \in [JobIds -> JobType]
    BY <2>1, <2>2, <2>3
  <2> QED BY <1>14, <2>4 DEF TypeOK, Requeue
<1>15. CASE RequeueFails(j)
  BY <1>15 DEF TypeOK, RequeueFails, WorkerSteps
<1>16. CASE Finish(j)
  BY <1>16, SettledType DEF TypeOK, Finish, LockAfter
<1> QED
  BY <1>1, <1>2, <1>3, <1>4, <1>5, <1>6, <1>8, <1>9, <1>10, <1>11, <1>12,
     <1>13, <1>14, <1>15, <1>16 DEF WorkerStep

\* Setting the reason of a row keeps the table well typed.
LEMMA SetReasonType ==
  ASSUME NEW l \in Logs, NEW reason \in Reasons, logs \in [Logs -> RowType], SetReason(l, reason)
  PROVE  logs' \in [Logs -> RowType]
BY DEF SetReason, RowType

\* A step of the trigger worker keeps the types.
LEMMA TypeTrigger ==
  ASSUME TypeOK, TriggerRead \/ TriggerStep
  PROVE  TypeOK'
<1> USE Identifiers, IdleTypes DEF tables, session, redisKeys, producers
<1>1. CASE TriggerRead
  <2>1. trig' \in TrigType
    BY <1>1 DEF TypeOK, TriggerRead, TrigType
  <2> QED BY <1>1, <2>1 DEF TypeOK, TriggerRead
<1>2. CASE TriggerCreate
  <2>1. runs + 1 \in Runs /\ runs' = runs + 1 /\ runs' \in 0 .. MaxRuns
    BY <1>2, BoundsAssumption DEF TypeOK, TriggerCreate, Runs
  <2>2. trig' \in TrigType
    BY <1>2, <2>1 DEF TypeOK, TriggerCreate, TrigType
  <2>3. runText' \in [Runs -> Texts]
    BY <1>2, <2>1 DEF TypeOK, TriggerCreate, TrigType
  <2>4. logs' \in [Logs -> RowType]
    BY <1>2, FreshRecords DEF TypeOK, TriggerCreate, Reasons
  <2> QED BY <1>2, <2>1, <2>2, <2>3, <2>4 DEF TypeOK, TriggerCreate
<1>3. CASE TriggerCreateFails
  BY <1>3 DEF TypeOK, TriggerCreateFails
<1>4. WithAll(Fans(trig.run, trig.links), trig.text) \in [JobIds -> JobType]
  <2>1. NewJob(trig.text) \in JobType
    BY FreshRecords DEF TypeOK, TrigType
  <2> QED BY <2>1 DEF TypeOK, WithAll
<1>5. CASE TriggerBulk
  BY <1>4, <1>5 DEF TypeOK, TriggerBulk
<1>6. CASE TriggerBulkFails
  <2>1. trig' \in TrigType
    BY <1>6 DEF TypeOK, TriggerBulkFails, TrigType
  <2> QED BY <1>4, <1>6, <2>1 DEF TypeOK, TriggerBulkFails
<1>7. ASSUME NEW failed \in BOOLEAN, NEW g \in Groups
      PROVE  AfterFallback(failed, trig.todo \ {g}) \in TrigType
  <2>1. [trig EXCEPT !.todo = trig.todo \ {g}, !.failed = failed] \in TrigType
    BY DEF TypeOK, TrigType
  <2>2. [trig EXCEPT !.pc = "mark", !.todo = {}, !.failed = TRUE] \in TrigType
    BY DEF TypeOK, TrigType
  <2> QED BY <2>1, <2>2 DEF AfterFallback
<1>8. ASSUME NEW g \in Groups, FallbackAdd(g) PROVE TypeOK'
  <2>1. trig.failed \in BOOLEAN /\ trig.text \in Texts /\ trig.run \in Runs
    BY DEF TypeOK, TrigType
  <2> QED BY <1>7, <1>8, <2>1, OriginalType DEF TypeOK, FallbackAdd
<1>9. ASSUME NEW g \in Groups, FallbackAddFails(g) PROVE TypeOK'
  BY <1>7, <1>9 DEF TypeOK, FallbackAddFails
<1>10. CASE FallbackMark
  <2>1. \A l \in Logs : [logs[l] EXCEPT !.reason = "retry"] \in RowType
    BY DEF TypeOK, RowType, Reasons
  <2> QED BY <1>10, <2>1 DEF TypeOK, FallbackMark, MarkedForRetry
<1>11. CASE FallbackMarkFails
  BY <1>11 DEF TypeOK, FallbackMarkFails
<1> QED
  BY <1>1, <1>2, <1>3, <1>5, <1>6, <1>8, <1>9, <1>10, <1>11 DEF TriggerStep

\* A step of the reconcile loop keeps the types.
LEMMA TypeReconcile ==
  ASSUME TypeOK, ReconcileScan \/ ReconcileStep
  PROVE  TypeOK'
<1> USE Identifiers, IdleTypes DEF tables, session, redisKeys, producers
<1>1. CASE ReconcileScan
  BY <1>1 DEF TypeOK, ReconcileScan, RecType
<1>2. ASSUME NEW l \in Logs PROVE AfterLog(l) \in RecType
  <2>1. [rec EXCEPT !.pc = "loop", !.todo = rec.todo \ {l}, !.log = None] \in RecType
    BY DEF TypeOK, RecType
  <2> QED BY <2>1 DEF AfterLog
<1>3. ASSUME NEW l \in Logs, NEW j \in JobIds, ReconcileAdd(l, j) PROVE TypeOK'
  <2>1. rec' \in RecType
    BY <1>3 DEF TypeOK, ReconcileAdd, RecType
  <2>2. NewJob(rec.text) \in JobType
    BY FreshRecords DEF TypeOK, RecType
  <2>3. jobs' \in [JobIds -> JobType]
    BY <1>3, <2>2 DEF TypeOK, ReconcileAdd
  <2> QED BY <1>3, <2>1, <2>3 DEF TypeOK, ReconcileAdd
<1>4. ASSUME NEW l \in Logs, ReconcileAddFails(l) PROVE TypeOK'
  BY <1>2, <1>4 DEF TypeOK, ReconcileAddFails
<1>5. rec.pc = "mark" => rec.log \in Logs
  BY DEF TypeOK, RecType
<1>6. CASE ReconcileMark
  <2>1. logs' \in [Logs -> RowType]
    BY <1>5, <1>6, SetReasonType DEF TypeOK, ReconcileMark, RequeuedMark, Reasons
  <2> QED BY <1>2, <1>5, <1>6, <2>1 DEF TypeOK, ReconcileMark
<1>7. CASE ReconcileMarkFails
  BY <1>2, <1>5, <1>7 DEF TypeOK, ReconcileMarkFails
<1> QED BY <1>1, <1>3, <1>4, <1>6, <1>7 DEF ReconcileStep

\* A step of the run-completeness loop keeps the types.
LEMMA TypeRepair ==
  ASSUME TypeOK, (\E r \in Runs : RepairRead(r)) \/ RepairStep
  PROVE  TypeOK'
<1> USE Identifiers, IdleTypes DEF tables, session, redisKeys, producers
<1>1. ASSUME NEW r \in Runs, RepairRead(r) PROVE TypeOK'
  <2>1. rep' \in RepType
    BY <1>1 DEF TypeOK, RepairRead, RepType, RepIdle
  <2> QED BY <1>1, <2>1 DEF TypeOK, RepairRead
<1>2. CASE RepairSurvey \/ RepairFilter
  <2>1. /\ rep.links \ RowsOf(rep.run) \in SUBSET Groups
        /\ {g \in rep.missing : ~EverSent(g)} \in SUBSET Groups
    BY DEF TypeOK, RepType
  <2>2. \A pc \in {"filter", "loop"}, missing \in SUBSET Groups :
           [rep EXCEPT !.pc = pc, !.missing = missing] \in RepType
    BY <1>2 DEF TypeOK, RepType, RepairSurvey, RepairFilter
  <2> QED BY <1>2, <2>1, <2>2 DEF TypeOK, RepairSurvey, RepairFilter, Surveyed
<1>3. ASSUME NEW g \in Groups PROVE AfterGroup(g) \in RepType
  <2>1. [rep EXCEPT !.pc = "loop", !.missing = rep.missing \ {g}, !.group = None,
                    !.log = None] \in RepType
    BY DEF TypeOK, RepType
  <2> QED BY <2>1 DEF AfterGroup
<1>4. ASSUME NEW g \in Groups, RepairLookup(g) PROVE TypeOK'
  <2>1. rep.pc = "loop"
    BY <1>4 DEF RepairLookup
  <2>2. [rep EXCEPT !.pc = "create", !.group = g] \in RepType
    BY <2>1 DEF TypeOK, RepType
  <2>3. \A l \in Logs : [rep EXCEPT !.pc = "readd", !.group = g, !.log = l] \in RepType
    BY <2>1 DEF TypeOK, RepType
  <2> QED BY <1>3, <1>4, <2>2, <2>3 DEF TypeOK, RepairLookup, PendingRows
<1>5. /\ rep.pc \in {"readd", "mark"} => rep.log \in Logs
      /\ rep.pc \in {"create", "enqueue", "readd", "mark"} => rep.group \in Groups
      /\ rep.run \in Runs /\ rep.text \in Texts
  BY DEF TypeOK, RepType
<1>6. CASE RepairReadd
  <2>1. rep' \in RepType
    BY <1>6 DEF TypeOK, RepType, RepairReadd
  <2> QED BY <1>5, <1>6, <2>1, OriginalType DEF TypeOK, RepairReadd
<1>7. CASE RepairMark
  <2>1. logs' \in [Logs -> RowType]
    BY <1>5, <1>7, SetReasonType DEF TypeOK, RepairMark, Reasons
  <2> QED BY <1>3, <1>5, <1>7, <2>1 DEF TypeOK, RepairMark
<1>8. CASE RepairCreate
  <2>1. rep' \in RepType
    BY <1>8 DEF TypeOK, RepType, RepairCreate
  <2>2. logs' \in [Logs -> RowType]
    BY <1>8, FreshRecords DEF TypeOK, RepairCreate, Reasons
  <2> QED BY <1>8, <2>1, <2>2 DEF TypeOK, RepairCreate
<1>9. CASE RepairEnqueue
  BY <1>3, <1>5, <1>9, OriginalType DEF TypeOK, RepairEnqueue
<1>10. CASE RepairFails
  BY <1>3, <1>5, <1>10 DEF TypeOK, RepairFails
<1> QED
  BY <1>1, <1>2, <1>4, <1>6, <1>7, <1>8, <1>9, <1>10 DEF RepairStep

\* A step of a manual resend keeps the types.
LEMMA TypeResend ==
  ASSUME TypeOK, (\E l \in Logs : ResendRead(l)) \/ ResendStep
  PROVE  TypeOK'
<1> USE Identifiers, IdleTypes DEF tables, session, redisKeys, producers
<1>1. ASSUME NEW l \in Logs, ResendRead(l) PROVE TypeOK'
  <2>1. res' \in ResType
    BY <1>1 DEF TypeOK, ResendRead, ResType, ResIdle
  <2> QED BY <1>1, <2>1 DEF TypeOK, ResendRead
<1>2. /\ res.pc # "idle" => res.log \in Logs
      /\ res.run \in Runs /\ res.text \in Texts
  BY DEF TypeOK, ResType
<1>3. CASE ResendCreate
  <2>1. runs + 1 \in Runs /\ runs' = runs + 1 /\ runs' \in 0 .. MaxRuns
    BY <1>3, BoundsAssumption DEF TypeOK, ResendCreate, Runs
  <2>2. res' \in ResType
    BY <1>3, <2>1 DEF TypeOK, ResendCreate, ResType
  <2>3. runText' \in [Runs -> Texts]
    BY <1>2, <1>3, <2>1 DEF TypeOK, ResendCreate
  <2>4. logs' \in [Logs -> RowType]
    BY <1>2, <1>3, <2>1, FreshRecords DEF TypeOK, ResendCreate, Reasons
  <2> QED BY <1>3, <2>1, <2>2, <2>3, <2>4 DEF TypeOK, ResendCreate
<1>4. CASE ResendAdd
  <2>1. res' \in ResType
    BY <1>4 DEF TypeOK, ResendAdd, ResType
  <2> QED BY <1>2, <1>4, <2>1, OriginalType DEF TypeOK, ResendAdd
<1>5. CASE ResendMark
  <2>1. logs' \in [Logs -> RowType]
    BY <1>2, <1>5, SetReasonType DEF TypeOK, ResendMark, Reasons
  <2> QED BY <1>5, <2>1 DEF TypeOK, ResendMark
<1>6. CASE ResendFails
  BY <1>6 DEF TypeOK, ResendFails
<1> QED BY <1>1, <1>3, <1>4, <1>5, <1>6 DEF ResendStep

\* An edit of the schedule keeps the types.
LEMMA TypeEdit ==
  ASSUME TypeOK, EditStep
  PROVE  TypeOK'
<1> USE DEF SetSchedule, tables, session, redisKeys, producers
<1>1. CASE Pause
  BY <1>1 DEF TypeOK, Pause
<1>2. CASE Resume
  BY <1>2 DEF TypeOK, Resume
<1>3. CASE EditText
  <2>1. schedule.text + 1 \in Texts
    BY <1>3, BoundsAssumption DEF TypeOK, EditText, Texts
  <2>2. schedule' = [schedule EXCEPT !.text = schedule.text + 1]
    BY <1>3 DEF EditText
  <2> QED BY <1>3, <2>1, <2>2 DEF TypeOK, EditText
<1>4. CASE Unlink
  BY <1>4 DEF TypeOK, Unlink
<1>5. CASE Link
  BY <1>5 DEF TypeOK, Link
<1>6. CASE Delete
  BY <1>6, FreshRecords DEF TypeOK, Delete
<1> QED BY <1>1, <1>2, <1>3, <1>4, <1>5, <1>6 DEF EditStep

\* So does the environment, crashes included.
LEMMA TypeEnvironment ==
  ASSUME TypeOK, EnvironmentStep
  PROVE  TypeOK'
<1> USE IdleTypes DEF tables, session, redisKeys, producers
<1>1. CASE LockExpires
  BY <1>1 DEF TypeOK, LockExpires
<1>2. CASE CooldownLapses
  BY <1>2 DEF TypeOK, CooldownLapses
<1>3. CASE Disconnect
  BY <1>3 DEF TypeOK, Disconnect
<1>4. CASE Connect
  BY <1>4 DEF TypeOK, Connect
<1>5. ASSUME NEW l \in Logs, Age(l) PROVE TypeOK'
  <2>1. logs' \in [Logs -> RowType]
    BY <1>5 DEF TypeOK, Age, RowType
  <2> QED BY <1>5, <2>1 DEF TypeOK, Age
<1>6. CASE Midnight
  <2>1. \A l \in Logs : [logs[l] EXCEPT !.today = FALSE] \in RowType
    BY DEF TypeOK, RowType
  <2> QED BY <1>6, <2>1, BoundsAssumption DEF TypeOK, Midnight
<1>7. CASE Crash
  BY <1>7, StalledType DEF TypeOK, Crash
<1> QED BY <1>1, <1>2, <1>3, <1>4, <1>5, <1>6, <1>7 DEF EnvironmentStep

\* Every variable keeps its type, and a producer knows the log or group it
\* works on exactly while it works on one.
THEOREM TypeCorrect == Spec => []TypeOK
<1>1. TypeOK /\ [Next]_vars => TypeOK'
  <2> SUFFICES ASSUME TypeOK, [Next]_vars PROVE TypeOK'
    OBVIOUS
  <2>1. CASE UNCHANGED vars
    BY <2>1 DEF vars, TypeOK
  <2>2. CASE Next
    BY <2>2, TypeWorker, TypeTrigger, TypeReconcile, TypeRepair, TypeResend,
       TypeEdit, TypeEnvironment DEF Next, UserStep, TimerStep
  <2> QED BY <2>1, <2>2
<1> QED BY <1>1, TypeInit, PTL DEF Spec

(***************************************************************************)
(* What one step may do to a delivery.  Every safety proof below uses this *)
(* summary instead of the actions.                                         *)
(***************************************************************************)

\* Only a job at "send" delivers; only one at "mark" makes a row sent.
DeliveryShape ==
    /\ \A l \in Logs : copies'[l] # copies[l] =>
          copies'[l] > 0 /\ \E j \in JobIds : LogOf(j) = l /\ jobs[j].pc = "send"
    /\ \A l \in Logs : logs'[l].status = "sent" /\ logs[l].status # "sent" =>
          \E j \in JobIds : LogOf(j) = l /\ jobs[j].pc = "mark"
    /\ \A j \in JobIds : jobs'[j].pc = "mark" /\ jobs[j].pc # "mark" =>
          jobs[j].pc = "send" /\ copies'[LogOf(j)] > 0

\* A job gets to "lock" past a cap that is not exceeded, to "send" by taking
\* the free lock, and keeps the lock while it sends unless the key expires.
PassageShape ==
    /\ \A j \in JobIds : jobs'[j].pc = "lock" /\ jobs[j].pc # "lock" =>
          ~OverCap /\ logs' = logs /\ copies' = copies
    /\ \A j \in JobIds : jobs'[j].pc = "send" /\ jobs[j].pc # "send" =>
          jobs[j].pc = "lock" /\ lock = None /\ lock' = j
    /\ \A j \in JobIds : lock = j /\ lock' # j =>
          jobs'[j].pc \notin {"send", "mark"} \/ "expiry" \in Faults

Shape == DeliveryShape /\ PassageShape

\* A step that leaves the counts and the lock alone, makes no row sent and
\* moves no job to one of the three places has the shape.
LEMMA QuietShape ==
  ASSUME copies' = copies, lock' = lock,
         \A l \in Logs : logs'[l].status = "sent" => logs[l].status = "sent",
         \A j \in JobIds : jobs'[j].pc \in {"lock", "send", "mark"} => jobs'[j].pc = jobs[j].pc
  PROVE  Shape
BY DEF Shape, DeliveryShape, PassageShape

\* A worker's step has the shape.
LEMMA WorkerShape ==
  ASSUME TypeOK, NEW j \in JobIds, WorkerStep(j)
  PROVE  Shape
<1> USE Identifiers DEF tables, session, redisKeys, producers
<1>0. /\ jobs \in [JobIds -> JobType] /\ logs \in [Logs -> RowType]
      /\ copies \in [Logs -> 0 .. 2] /\ LogOf(j) \in Logs
  BY DEF TypeOK
<1>a. \A pc : Goto(j, pc) => /\ \A k \in JobIds : k # j => jobs'[k] = jobs[k]
                             /\ jobs'[j].pc = pc
  BY <1>0 DEF Goto, JobType
<1>b. None \notin JobIds
  BY SentinelAssumption
<1>1. CASE Take(j)
  BY <1>a, <1>1, QuietShape DEF Take
<1>2. CASE CheckLog(j)
  BY <1>a, <1>2, QuietShape DEF CheckLog, AfterCheck
<1>3. CASE Gate(j)
  <2>1. Goto(j, "resched") \/ Goto(j, "count")
    BY <1>3 DEF Gate
  <2>2. copies' = copies /\ lock' = lock /\ logs' = logs
    BY <1>3 DEF Gate
  <2>3. \A k \in JobIds : jobs'[k].pc \in {"lock", "send", "mark"} => jobs'[k].pc = jobs[k].pc
    BY <1>a, <2>1
  <2> QED BY <2>2, <2>3, QuietShape
<1>4. CASE CapCheck(j)
  BY <1>a, <1>4 DEF CapCheck, Shape, DeliveryShape, PassageShape
<1>5. CASE Acquire(j)
  BY <1>a, <1>b, <1>5 DEF Acquire, LockFree, Shape, DeliveryShape, PassageShape
<1>6. CASE GiveUp(j) \/ AcquireThrows(j)
  <2>1. CASE GiveUp(j)
    BY <1>a, <2>1, QuietShape DEF GiveUp, AfterFailure
  <2>2. CASE AcquireThrows(j)
    BY <1>a, <1>b, <2>2 DEF AcquireThrows, LockFree, Shape, DeliveryShape, PassageShape
  <2> QED BY <1>6, <2>1, <2>2
<1>7. ASSUME NEW l \in Logs, CountDelivery(l)
      PROVE  copies'[l] > 0 /\ \A m \in Logs : m # l => copies'[m] = copies[m]
  BY <1>0, <1>7 DEF CountDelivery
<1>8. CASE Deliver(j)
  BY <1>0, <1>a, <1>7, <1>8 DEF Deliver, Shape, DeliveryShape, PassageShape
<1>9. CASE SendFails(j)
  BY <1>0, <1>a, <1>7, <1>9
     DEF SendFails, AfterFailure, Shape, DeliveryShape, PassageShape
<1>10. CASE MarkSent(j)
  <2>1. \A l \in Logs : l # LogOf(j) => logs'[l] = logs[l]
    BY <1>0, <1>10 DEF MarkSent
  <2> QED BY <1>a, <1>10, <2>1 DEF MarkSent, Shape, DeliveryShape, PassageShape
<1>11. CASE MarkFails(j)
  BY <1>a, <1>11, QuietShape DEF MarkFails, AfterFailure
<1>12. CASE Resched(j)
  <2>1. \A l \in Logs : logs'[l].status = "sent" => logs[l].status = "sent"
    BY <1>0, <1>12 DEF Resched, RowType
  <2>2. copies' = copies /\ lock' = lock /\ Goto(j, "requeue")
    BY <1>12 DEF Resched
  <2>3. \A k \in JobIds : jobs'[k].pc \in {"lock", "send", "mark"} => jobs'[k].pc = jobs[k].pc
    BY <1>a, <2>2
  <2> QED BY <2>1, <2>2, <2>3, QuietShape
<1>13. CASE DatabaseThrows(j)
  BY <1>a, <1>13, QuietShape DEF DatabaseThrows
<1>14. ASSUME NEW k \in JobIds, Requeue(j, k) PROVE Shape
  <2>1. \A i \in JobIds : jobs'[i].pc \in {"done", "queued"} \/ jobs'[i] = jobs[i]
    BY <1>0, <1>14 DEF Requeue, AfterRequeue, NewJob, NoJob, JobType
  <2> QED BY <1>14, <2>1, QuietShape DEF Requeue
<1>15. CASE RequeueFails(j)
  BY <1>a, <1>15, QuietShape DEF RequeueFails
<1>16. CASE Finish(j)
  <2>1. Settled(j).pc \in {"free", "queued"}
    BY <1>0 DEF Settled, NoJob, JobType
  <2>2. /\ \A k \in JobIds : k # j => jobs'[k] = jobs[k]
        /\ jobs'[j].pc \in {"free", "queued"}
    BY <1>0, <1>16, <2>1 DEF Finish
  <2>3. \A k \in JobIds : k # j /\ lock = k => lock' = k
    BY <1>16, <2>2 DEF Finish, LockAfter
  <2> QED BY <1>16, <2>2, <2>3 DEF Finish, Shape, DeliveryShape, PassageShape
<1> QED
  BY <1>1, <1>2, <1>3, <1>4, <1>5, <1>6, <1>8, <1>9, <1>10, <1>11, <1>12,
     <1>13, <1>14, <1>15, <1>16 DEF WorkerStep

\* Adding the job named after a log moves no job.
LEMMA OriginalQuiet ==
  ASSUME jobs \in [JobIds -> JobType], NEW l \in Logs, NEW text \in Texts,
         jobs' = WithOriginal(jobs, l, text)
  PROVE  \A j \in JobIds : jobs'[j].pc = "queued" \/ jobs'[j] = jobs[j]
BY Identifiers DEF WithOriginal, NewJob, NoJob

\* A producer's step has the shape.
LEMMA ProducerShape ==
  ASSUME TypeOK,
         \/ TriggerRead \/ TriggerStep
         \/ ReconcileScan \/ ReconcileStep
         \/ (\E r \in Runs : RepairRead(r)) \/ RepairStep
         \/ (\E l \in Logs : ResendRead(l)) \/ ResendStep
  PROVE  Shape
<1> USE Identifiers DEF tables, session, redisKeys, producers
<1>0. /\ jobs \in [JobIds -> JobType] /\ logs \in [Logs -> RowType]
      /\ trig.text \in Texts /\ trig.run \in Runs /\ rec.text \in Texts
      /\ rep.text \in Texts /\ rep.run \in Runs /\ res.text \in Texts /\ res.run \in Runs
      /\ rep.pc \in {"readd", "mark"} => rep.log \in Logs
      /\ rep.pc \in {"create", "enqueue"} => rep.group \in Groups
      /\ rec.pc = "mark" => rec.log \in Logs
      /\ res.pc # "idle" => res.log \in Logs
  BY DEF TypeOK, TrigType, RecType, RepType, ResType
<1>1. ASSUME copies' = copies, lock' = lock, jobs' = jobs,
             \A l \in Logs : logs'[l].status = "sent" => logs[l].status = "sent"
      PROVE  Shape
  BY <1>1, QuietShape
<1>2. ASSUME copies' = copies, lock' = lock, logs' = logs,
             \A j \in JobIds : jobs'[j].pc = "queued" \/ jobs'[j] = jobs[j]
      PROVE  Shape
  BY <1>2, QuietShape
<1>3. \A reason : NewRow(reason).status = "pending"
  BY DEF NewRow
<1>4. ASSUME NEW l \in Logs, NEW reason \in Reasons, SetReason(l, reason)
      PROVE  \A m \in Logs : logs'[m].status = "sent" => logs[m].status = "sent"
  BY <1>0, <1>4 DEF SetReason, RowType
<1>5. CASE TriggerRead \/ TriggerStep
  <2>1. CASE TriggerRead \/ TriggerCreateFails \/ FallbackMarkFails
    BY <1>1, <2>1 DEF TriggerRead, TriggerCreateFails, FallbackMarkFails
  <2>2. CASE TriggerCreate
    BY <1>1, <1>3, <2>2 DEF TriggerCreate
  <2>3. ASSUME jobs' = WithAll(Fans(trig.run, trig.links), trig.text)
        PROVE  \A j \in JobIds : jobs'[j].pc = "queued" \/ jobs'[j] = jobs[j]
    BY <2>3 DEF WithAll, NewJob, NoJob
  <2>4. CASE TriggerBulk \/ TriggerBulkFails
    BY <1>2, <2>3, <2>4 DEF TriggerBulk, TriggerBulkFails
  <2>5. ASSUME NEW g \in Groups, FallbackAdd(g) \/ FallbackAddFails(g) PROVE Shape
    BY <1>0, <1>2, <2>5, OriginalQuiet DEF FallbackAdd, FallbackAddFails
  <2>6. CASE FallbackMark
    <3>1. \A l \in Logs : logs'[l].status = "sent" => logs[l].status = "sent"
      BY <1>0, <2>6 DEF FallbackMark, MarkedForRetry, RowType
    <3> QED BY <1>1, <2>6, <3>1 DEF FallbackMark
  <2> QED BY <1>5, <2>1, <2>2, <2>4, <2>5, <2>6 DEF TriggerStep
<1>6. CASE ReconcileScan \/ ReconcileStep
  <2>1. CASE ReconcileScan
    BY <1>1, <2>1 DEF ReconcileScan
  <2>2. ASSUME NEW l \in Logs, NEW j \in JobIds, ReconcileAdd(l, j) PROVE Shape
    BY <1>0, <1>2, <2>2 DEF ReconcileAdd, NewJob, NoJob
  <2>3. ASSUME NEW l \in Logs, ReconcileAddFails(l) PROVE Shape
    BY <1>1, <2>3 DEF ReconcileAddFails
  <2>4. CASE ReconcileMark
    BY <1>0, <1>1, <1>4, <2>4 DEF ReconcileMark, RequeuedMark, Reasons
  <2>5. CASE ReconcileMarkFails
    BY <1>1, <2>5 DEF ReconcileMarkFails
  <2> QED BY <1>6, <2>1, <2>2, <2>3, <2>4, <2>5 DEF ReconcileStep
<1>7. CASE (\E r \in Runs : RepairRead(r)) \/ RepairStep
  <2>1. ASSUME NEW r \in Runs, RepairRead(r) PROVE Shape
    BY <1>1, <2>1 DEF RepairRead
  <2>2. CASE RepairSurvey \/ RepairFilter \/ RepairFails \/ \E g \in Groups : RepairLookup(g)
    BY <1>1, <2>2 DEF RepairSurvey, RepairFilter, RepairFails, RepairLookup
  <2>3. CASE RepairReadd \/ RepairEnqueue
    BY <1>0, <1>2, <2>3, OriginalQuiet DEF RepairReadd, RepairEnqueue
  <2>4. CASE RepairMark
    BY <1>0, <1>1, <1>4, <2>4 DEF RepairMark, Reasons
  <2>5. CASE RepairCreate
    <3>1. \A l \in Logs : logs'[l].status = "sent" => logs[l].status = "sent"
      BY <1>0, <1>3, <2>5 DEF RepairCreate
    <3> QED BY <1>1, <2>5, <3>1 DEF RepairCreate
  <2> QED BY <1>7, <2>1, <2>2, <2>3, <2>4, <2>5 DEF RepairStep
<1>8. CASE (\E l \in Logs : ResendRead(l)) \/ ResendStep
  <2>1. CASE (\E l \in Logs : ResendRead(l)) \/ ResendFails
    BY <1>1, <2>1 DEF ResendRead, ResendFails
  <2>2. CASE ResendCreate
    <3>1. \A l \in Logs : logs'[l].status = "sent" => logs[l].status = "sent"
      BY <1>0, <1>3, <2>2 DEF ResendCreate
    <3> QED BY <1>1, <2>2, <3>1 DEF ResendCreate
  <2>3. CASE ResendAdd
    BY <1>0, <1>2, <2>3, OriginalQuiet DEF ResendAdd
  <2>4. CASE ResendMark
    BY <1>0, <1>1, <1>4, <2>4 DEF ResendMark, Reasons
  <2> QED BY <1>8, <2>1, <2>2, <2>3, <2>4 DEF ResendStep
<1> QED BY <1>5, <1>6, <1>7, <1>8

\* So has a step of the user or of the environment.
LEMMA OutsideShape ==
  ASSUME TypeOK, EditStep \/ EnvironmentStep
  PROVE  Shape
<1> USE DEF SetSchedule, tables, session, redisKeys, producers
<1>0. logs \in [Logs -> RowType] /\ jobs \in [JobIds -> JobType]
  BY DEF TypeOK
<1>1. CASE Pause \/ Resume \/ EditText \/ Unlink \/ Link
  BY <1>1, QuietShape DEF Pause, Resume, EditText, Unlink, Link
<1>2. CASE Delete
  BY <1>2, QuietShape DEF Delete, NoRow
<1>3. CASE LockExpires
  BY <1>3, SentinelAssumption
     DEF LockExpires, Shape, DeliveryShape, PassageShape
<1>4. CASE CooldownLapses \/ Disconnect \/ Connect
  BY <1>4, QuietShape DEF CooldownLapses, Disconnect, Connect
<1>5. ASSUME NEW l \in Logs, Age(l) PROVE Shape
  <2>1. \A m \in Logs : logs'[m].status = "sent" => logs[m].status = "sent"
    BY <1>0, <1>5 DEF Age, RowType
  <2> QED BY <1>5, <2>1, QuietShape DEF Age
<1>6. CASE Midnight
  <2>1. \A m \in Logs : logs'[m].status = "sent" => logs[m].status = "sent"
    BY <1>0, <1>6 DEF Midnight, RowType
  <2> QED BY <1>6, <2>1, QuietShape DEF Midnight
<1>7. CASE Crash
  <2>1. \A job \in JobType : AfterStall(job).pc \in {"free", "queued"}
    BY DEF AfterStall, NoJob, JobType
  <2>2. \A j \in JobIds : jobs'[j].pc \notin {"lock", "send", "mark"}
    BY <1>0, <1>7, <2>1 DEF Crash, Active, WorkerSteps
  <2> QED BY <1>7, <2>2 DEF Crash, Shape, DeliveryShape, PassageShape
<1> QED
  BY <1>1, <1>2, <1>3, <1>4, <1>5, <1>6, <1>7 DEF EditStep, EnvironmentStep

\* Every step has the shape.
LEMMA StepShape == TypeOK /\ [Next]_vars => Shape
<1> SUFFICES ASSUME TypeOK, [Next]_vars PROVE Shape
  OBVIOUS
<1>1. CASE UNCHANGED vars
  BY <1>1, QuietShape DEF vars
<1>2. CASE Next
  BY <1>2, WorkerShape, ProducerShape, OutsideShape DEF Next, UserStep, TimerStep
<1> QED BY <1>1, <1>2

(***************************************************************************)
(* Sent means delivered.                                                   *)
(***************************************************************************)

\* A sent log was delivered, and so was one whose job is about to mark it.
DeliveredInv ==
    /\ SentWasDelivered
    /\ \A j \in JobIds : jobs[j].pc = "mark" => copies[LogOf(j)] > 0

\* It holds in every reachable state.
LEMMA DeliveredHolds == Spec => []DeliveredInv
<1>1. Init => DeliveredInv
  BY DEF Init, DeliveredInv, SentWasDelivered, NoRow, NoJob
<1>2. TypeOK /\ DeliveredInv /\ [Next]_vars => DeliveredInv'
  <2> SUFFICES ASSUME TypeOK, DeliveredInv, [Next]_vars PROVE DeliveredInv'
    OBVIOUS
  <2>1. DeliveryShape
    BY StepShape DEF Shape
  <2>2. \A l \in Logs : copies[l] > 0 => copies'[l] > 0
    BY <2>1 DEF DeliveryShape
  <2>3. SentWasDelivered'
    BY <2>1, <2>2, Identifiers DEF DeliveredInv, SentWasDelivered, DeliveryShape
  <2>4. ASSUME NEW j \in JobIds, jobs'[j].pc = "mark" PROVE copies'[LogOf(j)] > 0
    BY <2>1, <2>2, <2>4, Identifiers DEF DeliveredInv, DeliveryShape
  <2> QED BY <2>3, <2>4 DEF DeliveredInv
<1> QED BY <1>1, <1>2, TypeCorrect, PTL DEF Spec

\* A log says "sent" only when its message went out, whatever fails, crashes
\* or is requeued on the way.
THEOREM SentImpliesDelivered == Spec => []SentWasDelivered
<1>1. DeliveredInv => SentWasDelivered
  BY DEF DeliveredInv
<1> QED BY <1>1, DeliveredHolds, PTL

(***************************************************************************)
(* One sender at a time.                                                   *)
(***************************************************************************)

\* Who sends owns the lock.
OwnerInv == \A j \in JobIds : Sending(j) => lock = j

LEMMA OwnerHolds == ASSUME "expiry" \notin Faults PROVE Spec => []OwnerInv
<1>1. Init => OwnerInv
  BY DEF Init, OwnerInv, Sending, NoJob
<1>2. TypeOK /\ OwnerInv /\ [Next]_vars => OwnerInv'
  <2> SUFFICES ASSUME TypeOK, OwnerInv, [Next]_vars, NEW j \in JobIds, Sending(j)'
               PROVE  lock' = j
    BY DEF OwnerInv
  <2>1. Shape
    BY StepShape
  <2>2. CASE Sending(j)
    BY <2>1, <2>2 DEF OwnerInv, Sending, Shape, PassageShape
  <2>3. CASE ~Sending(j)
    BY <2>1, <2>3 DEF Sending, Shape, DeliveryShape, PassageShape
  <2> QED BY <2>2, <2>3
<1> QED BY <1>1, <1>2, TypeCorrect, PTL DEF Spec

\* Unless the lock expires under its owner, two jobs of a tenant never send at
\* once: a release that fails, a crash and the end of a job that never owned
\* the lock do not break it.
THEOREM SendersExclude == ASSUME "expiry" \notin Faults PROVE Spec => []ExclusiveSender
<1>1. OwnerInv => ExclusiveSender
  BY DEF OwnerInv, ExclusiveSender
<1> QED BY <1>1, OwnerHolds, PTL

\* The job that sends, if one does: the sender of the abstract mutex, which the
\* lock by itself implements in real time (TenantLock).
Sender == IF \E j \in JobIds : Sending(j) THEN CHOOSE j \in JobIds : Sending(j) ELSE None

Mutex == INSTANCE TenantMutex WITH Workers <- JobIds, NoOne <- None, sender <- Sender

LEMMA SenderIs ==
  ASSUME OwnerInv
  PROVE  /\ Sender \in JobIds \cup {None}
         /\ Sender # None => Sending(Sender) /\ lock = Sender
         /\ \A j \in JobIds : Sending(j) => Sender = j
BY SentinelAssumption DEF OwnerInv, Sender

\* Under the same premise the pipeline implements the mutex the lock promises:
\* a job starts to send only while no other does, and one sender never takes
\* over from another in the same step, through retries, stalled jobs that run
\* again, crashes and releases that fail (message-send.processor.ts).
THEOREM SendersImplementMutex == ASSUME "expiry" \notin Faults PROVE Spec => Mutex!Spec
<1>1. Init => Mutex!Init
  BY DEF Init, Mutex!Init, Sender, Sending, NoJob
<1>2. TypeOK /\ OwnerInv /\ OwnerInv' /\ [Next]_vars => [Mutex!Next]_Sender
  <2> SUFFICES ASSUME TypeOK, OwnerInv, OwnerInv', [Next]_vars, Sender' # Sender
               PROVE  Mutex!Next
    OBVIOUS
  <2>1. Shape
    BY StepShape
  <2>2. \/ Sender' = None
        \/ \E k \in JobIds : k = Sender' /\ Sending(k)'
    BY DEF Sender
  <2>3. CASE Sender' = None
    BY <2>3 DEF Mutex!Next, Mutex!Stop
  <2>4. CASE Sender' # None
    <3>1. PICK k \in JobIds : k = Sender' /\ Sending(k)'
      BY <2>2, <2>4
    <3>2. ~Sending(k)
      BY <3>1, SenderIs
    <3>3. lock = None
      BY <2>1, <3>1, <3>2 DEF Shape, DeliveryShape, PassageShape, Sending
    <3>4. Sender = None
      BY <3>3, SenderIs
    <3> QED BY <3>1, <3>4 DEF Mutex!Next, Mutex!Start
  <2> QED BY <2>3, <2>4
<1> QED BY <1>1, <1>2, OwnerHolds, TypeCorrect, PTL DEF Spec, Mutex!Spec
=============================================================================
