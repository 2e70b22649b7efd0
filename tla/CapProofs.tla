----------------------------- MODULE CapProofs -----------------------------
(***************************************************************************)
(* The daily cap: a proof that jobs which pass the cap check one after the *)
(* other, or together, never use more of the day's messages than the cap.  *)
(* CapHolds is not inductive: a new row could raise the use if a delivery  *)
(* or a job for it came first.  OriginInv excludes that.                   *)
(***************************************************************************)
EXTENDS DispatchProofs

----------------------------------------------------------------------------
(* The inductive invariant *)

\* The row of the log was created once; only deleting the schedule removes it.
Promised(l) == l[1] <= runs /\ (schedule.status = "deleted" \/ Exists(l))

Announced(l) == AboutToEnqueue(l) \/ l \in rec.todo

\* Rows come first: only a promised log has deliveries or jobs, or stands in
\* the list of a process that enqueues jobs.
OriginInv ==
    /\ \A l \in Logs : Exists(l) => l[1] <= runs
    /\ \A l \in Logs : copies[l] > 0 => Promised(l)
    /\ \A j \in JobIds : Live(j) => Promised(LogOf(j))
    /\ \A l \in Logs : Announced(l) => Promised(l)
    /\ trig.pc = "fallback" => trig.todo \subseteq trig.links
    /\ rep.pc # "idle" => rep.run <= runs

----------------------------------------------------------------------------
(* What one step may do to rows and jobs *)

\* No promise is taken back, and a row that starts to count is a new one.
RowShape ==
    /\ \A l \in Logs : Promised(l) => Promised(l)'
    /\ \A l \in Logs : l \in CountedToday' /\ l \notin CountedToday => ~Promised(l)
    /\ \A l \in Logs : Exists(l)' /\ ~Exists(l) => l[1] <= runs'

\* Jobs and announcements are made for promised logs.
JobShape ==
    /\ \A j \in JobIds : Live(j)' /\ ~Live(j) => Promised(LogOf(j))
    /\ \A l \in Logs : Announced(l)' /\ ~Announced(l) => Promised(l)'
    /\ trig'.pc = "fallback" => trig'.todo \subseteq trig'.links
    /\ rep'.pc # "idle" => rep'.run <= runs'

\* A step that creates and deletes no row has the first shape.
LEMMA KeptRows ==
  ASSUME runs' = runs, schedule'.status = schedule.status,
         \A l \in Logs : /\ logs'[l].status = "absent" <=> logs[l].status = "absent"
                         /\ logs'[l].today => logs[l].today
  PROVE  RowShape
BY DEF RowShape, Promised, Exists, CountedToday

\* A step that leaves the producers and the runs alone announces nothing.
LEMMA QuietProducers ==
  ASSUME OriginInv, UNCHANGED <<trig, rec, rep, res, runs>>,
         \A j \in JobIds : Live(j)' /\ ~Live(j) => Promised(LogOf(j))
  PROVE  JobShape
<1>1. \A l \in Logs : Announced(l)' <=> Announced(l)
  BY DEF Announced, AboutToEnqueue, Fans
<1> QED BY <1>1 DEF JobShape, OriginInv

\* A worker adds jobs only for the log it works on.
LEMMA WorkerOrigin ==
  ASSUME TypeOK, OriginInv, NEW j \in JobIds, WorkerStep(j)
  PROVE  RowShape /\ JobShape
<1> USE Identifiers DEF tables, session, redisKeys, producers
<1>0. jobs \in [JobIds -> JobType] /\ logs \in [Logs -> RowType] /\ LogOf(j) \in Logs
  BY DEF TypeOK
<1>1. UNCHANGED <<trig, rec, rep, res, runs, schedule>>
  BY DEF WorkerStep, Take, CheckLog, Gate, CapCheck, Acquire, AcquireThrows, GiveUp, Deliver, SendFails,
         MarkSent, MarkFails, Resched, DatabaseThrows, Requeue, RequeueFails, Finish
<1>2. \A l \in Logs : /\ logs'[l].status = "absent" <=> logs[l].status = "absent"
                      /\ logs'[l].today => logs[l].today
  <2>1. CASE MarkSent(j)
    BY <1>0, <2>1 DEF MarkSent, RowType, Exists
  <2>2. CASE Resched(j)
    BY <1>0, <2>2 DEF Resched, RowType, Exists
  <2>3. CASE ~MarkSent(j) /\ ~Resched(j)
    <3>1. logs' = logs
      BY <2>3 DEF WorkerStep, Take, CheckLog, Gate, CapCheck, Acquire, AcquireThrows, GiveUp, Deliver,
           SendFails, MarkFails, DatabaseThrows, Requeue, RequeueFails, Finish
    <3> QED BY <3>1
  <2> QED BY <2>1, <2>2, <2>3
<1>3. ASSUME NEW k \in JobIds, Live(k)', ~Live(k) PROVE Promised(LogOf(k))
  <2>1. CASE \E i \in JobIds : Requeue(j, i)
    <3>1. PICK i \in JobIds : Requeue(j, i)
      BY <2>1
    <3>2. Live(j)
      BY <3>1 DEF Requeue, Live
    <3>3. k # i => k = j \/ jobs'[k] = jobs[k]
      BY <1>0, <3>1 DEF Requeue
    <3>4. k = i
      BY <1>3, <3>2, <3>3 DEF Live
    <3> QED BY <3>1, <3>2, <3>4 DEF Requeue, FreshId, OriginInv
  <2>2. CASE Finish(j)
    <3>1. Live(j)
      BY <2>2 DEF Finish, Live
    <3>2. k # j => jobs'[k] = jobs[k]
      BY <1>0, <2>2 DEF Finish
    <3> QED BY <1>3, <3>1, <3>2 DEF OriginInv, Live
  <2>3. CASE ~Finish(j) /\ ~ \E i \in JobIds : Requeue(j, i)
    <3>1. Live(j)
      BY <2>3 DEF WorkerStep, Live, Take, CheckLog, Gate, CapCheck, Acquire, AcquireThrows, GiveUp,
           Deliver, SendFails, MarkSent, MarkFails, Resched, DatabaseThrows, RequeueFails
    <3>2. \E pc : Goto(j, pc)
      BY <2>3 DEF WorkerStep, Take, CheckLog, Gate, CapCheck, Acquire, AcquireThrows, GiveUp,
           Deliver, SendFails, MarkSent, MarkFails, Resched, DatabaseThrows, RequeueFails
    <3>3. k # j => jobs'[k] = jobs[k]
      BY <1>0, <3>2 DEF Goto
    <3> QED BY <1>3, <3>1, <3>3 DEF OriginInv, Live
  <2> QED BY <2>1, <2>2, <2>3
<1> QED BY <1>1, <1>2, <1>3, KeptRows, QuietProducers

\* Adding the job named after a promised log.
LEMMA OriginalOrigin ==
  ASSUME jobs \in [JobIds -> JobType], NEW l \in Logs, NEW text,
         jobs' = WithOriginal(jobs, l, text), Promised(l)
  PROVE  \A j \in JobIds : Live(j)' /\ ~Live(j) => Promised(LogOf(j))
BY Identifiers DEF WithOriginal, Live

\* The trigger enqueues for the run it has created.
LEMMA TriggerOrigin ==
  ASSUME TypeOK, OriginInv, TriggerRead \/ TriggerStep
  PROVE  RowShape /\ JobShape
<1> USE Identifiers DEF tables, session, redisKeys, producers
<1>0. /\ jobs \in [JobIds -> JobType] /\ logs \in [Logs -> RowType]
      /\ trig.run \in Runs /\ runs \in 0 .. MaxRuns /\ trig \in TrigType
  BY DEF TypeOK, TrigType
<1>i. TrigIdle.pc = "idle" /\ TrigIdle \in TrigType
  BY IdleTypes DEF TrigIdle
<1>1. ASSUME UNCHANGED <<logs, runs, schedule, rec, rep, res>>,
             \A l \in Logs : Announced(l)' => Announced(l),
             trig'.pc = "fallback" => trig'.todo \subseteq trig'.links,
             \A j \in JobIds : Live(j)' /\ ~Live(j) => Promised(LogOf(j))
      PROVE  RowShape /\ JobShape
  <2>1. RowShape
    BY <1>1, KeptRows
  <2> QED BY <1>1, <2>1 DEF JobShape, OriginInv
<1>2. CASE TriggerRead \/ TriggerCreateFails \/ FallbackMarkFails
  <2>1. trig'.pc \in {"create", "idle"} /\ UNCHANGED <<logs, runs, schedule, jobs, rec, rep, res>>
    BY <1>2, <1>i DEF TriggerRead, TriggerCreateFails, FallbackMarkFails, TrigType
  <2>2. \A l \in Logs : Announced(l)' => Announced(l)
    BY <2>1 DEF Announced, AboutToEnqueue
  <2> QED BY <1>1, <2>1, <2>2 DEF Live
<1>3. CASE TriggerCreate
  <2> DEFINE r == runs + 1
  <2>1. /\ runs' = r /\ UNCHANGED <<schedule, jobs, rec, rep, res>>
        /\ trig' = [trig EXCEPT !.pc = "bulk", !.run = r]
        /\ \A l \in Logs : logs'[l] = IF l \in Fans(r, trig.links) THEN NewRow("null") ELSE logs[l]
    BY <1>3 DEF TriggerCreate
  <2>2. \A l \in Logs : l \in Fans(r, trig.links) => l[1] = r
    BY DEF Fans
  <2>3. NewRow("null").status = "pending"
    BY DEF NewRow
  <2>4. \A l \in Logs : l[1] \in Nat
    <3>1. Runs \subseteq Nat
      BY BoundsAssumption DEF Runs
    <3> QED BY <3>1
  <2>5. RowShape
    BY <1>0, <2>1, <2>2, <2>3, <2>4 DEF RowShape, Promised, Exists, CountedToday
  <2>6. \A l \in Logs : Announced(l)' /\ ~Announced(l) => l \in Fans(r, trig.links)
    BY <1>0, <2>1 DEF Announced, AboutToEnqueue, Fans, TrigType
  <2>7. \A l \in Logs : l \in Fans(r, trig.links) => Promised(l)'
    BY <1>0, <2>1, <2>2, <2>3 DEF Promised, Exists
  <2>8. rep'.pc # "idle" => rep'.run <= runs'
    <3>1. rep.pc # "idle" => rep.run <= runs
      BY DEF OriginInv
    <3>2. rep.run \in Nat
      BY DEF TypeOK, RepType, Runs
    <3> QED BY <1>0, <2>1, <3>1, <3>2
  <2> QED BY <2>1, <2>5, <2>6, <2>7, <2>8 DEF JobShape, Live
<1>4. \A l \in Logs : trig.pc \in {"bulk", "fallback", "mark"} /\ l \in Fans(trig.run, trig.links)
         => Promised(l)
  BY DEF OriginInv, Announced, AboutToEnqueue
<1>5. CASE TriggerBulk \/ TriggerBulkFails
  <2>1. /\ UNCHANGED <<logs, runs, schedule, rec, rep, res>>
        /\ trig.pc = "bulk"
        /\ jobs' = jobs \/ jobs' = WithAll(Fans(trig.run, trig.links), trig.text)
        /\ \/ trig'.pc = "idle"
           \/ trig'.run = trig.run /\ trig'.links = trig.links /\ trig'.todo = trig.links
    BY <1>0, <1>i, <1>5 DEF TriggerBulk, TriggerBulkFails, TrigType
  <2>2. \A l \in Logs : Announced(l)' => Announced(l)
    BY <2>1 DEF Announced, AboutToEnqueue, Fans
  <2>3. \A j \in JobIds : Live(j)' /\ ~Live(j) => Promised(LogOf(j))
    BY <1>4, <2>1 DEF WithAll, Live
  <2> QED BY <1>1, <2>1, <2>2, <2>3
<1>6. ASSUME NEW g \in Groups, FallbackAdd(g) \/ FallbackAddFails(g)
      PROVE  RowShape /\ JobShape
  <2>1. \A failed : LET t == AfterFallback(failed, trig.todo \ {g}) IN
           \/ t.pc \in {"idle", "mark"} /\ (t.pc = "mark" => t.run = trig.run /\ t.links = trig.links)
           \/ t.run = trig.run /\ t.links = trig.links /\ t.todo \subseteq trig.todo
    BY <1>0, <1>i DEF AfterFallback, TrigType
  <2>2. /\ UNCHANGED <<logs, runs, schedule, rec, rep, res>>
        /\ trig.pc = "fallback" /\ trig.todo \subseteq trig.links
        /\ jobs' = jobs \/ jobs' = WithOriginal(jobs, <<trig.run, g>>, trig.text)
        /\ \E failed : trig' = AfterFallback(failed, trig.todo \ {g})
    BY <1>6 DEF FallbackAdd, FallbackAddFails, OriginInv
  <2>3. /\ trig'.pc # "idle" => trig'.run = trig.run /\ trig'.links = trig.links
        /\ trig'.pc = "fallback" => trig'.todo \subseteq trig.todo
    BY <2>1, <2>2
  <2>4. \A l \in Logs : Announced(l)' => Announced(l)
    BY <2>2, <2>3 DEF Announced, AboutToEnqueue, Fans
  <2>5. Promised(<<trig.run, g>>)
    <3>1. <<trig.run, g>> \in Fans(trig.run, trig.links)
      BY <1>6, <2>2 DEF Fans, FallbackAdd, FallbackAddFails
    <3> QED BY <1>0, <1>4, <2>2, <3>1
  <2>6. \A j \in JobIds : Live(j)' /\ ~Live(j) => Promised(LogOf(j))
    BY <1>0, <2>2, <2>5, OriginalOrigin DEF Live
  <2> QED BY <1>1, <2>2, <2>3, <2>4, <2>6
<1>7. CASE FallbackMark
  <2>1. UNCHANGED <<runs, schedule, jobs, rec, rep, res>> /\ trig'.pc = "idle"
    BY <1>i, <1>7 DEF FallbackMark
  <2>2. \A l \in Logs : logs'[l].status = logs[l].status /\ logs'[l].today = logs[l].today
    BY <1>0, <1>7 DEF FallbackMark, MarkedForRetry, RowType
  <2>3. RowShape
    BY <2>1, <2>2, KeptRows
  <2>4. \A l \in Logs : Announced(l)' => Announced(l)
    BY <2>1 DEF Announced, AboutToEnqueue
  <2> QED BY <2>1, <2>3, <2>4 DEF JobShape, Live, OriginInv
<1> QED BY <1>2, <1>3, <1>5, <1>6, <1>7 DEF TriggerStep

\* A reconcile pass enqueues for the rows it has read.
LEMMA ReconcileOrigin ==
  ASSUME TypeOK, OriginInv, ReconcileScan \/ ReconcileStep
  PROVE  RowShape /\ JobShape
<1> USE Identifiers DEF tables, session, redisKeys, producers
<1>0. /\ jobs \in [JobIds -> JobType] /\ logs \in [Logs -> RowType] /\ rec \in RecType
      /\ rec.pc = "mark" => rec.log \in Logs
  BY DEF TypeOK, RecType
<1>1. ASSUME UNCHANGED <<runs, schedule, trig, rep, res>>,
             \A l \in Logs : logs'[l].status = logs[l].status /\ logs'[l].today = logs[l].today,
             \A l \in Logs : l \in rec'.todo => l \in rec.todo \/ Promised(l),
             \A j \in JobIds : Live(j)' /\ ~Live(j) => Promised(LogOf(j))
      PROVE  RowShape /\ JobShape
  <2>1. RowShape
    BY <1>1, KeptRows
  <2>2. \A l \in Logs : Announced(l)' /\ ~Announced(l) => Promised(l)'
    BY <1>1, <2>1 DEF Announced, AboutToEnqueue, Fans, RowShape
  <2> QED BY <1>1, <2>1, <2>2 DEF JobShape, OriginInv
<1>2. RecIdle.todo = {}
  BY DEF RecIdle
<1>3. \A l \in Logs : AfterLog(l).todo \subseteq rec.todo
  BY <1>0, <1>2 DEF AfterLog, RecType
<1>4. CASE ReconcileScan
  <2>1. /\ UNCHANGED <<logs, jobs, runs, schedule, trig, rep, res>>
        /\ rec'.todo = {l \in Logs : Reconcilable(l)}
    BY <1>4 DEF ReconcileScan
  <2>2. \A l \in Logs : l \in rec'.todo => Promised(l)
    BY <2>1 DEF Reconcilable, Pending, Promised, Exists, OriginInv
  <2> QED BY <1>1, <2>1, <2>2 DEF Live
<1>5. ASSUME NEW l \in Logs, NEW j \in JobIds, ReconcileAdd(l, j)
      PROVE  RowShape /\ JobShape
  <2>1. /\ UNCHANGED <<logs, runs, schedule, trig, rep, res>>
        /\ rec'.todo = rec.todo /\ l \in rec.todo /\ LogOf(j) = l
        /\ \A k \in JobIds : k # j => jobs'[k] = jobs[k]
    BY <1>0, <1>5 DEF ReconcileAdd, RecType, FreshId
  <2>2. \A k \in JobIds : Live(k)' /\ ~Live(k) => Promised(LogOf(k))
    BY <2>1 DEF Live, OriginInv, Announced
  <2> QED BY <1>1, <2>1, <2>2
<1>6. ASSUME NEW l \in Logs, ReconcileAddFails(l) PROVE RowShape /\ JobShape
  <2>1. UNCHANGED <<logs, jobs, runs, schedule, trig, rep, res>> /\ rec' = AfterLog(l)
    BY <1>6 DEF ReconcileAddFails
  <2> QED BY <1>1, <1>3, <2>1 DEF Live
<1>7. CASE ReconcileMark
  <2>1. UNCHANGED <<jobs, runs, schedule, trig, rep, res>> /\ rec' = AfterLog(rec.log)
    BY <1>7 DEF ReconcileMark
  <2>2. \A l \in Logs : logs'[l].status = logs[l].status /\ logs'[l].today = logs[l].today
    BY <1>0, <1>7 DEF ReconcileMark, SetReason, RowType
  <2> QED BY <1>0, <1>1, <1>3, <1>7, <2>1, <2>2 DEF ReconcileMark, Live
<1>8. CASE ReconcileMarkFails
  <2>1. UNCHANGED <<logs, jobs, runs, schedule, trig, rep, res>> /\ rec' = AfterLog(rec.log)
    BY <1>8 DEF ReconcileMarkFails
  <2> QED BY <1>0, <1>1, <1>3, <1>8, <2>1 DEF ReconcileMarkFails, Live
<1> QED BY <1>4, <1>5, <1>6, <1>7, <1>8 DEF ReconcileStep

\* A repair creates the row first, or enqueues for a row it has found pending.
LEMMA RepairOrigin ==
  ASSUME TypeOK, OriginInv, (\E r \in Runs : RepairRead(r)) \/ RepairStep
  PROVE  RowShape /\ JobShape
<1> USE Identifiers DEF tables, session, redisKeys, producers
<1>0. /\ jobs \in [JobIds -> JobType] /\ logs \in [Logs -> RowType] /\ rep \in RepType
      /\ rep.pc \in {"readd", "mark"} => rep.log \in Logs
      /\ rep.pc \in {"create", "enqueue"} => rep.group \in Groups
      /\ rep.run \in Runs /\ runs \in 0 .. MaxRuns
  BY DEF TypeOK, RepType
<1>i. RepIdle.pc = "idle" /\ RepIdle \in RepType
  BY IdleTypes DEF RepIdle
<1>1. ASSUME UNCHANGED <<runs, schedule, trig, rec, res>>, RowShape,
             rep'.pc # "idle" => rep'.run <= runs,
             \A l \in Logs : rep'.pc = "enqueue" /\ l = <<rep'.run, rep'.group>>
                               => Promised(l)',
             \A l \in Logs : rep'.pc = "readd" /\ l = rep'.log => Promised(l)',
             \A j \in JobIds : Live(j)' /\ ~Live(j) => Promised(LogOf(j))
      PROVE  RowShape /\ JobShape
  <2>1. \A l \in Logs : Announced(l)' /\ ~Announced(l) => Promised(l)'
    BY <1>1 DEF Announced, AboutToEnqueue, Fans
  <2> QED BY <1>1, <2>1 DEF JobShape, OriginInv
<1>2. ASSUME UNCHANGED <<runs, schedule, logs, trig, rec, res>>,
             rep'.pc # "idle" => rep'.run <= runs, rep'.pc \notin {"enqueue", "readd"},
             \A j \in JobIds : Live(j)' /\ ~Live(j) => Promised(LogOf(j))
      PROVE  RowShape /\ JobShape
  <2>1. RowShape
    BY <1>2, KeptRows
  <2> QED BY <1>1, <1>2, <2>1
<1>3. ASSUME NEW g
      PROVE  /\ AfterGroup(g).pc \in {"idle", "loop"}
             /\ AfterGroup(g).pc # "idle" => AfterGroup(g).run = rep.run
  BY <1>0, <1>i DEF AfterGroup, RepType
<1>4. rep.pc # "idle" => rep.run <= runs
  BY DEF OriginInv
<1>5. ASSUME NEW r \in Runs, RepairRead(r) PROVE RowShape /\ JobShape
  <2>1. UNCHANGED <<runs, schedule, logs, jobs, trig, rec, res>>
    BY <1>5 DEF RepairRead
  <2>2. rep'.pc = "survey" /\ rep'.run = r
    BY <1>5, <1>i DEF RepairRead, RepType
  <2>3. r <= runs
    <3>1. PICK g \in Groups : Exists(<<r, g>>)
      BY <1>5 DEF RepairRead, RowsOf
    <3> QED BY <3>1 DEF OriginInv
  <2> QED BY <1>2, <2>1, <2>2, <2>3 DEF Live
<1>6. CASE RepairSurvey \/ RepairFilter \/ RepairFails
  <2>1. UNCHANGED <<runs, schedule, logs, jobs, trig, rec, res>> /\ rep.pc # "idle"
    BY <1>6 DEF RepairSurvey, RepairFilter, RepairFails
  <2>2. \A pc, missing : /\ Surveyed(pc, missing).pc \in {"idle", pc}
                         /\ Surveyed(pc, missing).pc # "idle"
                               => Surveyed(pc, missing).run = rep.run
    BY <1>0, <1>i DEF Surveyed, RepType
  <2>3. /\ rep'.pc \in {"idle", "filter", "loop"}
        /\ rep'.pc # "idle" => rep'.run = rep.run
    BY <1>3, <1>6, <2>2 DEF RepairSurvey, RepairFilter, RepairFails
  <2> QED BY <1>2, <1>4, <2>1, <2>3 DEF Live
<1>7. ASSUME NEW g \in Groups, RepairLookup(g) PROVE RowShape /\ JobShape
  <2>1. UNCHANGED <<runs, schedule, logs, jobs, trig, rec, res>> /\ rep.pc = "loop"
    BY <1>7 DEF RepairLookup
  <2>2. RowShape
    BY <2>1, KeptRows
  <2>3. \/ rep'.pc = "create" /\ rep'.run = rep.run
        \/ \E l \in Logs : /\ Pending(l) /\ rep'.pc = "readd"
                           /\ rep'.run = rep.run /\ rep'.log = l
        \/ rep' = AfterGroup(g)
    BY <1>0, <1>7, <2>1 DEF RepairLookup, RepType, PendingRows
  <2>4. \A l \in Logs : Pending(l) => Promised(l)'
    BY <2>2 DEF Pending, Promised, Exists, OriginInv, RowShape
  <2> QED BY <1>1, <1>3, <1>4, <2>1, <2>2, <2>3, <2>4 DEF Live
<1>8. CASE RepairReadd
  <2>1. /\ UNCHANGED <<runs, schedule, logs, trig, rec, res>> /\ rep.pc = "readd"
        /\ jobs' = WithOriginal(jobs, rep.log, rep.text)
    BY <1>8 DEF RepairReadd
  <2>2. rep'.pc = "mark" /\ rep'.run = rep.run
    BY <1>0, <1>8, <2>1 DEF RepairReadd, RepType
  <2>3. Promised(rep.log)
    BY <1>0, <2>1 DEF OriginInv, Announced, AboutToEnqueue
  <2>4. \A j \in JobIds : Live(j)' /\ ~Live(j) => Promised(LogOf(j))
    BY <1>0, <2>1, <2>3, OriginalOrigin
  <2> QED BY <1>2, <1>4, <2>1, <2>2, <2>4
<1>9. CASE RepairMark
  <2>1. /\ UNCHANGED <<runs, schedule, jobs, trig, rec, res>> /\ rep.pc = "mark"
        /\ rep' = AfterGroup(rep.group)
    BY <1>9 DEF RepairMark
  <2>2. \A l \in Logs : logs'[l].status = logs[l].status /\ logs'[l].today = logs[l].today
    BY <1>0, <1>9 DEF RepairMark, SetReason, RowType
  <2>3. RowShape
    BY <2>1, <2>2, KeptRows
  <2> QED BY <1>1, <1>3, <1>4, <2>1, <2>3 DEF Live
<1>10. CASE RepairCreate
  <2> DEFINE new == <<rep.run, rep.group>>
  <2>1. /\ UNCHANGED <<runs, schedule, jobs, trig, rec, res>> /\ rep.pc = "create"
        /\ ~Exists(new) /\ schedule.status # "deleted"
        /\ logs' = [logs EXCEPT ![new] = NewRow("retry")]
    BY <1>10 DEF RepairCreate, RowCreatable
  <2>2. new \in Logs /\ new[1] = rep.run
    BY <1>0, <2>1
  <2>3. rep'.pc = "enqueue" /\ rep'.run = rep.run /\ rep'.group = rep.group
    BY <1>0, <1>10, <2>1 DEF RepairCreate, RepType
  <2>4. NewRow("retry").status = "pending"
    BY DEF NewRow
  <2>5. logs'[new].status = "pending" /\ \A l \in Logs : l # new => logs'[l] = logs[l]
    BY <1>0, <2>1, <2>2, <2>4
  <2>6. RowShape
    BY <1>4, <2>1, <2>2, <2>5 DEF RowShape, Promised, Exists, CountedToday
  <2>7. \A l \in Logs : l = <<rep'.run, rep'.group>> => Promised(l)'
    BY <1>4, <2>1, <2>2, <2>3, <2>5 DEF Promised, Exists
  <2> QED BY <1>1, <1>4, <2>1, <2>3, <2>6, <2>7 DEF Live
<1>11. CASE RepairEnqueue
  <2>1. /\ UNCHANGED <<runs, schedule, logs, trig, rec, res>> /\ rep.pc = "enqueue"
        /\ jobs' = WithOriginal(jobs, <<rep.run, rep.group>>, rep.text)
        /\ rep' = AfterGroup(rep.group)
    BY <1>11 DEF RepairEnqueue
  <2>2. Promised(<<rep.run, rep.group>>)
    BY <1>0, <2>1 DEF OriginInv, Announced, AboutToEnqueue
  <2>3. \A j \in JobIds : Live(j)' /\ ~Live(j) => Promised(LogOf(j))
    BY <1>0, <2>1, <2>2, OriginalOrigin
  <2> QED BY <1>2, <1>3, <1>4, <2>1, <2>3
<1> QED
  BY <1>5, <1>6, <1>7, <1>8, <1>9, <1>10, <1>11 DEF RepairStep

\* A manual resend enqueues for the row it has created.
LEMMA ResendOrigin ==
  ASSUME TypeOK, OriginInv, (\E l \in Logs : ResendRead(l)) \/ ResendStep
  PROVE  RowShape /\ JobShape
<1> USE Identifiers DEF tables, session, redisKeys, producers
<1>0. /\ jobs \in [JobIds -> JobType] /\ logs \in [Logs -> RowType] /\ res \in ResType
      /\ res.pc # "idle" => res.log \in Logs /\ res.log[2] \in Groups
      /\ res.run \in Runs /\ runs \in 0 .. MaxRuns
  BY DEF TypeOK, ResType
<1>i. ResIdle.pc = "idle" /\ ResIdle \in ResType
  BY IdleTypes DEF ResIdle
<1>1. ASSUME UNCHANGED <<runs, schedule, trig, rec, rep>>,
             \A l \in Logs : logs'[l].status = logs[l].status /\ logs'[l].today = logs[l].today,
             res'.pc # "add",
             \A j \in JobIds : Live(j)' /\ ~Live(j) => Promised(LogOf(j))
      PROVE  RowShape /\ JobShape
  <2>1. RowShape
    BY <1>1, KeptRows
  <2>2. \A l \in Logs : Announced(l)' => Announced(l)
    BY <1>1 DEF Announced, AboutToEnqueue, Fans
  <2> QED BY <1>1, <2>1, <2>2 DEF JobShape, OriginInv
<1>2. CASE (\E l \in Logs : ResendRead(l)) \/ ResendFails
  <2>1. UNCHANGED <<runs, schedule, logs, jobs, trig, rec, rep>> /\ res'.pc \in {"create", "idle"}
    BY <1>i, <1>2 DEF ResendRead, ResendFails, ResType
  <2> QED BY <1>1, <2>1 DEF Live
<1>3. CASE ResendCreate
  <2> DEFINE new == <<runs + 1, res.log[2]>>
  <2>1. /\ UNCHANGED <<schedule, jobs, trig, rec, rep>> /\ runs < MaxRuns
        /\ runs' = runs + 1 /\ res.pc = "create"
        /\ logs' = [logs EXCEPT ![new] = NewRow("null")]
    BY <1>3 DEF ResendCreate
  <2>2. runs + 1 \in Runs
    BY <1>0, <2>1, BoundsAssumption DEF Runs
  <2>3. new \in Logs /\ new[1] = runs + 1
    BY <1>0, <2>1, <2>2
  <2>4. NewRow("null").status = "pending"
    BY DEF NewRow
  <2>5. logs'[new].status = "pending" /\ \A l \in Logs : l # new => logs'[l] = logs[l]
    BY <1>0, <2>1, <2>3, <2>4
  <2>6. \A l \in Logs : l[1] \in Nat
    <3>1. Runs \subseteq Nat
      BY BoundsAssumption DEF Runs
    <3> QED BY <3>1
  <2>7. RowShape
    BY <1>0, <2>1, <2>3, <2>5, <2>6 DEF RowShape, Promised, Exists, CountedToday
  <2>8. res'.pc = "add" /\ res'.run = runs + 1 /\ res'.log = res.log
    BY <1>0, <1>3, <2>1, <2>2 DEF ResendCreate, ResType
  <2>9. \A l \in Logs : Announced(l)' /\ ~Announced(l) => l = new
    BY <2>1, <2>8 DEF Announced, AboutToEnqueue, Fans
  <2>10. rep'.pc # "idle" => rep'.run <= runs'
    <3>1. rep.run \in Nat
      BY DEF TypeOK, RepType, Runs
    <3> QED BY <1>0, <2>1, <3>1 DEF OriginInv
  <2>11. \A l \in Logs : Announced(l)' /\ ~Announced(l) => Promised(l)'
    BY <1>0, <2>1, <2>3, <2>5, <2>9 DEF Promised, Exists
  <2> QED BY <2>1, <2>7, <2>10, <2>11 DEF JobShape, OriginInv, Live
<1>4. CASE ResendAdd
  <2>1. /\ UNCHANGED <<runs, schedule, logs, trig, rec, rep>> /\ res.pc = "add"
        /\ jobs' = WithOriginal(jobs, <<res.run, res.log[2]>>, res.text)
    BY <1>4 DEF ResendAdd
  <2>2. res'.pc = "mark"
    BY <1>0, <1>4, <2>1 DEF ResendAdd, ResType
  <2>3. Promised(<<res.run, res.log[2]>>)
    BY <1>0, <2>1 DEF OriginInv, Announced, AboutToEnqueue
  <2>4. \A j \in JobIds : Live(j)' /\ ~Live(j) => Promised(LogOf(j))
    BY <1>0, <2>1, <2>3, OriginalOrigin
  <2> QED BY <1>1, <2>1, <2>2, <2>4
<1>5. CASE ResendMark
  <2>1. UNCHANGED <<runs, schedule, jobs, trig, rec, rep>> /\ res'.pc = "idle"
    BY <1>i, <1>5 DEF ResendMark
  <2>2. \A l \in Logs : logs'[l].status = logs[l].status /\ logs'[l].today = logs[l].today
    BY <1>0, <1>5 DEF ResendMark, SetReason, RowType
  <2> QED BY <1>1, <2>1, <2>2 DEF Live
<1> QED BY <1>2, <1>3, <1>4, <1>5 DEF ResendStep

\* Deleting the schedule takes no promise back; nothing outside the program
\* makes rows or jobs.
LEMMA OutsideOrigin ==
  ASSUME TypeOK, OriginInv, EditStep \/ EnvironmentStep
  PROVE  RowShape /\ JobShape
<1> USE DEF SetSchedule, tables, session, redisKeys, producers
<1>0. /\ logs \in [Logs -> RowType] /\ jobs \in [JobIds -> JobType]
      /\ schedule \in [status : {"active", "paused", "deleted"}, links : SUBSET Groups,
                       text : Texts]
  BY DEF TypeOK
<1>1. ASSUME UNCHANGED <<logs, jobs, runs, trig, rec, rep, res>>,
             schedule.status # "deleted", schedule'.status # "deleted"
      PROVE  RowShape /\ JobShape
  <2>1. RowShape
    BY <1>1 DEF RowShape, Promised, Exists, CountedToday
  <2> QED BY <1>1, <2>1, QuietProducers DEF Live
<1>2. CASE Pause \/ Resume \/ EditText \/ Link
  <2>1. UNCHANGED <<logs, jobs, runs, trig, rec, rep, res>>
    BY <1>2 DEF Pause, Resume, EditText, Link
  <2>2. schedule.status # "deleted" /\ schedule'.status # "deleted"
    BY <1>0, <1>2 DEF Pause, Resume, EditText, Link
  <2> QED BY <1>1, <2>1, <2>2
<1>3. CASE Unlink
  <2>1. UNCHANGED <<logs, jobs, runs, trig, rec, rep, res>>
    BY <1>3 DEF Unlink
  <2>2. schedule'.status = schedule.status
    BY <1>0, <1>3 DEF Unlink
  <2>3. RowShape
    BY <2>1, <2>2, KeptRows
  <2> QED BY <2>1, <2>3, QuietProducers DEF Live
<1>4. CASE Delete
  <2>1. UNCHANGED <<jobs, runs, trig, rec, rep, res>>
    BY <1>4 DEF Delete
  <2>2. schedule'.status = "deleted" /\ \A l \in Logs : logs'[l] = NoRow
    BY <1>0, <1>4 DEF Delete
  <2>3. NoRow.status = "absent"
    BY DEF NoRow
  <2>4. RowShape
    BY <2>1, <2>2, <2>3 DEF RowShape, Promised, Exists, CountedToday
  <2> QED BY <2>1, <2>4, QuietProducers DEF Live
<1>5. CASE LockExpires \/ CooldownLapses \/ Disconnect \/ Connect
  <2>1. UNCHANGED <<logs, jobs, runs, schedule, trig, rec, rep, res>>
    BY <1>5 DEF LockExpires, CooldownLapses, Disconnect, Connect
  <2> QED BY <2>1, KeptRows, QuietProducers DEF Live
<1>6. CASE Midnight \/ \E l \in Logs : Age(l)
  <2>1. UNCHANGED <<jobs, runs, schedule, trig, rec, rep, res>>
    BY <1>6 DEF Midnight, Age
  <2>2. \A l \in Logs : /\ logs'[l].status = logs[l].status
                        /\ logs'[l].today => logs[l].today
    BY <1>0, <1>6 DEF Midnight, Age, RowType
  <2> QED BY <2>1, <2>2, KeptRows, QuietProducers DEF Live
<1>7. CASE Crash
  <2>1. UNCHANGED <<logs, runs, schedule>>
    BY <1>7 DEF Crash
  <2>2. /\ TrigIdle.pc = "idle" /\ RecIdle.todo = {} /\ RepIdle.pc = "idle"
        /\ ResIdle.pc = "idle"
    BY DEF TrigIdle, RecIdle, RepIdle, ResIdle
  <2>3. /\ trig'.pc = "idle" /\ rec'.todo = {} /\ rep'.pc = "idle" /\ res'.pc = "idle"
    BY <1>7, <2>2 DEF Crash
  <2>4. \A j \in JobIds : Live(j)' => Live(j)
    <3>1. \A j \in JobIds : jobs'[j] = jobs[j] \/ Active(j)
      BY <1>0, <1>7 DEF Crash
    <3> QED BY <3>1 DEF Active, Live, WorkerSteps
  <2>5. \A l \in Logs : ~Announced(l)'
    BY <2>3 DEF Announced, AboutToEnqueue
  <2>6. RowShape
    BY <2>1, KeptRows
  <2> QED BY <2>3, <2>4, <2>5, <2>6 DEF JobShape
<1> QED
  BY <1>2, <1>3, <1>4, <1>5, <1>6, <1>7 DEF EditStep, EnvironmentStep

\* Every step has both shapes.
LEMMA StepOrigin == TypeOK /\ OriginInv /\ [Next]_vars => RowShape /\ JobShape
<1> SUFFICES ASSUME TypeOK, OriginInv, [Next]_vars PROVE RowShape /\ JobShape
  OBVIOUS
<1>1. CASE UNCHANGED vars
  BY <1>1, KeptRows, QuietProducers DEF vars, Live
<1>2. CASE Next
  BY <1>2, WorkerOrigin, TriggerOrigin, ReconcileOrigin, RepairOrigin, ResendOrigin,
     OutsideOrigin DEF Next, UserStep, TimerStep
<1> QED BY <1>1, <1>2

----------------------------------------------------------------------------
(* The theorems *)

\* Nothing is delivered or enqueued for a log whose row was never created:
\* at every fan-out, repair and resend the row comes first.
THEOREM RowsComeFirst == Spec => []OriginInv
<1>1. Init => OriginInv
  <2> SUFFICES ASSUME Init PROVE OriginInv
    OBVIOUS
  <2>1. /\ \A l \in Logs : logs[l].status = "absent" /\ copies[l] = 0
        /\ \A j \in JobIds : jobs[j].pc = "free"
        /\ trig.pc = "idle" /\ rec.todo = {} /\ rep.pc = "idle" /\ res.pc = "idle"
    BY DEF Init, NoRow, NoJob, TrigIdle, RecIdle, RepIdle, ResIdle
  <2> QED BY <2>1 DEF OriginInv, Exists, Live, Announced, AboutToEnqueue
<1>2. TypeOK /\ OriginInv /\ [Next]_vars => OriginInv'
  <2> SUFFICES ASSUME TypeOK, OriginInv, [Next]_vars PROVE OriginInv'
    OBVIOUS
  <2>1. RowShape /\ JobShape /\ DeliveryShape
    BY StepOrigin, StepShape DEF Shape
  <2>2. ASSUME NEW l \in Logs, Exists(l)' PROVE l[1] <= runs'
    BY <2>1, <2>2 DEF RowShape, OriginInv, Promised
  <2>3. ASSUME NEW l \in Logs, copies'[l] > 0 PROVE Promised(l)'
    BY <2>1, <2>3 DEF RowShape, DeliveryShape, OriginInv, Live
  <2>4. ASSUME NEW j \in JobIds, Live(j)' PROVE Promised(LogOf(j))'
    BY <2>1, <2>4, Identifiers DEF RowShape, JobShape, OriginInv
  <2>5. ASSUME NEW l \in Logs, Announced(l)' PROVE Promised(l)'
    BY <2>1, <2>5 DEF RowShape, JobShape, OriginInv
  <2> QED BY <2>1, <2>2, <2>3, <2>4, <2>5 DEF OriginInv, JobShape
<1> QED BY <1>1, <1>2, TypeCorrect, PTL DEF Spec

\* The tables are finite.
LEMMA FiniteLogs == ASSUME NEW S, S \subseteq Logs PROVE IsFiniteSet(S)
<1>1. IsFiniteSet(Runs)
  BY BoundsAssumption, FS_Interval DEF Runs
<1>2. IsFiniteSet(Logs)
  BY <1>1, GroupsAssumption, FS_Product DEF Logs
<1> QED BY <1>2, FS_Subset

\* A step uses no more of the day, or a job has just passed the cap check.
LEMMA UseShape ==
  ASSUME TypeOK, OriginInv, [Next]_vars
  PROVE  \/ UsedToday' \subseteq UsedToday
         \/ ~OverCap /\ UsedToday' \subseteq CountedToday
<1>1. RowShape /\ DeliveryShape /\ PassageShape
  BY StepOrigin, StepShape DEF Shape
<1>2. CASE \E j \in JobIds : jobs'[j].pc = "lock" /\ jobs[j].pc # "lock"
  <2>1. ~OverCap /\ logs' = logs
    BY <1>1, <1>2 DEF PassageShape
  <2>2. CountedToday' = CountedToday
    BY <2>1 DEF CountedToday, Exists
  <2> QED BY <2>1, <2>2 DEF UsedToday
<1>3. CASE \A j \in JobIds : jobs'[j].pc = "lock" => jobs[j].pc = "lock"
  <2>1. ASSUME NEW j \in JobIds, PastCap(j)' PROVE PastCap(j)
    BY <1>1, <1>3, <2>1 DEF PastCap, PassageShape, DeliveryShape
  <2>2. ASSUME NEW l \in Logs, copies'[l] > 0
        PROVE  copies[l] > 0 \/ \E j \in JobIds : LogOf(j) = l /\ PastCap(j)
    BY <1>1, <2>2 DEF PastCap, DeliveryShape
  <2>3. ASSUME NEW l \in UsedToday' PROVE l \in UsedToday
    <3>1. /\ l \in Logs /\ l \in CountedToday'
          /\ copies[l] > 0 \/ \E j \in JobIds : LogOf(j) = l /\ PastCap(j)
      BY <2>1, <2>2, <2>3 DEF UsedToday, CountedToday
    <3>2. Promised(l)
      BY <3>1 DEF OriginInv, PastCap, Live
    <3>3. l \in CountedToday
      BY <1>1, <3>1, <3>2 DEF RowShape
    <3> QED BY <3>1, <3>3 DEF UsedToday
  <2> QED BY <2>3
<1> QED BY <1>2, <1>3

\* However many jobs pass the cap check together, and whatever fails or
\* crashes after it, the day's messages that went out or may still go out of
\* rows of that day never exceed the cap.
THEOREM CapSafe == Spec => []CapHolds
<1>1. Init => CapHolds
  <2> SUFFICES ASSUME Init PROVE CapHolds
    OBVIOUS
  <2>1. UsedToday = {}
    BY DEF Init, UsedToday, CountedToday, Exists, NoRow
  <2> QED BY <2>1, FS_EmptySet, BoundsAssumption DEF CapHolds
<1>2. TypeOK /\ OriginInv /\ CapHolds /\ [Next]_vars => CapHolds'
  <2> SUFFICES ASSUME TypeOK, OriginInv, CapHolds, [Next]_vars
               PROVE  Cardinality(UsedToday') <= DailyCap
    BY DEF CapHolds
  <2>1. PICK S \in {UsedToday, CountedToday} :
           UsedToday' \subseteq S /\ Cardinality(S) <= DailyCap
    <3>1. Cardinality(CountedToday) \in Nat
      BY FiniteLogs, FS_CardinalityType DEF CountedToday
    <3>2. ~OverCap => Cardinality(CountedToday) <= DailyCap
      BY <3>1, BoundsAssumption DEF OverCap
    <3> QED BY <3>2, UseShape DEF CapHolds
  <2>2. IsFiniteSet(S) /\ IsFiniteSet(UsedToday')
    BY FiniteLogs DEF UsedToday, CountedToday
  <2>3. /\ Cardinality(UsedToday') \in Nat /\ Cardinality(S) \in Nat
        /\ Cardinality(UsedToday') <= Cardinality(S)
    BY <2>1, <2>2, FS_Subset, FS_CardinalityType
  <2> QED BY <2>1, <2>3, BoundsAssumption
<1> QED BY <1>1, <1>2, TypeCorrect, RowsComeFirst, PTL DEF Spec
=============================================================================
