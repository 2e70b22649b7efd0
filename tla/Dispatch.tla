------------------------------ MODULE Dispatch ------------------------------
(***************************************************************************)
(* The dispatch pipeline of one tenant with one schedule: the composition  *)
(* of the trigger worker, the send workers, the two recovery loops, the    *)
(* manual resend and the schedule's editor, with the environment they run  *)
(* in: time, the WhatsApp connection, Redis TTLs and process crashes.      *)
(***************************************************************************)
EXTENDS SendWorker, TriggerWorker, PendingReconcile, RunCompleteness,
        ManualResend, ScheduleEdits

----------------------------------------------------------------------------
(* Environment *)

\* The lock key's TTL: it always frees the key of a dead owner, and with
\* "expiry" also the key of an owner that is still at work.
LockExpires ==
    /\ lock = LostHolder \/ (lock # None /\ "expiry" \in Faults)
    /\ lock' = None
    /\ UNCHANGED <<tables, session, cooldown, jobs, producers>>

CooldownLapses ==
    /\ cooldown /\ cooldown' = FALSE
    /\ UNCHANGED <<tables, session, lock, jobs, producers>>

Disconnect ==
    /\ "connection" \in Stimuli /\ connected /\ connected' = FALSE
    /\ UNCHANGED <<tables, copies, redisKeys, jobs, producers>>

Connect ==
    /\ ~connected /\ connected' = TRUE
    /\ UNCHANGED <<tables, copies, redisKeys, jobs, producers>>

Age(l) ==
    /\ "age" \in Stimuli /\ Pending(l) /\ ~logs[l].stale
    /\ logs' = [logs EXCEPT ![l].stale = TRUE]
    /\ UNCHANGED <<schedule, runs, runText, session, redisKeys, jobs, producers>>

\* Midnight in the tenant's timezone.
Midnight ==
    /\ "midnight" \in Stimuli /\ CountedToday # {}
    /\ logs' = [l \in Logs |-> [logs[l] EXCEPT !.today = FALSE]]
    /\ UNCHANGED <<schedule, runs, runText, session, redisKeys, jobs, producers>>

\* The process dies and comes back: Redis and Postgres keep their state, the
\* jobs it was running are found stalled and run again, or are dropped when
\* they have stalled too often.
AfterStall(job) ==
    IF job.stalls < MaxStalled
    THEN [job EXCEPT !.pc = "queued", !.stalls = @ + 1]
    ELSE NoJob

Crash ==
    /\ "crash" \in Faults
    /\ jobs' = [j \in JobIds |-> IF Active(j) THEN AfterStall(jobs[j]) ELSE jobs[j]]
    /\ lock' = IF lock = None THEN None ELSE LostHolder
    /\ connected' = FALSE
    /\ trig' = TrigIdle /\ rec' = RecIdle /\ rep' = RepIdle /\ res' = ResIdle
    /\ UNCHANGED <<tables, copies, cooldown>>

----------------------------------------------------------------------------
(* Specification *)

UserStep == TriggerRead \/ (\E l \in Logs : ResendRead(l)) \/ EditStep

TimerStep == ReconcileScan \/ \E r \in Runs : RepairRead(r)

EnvironmentStep ==
    \/ LockExpires \/ CooldownLapses \/ Disconnect \/ Connect
    \/ (\E l \in Logs : Age(l)) \/ Midnight \/ Crash

Next ==
    \/ \E j \in JobIds : WorkerStep(j)
    \/ TriggerStep \/ ReconcileStep \/ RepairStep \/ ResendStep
    \/ UserStep \/ TimerStep \/ EnvironmentStep

Spec == Init /\ [][Next]_vars

\* What the runtime owes: a started handler runs on, the cron timer fires,
\* the WhatsApp client reconnects, keys reach their TTL.  Strong fairness, per
\* log, where a step competes with others again and again: for a worker slot
\* (BullMQ is first in, first out), for the lock (polled at random moments),
\* and against sends that fail.
TakeFor(l)     == \E j \in JobIds : LogOf(j) = l /\ Take(j)
AcquireFor(l)  == \E j \in JobIds : LogOf(j) = l /\ Acquire(j)
DeliverFor(l)  == \E j \in JobIds : LogOf(j) = l /\ Deliver(j)
RecoveryFor(l) == \E j \in JobIds : ReconcileAdd(l, j)

Fairness ==
    /\ \A j \in JobIds : WF_vars(WorkerStep(j))
    /\ \A l \in Logs : /\ SF_vars(TakeFor(l)) /\ SF_vars(AcquireFor(l))
                       /\ SF_vars(DeliverFor(l)) /\ WF_vars(Age(l))
    /\ WF_vars(TriggerStep) /\ WF_vars(ReconcileStep \/ ReconcileScan)
    /\ WF_vars(RepairStep) /\ WF_vars(ResendStep)
    /\ WF_vars(LockExpires) /\ WF_vars(CooldownLapses) /\ WF_vars(Connect)

FairSpec == Spec /\ Fairness

\* As FairSpec, with a queue that is down only now and then.
RecoverySpec == FairSpec /\ \A l \in Logs : SF_vars(RecoveryFor(l))

----------------------------------------------------------------------------
(* Safety *)

\* A log says "sent" only when its message went out to the group: no
\* interleaving of the worker, its catch blocks, a crash and the recovery
\* loops hides a lost message behind a success.
SentWasDelivered ==
    \A l \in Logs : logs[l].status = "sent" => copies[l] > 0

\* A log's message goes out to its group at most once.  The status is checked
\* at the start of process(), long before the delivery, so this rests on there
\* being one job at a time that can still send for the log.
AtMostOnce == \A l \in Logs : copies[l] <= 1

\* Two jobs of the tenant are never both between taking the send lock and the
\* end of their send: crashes, releases that fail and releases by jobs that
\* never owned the lock included.  The premise is that the key does not expire
\* under its owner ("expiry" is not admitted): the settings of .env.example keep
\* a hold within the TTL of 30 s, the default jitter of up to 60 s does not. When
\* a hold is short enough is what TenantLock is about.
Sending(j) == jobs[j].pc \in {"send", "mark"}
ExclusiveSender == \A j, k \in JobIds : Sending(j) /\ Sending(k) => j = k

\* The messages of today's rows that went out, even in part, or are past the
\* daily-cap check never exceed the cap: pending rows count before they are
\* sent, so jobs that pass the check together cannot overshoot it, and a
\* crash or a failed update after a delivery does not lose the count.
PastCap(j) == jobs[j].pc \in {"lock", "send", "mark"}
UsedToday ==
    {l \in CountedToday : copies[l] > 0 \/ \E j \in JobIds : LogOf(j) = l /\ PastCap(j)}
CapHolds == Cardinality(UsedToday) <= DailyCap

\* Every pending row is still on its way: a live job carries it, the process
\* that wrote it is about to enqueue it, or a reconcile pass may requeue it
\* once it is old enough.
Carried(l) == \E j \in JobIds : LogOf(j) = l /\ Live(j)
AboutToEnqueue(l) ==
    \/ trig.pc \in {"bulk", "fallback", "mark"} /\ l \in Fans(trig.run, trig.links)
    \/ rep.pc = "enqueue" /\ l = <<rep.run, rep.group>>
    \/ rep.pc = "readd" /\ l = rep.log
    \/ res.pc = "add" /\ l = <<res.run, res.log[2]>>
Recoverable(l) == logs[l].reason \notin {"null", "stale_pending_requeued"}
NeverStranded ==
    \A l \in Logs : Pending(l) => Carried(l) \/ AboutToEnqueue(l) \/ Recoverable(l)

\* A row that says "sent" never changes its status again.
SentIsFinal ==
    [][\A l \in Logs : logs[l].status = "sent" => logs'[l].status = "sent"]_vars

\* A log never has two live jobs, except for one that has just handed it over
\* to a retry and is about to end: a failed send, a lock timeout, a lost connection
\* and the cap each put a log off by a job with an id of its own, and BullMQ must
\* not run the old one again.  The recovery loops are not part of it: their add
\* does not meet a job that waits under such an id.
Ending(j) == jobs[j].pc \in {"done", "throw"}
RequeuedOnce ==
    \A j, k \in JobIds :
        /\ LogOf(j) = LogOf(k)
        /\ Live(j) /\ Live(k) /\ ~Ending(j) /\ ~Ending(k)
        => j = k

\* A job carries the text its run was fanned out with, however the schedule is
\* edited while the run is on its way: "schedules in flight at the moment of the
\* edit complete with the previous message". The recovery loops, which requeue
\* with the text of now, are not part of it.
RunKeepsText == \A j \in JobIds : Live(j) => jobs[j].text = runText[LogOf(j)[1]]

----------------------------------------------------------------------------
(* Liveness *)

\* Once the WhatsApp session stays connected and the schedule is not paused for
\* good, every pending message is sent in the end (or its row deleted).
Operating == connected /\ schedule.status # "paused"
EventuallySettled == <>[]Operating => \A l \in Logs : Pending(l) ~> ~Pending(l)

\* The daily cap lets messages through up to its limit: once a run exists, some
\* message is sent.  In an instance without midnight this speaks of one day: the
\* rows of yesterday leave the count, so that "never" means "not that day".
CapLetsThrough == [](runs > 0 => <>(\E l \in Logs : logs[l].status = "sent"))

----------------------------------------------------------------------------
(* Refinement: without a stale row being requeued, an addBulk that fails    *)
(* after it was applied, a crash, a database error after a delivery or a    *)
(* delivery in part, the pipeline is an outbox.                             *)

Phase(l) ==
    IF ~Exists(l) THEN "none"
    ELSE IF Pending(l) THEN (IF copies[l] = 0 THEN "owed" ELSE "out")
    ELSE "sent"

Ob == INSTANCE Outbox WITH Messages <- Logs,
                           phase <- [l \in Logs |-> Phase(l)], copies <- copies

\* Every behaviour of the pipeline is one of the abstract outbox: a message
\* is promised with its run, goes out exactly once, and is then recorded.
ImplementsOutbox == Ob!Spec
=============================================================================
