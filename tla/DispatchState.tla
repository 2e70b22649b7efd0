--------------------------- MODULE DispatchState ---------------------------
(***************************************************************************)
(* The state the dispatch pipeline of one tenant shares: the MessageLog    *)
(* and Schedule tables (Postgres), the BullMQ message-send queue, the      *)
(* per-tenant send lock and disconnect cooldown (Redis), and the progress  *)
(* of each process that works on them.  Every other module of the family   *)
(* (SendWorker, TriggerWorker, PendingReconcile, RunCompleteness,          *)
(* ManualResend, ScheduleEdits) EXTENDS this one and adds the steps of one *)
(* source file; Dispatch composes them.                                    *)
(***************************************************************************)
EXTENDS Integers, FiniteSets

CONSTANTS
    Groups,       \* groups the schedule may be linked to
    MaxRuns,      \* bound: runIds allocated by fan-outs and manual resends
    MaxRequeues,  \* bound: live jobs per log beyond the one named after the log
    Attempts,     \* opts.attempts of every send job (3 in the code)
    MaxStalled,   \* BullMQ's maxStalledCount (default 1)
    Concurrency,  \* jobs the message-send worker runs at once (8 in the code)
    DailyCap,     \* DAILY_MESSAGE_CAP_PER_TENANT
    MaxText,      \* bound: versions of the schedule's message text
    Faults,       \* failures the instance admits, a subset of AllFaults
    Stimuli,      \* environment steps it admits, a subset of AllStimuli
    None,         \* no job, no log, no lock holder
    LostHolder    \* a lock value whose owner died or could not release it

Runs   == 1 .. MaxRuns
Logs   == Runs \X Groups                \* MessageLog rows: unique (runId, groupJid)
JobIds == Logs \X (0 .. MaxRequeues)    \* <<log, 0>> is the job whose jobId is the log id

AllFaults ==
    { "ack",        \* addBulk throws although Redis accepted the jobs
      "crash",      \* the backend process dies and restarts
      "database",   \* a Prisma call throws
      "enqueue",    \* a queue.add throws and adds nothing
      "expiry",     \* the send lock's TTL elapses while its owner still sends
      "lockbusy",   \* a job gives up waiting for the send lock
      "partial",    \* sendText throws after part of the message went out
      "redis",      \* a Redis call on the lock or the cooldown key throws
      "send" }      \* sendText throws although the session is connected

AllStimuli ==
    { "age",        \* a pending row gets older than PENDING_REQUEUE_AFTER_MS
      "connection", \* the WhatsApp session drops
      "delete", "edit", "midnight", "pause", "reconcile", "relink",
      "repair", "resend" }

ASSUME BoundsAssumption ==
    /\ MaxRuns \in Nat \ {0}
    /\ MaxRequeues \in Nat
    /\ Attempts \in Nat \ {0}
    /\ MaxStalled \in Nat
    /\ Concurrency \in Nat \ {0}
    /\ DailyCap \in Nat
    /\ MaxText \in Nat \ {0}

ASSUME SwitchAssumption == Faults \subseteq AllFaults /\ Stimuli \subseteq AllStimuli

ASSUME GroupsAssumption == IsFiniteSet(Groups)

ASSUME SentinelAssumption ==
    /\ None \notin JobIds /\ LostHolder \notin JobIds /\ None # LostHolder
    /\ None \notin Logs /\ None \notin Groups

VARIABLES
    logs,       \* Logs -> row of the MessageLog table
    jobs,       \* JobIds -> BullMQ job and the progress of the worker running it
    lock,       \* value of wa:lock:tenant:<id>: the job that set it
    cooldown,   \* wa:cooldown:tenant:<id>:disconnected exists
    connected,  \* WhatsAppService.getStatus(tenant) = "connected"
    schedule,   \* the Schedule row and its group links
    runs,       \* number of runIds allocated
    runText,    \* Runs -> text the run was started with (history variable)
    copies,     \* Logs -> deliveries to the group, saturating at 2
    trig, rec, rep, res   \* progress of the four producers of jobs

vars == <<logs, jobs, lock, cooldown, connected, schedule, runs, runText,
          copies, trig, rec, rep, res>>
tables    == <<logs, schedule, runs, runText>>
session   == <<connected, copies>>
redisKeys == <<lock, cooldown>>
producers == <<trig, rec, rep, res>>

(***************************************************************************)
(* Rows.  errorReason is kept as far as a query or an update tells its     *)
(* values apart: "null", the two markers, and "retry" for any other text.  *)
(***************************************************************************)
Reasons == {"null", "stale_pending_requeued", "requeued_manually", "retry"}

NoRow == [status |-> "absent", reason |-> "null", stale |-> FALSE, today |-> FALSE]

NewRow(reason) == [status |-> "pending", reason |-> reason, stale |-> FALSE, today |-> TRUE]

Exists(l)  == logs[l].status # "absent"
Pending(l) == logs[l].status = "pending"

\* Rows the daily-cap query counts: created today, sent or pending.
CountedToday == {l \in Logs : Exists(l) /\ logs[l].today}

SetReason(l, reason) == logs' = [logs EXCEPT ![l].reason = reason]

(***************************************************************************)
(* The BullMQ queue.  A job that is not "free" is live; one that is        *)
(* neither free nor queued (waiting, delayed) is active: a worker runs it. *)
(***************************************************************************)
WorkerSteps == {"check", "gate", "count", "lock", "send", "mark",
                "resched", "requeue", "done", "throw"}

NoJob == [pc |-> "free", attempts |-> 0, stalls |-> 0, text |-> 1]

NewJob(text) == [NoJob EXCEPT !.pc = "queued", !.text = text]

Live(j)   == jobs[j].pc # "free"
Active(j) == jobs[j].pc \in WorkerSteps

LogOf(j) == j[1]

\* add with jobId = log id: BullMQ ignores it while a job of that id is live.
WithOriginal(js, l, text) ==
    IF js[<<l, 0>>].pc = "free" THEN [js EXCEPT ![<<l, 0>>] = NewJob(text)] ELSE js

\* The unique jobId (`<log>-retry-<time>`, `<log>-reconcile-<time>`) the next
\* add for l gets: the lowest free slot, so that slots carry no history.
FreshId(j, l) ==
    /\ LogOf(j) = l /\ j[2] > 0 /\ ~Live(j)
    /\ \A k \in 1 .. MaxRequeues : k < j[2] => Live(<<l, k>>)

(***************************************************************************)
(* Progress of the producers.                                              *)
(***************************************************************************)
Texts == 1 .. MaxText

TrigIdle == [pc |-> "idle", run |-> 1, links |-> {}, todo |-> {}, failed |-> FALSE, text |-> 1]
RecIdle  == [pc |-> "idle", todo |-> {}, log |-> None, text |-> 1]
RepIdle  == [pc |-> "idle", run |-> 1, links |-> {}, missing |-> {},
             group |-> None, log |-> None, text |-> 1]
ResIdle  == [pc |-> "idle", log |-> None, run |-> 1, text |-> 1]

Init ==
    /\ logs = [l \in Logs |-> NoRow]
    /\ jobs = [j \in JobIds |-> NoJob]
    /\ lock = None
    /\ cooldown = FALSE
    /\ connected = TRUE
    /\ \E links \in SUBSET Groups \ {{}} :
          schedule = [status |-> "active", links |-> links, text |-> 1]
    /\ runs = 0
    /\ runText = [r \in Runs |-> 1]
    /\ copies = [l \in Logs |-> 0]
    /\ trig = TrigIdle /\ rec = RecIdle /\ rep = RepIdle /\ res = ResIdle

RowType  == [status : {"absent", "pending", "sent"}, reason : Reasons,
             stale : BOOLEAN, today : BOOLEAN]
JobType  == [pc : {"free", "queued"} \cup WorkerSteps, attempts : 0 .. Attempts - 1,
             stalls : 0 .. MaxStalled, text : Texts]
TrigType == [pc : {"idle", "create", "bulk", "fallback", "mark"}, run : Runs,
             links : SUBSET Groups, todo : SUBSET Groups, failed : BOOLEAN, text : Texts]
RecType  == [pc : {"idle", "loop"}, todo : SUBSET Logs, log : {None}, text : Texts]
            \cup [pc : {"mark"}, todo : SUBSET Logs, log : Logs, text : Texts]
RepType  == [pc : {"idle", "survey", "filter", "loop"}, run : Runs, links : SUBSET Groups,
             missing : SUBSET Groups, group : {None}, log : {None}, text : Texts]
            \cup [pc : {"create", "enqueue"}, run : Runs, links : SUBSET Groups,
                  missing : SUBSET Groups, group : Groups, log : {None}, text : Texts]
            \cup [pc : {"readd", "mark"}, run : Runs, links : SUBSET Groups,
                  missing : SUBSET Groups, group : Groups, log : Logs, text : Texts]
ResType  == [pc : {"idle"}, log : {None}, run : Runs, text : Texts]
            \cup [pc : {"create", "add", "mark"}, log : Logs, run : Runs, text : Texts]

\* Every variable stays within its type; a producer knows the log or group it
\* works on exactly while it works on one.
TypeOK ==
    /\ logs \in [Logs -> RowType]
    /\ jobs \in [JobIds -> JobType]
    /\ lock \in JobIds \cup {None, LostHolder}
    /\ cooldown \in BOOLEAN /\ connected \in BOOLEAN
    /\ schedule \in [status : {"active", "paused", "deleted"}, links : SUBSET Groups,
                     text : Texts]
    /\ runs \in 0 .. MaxRuns
    /\ runText \in [Runs -> Texts]
    /\ copies \in [Logs -> 0 .. 2]
    /\ trig \in TrigType /\ rec \in RecType /\ rep \in RepType /\ res \in ResType
=============================================================================
