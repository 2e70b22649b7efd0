----------------------------- MODULE SendWorker -----------------------------
(***************************************************************************)
(* MessageSendProcessor (schedules/message-send.processor.ts) and the      *)
(* gateway it sends through (schedules/wa-send.gateway.ts).  A job's pc is *)
(* the await its worker stands at:                                         *)
(*   check    read the log's status            count    daily-cap query    *)
(*   gate     cooldown and connection          lock     acquireLock        *)
(*   send     sendWithJitter                   mark     update to "sent"   *)
(*   resched  reschedulePending's update       requeue  its queue.add      *)
(*   done / throw   process returns / rejects, the finally has to run      *)
(***************************************************************************)
EXTENDS DispatchState

Goto(j, pc) == jobs' = [jobs EXCEPT ![j].pc = pc]

LastAttempt(j) == jobs[j].attempts + 1 >= Attempts

\* Mutant: the catch block logs the error and goes on to the update.
MarksAnyway(j) == "mark"

\* Where the catch blocks go: the last attempt reschedules, others rethrow.
AfterFailure(j) == IF LastAttempt(j) THEN "resched" ELSE "throw"

Take(j) ==
    /\ jobs[j].pc = "queued"
    /\ Cardinality({k \in JobIds : Active(k)}) < Concurrency
    /\ Goto(j, "check")
    /\ UNCHANGED <<tables, session, redisKeys, producers>>

\* Mutant: a job whose schedule is not active returns.
SkipsPaused(l) == IF Pending(l) /\ schedule.status = "active" THEN "gate" ELSE "done"

\* Mutant: the row's status is not looked at.
SendsAnyway(l) == "gate"

AfterCheck(l) == IF Pending(l) THEN "gate" ELSE "done"

CheckLog(j) ==
    /\ jobs[j].pc = "check"
    /\ Goto(j, AfterCheck(LogOf(j)))
    /\ UNCHANGED <<tables, session, redisKeys, producers>>

\* getDisconnectCooldownMs answers 0 when Redis fails.
CooldownAnswers == {cooldown} \cup (IF "redis" \in Faults THEN {FALSE} ELSE {})

Gate(j) ==
    /\ jobs[j].pc = "gate"
    /\ \E cooling \in CooldownAnswers :
          \/ /\ cooling
             /\ Goto(j, "resched") /\ UNCHANGED cooldown
          \/ /\ ~cooling /\ ~connected
             /\ Goto(j, "resched")
             /\ cooldown' \in {TRUE} \cup (IF "redis" \in Faults THEN {cooldown} ELSE {})
          \/ /\ ~cooling /\ connected
             /\ Goto(j, "count") /\ UNCHANGED cooldown
    /\ UNCHANGED <<tables, session, lock, producers>>

\* Mutant: only sent rows count.
CountsSentOnly == Cardinality({l \in CountedToday : logs[l].status = "sent"}) > DailyCap

OverCap == Cardinality(CountedToday) > DailyCap

CapCheck(j) ==
    /\ jobs[j].pc = "count"
    /\ Goto(j, IF OverCap THEN "resched" ELSE "lock")
    /\ UNCHANGED <<tables, session, redisKeys, producers>>

\* Mutant: SET without NX.
TakesAnyLock == TRUE

LockFree == lock = None

\* SET NX PX succeeds.
Acquire(j) ==
    /\ jobs[j].pc = "lock" /\ LockFree
    /\ lock' = j
    /\ Goto(j, "send")
    /\ UNCHANGED <<tables, session, cooldown, producers>>

\* SET throws out of process(), though Redis may have applied it: the key then
\* holds a token nobody knows.
AcquireThrows(j) ==
    /\ "redis" \in Faults
    /\ jobs[j].pc = "lock"
    /\ lock' \in {lock} \cup (IF LockFree THEN {LostHolder} ELSE {})
    /\ Goto(j, "throw")
    /\ UNCHANGED <<tables, session, cooldown, producers>>

\* The wait for the lock ran into its deadline.
GiveUp(j) ==
    /\ "lockbusy" \in Faults
    /\ jobs[j].pc = "lock" /\ ~LockFree
    /\ Goto(j, AfterFailure(j))
    /\ UNCHANGED <<tables, session, redisKeys, producers>>

CountDelivery(l) == copies' = [copies EXCEPT ![l] = IF @ = 2 THEN 2 ELSE @ + 1]

Deliver(j) ==
    /\ jobs[j].pc = "send" /\ connected
    /\ CountDelivery(LogOf(j))
    /\ Goto(j, "mark")
    /\ UNCHANGED <<tables, redisKeys, connected, producers>>

\* sendText throws, possibly after part of a multi-image message went out.
SendFails(j) ==
    /\ jobs[j].pc = "send"
    /\ ~connected \/ "send" \in Faults
    /\ \/ UNCHANGED copies
       \/ "partial" \in Faults /\ CountDelivery(LogOf(j))
    /\ Goto(j, AfterFailure(j))
    /\ UNCHANGED <<tables, redisKeys, connected, producers>>

MarkSent(j) ==
    /\ jobs[j].pc = "mark" /\ Exists(LogOf(j))
    /\ logs' = [logs EXCEPT ![LogOf(j)].status = "sent"]
    /\ Goto(j, "done")
    /\ UNCHANGED <<schedule, runs, runText, session, redisKeys, producers>>

\* The update to "sent" throws (also when the row was deleted): the same
\* catch block as a failed send handles it.
MarkFails(j) ==
    /\ jobs[j].pc = "mark"
    /\ "database" \in Faults \/ ~Exists(LogOf(j))
    /\ Goto(j, AfterFailure(j))
    /\ UNCHANGED <<tables, session, redisKeys, producers>>

\* reschedulePending writes the row back to pending, whatever it is now.
Resched(j) ==
    /\ jobs[j].pc = "resched" /\ Exists(LogOf(j))
    /\ logs' = [logs EXCEPT ![LogOf(j)].status = "pending", ![LogOf(j)].reason = "retry"]
    /\ Goto(j, "requeue")
    /\ UNCHANGED <<schedule, runs, runText, session, redisKeys, producers>>

\* A Prisma call outside the try blocks throws out of process().
DatabaseThrows(j) ==
    /\ \/ jobs[j].pc \in {"check", "count", "resched"} /\ "database" \in Faults
       \/ jobs[j].pc = "resched" /\ ~Exists(LogOf(j))
    /\ Goto(j, "throw")
    /\ UNCHANGED <<tables, session, redisKeys, producers>>

\* Mutant: the error is rethrown after the reschedule.
RethrowsAfterRequeue == "throw"

\* process() returns after reschedulePending; it does not rethrow.
AfterRequeue == "done"

\* The new job starts with attemptsMade = 0.
Requeue(j, k) ==
    /\ jobs[j].pc = "requeue" /\ FreshId(k, LogOf(j))
    /\ jobs' = [jobs EXCEPT ![j].pc = AfterRequeue, ![k] = NewJob(jobs[j].text)]
    /\ UNCHANGED <<tables, session, redisKeys, producers>>

RequeueFails(j) ==
    /\ "enqueue" \in Faults
    /\ jobs[j].pc = "requeue"
    /\ Goto(j, "throw")
    /\ UNCHANGED <<tables, session, redisKeys, producers>>

\* releaseLock deletes the key only if it still holds this job's token, and
\* swallows a Redis error, after which the key lives on until its TTL.
LockAfter(j) == IF lock = j THEN None ELSE lock

\* Mutants: attempts has no limit; attempts is 1.
RetriedForever(j) ==
    IF jobs[j].pc = "done" THEN NoJob
    ELSE [jobs[j] EXCEPT !.pc = "queued", !.attempts = @ + 1]
NeverRetried(j) == NoJob

\* BullMQ: a returned job is removed (removeOnComplete); a rejected one goes
\* back to the queue, or is removed after its last attempt (removeOnFail).
Settled(j) ==
    IF jobs[j].pc = "done" \/ LastAttempt(j)
    THEN NoJob
    ELSE [jobs[j] EXCEPT !.pc = "queued", !.attempts = @ + 1]

Finish(j) ==
    /\ jobs[j].pc \in {"done", "throw"}
    /\ jobs' = [jobs EXCEPT ![j] = Settled(j)]
    /\ \/ lock' = LockAfter(j)
       \/ lock = j /\ "redis" \in Faults /\ lock' = LostHolder
    /\ UNCHANGED <<tables, session, cooldown, producers>>

WorkerStep(j) ==
    \/ Take(j) \/ CheckLog(j) \/ Gate(j) \/ CapCheck(j)
    \/ Acquire(j) \/ AcquireThrows(j) \/ GiveUp(j) \/ Deliver(j) \/ SendFails(j)
    \/ MarkSent(j) \/ MarkFails(j) \/ Resched(j) \/ DatabaseThrows(j)
    \/ \E k \in JobIds : Requeue(j, k)
    \/ RequeueFails(j) \/ Finish(j)
=============================================================================
