--------------------------- MODULE TriggerWorker ---------------------------
(***************************************************************************)
(* ScheduleTriggerProcessor (schedules/schedule-trigger.processor.ts): one *)
(* trigger job fans a schedule out.  The trigger queue runs one job at a   *)
(* time, so there is one progress record.  Trigger jobs may come at any    *)
(* time: the repeat, "run now", or a stalled job run again after a crash.  *)
(* The final update of nextRunAt, whose failure is ignored and which only  *)
(* the UI reads, is folded into the return.                                *)
(***************************************************************************)
EXTENDS DispatchState

Fans(r, links) == {r} \X links

\* The schedule is read active and linked; a paused, deleted or unlinked one,
\* or one whose cron expression is no longer valid, makes process() return.
TriggerRead ==
    /\ trig.pc = "idle" /\ runs < MaxRuns
    /\ schedule.status = "active" /\ schedule.links # {}
    /\ trig' = [TrigIdle EXCEPT !.pc = "create", !.links = schedule.links,
                                !.text = schedule.text]
    /\ UNCHANGED <<tables, session, redisKeys, jobs, rec, rep, res>>

\* One transaction creates the pending rows of a fresh runId.
TriggerCreate ==
    /\ trig.pc = "create" /\ runs < MaxRuns
    /\ schedule.status # "deleted"
    /\ LET r == runs + 1 IN
       /\ runs' = r
       /\ runText' = [runText EXCEPT ![r] = trig.text]
       /\ logs' = [l \in Logs |-> IF l \in Fans(r, trig.links) THEN NewRow("null") ELSE logs[l]]
       /\ trig' = [trig EXCEPT !.pc = "bulk", !.run = r]
    /\ UNCHANGED <<schedule, session, redisKeys, jobs, rec, rep, res>>

\* The transaction fails, for one because the schedule is gone (foreign key).
\* A trigger job has one attempt, so its run is lost.
TriggerCreateFails ==
    /\ trig.pc = "create"
    /\ schedule.status = "deleted" \/ runs = MaxRuns \/ "database" \in Faults
    /\ trig' = TrigIdle
    /\ UNCHANGED <<tables, session, redisKeys, jobs, rec, rep, res>>

\* Mutant: the jobs carry the text the schedule has by then.
WithCurrentText(ls, text) ==
    [j \in JobIds |->
        IF j[2] = 0 /\ LogOf(j) \in ls /\ ~Live(j) THEN NewJob(schedule.text) ELSE jobs[j]]

WithAll(ls, text) ==
    [j \in JobIds |->
        IF j[2] = 0 /\ LogOf(j) \in ls /\ ~Live(j) THEN NewJob(text) ELSE jobs[j]]

TriggerBulk ==
    /\ trig.pc = "bulk"
    /\ jobs' = WithAll(Fans(trig.run, trig.links), trig.text)
    /\ trig' = TrigIdle
    /\ UNCHANGED <<tables, session, redisKeys, rec, rep, res>>

\* addBulk throws; with "ack" it may have been applied all the same.
TriggerBulkFails ==
    /\ trig.pc = "bulk"
    /\ \/ "enqueue" \in Faults /\ UNCHANGED jobs
       \/ "ack" \in Faults /\ jobs' = WithAll(Fans(trig.run, trig.links), trig.text)
    /\ trig' = [trig EXCEPT !.pc = "fallback", !.todo = trig.links]
    /\ UNCHANGED <<tables, session, redisKeys, rec, rep, res>>

\* The fallback loop; the order of the groups is left open.
AfterFallback(failed, todo) ==
    IF todo # {} THEN [trig EXCEPT !.todo = todo, !.failed = failed]
    ELSE IF failed THEN [trig EXCEPT !.pc = "mark", !.todo = {}, !.failed = TRUE]
    ELSE TrigIdle

FallbackAdd(g) ==
    /\ trig.pc = "fallback" /\ g \in trig.todo
    /\ jobs' = WithOriginal(jobs, <<trig.run, g>>, trig.text)
    /\ trig' = AfterFallback(trig.failed, trig.todo \ {g})
    /\ UNCHANGED <<tables, session, redisKeys, rec, rep, res>>

FallbackAddFails(g) ==
    /\ "enqueue" \in Faults
    /\ trig.pc = "fallback" /\ g \in trig.todo
    /\ trig' = AfterFallback(TRUE, trig.todo \ {g})
    /\ UNCHANGED <<tables, session, redisKeys, jobs, rec, rep, res>>

\* updateMany where the id is one of the run's and the row is still pending.
MarkedForRetry ==
    [l \in Logs |->
        IF l \in Fans(trig.run, trig.links) /\ Pending(l)
        THEN [logs[l] EXCEPT !.reason = "retry"] ELSE logs[l]]

FallbackMark ==
    /\ trig.pc = "mark"
    /\ logs' = MarkedForRetry
    /\ trig' = TrigIdle
    /\ UNCHANGED <<schedule, runs, runText, session, redisKeys, jobs, rec, rep, res>>

FallbackMarkFails ==
    /\ "database" \in Faults
    /\ trig.pc = "mark" /\ trig' = TrigIdle
    /\ UNCHANGED <<tables, session, redisKeys, jobs, rec, rep, res>>

TriggerStep ==
    \/ TriggerCreate \/ TriggerCreateFails \/ TriggerBulk \/ TriggerBulkFails
    \/ \E g \in Groups : FallbackAdd(g) \/ FallbackAddFails(g)
    \/ FallbackMark \/ FallbackMarkFails
=============================================================================
