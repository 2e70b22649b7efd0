-------------------------- MODULE PendingReconcile --------------------------
(***************************************************************************)
(* PendingReconcileService.reconcilePendingLogs                            *)
(* (schedules/pending-reconcile.service.ts), run every minute: requeue     *)
(* pending rows that are old enough.  One pass at a time; the batch limit  *)
(* (200 rows) is larger than any instance.                                 *)
(***************************************************************************)
EXTENDS DispatchState

\* Mutant: a row that was rescheduled once is skipped.
SkipsRetried(l) ==
    /\ Pending(l) /\ logs[l].stale
    /\ logs[l].reason \notin {"null", "retry", "stale_pending_requeued"}
    /\ schedule.status = "active"

\* NOT (errorReason = 'stale_pending_requeued') is not true of a NULL column.
Reconcilable(l) ==
    /\ Pending(l) /\ logs[l].stale
    /\ logs[l].reason \notin {"null", "stale_pending_requeued"}
    /\ schedule.status = "active"

ReconcileScan ==
    /\ "reconcile" \in Stimuli
    /\ rec.pc = "idle"
    /\ \E l \in Logs : Reconcilable(l)
    /\ rec' = [pc |-> "loop", todo |-> {l \in Logs : Reconcilable(l)},
               log |-> None, text |-> schedule.text]
    /\ UNCHANGED <<tables, session, redisKeys, jobs, trig, rep, res>>

AfterLog(l) ==
    IF rec.todo \ {l} = {} THEN RecIdle
    ELSE [rec EXCEPT !.pc = "loop", !.todo = @ \ {l}, !.log = None]

ReconcileAdd(l, j) ==
    /\ rec.pc = "loop" /\ l \in rec.todo /\ FreshId(j, l)
    /\ jobs' = [jobs EXCEPT ![j] = NewJob(rec.text)]
    /\ rec' = [rec EXCEPT !.pc = "mark", !.log = l]
    /\ UNCHANGED <<tables, session, redisKeys, trig, rep, res>>

ReconcileAddFails(l) ==
    /\ "enqueue" \in Faults
    /\ rec.pc = "loop" /\ l \in rec.todo
    /\ rec' = AfterLog(l)
    /\ UNCHANGED <<tables, session, redisKeys, jobs, trig, rep, res>>

RequeuedMark == "stale_pending_requeued"

ReconcileMark ==
    /\ rec.pc = "mark" /\ Exists(rec.log)
    /\ SetReason(rec.log, RequeuedMark)
    /\ rec' = AfterLog(rec.log)
    /\ UNCHANGED <<schedule, runs, runText, session, redisKeys, jobs, trig, rep, res>>

\* The marker's update throws and is only logged.
ReconcileMarkFails ==
    /\ rec.pc = "mark"
    /\ "database" \in Faults \/ ~Exists(rec.log)
    /\ rec' = AfterLog(rec.log)
    /\ UNCHANGED <<tables, session, redisKeys, jobs, trig, rep, res>>

ReconcileStep ==
    \/ \E l \in Logs : \/ \E j \in JobIds : ReconcileAdd(l, j)
                       \/ ReconcileAddFails(l)
    \/ ReconcileMark \/ ReconcileMarkFails
=============================================================================
