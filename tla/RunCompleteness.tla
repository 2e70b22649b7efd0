-------------------------- MODULE RunCompleteness --------------------------
(***************************************************************************)
(* RunCompletenessService.reconcileRunCompleteness                         *)
(* (schedules/run-completeness.service.ts), run every minute: for each     *)
(* recent run, recreate or requeue the rows of linked groups it lacks.     *)
(* The lookback window and the batch are left open: any run with a row may *)
(* be picked, one after the other.                                         *)
(***************************************************************************)
EXTENDS DispatchState

RowsOf(r) == {g \in Groups : Exists(<<r, g>>)}

\* The schedule is read; an inactive or unlinked one is skipped.
RepairRead(r) ==
    /\ "repair" \in Stimuli
    /\ rep.pc = "idle" /\ RowsOf(r) # {}
    /\ schedule.status = "active" /\ schedule.links # {}
    /\ rep' = [RepIdle EXCEPT !.pc = "survey", !.run = r, !.links = schedule.links,
                              !.text = schedule.text]
    /\ UNCHANGED <<tables, session, redisKeys, jobs, trig, rec, res>>

EverSent(g) == \E r \in Runs : logs[<<r, g>>].status = "sent"

Surveyed(pc, missing) ==
    IF missing = {} THEN RepIdle ELSE [rep EXCEPT !.pc = pc, !.missing = missing]

\* First query: the linked groups the run has no row for.
RepairSurvey ==
    /\ rep.pc = "survey"
    /\ rep' = Surveyed("filter", rep.links \ RowsOf(rep.run))
    /\ UNCHANGED <<tables, session, redisKeys, jobs, trig, rec, res>>

\* Second query: a group the schedule has sent to, in any run, is left out.
RepairFilter ==
    /\ rep.pc = "filter"
    /\ rep' = Surveyed("loop", {g \in rep.missing : ~EverSent(g)})
    /\ UNCHANGED <<tables, session, redisKeys, jobs, trig, rec, res>>

AfterGroup(g) ==
    IF rep.missing \ {g} = {} THEN RepIdle
    ELSE [rep EXCEPT !.pc = "loop", !.missing = @ \ {g}, !.group = None, !.log = None]

\* The query asks for the oldest pending row of the group; rows repaired into
\* an earlier run are younger than their run, so any of them may be it.
PendingRows(g) == {l \in Logs : l[2] = g /\ Pending(l)}

RepairLookup(g) ==
    /\ rep.pc = "loop" /\ g \in rep.missing
    /\ \/ /\ PendingRows(g) = {}
          /\ rep' = [rep EXCEPT !.pc = "create", !.group = g]
       \/ \E l \in PendingRows(g) :
             rep' = IF logs[l].stale
                    THEN [rep EXCEPT !.pc = "readd", !.group = g, !.log = l]
                    ELSE AfterGroup(g)
    /\ UNCHANGED <<tables, session, redisKeys, jobs, trig, rec, res>>

RepairReadd ==
    /\ rep.pc = "readd"
    /\ jobs' = WithOriginal(jobs, rep.log, rep.text)
    /\ rep' = [rep EXCEPT !.pc = "mark"]
    /\ UNCHANGED <<tables, session, redisKeys, trig, rec, res>>

RepairMark ==
    /\ rep.pc = "mark" /\ Exists(rep.log)
    /\ SetReason(rep.log, "stale_pending_requeued")
    /\ rep' = AfterGroup(rep.group)
    /\ UNCHANGED <<schedule, runs, runText, session, redisKeys, jobs, trig, rec, res>>

\* The unique key (tenantId, runId, groupJid) and the schedule's foreign key
\* let the insert through.
RowCreatable == ~Exists(<<rep.run, rep.group>>) /\ schedule.status # "deleted"

RepairCreate ==
    /\ rep.pc = "create" /\ RowCreatable
    /\ logs' = [logs EXCEPT ![<<rep.run, rep.group>>] = NewRow("retry")]
    /\ rep' = [rep EXCEPT !.pc = "enqueue"]
    /\ UNCHANGED <<schedule, runs, runText, session, redisKeys, jobs, trig, rec, res>>

RepairEnqueue ==
    /\ rep.pc = "enqueue"
    /\ jobs' = WithOriginal(jobs, <<rep.run, rep.group>>, rep.text)
    /\ rep' = AfterGroup(rep.group)
    /\ UNCHANGED <<tables, session, redisKeys, trig, rec, res>>

\* Any throw inside the loop's try gives the group up for this pass.
RepairFails ==
    /\ \/ rep.pc \in {"readd", "enqueue"} /\ "enqueue" \in Faults
       \/ rep.pc \in {"create", "mark"} /\ "database" \in Faults
       \/ rep.pc = "create" /\ ~RowCreatable
       \/ rep.pc = "mark" /\ ~Exists(rep.log)
    /\ rep' = AfterGroup(rep.group)
    /\ UNCHANGED <<tables, session, redisKeys, jobs, trig, rec, res>>

RepairStep ==
    \/ RepairSurvey \/ RepairFilter
    \/ \E g \in Groups : RepairLookup(g)
    \/ RepairReadd \/ RepairMark \/ RepairCreate \/ RepairEnqueue \/ RepairFails
=============================================================================
