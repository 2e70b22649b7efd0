--------------------------- MODULE ScheduleEdits ---------------------------
(***************************************************************************)
(* The writes of SchedulesService (schedules/schedules.service.ts) that    *)
(* the dispatch pipeline can see: pausing, resuming, editing the text,     *)
(* relinking and deleting the schedule.  The repeatable trigger job these  *)
(* handlers also maintain only decides when triggers fire, which           *)
(* TriggerRead leaves open.                                                *)
(***************************************************************************)
EXTENDS DispatchState

SetSchedule(s) ==
    /\ schedule' = s
    /\ UNCHANGED <<logs, runs, runText, session, redisKeys, jobs, producers>>

Pause ==
    /\ "pause" \in Stimuli /\ schedule.status = "active"
    /\ SetSchedule([schedule EXCEPT !.status = "paused"])

Resume ==
    /\ schedule.status = "paused"
    /\ SetSchedule([schedule EXCEPT !.status = "active"])

EditText ==
    /\ "edit" \in Stimuli /\ schedule.status # "deleted"
    /\ schedule.text < MaxText
    /\ SetSchedule([schedule EXCEPT !.text = @ + 1])

\* update() deletes the links, then writes the new ones in a second call.
Unlink ==
    /\ "relink" \in Stimuli /\ schedule.links # {}
    /\ SetSchedule([schedule EXCEPT !.links = {}])

Link ==
    /\ schedule.status # "deleted" /\ schedule.links = {}
    /\ \E links \in SUBSET Groups \ {{}} : SetSchedule([schedule EXCEPT !.links = links])

\* The schedule's logs and links are deleted with it (onDelete: Cascade).
Delete ==
    /\ "delete" \in Stimuli /\ schedule.status # "deleted"
    /\ schedule' = [schedule EXCEPT !.status = "deleted", !.links = {}]
    /\ logs' = [l \in Logs |-> NoRow]
    /\ UNCHANGED <<runs, runText, session, redisKeys, jobs, producers>>

EditStep == Pause \/ Resume \/ EditText \/ Unlink \/ Link \/ Delete
=============================================================================
