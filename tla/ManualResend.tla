---------------------------- MODULE ManualResend ----------------------------
(***************************************************************************)
(* LogsService.resend (logs/logs.service.ts): the user resends a log that  *)
(* is not sent yet, as a fresh run of one group.  One request at a time.   *)
(***************************************************************************)
EXTENDS DispatchState

Resendable(l) == Exists(l) /\ logs[l].status # "sent"

ResendRead(l) ==
    /\ "resend" \in Stimuli
    /\ res.pc = "idle" /\ runs < MaxRuns
    /\ Resendable(l)
    /\ res' = [ResIdle EXCEPT !.pc = "create", !.log = l, !.text = schedule.text]
    /\ UNCHANGED <<tables, session, redisKeys, jobs, trig, rec, rep>>

ResendCreate ==
    /\ res.pc = "create" /\ runs < MaxRuns
    /\ schedule.status # "deleted"
    /\ LET r == runs + 1  g == res.log[2] IN
       /\ runs' = r
       /\ runText' = [runText EXCEPT ![r] = res.text]
       /\ logs' = [logs EXCEPT ![<<r, g>>] = NewRow("null")]
       /\ res' = [res EXCEPT !.pc = "add", !.run = r]
    /\ UNCHANGED <<schedule, session, redisKeys, jobs, trig, rec, rep>>

ResendAdd ==
    /\ res.pc = "add"
    /\ jobs' = WithOriginal(jobs, <<res.run, res.log[2]>>, res.text)
    /\ res' = [res EXCEPT !.pc = "mark"]
    /\ UNCHANGED <<tables, session, redisKeys, trig, rec, rep>>

ResendMark ==
    /\ res.pc = "mark" /\ Exists(res.log)
    /\ SetReason(res.log, "requeued_manually")
    /\ res' = ResIdle
    /\ UNCHANGED <<schedule, runs, runText, session, redisKeys, jobs, trig, rec, rep>>

\* The request fails: foreign key, queue, database, or the source row is gone.
ResendFails ==
    /\ \/ res.pc = "create" /\ (schedule.status = "deleted" \/ runs = MaxRuns)
       \/ res.pc = "add" /\ "enqueue" \in Faults
       \/ res.pc \in {"create", "mark"} /\ "database" \in Faults
       \/ res.pc = "mark" /\ ~Exists(res.log)
    /\ res' = ResIdle
    /\ UNCHANGED <<tables, session, redisKeys, jobs, trig, rec, rep>>

ResendStep == ResendCreate \/ ResendAdd \/ ResendMark \/ ResendFails
=============================================================================
