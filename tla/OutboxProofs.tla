---------------------------- MODULE OutboxProofs ----------------------------
(***************************************************************************)
(* What the pipeline promises of every message: one job at a time, one     *)
(* delivery, a final "sent", the text of its run and, with all of these,   *)
(* the abstract outbox.  Each theorem names the faults and the recovery    *)
(* loops that break its promise, and no others.                            *)
(***************************************************************************)
EXTENDS CapProofs

----------------------------------------------------------------------------
(* Steps without the recovery loops *)

\* The two cron loops requeue nothing.
NoLoops == Stimuli \cap {"reconcile", "repair"} = {}

LoopsOff == rec.pc = "idle" /\ rep.pc = "idle"

\* A worker leaves the producers and the schedule alone, and either hands its
\* log over, ends, or moves on.
LEMMA WorkerMoves ==
  ASSUME NEW j \in JobIds, WorkerStep(j)
  PROVE  /\ UNCHANGED <<schedule, runs, runText, trig, rec, rep, res>>
         /\ \/ \E k \in JobIds : Requeue(j, k)
            \/ Finish(j)
            \/ Live(j) /\ ~Ending(j) /\ \E pc \in WorkerSteps : Goto(j, pc)
<1> USE DEF tables, session, redisKeys, producers
<1>1. UNCHANGED <<schedule, runs, runText, trig, rec, rep, res>>
  BY DEF WorkerStep, Take, CheckLog, Gate, CapCheck, Acquire, AcquireThrows, GiveUp, Deliver, SendFails,
         MarkSent, MarkFails, Resched, DatabaseThrows, Requeue, RequeueFails, Finish
<1>2. ASSUME ~Finish(j), ~ \E k \in JobIds : Requeue(j, k)
      PROVE  Live(j) /\ ~Ending(j)
  BY <1>2 DEF WorkerStep, Live, Ending, Take, CheckLog, Gate, CapCheck, Acquire, AcquireThrows, GiveUp,
         Deliver, SendFails, MarkSent, MarkFails, Resched, DatabaseThrows, RequeueFails
<1>3. ASSUME ~Finish(j), ~ \E k \in JobIds : Requeue(j, k)
      PROVE  \E pc \in WorkerSteps : Goto(j, pc)
  <2>1. CASE Take(j) \/ CheckLog(j) \/ Gate(j) \/ CapCheck(j)
    BY <2>1 DEF Take, CheckLog, AfterCheck, Gate, CapCheck, WorkerSteps
  <2>2. CASE Acquire(j) \/ AcquireThrows(j) \/ GiveUp(j) \/ Deliver(j) \/ SendFails(j)
    BY <2>2 DEF Acquire, AcquireThrows, GiveUp, Deliver, SendFails, AfterFailure, WorkerSteps
  <2>3. CASE MarkSent(j) \/ MarkFails(j) \/ Resched(j) \/ DatabaseThrows(j) \/ RequeueFails(j)
    BY <2>3 DEF MarkSent, MarkFails, Resched, DatabaseThrows, RequeueFails, AfterFailure, WorkerSteps
  <2> QED BY <1>3, <2>1, <2>2, <2>3 DEF WorkerStep
<1> QED BY <1>1, <1>2, <1>3

\* What the other families of steps leave alone.
LEMMA Frames ==
    /\ TriggerRead \/ TriggerStep => UNCHANGED <<schedule, copies, rec, rep, res>>
    /\ (\E l \in Logs : ResendRead(l)) \/ ResendStep => UNCHANGED <<schedule, copies, trig, rec, rep>>
    /\ EditStep => UNCHANGED <<runs, runText, jobs, copies, trig, rec, rep, res>>
    /\ EnvironmentStep => /\ UNCHANGED <<schedule, runs, runText, copies>>
                          /\ Crash \/ UNCHANGED <<jobs, trig, rec, rep, res>>
<1> USE DEF SetSchedule, tables, session, redisKeys, producers
<1>1. TriggerRead \/ TriggerStep => UNCHANGED <<schedule, copies, rec, rep, res>>
  BY DEF TriggerRead, TriggerStep, TriggerCreate, TriggerCreateFails, TriggerBulk, TriggerBulkFails,
         FallbackAdd, FallbackAddFails, FallbackMark, FallbackMarkFails
<1>2. (\E l \in Logs : ResendRead(l)) \/ ResendStep => UNCHANGED <<schedule, copies, trig, rec, rep>>
  BY DEF ResendRead, ResendStep, ResendCreate, ResendAdd, ResendMark, ResendFails
<1>3. EditStep => UNCHANGED <<runs, runText, jobs, copies, trig, rec, rep, res>>
  BY DEF EditStep, Pause, Resume, EditText, Unlink, Link, Delete
<1>4. EnvironmentStep => /\ UNCHANGED <<schedule, runs, runText, copies>>
                         /\ Crash \/ UNCHANGED <<jobs, trig, rec, rep, res>>
  BY DEF EnvironmentStep, LockExpires, CooldownLapses, Disconnect, Connect, Age, Midnight, Crash
<1> QED BY <1>1, <1>2, <1>3, <1>4

\* Loops that are switched off stay off and take no step.
LEMMA StepsWithoutLoops ==
  ASSUME NoLoops, LoopsOff, [Next]_vars
  PROVE  /\ LoopsOff'
         /\ \/ \E j \in JobIds : WorkerStep(j)
            \/ TriggerRead \/ TriggerStep
            \/ (\E l \in Logs : ResendRead(l)) \/ ResendStep
            \/ EditStep \/ EnvironmentStep
            \/ UNCHANGED vars
<1>1. ~ReconcileScan /\ ~ReconcileStep
  BY DEF NoLoops, LoopsOff, ReconcileScan, ReconcileStep, ReconcileAdd, ReconcileAddFails,
         ReconcileMark, ReconcileMarkFails
<1>2. ~RepairStep /\ \A r \in Runs : ~RepairRead(r)
  BY DEF NoLoops, LoopsOff, RepairRead, RepairStep, RepairSurvey, RepairFilter, RepairLookup,
         RepairReadd, RepairMark, RepairCreate, RepairEnqueue, RepairFails
<1>3. \/ \E j \in JobIds : WorkerStep(j)
      \/ TriggerRead \/ TriggerStep
      \/ (\E l \in Logs : ResendRead(l)) \/ ResendStep
      \/ EditStep \/ EnvironmentStep
      \/ UNCHANGED vars
  BY <1>1, <1>2 DEF Next, UserStep, TimerStep
<1>4. Crash => LoopsOff'
  BY DEF Crash, LoopsOff, RecIdle, RepIdle
<1>5. LoopsOff'
  BY <1>3, <1>4, WorkerMoves, Frames DEF LoopsOff, vars
<1> QED BY <1>3, <1>5

\* So they are off in every reachable state.
LEMMA LoopsStayOff == ASSUME NoLoops PROVE Spec => []LoopsOff
<1>1. Init => LoopsOff
  BY DEF Init, LoopsOff, RecIdle, RepIdle
<1> QED BY <1>1, StepsWithoutLoops, PTL DEF Spec

----------------------------------------------------------------------------
(* Jobs keep the text of their run *)

\* A producer that has created its run enqueues it with the run's text.
TextInv ==
    /\ RunKeepsText /\ LoopsOff
    /\ trig.pc \in {"bulk", "fallback", "mark"} => trig.run <= runs /\ trig.text = runText[trig.run]
    /\ res.pc = "add" => res.run <= runs /\ res.text = runText[res.run]

\* A job that is live after a worker's step has the text of one of its log
\* that was live before.
LEMMA WorkerTexts ==
  ASSUME TypeOK, NEW j \in JobIds, WorkerStep(j), NEW k \in JobIds, Live(k)'
  PROVE  \E i \in JobIds : LogOf(i) = LogOf(k) /\ Live(i) /\ jobs'[k].text = jobs[i].text
<1>0. jobs \in [JobIds -> JobType]
  BY DEF TypeOK
<1>1. CASE \E i \in JobIds : Requeue(j, i)
  <2>1. PICK i \in JobIds : Requeue(j, i)
    BY <1>1
  <2>2. /\ jobs' = [jobs EXCEPT ![j].pc = "done", ![i] = NewJob(jobs[j].text)]
        /\ LogOf(i) = LogOf(j) /\ jobs[j].pc = "requeue"
    BY <2>1 DEF Requeue, AfterRequeue, FreshId
  <2>3. NewJob(jobs[j].text).text = jobs[j].text
    BY DEF NewJob, NoJob
  <2>4. k = i => LogOf(k) = LogOf(j) /\ Live(j) /\ jobs'[k].text = jobs[j].text
    BY <1>0, <2>2, <2>3 DEF Live
  <2>5. k # i => Live(k) /\ jobs'[k].text = jobs[k].text
    BY <1>0, <2>2 DEF Live, JobType
  <2> QED BY <2>4, <2>5
<1>2. CASE Finish(j)
  <2>1. k # j => jobs'[k] = jobs[k]
    BY <1>0, <1>2 DEF Finish
  <2>2. k = j => jobs'[k] = Settled(j)
    BY <1>0, <1>2 DEF Finish
  <2>3. Settled(j).pc # "free" => Settled(j).text = jobs[j].text
    BY <1>0 DEF Settled, NoJob, JobType
  <2>4. Live(j)
    BY <1>2 DEF Finish, Live
  <2> QED BY <2>1, <2>2, <2>3, <2>4 DEF Live
<1>3. CASE Live(j) /\ \E pc \in WorkerSteps : Goto(j, pc)
  BY <1>0, <1>3 DEF Goto, Live, JobType
<1> QED BY <1>1, <1>2, <1>3, WorkerMoves

\* Jobs added for logs of one run, with that run's text, keep the property.
LEMMA AddedTexts ==
  ASSUME TypeOK, RunKeepsText, runText' = runText, NEW r \in Runs,
         \A j \in JobIds : \/ jobs'[j] = jobs[j]
                           \/ LogOf(j)[1] = r /\ jobs'[j].text = runText[r]
  PROVE  RunKeepsText'
BY DEF RunKeepsText, Live

\* However the schedule is edited while a run is on its way, and whatever fails
\* or crashes, every job of the run carries the text the run was started with;
\* only the recovery loops requeue with the text of now.
THEOREM RunTextKept == ASSUME NoLoops PROVE Spec => []RunKeepsText
<1>1. Init => TextInv
  BY DEF Init, TextInv, RunKeepsText, LoopsOff, Live, NoJob, TrigIdle, RecIdle, RepIdle, ResIdle
<1>2. TypeOK /\ OriginInv /\ TextInv /\ [Next]_vars => TextInv'
  <2> SUFFICES ASSUME TypeOK, OriginInv, TextInv, [Next]_vars PROVE TextInv'
    OBVIOUS
  <2> USE Identifiers DEF tables, session, redisKeys, producers
  <2>0. /\ jobs \in [JobIds -> JobType] /\ runText \in [Runs -> Texts]
        /\ trig \in TrigType /\ res \in ResType
        /\ trig.run \in Runs /\ res.run \in Runs /\ runs \in Nat /\ Runs \subseteq Nat
        /\ res.pc # "idle" => res.log \in Logs
    BY BoundsAssumption DEF TypeOK, TrigType, ResType, Runs
  <2>i. TrigIdle.pc = "idle" /\ ResIdle.pc = "idle"
    BY DEF TrigIdle, ResIdle
  <2>n. \A text : NewJob(text).text = text
    BY DEF NewJob, NoJob
  <2>1. LoopsOff'
    BY StepsWithoutLoops DEF TextInv
  \* A new run is later than the run of every job and producer.
  <2>2. ASSUME NEW r \in Runs, r = runs + 1, NEW text, runText' = [runText EXCEPT ![r] = text],
               jobs' = jobs
        PROVE  /\ RunKeepsText'
               /\ \A q \in Runs : q <= runs => runText'[q] = runText[q]
    <3>1. \A q \in Runs : q <= runs => runText'[q] = runText[q]
      BY <2>0, <2>2
    <3>2. \A j \in JobIds : Live(j) => LogOf(j)[1] <= runs
      BY DEF OriginInv, Promised
    <3> QED BY <2>2, <3>1, <3>2 DEF TextInv, RunKeepsText, Live
  <2>3. CASE \E j \in JobIds : WorkerStep(j)
    <3>1. UNCHANGED <<runs, runText, trig, res>>
      BY <2>3, WorkerMoves
    <3>2. RunKeepsText'
      BY <2>3, <3>1, WorkerTexts DEF TextInv, RunKeepsText
    <3> QED BY <2>1, <3>1, <3>2 DEF TextInv
  <2>4. CASE TriggerRead \/ TriggerStep
    <3>0. UNCHANGED res
      BY <2>4, Frames
    <3>1. CASE TriggerRead \/ TriggerCreateFails \/ FallbackMark \/ FallbackMarkFails
      <4>1. trig'.pc \in {"create", "idle"} /\ UNCHANGED <<jobs, runs, runText>>
        BY <2>0, <2>i, <3>1
           DEF TriggerRead, TriggerCreateFails, FallbackMark, FallbackMarkFails, TrigIdle
      <4> QED BY <2>1, <3>0, <4>1 DEF TextInv, RunKeepsText, Live
    <3>2. CASE TriggerCreate
      <4>1. /\ runs' = runs + 1 /\ runText' = [runText EXCEPT ![runs + 1] = trig.text]
            /\ jobs' = jobs /\ trig' = [trig EXCEPT !.pc = "bulk", !.run = runs + 1]
            /\ runs + 1 \in Runs
        BY <2>0, <3>2, BoundsAssumption DEF TriggerCreate, Runs
      <4>2. trig'.run = runs + 1 /\ trig'.text = trig.text
        BY <2>0, <4>1 DEF TrigType
      <4>3. runText'[runs + 1] = trig.text
        BY <2>0, <4>1
      <4>4. RunKeepsText' /\ \A q \in Runs : q <= runs => runText'[q] = runText[q]
        BY <2>2, <4>1
      <4> QED BY <2>0, <2>1, <3>0, <4>1, <4>2, <4>3, <4>4 DEF TextInv
    <3>3. CASE TriggerBulk \/ TriggerBulkFails
      <4>1. /\ UNCHANGED <<runs, runText>> /\ trig.pc = "bulk"
            /\ jobs' = jobs \/ jobs' = WithAll(Fans(trig.run, trig.links), trig.text)
            /\ trig' = TrigIdle \/ trig' = [trig EXCEPT !.pc = "fallback", !.todo = trig.links]
        BY <3>3 DEF TriggerBulk, TriggerBulkFails
      <4>2. trig'.pc # "idle" => trig'.run = trig.run /\ trig'.text = trig.text
        BY <2>0, <2>i, <4>1 DEF TrigType
      <4>3. \A j \in JobIds : \/ jobs'[j] = jobs[j]
                              \/ LogOf(j)[1] = trig.run /\ jobs'[j].text = runText[trig.run]
        BY <2>n, <4>1 DEF WithAll, Fans, TextInv
      <4> QED BY <2>0, <2>1, <3>0, <4>1, <4>2, <4>3, AddedTexts DEF TextInv
    <3>4. ASSUME NEW g \in Groups, FallbackAdd(g) \/ FallbackAddFails(g) PROVE TextInv'
      <4>1. /\ UNCHANGED <<runs, runText>> /\ trig.pc = "fallback"
            /\ jobs' = jobs \/ jobs' = WithOriginal(jobs, <<trig.run, g>>, trig.text)
            /\ \E failed : trig' = AfterFallback(failed, trig.todo \ {g})
        BY <3>4 DEF FallbackAdd, FallbackAddFails
      <4>2. trig'.pc # "idle" => trig'.run = trig.run /\ trig'.text = trig.text
        BY <2>0, <2>i, <4>1 DEF AfterFallback, TrigType
      <4>3. \A j \in JobIds : \/ jobs'[j] = jobs[j]
                              \/ LogOf(j)[1] = trig.run /\ jobs'[j].text = runText[trig.run]
        BY <2>0, <2>n, <4>1 DEF WithOriginal, TextInv, LogOf
      <4> QED BY <2>0, <2>1, <3>0, <4>1, <4>2, <4>3, AddedTexts DEF TextInv
    <3> QED BY <2>4, <3>1, <3>2, <3>3, <3>4 DEF TriggerStep
  <2>5. CASE (\E l \in Logs : ResendRead(l)) \/ ResendStep
    <3>0. UNCHANGED trig
      BY <2>5, Frames
    <3>1. CASE (\E l \in Logs : ResendRead(l)) \/ ResendMark \/ ResendFails
      <4>1. res'.pc \in {"create", "idle"} /\ UNCHANGED <<jobs, runs, runText>>
        BY <2>i, <3>1 DEF ResendRead, ResendMark, ResendFails, ResIdle
      <4> QED BY <2>1, <3>0, <4>1 DEF TextInv, RunKeepsText, Live
    <3>2. CASE ResendCreate
      <4>1. /\ runs' = runs + 1 /\ runText' = [runText EXCEPT ![runs + 1] = res.text]
            /\ jobs' = jobs /\ res' = [res EXCEPT !.pc = "add", !.run = runs + 1]
            /\ runs + 1 \in Runs
        BY <2>0, <3>2, BoundsAssumption DEF ResendCreate, Runs
      <4>2. res'.run = runs + 1 /\ res'.text = res.text
        BY <2>0, <4>1 DEF ResType
      <4>3. runText'[runs + 1] = res.text
        BY <2>0, <4>1
      <4>4. RunKeepsText' /\ \A q \in Runs : q <= runs => runText'[q] = runText[q]
        BY <2>2, <4>1
      <4> QED BY <2>0, <2>1, <3>0, <4>1, <4>2, <4>3, <4>4 DEF TextInv
    <3>3. CASE ResendAdd
      <4>1. /\ UNCHANGED <<runs, runText>> /\ res.pc = "add"
            /\ jobs' = WithOriginal(jobs, <<res.run, res.log[2]>>, res.text)
            /\ res' = [res EXCEPT !.pc = "mark"]
        BY <3>3 DEF ResendAdd
      <4>2. res'.pc = "mark"
        BY <2>0, <4>1 DEF ResType
      <4>3. \A j \in JobIds : \/ jobs'[j] = jobs[j]
                              \/ LogOf(j)[1] = res.run /\ jobs'[j].text = runText[res.run]
        BY <2>0, <2>n, <4>1 DEF WithOriginal, TextInv, LogOf
      <4> QED BY <2>0, <2>1, <3>0, <4>1, <4>2, <4>3, AddedTexts DEF TextInv
    <3> QED BY <2>5, <3>1, <3>2, <3>3 DEF ResendStep
  <2>6. CASE EditStep \/ EnvironmentStep
    <3>1. CASE UNCHANGED <<jobs, trig, res>> /\ UNCHANGED <<runs, runText>>
      BY <2>1, <3>1 DEF TextInv, RunKeepsText, Live
    <3>2. CASE Crash
      <4>1. /\ UNCHANGED <<runs, runText>> /\ trig'.pc = "idle" /\ res'.pc = "idle"
            /\ jobs' = [j \in JobIds |-> IF Active(j) THEN AfterStall(jobs[j]) ELSE jobs[j]]
        BY <2>i, <3>2 DEF Crash
      <4>2. \A job \in JobType : AfterStall(job).pc # "free" => AfterStall(job).text = job.text
        BY DEF AfterStall, NoJob, JobType
      <4>3. RunKeepsText'
        BY <2>0, <4>1, <4>2 DEF TextInv, RunKeepsText, Live, Active, WorkerSteps
      <4> QED BY <2>1, <4>1, <4>3 DEF TextInv
    <3> QED BY <2>6, <3>1, <3>2, Frames
  <2>7. CASE UNCHANGED vars
    BY <2>1, <2>7 DEF vars, TextInv, RunKeepsText, Live
  <2> QED BY <2>3, <2>4, <2>5, <2>6, <2>7, StepsWithoutLoops DEF TextInv
<1>3. TextInv => RunKeepsText
  BY DEF TextInv
<1> QED BY <1>1, <1>2, <1>3, TypeCorrect, RowsComeFirst, PTL DEF Spec

----------------------------------------------------------------------------
(* One job at a time *)

\* No job is run, or added, a second time behind the pipeline's back.
NoReruns == Faults \cap {"ack", "crash"} = {}

\* A job that may still work on its log, or be tried again.
Busy(j) == jobs[j].pc \notin {"free", "done"}

\* A producer is about to add the job named after the log.
TrigAdds(l) ==
    \/ trig.pc = "bulk" /\ l \in Fans(trig.run, trig.links)
    \/ trig.pc = "fallback" /\ l \in Fans(trig.run, trig.todo)
ResAdds(l) == res.pc = "add" /\ l = <<res.run, res.log[2]>>
Adds(l) == TrigAdds(l) \/ ResAdds(l)

OneBusy == \A j, k \in JobIds : LogOf(j) = LogOf(k) /\ Busy(j) /\ Busy(k) => j = k
Apart   == \A l \in Logs : ~(TrigAdds(l) /\ ResAdds(l))

\* A log has one busy job at most, none before a producer has added it and none
\* once it is sent.
OnceInv ==
    /\ LoopsOff /\ OneBusy /\ Apart
    /\ \A j \in JobIds : Adds(LogOf(j)) => ~Live(j)
    /\ \A l \in Logs : Adds(l) => logs[l].status # "sent"
    /\ \A j \in JobIds : Busy(j) => logs[LogOf(j)].status # "sent"

\* What a step of a producer may do: add the job it has announced.
AddShape ==
    /\ \A j \in JobIds : \/ jobs'[j] = jobs[j]
                         \/ /\ jobs'[j].pc = "queued" /\ j = <<LogOf(j), 0>>
                            /\ Adds(LogOf(j)) /\ ~Adds(LogOf(j))'
    /\ \A l \in Logs : Adds(l)' => Adds(l) \/ ~Promised(l)
    /\ \A l \in Logs : \/ logs'[l].status = logs[l].status
                       \/ "delete" \in Stimuli /\ logs'[l].status = "absent"
                       \/ ~Promised(l) /\ logs'[l].status = "pending" /\ Adds(l)'
    /\ Apart'

\* Announced rows exist.
LEMMA AddsPromised ==
  ASSUME OriginInv
  PROVE  \A l \in Logs : Adds(l) => Promised(l)
BY DEF OriginInv, Adds, TrigAdds, ResAdds, Announced, AboutToEnqueue, Fans

\* A new run's logs are not promised.
LEMMA NewRunUnpromised ==
  ASSUME TypeOK
  PROVE  \A l \in Logs : l[1] = runs + 1 => ~Promised(l)
<1>1. runs \in Nat
  BY BoundsAssumption DEF TypeOK
<1> QED BY <1>1 DEF Promised

\* A step that announces nothing and changes no status, but for a deletion.
QuietRows ==
    /\ \A l \in Logs : TrigAdds(l)' => TrigAdds(l)
    /\ \A l \in Logs : ResAdds(l)' => ResAdds(l)
    /\ \A l \in Logs : \/ logs'[l].status = logs[l].status
                       \/ "delete" \in Stimuli /\ logs'[l].status = "absent"

\* It has the shape when it adds no job.
LEMMA QuietAdds ==
  ASSUME OnceInv, jobs' = jobs, QuietRows
  PROVE  AddShape
BY DEF AddShape, OnceInv, Apart, Adds, QuietRows

\* Setting a reason changes no status.
LEMMA SetReasonStatus ==
  ASSUME logs \in [Logs -> RowType], NEW l, NEW reason, SetReason(l, reason)
  PROVE  \A m \in Logs : logs'[m].status = logs[m].status
BY DEF SetReason, RowType

\* Adding the job named after a log adds no other.
LEMMA OriginalAdds ==
  ASSUME jobs \in [JobIds -> JobType], NEW l \in Logs, NEW text,
         jobs' = WithOriginal(jobs, l, text)
  PROVE  \A j \in JobIds : \/ jobs'[j] = jobs[j]
                           \/ /\ jobs'[j].pc = "queued" /\ j = <<LogOf(j), 0>> /\ LogOf(j) = l
                              /\ ~Live(j)
BY Identifiers DEF WithOriginal, NewJob, NoJob, Live

\* The trigger adds the jobs of the run it has created.
LEMMA TriggerAdds ==
  ASSUME NoReruns, TypeOK, OriginInv, OnceInv, TriggerRead \/ TriggerStep
  PROVE  AddShape
<1> USE Identifiers DEF tables, session, redisKeys, producers
<1>0. /\ jobs \in [JobIds -> JobType] /\ logs \in [Logs -> RowType] /\ trig \in TrigType
      /\ trig.run \in Runs
  BY DEF TypeOK, TrigType
<1>i. TrigIdle.pc = "idle"
  BY DEF TrigIdle
<1>r. UNCHANGED res
  BY Frames
<1>1. CASE TriggerRead \/ TriggerCreateFails \/ FallbackMark \/ FallbackMarkFails
  <2>1. trig'.pc \in {"create", "idle"} /\ jobs' = jobs
    BY <1>0, <1>i, <1>1 DEF TriggerRead, TriggerCreateFails, FallbackMark, FallbackMarkFails, TrigIdle
  <2>2. \A l \in Logs : logs'[l].status = logs[l].status
    BY <1>0, <1>1 DEF TriggerRead, TriggerCreateFails, FallbackMark, MarkedForRetry,
       FallbackMarkFails, RowType
  <2>8. QuietRows
    BY <1>r, <2>1, <2>2 DEF QuietRows, TrigAdds, ResAdds
  <2> QED BY <2>1, <2>8, QuietAdds
<1>2. CASE TriggerCreate
  <2>1. /\ jobs' = jobs /\ trig'.pc = "bulk" /\ trig'.run = runs + 1
        /\ trig'.links = trig.links
        /\ \A l \in Logs : logs'[l] = IF l \in Fans(runs + 1, trig.links) THEN NewRow("null") ELSE logs[l]
    BY <1>0, <1>2 DEF TriggerCreate, TrigType
  <2>2. NewRow("null").status = "pending"
    BY DEF NewRow
  <2>3. \A l \in Logs : TrigAdds(l)' <=> l \in Fans(runs + 1, trig.links)
    BY <2>1 DEF TrigAdds, Fans
  <2>4. \A l \in Logs : l \in Fans(runs + 1, trig.links) => ~Promised(l)
    BY NewRunUnpromised DEF Fans
  <2>5. \A l \in Logs : ResAdds(l)' <=> ResAdds(l)
    BY <1>r DEF ResAdds
  <2>6. Apart'
    BY <2>3, <2>4, <2>5, AddsPromised DEF Apart, Adds
  <2> QED BY <2>1, <2>2, <2>3, <2>4, <2>5, <2>6 DEF AddShape, Adds
<1>3. CASE TriggerBulk
  <2>1. /\ trig.pc = "bulk" /\ trig'.pc = "idle" /\ logs' = logs
        /\ jobs' = WithAll(Fans(trig.run, trig.links), trig.text)
    BY <1>i, <1>3 DEF TriggerBulk
  <2>2. \A j \in JobIds : \/ jobs'[j] = jobs[j]
                          \/ jobs'[j].pc = "queued" /\ j[2] = 0 /\ TrigAdds(LogOf(j))
    BY <2>1 DEF WithAll, TrigAdds, NewJob, NoJob
  <2>3. \A j \in JobIds : j[2] = 0 => j = <<LogOf(j), 0>>
    BY DEF JobIds, LogOf
  <2>4. \A l \in Logs : ~TrigAdds(l)' /\ (ResAdds(l)' <=> ResAdds(l))
    BY <1>r, <2>1 DEF TrigAdds, ResAdds
  <2> QED BY <2>1, <2>2, <2>3, <2>4 DEF AddShape, Adds, OnceInv, Apart
<1>4. CASE TriggerBulkFails
  <2>1. /\ trig.pc = "bulk" /\ jobs' = jobs /\ logs' = logs
        /\ trig'.run = trig.run /\ trig'.pc = "fallback" /\ trig'.todo = trig.links
    BY <1>0, <1>4 DEF TriggerBulkFails, NoReruns, TrigType
  <2>8. QuietRows
    BY <1>r, <2>1 DEF QuietRows, TrigAdds, ResAdds
  <2> QED BY <2>1, <2>8, QuietAdds
<1>5. ASSUME NEW g \in Groups, FallbackAdd(g) \/ FallbackAddFails(g) PROVE AddShape
  <2> DEFINE l0 == <<trig.run, g>>
  <2>1. /\ trig.pc = "fallback" /\ g \in trig.todo /\ logs' = logs
        /\ jobs' = jobs \/ jobs' = WithOriginal(jobs, l0, trig.text)
        /\ \E failed : trig' = AfterFallback(failed, trig.todo \ {g})
    BY <1>5 DEF FallbackAdd, FallbackAddFails
  <2>2. trig'.pc = "fallback" => trig'.run = trig.run /\ trig'.todo = trig.todo \ {g}
    BY <1>0, <1>i, <2>1 DEF AfterFallback, TrigType
  <2>3. trig'.pc \in {"fallback", "mark", "idle"}
    BY <1>0, <1>i, <2>1 DEF AfterFallback, TrigType
  <2>4. \A l \in Logs : /\ TrigAdds(l)' => TrigAdds(l) /\ l # l0
                        /\ ResAdds(l)' <=> ResAdds(l)
    BY <1>r, <2>1, <2>2, <2>3 DEF TrigAdds, ResAdds, Fans
  <2>5. TrigAdds(l0) /\ l0 \in Logs
    BY <1>0, <2>1 DEF TrigAdds, Fans
  <2>6. \A j \in JobIds : \/ jobs'[j] = jobs[j]
                          \/ jobs'[j].pc = "queued" /\ j = <<LogOf(j), 0>> /\ LogOf(j) = l0
    BY <1>0, <2>1, <2>5, OriginalAdds
  <2> QED BY <2>1, <2>4, <2>5, <2>6 DEF AddShape, Adds, OnceInv, Apart
<1> QED BY <1>1, <1>2, <1>3, <1>4, <1>5 DEF TriggerStep

\* A manual resend adds the job of the run it has created.
LEMMA ResendAdds ==
  ASSUME TypeOK, OriginInv, OnceInv, (\E l \in Logs : ResendRead(l)) \/ ResendStep
  PROVE  AddShape
<1> USE Identifiers DEF tables, session, redisKeys, producers
<1>0. /\ jobs \in [JobIds -> JobType] /\ logs \in [Logs -> RowType] /\ res \in ResType
      /\ res.run \in Runs /\ runs \in 0 .. MaxRuns
      /\ res.pc # "idle" => res.log \in Logs /\ res.log[2] \in Groups
  BY DEF TypeOK, ResType
<1>i. ResIdle.pc = "idle"
  BY DEF ResIdle
<1>t. UNCHANGED trig
  BY Frames
<1>1. CASE (\E l \in Logs : ResendRead(l)) \/ ResendMark \/ ResendFails
  <2>1. res'.pc \in {"create", "idle"} /\ jobs' = jobs
    BY <1>i, <1>1 DEF ResendRead, ResendMark, ResendFails, ResIdle
  <2>2. \A l \in Logs : logs'[l].status = logs[l].status
    BY <1>0, <1>1, SetReasonStatus DEF ResendRead, ResendMark, ResendFails
  <2>8. QuietRows
    BY <1>t, <2>1, <2>2 DEF QuietRows, TrigAdds, ResAdds
  <2> QED BY <2>1, <2>8, QuietAdds
<1>2. CASE ResendCreate
  <2> DEFINE new == <<runs + 1, res.log[2]>>
  <2>1. /\ jobs' = jobs /\ runs + 1 \in Runs /\ res.pc = "create"
        /\ logs' = [logs EXCEPT ![new] = NewRow("null")]
    BY <1>0, <1>2, BoundsAssumption DEF ResendCreate, Runs
  <2>2. res'.pc = "add" /\ res'.run = runs + 1 /\ res'.log = res.log
    BY <1>0, <1>2, <2>1 DEF ResendCreate, ResType
  <2>3. new \in Logs /\ ~Promised(new)
    BY <1>0, <2>1, NewRunUnpromised
  <2>4. NewRow("null").status = "pending"
    BY DEF NewRow
  <2>5. \A l \in Logs : /\ ResAdds(l)' <=> l = new
                        /\ TrigAdds(l)' <=> TrigAdds(l)
    BY <1>t, <2>2 DEF ResAdds, TrigAdds
  <2>6. logs'[new].status = "pending" /\ \A l \in Logs : l # new => logs'[l] = logs[l]
    BY <1>0, <2>1, <2>3, <2>4
  <2>7. Apart'
    BY <2>3, <2>5, AddsPromised DEF Apart, Adds
  <2> QED BY <2>1, <2>3, <2>5, <2>6, <2>7 DEF AddShape, Adds
<1>3. CASE ResendAdd
  <2> DEFINE l0 == <<res.run, res.log[2]>>
  <2>1. /\ res.pc = "add" /\ jobs' = WithOriginal(jobs, l0, res.text) /\ logs' = logs
    BY <1>3 DEF ResendAdd
  <2>2. res'.pc = "mark"
    BY <1>0, <1>3, <2>1 DEF ResendAdd, ResType
  <2>3. l0 \in Logs /\ ResAdds(l0)
    BY <1>0, <2>1 DEF ResAdds
  <2>4. \A l \in Logs : ~ResAdds(l)' /\ (TrigAdds(l)' <=> TrigAdds(l))
    BY <1>t, <2>2 DEF ResAdds, TrigAdds
  <2>5. \A j \in JobIds : \/ jobs'[j] = jobs[j]
                          \/ jobs'[j].pc = "queued" /\ j = <<LogOf(j), 0>> /\ LogOf(j) = l0
    BY <1>0, <2>1, <2>3, OriginalAdds
  <2> QED BY <2>1, <2>3, <2>4, <2>5 DEF AddShape, Adds, OnceInv, Apart
<1> QED BY <1>1, <1>2, <1>3 DEF ResendStep

\* Edits and the environment add nothing.
LEMMA OutsideAdds ==
  ASSUME NoReruns, TypeOK, OnceInv, EditStep \/ EnvironmentStep
  PROVE  AddShape
<1> USE DEF SetSchedule, tables, session, redisKeys, producers
<1>0. logs \in [Logs -> RowType]
  BY DEF TypeOK
<1>1. UNCHANGED <<jobs, trig, res>>
  BY Frames DEF NoReruns, Crash
<1>2. CASE Delete
  <2>1. "delete" \in Stimuli /\ \A l \in Logs : logs'[l].status = "absent"
    BY <1>2 DEF Delete, NoRow
  <2>8. QuietRows
    BY <1>1, <2>1 DEF QuietRows, TrigAdds, ResAdds
  <2> QED BY <1>1, <2>8, QuietAdds
<1>3. CASE ~Delete
  <2>1. \A l \in Logs : logs'[l].status = logs[l].status
    BY <1>0, <1>3 DEF EditStep, EnvironmentStep, Pause, Resume, EditText, Unlink, Link, LockExpires,
       CooldownLapses, Disconnect, Connect, Age, Midnight, Crash, RowType
  <2>8. QuietRows
    BY <1>1, <2>1 DEF QuietRows, TrigAdds, ResAdds
  <2> QED BY <1>1, <2>8, QuietAdds
<1> QED BY <1>2, <1>3

\* A worker keeps its job busy, lets it go, or hands its log over to one other.
LEMMA WorkerBusy ==
  ASSUME TypeOK, NEW j \in JobIds, WorkerStep(j)
  PROVE  \/ \A k \in JobIds : Busy(k)' => Busy(k)
         \/ \E k \in JobIds : /\ LogOf(k) = LogOf(j) /\ Busy(j) /\ ~Busy(j)'
                              /\ \A i \in JobIds : i # k /\ Busy(i)' => Busy(i)
<1>0. jobs \in [JobIds -> JobType]
  BY DEF TypeOK
<1>1. ASSUME NEW k \in JobIds, Requeue(j, k)
      PROVE  /\ LogOf(k) = LogOf(j) /\ Busy(j) /\ ~Busy(j)'
             /\ \A i \in JobIds : i # k /\ Busy(i)' => Busy(i)
  <2>1. /\ jobs[j].pc = "requeue" /\ ~Live(k) /\ LogOf(k) = LogOf(j)
        /\ jobs' = [jobs EXCEPT ![j].pc = "done", ![k] = NewJob(jobs[j].text)]
    BY <1>1 DEF Requeue, AfterRequeue, FreshId
  <2>2. j # k
    BY <2>1 DEF Live
  <2>3. jobs'[j].pc = "done" /\ \A i \in JobIds : i # k /\ i # j => jobs'[i] = jobs[i]
    BY <1>0, <2>1, <2>2 DEF JobType
  <2> QED BY <2>1, <2>3 DEF Busy
<1>2. CASE Finish(j)
  <2>1. jobs[j].pc = "done" => Settled(j).pc = "free"
    BY DEF Settled, NoJob
  <2>2. /\ jobs[j].pc \in {"done", "throw"} /\ jobs'[j] = Settled(j)
        /\ \A k \in JobIds : k # j => jobs'[k] = jobs[k]
    BY <1>0, <1>2 DEF Finish
  <2> QED BY <2>1, <2>2 DEF Busy
<1>3. CASE Live(j) /\ ~Ending(j) /\ \E pc \in WorkerSteps : Goto(j, pc)
  BY <1>0, <1>3 DEF Goto, Live, Ending, Busy
<1> QED BY <1>1, <1>2, <1>3, WorkerMoves

\* A worker changes the status of no row but its own: from "mark" to sent, from
\* "resched" to pending.
LEMMA WorkerRows ==
  ASSUME TypeOK, NEW j \in JobIds, WorkerStep(j), NEW l \in Logs
  PROVE  \/ logs'[l].status = logs[l].status
         \/ /\ l = LogOf(j) /\ Exists(l)
            /\ \/ jobs[j].pc = "mark" /\ jobs'[j].pc = "done" /\ logs'[l].status = "sent"
               \/ jobs[j].pc = "resched" /\ jobs'[j].pc = "requeue" /\ logs'[l].status = "pending"
<1> USE Identifiers DEF tables
<1>0. jobs \in [JobIds -> JobType] /\ logs \in [Logs -> RowType]
  BY DEF TypeOK
<1>1. CASE MarkSent(j)
  BY <1>0, <1>1 DEF MarkSent, Goto, RowType, JobType
<1>2. CASE Resched(j)
  BY <1>0, <1>2 DEF Resched, Goto, RowType, JobType
<1>3. CASE ~MarkSent(j) /\ ~Resched(j)
  <2>1. logs' = logs
    BY <1>3 DEF WorkerStep, Take, CheckLog, Gate, CapCheck, Acquire, AcquireThrows, GiveUp, Deliver,
         SendFails, MarkFails, DatabaseThrows, Requeue, RequeueFails, Finish
  <2> QED BY <2>1
<1> QED BY <1>1, <1>2, <1>3

\* Every step without the loops is a worker's or has the shape.
LEMMA OnceSteps ==
  ASSUME NoReruns, NoLoops, TypeOK, OriginInv, OnceInv, [Next]_vars
  PROVE  AddShape \/ \E j \in JobIds : WorkerStep(j)
<1>1. CASE UNCHANGED vars
  <2>1. QuietRows
    BY <1>1 DEF QuietRows, vars, TrigAdds, ResAdds
  <2>2. jobs' = jobs /\ logs' = logs
    BY <1>1 DEF vars
  <2> QED BY <2>1, <2>2, QuietAdds
<1> QED
  BY <1>1, StepsWithoutLoops, TriggerAdds, ResendAdds, OutsideAdds DEF OnceInv

\* The invariant is kept.
LEMMA OnceKept ==
  ASSUME NoReruns, NoLoops, TypeOK, OriginInv, OnceInv, [Next]_vars
  PROVE  OnceInv'
<1> USE Identifiers
<1>1. LoopsOff'
  BY StepsWithoutLoops DEF OnceInv
<1>2. ASSUME NEW j \in JobIds, WorkerStep(j) PROVE OnceInv'
  <2>1. UNCHANGED <<trig, res>>
    BY <1>2, WorkerMoves
  <2>2. \A l \in Logs : (TrigAdds(l)' <=> TrigAdds(l)) /\ (ResAdds(l)' <=> ResAdds(l))
    BY <2>1 DEF TrigAdds, ResAdds
  <2>3. OneBusy'
    BY <1>2, WorkerBusy DEF OnceInv, OneBusy
  <2>4. ASSUME NEW k \in JobIds, Adds(LogOf(k)), Live(k)' PROVE FALSE
    BY <1>2, <2>4, WorkerTexts DEF OnceInv
  <2>5. ASSUME NEW l \in Logs, logs'[l].status = "sent"
        PROVE  \/ logs[l].status = "sent"
               \/ l = LogOf(j) /\ Busy(j) /\ ~Busy(j)'
    BY <1>2, <2>5, WorkerRows DEF Busy
  <2>6. ASSUME NEW l \in Logs, Adds(l), logs'[l].status = "sent" PROVE FALSE
    BY <2>5, <2>6 DEF OnceInv, Busy, Live
  <2>7. ASSUME NEW k \in JobIds, Busy(k)', logs'[LogOf(k)].status = "sent" PROVE FALSE
    <3>1. PICK i \in JobIds : LogOf(i) = LogOf(k) /\ Busy(i)
      BY <1>2, <2>7, WorkerBusy
    <3>2. logs[LogOf(k)].status # "sent"
      BY <3>1 DEF OnceInv
    <3>3. LogOf(k) = LogOf(j) /\ Busy(j) /\ ~Busy(j)'
      BY <2>5, <2>7, <3>2
    <3>4. ~Busy(k)
      BY <2>7, <3>3 DEF OnceInv, OneBusy
    <3>5. jobs'[j].pc = "done" /\ jobs[j].pc = "mark"
      BY <1>2, <2>7, <3>2, WorkerRows
    <3>6. \A m \in JobIds : m # j => jobs'[m] = jobs[m]
      <4>1. ~Finish(j) /\ ~ \E m \in JobIds : Requeue(j, m)
        BY <3>5 DEF Finish, Requeue
      <4> QED BY <1>2, <4>1, WorkerMoves DEF TypeOK, Goto
    <3> QED BY <2>7, <3>3, <3>4, <3>6 DEF Busy
  <2> QED BY <1>1, <2>2, <2>3, <2>4, <2>6, <2>7 DEF OnceInv, Apart, Adds
<1>3. CASE AddShape
  <2>1. \A l \in Logs : Exists(l) => Promised(l)
    BY DEF OriginInv, Promised
  <2>2. \A l \in Logs : logs'[l].status = "sent" => logs[l].status = "sent"
    BY <1>3 DEF AddShape
  <2>3. OneBusy'
    BY <1>3 DEF AddShape, OnceInv, OneBusy, Busy, Live
  <2>4. \A j \in JobIds : Adds(LogOf(j))' => ~Live(j)'
    BY <1>3 DEF AddShape, OnceInv, OriginInv, Live
  <2>5. \A l \in Logs : Adds(l)' => logs'[l].status # "sent"
    BY <1>3, <2>1, <2>2 DEF AddShape, OnceInv, Exists
  <2>6. \A j \in JobIds : Busy(j)' => logs'[LogOf(j)].status # "sent"
    BY <1>3, <2>2 DEF AddShape, OnceInv, Busy
  <2> QED BY <1>1, <1>3, <2>3, <2>4, <2>5, <2>6 DEF OnceInv, AddShape
<1> QED BY <1>2, <1>3, OnceSteps

\* It holds in every reachable state.
LEMMA OnceHolds == ASSUME NoReruns, NoLoops PROVE Spec => []OnceInv
<1>1. Init => OnceInv
  <2> SUFFICES ASSUME Init PROVE OnceInv
    OBVIOUS
  <2>1. /\ \A j \in JobIds : jobs[j].pc = "free"
        /\ trig.pc = "idle" /\ rec.pc = "idle" /\ rep.pc = "idle" /\ res.pc = "idle"
    BY DEF Init, NoJob, TrigIdle, RecIdle, RepIdle, ResIdle
  <2> QED
    BY <2>1 DEF OnceInv, LoopsOff, OneBusy, Busy, Apart, Adds, TrigAdds, ResAdds
<1> QED BY <1>1, OnceKept, TypeCorrect, RowsComeFirst, PTL DEF Spec

\* Unless a crash or an addBulk that failed after it was applied runs it again,
\* or a recovery loop requeues it, a log has one job at a time that is not
\* ending: retries after failed sends, a busy lock, a full cap, failing stores
\* and a fan-out that falls back to single adds never make a second one.
THEOREM OneJobPerLog == ASSUME NoReruns, NoLoops PROVE Spec => []RequeuedOnce
<1>1. OnceInv => RequeuedOnce
  BY DEF OnceInv, OneBusy, RequeuedOnce, Busy, Live, Ending
<1> QED BY <1>1, OnceHolds, PTL

\* Nor does a row that says "sent" ever change its status again, even where an
\* update fails after a delivery; only deleting the schedule removes it.
THEOREM SentStays ==
  ASSUME NoReruns, NoLoops, "delete" \notin Stimuli
  PROVE  Spec => SentIsFinal
<1>1. TypeOK /\ OriginInv /\ OnceInv /\ [Next]_vars
        => [\A l \in Logs : logs[l].status = "sent" => logs'[l].status = "sent"]_vars
  <2> SUFFICES ASSUME TypeOK, OriginInv, OnceInv, [Next]_vars,
                      NEW l \in Logs, logs[l].status = "sent"
               PROVE  logs'[l].status = "sent"
    OBVIOUS
  <2>1. Promised(l)
    BY DEF OriginInv, Promised, Exists
  <2>2. CASE AddShape
    BY <2>1, <2>2 DEF AddShape
  <2>3. ASSUME NEW j \in JobIds, WorkerStep(j) PROVE logs'[l].status = "sent"
    BY <2>3, WorkerRows DEF OnceInv, Busy
  <2> QED BY <2>2, <2>3, OnceSteps
<1> QED BY <1>1, OnceHolds, TypeCorrect, RowsComeFirst, PTL DEF Spec, SentIsFinal

----------------------------------------------------------------------------
(* One delivery *)

\* The update after a delivery does not fail while the row exists, and no
\* message goes out in part.
CleanSends == Faults \cap {"database", "partial"} = {}

\* A busy job of a delivered log is about to record the delivery, or finds no
\* row when it looks.
DoneWith(j) ==
    \/ jobs[j].pc = "mark"
    \/ ~Exists(LogOf(j)) /\ jobs[j].pc \in {"queued", "check", "resched", "throw"}

OutInv ==
    /\ AtMostOnce
    /\ \A j \in JobIds : Busy(j) /\ copies[LogOf(j)] > 0 => DoneWith(j)
    /\ \A l \in Logs : Adds(l) => copies[l] = 0

\* A worker touches the row, the deliveries and the jobs of its own log only.
LEMMA WorkerLocal ==
  ASSUME TypeOK, NEW j \in JobIds, WorkerStep(j)
  PROVE  /\ \A k \in JobIds : LogOf(k) # LogOf(j) => jobs'[k] = jobs[k]
         /\ \A l \in Logs : Exists(l)' <=> Exists(l)
         /\ \/ ~CleanSends
            \/ copies' = copies
            \/ /\ jobs[j].pc = "send" /\ logs' = logs
               /\ jobs' = [jobs EXCEPT ![j].pc = "mark"]
               /\ copies' = [copies EXCEPT ![LogOf(j)] = IF @ = 2 THEN 2 ELSE @ + 1]
<1> USE Identifiers DEF tables, session, redisKeys, producers
<1>0. jobs \in [JobIds -> JobType]
  BY DEF TypeOK
<1>1. ASSUME NEW k \in JobIds, LogOf(k) # LogOf(j) PROVE jobs'[k] = jobs[k]
  <2>1. ASSUME NEW i \in JobIds, Requeue(j, i) PROVE jobs'[k] = jobs[k]
    BY <1>0, <1>1, <2>1 DEF Requeue, FreshId
  <2>2. CASE Finish(j)
    BY <1>0, <1>1, <2>2 DEF Finish
  <2>3. CASE \E pc \in WorkerSteps : Goto(j, pc)
    BY <1>0, <1>1, <2>3 DEF Goto
  <2> QED BY <2>1, <2>2, <2>3, WorkerMoves
<1>2. \A l \in Logs : Exists(l)' <=> Exists(l)
  BY WorkerRows DEF Exists
<1>3. Deliver(j) \/ copies' = copies \/ ~CleanSends
  BY DEF WorkerStep, CleanSends, Take, CheckLog, Gate, CapCheck, Acquire, AcquireThrows, GiveUp, SendFails,
         MarkSent, MarkFails, Resched, DatabaseThrows, Requeue, RequeueFails, Finish
<1> QED BY <1>1, <1>2, <1>3 DEF Deliver, CountDelivery, Goto

\* Once a job has nothing left to deliver, it comes to its end.
LEMMA DoneStaysDone ==
  ASSUME CleanSends, TypeOK, NEW j \in JobIds, WorkerStep(j), DoneWith(j)
  PROVE  /\ copies' = copies
         /\ Busy(j)' => DoneWith(j)'
         /\ \A k \in JobIds : k # j => jobs'[k] = jobs[k]
<1> USE DEF tables, session, redisKeys, producers
<1>0. jobs \in [JobIds -> JobType]
  BY DEF TypeOK
<1>1. ~Exists(LogOf(j)) => ~Exists(LogOf(j))'
  BY WorkerLocal, Identifiers
<1>2. copies' = copies
  BY WorkerLocal DEF DoneWith
<1>3. CASE jobs[j].pc = "mark"
  <2>1. MarkSent(j) \/ MarkFails(j)
    BY <1>3 DEF WorkerStep, Take, CheckLog, Gate, CapCheck, Acquire, AcquireThrows, GiveUp, Deliver,
         SendFails, Resched, DatabaseThrows, Requeue, RequeueFails, Finish
  <2>2. CASE MarkSent(j)
    BY <1>0, <1>2, <2>2 DEF MarkSent, Goto, Busy
  <2>3. CASE MarkFails(j)
    <3>1. ~Exists(LogOf(j)) /\ Goto(j, AfterFailure(j))
      BY <2>3 DEF MarkFails, CleanSends
    <3> QED BY <1>0, <1>1, <1>2, <3>1 DEF Goto, AfterFailure, DoneWith
  <2> QED BY <2>1, <2>2, <2>3
<1>4. CASE ~Exists(LogOf(j)) /\ jobs[j].pc \in {"queued", "check", "resched", "throw"}
  <2>1. Take(j) \/ CheckLog(j) \/ DatabaseThrows(j) \/ Finish(j)
    BY <1>4 DEF WorkerStep, Gate, CapCheck, Acquire, AcquireThrows, GiveUp, Deliver,
         SendFails, MarkSent, MarkFails, Resched, Requeue, RequeueFails
  <2>2. CASE Take(j) \/ CheckLog(j) \/ DatabaseThrows(j)
    <3>1. \E pc \in {"check", "done", "throw"} : Goto(j, pc)
      BY <1>4, <2>2 DEF Take, CheckLog, AfterCheck, Exists, Pending, DatabaseThrows
    <3> QED BY <1>0, <1>1, <1>2, <1>4, <3>1 DEF Goto, Busy, DoneWith
  <2>3. CASE Finish(j)
    <3>1. jobs' = [jobs EXCEPT ![j] = Settled(j)]
      BY <2>3 DEF Finish
    <3>2. Settled(j).pc \in {"free", "queued"}
      BY <1>0 DEF Settled, NoJob, JobType
    <3> QED BY <1>0, <1>1, <1>2, <1>4, <3>1, <3>2 DEF Busy, DoneWith
  <2> QED BY <2>1, <2>2, <2>3
<1> QED BY <1>3, <1>4 DEF DoneWith

\* A worker delivers only what was not delivered before.
LEMMA WorkerOut ==
  ASSUME NoReruns, CleanSends, TypeOK, OnceInv, OutInv, NEW j \in JobIds, WorkerStep(j)
  PROVE  OutInv'
<1> USE Identifiers
<1> DEFINE l0 == LogOf(j)
<1>0. jobs \in [JobIds -> JobType] /\ copies \in [Logs -> 0 .. 2] /\ l0 \in Logs
  BY DEF TypeOK
<1>1. /\ \A k \in JobIds : LogOf(k) # l0 => jobs'[k] = jobs[k]
      /\ \A l \in Logs : Exists(l)' <=> Exists(l)
  BY WorkerLocal
<1>2. Live(j)
  BY WorkerMoves DEF Requeue, Finish, Live
<1>3. \A l \in Logs : Adds(l)' <=> Adds(l)
  BY WorkerMoves DEF Adds, TrigAdds, ResAdds
<1>4. ~Adds(l0)
  BY <1>2 DEF OnceInv
<1>5. \A l \in Logs : l # l0 => copies'[l] = copies[l]
  BY <1>0, WorkerLocal
<1>6. \A k \in JobIds : LogOf(k) # l0 /\ Busy(k)' /\ copies'[LogOf(k)] > 0 => DoneWith(k)'
  BY <1>1, <1>5 DEF OutInv, Busy, DoneWith
<1>7. CASE copies[l0] > 0
  <2>1. DoneWith(j) \/ ~Busy(j)
    BY <1>7 DEF OutInv
  <2>2. CASE ~Busy(j)
    <3>1. jobs[j].pc = "done"
      BY <1>2, <2>2 DEF Busy, Live
    <3>2. Finish(j)
      BY <3>1, WorkerMoves DEF Requeue, Ending
    <3>3. jobs' = [jobs EXCEPT ![j] = NoJob] /\ copies' = copies
      BY <3>1, <3>2 DEF Finish, Settled, session
    <3>4. ~Busy(j)' /\ \A k \in JobIds : k # j => jobs'[k] = jobs[k]
      BY <1>0, <3>3 DEF Busy, NoJob
    <3>5. \A k \in JobIds : Busy(k)' /\ copies'[LogOf(k)] > 0 => DoneWith(k)'
      BY <1>1, <3>3, <3>4 DEF OutInv, Busy, DoneWith
    <3> QED BY <1>3, <3>3, <3>5 DEF OutInv, AtMostOnce
  <2>3. CASE DoneWith(j)
    <3>1. /\ copies' = copies
          /\ Busy(j)' => DoneWith(j)'
          /\ \A k \in JobIds : k # j => jobs'[k] = jobs[k]
      BY <2>3, DoneStaysDone
    <3>2. \A k \in JobIds : Busy(k)' /\ copies'[LogOf(k)] > 0 => DoneWith(k)'
      BY <1>1, <3>1 DEF OutInv, Busy, DoneWith
    <3> QED BY <1>3, <3>1, <3>2 DEF OutInv, AtMostOnce
  <2> QED BY <2>1, <2>2, <2>3
<1>8. CASE copies[l0] = 0
  <2>1. CASE copies' = copies
    BY <1>3, <1>6, <1>8, <2>1 DEF OutInv, AtMostOnce
  <2>2. CASE /\ jobs[j].pc = "send" /\ jobs' = [jobs EXCEPT ![j].pc = "mark"]
             /\ copies' = [copies EXCEPT ![l0] = IF @ = 2 THEN 2 ELSE @ + 1]
    <3>1. copies'[l0] = 1 /\ jobs'[j].pc = "mark"
      BY <1>0, <1>8, <2>2
    <3>2. \A k \in JobIds : LogOf(k) = l0 /\ k # j => ~Busy(k)'
      BY <1>0, <2>2 DEF OnceInv, OneBusy, Busy
    <3>3. \A k \in JobIds : Busy(k)' /\ copies'[LogOf(k)] > 0 => DoneWith(k)'
      BY <1>6, <3>1, <3>2 DEF DoneWith
    <3> QED BY <1>3, <1>4, <1>5, <3>1, <3>3 DEF OutInv, AtMostOnce
  <2> QED BY <2>1, <2>2, WorkerLocal
<1> QED BY <1>0, <1>7, <1>8

\* A step that is no worker's delivers nothing.
LEMMA QuietCopies ==
  ASSUME NoLoops, LoopsOff, [Next]_vars, \A j \in JobIds : ~WorkerStep(j)
  PROVE  copies' = copies
BY StepsWithoutLoops, Frames DEF vars

\* The invariant holds in every reachable state.
LEMMA OutHolds == ASSUME NoReruns, NoLoops, CleanSends PROVE Spec => []OutInv
<1>1. Init => OutInv
  <2> SUFFICES ASSUME Init PROVE OutInv
    OBVIOUS
  <2>1. \A l \in Logs : copies[l] = 0
    BY DEF Init
  <2> QED BY <2>1, Identifiers DEF OutInv, AtMostOnce
<1>2. TypeOK /\ OriginInv /\ OnceInv /\ OutInv /\ [Next]_vars => OutInv'
  <2> SUFFICES ASSUME TypeOK, OriginInv, OnceInv, OutInv, [Next]_vars,
                      \A j \in JobIds : ~WorkerStep(j)
               PROVE  OutInv'
    BY WorkerOut
  <2>1. AddShape /\ copies' = copies
    BY OnceSteps, QuietCopies DEF OnceInv
  <2>2. copies \in [Logs -> 0 .. 2] /\ \A l \in Logs : copies[l] > 0 => Promised(l)
    BY DEF TypeOK, OriginInv
  <2>3. \A l \in Logs : Adds(l)' => copies'[l] = 0
    BY <2>1, <2>2 DEF AddShape, OutInv
  <2>4. \A l \in Logs : Exists(l)' /\ copies[l] > 0 => Exists(l)
    BY <2>1, <2>2 DEF AddShape, Exists
  <2>5. ASSUME NEW j \in JobIds, Busy(j)', copies'[LogOf(j)] > 0 PROVE DoneWith(j)'
    <3>1. LogOf(j) \in Logs /\ copies[LogOf(j)] > 0
      BY <2>1, <2>5, Identifiers
    <3>2. ~Adds(LogOf(j))
      BY <3>1 DEF OutInv
    <3>3. jobs'[j] = jobs[j]
      BY <2>1, <3>2 DEF AddShape
    <3> QED BY <2>4, <2>5, <3>1, <3>3 DEF OutInv, Busy, DoneWith
  <2> QED BY <2>1, <2>3, <2>5 DEF OutInv, AtMostOnce
<1> QED BY <1>1, <1>2, OnceHolds, TypeCorrect, RowsComeFirst, PTL DEF Spec

\* A message goes out at most once: the retry of a failed send, a reschedule
\* for a busy lock, a full cap or a lost connection, a fallback of the fan-out,
\* an edit or a deletion in the middle never sends it again.
THEOREM DeliveredOnce ==
  ASSUME NoReruns, NoLoops, CleanSends
  PROVE  Spec => []AtMostOnce
<1>1. OutInv => AtMostOnce
  BY DEF OutInv
<1> QED BY <1>1, OutHolds, PTL

----------------------------------------------------------------------------
(* The outbox *)

ScheduleThere == schedule.status # "deleted"

\* While nobody deletes the schedule, it is there, and so are its rows.
LEMMA NeverDeleted ==
  ASSUME "delete" \notin Stimuli, NoLoops
  PROVE  Spec => []ScheduleThere
<1>1. Init => ScheduleThere
  BY DEF Init, ScheduleThere
<1>2. TypeOK /\ LoopsOff /\ ScheduleThere /\ [Next]_vars => ScheduleThere'
  <2> SUFFICES ASSUME TypeOK, LoopsOff, ScheduleThere, [Next]_vars
               PROVE  ScheduleThere'
    OBVIOUS
  <2> USE DEF ScheduleThere
  <2>1. CASE EditStep
    BY <2>1 DEF TypeOK, EditStep, Pause, Resume, EditText, Unlink, Link, Delete, SetSchedule
  <2>2. CASE ~EditStep
    <3>1. schedule' = schedule
      BY <2>2, StepsWithoutLoops, WorkerMoves, Frames DEF vars
    <3> QED BY <3>1
  <2> QED BY <2>1, <2>2
<1> QED BY <1>1, <1>2, TypeCorrect, LoopsStayOff, PTL DEF Spec

\* Phases change as the statuses and the deliveries of the rows do.
LEMMA SamePhases ==
  ASSUME copies' = copies, \A l \in Logs : logs'[l].status = logs[l].status
  PROVE  UNCHANGED <<[l \in Logs |-> Phase(l)], copies>>
BY DEF Phase, Exists, Pending

\* A worker's step delivers, records or changes nothing the outbox shows.
LEMMA WorkerImplements ==
  ASSUME NoReruns, CleanSends, TypeOK, OriginInv, OnceInv, OutInv, DeliveredInv,
         ScheduleThere, NEW j \in JobIds, WorkerStep(j)
  PROVE  [Ob!Next]_<<[l \in Logs |-> Phase(l)], copies>>
<1> USE Identifiers
<1> DEFINE l0 == LogOf(j)
           phase == [l \in Logs |-> Phase(l)]
<1>0. /\ jobs \in [JobIds -> JobType] /\ logs \in [Logs -> RowType]
      /\ copies \in [Logs -> 0 .. 2] /\ l0 \in Logs
  BY DEF TypeOK
<1>1. Busy(j) => Pending(l0)
  BY <1>0 DEF ScheduleThere, OriginInv, OnceInv, Promised, Exists, Pending, Live, Busy, RowType
<1>2. CASE copies' # copies
  <2>1. /\ jobs[j].pc = "send" /\ logs' = logs
        /\ copies' = [copies EXCEPT ![l0] = IF @ = 2 THEN 2 ELSE @ + 1]
    BY <1>2, WorkerLocal
  <2>2. Pending(l0) /\ Exists(l0)
    BY <1>1, <2>1 DEF Busy, Exists, Pending
  <2>3. copies[l0] = 0
    BY <1>0, <2>1, <2>2 DEF OutInv, Busy, DoneWith
  <2>4. copies' = [copies EXCEPT ![l0] = @ + 1] /\ copies'[l0] = 1
    BY <1>0, <2>1, <2>3
  <2>5. phase[l0] = "owed"
    BY <1>0, <2>2, <2>3 DEF Phase
  <2>6. phase' = [phase EXCEPT ![l0] = "out"]
    <3>1. \A l \in Logs : (Pending(l)' <=> Pending(l)) /\ (Exists(l)' <=> Exists(l))
      BY <2>1 DEF Pending, Exists
    <3>2. \A l \in Logs : Phase(l)' = IF l = l0 THEN "out" ELSE Phase(l)
      BY <1>0, <2>1, <2>2, <2>4, <3>1 DEF Phase
    <3> QED BY <3>2
  <2> QED BY <1>0, <2>4, <2>5, <2>6 DEF Ob!Next, Ob!GoOut
<1>3. CASE copies' = copies /\ \E l \in Logs : logs'[l].status # logs[l].status
  <2>1. /\ \A l \in Logs : l # l0 => logs'[l].status = logs[l].status
        /\ logs'[l0].status # logs[l0].status
    BY <1>3, WorkerRows
  <2>2. Busy(j)
    BY <1>0, <2>1, WorkerRows DEF Busy
  <2>3. logs[l0].status = "pending" /\ jobs[j].pc = "mark" /\ logs'[l0].status = "sent"
    BY <1>0, <1>1, <2>1, <2>2, WorkerRows DEF Pending
  <2>4. copies[l0] # 0
    BY <1>0, <2>3 DEF DeliveredInv
  <2>5. phase[l0] = "out"
    BY <1>0, <2>3, <2>4 DEF Phase, Exists, Pending
  <2>6. phase' = [phase EXCEPT ![l0] = "sent"]
    <3>1. \A l \in Logs : Phase(l)' = IF l = l0 THEN "sent" ELSE Phase(l)
      BY <1>3, <2>1, <2>3 DEF Phase, Exists, Pending
    <3> QED BY <3>1
  <2> QED BY <1>0, <1>3, <2>5, <2>6 DEF Ob!Next, Ob!Record
<1>4. CASE copies' = copies /\ \A l \in Logs : logs'[l].status = logs[l].status
  BY <1>4, SamePhases
<1> QED BY <1>2, <1>3, <1>4

\* Any other step promises the messages of the rows it creates, if any.
LEMMA RestImplements ==
  ASSUME TypeOK, OriginInv, AddShape, "delete" \notin Stimuli, copies' = copies
  PROVE  [Ob!Next]_<<[l \in Logs |-> Phase(l)], copies>>
<1> DEFINE S == {l \in Logs : logs'[l].status # logs[l].status}
           phase == [l \in Logs |-> Phase(l)]
<1>1. CASE S = {}
  BY <1>1, SamePhases
<1>2. CASE S # {}
  <2>1. \A l \in S : ~Promised(l) /\ logs'[l].status = "pending"
    BY DEF AddShape
  <2>2. \A l \in S : ~Exists(l) /\ copies[l] = 0
    BY <2>1 DEF OriginInv, TypeOK, Promised
  <2>3. \A l \in S : phase[l] = "none"
    BY <2>2 DEF Phase
  <2>4. \A l \in Logs : Phase(l)' = IF l \in S THEN "owed" ELSE phase[l]
    BY <2>1, <2>2 DEF Phase, Exists, Pending
  <2>5. phase' = [l \in Logs |-> IF l \in S THEN "owed" ELSE phase[l]]
    BY <2>4
  <2> QED BY <1>2, <2>3, <2>5 DEF Ob!Next, Ob!Promise
<1> QED BY <1>1, <1>2

\* The pipeline is an outbox: a message is promised with its run, goes out
\* exactly once before it is recorded as sent, and stays sent.
THEOREM PipelineIsOutbox ==
  ASSUME NoReruns, NoLoops, CleanSends, "delete" \notin Stimuli
  PROVE  Spec => ImplementsOutbox
<1>1. Init => Ob!Init
  BY DEF Init, Ob!Init, Phase, Exists, NoRow
<1>2. TypeOK /\ OriginInv /\ OnceInv /\ OutInv /\ DeliveredInv /\ ScheduleThere /\ [Next]_vars
        => [Ob!Next]_<<[l \in Logs |-> Phase(l)], copies>>
  <2> SUFFICES ASSUME TypeOK, OriginInv, OnceInv, OutInv, DeliveredInv, ScheduleThere, [Next]_vars
               PROVE  [Ob!Next]_<<[l \in Logs |-> Phase(l)], copies>>
    OBVIOUS
  <2>1. CASE \E j \in JobIds : WorkerStep(j)
    BY <2>1, WorkerImplements
  <2>2. CASE \A j \in JobIds : ~WorkerStep(j)
    <3>1. AddShape /\ copies' = copies
      BY <2>2, OnceSteps, QuietCopies DEF OnceInv
    <3> QED BY <3>1, RestImplements
  <2> QED BY <2>1, <2>2
<1> QED
  BY <1>1, <1>2, TypeCorrect, RowsComeFirst, OnceHolds, OutHolds, DeliveredHolds, NeverDeleted, PTL
     DEF Spec, ImplementsOutbox, Ob!Spec

----------------------------------------------------------------------------
(* No message is left behind *)

\* The process and its stores stay up.
Steady == Faults \cap {"crash", "database", "redis"} = {}

\* The queue may refuse a job.
Lossy == "enqueue" \in Faults

\* A job that gives its log up at its next step, or has.
Drops(j) ==
    \/ jobs[j].pc \in {"free", "done"}
    \/ jobs[j].pc = "throw" /\ LastAttempt(j)

Kept(l)     == \E j \in JobIds : LogOf(j) = l /\ ~Drops(j)
Unserved(l) == \A j \in JobIds : LogOf(j) = l => ~Live(j)

\* A producer has yet to enqueue the log, or to mark it for the loops.
TrigOwes(l) ==
    \/ trig.pc \in {"bulk", "mark"} /\ l \in Fans(trig.run, trig.links)
    \/ /\ trig.pc = "fallback"
       /\ l \in Fans(trig.run, IF trig.failed THEN trig.links ELSE trig.todo)
RepOwes(l) == rep.pc = "enqueue" /\ l = <<rep.run, rep.group>>
Owed(l)    == TrigOwes(l) \/ RepOwes(l) \/ ResAdds(l)

Safe(l) ==
    \/ Kept(l)
    \/ Lossy /\ Recoverable(l)
    \/ Owed(l) /\ Unserved(l)

\* A pending log has a job that will not give it up, a producer that will add
\* its first one or, where the queue may refuse jobs, the mark the loops look for.
OwedInv ==
    /\ \A l \in Logs : Pending(l) => Safe(l)
    /\ trig.pc = "mark" \/ trig.failed => Lossy
    /\ Lossy => \A j \in JobIds : jobs[j].pc = "requeue" /\ Pending(LogOf(j)) => Recoverable(LogOf(j))
    /\ Lossy => rec.pc = "idle" /\ rep.pc = "idle" /\ res.pc = "idle"

\* Jobs are only added.
Grows == \A j \in JobIds : jobs'[j] = jobs[j] \/ (~Live(j) /\ jobs'[j].pc = "queued")

\* What a step that is no worker's may do to the logs the producers owe.
OwedShape ==
    /\ Grows
    /\ \A l \in Logs : Pending(l)' /\ ~Pending(l) => Owed(l)' /\ Unserved(l)'
    /\ \A l \in Logs : Pending(l) /\ Pending(l)' =>
          /\ Lossy /\ Recoverable(l) => Recoverable(l)'
          /\ Owed(l) => Owed(l)' \/ ~Unserved(l)' \/ (Lossy /\ Recoverable(l)')
    /\ trig'.pc = "mark" \/ trig'.failed => Lossy

\* Added jobs keep their logs.
LEMMA GrownJobs ==
  ASSUME Grows, NEW l
  PROVE  /\ Kept(l) => Kept(l)'
         /\ Unserved(l) => Unserved(l)' \/ Kept(l)'
<1>1. ASSUME NEW j \in JobIds, ~Drops(j) PROVE ~Drops(j)'
  BY <1>1 DEF Grows, Drops, Live, LastAttempt
<1>2. ASSUME NEW j \in JobIds, ~Live(j), Live(j)' PROVE ~Drops(j)'
  BY <1>2 DEF Grows, Drops, Live
<1> QED BY <1>1, <1>2 DEF Kept, Unserved

\* Such a step keeps what the invariant says of jobs and rows.
LEMMA ShapeKeepsOwed ==
  ASSUME OwedInv, OwedShape
  PROVE  /\ \A l \in Logs : Pending(l)' => Safe(l)'
         /\ Lossy => \A j \in JobIds : jobs'[j].pc = "requeue" /\ Pending(LogOf(j))'
                        => Recoverable(LogOf(j))'
<1>1. ASSUME NEW l \in Logs, Pending(l)', Pending(l) PROVE Safe(l)'
  <2>1. /\ Kept(l) => Kept(l)'
        /\ Unserved(l) => Unserved(l)' \/ Kept(l)'
    BY GrownJobs DEF OwedShape
  <2>2. Safe(l)
    BY <1>1 DEF OwedInv
  <2>3. Lossy /\ Recoverable(l) => Recoverable(l)'
    BY <1>1 DEF OwedShape
  <2>4. Owed(l) => Owed(l)' \/ ~Unserved(l)' \/ (Lossy /\ Recoverable(l)')
    BY <1>1 DEF OwedShape
  <2> QED BY <2>1, <2>2, <2>3, <2>4 DEF Safe
<1>2. ASSUME NEW l \in Logs, Pending(l)', ~Pending(l) PROVE Safe(l)'
  BY <1>2 DEF OwedShape, Safe
<1>3. ASSUME Lossy, NEW j \in JobIds, jobs'[j].pc = "requeue", Pending(LogOf(j))'
      PROVE  Recoverable(LogOf(j))'
  <2>1. jobs'[j] = jobs[j] /\ Live(j)'
    BY <1>3 DEF OwedShape, Grows, Live
  <2>2. Pending(LogOf(j))
    BY <1>3, <2>1, Identifiers DEF OwedShape, Unserved
  <2> QED BY <1>3, <2>1, <2>2, Identifiers DEF OwedInv, OwedShape
<1> QED BY <1>1, <1>2, <1>3

\* A step that touches no row the pipeline can see and leaves the debts alone.
LEMMA QuietOwed ==
  ASSUME Grows, trig'.pc = "mark" \/ trig'.failed => Lossy,
         \A l \in Logs : logs'[l].status = logs[l].status,
         \A l \in Logs : Lossy /\ Recoverable(l) => Recoverable(l)',
         \A l \in Logs : Owed(l) => Owed(l)' \/ ~Unserved(l)'
  PROVE  OwedShape
BY DEF OwedShape, Pending

\* Adding jobs to logs.
LEMMA OriginalGrows ==
  ASSUME jobs \in [JobIds -> JobType], NEW l \in Logs, NEW text,
         jobs' = WithOriginal(jobs, l, text)
  PROVE  Grows /\ ~Unserved(l)'
<1>1. Grows
  BY Identifiers DEF WithOriginal, NewJob, NoJob, Live, Grows
<1>2. <<l, 0>> \in JobIds /\ LogOf(<<l, 0>>) = l
  BY Identifiers DEF LogOf
<1>3. jobs'[<<l, 0>>].pc # "free"
  BY <1>2 DEF WithOriginal, NewJob, NoJob
<1> QED BY <1>1, <1>2, <1>3 DEF Unserved, Live

\* The trigger owes the rows it has created until it has enqueued them.
LEMMA TriggerOwed ==
  ASSUME Steady, TypeOK, OriginInv, OwedInv, TriggerRead \/ TriggerStep
  PROVE  OwedShape
<1> USE Identifiers DEF tables, session, redisKeys, producers
<1>0. /\ jobs \in [JobIds -> JobType] /\ logs \in [Logs -> RowType] /\ trig \in TrigType
      /\ trig.run \in Runs
      /\ trig.pc = "mark" \/ trig.failed => Lossy
  BY DEF TypeOK, TrigType, OwedInv
<1>i. TrigIdle.pc = "idle" /\ TrigIdle.failed = FALSE
  BY DEF TrigIdle
<1>r. \A l \in Logs : (RepOwes(l)' <=> RepOwes(l)) /\ (ResAdds(l)' <=> ResAdds(l))
  BY Frames DEF RepOwes, ResAdds
<1>1. CASE TriggerRead \/ TriggerCreateFails
  <2>1. /\ trig.pc \in {"idle", "create"} /\ trig'.failed = FALSE /\ trig'.pc # "mark"
        /\ jobs' = jobs /\ logs' = logs
    BY <1>1, <1>i DEF TriggerRead, TriggerCreateFails, TrigIdle
  <2>2. \A l \in Logs : ~TrigOwes(l)
    BY <2>1 DEF TrigOwes
  <2> QED BY <1>r, <2>1, <2>2, QuietOwed DEF Grows, Owed, Recoverable
<1>2. CASE TriggerCreate
  <2> DEFINE S == Fans(runs + 1, trig.links)
  <2>1. /\ jobs' = jobs /\ trig.pc = "create" /\ trig'.pc = "bulk" /\ trig'.run = runs + 1
        /\ trig'.links = trig.links /\ trig'.failed = trig.failed
        /\ \A l \in Logs : logs'[l] = IF l \in S THEN NewRow("null") ELSE logs[l]
    BY <1>0, <1>2 DEF TriggerCreate, TrigType
  <2>2. \A l \in Logs : l \in S => TrigOwes(l)' /\ ~Promised(l)
    BY <2>1, NewRunUnpromised DEF TrigOwes, Fans
  <2>3. \A l \in Logs : l \in S => Unserved(l)' /\ ~Pending(l)
    BY <2>1, <2>2 DEF OriginInv, Unserved, Live, Promised, Exists, Pending
  <2>4. \A l \in Logs : ~TrigOwes(l)
    BY <2>1 DEF TrigOwes
  <2> QED BY <1>0, <1>r, <2>1, <2>2, <2>3, <2>4 DEF OwedShape, Grows, Owed, Pending, Recoverable
<1>3. ASSUME jobs' = WithAll(Fans(trig.run, trig.links), trig.text)
      PROVE  Grows /\ \A l \in Logs : l \in Fans(trig.run, trig.links) => ~Unserved(l)'
  <2>1. Grows
    BY <1>3 DEF WithAll, NewJob, NoJob, Grows
  <2>2. \A l \in Logs : <<l, 0>> \in JobIds /\ LogOf(<<l, 0>>) = l
    BY DEF LogOf
  <2>3. \A l \in Logs : l \in Fans(trig.run, trig.links) => jobs'[<<l, 0>>].pc # "free"
    BY <1>3, <2>2 DEF WithAll, NewJob, NoJob, Live
  <2> QED BY <2>1, <2>2, <2>3 DEF Unserved, Live
<1>4. CASE TriggerBulk
  <2>1. /\ trig.pc = "bulk" /\ logs' = logs /\ trig' = TrigIdle
        /\ jobs' = WithAll(Fans(trig.run, trig.links), trig.text)
    BY <1>4 DEF TriggerBulk
  <2>2. \A l \in Logs : TrigOwes(l) => ~Unserved(l)'
    BY <1>3, <2>1 DEF TrigOwes
  <2> QED BY <1>3, <1>i, <1>r, <2>1, <2>2, QuietOwed DEF Owed, Recoverable
<1>5. CASE TriggerBulkFails
  <2>1. /\ trig.pc = "bulk" /\ logs' = logs
        /\ jobs' = jobs \/ jobs' = WithAll(Fans(trig.run, trig.links), trig.text)
        /\ trig'.pc = "fallback" /\ trig'.failed = trig.failed
        /\ trig'.run = trig.run /\ trig'.links = trig.links /\ trig'.todo = trig.links
    BY <1>0, <1>5 DEF TriggerBulkFails, TrigType
  <2>2. Grows
    BY <1>3, <2>1 DEF Grows
  <2>3. \A l \in Logs : TrigOwes(l) => TrigOwes(l)'
    BY <2>1 DEF TrigOwes
  <2> QED BY <1>0, <1>r, <2>1, <2>2, <2>3, QuietOwed DEF Owed, Recoverable
<1>6. ASSUME NEW g \in Groups, FallbackAdd(g) \/ FallbackAddFails(g) PROVE OwedShape
  <2> DEFINE l0 == <<trig.run, g>>
  <2>0. l0 \in Logs
    BY <1>0
  <2>1. /\ trig.pc = "fallback" /\ logs' = logs /\ g \in trig.todo
        /\ \/ jobs' = jobs /\ Lossy /\ trig' = AfterFallback(TRUE, trig.todo \ {g})
           \/ /\ jobs' = WithOriginal(jobs, l0, trig.text)
              /\ trig' = AfterFallback(trig.failed, trig.todo \ {g})
    BY <1>6 DEF FallbackAdd, FallbackAddFails, Lossy
  <2>2. Grows
    BY <1>0, <2>0, <2>1, OriginalGrows DEF Grows
  <2>3. ASSUME NEW failed \in BOOLEAN, trig' = AfterFallback(failed, trig.todo \ {g}),
               trig.failed => failed
        PROVE  /\ trig'.pc = "mark" \/ trig'.failed => failed
               /\ \A l \in Logs : TrigOwes(l) => TrigOwes(l)' \/ (~failed /\ l = l0)
    <3>1. CASE trig.todo \ {g} # {}
      <4>1. /\ trig'.pc = "fallback" /\ trig'.failed = failed /\ trig'.run = trig.run
            /\ trig'.links = trig.links /\ trig'.todo = trig.todo \ {g}
        BY <1>0, <2>1, <2>3, <3>1 DEF AfterFallback, TrigType
      <4>2. trig.todo \subseteq trig.links
        BY <2>1 DEF OriginInv
      <4>3. CASE failed
        BY <2>1, <4>1, <4>2, <4>3 DEF TrigOwes, Fans
      <4>4. CASE ~failed
        <5>1. ~trig.failed /\ ~trig'.failed
          BY <2>3, <4>1, <4>4
        <5> QED BY <2>1, <4>1, <4>4, <5>1 DEF TrigOwes, Fans
      <4> QED BY <4>3, <4>4
    <3>2. CASE trig.todo \ {g} = {} /\ failed
      <4>1. trig'.pc = "mark" /\ trig'.run = trig.run /\ trig'.links = trig.links
        BY <1>0, <2>1, <2>3, <3>2 DEF AfterFallback, TrigType
      <4> QED BY <2>1, <3>2, <4>1 DEF TrigOwes, Fans, OriginInv
    <3>3. CASE trig.todo \ {g} = {} /\ ~failed
      <4>1. trig'.pc = "idle" /\ trig'.failed = FALSE
        BY <1>i, <2>3, <3>3 DEF AfterFallback
      <4> QED BY <2>1, <2>3, <3>3, <4>1 DEF TrigOwes, Fans
    <3> QED BY <3>1, <3>2, <3>3
  <2>4. trig.failed \in BOOLEAN
    BY <1>0 DEF TrigType
  <2>5. /\ trig'.pc = "mark" \/ trig'.failed => Lossy
        /\ \A l \in Logs : TrigOwes(l) => TrigOwes(l)' \/ ~Unserved(l)'
    BY <1>0, <2>0, <2>1, <2>3, <2>4, OriginalGrows
  <2> QED BY <1>r, <2>1, <2>2, <2>5, QuietOwed DEF Owed, Recoverable
<1>7. CASE FallbackMark
  <2>1. /\ trig.pc = "mark" /\ trig' = TrigIdle /\ jobs' = jobs /\ logs' = MarkedForRetry
    BY <1>7 DEF FallbackMark
  <2>2. \A l \in Logs : /\ Pending(l)' <=> Pending(l)
                        /\ Recoverable(l) => Recoverable(l)'
                        /\ Pending(l) /\ TrigOwes(l) => Recoverable(l)'
    BY <1>0, <2>1 DEF MarkedForRetry, Pending, Recoverable, TrigOwes, RowType
  <2> QED BY <1>0, <1>i, <1>r, <2>1, <2>2 DEF OwedShape, Grows, Owed
<1>8. ~FallbackMarkFails
  BY DEF FallbackMarkFails, Steady
<1> QED BY <1>1, <1>2, <1>4, <1>5, <1>6, <1>7, <1>8 DEF TriggerStep

\* The reconcile loop adds jobs and marks.
LEMMA ReconcileOwed ==
  ASSUME TypeOK, OwedInv, ReconcileScan \/ ReconcileStep, ~Lossy
  PROVE  OwedShape
<1> USE Identifiers DEF tables, session, redisKeys, producers
<1>0. jobs \in [JobIds -> JobType] /\ logs \in [Logs -> RowType]
  BY DEF TypeOK
<1>1. UNCHANGED <<trig, rep, res>>
  BY DEF ReconcileScan, ReconcileStep, ReconcileAdd, ReconcileAddFails, ReconcileMark, ReconcileMarkFails
<1>2. \A l \in Logs : Owed(l)' <=> Owed(l)
  BY <1>1 DEF Owed, TrigOwes, RepOwes, ResAdds
<1>3. \A l \in Logs : logs'[l].status = logs[l].status
  BY <1>0, SetReasonStatus DEF ReconcileScan, ReconcileStep, ReconcileAdd, ReconcileAddFails,
     ReconcileMark, ReconcileMarkFails
<1>4. Grows
  <2>1. ASSUME NEW l \in Logs, NEW j \in JobIds, ReconcileAdd(l, j) PROVE Grows
    <3>1. ~Live(j) /\ jobs' = [jobs EXCEPT ![j] = NewJob(rec.text)]
      BY <2>1 DEF ReconcileAdd, FreshId
    <3> QED BY <1>0, <3>1 DEF Grows, NewJob, NoJob
  <2>2. CASE \A l \in Logs, j \in JobIds : ~ReconcileAdd(l, j)
    BY <2>2 DEF ReconcileScan, ReconcileStep, ReconcileAddFails, ReconcileMark, ReconcileMarkFails, Grows
  <2> QED BY <2>1, <2>2
<1> QED BY <1>1, <1>2, <1>3, <1>4, QuietOwed DEF OwedInv

\* A repair owes the row it has created until it has enqueued it.
LEMMA RepairOwed ==
  ASSUME TypeOK, OriginInv, OwedInv, (\E r \in Runs : RepairRead(r)) \/ RepairStep, ~Lossy
  PROVE  OwedShape
<1> USE Identifiers DEF tables, session, redisKeys, producers
<1>0. /\ jobs \in [JobIds -> JobType] /\ logs \in [Logs -> RowType] /\ rep \in RepType
      /\ rep.pc \in {"readd", "mark"} => rep.log \in Logs
      /\ rep.pc \in {"create", "enqueue"} => rep.group \in Groups
      /\ rep.run \in Runs
  BY DEF TypeOK, RepType
<1>1. UNCHANGED <<trig, res>>
  BY DEF RepairRead, RepairStep, RepairSurvey, RepairFilter, RepairLookup, RepairReadd,
     RepairMark, RepairCreate, RepairEnqueue, RepairFails
<1>2. \A l \in Logs : (TrigOwes(l)' <=> TrigOwes(l)) /\ (ResAdds(l)' <=> ResAdds(l))
  BY <1>1 DEF TrigOwes, ResAdds
<1>3. trig'.pc = "mark" \/ trig'.failed => Lossy
  BY <1>1 DEF OwedInv
<1>4. CASE RepairCreate
  <2> DEFINE l0 == <<rep.run, rep.group>>
  <2>1. /\ rep.pc = "create" /\ ~Exists(l0) /\ schedule.status # "deleted" /\ jobs' = jobs
        /\ logs' = [logs EXCEPT ![l0] = NewRow("retry")]
        /\ rep' = [rep EXCEPT !.pc = "enqueue"]
    BY <1>4 DEF RepairCreate, RowCreatable
  <2>2. l0 \in Logs
    BY <1>0, <2>1
  <2>3. RepOwes(l0)'
    BY <1>0, <2>1 DEF RepOwes, RepType
  <2>4. Unserved(l0)'
    BY <2>1 DEF OriginInv, Promised, Unserved, Live
  <2>5. \A l \in Logs : /\ l # l0 => logs'[l] = logs[l]
                        /\ ~RepOwes(l)
    BY <1>0, <2>1, <2>2 DEF RepOwes
  <2> QED BY <1>2, <1>3, <2>1, <2>3, <2>4, <2>5 DEF OwedShape, Grows, Owed, Pending
<1>5. CASE RepairReadd \/ RepairEnqueue
  <2>1. PICK l0 \in Logs :
           /\ \E text : jobs' = WithOriginal(jobs, l0, text)
           /\ logs' = logs
           /\ rep.pc = "enqueue" => l0 = <<rep.run, rep.group>>
    BY <1>0, <1>5 DEF RepairReadd, RepairEnqueue
  <2>2. Grows /\ ~Unserved(l0)'
    BY <1>0, <2>1, OriginalGrows
  <2>3. \A l \in Logs : RepOwes(l) => ~Unserved(l)'
    BY <2>1, <2>2 DEF RepOwes
  <2> QED BY <1>2, <1>3, <2>1, <2>2, <2>3, QuietOwed DEF Owed
<1>6. CASE \/ (\E r \in Runs : RepairRead(r)) \/ RepairSurvey \/ RepairFilter
           \/ (\E g \in Groups : RepairLookup(g)) \/ RepairMark \/ RepairFails
  <2>1. rep.pc # "enqueue" /\ jobs' = jobs
    BY <1>6 DEF RepairRead, RepairSurvey, RepairFilter, RepairLookup, RepairMark, RepairFails, Lossy
  <2>2. \A l \in Logs : logs'[l].status = logs[l].status
    BY <1>0, <1>6, SetReasonStatus DEF RepairRead, RepairSurvey, RepairFilter, RepairLookup,
       RepairMark, RepairFails
  <2>3. \A l \in Logs : ~RepOwes(l)
    BY <2>1 DEF RepOwes
  <2> QED BY <1>2, <1>3, <2>1, <2>2, <2>3, QuietOwed DEF Grows, Owed
<1> QED BY <1>4, <1>5, <1>6 DEF RepairStep

\* A manual resend owes the row it has created until it has enqueued it.
LEMMA ResendOwed ==
  ASSUME TypeOK, OriginInv, OwedInv, (\E l \in Logs : ResendRead(l)) \/ ResendStep, ~Lossy
  PROVE  OwedShape
<1> USE Identifiers DEF tables, session, redisKeys, producers
<1>0. /\ jobs \in [JobIds -> JobType] /\ logs \in [Logs -> RowType] /\ res \in ResType
      /\ res.run \in Runs /\ runs \in 0 .. MaxRuns
      /\ res.pc # "idle" => res.log \in Logs /\ res.log[2] \in Groups
  BY DEF TypeOK, ResType
<1>2. \A l \in Logs : (TrigOwes(l)' <=> TrigOwes(l)) /\ (RepOwes(l)' <=> RepOwes(l))
  BY Frames DEF TrigOwes, RepOwes
<1>3. trig'.pc = "mark" \/ trig'.failed => Lossy
  BY Frames DEF OwedInv
<1>4. CASE ResendCreate
  <2>0. runs + 1 \in Runs /\ res.log[2] \in Groups
    BY <1>0, <1>4, BoundsAssumption DEF ResendCreate, Runs
  <2> PICK l0 \in Logs : l0 = <<runs + 1, res.log[2]>>
    BY <2>0
  <2>1. /\ jobs' = jobs /\ res.pc = "create"
        /\ logs' = [logs EXCEPT ![l0] = NewRow("null")]
    BY <1>4 DEF ResendCreate
  <2>2. res'.pc = "add" /\ res'.run = runs + 1 /\ res'.log = res.log
    BY <1>0, <1>4, <2>1 DEF ResendCreate, ResType
  <2>3. ~Promised(l0)
    BY NewRunUnpromised
  <2>4. ResAdds(l0)' /\ Unserved(l0)'
    BY <2>1, <2>2, <2>3 DEF ResAdds, OriginInv, Unserved, Live
  <2>5. ~Pending(l0)
    BY <2>3 DEF OriginInv, Promised, Exists, Pending
  <2>6. \A l \in Logs : /\ l # l0 => logs'[l] = logs[l]
                        /\ ~ResAdds(l)
    BY <1>0, <2>1, <2>3 DEF ResAdds
  <2> QED BY <1>2, <1>3, <2>1, <2>4, <2>5, <2>6 DEF OwedShape, Grows, Owed, Pending
<1>5. CASE ResendAdd
  <2>1. PICK l0 \in Logs : /\ l0 = <<res.run, res.log[2]>> /\ logs' = logs
                           /\ jobs' = WithOriginal(jobs, l0, res.text)
    BY <1>0, <1>5 DEF ResendAdd
  <2>2. Grows /\ ~Unserved(l0)'
    BY <1>0, <2>1, OriginalGrows
  <2>3. \A l \in Logs : ResAdds(l) => ~Unserved(l)'
    BY <2>1, <2>2 DEF ResAdds
  <2> QED BY <1>2, <1>3, <2>1, <2>2, <2>3, QuietOwed DEF Owed
<1>6. CASE (\E l \in Logs : ResendRead(l)) \/ ResendMark \/ ResendFails
  <2>1. res.pc # "add" \/ ResendFails
    BY <1>6 DEF ResendRead, ResendMark
  <2>2. res.pc # "add" /\ jobs' = jobs
    BY <1>6, <2>1 DEF ResendRead, ResendMark, ResendFails, Lossy
  <2>3. \A l \in Logs : logs'[l].status = logs[l].status
    BY <1>0, <1>6, SetReasonStatus DEF ResendRead, ResendMark, ResendFails
  <2>4. \A l \in Logs : ~ResAdds(l)
    BY <2>2 DEF ResAdds
  <2> QED BY <1>2, <1>3, <2>2, <2>3, <2>4, QuietOwed DEF Grows, Owed
<1> QED BY <1>4, <1>5, <1>6 DEF ResendStep

\* Edits and the environment take no debt away but with its row.
LEMMA OutsideOwed ==
  ASSUME Steady, TypeOK, OwedInv, EditStep \/ EnvironmentStep
  PROVE  OwedShape
<1> USE DEF SetSchedule, tables, session, redisKeys, producers
<1>0. logs \in [Logs -> RowType]
  BY DEF TypeOK
<1>1. UNCHANGED <<jobs, trig, rec, rep, res>>
  BY Frames DEF Steady, Crash
<1>2. \A l \in Logs : Owed(l)' <=> Owed(l)
  BY <1>1 DEF Owed, TrigOwes, RepOwes, ResAdds
<1>3. CASE Delete
  <2>1. \A l \in Logs : ~Pending(l)'
    BY <1>3 DEF Delete, NoRow, Pending
  <2> QED BY <1>1, <2>1 DEF OwedShape, Grows, OwedInv
<1>4. CASE ~Delete
  <2>1. \A l \in Logs : logs'[l].status = logs[l].status /\ logs'[l].reason = logs[l].reason
    BY <1>0, <1>4 DEF EditStep, EnvironmentStep, Pause, Resume, EditText, Unlink, Link, LockExpires,
       CooldownLapses, Disconnect, Connect, Age, Midnight, Steady, Crash, RowType
  <2> QED BY <1>1, <1>2, <2>1, QuietOwed DEF Grows, OwedInv, Recoverable
<1> QED BY <1>3, <1>4

\* A worker that does not drop its job keeps its pending log, by this job or its
\* successor, unless the queue refuses the successor.
LEMMA WorkerKeeps ==
  ASSUME Steady, TypeOK, NEW j \in JobIds, WorkerStep(j), ~Drops(j), Pending(LogOf(j))'
  PROVE  Kept(LogOf(j))' \/ (Lossy /\ jobs[j].pc = "requeue" /\ logs' = logs)
<1> USE Identifiers DEF tables, session, redisKeys, producers
<1>0. jobs \in [JobIds -> JobType] /\ logs \in [Logs -> RowType]
  BY DEF TypeOK
<1>1. ASSUME NEW pc, pc \in WorkerSteps \ {"done", "throw"} \/ pc = AfterFailure(j), Goto(j, pc)
      PROVE  Kept(LogOf(j))'
  <2>1. jobs'[j].pc = pc /\ jobs'[j].attempts = jobs[j].attempts
    BY <1>0, <1>1 DEF Goto, JobType
  <2>2. ~Drops(j)'
    BY <1>1, <2>1 DEF Drops, LastAttempt, AfterFailure, WorkerSteps
  <2> QED BY <2>2 DEF Kept
<1>2. CASE \/ Take(j) \/ Gate(j) \/ CapCheck(j) \/ Acquire(j) \/ GiveUp(j) \/ Deliver(j)
           \/ SendFails(j) \/ MarkFails(j) \/ Resched(j)
  <2>1. \E pc : /\ pc \in WorkerSteps \ {"done", "throw"} \/ pc = AfterFailure(j)
                /\ Goto(j, pc)
    <3>1. CASE \/ Take(j) \/ Gate(j) \/ CapCheck(j) \/ Acquire(j)
      BY <3>1 DEF WorkerSteps, Take, Gate, CapCheck, Acquire
    <3>2. CASE GiveUp(j) \/ Deliver(j) \/ SendFails(j) \/ MarkFails(j) \/ Resched(j)
      BY <3>2 DEF WorkerSteps, GiveUp, Deliver, SendFails, MarkFails, Resched
    <3> QED BY <1>2, <3>1, <3>2
  <2> QED BY <1>1, <2>1
<1>3. CASE CheckLog(j)
  <2>1. Goto(j, "gate")
    BY <1>3 DEF CheckLog, AfterCheck, Pending
  <2> QED BY <1>1, <2>1 DEF WorkerSteps
<1>4. ~MarkSent(j) /\ ~AcquireThrows(j) /\ ~DatabaseThrows(j)
  BY <1>0 DEF MarkSent, AcquireThrows, DatabaseThrows, Steady, Pending, Exists, RowType
<1>5. ASSUME NEW k \in JobIds, Requeue(j, k) PROVE Kept(LogOf(j))'
  <2>1. /\ LogOf(k) = LogOf(j)
        /\ jobs' = [jobs EXCEPT ![j].pc = "done", ![k] = NewJob(jobs[j].text)]
    BY <1>5 DEF Requeue, AfterRequeue, FreshId
  <2>2. jobs'[k].pc = "queued"
    BY <1>0, <2>1 DEF NewJob, NoJob
  <2> QED BY <2>1, <2>2 DEF Kept, Drops
<1>6. CASE RequeueFails(j)
  BY <1>6 DEF RequeueFails, Lossy
<1>7. CASE Finish(j)
  <2>1. jobs'[j] = [jobs[j] EXCEPT !.pc = "queued", !.attempts = @ + 1]
    BY <1>0, <1>7 DEF Finish, Settled, Drops
  <2>2. jobs'[j].pc = "queued"
    BY <1>0, <2>1 DEF JobType
  <2> QED BY <2>2 DEF Kept, Drops
<1> QED BY <1>2, <1>3, <1>4, <1>5, <1>6, <1>7 DEF WorkerStep

\* A worker leaves its log as safe as it found it.
LEMMA WorkerOwed ==
  ASSUME Steady, TypeOK, OwedInv, NEW j \in JobIds, WorkerStep(j)
  PROVE  /\ \A l \in Logs : Pending(l)' => Safe(l)'
         /\ Lossy => \A k \in JobIds : jobs'[k].pc = "requeue" /\ Pending(LogOf(k))'
                        => Recoverable(LogOf(k))'
<1> USE Identifiers
<1> DEFINE l0 == LogOf(j)
<1>0. jobs \in [JobIds -> JobType] /\ logs \in [Logs -> RowType] /\ l0 \in Logs
  BY DEF TypeOK
<1>1. Live(j)
  BY WorkerMoves DEF Requeue, Finish, Live
<1>2. \A k \in JobIds : k # j => jobs'[k] = jobs[k] \/ (~Live(k) /\ jobs'[k].pc = "queued")
  <2>1. ASSUME NEW k \in JobIds, Requeue(j, k)
        PROVE  \A i \in JobIds : i # j => jobs'[i] = jobs[i] \/ (~Live(i) /\ jobs'[i].pc = "queued")
    BY <1>0, <2>1 DEF Requeue, FreshId, NewJob, NoJob
  <2>2. CASE Finish(j)
    BY <1>0, <2>2 DEF Finish
  <2>3. CASE \E pc \in WorkerSteps : Goto(j, pc)
    BY <1>0, <2>3 DEF Goto
  <2> QED BY <2>1, <2>2, <2>3, WorkerMoves
<1>3. \/ logs' = logs /\ jobs'[j].pc # "requeue"
      \/ /\ \A l \in Logs : l # l0 => logs'[l] = logs[l]
         /\ ~Pending(l0)'
      \/ /\ \A l \in Logs : l # l0 => logs'[l] = logs[l]
         /\ Recoverable(l0)' /\ jobs'[j].pc = "requeue"
  <2> USE DEF tables
  <2>1. CASE MarkSent(j)
    BY <1>0, <2>1 DEF MarkSent, Pending, RowType
  <2>2. CASE Resched(j)
    BY <1>0, <2>2 DEF Resched, Goto, Recoverable, RowType, JobType
  <2>3. CASE ~MarkSent(j) /\ ~Resched(j)
    <3>1. logs' = logs
      BY <2>3 DEF WorkerStep, Take, CheckLog, Gate, CapCheck, Acquire, AcquireThrows, GiveUp, Deliver,
         SendFails, MarkFails, DatabaseThrows, Requeue, RequeueFails, Finish
    <3>2. ASSUME NEW pc, pc # "requeue", Goto(j, pc) PROVE jobs'[j].pc # "requeue"
      BY <1>0, <3>2 DEF Goto, JobType
    <3>3. CASE Take(j) \/ CheckLog(j) \/ Gate(j) \/ CapCheck(j)
      BY <3>2, <3>3 DEF Take, CheckLog, AfterCheck, Gate, CapCheck
    <3>4. CASE Acquire(j) \/ AcquireThrows(j) \/ GiveUp(j) \/ Deliver(j) \/ SendFails(j)
      BY <3>2, <3>4 DEF Acquire, AcquireThrows, GiveUp, Deliver, SendFails, AfterFailure
    <3>5. CASE MarkFails(j) \/ DatabaseThrows(j) \/ RequeueFails(j)
      BY <3>2, <3>5 DEF MarkFails, DatabaseThrows, RequeueFails, AfterFailure
    <3>6. ASSUME NEW k \in JobIds, Requeue(j, k) PROVE jobs'[j].pc # "requeue"
      <4>1. jobs' = [jobs EXCEPT ![j].pc = "done", ![k] = NewJob(jobs[j].text)]
        BY <3>6 DEF Requeue, AfterRequeue
      <4> QED BY <1>0, <4>1 DEF NewJob, NoJob, JobType
    <3>7. CASE Finish(j)
      <4>1. jobs'[j] = Settled(j)
        BY <1>0, <3>7 DEF Finish
      <4>2. Settled(j).pc \in {"free", "queued"}
        BY <1>0 DEF Settled, NoJob, JobType
      <4> QED BY <3>1, <4>1, <4>2
    <3> QED BY <2>3, <3>1, <3>3, <3>4, <3>5, <3>6, <3>7 DEF WorkerStep
  <2> QED BY <2>1, <2>2, <2>3
<1>4. \A k \in JobIds : k # j /\ ~Drops(k) => ~Drops(k)'
  BY <1>2 DEF Drops, LastAttempt, Live
<1>5. \A l \in Logs : Owed(l)' <=> Owed(l)
  BY WorkerMoves DEF Owed, TrigOwes, RepOwes, ResAdds
<1>6. ASSUME NEW l \in Logs, l # l0, Pending(l)' PROVE Safe(l)'
  <2>1. logs'[l] = logs[l]
    BY <1>3, <1>6
  <2>2. Safe(l)
    BY <1>6, <2>1 DEF OwedInv, Pending
  <2>3. \A k \in JobIds : LogOf(k) = l => jobs'[k] = jobs[k]
    BY <1>6, WorkerLocal
  <2>4. Kept(l) => Kept(l)'
    BY <1>4, <1>6 DEF Kept
  <2>5. Unserved(l) => Unserved(l)'
    BY <2>3 DEF Unserved, Live
  <2> QED BY <1>5, <2>1, <2>2, <2>4, <2>5 DEF Safe, Recoverable
<1>7. CASE /\ \A l \in Logs : l # l0 => logs'[l] = logs[l]
           /\ Recoverable(l0)' /\ jobs'[j].pc = "requeue"
  <2>1. Kept(l0)'
    BY <1>7 DEF Kept, Drops
  <2>2. \A l \in Logs : Pending(l)' => Safe(l)'
    BY <1>6, <2>1 DEF Safe
  <2>3. ASSUME Lossy, NEW k \in JobIds, jobs'[k].pc = "requeue", Pending(LogOf(k))',
               LogOf(k) # l0
        PROVE  Recoverable(LogOf(k))'
    BY <1>2, <1>7, <2>3 DEF OwedInv, Recoverable, Pending
  <2> QED BY <1>7, <2>2, <2>3
<1>8. CASE ~Pending(l0)' /\ \A l \in Logs : l # l0 => logs'[l] = logs[l]
  <2>1. \A l \in Logs : Pending(l)' => Safe(l)'
    BY <1>6, <1>8
  <2>2. ASSUME Lossy, NEW k \in JobIds, jobs'[k].pc = "requeue", Pending(LogOf(k))'
        PROVE  Recoverable(LogOf(k))'
    <3>1. LogOf(k) # l0 /\ k # j
      BY <1>8, <2>2
    <3> QED BY <1>2, <1>8, <2>2, <3>1 DEF OwedInv, Recoverable, Pending
  <2> QED BY <2>1, <2>2
<1>9. CASE logs' = logs /\ jobs'[j].pc # "requeue"
  <2>1. ASSUME Pending(l0)' PROVE Safe(l0)'
    <3>1. Safe(l0) /\ ~Unserved(l0)
      BY <1>0, <1>1, <1>9, <2>1 DEF OwedInv, Pending, Unserved
    <3>2. CASE \E k \in JobIds : k # j /\ LogOf(k) = l0 /\ ~Drops(k)
      BY <1>4, <3>2 DEF Safe, Kept
    <3>3. CASE ~Drops(j)
      <4>1. Kept(l0)' \/ (Lossy /\ jobs[j].pc = "requeue")
        BY <2>1, <3>3, WorkerKeeps
      <4>2. Lossy /\ jobs[j].pc = "requeue" => Recoverable(l0)'
        BY <1>9, <2>1 DEF OwedInv, Pending, Recoverable
      <4> QED BY <4>1, <4>2 DEF Safe
    <3>4. CASE Lossy /\ Recoverable(l0)
      BY <1>9, <3>4 DEF Safe, Recoverable
    <3> QED BY <3>1, <3>2, <3>3, <3>4 DEF Safe, Kept
  <2>2. \A l \in Logs : Pending(l)' => Safe(l)'
    BY <1>6, <2>1
  <2>3. ASSUME Lossy, NEW k \in JobIds, jobs'[k].pc = "requeue", Pending(LogOf(k))'
        PROVE  Recoverable(LogOf(k))'
    BY <1>2, <1>9, <2>3 DEF OwedInv, Recoverable, Pending
  <2> QED BY <2>2, <2>3
<1> QED BY <1>3, <1>7, <1>8, <1>9

\* Where the queue may refuse jobs, the producers beside the trigger are off.
QueueOrLoops == Lossy => Stimuli \cap {"resend", "reconcile", "repair"} = {}

\* They stay off.
LEMMA ProducersOff ==
  ASSUME Steady, QueueOrLoops, Lossy, rec.pc = "idle", rep.pc = "idle", res.pc = "idle", [Next]_vars
  PROVE  /\ rec'.pc = "idle" /\ rep'.pc = "idle" /\ res'.pc = "idle"
         /\ \/ \E j \in JobIds : WorkerStep(j)
            \/ TriggerRead \/ TriggerStep \/ EditStep \/ EnvironmentStep \/ UNCHANGED vars
<1>1. NoLoops /\ LoopsOff
  BY DEF QueueOrLoops, NoLoops, LoopsOff
<1>2. LoopsOff'
  BY <1>1, StepsWithoutLoops
<1>3. (~ \E l \in Logs : ResendRead(l)) /\ ~ResendStep
  BY DEF QueueOrLoops, ResendRead, ResendStep, ResendCreate, ResendAdd, ResendMark, ResendFails
<1>4. ~Crash
  BY DEF Steady, Crash
<1>5. res' = res
  BY <1>1, <1>3, <1>4, StepsWithoutLoops, WorkerMoves, Frames DEF vars
<1> QED BY <1>1, <1>2, <1>3, <1>5, StepsWithoutLoops DEF LoopsOff

\* As long as the process and its stores stay up, no pending message is left
\* behind: sends that fail, a connection that drops, a full cap, a busy lock, an
\* addBulk whose answer is lost, edits and deletions never leave a row to nobody,
\* and where the queue refuses jobs the row is marked for the loops.
THEOREM NothingStranded ==
  ASSUME Steady, QueueOrLoops
  PROVE  Spec => []NeverStranded
<1>1. Init => OwedInv
  <2> SUFFICES ASSUME Init PROVE OwedInv
    OBVIOUS
  <2>1. /\ \A l \in Logs : ~Pending(l)
        /\ \A j \in JobIds : jobs[j].pc = "free"
        /\ trig.pc = "idle" /\ trig.failed = FALSE
        /\ rec.pc = "idle" /\ rep.pc = "idle" /\ res.pc = "idle"
    BY DEF Init, NoRow, Pending, NoJob, TrigIdle, RecIdle, RepIdle, ResIdle
  <2> QED BY <2>1 DEF OwedInv
<1>2. TypeOK /\ OriginInv /\ OwedInv /\ [Next]_vars => OwedInv'
  <2> SUFFICES ASSUME TypeOK, OriginInv, OwedInv, [Next]_vars PROVE OwedInv'
    OBVIOUS
  <2>1. Lossy => rec'.pc = "idle" /\ rep'.pc = "idle" /\ res'.pc = "idle"
    BY ProducersOff DEF OwedInv
  <2>2. CASE \E j \in JobIds : WorkerStep(j)
    BY <2>1, <2>2, WorkerOwed, WorkerMoves DEF OwedInv
  <2>3. CASE OwedShape
    <3>1. trig'.pc = "mark" \/ trig'.failed => Lossy
      BY <2>3 DEF OwedShape
    <3> QED BY <2>1, <2>3, <3>1, ShapeKeepsOwed DEF OwedInv
  <2>4. CASE UNCHANGED vars
    BY <2>4 DEF vars, OwedInv, Pending, Safe, Kept, Drops, LastAttempt, Recoverable, Owed, TrigOwes,
       RepOwes, ResAdds, Unserved, Live
  <2>5. OwedShape \/ (\E j \in JobIds : WorkerStep(j)) \/ UNCHANGED vars
    <3>1. CASE Lossy
      BY <3>1, ProducersOff, TriggerOwed, OutsideOwed DEF OwedInv
    <3>2. CASE ~Lossy
      BY <3>2, TriggerOwed, ReconcileOwed, RepairOwed, ResendOwed, OutsideOwed
         DEF Next, UserStep, TimerStep
    <3> QED BY <3>1, <3>2
  <2> QED BY <2>2, <2>3, <2>4, <2>5
<1>3. OriginInv /\ OwedInv => NeverStranded
  <2> SUFFICES ASSUME OriginInv, OwedInv, NEW l \in Logs, Pending(l)
               PROVE  Carried(l) \/ AboutToEnqueue(l) \/ Recoverable(l)
    BY DEF NeverStranded
  <2>1. Kept(l) => Carried(l)
    BY DEF Kept, Drops, Carried, Live
  <2>2. Owed(l) => AboutToEnqueue(l)
    BY DEF Owed, TrigOwes, RepOwes, ResAdds, AboutToEnqueue, OriginInv, Fans
  <2> QED BY <2>1, <2>2 DEF OwedInv, Safe
<1> QED BY <1>1, <1>2, <1>3, TypeCorrect, RowsComeFirst, PTL DEF Spec

----------------------------------------------------------------------------
(* The run-completeness loop *)

\* Nothing makes a worker reschedule a log: sends and their updates do not fail,
\* the session stays up, and no table is larger than the cap.
NoReschedules ==
    /\ Faults \cap {"crash", "database", "lockbusy", "send"} = {}
    /\ Stimuli \cap {"connection", "reconcile"} = {}
    /\ Cardinality(Logs) <= DailyCap

\* Then every job has the id of its log, and a job whose row was deleted under
\* it is the only one that tries to reschedule.
OriginalsInv ==
    /\ connected /\ ~cooldown /\ rec.pc = "idle"
    /\ \A j \in JobIds : Live(j) => j[2] = 0
    /\ \A j \in JobIds : /\ jobs[j].pc # "requeue"
                         /\ jobs[j].pc = "resched" => schedule.status = "deleted"
    /\ schedule.status = "deleted" => \A l \in Logs : ~Exists(l)

\* What the other steps may do.
CalmShape ==
    /\ connected' = connected /\ cooldown' = cooldown /\ rec'.pc = "idle" /\ copies' = copies
    /\ \A j \in JobIds : \/ jobs'[j] = jobs[j]
                         \/ jobs'[j].pc = "queued" /\ j[2] = 0 /\ ~Live(j)
    /\ \A l \in Logs : Exists(l) => Delete \/ logs'[l].status = logs[l].status
    /\ schedule.status = "deleted" => schedule'.status = "deleted"
    /\ schedule'.status = "deleted" => \A l \in Logs : ~Exists(l)'

\* The cap is never exceeded.
LEMMA RoomForAll == ASSUME NoReschedules PROVE ~OverCap
<1>1. CountedToday \subseteq Logs /\ IsFiniteSet(Logs)
  BY FiniteLogs DEF CountedToday
<1>2. /\ Cardinality(CountedToday) <= Cardinality(Logs)
      /\ Cardinality(CountedToday) \in Nat /\ Cardinality(Logs) \in Nat
  BY <1>1, FS_Subset, FS_CardinalityType
<1> QED BY <1>2, BoundsAssumption DEF NoReschedules, OverCap

\* A worker's step keeps the invariant.
LEMMA WorkerOriginals ==
  ASSUME NoReschedules, TypeOK, OriginInv, OriginalsInv, NEW j \in JobIds, WorkerStep(j)
  PROVE  OriginalsInv'
<1> USE Identifiers DEF tables, session, redisKeys, producers
<1>0. jobs \in [JobIds -> JobType]
  BY DEF TypeOK
<1>1. UNCHANGED <<schedule, rec>>
  BY WorkerMoves
<1>2. \A l \in Logs : Exists(l)' <=> Exists(l)
  BY WorkerLocal
<1>3. ASSUME NEW pc, Goto(j, pc), pc # "requeue", pc = "resched" => schedule.status = "deleted",
             Live(j), connected' = connected, cooldown' = cooldown
      PROVE  OriginalsInv'
  <2>1. jobs'[j].pc = pc /\ \A k \in JobIds : k # j => jobs'[k] = jobs[k]
    BY <1>0, <1>3 DEF Goto, JobType
  <2> QED BY <1>1, <1>2, <1>3, <2>1 DEF OriginalsInv, Live
<1>4. CASE Take(j) \/ CheckLog(j) \/ CapCheck(j) \/ Acquire(j) \/ AcquireThrows(j) \/ Deliver(j)
           \/ MarkSent(j) \/ DatabaseThrows(j) \/ RequeueFails(j)
  <2>1. \E pc : Goto(j, pc) /\ pc # "requeue" /\ pc # "resched"
    BY <1>4, RoomForAll DEF Take, CheckLog, AfterCheck, CapCheck, Acquire, AcquireThrows, Deliver,
       MarkSent, DatabaseThrows, RequeueFails
  <2>2. Live(j) /\ connected' = connected /\ cooldown' = cooldown
    BY <1>4 DEF Take, CheckLog, CapCheck, Acquire, AcquireThrows, Deliver,
       MarkSent, DatabaseThrows, RequeueFails, Live
  <2> QED BY <1>3, <2>1, <2>2
<1>5. CASE Gate(j)
  <2>1. \A cooling \in CooldownAnswers : ~cooling
    BY DEF CooldownAnswers, OriginalsInv
  <2>2. Goto(j, "count") /\ cooldown' = cooldown /\ connected' = connected
    BY <1>5, <2>1 DEF Gate, OriginalsInv
  <2>3. Live(j)
    BY <1>5 DEF Gate, Live
  <2> QED BY <1>3, <2>2, <2>3
<1>6. CASE MarkFails(j)
  <2>1. /\ Live(j) /\ ~Exists(LogOf(j)) /\ Goto(j, AfterFailure(j))
        /\ connected' = connected /\ cooldown' = cooldown
    BY <1>6 DEF MarkFails, Live, NoReschedules
  <2>2. schedule.status = "deleted"
    BY <2>1 DEF OriginInv, Promised
  <2> QED BY <1>3, <2>1, <2>2 DEF AfterFailure
<1>7. CASE Finish(j)
  <2>1. Settled(j).pc \in {"free", "queued"}
    BY <1>0 DEF Settled, NoJob, JobType
  <2>2. /\ connected' = connected /\ cooldown' = cooldown /\ Live(j)
        /\ jobs'[j].pc \in {"free", "queued"}
        /\ \A k \in JobIds : k # j => jobs'[k] = jobs[k]
    BY <1>0, <1>7, <2>1 DEF Finish, Live
  <2> QED BY <1>1, <1>2, <2>2 DEF OriginalsInv, Live
<1>8. ~GiveUp(j) /\ ~SendFails(j) /\ ~Resched(j) /\ ~ \E k \in JobIds : Requeue(j, k)
  BY DEF GiveUp, SendFails, Resched, Requeue, NoReschedules, OriginalsInv
<1> QED BY <1>4, <1>5, <1>6, <1>7, <1>8 DEF WorkerStep

\* A producer adds a job under the id of its log, unless one is there, and rows
\* that did not exist.
LEMMA ProducerCalm ==
  ASSUME NoReschedules, TypeOK, OriginInv, OriginalsInv,
         \/ TriggerRead \/ TriggerStep
         \/ (\E r \in Runs : RepairRead(r)) \/ RepairStep
         \/ (\E l \in Logs : ResendRead(l)) \/ ResendStep
  PROVE  CalmShape
<1> USE Identifiers DEF tables, session, redisKeys, producers
<1>0. /\ jobs \in [JobIds -> JobType] /\ logs \in [Logs -> RowType]
      /\ trig.run \in Runs /\ res.run \in Runs /\ rep.run \in Runs
      /\ rep.pc \in {"readd", "mark"} => rep.log \in Logs
      /\ rep.pc \in {"create", "enqueue"} => rep.group \in Groups
      /\ res.pc # "idle" => res.log \in Logs /\ res.log[2] \in Groups
  BY DEF TypeOK, TrigType, ResType, RepType
<1>1. UNCHANGED <<connected, cooldown, rec, schedule>>
  <2>1. CASE TriggerRead \/ TriggerStep
    BY <2>1 DEF TriggerRead, TriggerStep, TriggerCreate, TriggerCreateFails, TriggerBulk, TriggerBulkFails,
       FallbackAdd, FallbackAddFails, FallbackMark, FallbackMarkFails
  <2>2. CASE (\E r \in Runs : RepairRead(r)) \/ RepairStep
    BY <2>2 DEF RepairRead, RepairStep, RepairSurvey, RepairFilter, RepairLookup, RepairReadd, RepairMark,
       RepairCreate, RepairEnqueue, RepairFails
  <2>3. CASE (\E l \in Logs : ResendRead(l)) \/ ResendStep
    BY <2>3 DEF ResendRead, ResendStep, ResendCreate, ResendAdd, ResendMark, ResendFails
  <2> QED BY <2>1, <2>2, <2>3
<1> DEFINE Calmly(j) == \/ jobs'[j] = jobs[j]
                        \/ jobs'[j].pc = "queued" /\ j[2] = 0 /\ ~Live(j)
<1>2. ASSUME NEW l \in Logs, NEW text, jobs' = WithOriginal(jobs, l, text)
      PROVE  \A j \in JobIds : Calmly(j)
  BY <1>0, <1>2, OriginalAdds
<1>3. \A j \in JobIds : Calmly(j)
  <2>1. ASSUME NEW ls, NEW text, jobs' = WithAll(ls, text) PROVE \A j \in JobIds : Calmly(j)
    BY <1>0, <2>1 DEF WithAll, NewJob, NoJob
  <2> HIDE DEF Calmly
  <2>2. CASE \E l \in Logs : \E text : jobs' = WithOriginal(jobs, l, text)
    BY <1>2, <2>2
  <2>3. CASE jobs' = jobs
    BY <2>3 DEF Calmly
  <2>4. \/ jobs' = jobs
        \/ \E ls, text : jobs' = WithAll(ls, text)
        \/ \E l \in Logs : \E text : jobs' = WithOriginal(jobs, l, text)
    <3>1. CASE TriggerRead \/ TriggerStep
      BY <1>0, <3>1 DEF TriggerRead, TriggerStep, TriggerCreate, TriggerCreateFails, TriggerBulk,
         TriggerBulkFails, FallbackAdd, FallbackAddFails, FallbackMark, FallbackMarkFails
    <3>2. CASE (\E r \in Runs : RepairRead(r)) \/ RepairStep
      BY <1>0, <3>2 DEF RepairRead, RepairStep, RepairSurvey, RepairFilter, RepairLookup, RepairReadd,
         RepairMark, RepairCreate, RepairEnqueue, RepairFails
    <3>3. CASE (\E l \in Logs : ResendRead(l)) \/ ResendStep
      BY <1>0, <3>3 DEF ResendRead, ResendStep, ResendCreate, ResendAdd, ResendMark, ResendFails
    <3> QED BY <3>1, <3>2, <3>3
  <2> QED BY <2>1, <2>2, <2>3, <2>4, Zenon
<1> HIDE DEF Calmly
<1>4. ASSUME schedule.status = "deleted" PROVE \A l \in Logs : ~Exists(l)'
  <2>1. ~TriggerCreate /\ ~ResendCreate /\ ~RepairCreate
    BY <1>4 DEF TriggerCreate, ResendCreate, RepairCreate, RowCreatable
  <2>2. \A l \in Logs : logs'[l].status = logs[l].status
    <3>1. CASE TriggerRead \/ TriggerStep
      BY <1>0, <2>1, <3>1 DEF TriggerRead, TriggerStep, TriggerCreateFails, TriggerBulk,
         TriggerBulkFails, FallbackAdd, FallbackAddFails, FallbackMark, FallbackMarkFails,
         MarkedForRetry, RowType
    <3>2. CASE (\E r \in Runs : RepairRead(r)) \/ RepairStep
      BY <1>0, <2>1, <3>2, SetReasonStatus DEF RepairRead, RepairStep, RepairSurvey, RepairFilter,
         RepairLookup, RepairReadd, RepairMark, RepairEnqueue, RepairFails
    <3>3. CASE (\E l \in Logs : ResendRead(l)) \/ ResendStep
      BY <1>0, <2>1, <3>3, SetReasonStatus DEF ResendRead, ResendStep, ResendAdd, ResendMark, ResendFails
    <3> QED BY <3>1, <3>2, <3>3
  <2> QED BY <1>4, <2>2 DEF OriginalsInv, Exists
<1>5. copies' = copies
  BY Frames DEF RepairRead, RepairStep, RepairSurvey, RepairFilter, RepairLookup, RepairReadd, RepairMark,
     RepairCreate, RepairEnqueue, RepairFails
<1>6. ASSUME NEW l \in Logs, Exists(l) PROVE logs'[l].status = logs[l].status
  <2>1. /\ l[1] # runs + 1
        /\ \A r, g : l = <<r, g>> => r # runs + 1
        /\ \A links : l \notin Fans(runs + 1, links)
    BY <1>6 DEF OriginInv, TypeOK, Logs, Runs, Fans
  <2>2. CASE TriggerRead \/ TriggerStep
    <3>1. CASE TriggerCreate
      BY <1>6, <2>1, <3>1 DEF TriggerCreate
    <3>2. CASE FallbackMark
      BY <1>0, <3>2 DEF FallbackMark, MarkedForRetry, RowType
    <3>3. CASE ~TriggerCreate /\ ~FallbackMark
      BY <2>2, <3>3 DEF TriggerRead, TriggerStep, TriggerCreateFails, TriggerBulk, TriggerBulkFails,
         FallbackAdd, FallbackAddFails, FallbackMarkFails
    <3> QED BY <3>1, <3>2, <3>3
  <2>3. CASE (\E r \in Runs : RepairRead(r)) \/ RepairStep
    BY <1>0, <1>6, <2>3, SetReasonStatus DEF RepairRead, RepairStep, RepairSurvey, RepairFilter,
       RepairLookup, RepairReadd, RepairMark, RepairCreate, RowCreatable, RepairEnqueue, RepairFails
  <2>4. CASE (\E k \in Logs : ResendRead(k)) \/ ResendStep
    BY <1>0, <1>6, <2>1, <2>4, SetReasonStatus DEF ResendRead, ResendStep, ResendCreate, ResendAdd,
       ResendMark, ResendFails
  <2> QED BY <2>2, <2>3, <2>4
<1> QED BY <1>1, <1>3, <1>4, <1>5, <1>6 DEF CalmShape, OriginalsInv, Calmly

\* Edits and the environment add none.
LEMMA OutsideCalm ==
  ASSUME NoReschedules, TypeOK, OriginalsInv, EditStep \/ EnvironmentStep
  PROVE  CalmShape
<1> USE DEF SetSchedule, tables, session, redisKeys, producers
<1>0. logs \in [Logs -> RowType]
  BY DEF TypeOK
<1>1. /\ ~Crash /\ ~Disconnect /\ ~Connect /\ ~CooldownLapses
  BY DEF NoReschedules, OriginalsInv, Crash, Disconnect, Connect, CooldownLapses
<1>2. UNCHANGED <<jobs, rec, connected, cooldown>>
  BY <1>1 DEF EditStep, EnvironmentStep, Pause, Resume, EditText, Unlink, Link, Delete, LockExpires,
     Age, Midnight
<1>3. /\ schedule.status = "deleted" => schedule'.status = "deleted"
      /\ schedule'.status = "deleted" => schedule.status = "deleted" \/ Delete
  BY <1>1 DEF TypeOK, EditStep, EnvironmentStep, Pause, Resume, EditText, Unlink, Link, Delete,
     LockExpires, Age, Midnight
<1>4. \A l \in Logs : Delete \/ logs'[l].status = logs[l].status
  BY <1>0, <1>1 DEF EditStep, EnvironmentStep, Pause, Resume, EditText, Unlink, Link, LockExpires,
     Age, Midnight, RowType
<1>5. Delete => \A l \in Logs : ~Exists(l)'
  BY DEF Delete, NoRow, Exists
<1>6. copies' = copies
  BY Frames
<1> QED BY <1>2, <1>3, <1>4, <1>5, <1>6 DEF CalmShape, OriginalsInv, Exists

\* Every other step has this shape.
LEMMA CalmSteps ==
  ASSUME NoReschedules, TypeOK, OriginInv, OriginalsInv, Next, \A j \in JobIds : ~WorkerStep(j)
  PROVE  CalmShape
<1>1. ~ReconcileScan /\ ~ReconcileStep
  BY DEF NoReschedules, OriginalsInv, ReconcileScan, ReconcileStep, ReconcileAdd, ReconcileAddFails,
     ReconcileMark, ReconcileMarkFails
<1> QED BY <1>1, ProducerCalm, OutsideCalm DEF Next, UserStep, TimerStep

LEMMA OriginalsHold == ASSUME NoReschedules PROVE Spec => []OriginalsInv
<1>1. Init => OriginalsInv
  <2> SUFFICES ASSUME Init PROVE OriginalsInv
    OBVIOUS
  <2>1. /\ \A j \in JobIds : jobs[j].pc = "free"
        /\ rec.pc = "idle" /\ connected /\ ~cooldown
        /\ schedule.status # "deleted"
    BY DEF Init, NoJob, RecIdle
  <2> QED BY <2>1 DEF OriginalsInv, Live
<1>2. TypeOK /\ OriginInv /\ OriginalsInv /\ [Next]_vars => OriginalsInv'
  <2> SUFFICES ASSUME TypeOK, OriginInv, OriginalsInv, [Next]_vars PROVE OriginalsInv'
    OBVIOUS
  <2>1. CASE CalmShape
    <3>1. \A j \in JobIds : Live(j)' => j[2] = 0
      BY <2>1 DEF CalmShape, OriginalsInv, Live
    <3> QED BY <2>1, <3>1 DEF CalmShape, OriginalsInv
  <2>2. CASE UNCHANGED vars
    BY <2>2 DEF vars, OriginalsInv, Live, Exists
  <2>3. CASE Next
    BY <2>1, <2>3, WorkerOriginals, CalmSteps
  <2> QED BY <2>2, <2>3
<1> QED BY <1>1, <1>2, TypeCorrect, RowsComeFirst, PTL DEF Spec

\* A delivered message went out once.  Its job is about to record that, or has,
\* and whichever job the log is given afterwards stops at the status check.
OverInv ==
    \A l \in Logs : copies[l] > 0 =>
        /\ copies[l] = 1
        /\ jobs[<<l, 0>>].pc \notin {"gate", "count", "lock", "send"}
        /\ Pending(l) => jobs[<<l, 0>>].pc = "mark"

\* A worker's step keeps it.
LEMMA WorkerOver ==
  ASSUME NoReschedules, TypeOK, OriginalsInv, OverInv, NEW j \in JobIds, WorkerStep(j)
  PROVE  OverInv'
<1> USE Identifiers DEF tables, session, redisKeys, producers
<1> DEFINE l0 == LogOf(j)
<1>0. jobs \in [JobIds -> JobType] /\ copies \in [Logs -> 0 .. 2] /\ l0 \in Logs
  BY DEF TypeOK
<1>1. Live(j)
  BY WorkerMoves DEF Requeue, Finish, Live
<1>2. j = <<l0, 0>>
  BY <1>1 DEF OriginalsInv, JobIds, LogOf
<1>3. ~GiveUp(j) /\ ~SendFails(j) /\ ~Resched(j) /\ ~RequeueFails(j) /\ ~ \E k \in JobIds : Requeue(j, k)
  BY DEF GiveUp, SendFails, Resched, Requeue, RequeueFails, NoReschedules, OriginalsInv
<1>4. Deliver(j) \/ copies' = copies
  BY <1>3 DEF WorkerStep, Take, CheckLog, Gate, CapCheck, Acquire, AcquireThrows, MarkSent, MarkFails,
     DatabaseThrows, Finish
<1>5. ASSUME NEW l \in Logs, l # l0, copies'[l] > 0
      PROVE  /\ copies'[l] = 1
             /\ jobs'[<<l, 0>>].pc \notin {"gate", "count", "lock", "send"}
             /\ Pending(l)' => jobs'[<<l, 0>>].pc = "mark"
  <2>1. jobs'[<<l, 0>>] = jobs[<<l, 0>>] /\ logs'[l].status = logs[l].status
    BY <1>5, WorkerLocal, WorkerRows
  <2>2. copies'[l] = copies[l]
    BY <1>0, <1>4, <1>5 DEF Deliver, CountDelivery
  <2> QED BY <1>5, <2>1, <2>2 DEF OverInv, Pending
<1>6. ASSUME copies[l0] > 0
      PROVE  /\ copies' = copies
             /\ jobs'[j].pc \notin {"gate", "count", "lock", "send"}
             /\ Pending(l0)' => jobs'[j].pc = "mark"
  <2>1. /\ jobs[j].pc \notin {"gate", "count", "lock", "send"}
        /\ Pending(l0) => jobs[j].pc = "mark"
    BY <1>2, <1>6 DEF OverInv
  <2>2. Take(j) \/ CheckLog(j) \/ MarkSent(j) \/ MarkFails(j) \/ DatabaseThrows(j) \/ Finish(j)
    BY <1>3, <2>1 DEF WorkerStep, Gate, CapCheck, Acquire, AcquireThrows, Deliver
  <2>3. copies' = copies
    BY <2>2 DEF Take, CheckLog, MarkSent, MarkFails, DatabaseThrows, Finish
  <2>4. CASE Take(j) \/ CheckLog(j) \/ DatabaseThrows(j) \/ Finish(j)
    <3>1. logs' = logs /\ jobs[j].pc # "mark"
      BY <2>4 DEF Take, CheckLog, DatabaseThrows, Finish
    <3>2. CASE Finish(j)
      <4>1. jobs'[j] = Settled(j)
        BY <1>0, <3>2 DEF Finish
      <4>2. Settled(j).pc \in {"free", "queued"}
        BY <1>0 DEF Settled, NoJob, JobType
      <4> QED BY <2>1, <2>3, <3>1, <4>1, <4>2 DEF Pending
    <3>3. CASE Take(j) \/ CheckLog(j) \/ DatabaseThrows(j)
      <4>1. \E pc \in {"check", "done", "throw"} : Goto(j, pc)
        BY <2>1, <3>1, <3>3 DEF Take, CheckLog, AfterCheck, DatabaseThrows
      <4>2. jobs'[j].pc \in {"check", "done", "throw"}
        BY <1>0, <4>1 DEF Goto
      <4> QED BY <2>1, <2>3, <3>1, <4>2 DEF Pending
    <3> QED BY <2>4, <3>2, <3>3
  <2>5. CASE MarkSent(j)
    <3>1. logs'[l0].status # "pending"
      BY <1>0, <2>5 DEF MarkSent, TypeOK, RowType
    <3>2. jobs'[j].pc = "done"
      BY <1>0, <2>5 DEF MarkSent, Goto
    <3> QED BY <2>3, <3>1, <3>2 DEF Pending
  <2>6. CASE MarkFails(j)
    <3>1. ~Exists(l0) /\ logs' = logs /\ Goto(j, AfterFailure(j))
      BY <2>6 DEF MarkFails, NoReschedules
    <3>2. jobs'[j].pc \in {"resched", "throw"}
      BY <1>0, <3>1 DEF Goto, AfterFailure
    <3> QED BY <2>3, <3>1, <3>2 DEF Pending, Exists
  <2> QED BY <2>2, <2>4, <2>5, <2>6
<1>7. ASSUME copies[l0] = 0, copies'[l0] > 0
      PROVE  copies'[l0] = 1 /\ jobs'[j].pc = "mark"
  <2>1. Deliver(j)
    BY <1>4, <1>7
  <2> QED BY <1>0, <1>7, <2>1 DEF Deliver, CountDelivery, Goto
<1>8. ASSUME copies'[l0] > 0
      PROVE  /\ copies'[l0] = 1
             /\ jobs'[j].pc \notin {"gate", "count", "lock", "send"}
             /\ Pending(l0)' => jobs'[j].pc = "mark"
  <2>1. CASE copies[l0] > 0
    BY <1>0, <1>6, <2>1 DEF OverInv
  <2>2. CASE copies[l0] = 0
    BY <1>7, <1>8, <2>2
  <2> QED BY <1>0, <2>1, <2>2
<1> QED BY <1>2, <1>5, <1>8 DEF OverInv

\* So does every other step: it gives a log a job only where there is none, and
\* brings no row back.
LEMMA CalmOver ==
  ASSUME TypeOK, OriginInv, OverInv, CalmShape
  PROVE  OverInv'
<1> SUFFICES ASSUME NEW l \in Logs, copies[l] > 0
             PROVE  /\ copies[l] = 1
                    /\ jobs'[<<l, 0>>].pc \notin {"gate", "count", "lock", "send"}
                    /\ Pending(l)' => jobs'[<<l, 0>>].pc = "mark"
  BY DEF OverInv, CalmShape
<1>1. Pending(l)' => Pending(l)
  <2>1. CASE Exists(l)
    <3>1. CASE Delete
      BY <3>1 DEF Delete, NoRow, Pending
    <3>2. CASE logs'[l].status = logs[l].status
      BY <3>2 DEF Pending
    <3> QED BY <2>1, <3>1, <3>2 DEF CalmShape
  <2>2. CASE ~Exists(l)
    <3>1. ~Exists(l)'
      BY <2>2 DEF OriginInv, Promised, CalmShape
    <3> QED BY <3>1 DEF Exists, Pending
  <2> QED BY <2>1, <2>2
<1>2. CASE jobs'[<<l, 0>>] = jobs[<<l, 0>>]
  BY <1>1, <1>2 DEF OverInv
<1>3. CASE jobs'[<<l, 0>>].pc = "queued" /\ ~Live(<<l, 0>>)
  <2>1. jobs[<<l, 0>>].pc = "free"
    BY <1>3 DEF Live
  <2> QED BY <1>1, <1>3, <2>1 DEF OverInv
<1> QED BY <1>2, <1>3, Identifiers DEF CalmShape

\* The run-completeness loop, which recreates the rows a run lacks and requeues
\* stale ones some awaits after it has read them, never sends a message again,
\* although the row may have been sent meanwhile and the queue has forgotten its
\* job.  So it is however often the loop runs beside edits, resends, a deletion,
\* an addBulk that failed after it was applied and Redis errors that end jobs, as
\* long as no worker reschedules a log.
THEOREM RepairSendsOnce == ASSUME NoReschedules PROVE Spec => []AtMostOnce
<1>1. Init => OverInv
  BY DEF Init, OverInv
<1>2. TypeOK /\ OriginInv /\ OriginalsInv /\ OverInv /\ [Next]_vars => OverInv'
  <2> SUFFICES ASSUME TypeOK, OriginInv, OriginalsInv, OverInv, [Next]_vars PROVE OverInv'
    OBVIOUS
  <2>1. CASE UNCHANGED vars
    BY <2>1 DEF vars, OverInv, Pending
  <2>2. CASE Next
    BY <2>2, WorkerOver, CalmSteps, CalmOver
  <2> QED BY <2>1, <2>2
<1>3. TypeOK /\ OverInv => AtMostOnce
  <2> SUFFICES ASSUME TypeOK, OverInv, NEW l \in Logs PROVE copies[l] <= 1
    BY DEF AtMostOnce
  <2>1. copies[l] \in 0 .. 2 /\ (copies[l] > 0 => copies[l] = 1)
    BY DEF TypeOK, OverInv
  <2> QED BY <2>1
<1> QED BY <1>1, <1>2, <1>3, OriginalsHold, TypeCorrect, RowsComeFirst, PTL DEF Spec
=============================================================================
