------------------------ MODULE ScheduleLifecycle ------------------------
(* SchedulesService for one schedule: the row with its repeatJobKey against the repeatable     *)
(* trigger jobs in Redis, under create, update, remove, crashes and the start of the process.  *)

CONSTANTS
  Requests,       \* REST requests that may be under way at once
  Expressions,    \* cron expressions that pass isValidCron
  Intervals,      \* those parseIntervalFromCron turns into an interval
  Faults,         \* what may go wrong
  None

ASSUME ScheduleIntervals == Intervals \subseteq Expressions
ASSUME ScheduleFaults == Faults \subseteq {"crash", "queue", "database", "flush"}
ASSUME ScheduleNone == None \notin Expressions \union ({"every", "cron"} \X Expressions)

VARIABLES
  row,        \* the Schedule row: status, cronExpression, repeatJobKey
  repeats,    \* repeatable jobs of the schedule in the trigger queue
  req,        \* requests in progress
  boot,       \* "ready" once onApplicationBootstrap has returned: requests are served
  seen        \* history: "overlap", "crash", "error"

vars == <<row, repeats, req, boot, seen>>

(* BullMQ's identity of a repeatable job of the schedule: its pattern or its period, not startDate. *)
Repeats == {"every", "cron"} \X Expressions
RepeatOf(cron) == IF cron \in Intervals THEN <<"every", cron>> ELSE <<"cron", cron>>

NoSchedule == [status |-> "none", cron |-> None, key |-> None]
Exists == row.status \in {"active", "paused"}

NoEdit == [status |-> None, cron |-> None]
Idle == [pc |-> "idle", key |-> None, status |-> None, cron |-> None, edit |-> NoEdit]
Resting == boot = "ready" /\ \A r \in Requests : req[r] = Idle

Init ==
  /\ row = NoSchedule /\ repeats = {} /\ boot = "ready" /\ seen = {}
  /\ req = [r \in Requests |-> Idle]

Goto(r, pc) == req' = [req EXCEPT ![r].pc = pc]
Return(r) == req' = [req EXCEPT ![r] = Idle]

(* A request reads the row while another one is under way. *)
Begins(r) ==
  /\ boot = "ready" /\ req[r] = Idle
  /\ seen' = IF Resting THEN seen ELSE seen \union {"overlap"}

---------------------------------------------------------------------------
(* create() *)

Create(r, cron) ==
  /\ Begins(r) /\ row = NoSchedule
  /\ row' = [status |-> "active", cron |-> cron, key |-> None]
  /\ req' = [req EXCEPT ![r] = [Idle EXCEPT !.pc = "add", !.cron = cron]]
  /\ UNCHANGED <<repeats, boot>>

---------------------------------------------------------------------------
(* update(), pause() and resume(): the dto holds a new status, a new expression, both or neither. *)

Edits == [status: {"active", "paused", None}, cron: Expressions \union {None}]

Chosen(new, old) == IF new = None THEN old ELSE new

(* finalStatus and cron come from the dto, or else from the row as get() read it. *)
Update(r, edit) ==
  /\ Begins(r) /\ Exists
  /\ req' = [req EXCEPT ![r] = [pc |-> "write", key |-> row.key, edit |-> edit,
                                status |-> Chosen(edit.status, row.status),
                                cron |-> Chosen(edit.cron, row.cron)]]
  /\ UNCHANGED <<row, repeats, boot>>

AfterDrop(r) == IF req[r].status = "active" THEN "add" ELSE "clear"

Write(r) ==
  /\ req[r].pc = "write"
  /\ \/ /\ Exists
        /\ row' = [row EXCEPT !.status = Chosen(req[r].edit.status, @),
                              !.cron = Chosen(req[r].edit.cron, @)]
        /\ Goto(r, IF req[r].key # None THEN "drop" ELSE AfterDrop(r))
     \/ ~Exists /\ Return(r) /\ UNCHANGED row
  /\ UNCHANGED <<repeats, boot, seen>>

(* removeRepeat never throws. *)
Drop(r) ==
  /\ req[r].pc = "drop"
  /\ repeats' = repeats \ {req[r].key}
  /\ Goto(r, AfterDrop(r))
  /\ UNCHANGED <<row, boot, seen>>

DropFails(r) ==
  /\ "queue" \in Faults /\ req[r].pc \in {"drop", "detach"}
  /\ Goto(r, IF req[r].pc = "drop" THEN AfterDrop(r) ELSE "delete")
  /\ seen' = seen \union {"error"}
  /\ UNCHANGED <<row, repeats, boot>>

(* upsertRepeat *)
Add(r) ==
  /\ req[r].pc = "add"
  /\ repeats' = repeats \union {RepeatOf(req[r].cron)}
  /\ Goto(r, "key")
  /\ UNCHANGED <<row, boot, seen>>

AddFails(r) ==
  /\ "queue" \in Faults /\ req[r].pc = "add"
  /\ Return(r)
  /\ seen' = seen \union {"error"}
  /\ UNCHANGED <<row, repeats, boot>>

\* Mutants: the key is never stored; the expression is stored instead.
NoKey(r) == None
ExpressionAsKey(r) == req[r].cron

KeyFor(r) == IF req[r].pc = "key" THEN RepeatOf(req[r].cron) ELSE None

(* The update of repeatJobKey throws when the row is gone. *)
SaveKey(r) ==
  /\ req[r].pc \in {"key", "clear"}
  /\ row' = IF Exists THEN [row EXCEPT !.key = KeyFor(r)] ELSE row
  /\ Return(r)
  /\ UNCHANGED <<repeats, boot, seen>>

---------------------------------------------------------------------------
(* remove() *)

Remove(r) ==
  /\ Begins(r) /\ Exists
  /\ req' = [req EXCEPT ![r] = [Idle EXCEPT !.pc = IF row.key # None THEN "detach" ELSE "delete",
                                            !.key = row.key]]
  /\ UNCHANGED <<row, repeats, boot>>

Detach(r) ==
  /\ req[r].pc = "detach"
  /\ repeats' = repeats \ {req[r].key}
  /\ Goto(r, "delete")
  /\ UNCHANGED <<row, boot, seen>>

Delete(r) ==
  /\ req[r].pc = "delete"
  /\ row' = IF Exists THEN [NoSchedule EXCEPT !.status = "deleted"] ELSE row
  /\ Return(r)
  /\ UNCHANGED <<repeats, boot, seen>>

(* A write to the database throws: the request ends where it is. *)
DatabaseThrows(r) ==
  /\ "database" \in Faults /\ req[r].pc \in {"write", "key", "clear", "delete"}
  /\ Return(r)
  /\ seen' = IF req[r].pc = "write" THEN seen ELSE seen \union {"error"}
  /\ UNCHANGED <<row, repeats, boot>>

RequestStep(r) == Write(r) \/ Drop(r) \/ Add(r) \/ SaveKey(r) \/ Detach(r) \/ Delete(r)

---------------------------------------------------------------------------
(* The process ends and starts again; the Redis it finds may be a fresh one. *)

Restart ==
  /\ req' = [r \in Requests |-> Idle]
  /\ boot' = "rehydrate"
  /\ UNCHANGED row

Crash ==
  /\ "crash" \in Faults /\ Restart
  /\ seen' = IF Resting THEN seen ELSE seen \union {"crash"}
  /\ UNCHANGED repeats

FreshRedis ==
  /\ "flush" \in Faults /\ Restart
  /\ seen' = seen \union {"crash"}
  /\ repeats' = {}

\* Mutant: the condition on the key is inverted.
Keyed == row.status = "active" /\ row.key # None

Unregistered == row.status = "active" /\ row.key = None

(* rehydrateRepeats: a cron repeat for an active schedule without a key; nothing is stored. *)
Rehydrate ==
  /\ boot = "rehydrate"
  /\ repeats' = IF Unregistered THEN repeats \union {<<"cron", row.cron>>} ELSE repeats
  /\ boot' = "ready"
  /\ UNCHANGED <<row, req, seen>>

---------------------------------------------------------------------------
Next ==
  \/ \E r \in Requests :
       \/ \E cron \in Expressions : Create(r, cron)
       \/ \E edit \in Edits : Update(r, edit)
       \/ Remove(r) \/ RequestStep(r)
       \/ DropFails(r) \/ AddFails(r) \/ DatabaseThrows(r)
  \/ Crash \/ FreshRedis \/ Rehydrate

Spec == Init /\ [][Next]_vars

---------------------------------------------------------------------------
(* Types; in particular a row knows no key but one removeRepeat can take apart. *)
TypeOK ==
  /\ row \in [status: {"none", "active", "paused", "deleted"}, cron: Expressions \union {None},
              key: Repeats \union {None}]
  /\ repeats \subseteq Repeats
  /\ req \in [Requests -> [pc: {"idle", "write", "drop", "add", "key", "clear", "detach", "delete"},
                           key: Repeats \union {None}, status: {"active", "paused", None},
                           cron: Expressions \union {None}, edit: Edits]]
  /\ boot \in {"ready", "rehydrate"} /\ seen \subseteq {"overlap", "crash", "error"}

(* Requests one after the other, through any number of clean restarts: an active schedule has    *)
(* exactly one repeatable job, of its current expression, and the row knows its key; a paused or *)
(* deleted one has none.                                                                         *)
FiresOnce ==
  seen = {} /\ Resting =>
    /\ repeats = IF row.status = "active" THEN {RepeatOf(row.cron)} ELSE {}
    /\ row.key # None => repeats = {row.key}

(* Whatever a crash interrupted, once the process is up again an active schedule without a key fires. *)
KeylessFires ==
  seen \subseteq {"crash"} /\ Resting /\ row.status = "active" /\ row.key = None => repeats # {}

==========================================================================
