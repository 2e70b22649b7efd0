--------------------- MODULE ScheduleLifecycleProofs ---------------------
(* Proofs about ScheduleLifecycle for any requests, expressions, intervals and faults. *)
EXTENDS ScheduleLifecycle, TLAPS

---------------------------------------------------------------------------
(* Types. A request that will write a key works on an expression, and so does a schedule. *)

Formed ==
  /\ TypeOK
  /\ Exists => row.cron \in Expressions
  /\ \A r \in Requests : /\ req[r].pc = "idle" => req[r] = Idle
                         /\ req[r].pc \in {"write", "drop", "add", "key", "clear"} =>
                              req[r].cron \in Expressions

LEMMA RepeatIsTyped == \A cron \in Expressions : RepeatOf(cron) \in Repeats /\ RepeatOf(cron) # None
  BY ScheduleNone DEF RepeatOf, Repeats

LEMMA ChosenIsTyped ==
  ASSUME Formed, Exists, NEW edit \in Edits
  PROVE  /\ Chosen(edit.status, row.status) \in {"active", "paused"}
         /\ Chosen(edit.cron, row.cron) \in Expressions
  BY DEF Formed, TypeOK, Exists, Edits, Chosen

(* A step of one request keeps the types when it leaves a typed row, typed jobs and a request     *)
(* record of the right form, and touches no other request.                                       *)
States == [pc: {"idle", "write", "drop", "add", "key", "clear", "detach", "delete"},
           key: Repeats \union {None}, status: {"active", "paused", None},
           cron: Expressions \union {None}, edit: Edits]
Rows == [status: {"none", "active", "paused", "deleted"}, cron: Expressions \union {None},
         key: Repeats \union {None}]

LEMMA StepOfRequest ==
  ASSUME Formed, NEW r \in Requests, NEW new \in States,
         req' = [req EXCEPT ![r] = new],
         new.pc = "idle" => new = Idle,
         new.pc \in {"write", "drop", "add", "key", "clear"} => new.cron \in Expressions,
         row' \in Rows, Exists' => row'.cron \in Expressions,
         repeats' \subseteq Repeats, boot' \in {"ready", "rehydrate"},
         seen' \subseteq {"overlap", "crash", "error"}
  PROVE  Formed'
  <1>1. req' \in [Requests -> States]
    BY DEF Formed, TypeOK, States
  <1>2. TypeOK'
    BY <1>1 DEF TypeOK, States, Rows
  <1>3. \A q \in Requests : req'[q] = IF q = r THEN new ELSE req[q]
    BY DEF Formed, TypeOK
  <1> QED BY <1>2, <1>3 DEF Formed

LEMMA IdleIsTyped == Idle \in States /\ Idle.pc = "idle" /\ NoEdit \in Edits
  BY DEF Idle, NoEdit, Edits, States

LEMMA FormedStep == Formed /\ [Next]_vars => Formed'
  <1> SUFFICES ASSUME Formed, [Next]_vars PROVE Formed'
    OBVIOUS
  <1> USE DEF Rows
  <1>typed. /\ row \in Rows /\ repeats \subseteq Repeats /\ boot \in {"ready", "rehydrate"}
            /\ seen \subseteq {"overlap", "crash", "error"}
            /\ \A r \in Requests : req[r] \in States
            /\ Exists => row.cron \in Expressions
    BY DEF Formed, TypeOK, States
  <1>begins. ASSUME NEW r \in Requests, Begins(r)
             PROVE  seen' \subseteq {"overlap", "crash", "error"}
    BY <1>typed, <1>begins DEF Begins
  <1>goto. ASSUME NEW r \in Requests, NEW pc \in {"add", "key", "clear", "drop", "delete"}, Goto(r, pc),
                  pc # "delete" => req[r].cron \in Expressions,
                  row' \in Rows, Exists' => row'.cron \in Expressions,
                  repeats' \subseteq Repeats, boot' \in {"ready", "rehydrate"},
                  seen' \subseteq {"overlap", "crash", "error"}
           PROVE  Formed'
    <2> DEFINE new == [req[r] EXCEPT !.pc = pc]
    <2>1. new \in States /\ new.pc = pc /\ new.cron = req[r].cron
      BY <1>typed DEF States
    <2>2. req' = [req EXCEPT ![r] = new]
      BY <1>goto DEF Goto
    <2> HIDE DEF new
    <2> QED BY <2>1, <2>2, <1>goto, StepOfRequest
  <1>return. ASSUME NEW r \in Requests, Return(r),
                    row' \in Rows, Exists' => row'.cron \in Expressions,
                    repeats' \subseteq Repeats, boot' \in {"ready", "rehydrate"},
                    seen' \subseteq {"overlap", "crash", "error"}
             PROVE  Formed'
    BY <1>return, IdleIsTyped, StepOfRequest DEF Return
  <1>after. ASSUME NEW r \in Requests PROVE AfterDrop(r) \in {"add", "clear"}
    BY DEF AfterDrop
  <1>same. ASSUME UNCHANGED row PROVE row' \in Rows /\ (Exists' => row'.cron \in Expressions)
    BY <1>same, <1>typed DEF Exists
  <1>1. ASSUME NEW r \in Requests, NEW cron \in Expressions, Create(r, cron) PROVE Formed'
    <2> DEFINE new == [Idle EXCEPT !.pc = "add", !.cron = cron]
    <2>1. new \in States /\ new.pc = "add" /\ new.cron = cron
      BY DEF States, Idle, NoEdit, Edits
    <2>2. req' = [req EXCEPT ![r] = new]
      BY <1>1 DEF Create
    <2>3. row' \in Rows /\ row'.cron \in Expressions /\ UNCHANGED <<repeats, boot>>
      BY <1>1 DEF Create
    <2>4. seen' \subseteq {"overlap", "crash", "error"}
      BY <1>1, <1>begins DEF Create
    <2> HIDE DEF new
    <2> QED BY <2>1, <2>2, <2>3, <2>4, <1>typed, StepOfRequest
  <1>2. ASSUME NEW r \in Requests, NEW edit \in Edits, Update(r, edit) PROVE Formed'
    <2> DEFINE new == [pc |-> "write", key |-> row.key, edit |-> edit,
                       status |-> Chosen(edit.status, row.status),
                       cron |-> Chosen(edit.cron, row.cron)]
    <2>1. new \in States /\ new.pc = "write" /\ new.cron \in Expressions
      BY <1>2, <1>typed, ChosenIsTyped DEF States, Update
    <2>2. req' = [req EXCEPT ![r] = new] /\ UNCHANGED <<row, repeats, boot>>
      BY <1>2 DEF Update
    <2>4. seen' \subseteq {"overlap", "crash", "error"}
      BY <1>2, <1>begins DEF Update
    <2> HIDE DEF new
    <2> QED BY <2>1, <2>2, <2>4, <1>typed, <1>same, StepOfRequest
  <1>3. ASSUME NEW r \in Requests, Remove(r) PROVE Formed'
    <2> DEFINE new == [Idle EXCEPT !.pc = IF row.key # None THEN "detach" ELSE "delete", !.key = row.key]
    <2>1. new \in States /\ new.pc \in {"detach", "delete"}
      BY <1>typed DEF States, Idle, NoEdit, Edits
    <2>2. req' = [req EXCEPT ![r] = new] /\ UNCHANGED <<row, repeats, boot>>
      BY <1>3 DEF Remove
    <2>4. seen' \subseteq {"overlap", "crash", "error"}
      BY <1>3, <1>begins DEF Remove
    <2> HIDE DEF new
    <2> QED BY <2>1, <2>2, <2>4, <1>typed, <1>same, StepOfRequest
  <1>4. ASSUME NEW r \in Requests, Write(r) PROVE Formed'
    <2>1. req[r].cron \in Expressions /\ req[r].edit \in Edits
      BY <1>4, <1>typed DEF Write, Formed, States
    <2>2. CASE Exists /\ row' = [row EXCEPT !.status = Chosen(req[r].edit.status, @),
                                           !.cron = Chosen(req[r].edit.cron, @)]
                     /\ Goto(r, IF req[r].key # None THEN "drop" ELSE AfterDrop(r))
      <3>1. /\ Chosen(req[r].edit.status, row.status) \in {"active", "paused"}
            /\ Chosen(req[r].edit.cron, row.cron) \in Expressions
        BY <2>1, <2>2, ChosenIsTyped
      <3>2. row' \in Rows /\ row'.cron \in Expressions
        BY <3>1, <2>2, <1>typed
      <3>3. PICK pc \in {"drop", "add", "clear"} : Goto(r, pc)
        BY <2>2, <1>after
      <3> QED BY <3>2, <3>3, <2>1, <1>4, <1>typed, <1>goto DEF Write
    <2>3. CASE Return(r) /\ UNCHANGED row
      BY <2>3, <1>4, <1>typed, <1>same, <1>return DEF Write
    <2> QED BY <2>2, <2>3, <1>4 DEF Write
  <1>5. ASSUME NEW r \in Requests, Drop(r) PROVE Formed'
    <2>1. req[r].cron \in Expressions
      BY <1>5 DEF Drop, Formed
    <2>2. PICK pc \in {"add", "clear"} : Goto(r, pc)
      BY <1>5, <1>after DEF Drop
    <2> QED BY <2>1, <2>2, <1>5, <1>typed, <1>same, <1>goto DEF Drop
  <1>6. ASSUME NEW r \in Requests, Add(r) PROVE Formed'
    <2>1. req[r].cron \in Expressions
      BY <1>6 DEF Add, Formed
    <2> QED BY <2>1, <1>6, <1>typed, <1>same, <1>goto, RepeatIsTyped DEF Add
  <1>7. ASSUME NEW r \in Requests, SaveKey(r) PROVE Formed'
    <2>1. KeyFor(r) \in Repeats \union {None}
      BY <1>7, RepeatIsTyped DEF SaveKey, KeyFor, Formed
    <2>2. row' \in Rows /\ (Exists' => row'.cron \in Expressions)
      BY <2>1, <1>7, <1>typed DEF SaveKey, Exists
    <2> QED BY <2>2, <1>7, <1>typed, <1>return DEF SaveKey
  <1>8. ASSUME NEW r \in Requests, Detach(r) PROVE Formed'
    BY <1>8, <1>typed, <1>same, <1>goto DEF Detach
  <1>9. ASSUME NEW r \in Requests, Delete(r) PROVE Formed'
    <2>1. row' \in Rows /\ (Exists' => row'.cron \in Expressions)
      BY <1>9, <1>typed DEF Delete, Exists, NoSchedule
    <2> QED BY <2>1, <1>9, <1>typed, <1>return DEF Delete
  <1>10. ASSUME NEW r \in Requests, DropFails(r) PROVE Formed'
    <2>1. PICK pc \in {"add", "clear", "delete"} :
            Goto(r, pc) /\ (pc # "delete" => req[r].cron \in Expressions)
      BY <1>10, <1>after DEF DropFails, Formed
    <2> QED BY <2>1, <1>10, <1>typed, <1>same, <1>goto DEF DropFails
  <1>11. ASSUME NEW r \in Requests, AddFails(r) PROVE Formed'
    BY <1>11, <1>typed, <1>same, <1>return DEF AddFails
  <1>12. ASSUME NEW r \in Requests, DatabaseThrows(r) PROVE Formed'
    BY <1>12, <1>typed, <1>same, <1>return DEF DatabaseThrows
  <1>restart. ASSUME Restart, repeats' \subseteq Repeats, seen' \subseteq {"overlap", "crash", "error"}
              PROVE  Formed'
    BY <1>restart, <1>typed, <1>same, IdleIsTyped DEF Restart, Formed, TypeOK, States
  <1>13. CASE Crash
    BY <1>13, <1>typed, <1>restart DEF Crash
  <1>14. CASE FreshRedis
    BY <1>14, <1>typed, <1>restart DEF FreshRedis
  <1>15. CASE Rehydrate
    <2>1. repeats' \subseteq Repeats
      BY <1>15, <1>typed DEF Rehydrate, Unregistered, Exists, Repeats
    <2> QED BY <2>1, <1>15, <1>same, <1>typed DEF Rehydrate, Formed, TypeOK
  <1>16. CASE UNCHANGED vars
    BY <1>16, <1>same DEF vars, Formed, TypeOK, Exists
  <1> QED
    BY <1>1, <1>2, <1>3, <1>4, <1>5, <1>6, <1>7, <1>8, <1>9, <1>10, <1>11, <1>12, <1>13, <1>14, <1>15,
       <1>16 DEF Next, RequestStep

LEMMA FormedInit == Init => Formed
  BY IdleIsTyped DEF Init, Formed, TypeOK, States, NoSchedule, Exists

(* Whatever the requests, the expressions and the faults, the row keeps a key removeRepeat can take  *)
(* apart, and a schedule that exists has an expression that passed isValidCron.                      *)
THEOREM ScheduleIsFormed == Spec => []Formed
  BY FormedInit, FormedStep, PTL DEF Spec

(* SchedulesService's row, jobs and requests keep their types.                                    *)
THEOREM ScheduleTypes == Spec => []TypeOK
  <1>1. Formed => TypeOK
    BY DEF Formed
  <1> QED BY <1>1, ScheduleIsFormed, PTL

---------------------------------------------------------------------------
(* What a request in progress still owes, when it alone has worked on the schedule: the row is    *)
(* ahead of the repeatable jobs by exactly the steps that are left to it.                         *)

Due == IF row.status = "active" THEN RepeatOf(row.cron) ELSE None
Agreed == repeats = (IF row.status = "active" THEN {RepeatOf(row.cron)} ELSE {}) /\ row.key = Due

Ahead(r) == row.status = req[r].status /\ row.cron = req[r].cron

Owes(r) ==
  CASE req[r].pc = "write" -> /\ Agreed /\ Exists /\ req[r].key = row.key
                              /\ req[r].status = Chosen(req[r].edit.status, row.status)
                              /\ req[r].cron = Chosen(req[r].edit.cron, row.cron)
    [] req[r].pc = "drop" -> Exists /\ Ahead(r) /\ repeats = {req[r].key}
    [] req[r].pc = "add" -> row.status = "active" /\ row.cron = req[r].cron /\ repeats = {}
    [] req[r].pc = "key" -> /\ row.status = "active" /\ row.cron = req[r].cron
                            /\ repeats = {RepeatOf(row.cron)}
    [] req[r].pc = "clear" -> row.status = "paused" /\ repeats = {}
    [] req[r].pc = "detach" -> Exists /\ repeats = {req[r].key}
    [] req[r].pc = "delete" -> Exists /\ repeats = {}
    [] OTHER -> TRUE

Alone(r) == \A q \in Requests \ {r} : req[q].pc = "idle"
Calm == \A r \in Requests : req[r].pc = "idle"

Ordered ==
  seen = {} =>
    /\ \A r \in Requests : req[r].pc # "idle" => boot = "ready" /\ Alone(r) /\ Owes(r)
    /\ Calm => Agreed

(* A step of the only request at work. *)
LEMMA StepAlone ==
  ASSUME Formed, NEW r \in Requests, NEW new, Alone(r), boot' = "ready",
         req' = [req EXCEPT ![r] = new],
         new.pc # "idle" => Owes(r)',
         new.pc = "idle" => Agreed'
  PROVE  Ordered'
  <1>1. req'[r] = new /\ \A q \in Requests \ {r} : req'[q] = req[q]
    BY DEF Formed, TypeOK
  <1>2. \A q \in Requests \ {r} : req'[q].pc = "idle"
    BY <1>1 DEF Alone
  <1>3. ASSUME NEW q \in Requests, req'[q].pc # "idle"
        PROVE  boot' = "ready" /\ Alone(q)' /\ Owes(q)'
    <2>1. q = r
      BY <1>2, <1>3
    <2> QED BY <2>1, <1>1, <1>2, <1>3 DEF Alone
  <1>4. Calm' => Agreed'
    BY <1>1 DEF Calm
  <1> QED BY <1>3, <1>4 DEF Ordered

LEMMA OrderedStep == Formed /\ Ordered /\ [Next]_vars => Ordered'
  <1> SUFFICES ASSUME Formed, Ordered, [Next]_vars, seen' = {} PROVE Ordered'
    BY DEF Ordered
  <1>typed. /\ row \in Rows /\ repeats \subseteq Repeats
            /\ \A r \in Requests : req[r] \in States
            /\ Exists => row.cron \in Expressions
    BY DEF Formed, TypeOK, States, Rows
  <1>due. row.status = "active" => Due = RepeatOf(row.cron) /\ Due # None
    BY <1>typed, RepeatIsTyped DEF Due, Exists
  <1>acting. ASSUME NEW r \in Requests, req[r].pc # "idle", seen = {}
             PROVE  boot = "ready" /\ Alone(r) /\ Owes(r)
    BY <1>acting DEF Ordered
  <1>begins. ASSUME NEW r \in Requests, Begins(r)
             PROVE  boot = "ready" /\ Alone(r) /\ Agreed
    <2>1. seen = {} /\ Resting
      BY <1>begins DEF Begins
    <2>2. \A q \in Requests : req[q].pc = "idle"
      BY <2>1 DEF Resting, Idle
    <2> QED BY <2>1, <2>2, <1>begins DEF Ordered, Calm, Alone, Begins
  <1>goto. ASSUME NEW r \in Requests, NEW pc, Goto(r, pc), pc # "idle", Alone(r), boot' = "ready", Owes(r)'
           PROVE  Ordered'
    <2> DEFINE new == [req[r] EXCEPT !.pc = pc]
    <2>1. new.pc = pc
      BY <1>typed DEF States
    <2>2. req' = [req EXCEPT ![r] = new]
      BY <1>goto DEF Goto
    <2> HIDE DEF new
    <2> QED BY <2>1, <2>2, <1>goto, StepAlone
  <1>went. ASSUME NEW r \in Requests, NEW pc, Goto(r, pc)
           PROVE  /\ req'[r].pc = pc /\ req'[r].key = req[r].key
                  /\ req'[r].status = req[r].status /\ req'[r].cron = req[r].cron
    BY <1>went, <1>typed DEF Goto, Formed, TypeOK, States
  <1>return. ASSUME NEW r \in Requests, Return(r), Alone(r), boot' = "ready", Agreed' PROVE Ordered'
    BY <1>return, IdleIsTyped, StepAlone DEF Return
  <1>1. ASSUME NEW r \in Requests, NEW cron \in Expressions, Create(r, cron) PROVE Ordered'
    <2> DEFINE new == [Idle EXCEPT !.pc = "add", !.cron = cron]
    <2>1. Alone(r) /\ Agreed /\ boot' = "ready"
      BY <1>1, <1>begins DEF Create
    <2>2. new.pc = "add" /\ new.cron = cron
      BY DEF Idle
    <2>3. req' = [req EXCEPT ![r] = new] /\ req'[r] = new
      BY <1>1 DEF Create, Formed, TypeOK
    <2> HIDE DEF new
    <2>4. row'.status = "active" /\ row'.cron = cron /\ repeats' = {}
      BY <1>1, <2>1 DEF Create, Agreed, NoSchedule
    <2>5. Owes(r)'
      BY <2>2, <2>3, <2>4 DEF Owes
    <2> QED BY <2>1, <2>2, <2>3, <2>5, StepAlone
  <1>2. ASSUME NEW r \in Requests, NEW edit \in Edits, Update(r, edit) PROVE Ordered'
    <2> DEFINE new == [pc |-> "write", key |-> row.key, edit |-> edit,
                       status |-> Chosen(edit.status, row.status),
                       cron |-> Chosen(edit.cron, row.cron)]
    <2>1. Alone(r) /\ Agreed /\ Exists /\ boot' = "ready"
      BY <1>2, <1>begins DEF Update
    <2>2. /\ new.pc = "write" /\ new.key = row.key
          /\ new.status = Chosen(new.edit.status, row.status) /\ new.cron = Chosen(new.edit.cron, row.cron)
      OBVIOUS
    <2>3. req' = [req EXCEPT ![r] = new] /\ req'[r] = new /\ UNCHANGED <<row, repeats>>
      BY <1>2 DEF Update, Formed, TypeOK
    <2> HIDE DEF new
    <2>4. Agreed' /\ Exists'
      BY <2>1, <2>3 DEF Agreed, Exists, Due
    <2>5. Owes(r)'
      BY <2>2, <2>3, <2>4 DEF Owes, Chosen
    <2> QED BY <2>1, <2>2, <2>3, <2>5, StepAlone
  <1>3. ASSUME NEW r \in Requests, Remove(r) PROVE Ordered'
    <2> DEFINE new == [Idle EXCEPT !.pc = IF row.key # None THEN "detach" ELSE "delete", !.key = row.key]
    <2>1. Alone(r) /\ Agreed /\ Exists /\ boot' = "ready"
      BY <1>3, <1>begins DEF Remove
    <2>2. new.pc = (IF row.key # None THEN "detach" ELSE "delete") /\ new.key = row.key
      BY DEF Idle
    <2>3. req' = [req EXCEPT ![r] = new] /\ req'[r] = new /\ UNCHANGED <<row, repeats>>
      BY <1>3 DEF Remove, Formed, TypeOK
    <2> HIDE DEF new
    <2>4. repeats = IF row.key # None THEN {row.key} ELSE {}
      BY <2>1, <1>due DEF Agreed, Due
    <2>5. Owes(r)'
      BY <2>1, <2>2, <2>3, <2>4 DEF Owes, Exists
    <2> QED BY <2>1, <2>2, <2>3, <2>5, StepAlone
  <1>4. ASSUME NEW r \in Requests, Write(r) PROVE Ordered'
    <2>1. /\ Alone(r) /\ Agreed /\ Exists /\ req[r].key = row.key /\ boot' = "ready"
          /\ req[r].status = Chosen(req[r].edit.status, row.status)
          /\ req[r].cron = Chosen(req[r].edit.cron, row.cron)
      BY <1>4, <1>acting DEF Write, Owes
    <2>2. /\ Goto(r, IF req[r].key # None THEN "drop" ELSE AfterDrop(r))
          /\ row' = [row EXCEPT !.status = Chosen(req[r].edit.status, @),
                                !.cron = Chosen(req[r].edit.cron, @)]
          /\ repeats' = repeats
      BY <2>1, <1>4 DEF Write
    <2>3. row'.status = req[r].status /\ row'.cron = req[r].cron /\ row'.status \in {"active", "paused"}
      <3>1. req[r].edit \in Edits
        BY <1>typed DEF States
      <3> QED BY <3>1, <2>1, <2>2, <1>typed, ChosenIsTyped DEF Rows
    <2>4. CASE req[r].key # None
      <3>1. repeats = {req[r].key}
        BY <2>1, <2>4, <1>due DEF Agreed, Due
      <3>2. Owes(r)'
        BY <3>1, <2>2, <2>3, <2>4, <1>went DEF Owes, Exists, Ahead
      <3> QED BY <3>2, <2>1, <2>2, <2>4, <1>goto
    <2>5. CASE req[r].key = None
      <3>1. repeats' = {}
        BY <2>1, <2>2, <2>5, <1>due DEF Agreed, Due
      <3>2. Goto(r, AfterDrop(r))
        BY <2>2, <2>5
      <3>3. Owes(r)'
        BY <3>1, <3>2, <2>3, <1>went DEF Owes, AfterDrop
      <3> QED BY <3>2, <3>3, <2>1, <1>goto DEF AfterDrop
    <2> QED BY <2>4, <2>5
  <1>5. ASSUME NEW r \in Requests, Drop(r) PROVE Ordered'
    <2>1. /\ Alone(r) /\ boot' = "ready" /\ repeats' = {} /\ Exists /\ row' = row
          /\ row.status = req[r].status /\ row.cron = req[r].cron
      BY <1>5, <1>acting DEF Drop, Owes, Ahead
    <2>2. Goto(r, AfterDrop(r))
      BY <1>5 DEF Drop
    <2>3. Owes(r)'
      BY <2>1, <2>2, <1>went DEF Owes, AfterDrop, Exists
    <2> QED BY <2>1, <2>2, <2>3, <1>goto DEF AfterDrop
  <1>6. ASSUME NEW r \in Requests, Add(r) PROVE Ordered'
    <2>1. /\ Alone(r) /\ boot' = "ready" /\ row' = row /\ row.status = "active"
          /\ row.cron = req[r].cron /\ repeats' = {RepeatOf(row.cron)}
      BY <1>6, <1>acting DEF Add, Owes
    <2>2. Goto(r, "key")
      BY <1>6 DEF Add
    <2>3. Owes(r)'
      BY <2>1, <2>2, <1>went DEF Owes
    <2> QED BY <2>1, <2>2, <2>3, <1>goto
  <1>7. ASSUME NEW r \in Requests, SaveKey(r) PROVE Ordered'
    <2>1. Alone(r) /\ boot' = "ready" /\ Owes(r) /\ Return(r) /\ repeats' = repeats
      BY <1>7, <1>acting DEF SaveKey
    <2>2. CASE req[r].pc = "key"
      <3>1. row.status = "active" /\ row.cron = req[r].cron /\ repeats = {RepeatOf(row.cron)}
        BY <2>1, <2>2 DEF Owes
      <3>2. row' = [row EXCEPT !.key = RepeatOf(row.cron)]
        BY <3>1, <2>2, <1>7 DEF SaveKey, Exists, KeyFor
      <3>3. Agreed'
        BY <3>1, <3>2, <2>1, <1>typed DEF Agreed, Due, Rows
      <3> QED BY <3>3, <2>1, <1>return
    <2>3. CASE req[r].pc = "clear"
      <3>1. row.status = "paused" /\ repeats = {}
        BY <2>1, <2>3 DEF Owes
      <3>2. row' = [row EXCEPT !.key = None]
        BY <3>1, <2>3, <1>7 DEF SaveKey, Exists, KeyFor
      <3>3. Agreed'
        BY <3>1, <3>2, <2>1, <1>typed DEF Agreed, Due, Rows
      <3> QED BY <3>3, <2>1, <1>return
    <2> QED BY <2>2, <2>3, <1>7 DEF SaveKey
  <1>8. ASSUME NEW r \in Requests, Detach(r) PROVE Ordered'
    <2>1. Alone(r) /\ boot' = "ready" /\ repeats' = {} /\ Exists' /\ Goto(r, "delete")
      BY <1>8, <1>acting DEF Detach, Owes, Exists
    <2>2. Owes(r)'
      BY <2>1, <1>went DEF Owes
    <2> QED BY <2>1, <2>2, <1>goto
  <1>9. ASSUME NEW r \in Requests, Delete(r) PROVE Ordered'
    <2>1. Alone(r) /\ boot' = "ready" /\ Exists /\ repeats' = {} /\ Return(r)
      BY <1>9, <1>acting DEF Delete, Owes
    <2>2. row'.status = "deleted" /\ row'.key = None
      BY <2>1, <1>9 DEF Delete, NoSchedule
    <2>3. Agreed'
      BY <2>1, <2>2 DEF Agreed, Due
    <2> QED BY <2>1, <2>3, <1>return
  <1>10. ASSUME NEW r \in Requests, DropFails(r) PROVE FALSE
    BY <1>10 DEF DropFails
  <1>11. ASSUME NEW r \in Requests, AddFails(r) PROVE FALSE
    BY <1>11 DEF AddFails
  <1>12. ASSUME NEW r \in Requests, DatabaseThrows(r) PROVE Ordered'
    <2>1. Alone(r) /\ boot' = "ready" /\ Agreed /\ Return(r) /\ UNCHANGED <<row, repeats>>
      BY <1>12, <1>acting DEF DatabaseThrows, Owes
    <2>2. Agreed'
      BY <2>1 DEF Agreed, Due
    <2> QED BY <2>1, <2>2, <1>return
  <1>13. CASE Crash
    <2>1. seen = {} /\ Resting
      BY <1>13 DEF Crash
    <2>2. Agreed
      BY <2>1 DEF Ordered, Calm, Resting, Idle
    <2>3. \A r \in Requests : req'[r].pc = "idle"
      BY <1>13 DEF Crash, Restart, Idle
    <2>4. Agreed'
      BY <2>2, <1>13 DEF Crash, Restart, Agreed, Due
    <2> QED BY <2>3, <2>4 DEF Ordered
  <1>14. CASE FreshRedis
    BY <1>14 DEF FreshRedis
  <1>15. CASE Rehydrate
    <2>1. \A r \in Requests : req'[r].pc = "idle"
      BY <1>15 DEF Rehydrate, Ordered
    <2>2. Agreed
      BY <2>1, <1>15 DEF Rehydrate, Ordered, Calm
    <2>3. ~Unregistered
      BY <2>2, <1>due DEF Agreed, Unregistered
    <2>4. Agreed'
      BY <2>2, <2>3, <1>15 DEF Rehydrate, Agreed, Due
    <2> QED BY <2>1, <2>4 DEF Ordered
  <1>16. CASE UNCHANGED vars
    BY <1>16 DEF vars, Ordered, Alone, Owes, Agreed, Due, Ahead, Exists, Calm, Chosen
  <1> QED
    BY <1>1, <1>2, <1>3, <1>4, <1>5, <1>6, <1>7, <1>8, <1>9, <1>10, <1>11, <1>12, <1>13, <1>14, <1>15,
       <1>16 DEF Next, RequestStep

LEMMA OrderedInit == Init => Ordered
  BY DEF Init, Ordered, Calm, Agreed, Due, NoSchedule, Idle

(* With no overlap, no fault and no crash inside a request, the row and the repeatable jobs differ *)
(* by exactly what the one request at work still has to do.                                        *)
THEOREM LifecycleIsOrdered == Spec => []Ordered
  BY FormedInit, FormedStep, OrderedInit, OrderedStep, PTL DEF Spec

(* create, update, pause, resume and remove, one after the other and across clean restarts, leave  *)
(* an active schedule exactly one repeatable job, and any other schedule none.                     *)
THEOREM ScheduleFiresOnce == Spec => []FiresOnce
  <1>1. Formed /\ Ordered => FiresOnce
    <2> SUFFICES ASSUME Formed, Ordered, seen = {}, Resting
                 PROVE  /\ repeats = IF row.status = "active" THEN {RepeatOf(row.cron)} ELSE {}
                        /\ row.key # None => repeats = {row.key}
      BY DEF FiresOnce
    <2>1. Agreed
      BY DEF Ordered, Calm, Resting, Idle
    <2> QED BY <2>1 DEF Agreed, Due
  <1> QED BY <1>1, ScheduleIsFormed, LifecycleIsOrdered, PTL

---------------------------------------------------------------------------
(* Crashes anywhere, with a start of the process after each: an active schedule without a key has  *)
(* a repeatable job, unless a request is at work that will store a key or leave it inactive.       *)

Served == Unregistered => repeats # {}

Keeps(r) ==
  CASE req[r].pc = "write" -> /\ Served /\ Exists
                              /\ req[r].status = Chosen(req[r].edit.status, row.status)
    [] req[r].pc = "drop" -> req[r].status # "active" => row.status # "active"
    [] req[r].pc = "clear" -> row.status # "active"
    [] OTHER -> TRUE

Recovered ==
  seen \subseteq {"crash"} =>
    /\ \A r \in Requests : req[r].pc # "idle" => boot = "ready" /\ Alone(r) /\ Keeps(r)
    /\ boot = "ready" /\ Calm => Served

LEMMA RecoveredStep == Formed /\ Recovered /\ [Next]_vars => Recovered'
  <1> SUFFICES ASSUME Formed, Recovered, [Next]_vars, seen' \subseteq {"crash"} PROVE Recovered'
    BY DEF Recovered
  <1>typed. /\ row \in Rows
            /\ \A r \in Requests : req[r] \in States
            /\ Exists => row.cron \in Expressions
    BY DEF Formed, TypeOK, States, Rows
  <1>acting. ASSUME NEW r \in Requests, req[r].pc # "idle", seen \subseteq {"crash"}
             PROVE  boot = "ready" /\ Alone(r) /\ Keeps(r)
    BY <1>acting DEF Recovered
  <1>begins. ASSUME NEW r \in Requests, Begins(r)
             PROVE  boot = "ready" /\ Alone(r) /\ Served
    <2>1. seen \subseteq {"crash"} /\ Resting
      BY <1>begins DEF Begins
    <2>2. \A q \in Requests : req[q].pc = "idle"
      BY <2>1 DEF Resting, Idle
    <2> QED BY <2>1, <2>2, <1>begins DEF Recovered, Calm, Alone, Begins
  <1>moves. ASSUME NEW r \in Requests, NEW new, req' = [req EXCEPT ![r] = new], Alone(r), boot' = "ready",
                   new.pc # "idle" => Keeps(r)', new.pc = "idle" => Served'
            PROVE  Recovered'
    <2>1. req'[r] = new /\ \A q \in Requests \ {r} : req'[q].pc = "idle"
      BY <1>moves DEF Formed, TypeOK, Alone
    <2>2. ASSUME NEW q \in Requests, req'[q].pc # "idle"
          PROVE  Alone(q)' /\ Keeps(q)'
      <3>1. q = r
        BY <2>1, <2>2
      <3> QED BY <3>1, <2>1, <2>2, <1>moves DEF Alone
    <2>3. Calm' => Served'
      BY <2>1, <1>moves DEF Calm
    <2> QED BY <2>2, <2>3, <1>moves DEF Recovered
  <1>goto. ASSUME NEW r \in Requests, NEW pc, Goto(r, pc), pc # "idle", Alone(r), boot' = "ready", Keeps(r)'
           PROVE  Recovered'
    <2> DEFINE new == [req[r] EXCEPT !.pc = pc]
    <2>1. new.pc = pc
      BY <1>typed DEF States
    <2>2. req' = [req EXCEPT ![r] = new]
      BY <1>goto DEF Goto
    <2> HIDE DEF new
    <2> QED BY <2>1, <2>2, <1>goto, <1>moves
  <1>went. ASSUME NEW r \in Requests, NEW pc, Goto(r, pc)
           PROVE  req'[r].pc = pc /\ req'[r].status = req[r].status
    BY <1>went, <1>typed DEF Goto, Formed, TypeOK, States
  <1>return. ASSUME NEW r \in Requests, Return(r), Alone(r), boot' = "ready", Served' PROVE Recovered'
    BY <1>return, <1>moves, IdleIsTyped DEF Return
  <1>same. ASSUME Served, UNCHANGED <<row, repeats>> PROVE Served'
    BY <1>same DEF Served, Unregistered
  <1>1. ASSUME NEW r \in Requests, NEW cron \in Expressions, Create(r, cron) PROVE Recovered'
    <2> DEFINE new == [Idle EXCEPT !.pc = "add", !.cron = cron]
    <2>1. Alone(r) /\ boot' = "ready" /\ req' = [req EXCEPT ![r] = new]
      BY <1>1, <1>begins DEF Create
    <2>2. new.pc = "add"
      BY DEF Idle
    <2>3. req'[r] = new
      BY <2>1 DEF Formed, TypeOK
    <2> HIDE DEF new
    <2>4. Keeps(r)'
      BY <2>2, <2>3 DEF Keeps
    <2> QED BY <2>1, <2>2, <2>4, <1>moves
  <1>2. ASSUME NEW r \in Requests, NEW edit \in Edits, Update(r, edit) PROVE Recovered'
    <2> DEFINE new == [pc |-> "write", key |-> row.key, edit |-> edit,
                       status |-> Chosen(edit.status, row.status),
                       cron |-> Chosen(edit.cron, row.cron)]
    <2>1. /\ Alone(r) /\ Served /\ Exists /\ boot' = "ready" /\ req' = [req EXCEPT ![r] = new]
          /\ UNCHANGED <<row, repeats>>
      BY <1>2, <1>begins DEF Update
    <2>2. new.pc = "write" /\ new.status = Chosen(new.edit.status, row.status)
      OBVIOUS
    <2>3. req'[r] = new
      BY <2>1 DEF Formed, TypeOK
    <2> HIDE DEF new
    <2>4. Served' /\ Exists'
      BY <2>1, <1>same DEF Exists
    <2>5. Keeps(r)'
      BY <2>1, <2>2, <2>3, <2>4 DEF Keeps, Chosen
    <2> QED BY <2>1, <2>2, <2>5, <1>moves
  <1>3. ASSUME NEW r \in Requests, Remove(r) PROVE Recovered'
    <2> DEFINE new == [Idle EXCEPT !.pc = IF row.key # None THEN "detach" ELSE "delete", !.key = row.key]
    <2>1. Alone(r) /\ boot' = "ready" /\ req' = [req EXCEPT ![r] = new]
      BY <1>3, <1>begins DEF Remove
    <2>2. new.pc \in {"detach", "delete"}
      BY DEF Idle
    <2>3. req'[r] = new
      BY <2>1 DEF Formed, TypeOK
    <2> HIDE DEF new
    <2>4. Keeps(r)'
      BY <2>2, <2>3 DEF Keeps
    <2> QED BY <2>1, <2>2, <2>4, <1>moves
  <1>4. ASSUME NEW r \in Requests, Write(r) PROVE Recovered'
    <2>1. /\ Alone(r) /\ Exists /\ boot' = "ready"
          /\ req[r].status = Chosen(req[r].edit.status, row.status)
      BY <1>4, <1>acting DEF Write, Keeps
    <2>2. PICK pc \in {"drop", AfterDrop(r)} :
            /\ Goto(r, pc)
            /\ row' = [row EXCEPT !.status = Chosen(req[r].edit.status, @),
                                  !.cron = Chosen(req[r].edit.cron, @)]
      BY <2>1, <1>4 DEF Write
    <2>3. row'.status = req[r].status
      BY <2>1, <2>2, <1>typed DEF Rows
    <2>4. Keeps(r)' /\ pc # "idle"
      BY <2>2, <2>3, <1>went DEF Keeps, AfterDrop
    <2> QED BY <2>1, <2>2, <2>4, <1>goto
  <1>5. ASSUME NEW r \in Requests, Drop(r) PROVE Recovered'
    <2>1. /\ Alone(r) /\ boot' = "ready" /\ row' = row /\ Goto(r, AfterDrop(r))
          /\ req[r].status # "active" => row.status # "active"
      BY <1>5, <1>acting DEF Drop, Keeps
    <2>2. Keeps(r)'
      BY <2>1, <1>went DEF Keeps, AfterDrop
    <2> QED BY <2>1, <2>2, <1>goto DEF AfterDrop
  <1>6. ASSUME NEW r \in Requests, Add(r) PROVE Recovered'
    <2>1. Alone(r) /\ boot' = "ready" /\ Goto(r, "key")
      BY <1>6, <1>acting DEF Add
    <2>2. Keeps(r)'
      BY <2>1, <1>went DEF Keeps
    <2> QED BY <2>1, <2>2, <1>goto
  <1>7. ASSUME NEW r \in Requests, SaveKey(r) PROVE Recovered'
    <2>1. Alone(r) /\ boot' = "ready" /\ Return(r) /\ Keeps(r)
      BY <1>7, <1>acting DEF SaveKey
    <2>2. CASE req[r].pc = "clear"
      <3>1. row'.status # "active"
        BY <2>1, <2>2, <1>7, <1>typed DEF Keeps, SaveKey, Rows
      <3> QED BY <3>1, <2>1, <1>return DEF Served, Unregistered
    <2>3. CASE req[r].pc = "key"
      <3>1. KeyFor(r) # None
        BY <2>3, RepeatIsTyped DEF KeyFor, Formed
      <3>2. row'.status = "active" => row'.key # None
        BY <3>1, <1>7, <1>typed DEF SaveKey, Exists, Rows
      <3> QED BY <3>2, <2>1, <1>return DEF Served, Unregistered
    <2> QED BY <2>2, <2>3, <1>7 DEF SaveKey
  <1>8. ASSUME NEW r \in Requests, Detach(r) PROVE Recovered'
    <2>1. Alone(r) /\ boot' = "ready" /\ Goto(r, "delete")
      BY <1>8, <1>acting DEF Detach
    <2>2. Keeps(r)'
      BY <2>1, <1>went DEF Keeps
    <2> QED BY <2>1, <2>2, <1>goto
  <1>9. ASSUME NEW r \in Requests, Delete(r) PROVE Recovered'
    <2>1. Alone(r) /\ boot' = "ready" /\ Return(r) /\ row'.status # "active"
      BY <1>9, <1>acting DEF Delete, Exists, NoSchedule
    <2> QED BY <2>1, <1>return DEF Served, Unregistered
  <1>10. ASSUME NEW r \in Requests, DropFails(r) \/ AddFails(r) PROVE FALSE
    BY <1>10 DEF DropFails, AddFails
  <1>11. ASSUME NEW r \in Requests, DatabaseThrows(r) PROVE Recovered'
    <2>1. Alone(r) /\ boot' = "ready" /\ Served /\ Return(r) /\ UNCHANGED <<row, repeats>>
      BY <1>11, <1>acting DEF DatabaseThrows, Keeps
    <2> QED BY <2>1, <1>same, <1>return
  <1>12. CASE Restart
    BY <1>12 DEF Restart, Recovered, Idle
  <1>13. CASE Rehydrate
    <2>1. seen \subseteq {"crash"} /\ boot' = "ready" /\ UNCHANGED <<row, req>>
      BY <1>13 DEF Rehydrate
    <2>2. \A r \in Requests : req'[r].pc = "idle"
      BY <2>1, <1>13 DEF Rehydrate, Recovered
    <2>3. Served'
      BY <2>1, <1>13 DEF Rehydrate, Served, Unregistered
    <2> QED BY <2>1, <2>2, <2>3 DEF Recovered
  <1>14. CASE UNCHANGED vars
    BY <1>14 DEF vars, Recovered, Alone, Keeps, Served, Unregistered, Exists, Calm, Chosen
  <1> QED
    BY <1>1, <1>2, <1>3, <1>4, <1>5, <1>6, <1>7, <1>8, <1>9, <1>10, <1>11, <1>12, <1>13, <1>14
    DEF Next, RequestStep, Crash, FreshRedis

LEMMA RecoveredInit == Init => Recovered
  BY DEF Init, Recovered, Served, Unregistered, NoSchedule, Idle

(* Wherever crashes interrupt create, update and remove, and whatever a crash loses of Redis, the   *)
(* process that is up again at rest has a repeatable job for every active schedule without a key.   *)
THEOREM KeylessScheduleFires == Spec => []KeylessFires
  <1>1. Recovered => KeylessFires
    BY DEF Recovered, KeylessFires, Served, Unregistered, Resting, Calm, Idle
  <1> QED BY <1>1, FormedInit, FormedStep, RecoveredInit, RecoveredStep, PTL DEF Spec

==========================================================================
