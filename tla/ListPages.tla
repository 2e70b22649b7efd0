----------------------------- MODULE ListPages -----------------------------
(***************************************************************************)
(* The pages that list and change rows: pages/SchedulesList.tsx,           *)
(* Groups.tsx, ScheduleForm.tsx (its save), RetryCenter.tsx and Logs.tsx,  *)
(* with LogsService.list and clearView behind the last two.  A list is the *)
(* number of this tab's own writes it shows and, for the logs, the marker  *)
(* it was filtered by; time is counted in rows of MessageLog.              *)
(***************************************************************************)
EXTENDS Tab

VARIABLES
    table,    \* Tenants -> own writes the schedules, groups and logs have seen
    rows,     \* Tenants -> rows of MessageLog made so far
    marker,   \* Tenants -> LogViewState.logsClearedAt, None without a row
    clears,   \* clearView() of this tab and of another one of the tenant
    task,     \* the page's mutation
    told,     \* history, by key: the last write the page reported as done
    shown,    \* history, by key: the last write it reported after awaiting the list
    hidden,   \* history: the time of the last clear it reported
    gap,      \* history: keys whose fetch after a write failed, was an older one's or another user's
    overlap   \* history: two clearView() of one tenant were under way at once

listVars == <<table, rows, marker, clears, task, told, shown, hidden, gap, overlap>>

Lists == {"schedules", "groups", "retry", "logs"}
Tables == {"schedules", "groups", "logs"}

TableOf(k) == IF k = "retry" THEN "logs" ELSE k

NoTask  == [what |-> "none", at |-> "idle", for |-> None, n |-> 0, time |-> 0]
NoClear == [at |-> "idle", for |-> None, time |-> 0]

ListInit ==
    /\ table = [t \in Tenants |-> [x \in Tables |-> 0]]
    /\ rows = [t \in Tenants |-> 1] /\ marker = [t \in Tenants |-> None]
    /\ clears = [c \in {"mine", "rival"} |-> NoClear] /\ task = NoTask
    /\ told = [k \in Lists |-> 0] /\ shown = [k \in Lists |-> 0]
    /\ hidden = 0 /\ gap = {} /\ overlap = FALSE

serverVars == <<table, rows, marker, clears>>
saidVars   == <<told, shown, hidden>>

----------------------------------------------------------------------------
(* The server *)

\* GET /schedules, GET /groups.
ListServed(k) ==
    LET f == fetch[k] IN
    /\ k \in {"schedules", "groups"} /\ Asking(k)
    /\ fetch' = [fetch EXCEPT ![k].at = "answered",
                              ![k].got = [of |-> f.as, n |-> table[f.as][k], from |-> 0]]
    /\ UNCHANGED <<user, page, cache, left, listVars>>

\* createdAt: { gt: logsClearedAt }
Cutoff(t) == IF marker[t] = None THEN 0 ELSE marker[t]

\* LogsService.list: the marker first, then the rows.
MarkerRead(k) ==
    /\ k \in {"retry", "logs"} /\ Asking(k)
    /\ fetch' = [fetch EXCEPT ![k].at = "viewed",
                              ![k].got = [of |-> fetch[k].as, n |-> 0, from |-> Cutoff(fetch[k].as)]]
    /\ UNCHANGED <<user, page, cache, left, listVars>>

RowsRead(k) ==
    /\ fetch[k].at = "viewed"
    /\ fetch' = [fetch EXCEPT ![k].at = "answered", ![k].got.n = table[fetch[k].as]["logs"]]
    /\ UNCHANGED <<user, page, cache, left, listVars>>

\* The pipeline writes a row.
RowMade(t) ==
    /\ t \in left.who /\ Spend("others")
    /\ rows' = [rows EXCEPT ![t] = @ + 1]
    /\ UNCHANGED <<user, page, cache, fetch, table, marker, clears, task, saidVars, gap, overlap>>

Clearing(c) == clears[c].at \in {"update", "create"}

\* clearView: the time is taken before the first write.
ClearBegins(c, t) ==
    /\ clears' = [clears EXCEPT ![c] = [at |-> "update", for |-> t, time |-> rows[t]]]
    /\ overlap' = (overlap \/ \E d \in DOMAIN clears : Clearing(d) /\ clears[d].for = t)

RivalClears(t) ==
    /\ clears["rival"].at = "idle" /\ t \in left.who /\ Spend("others")
    /\ ClearBegins("rival", t)
    /\ UNCHANGED <<user, page, cache, fetch, table, rows, marker, task, saidVars, gap>>

\* The request of this tab is answered, unless the tab was loaded anew; the rival's is over.
ClearEnds(c, ok) ==
    LET t == clears[c].for IN
    /\ clears' = [clears EXCEPT ![c] = NoClear]
    /\ table' = IF ok /\ c = "mine" THEN [table EXCEPT ![t]["logs"] = @ + 1] ELSE table
    /\ task' = IF c = "rival" \/ task.at # "serving" THEN task
               ELSE [task EXCEPT !.at = IF ok THEN "answered" ELSE "failed",
                                 !.n = table'[t]["logs"], !.time = clears[c].time]

\* Mutant: no row is made where there is none.
UpdatedOnly(t) == TRUE

\* updateMany finds the tenant's row.
HasMarker(t) == marker[t] # None

ClearUpdates(c) ==
    LET t == clears[c].for IN
    /\ clears[c].at = "update"
    /\ IF HasMarker(t)
       THEN /\ marker' = [marker EXCEPT ![t] = IF @ = None THEN @ ELSE clears[c].time]
            /\ ClearEnds(c, TRUE)
       ELSE /\ clears' = [clears EXCEPT ![c].at = "create"]
            /\ UNCHANGED <<marker, task, table>>
    /\ UNCHANGED <<tabVars, rows, saidVars, gap, overlap>>

\* tenantId is unique: the second of two first clears fails.
ClearCreates(c) ==
    LET t == clears[c].for IN
    /\ clears[c].at = "create"
    /\ marker' = [marker EXCEPT ![t] = IF @ = None THEN clears[c].time ELSE @]
    /\ ClearEnds(c, marker[t] = None)
    /\ UNCHANGED <<tabVars, rows, saidVars, gap, overlap>>

----------------------------------------------------------------------------
(* The mutations of the pages *)

Buttons(p) ==
    CASE p = "schedules" /\ cache["schedules"] # None -> {"toggle", "remove"}
      [] p = "groups" -> {"sync"}
      [] p = "form" -> {"save"}
      [] p = "retry" -> {"clear"} \cup (IF cache["retry"] # None THEN {"resend"} ELSE {})
      [] OTHER -> {}

KeyOf(what) ==
    CASE what = "sync" -> "groups" [] what \in {"clear", "resend"} -> "retry" [] OTHER -> "schedules"

\* One mutation of the tab at a time (a bound; sync, clear and resend disable their own button).
Click(what) ==
    /\ what \in Buttons(page) /\ task = NoTask /\ Spend("clicks")
    /\ task' = [NoTask EXCEPT !.what = what, !.at = "sent", !.for = user]
    /\ UNCHANGED <<user, page, cache, fetch, serverVars, saidVars, gap, overlap>>

Served ==
    LET x == TableOf(KeyOf(task.what)) IN
    /\ task.at = "sent" /\ task.what # "clear"
    /\ table' = [table EXCEPT ![task.for][x] = @ + 1]
    /\ rows' = [rows EXCEPT ![task.for] = IF task.what = "resend" THEN @ + 1 ELSE @]
    /\ task' = [task EXCEPT !.at = "answered", !.n = table'[task.for][x]]
    /\ UNCHANGED <<tabVars, marker, clears, saidVars, gap, overlap>>

ClearServed ==
    /\ task.at = "sent" /\ task.what = "clear" /\ clears["mine"].at = "idle"
    /\ ClearBegins("mine", task.for)
    /\ task' = [task EXCEPT !.at = "serving"]
    /\ UNCHANGED <<tabVars, table, rows, marker, saidVars, gap>>

\* onError, or nothing: the list is not fetched.
Failed ==
    /\ \/ task.at = "failed" /\ UNCHANGED left
       \/ task.at = "sent" /\ Spend("network")
    /\ task' = NoTask
    /\ UNCHANGED <<user, page, cache, fetch, serverVars, saidVars, gap, overlap>>

\* The fetch under way does not show the first n writes of the user, or what a clear at that
\* time hid: it has read before them, or is another user's.
Behind(k, n, time) ==
    \/ InFlight(k) /\ fetch[k].as # user
    \/ fetch[k].at = "answered" /\ fetch[k].got.n < n
    \/ fetch[k].at \in {"viewed", "answered"} /\ fetch[k].got.from < time

GapAfter(ks) == gap' = gap \cup ks

\* What the user is told counts for the tenant that was signed in.
Mine == task.for = user

Reported(k) == told' = IF Mine THEN [told EXCEPT ![k] = task.n] ELSE told

\* onSuccess of toggle returns the promise of the invalidation, those of clear and resend await
\* refetch(), resend having reported first; an invalidation fetches only what is on the page.
AnsweredAwaited ==
    LET k == KeyOf(task.what)
        fetches == task.what # "toggle" \/ k \in Observed(page) IN
    /\ task.at = "answered" /\ task.what \in {"toggle", "clear", "resend"}
    /\ IF fetches
       THEN /\ fetch' = [fetch EXCEPT ![k] = Refetched(k)]
            /\ task' = [task EXCEPT !.at = "refetching"]
            /\ GapAfter(IF cache[k] = None /\ Behind(k, task.n, task.time) THEN {k} ELSE {})
            /\ IF task.what = "resend" THEN Reported(k) ELSE UNCHANGED told
       ELSE /\ task' = NoTask /\ Reported(k)
            /\ UNCHANGED <<fetch, gap>>
    /\ UNCHANGED <<user, page, cache, left, serverVars, shown, hidden, overlap>>

\* onSuccess of remove and sync starts the invalidation and reports.
AnsweredAtOnce ==
    LET k == KeyOf(task.what) IN
    /\ task.at = "answered" /\ task.what \in {"remove", "sync"}
    /\ fetch' = [fetch EXCEPT ![k] = IF k \in Observed(page) THEN Refetched(k) ELSE @]
    /\ GapAfter(IF cache[k] = None /\ Behind(k, task.n, task.time) THEN {k} ELSE {})
    /\ Reported(k) /\ task' = NoTask
    /\ UNCHANGED <<user, page, cache, left, serverVars, shown, hidden, overlap>>

\* Showing a page that joins a fetch which cannot know of what was reported.
GapsOf(p) == {k \in Observed(p) \cap Lists : Behind(k, told'[k], IF k = "retry" THEN hidden ELSE 0)}

\* onSubmit: nav("/schedules"), and no key is invalidated. A user who went there before the
\* answer came sees the list of before.
SaveAnswered ==
    /\ task.at = "answered" /\ task.what = "save"
    /\ Reported("schedules") /\ task' = NoTask
    /\ IF user = None THEN UNCHANGED <<page, fetch, gap>>
       ELSE IF page = "schedules" THEN UNCHANGED <<page, fetch>> /\ GapAfter({"schedules"})
       ELSE Shown("schedules", user) /\ GapAfter(GapsOf("schedules"))
    /\ UNCHANGED <<user, cache, left, serverVars, shown, hidden, overlap>>

Awaits(k) == task.at = "refetching" /\ KeyOf(task.what) = k

\* The awaited fetch of the list is over, and the mutation with it.
Settles(k) ==
    IF Awaits(k)
    THEN /\ task' = NoTask /\ Reported(k)
         /\ shown' = IF Mine THEN [shown EXCEPT ![k] = task.n] ELSE shown
         /\ hidden' = IF Mine /\ task.what = "clear" THEN task.time ELSE hidden
    ELSE UNCHANGED <<task, saidVars>>

ListArrives(k) ==
    /\ Arrives(k) /\ Settles(k)
    /\ gap' = IF /\ fetch[k].as = user /\ fetch[k].got.n >= told'[k]
                 /\ k = "retry" => fetch[k].got.from >= hidden'
              THEN gap \ {k}
              ELSE IF Awaits(k) /\ fetch[k].as # user THEN gap \cup {k} ELSE gap
    /\ UNCHANGED <<serverVars, overlap>>

ListFails(k) ==
    /\ Fails(k) \/ Denied(k)
    /\ Settles(k) /\ GapAfter({k})
    /\ UNCHANGED <<serverVars, overlap>>

\* The Refresh button: a mutation whose list is fetched again reports at once.
Refreshes(k) ==
    /\ k \in {"retry", "logs"} \cap Observed(page) /\ Spend("clicks")
    /\ fetch' = [fetch EXCEPT ![k] = Refetched(k)]
    /\ IF Awaits(k) /\ cache[k] # None THEN task' = NoTask /\ Reported(k) ELSE UNCHANGED <<task, told>>
    /\ UNCHANGED <<user, page, cache, serverVars, shown, hidden, gap, overlap>>

TabForgets ==
    /\ told' = [k \in Lists |-> 0] /\ shown' = [k \in Lists |-> 0] /\ hidden' = 0
    /\ UNCHANGED <<serverVars, overlap>>

ListStep ==
    \/ \E k \in Lists : \/ ListServed(k) \/ MarkerRead(k) \/ RowsRead(k)
                        \/ ListArrives(k) \/ ListFails(k) \/ Refreshes(k)
                        \/ Polls(k) /\ UNCHANGED listVars
    \/ \E t \in Tenants : RowMade(t) \/ RivalClears(t)
    \/ \E c \in DOMAIN clears : ClearUpdates(c) \/ ClearCreates(c)
    \/ \E what \in {"toggle", "remove", "sync", "save", "clear", "resend"} : Click(what)
    \/ Served \/ ClearServed \/ Failed \/ AnsweredAwaited \/ AnsweredAtOnce
=============================================================================
