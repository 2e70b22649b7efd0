# wa-group-scheduler, specified and checked

The backend (NestJS, BullMQ on Redis, Prisma on Postgres, Baileys for WhatsApp) sends scheduled
messages to WhatsApp groups. A schedule fires, one `MessageLog` row and one queue job are made per
group, and a pool of workers sends them one at a time per tenant. Two recovery loops, a manual
resend and the user's edits work on the same rows at the same time. These modules say what that
machinery does step by step, what it must never do, and which of that is checked on small
instances and which is proved for all. The parts around the pipeline have models of their own: the
WhatsApp session that sends, the repeatable jobs that make schedules fire, the form that saves a
schedule with its cron field and its images, and the web console that shows all of it to a user from
polls, events and the answers of its own requests.

All paths below are relative to `src/backend/src/` of the repository unless they start otherwise.

## 1. The system

| Component | Source | State it keeps | Operations | Talks to |
|---|---|---|---|---|
| Trigger worker | `schedules/schedule-trigger.processor.ts` | run id, rows, jobs in flight in `process()` | read schedule, transaction of rows, `addBulk`, one-by-one fallback, mark failed adds | Postgres, send queue |
| Send worker | `schedules/message-send.processor.ts`, `schedules/wa-send.gateway.ts` | up to 8 running jobs | status check, cooldown and connection gate, daily cap, tenant lock, jitter and send, mark sent, retry or reschedule | Postgres, Redis, WhatsApp service, send queue |
| Tenant lock | same, `acquireLock` / `releaseLock` | Redis key with TTL 30 s | SET NX PX polled for up to 180 s, compare-and-delete | Redis |
| Pending reconcile | `schedules/pending-reconcile.service.ts` | nothing between passes | every minute: requeue pending rows older than two minutes, mark them | Postgres, send queue |
| Run completeness | `schedules/run-completeness.service.ts` | nothing between passes | every minute: recreate or requeue what a recent run lacks against the groups linked now | Postgres, send queue |
| Manual resend | `logs/logs.service.ts` `resend` | nothing | new row under a new run id, job, mark on the old row | Postgres, send queue |
| Schedules service | `schedules/schedules.service.ts`, bootstrap service | `Schedule` rows, `repeatJobKey`, repeatable jobs | create, update (pause, resume, edit, relink), remove, rehydrate at boot | Postgres, trigger queue |
| WhatsApp session | `whatsapp/whatsapp.service.ts`, auth adapter | socket map, reconnect timers, encrypted credentials | connect, close handler, reconnect, disconnect, send | Baileys, Postgres, browser |
| Logs list and clear view | `logs/logs.service.ts` | `LogViewState`, one row per tenant | list (marker, then rows), clear view (update, else create) | Postgres |
| Socket gateway | `socket/whatsapp.gateway.ts` | rooms of connected sockets | join the room of the token's tenant, emit to a room | browser |
| Groups, auth, tenant scoping, crypto | their directories | tables | requests | Postgres |
| Cron rules | `schedules/dto.ts`, `src/frontend/src/components/CronBuilder.tsx` | nothing | minimum interval, in the form and on the server | |
| Cron editor | `CronBuilder.tsx` | editor fields, the flag between two effects | clicks, effects | schedule form |
| Schedule form | `src/frontend/src/pages/ScheduleForm.tsx`, `schedules/schedules.controller.ts` | form values, selected files, the row's images | query answer, fill in, select and remove images, submit, upload, check, store | backend, image storage |
| Console | `src/frontend/src`: `App.tsx`, `hooks`, `lib/api.ts` | token and user, page, query cache, socket | sign in and out, move between pages, 401 | backend, gateway |
| Connect page | `src/frontend/src/pages/ConnectWhatsApp.tsx` | status and QR code it shows | poll, three events, connect, disconnect | backend, gateway |
| List pages | `SchedulesList.tsx`, `Groups.tsx`, `RetryCenter.tsx`, `Logs.tsx` | lists in the query cache, one mutation | fetch, poll, toggle, remove, sync, clear, resend, refresh | backend |

How they interact: nothing is called directly between the workers. They share rows (`MessageLog`,
`Schedule`), the queue (a job's id decides whether an `add` is ignored) and two Redis keys (lock
and cooldown). Every `await` is a point where another worker, a timer or a request may run, and
where the process may die.

What makes it hard:

- *Concurrency*: 8 jobs of one tenant check, count and queue for the lock at once; three other
  writers enqueue for the same rows.
- *Partial failure*: row first, job second, mark third, each in another store without a
  transaction around them.
- *Timeouts*: the lock's TTL against the jitter, the row's age against the queue's delay.
- *Retry of what was done*: a failed status update after a delivery, a marker overwritten by a
  reschedule, an `addBulk` that failed after it was applied.
- *Crash and restart*: stalled jobs run again, keys outlive their owner, rows stay without jobs.
- *Callbacks in any order*: a socket's events, the timer of an earlier socket, a disconnect and two
  connects of one tenant share one entry of a map, and each of them waits for the database in between.
- *Two stores for one fact*: the schedule's row and its repeatable job in Redis.
- *Copies in a browser*: what a page shows comes from a cache that polls, mutations and events write
  in the order in which their answers arrive; fetches outlive the page that started them, and a
  request that failed is made again.

What makes each part correct: a row says *sent* only after a delivery; each message goes out once;
a pending row is always on its way or can be picked up again; a log has one job at a time that can
send for it; the senders of a tenant exclude each other; the day's count is not overshot by jobs
that pass it together; the owner of a lease keeps it; and once the session stays connected, what
is pending is sent. The map's entry is the socket that is alive, tells the truth and is never a dead
end; a linked session comes back after every loss. An active schedule has one repeatable job, of its
current expression, and a paused one none. The form sends what it shows, keeps what nobody touched,
and what it lets a user pick the server accepts. What a page says it has done is on the list it shows,
cleared rows stay hidden, and the Connect page ends up with the session's status and QR code.

## 2. Modules

| Module | What it is |
|---|---|
| `DispatchState` | constants with their assumptions, variables, record types, `Init`, `TypeOK`, queue operators shared by the steps below |
| `SendWorker` | `MessageSendProcessor.process`, one action per await and per way it fails |
| `TriggerWorker` | `ScheduleTriggerProcessor.process` |
| `PendingReconcile` | `reconcilePendingLogs` |
| `RunCompleteness` | `reconcileRunCompleteness` |
| `ManualResend` | `LogsService.resend` |
| `ScheduleEdits` | the writes of `SchedulesService` the pipeline can see |
| `Dispatch` | composition with the environment (time, connection, Redis TTLs, crash), fairness, all properties, refinement mapping |
| `Outbox` | abstract: messages are promised together, each goes out exactly once and is then recorded for good |
| `TenantLock` | the lock in time: clocks of the key and of each hold |
| `TenantMutex` | abstract: one sender at a time |
| `WhatsAppSession` | `WhatsAppService` for one tenant: `connect()` await by await, the close handler, the reconnect timer, `disconnect()`, start of the process, credentials |
| `ScheduleLifecycle` | `SchedulesService` for one schedule: row and `repeatJobKey` against the repeatable jobs, under overlapping requests, crashes and boot |
| `CronRules` | cron expressions by the form of their fields, and the minimum interval as form and server check it |
| `SessionStatus` | abstract: disconnected, connecting, connected, and which may follow which |
| `CronEditor` | `CronBuilder` against the form's value: parse, build, the effects |
| `ScheduleForm` | the form around it: the query's answers, images, submit, and the controller's uploads and checks |
| `Tab` | one browser tab: who is signed in, the page, the query cache as react-query keeps it |
| `ConnectPage` | the Connect page with the gateway and what a session emits |
| `ListPages` | the four lists and the save of the form, with `LogsService.list` and `clearView` await by await |
| `Console` | composition of the last three, fairness, their properties |
| `MCDispatch`, `MCTenantLock`, `MCWhatsAppSession`, `MCScheduleLifecycle`, `MCScheduleForm`, `MCConsole` | TLC instances (symmetry sets, expressions, plans) |
| `DispatchProofs`, `CapProofs`, `OutboxProofs` | theorems about `Dispatch`: types and senders; the cap; one job, one delivery, the outbox |
| `TenantLockProofs`, `ScheduleLifecycleProofs`, `WhatsAppSessionProofs`, `FormProofs`, `ConsoleProofs` | theorems about `TenantLock`, `ScheduleLifecycle`, `WhatsAppSession`, `ScheduleForm` and `Console` |

### How state and actions correspond to the code

`logs` is the `MessageLog` table: status, `errorReason` as far as a query tells its values apart
(`"null"`, the two markers, `"retry"` for any other text), `stale` (createdAt before the reconcile
cutoff) and `today` (createdAt after midnight in the tenant's time zone). `jobs` is the queue and,
in `pc`, the await at which the worker that runs the job stands. Job `<<l, 0>>` is the one whose
`jobId` is the log's id (an `add` with that id is ignored while it is live); the others carry the
unique ids of retries and requeues. `attempts` is BullMQ's `attemptsMade`, `stalls` its stalled
count. `lock` holds the id of the job whose token is in the key, or `LostHolder` when that job died
or could not delete it. `trig`, `rec`, `rep`, `res` are the progress records of the four producers,
each of which the code runs one at a time (the manual resend is one request at a time in the
model). `copies` (deliveries per log, saturating at 2) and `runText` (the text a run started with)
are history variables.

An action is the code from one await to the next, with everything it writes. The catch blocks are
actions of their own, enabled by the fault that makes the call throw (`Faults`) or by the state in
which it must throw (an update of a deleted row, an insert under a deleted schedule).

`WhatsAppSession`: `entry` is what `sockets.get(tenantId)` returns; `socks` holds, per socket, the
entry object and the handler that close over it (`at` is the connection, `on` whether listeners are
attached, `task` the await its close handler stands at, or its timer). `calls` are `connect()`
invocations by await, `leave` is `disconnect()`. `stored` is `encryptedCreds`, `dead` the identities
WhatsApp has unlinked. `seen` notes which unusual thing has happened since the process started
(two connects overlapped, an event found no listener, a write failed, a save came late, another login
replaced this one), because what the code promises depends on it.

`ScheduleLifecycle`: `row` and `repeats` are the two stores; `req` holds what a request has read and
the await it stands at. BullMQ identifies a repeatable job by pattern or period, not by its start
date, so a repeat is a kind and an expression.

`CronEditor`: `Commit` is one React commit with the effects it runs: the editor's two, then the
form's `reset`. `internal` is `internalUpdateRef`. Expressions are records of fields, each a
constructor of `CronRules` (`Star`, `Num`, `Step`, `Between`, `List`), so that parsing a field is
looking at its form. The week days of the editor are a set, because it sorts the array whenever it
writes it (`Increasing`); an expression that names a day twice is left out (`DaysOnce`, a bound).
`Periods` are steps the interval selector can mean: below an hour, or whole hours.

`ScheduleForm`: `kept` is the form's `imageUrls` and `picked` the number of `selectedFiles`, which is
no field of the form and survives its `reset`. `save` is the request from the click to the answer, in
the browser and in the controller: an image that is uploaded gets the next number, so an attempt that
failed and the one after it upload different images. `row` is what the database holds.

`Tab`: `cache` and `fetch` are react-query's entry of each key. A fetch is `asked` until the server
reads, then `answered` until the answer arrives; `refetch()` and `invalidateQueries()` replace a fetch
that is under way if the key has data and share it if not, mounting and the interval always share it.
A 401 on any page but the login page is a new load of the application (`ThrownOut`).

`ConnectPage`: `sess` is a tenant's session as `SessionStatus` has it, with its entry of `latestQrs`,
a QR code that is being encoded and the status events not yet emitted (each waits for the database,
so they may overtake each other). `wires` are socket.io connections with the room they are in and the
events on their way. `getSocket` shares only a socket that is connected: the page's listeners may
therefore hang on two sockets, `main` and `side` (`QrEar`). `off` notes that something the page showed
was out of date when it was shown, which no later event repairs.

`ListPages`: a list is the number of this tab's own writes it contains and, for the two log pages, the
marker it was filtered by; a clear takes its time before it writes. `told` and `shown` note what the
page has reported, before or after the list it awaited, and `gap` the keys whose fetch after a write
failed, was an older one's or was made for the user signed in before.

Abstractions worth knowing:

- Delays are not numbers: a delayed job may be taken at any time, a row ages at any time, a cooldown
  lapses at any time. What the code's exact delays exclude is therefore not excluded here.
- A crash loses every local variable; Redis and Postgres keep theirs. A stalled job is queued again
  up to `MaxStalled` times and then dropped.
- A send delivers, throws, or throws after part of a multi-image message went out (`"partial"`).
- A Redis SET that throws may have been applied (`AcquireThrows`).
- BullMQ itself (ids, attempts, stalled jobs, removal), Redis expiry and the clock are external and
  modelled from their use.
- `TenantLock` treats time in ticks of 10 s; `Dispatch` only has the switch `"expiry"` for a key that
  expires under its owner, because `TenantLock` says exactly when that happens.

## 3. Runs

Every run of `MCDispatch` sets `CHECK_DEADLOCK FALSE`: the run ids of an instance are used up and the
system may then really have nothing left to do.

| Run | Properties | What it shows |
|---|---|---|
| `send` | `AtMostOnce`, `RequeuedOnce`, `SentIsFinal`, `ImplementsOutbox`, `EventuallySettled` | one fan-out to two groups with failing sends, a busy lock and a dropping connection: nothing is lost or sent twice, a log that is put off has one working job, and everything is sent once the session stays connected |
| `crash` | `TypeOK`, `SentWasDelivered`, `ExclusiveSender`, `CapHolds` | two fan-outs under a cap of one with crashes, database, queue and Redis errors, partial sends and midnight |
| `repair` | `AtMostOnce` | the repair loop over two runs while groups are unlinked and linked, rows age, the schedule may be deleted, and Redis errors end jobs before their send or leave the lock's key behind: the loop adds jobs for rows it read some awaits before, and none of them sends again |
| `operator` | `NeverStranded`, `RunKeepsText` | resend, pause, edit, relink and delete while messages are in flight and sends fail |
| `recovery` | `EventuallySettled` | a queue that refuses jobs during the fan-out, and a user who pauses and deletes: the reconcile loop brings the rows home |
| `lock` | `TypeOK`, `OneSender`, `LeaseHonoured`, `KeyExpires` | three workers with holds within the TTL (jitter of 5 to 10 s) and beyond it, owners that die, releases that fail |
| `session` | `TypeOK`, `StatusIsTrue`, `LiveIsCurrent`, `NeverStuck`, `UnlinkedIsWiped`, `ImplementsSessionStatus` | two sockets and two connects of a tenant against losses, logouts, replaced logins, disconnects and events that come before anyone listens; what the console may see of it |
| `linked` | `LinkedConnects` | linked credentials connect, at start, after a restart and after every loss |
| `lifecycle` | `TypeOK`, `FiresOnce`, `KeylessFires` | two overlapping requests, crashes, failing stores and a fresh Redis around one schedule |
| `editor` | `FormTypeOK`, `SavedAsShown`, `UntouchedKeeps`, `SaveFits`, `ReopensUnchanged`, `OwnFormsAccepted`, `EffectsSettle` | two query answers and three clicks, in the cron field or among the images, against the editor's effects, the form's reset, and a save that may fail and be tried again |
| `console` | `TypeOK`, `OwnWritesShow`, `ClearedStaysHidden`, `PollingHeals`, `StatusSettles`, `CodeShows` | one tab through five plans of signing in, moving about, clicking, lost requests and sessions that end |
| `starved` (violated) | `CapLetsThrough` | see below |

`MCScheduleForm` sets `CHECK_DEADLOCK FALSE` too, because a saved form is left, and so does
`MCConsole`: a plan is used up, and a page without an interval then rests.

### Bounds and why they are enough

- `Groups`: two where the order of groups or a cap over one fan-out matters, one elsewhere. Rows
  interact only through the cap, the lock and the worker slots, for which two suffice.
- `MaxRuns`: fan-outs and resends together. Two let two runs of one group meet in the repair loop,
  and a row of an earlier run meet a resend.
- `MaxRequeues`: live jobs of a log besides its original. A job that needs one more waits; two let a
  retry and a requeue live side by side. 0 in `repair`: no job is put off there (sends do not fail,
  the session stays up, the cap is not reached), so every job has the id of its log. With reschedules
  beside the loop `AtMostOnce` fails, see section 4.
- `Attempts` 1 or 2 (3 in the code): the only distinction the code makes is last attempt or not.
- `MaxStalled` 1 is BullMQ's default.
- `Concurrency` 2 (8 in the code): two jobs past the same check; 1 in `repair` and `operator`, whose
  question is about producers and requests beside a worker.
- `DailyCap` 1 or 2: at, below and above the number of rows of the instance.
- `MaxText`: 2 where edits matter.
- `Faults`, `Stimuli`: which failures and requests the instance admits; named in each `.cfg`.
- `lock`: `TTL` 3, `Holds` {2, 7} and `Patience` 18 in ticks of 10 s: the code's 30 s TTL, a jitter of
  10 s or of 60 s with a send, and its 180 s of waiting. Which of the two is configured is chosen at
  the start (`longest`). Three workers: an owner, one that waits, and one that comes after a late
  release.
- `session`, `linked`: two sockets and two calls are the smallest number with which one can be stale
  while another is current; a third would only be stale as well. Two identities let an unlinked pair
  and its successor meet. A socket or an identity nothing refers to is used again as a new one, so
  the number of reconnects is not bounded. `MaxBoots` 1 in `linked`; in `session` the process does
  not restart, because a restart clears every variable the invariants are about.
- `lifecycle`: one schedule (keys carry its id), two requests, one plain and one interval expression.
- `editor`: `SavedForms` has a weekly list at a time other than the default, an interval, and an
  expression the editor can only show as custom; each mode is reached by a click. Two answers (a load
  and a refetch) and three clicks let a click meet an answer between any two effects. `Stored` has no
  image or three and `Picks` three files, so that selections below, at and above the limit of five
  occur. `MaxOthers` is one write of another tab or one failed attempt. The form is left alone while a
  request is under way.
- `console`: five plans (`MCPlans`), each the budget of one question: the Connect page under signing
  in, a lost connection and two changes of the session; two tenants who use the tab one after the
  other; the Retry center against another tab's clear and new rows; the form, the lists and the logs;
  a sign-out and a sign-in around the list of schedules. One mutation of the tab is under way at a
  time. Lists only some pages look names up in are left out.

### Fairness

`FairSpec` assumes what the runtime owes. Weak fairness of each job's and each producer's next step
(the Node event loop runs what is ready, a started handler goes on), of the reconcile timer
(`@Cron` every minute), of a row's ageing and a key's expiry (time passes), and of `Connect` (the
WhatsApp client reconnects, or the user links the account again). Strong fairness, per log, for the
worker slot (BullMQ takes jobs in order), for the lock (polled after a random 200 to 400 ms) and
for the delivery: a send that is tried again and again succeeds some time. The
last is an assumption on WhatsApp, not on the code. `RecoverySpec` adds that an `add` of the
reconcile loop that is tried again and again succeeds: Redis is not down for ever.
For `WhatsAppSession`, weak fairness of the steps of `connect()`, of the handlers, the timer and
`disconnect()` (event loop), and strong fairness of `Open` (a link that is tried again and again opens
some time; an assumption on the network). `LinkedConnects` fails without the timer. For `ScheduleForm`,
weak fairness of `Committed` (React renders what changed). For `Console`, weak fairness of `Settling`
(requests are served and answered, sockets connect, events are delivered, a QR code is encoded) and,
for each key, of a `Round` of its interval: the page polls as long as it is shown and the poll is
answered. Requests that fail are a budget of the plan, and nothing a user does is fair.
`EventuallySettled` has its own premise, that the session stays connected and the schedule is not
paused for good, because the reconcile loop skips paused schedules by design.

### Where the code and its documents disagree

`starved` ends in a counterexample on purpose: the cap counts pending rows, the fan-out's own
included, and every job is put off while the count is above the cap. A fan-out to more groups than
the cap sends nothing, where the documents promise *cap* messages sent (`docs/README.md:199`).
The run has no midnight, after which the day's rows leave the count: nothing is sent *that day*.

Other disagreements, met while modelling. Each can be seen by checking the property named under the
constants named; the passing runs leave these histories out and say so in their properties.

Dispatch:

- `NeverStranded` with `Faults = {"crash"}`: rows are committed and the process dies before `addBulk`.
  Their `errorReason` is NULL, and `NOT { errorReason: 'stale_pending_requeued' }` is SQL's
  `NOT (x = '...')`, which is not true of NULL: the loop that is there to recover them
  (`docs/README.md:50`) never sees them. The same happens when a job uses up its attempts on errors
  outside the try block before anything wrote a reason, and when the `add` of a manual resend fails.
- `RequeuedOnce` with `Stimuli = {"connection", "age", "reconcile"}`: `errorReason` is both the mark of
  the reconcile loop and the text of the last failure. `reschedulePending` overwrites it, so the next
  pass requeues a row whose earlier job is still alive, once a minute. The repair loop does the same
  beside a retry, whose job id is not the log's; it also treats a manual resend as a run that lacks
  all the schedule's other groups.
- The repair loop skips groups the schedule has sent to "to avoid duplicate sends"
  (`schedules/run-completeness.service.ts:102-103`) and then looks for a pending row, one group after the
  other. A group whose row of another run is sent between the two queries has neither, and gets a row and
  a message of this run too. `AtMostOnce` is about one row and does not see it.
- `OneSender` without its premise `Short` (the default jitter is up to 60 s,
  `schedules/wa-send.gateway.ts:12`, and the TTL 30 s): two jobs of a tenant send at once. The premise
  is what is needed: the longest hold must end within the TTL.
- `SentIsFinal`, and with it `AtMostOnce`, with `"reconcile"`: a late failing job turns a sent row back
  into pending. `send`, `repair` and `operator` therefore leave the reconcile loop out.
- `RunKeepsText` with `"repair"`: a requeued or repaired row of an old run carries the text and the
  groups the schedule has now.
- A row marked `requeued_manually` is requeued by the reconcile loop all the same; rows created
  yesterday and sent today count on no day; jobs in the queue go out after a pause; the auto-pause on
  disconnect (`docs/README.md:42`, `pauseAllActive`) has no caller.

WhatsApp session:

- Two `connect()` that overlap (two requests, or a request and a reconnect timer) make two sockets of
  one account (`LiveIsCurrent` without its premise), each of which replaces the other.
- When the update of the status throws, or the process is slow, the listeners come too late or not at
  all: the entry stays *connecting*, which every later `connect()` takes for an answer (`NeverStuck`
  without its premise).
- `reconnectAttempts` lives in the entry of one socket, and each reconnect makes a new entry: the count
  never passes 1, so `WA_MAX_RECONNECT_ATTEMPTS` and the growing delay have no effect (`Saved` with
  `tries >= MaxAttempts` is not reachable unless `MaxAttempts` is 1).
- `disconnect()` does not stop a timer that is due: the tenant is connected again, with new keys, after
  it left. A save of credentials that ends after the wipe stores the unlinked ones again.

Schedules:

- That a restart "re-registers BullMQ repeatable jobs for every `active` schedule" (`docs/README.md:208`)
  is not true of a fresh Redis, the case `schedules.service.ts:305` names, nor after a crash between `removeRepeat` and the add:
  `rehydrateRepeats` skips every row that has a key, whether the job exists or not.
- For a row without a key it adds a cron repeat, even of an interval schedule, and stores no key: one
  more repeat than the row knows of after an interrupted create, and `*/45` then means minutes 0
  and 45.
- Two overlapping updates leave a repeat no row knows of; a pause and a resume that overlap leave an
  active row without a repeat.
- `docs/README.md:205` says that reactivating resets the anchor; `resume` keeps it
  (`schedules.service.ts:148-152`), while every edit in the form resets it, because the form always sends
  the expression.

Schedule form:

- `SaveFits` without its premise: files are selected before the answer of the query has brought the
  stored images. The slots are counted from the form (`ScheduleForm.tsx:117`), the answer adds up to five
  images, and the schema counts the stored ones only. The controller refuses the request after it
  has uploaded every file, and each further attempt uploads them again.
- A create whose answer is lost, or whose later steps fail, and that is submitted again makes a second
  schedule: `row` is the last one.
- The form of an existing schedule can be submitted before the answer has arrived, once it has a message
  and a group. The rest is then that of a new schedule (daily at 9, no stored images, send now) and
  `update` stores it.

Console:

- `OwnWritesShow` with `gap` left out: a save goes to the list of schedules and invalidates nothing
  (`ScheduleForm.tsx:164-167`). The list is right because it is fetched when it is shown; a user who is there
  already, having gone ahead of the answer, keeps the list of before, which has no interval.
- `ClearedStaysHidden` with `gap` left out: if the Retry center has no data yet, the refetch after a clear
  shares the fetch that is under way, and the cleared rows are shown until the next poll; the assessment wants polling
  "without race issues after clear" (`plan/feature-clear-logs-from-view/assessment.md:138`). With `overlap` left out:
  a clear that began earlier and writes later moves the marker back, and of two first clears one fails
  on the unique key.
- `StatusSettles` and `CodeShows` with `off` left out: the page applies an answer only when it differs from the
  last one. A status event that is lost or comes late, or a click on Connect that blanks the code, is
  therefore repaired by no poll until the session changes.
- That a session is connecting is told by no event, so a page opened before shows it with the
  next poll only.
- The query cache and the socket outlive a sign-out: the pages of the next tenant start with the lists and
  the events of the last one until their own fetches arrive.

Cron editor:

- `UntouchedKeeps` with `"0 9,17 * * *"` among `Saved`: `parseInt` reads the hour 9, the editor says
  daily at 9, and saving any other field drops the second time of the day. Lists and ranges in the
  hour or minute field are all cut like this; `*/90 * * * *` becomes `0 */1.5 * * *`.
- The form looks at the minutes field only and the server at twelve gaps from now on: `0-10 9 * * *` passes
  the form and not the server, and what the server says may depend on the time of day.

## 4. Proofs

`tlapm` checks every leaf. The assumptions are those named in `DispatchState` (`BoundsAssumption`,
`SwitchAssumption`, `GroupsAssumption`, `SentinelAssumption`), `TenantLock` (`TimesAssumption`,
`OwnersAssumption`), `Tab` and `Console` (what a plan is; `None` is no list), `CronEditor` and
`ScheduleForm` (what the selectors offer; no list of week days names a day twice; a schedule has at
most five images) and, for `ScheduleLifecycleProofs`, that the schedule's absent values are no expression and no key
(`ScheduleNone`). Every fault, stimulus and plan is covered unless a theorem says otherwise.

| Theorem | Says | Argument |
|---|---|---|
| `DispatchProofs!TypeCorrect` | `Spec => []TypeOK` | one lemma per component; `TypeOK` is inductive because a producer's record says which log it works on exactly when it works on one |
| `DispatchProofs!SentImpliesDelivered` | `Spec => []SentWasDelivered` | `DeliveredInv`: in addition, a job at `mark` has delivered. Needed because the row is written one await after the delivery |
| `DispatchProofs!SendersExclude` | `"expiry" \notin Faults` gives `Spec => []ExclusiveSender` | `OwnerInv`: who sends owns the lock. A release compares the token, so a job that never owned it cannot free it |
| `DispatchProofs!SendersImplementMutex` | the same premise gives `Spec => Mutex!Spec` | the sender of `TenantMutex` is the job that sends, and by `OwnerInv` the lock names it; each step starts one, stops one or leaves it. `TenantLock` implements the same `TenantMutex` in time, as long as holds are short |
| `CapProofs!RowsComeFirst` | `Spec => []OriginInv` | whatever is live, delivered or announced by a producer belongs to a run id already handed out; so a row that starts to count is fresh |
| `CapProofs!CapSafe` | `Spec => []CapHolds` | a job past the check saw a count within the cap; the count grows only by fresh rows, which nobody has used yet (`OriginInv`), so the used rows are always among those the last check counted |
| `TenantLockProofs!TypeCorrect` | clocks stay within the limits | inductive |
| `TenantLockProofs!LeaseAlwaysHonoured` | `Spec => []LeaseHonoured` | `LeaseInv`: for the first TTL of a hold the key has exactly TTL minus its age left |
| `TenantLockProofs!ShortHoldsExclude` | `Spec => []OneSender`, whose premise is that the longest hold is shorter than the TTL | from the lease |
| `TenantLockProofs!ShortHoldsImplementMutex` | `Spec => ImplementsMutex`, under the same premise | every step starts, stops or leaves the abstract sender alone |
| `ScheduleLifecycleProofs!ScheduleTypes` | `Spec => []TypeOK` | `Formed`: in addition, a request that will store a key, and a schedule that exists, have a valid expression |
| `ScheduleLifecycleProofs!ScheduleFiresOnce` | `Spec => []FiresOnce` | `Ordered`: without overlap or fault one request is at work, and the row differs from the repeatable jobs by exactly the steps it still owes |
| `ScheduleLifecycleProofs!KeylessScheduleFires` | `Spec => []KeylessFires` | `Recovered`: an active schedule without a key has a job, or the request at work will store a key or has paused it; after a crash `rehydrateRepeats` restores the first case |
| `WhatsAppSessionProofs!TypeCorrect` | `Spec => []TypeOK` | `Core`: in addition, a call that has made its socket is the only one to hold it and has attached no listener; a live socket has no close handler at work |
| `WhatsAppSessionProofs!StatusAlwaysTrue`, `NeverEverStuck` | `Spec => []StatusIsTrue`, `Spec => []NeverStuck` | inductive together over `Core`: an entry nobody hears belongs to a call that is about to attach its listeners |
| `WhatsAppSessionProofs!LiveAlwaysCurrent` | `Spec => []LiveIsCurrent` | `OneThread`: as long as no two calls have overlapped there is one thing under way, a call, the socket it made, a live socket or a close handler. Without it a timer could start a call beside another one |
| `WhatsAppSessionProofs!UnlinkedAlwaysWiped` | `Spec => []UnlinkedIsWiped` | `WipeComes`: unlinked credentials that are still stored are held by a live socket, by a handler or timer that ends in a wipe or a new call, or by a call that will make a socket of them |
| `WhatsAppSessionProofs!SessionImplementsStatus` | `Spec => ImplementsSessionStatus` | every step moves the status of the map's entry as `SessionStatus` allows or leaves it alone |
| `OutboxProofs!RunTextKept` | `NoLoops` gives `Spec => []RunKeepsText` | `TextInv`: in addition, what a producer is about to add and what waits has the run's text; a worker's requeue copies its job's |
| `OutboxProofs!OneJobPerLog` | `NoReruns`, `NoLoops` give `Spec => []RequeuedOnce` | `OnceInv`: a log has one busy job at most, no live one as long as a producer is still to add its first, and no busy one once its row is sent; two producers never announce the same log |
| `OutboxProofs!SentStays` | those and no `"delete"` give `Spec => SentIsFinal` | from `OnceInv`: no job is busy with a sent row, so none writes it |
| `OutboxProofs!DeliveredOnce` | `NoReruns`, `NoLoops`, `CleanSends` give `Spec => []AtMostOnce` | `OutInv`: the busy job of a delivered log stands before the update that records it, or finds no row |
| `OutboxProofs!PipelineIsOutbox` | those and no `"delete"` give `Spec => ImplementsOutbox` | each kind of step is a promise, a delivery, a record or a stutter of `Outbox`; `ScheduleThere` keeps rows from vanishing |
| `OutboxProofs!NothingStranded` | `Steady`, `QueueOrLoops` give `Spec => []NeverStranded` | `OwedInv`: every pending row has a job that will not give it up, a producer that is still to add its first one or, where the queue may refuse jobs, the mark the reconcile loop looks for |
| `OutboxProofs!RepairSendsOnce` | `NoReschedules` gives `Spec => []AtMostOnce` | `OverInv`: the job of a delivered log stands at the update that records it, or the row says sent or is gone; a job the loop adds later stops at its check. Needed because the loop reads a row as pending and adds after it was sent. `OriginalsInv`: every job has the id of its log, so no second one is past its check |
| `FormProofs!SavesWhatIsShown` | `ExpressionsProper` gives `Spec => []SavedAsShown` | `FormInv`: a settled form holds what the editor builds (`FieldInv`), and nothing is due while a request is under way (`SaveInv`) |
| `FormProofs!SavesFit` | `ExpressionsProper` gives `Spec => []SaveFits` | `FitsInv`: what is stored, answered, kept, and kept with what is picked, is at most five |
| `FormProofs!UntouchedIsKept` | `ExpressionsProper`, `WellFormedData`, `ShowsSaved` give `Spec => []UntouchedKeeps` | `AnswerInv`: after an answer the field is in one of three states, in the form, overwritten by the editor's first emission, or restored, and each commit leads to the next; `ShownInv`, with `OwnModesReopen` |
| `FormProofs!FormTyped` | `ExpressionsProper`, `WellFormedData` give `Spec => []FormTypeOK` | `BoundsInv` with `WellFormedInv`: the hour the editor takes from an expression is an hour only because every field that gets there is of its own range |
| `FormProofs!OwnModesReopen` | the same give `Spec => []ReopensUnchanged` | `WellFormedInv`: the editor's values are of their ranges and its period is one it can write; then, mode by mode, parsing what was built gives it back (`OwnModesShown`) |
| `FormProofs!OwnModesAccepted` | the same give `Spec => []OwnFormsAccepted` | mode by mode: a fixed time of day leaves a day between runs, a step `n` leaves `n` minutes, also over the end of the hour and of the day (`GapsAccepted`) |
| `FormProofs!ShownIfPlain` | a well-formed expression survives the editor exactly if it is `Plain` | one way by the lemmas of `OwnModesReopen`, the other because what comes back was built by a mode of the editor |
| `FormProofs!AlwaysValidIsEveryGap` | the server accepts an expression at every time of day exactly if none of its gaps is too short | every gap is the first after some run, so the window of twelve hides none from every check |
| `ConsoleProofs!ConsoleTyped`, `WritesShow` | `Spec => []TypeOK`, `Spec => []OwnWritesShow` | `ListsInv`: for every list, what is in the cache, what a fetch under way has read or will read, and what a mutation awaits, each contain what was reported (`Faithful`) |
| `ConsoleProofs!ClearedHold` | `Spec => []ClearedStaysHidden` | `ListsInv`, with `Timed`: while no two clears of a tenant overlap its marker only grows |

The steps of the pipeline are many, the ways in which one may touch rows, jobs, lock and deliveries
are few. `StepShape` (in `DispatchProofs`) and `RowShape`, `JobShape` (in `CapProofs`) say once, for
every action, what a step may do to them; the invariants are then proved from these shapes instead of
action by action.

### Hypotheses of the theorems

The pipeline keeps some of its promises only while certain faults and loops are away. Each theorem of
`OutboxProofs` names those that break its promise, which section 3 tells or which are plain; all other
faults and stimuli are allowed.

- `NoLoops` (no reconcile, no run completeness): both loops requeue rows that still have a job, and
  with the text of now.
- `NoReruns` (no crash, no `addBulk` that fails after it was applied): a stalled job is run again, and
  the fan-out's single adds follow jobs that may have ended.
- `CleanSends` (no database error, no partial send): after a delivery that is not recorded, or that went
  out in part, the retry sends again.
- `Steady` (no crash, database or Redis error): each may end a job or a producer before it has written
  the mark the reconcile loop looks for. `QueueOrLoops`: a queue that refuses jobs is allowed when only
  the trigger adds any, because the other producers leave no mark when their `add` fails.
- `NoReschedules` (no crash, no failing send or update, no busy lock, no lost connection, no reconcile,
  no table larger than the cap): a job that a worker puts off has an id of its own, which the
  run-completeness loop's add does not meet, so that two jobs of a log pass the check and both send.
- No `"delete"`: deleting the schedule deletes its rows, sent ones too.

None of these can be dropped: with any one fault, stimulus or bound of a hypothesis let back in, TLC
finds a counterexample to a property stated under it on at most two groups and two runs; each of the
three producers `QueueOrLoops` excludes breaks it too: a resend whose `add` fails leaves no mark, and either
loop may write its mark after the job it requeued has already failed again.

The form's theorems ask that no expression is the model's `None` (`ExpressionsProper`). Those about
values ask for `WellFormedData`: each field of a saved or typed expression is a star, a number, a step,
a range or a list of its own values. That leaves out what cron itself rejects or reads otherwise:
`*/90` in the minutes, day 7, a range that runs backwards. `SavesWhatIsShown` and
`SavesFit` do not need it: whatever the editor makes of an expression, what is sent is what it shows.

`UntouchedIsKept` also asks that the editor shows what the server holds and what is typed as it is
(`ShowsSaved`). `ShownIfPlain` says which expressions these are: what the editor leaves to custom
mode, `*/n` for a period it offers, zero minutes of every or each n-th hour, and one time a day, on all
days, one day of the month or a list of week days in order. `"0 9,17 * * *"` and `"0 9 * * 3,1"` are not
among them, see section 3. That the editor shows what its own modes build is no premise any more but
`OwnModesReopen`.

Two corrections of the model came from these proofs: the arms of `BuildCron` for the interval mode
overlapped, so that the value of the `CASE` was not determined, and the week days were a list whose
order said more than the code keeps.

The proof of `WritesShow` corrected the model: a fetch that a page awaits may be made for the tenant who
was signed in when it was asked, and be answered after another has signed in. What it brings settles
the mutation of the first tenant but is not that tenant's list, so `gap` now notes it.

### Model-checked only

- Liveness: `EventuallySettled`, `CapLetsThrough`, `KeyExpires`, `LinkedConnects`, `EffectsSettle`,
  `PollingHeals`, `StatusSettles`, `CodeShows`.

Every invariant, action property and refinement of the passing runs is a theorem.
`TenantLock!ImplementsMutex` is proved only: what TLC can say of it on three workers, `OneSender` says
already.

## 5. What is left out

- In the session: `listGroups`, a second concurrent `disconnect()`, the signal key store.
- In the schedule: `runNow` (one more firing of the trigger), `nextRunAt` and the arithmetic of the
  anchor; validation of groups.
- In the cron rules: time zones, daylight saving, step ranges (`a-b/n`).
- The second tenant: the eight worker slots are shared, so one tenant's waiting jobs delay another's.
- Log statistics and cleanup, which read or trim rows by age; the groups service, one upsert per group of
  a snapshot; passwords and tokens; tenant scoping, which adds a tenant to every query; encryption;
  deployment files.
- In the console: filters, search, tables, toasts, the lists that only look names up, what a second
  tab of the same browser changes in `localStorage`. In the form: text, emoji, groups, time zone.
- The content of messages, backoff and jitter values, batch limits and lookback windows.

## 6. Plan

1. Proofs: the switch `"expiry"` of `Dispatch` derived from the times of `TenantLock`. Both are shown to
   implement `TenantMutex`, each under its own premise; a composition would need one clock for both.
2. Proofs: conditional versions of the promises of section 4 (no message is lost *between* two faults),
   which need a history of the faults in the model.
3. An abstract schedule (fires or does not) for `ScheduleLifecycle`.
4. `WorkerPool`, two tenants on shared slots, if it earns a run.
