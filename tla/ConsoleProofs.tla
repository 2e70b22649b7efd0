--------------------------- MODULE ConsoleProofs ---------------------------
(***************************************************************************)
(* What the console shows of the user's own writes, for any tenants and    *)
(* any plan: the invariants of Console, proved.                            *)
(***************************************************************************)
EXTENDS Console, TLAPS

Mutations == {"toggle", "remove", "sync", "save", "clear", "resend"}
Stages    == {"idle", "sent", "serving", "answered", "failed", "refetching"}

Data0(k) == {None} \cup IF k = "wa-status" THEN Answer0 ELSE List0
Fetch0(k) == [at : {"idle", "asked", "viewed", "answered"}, as : Tenants \cup {None}, got : Data0(k)]
Plan0 == [who : SUBSET Tenants, start : {"login"} \cup (Pages \ {"connect"}),
          pages : SUBSET Pages, of : [Kinds -> Nat]]
Task0 == [what : Mutations \cup {"none"}, at : Stages, for : Tenants \cup {None}, n : Nat, time : Nat]
Clear0 == [at : {"idle", "update", "create"}, for : Tenants \cup {None}, time : Nat]

\* A request that has read something carries its reader's answer.
Sound(k) ==
    /\ cache[k] \in Data0(k) /\ fetch[k] \in Fetch0(k)
    /\ k # "wa-status" /\ fetch[k].at \in {"viewed", "answered"} =>
         fetch[k].got \in List0 /\ fetch[k].got.of = fetch[k].as
    /\ fetch[k].at = "viewed" => k \in {"retry", "logs"}

QueryShape == DOMAIN cache = Keys /\ DOMAIN fetch = Keys /\ \A k \in Keys : Sound(k)

UserShape ==
    /\ left \in Plan0
    /\ user \in Tenants \cup {None} /\ page \in Pages \cup {"login"}
    /\ user = None <=> page = "login"

ServerShape ==
    /\ table \in [Tenants -> [Tables -> Nat]]
    /\ rows \in [Tenants -> Nat] /\ marker \in [Tenants -> Nat \cup {None}]
    /\ clears \in [{"mine", "rival"} -> Clear0]
    /\ task \in Task0

SaidShape ==
    /\ told \in [Lists -> Nat] /\ shown \in [Lists -> Nat] /\ hidden \in Nat
    /\ gap \subseteq Lists /\ overlap \in BOOLEAN

Working ==
    /\ task.at # "idle" => task.for \in Tenants /\ task.what \in Mutations
    /\ task.at \in {"answered", "refetching"} => task.n <= table[task.for][TableOf(KeyOf(task.what))]
    /\ task.at = "serving" =>
         task.what = "clear" /\ Clearing("mine") /\ clears["mine"].for = task.for
    /\ \A c \in {"mine", "rival"} : Clearing(c) => clears[c].for \in Tenants

\* Nobody is told of a write that was not made, nor of fewer than before.
Counted ==
    /\ user # None => \A k \in Lists : told[k] <= table[user][TableOf(k)]
    /\ \A k \in Lists : shown[k] <= told[k]
    /\ task.at \in {"answered", "refetching"} /\ Mine => told[KeyOf(task.what)] <= task.n

Holds(k, n) == cache[k] # None /\ cache[k].of = user /\ cache[k].n >= n

KeptFor(k) ==
    user # None /\ k \notin gap /\ shown[k] > 0 => Holds(k, shown[k]) /\ ~Behind(k, shown[k], 0)

OwedFor(k) ==
    k \in Observed(page) /\ k \notin gap /\ told[k] > 0 =>
        ~Behind(k, told[k], 0) /\ (InFlight(k) \/ Holds(k, told[k]))

AwaitedFor(k) ==
    Awaits(k) =>
        /\ InFlight(k)
        /\ k \notin gap /\ fetch[k].as = task.for /\ fetch[k].at = "answered" => fetch[k].got.n >= task.n

\* Times only grow as long as no two clears of a tenant overlap.
Timed ==
    /\ \A t \in Tenants : Cutoff(t) <= rows[t]
    /\ \A c \in {"mine", "rival"} : Clearing(c) => clears[c].time <= rows[clears[c].for]
    /\ ~overlap =>
         /\ \A c \in {"mine", "rival"} : Clearing(c) => Cutoff(clears[c].for) <= clears[c].time
         /\ Clearing("mine") /\ Clearing("rival") => clears["mine"].for # clears["rival"].for
         /\ task.at \in {"answered", "refetching"} /\ task.what = "clear" => Cutoff(task.for) >= task.time

\* What was reported as cleared is behind the marker.
Past == ~overlap /\ user # None => Cutoff(user) >= hidden

HiddenStay ==
    ~overlap /\ "retry" \notin gap =>
        /\ user # None /\ hidden > 0 =>
             cache["retry"] # None /\ cache["retry"].from >= hidden /\ ~Behind("retry", 0, hidden)
        /\ /\ Awaits("retry") /\ task.what = "clear" /\ fetch["retry"].as = task.for
           /\ fetch["retry"].at \in {"viewed", "answered"}
           => fetch["retry"].got.from >= task.time

Event0 == [what : {"status"}, is : Session!Statuses] \cup [what : {"qr"}, is : Tenants \X Nat]
Wire0 == [room : Tenants \cup {None}, up : BOOLEAN, inbox : Seq(Event0)]
Sess0 == [status : Session!Statuses, qr : Tenants \X Nat \cup {None}, coding : BOOLEAN,
          codes : Nat, news : Seq(Session!Statuses)]

ConnectShape ==
    /\ sess \in [Tenants -> Sess0] /\ view \in Answer0 /\ off \subseteq {"status", "qr"}
    /\ wires \in [{"main", "side"} -> Wire0]

ServerInv == ServerShape /\ overlap \in BOOLEAN /\ Working /\ Timed

SaidInv == SaidShape /\ Counted /\ Past

Faithful(k) == KeptFor(k) /\ OwedFor(k) /\ AwaitedFor(k) /\ (k = "retry" => HiddenStay)

ListsInv == QueryShape /\ UserShape /\ ServerInv /\ SaidInv /\ \A k \in Lists : Faithful(k)

----------------------------------------------------------------------------
(* The query cache *)

LEMMA KeyNames ==
    /\ Keys = Lists \cup {"wa-status"} /\ "wa-status" \notin Lists
    /\ \A p \in Pages \cup {"login"} : Observed(p) \subseteq Keys
    /\ Observed("login") = {} /\ Observed("connect") = {"wa-status"}
    /\ \A k \in Lists : TableOf(k) \in Tables
    /\ \A w \in Mutations : KeyOf(w) \in {"schedules", "groups", "retry"}
BY DEF Keys, Lists, Observed, Pages, TableOf, Tables, Mutations, KeyOf

\* A fetch that has just been asked, and none at all.
LEMMA Requests ==
    ASSUME NEW k \in Keys, NEW u \in Tenants \cup {None}
    PROVE  /\ Asked(u) \in Fetch0(k) /\ Asked(u).at = "asked" /\ Asked(u).as = u
           /\ NoFetch \in Fetch0(k) /\ NoFetch.at = "idle"
BY DEF Asked, NoFetch, Fetch0, Data0

\* One key is fetched, or no longer.
LEMMA OneFetch ==
    ASSUME QueryShape, UNCHANGED cache, NEW k \in Keys,
           DOMAIN fetch' = Keys, \A j \in Keys \ {k} : fetch'[j] = fetch[j],
           fetch'[k] \in Fetch0(k),
           k # "wa-status" /\ fetch'[k].at \in {"viewed", "answered"} =>
               fetch'[k].got \in List0 /\ fetch'[k].got.of = fetch'[k].as,
           fetch'[k].at = "viewed" => k \in {"retry", "logs"}
    PROVE  QueryShape'
<1>1. ASSUME NEW j \in Keys PROVE Sound(j)'
    <2>1. CASE j = k
        BY <2>1 DEF QueryShape, Sound
    <2>2. CASE j # k
        BY <2>2 DEF QueryShape, Sound
    <2>q. QED  BY <2>1, <2>2
<1>q. QED  BY <1>1 DEF QueryShape

\* Data arrives.
LEMMA OneArrives ==
    ASSUME QueryShape, NEW k \in Keys, Arrives(k)
    PROVE  /\ QueryShape' /\ cache'[k] = fetch[k].got /\ fetch'[k] = NoFetch
           /\ \A j \in Keys \ {k} : fetch'[j] = fetch[j] /\ cache'[j] = cache[j]
<1>1. /\ DOMAIN fetch' = Keys /\ DOMAIN cache' = Keys
      /\ cache'[k] = fetch[k].got /\ fetch'[k] = NoFetch
      /\ \A j \in Keys \ {k} : fetch'[j] = fetch[j] /\ cache'[j] = cache[j]
    BY DEF QueryShape, Arrives
<1>2. ASSUME NEW j \in Keys PROVE Sound(j)'
    <2>1. CASE j = k
        <3>1. fetch[k].got \in Data0(k)  BY DEF QueryShape, Sound, Fetch0
        <3>q. QED  BY <1>1, <2>1, <3>1, Requests DEF Sound
    <2>2. CASE j # k
        BY <1>1, <2>2 DEF QueryShape, Sound
    <2>q. QED  BY <2>1, <2>2
<1>q. QED  BY <1>1, <1>2 DEF QueryShape

\* refetch() and the interval.
LEMMA AskedAgain ==
    ASSUME QueryShape, user \in Tenants \cup {None}, NEW k \in Keys
    PROVE  /\ Refetched(k) \in Fetch0(k) /\ Refetched(k).at # "idle"
           /\ k # "wa-status" /\ Refetched(k).at \in {"viewed", "answered"} =>
                Refetched(k).got \in List0 /\ Refetched(k).got.of = Refetched(k).as
           /\ Refetched(k).at = "viewed" => k \in {"retry", "logs"}
<1>1. CASE Refetched(k) = fetch[k] /\ InFlight(k)
    BY <1>1 DEF QueryShape, Sound, InFlight
<1>2. CASE Refetched(k) = Asked(user)
    BY <1>2, Requests
<1>q. QED  BY <1>1, <1>2 DEF Refetched

\* A page is shown.
LEMMA PageShown ==
    ASSUME QueryShape, UNCHANGED cache, NEW p, NEW u \in Tenants \cup {None}, Shown(p, u)
    PROVE  /\ QueryShape' /\ page' = p
           /\ \A k \in Keys : fetch'[k] = IF k \in Observed(p) THEN Joined(k, u) ELSE fetch[k]
<1>1. /\ DOMAIN fetch' = Keys /\ page' = p
      /\ \A k \in Keys : fetch'[k] = IF k \in Observed(p) THEN Joined(k, u) ELSE fetch[k]
    BY DEF Shown
<1>2. ASSUME NEW k \in Keys PROVE Sound(k)'
    <2>1. CASE fetch'[k] = fetch[k]
        BY <2>1 DEF QueryShape, Sound
    <2>2. CASE fetch'[k] = Asked(u)
        BY <2>2, Requests DEF QueryShape, Sound
    <2>q. QED  BY <1>1, <2>1, <2>2 DEF Joined
<1>q. QED  BY <1>1, <1>2 DEF QueryShape

\* What the plan allows is spent, not changed.
LEMMA Spent ==
    ASSUME left \in Plan0, NEW kind \in Kinds, Spend(kind)
    PROVE  left' \in Plan0
BY DEF Plan0, Spend

LEMMA Stocked ==
    ASSUME left \in Plan0
    PROVE  /\ "logins" \in Kinds /\ "visits" \in Kinds /\ "clicks" \in Kinds
           /\ "network" \in Kinds /\ "session" \in Kinds /\ "others" \in Kinds
           /\ left.who \subseteq Tenants /\ left.pages \subseteq Pages
BY DEF Kinds, Plan0

----------------------------------------------------------------------------
(* Answers *)

\* GET /schedules, GET /groups.
LEMMA ListIsServed ==
    ASSUME QueryShape, ServerShape, NEW k \in Lists, ListServed(k)
    PROVE  /\ QueryShape' /\ fetch[k].at = "asked" /\ fetch[k].as \in Tenants
           /\ fetch'[k].at = "answered" /\ fetch'[k].as = fetch[k].as
           /\ fetch'[k].got.n = table[fetch[k].as][k] /\ k = TableOf(k)
           /\ \A j \in Keys \ {k} : fetch'[j] = fetch[j]
<1> DEFINE got == [of |-> fetch[k].as, n |-> table[fetch[k].as][k], from |-> 0]
           f == [at |-> "answered", as |-> fetch[k].as, got |-> got]
<1>1. k \in Keys /\ k \in Tables /\ k # "wa-status" /\ k = TableOf(k)
    BY KeyNames DEF ListServed, Tables, TableOf
<1>2. fetch[k] \in Fetch0(k) /\ fetch[k].at = "asked" /\ fetch[k].as \in Tenants
    BY <1>1 DEF QueryShape, Sound, Fetch0, ListServed, Asking
<1>3. got \in List0
    BY <1>1, <1>2 DEF List0, ServerShape
<1>4. f \in Fetch0(k)
    BY <1>1, <1>2, <1>3 DEF Fetch0, Data0
<1>5. DOMAIN fetch' = Keys /\ UNCHANGED cache /\ \A j \in Keys \ {k} : fetch'[j] = fetch[j]
    BY <1>1 DEF ListServed, QueryShape
<1>6. fetch'[k] = f
    BY <1>1, <1>2 DEF ListServed, Fetch0, QueryShape
<1>7. f.at = "answered" /\ f.as = fetch[k].as /\ f.got = got /\ got.of = f.as
      /\ got.n = table[fetch[k].as][k]
    OBVIOUS
<1> HIDE DEF f, got
<1>q. QED
    BY <1>1, <1>2, <1>3, <1>4, <1>5, <1>6, <1>7, OneFetch

\* LogsService.list reads the marker,
LEMMA MarkerIsRead ==
    ASSUME QueryShape, ServerShape, NEW k \in Lists, MarkerRead(k)
    PROVE  /\ QueryShape' /\ fetch[k].at = "asked" /\ fetch[k].as \in Tenants
           /\ fetch'[k].at = "viewed" /\ fetch'[k].as = fetch[k].as
           /\ fetch'[k].got.from = Cutoff(fetch[k].as)
           /\ \A j \in Keys \ {k} : fetch'[j] = fetch[j]
<1> DEFINE got == [of |-> fetch[k].as, n |-> 0, from |-> Cutoff(fetch[k].as)]
           f == [at |-> "viewed", as |-> fetch[k].as, got |-> got]
<1>1. k \in Keys /\ k \in {"retry", "logs"}
    BY KeyNames DEF MarkerRead
<1>2. fetch[k] \in Fetch0(k) /\ fetch[k].at = "asked" /\ fetch[k].as \in Tenants
    BY <1>1 DEF QueryShape, Sound, Fetch0, MarkerRead, Asking
<1>3. got \in List0
    BY <1>1, <1>2 DEF List0, ServerShape, Cutoff
<1>4. f \in Fetch0(k)
    BY <1>1, <1>2, <1>3 DEF Fetch0, Data0
<1>5. DOMAIN fetch' = Keys /\ UNCHANGED cache /\ \A j \in Keys \ {k} : fetch'[j] = fetch[j]
    BY <1>1 DEF MarkerRead, QueryShape
<1>6. fetch'[k] = f
    BY <1>1, <1>2 DEF MarkerRead, Fetch0, QueryShape
<1>7. f.at = "viewed" /\ f.as = fetch[k].as /\ f.got = got /\ got.of = f.as
      /\ got.from = Cutoff(fetch[k].as)
    OBVIOUS
<1> HIDE DEF f, got
<1>q. QED
    BY <1>1, <1>2, <1>3, <1>4, <1>5, <1>6, <1>7, OneFetch

\* and then the rows.
LEMMA RowsAreRead ==
    ASSUME QueryShape, ServerShape, NEW k \in {"retry", "logs"}, RowsRead(k)
    PROVE  /\ QueryShape' /\ fetch[k].at = "viewed" /\ fetch[k].as \in Tenants
           /\ fetch'[k].at = "answered" /\ fetch'[k].as = fetch[k].as
           /\ fetch'[k].got.n = table[fetch[k].as][TableOf(k)]
           /\ fetch'[k].got.from = fetch[k].got.from
           /\ \A j \in Keys \ {k} : fetch'[j] = fetch[j]
<1> DEFINE got == [fetch[k].got EXCEPT !.n = table[fetch[k].as]["logs"]]
           f == [at |-> "answered", as |-> fetch[k].as, got |-> got]
<1>1. k \in Keys /\ k # "wa-status" /\ TableOf(k) = "logs"
    BY DEF Keys, TableOf
<1>2. /\ fetch[k] \in Fetch0(k) /\ fetch[k].at = "viewed"
      /\ fetch[k].got \in List0 /\ fetch[k].got.of = fetch[k].as
    BY <1>1 DEF QueryShape, Sound, RowsRead
<1>3. fetch[k].as \in Tenants
    BY <1>2 DEF List0
<1>4. got \in List0 /\ got.of = fetch[k].as /\ got.n = table[fetch[k].as]["logs"]
      /\ got.from = fetch[k].got.from
    BY <1>2, <1>3 DEF List0, ServerShape, Tables
<1>5. f \in Fetch0(k)
    BY <1>1, <1>2, <1>3, <1>4 DEF Fetch0, Data0
<1>6. DOMAIN fetch' = Keys /\ UNCHANGED cache /\ \A j \in Keys \ {k} : fetch'[j] = fetch[j]
    BY <1>1 DEF RowsRead, QueryShape
<1>7. fetch'[k] = f
    BY <1>1, <1>2 DEF RowsRead, Fetch0, QueryShape
<1>8. f.at = "answered" /\ f.as = fetch[k].as /\ f.got = got
    OBVIOUS
<1> HIDE DEF f, got
<1>q. QED
    BY <1>1, <1>2, <1>3, <1>4, <1>5, <1>6, <1>7, <1>8, OneFetch

LEMMA StatusIsServed ==
    ASSUME QueryShape, ConnectShape, StatusServed
    PROVE  QueryShape' /\ \A j \in Lists : fetch'[j] = fetch[j]
<1> DEFINE k == "wa-status"
           got == [status |-> sess[fetch[k].as].status, qr |-> sess[fetch[k].as].qr]
           f == [at |-> "answered", as |-> fetch[k].as, got |-> got]
<1>1. k \in Keys /\ Lists = Keys \ {k}
    BY KeyNames
<1>2. fetch[k] \in Fetch0(k) /\ fetch[k].as \in Tenants
    BY <1>1 DEF QueryShape, Sound, Fetch0, StatusServed, Asking
<1>3. got \in Answer0
    BY <1>2 DEF Answer0, ConnectShape, Sess0
<1>4. f \in Fetch0(k)
    BY <1>2, <1>3 DEF Fetch0, Data0
<1>5. DOMAIN fetch' = Keys /\ UNCHANGED cache /\ \A j \in Keys \ {k} : fetch'[j] = fetch[j]
    BY <1>1 DEF StatusServed, QueryShape
<1>6. fetch'[k] = f
    BY <1>1, <1>2 DEF StatusServed, Fetch0, QueryShape
<1>q. QED
    BY <1>1, <1>4, <1>5, <1>6, OneFetch

Same(k) == fetch'[k] = fetch[k] /\ cache'[k] = cache[k]

\* One fetch begins, ends, or stays.
LEMMA OneTurned ==
    ASSUME QueryShape, user \in Tenants \cup {None}, UNCHANGED cache, NEW k \in Keys,
           NEW f \in {Refetched(k), Asked(user), NoFetch, fetch[k]},
           fetch' = [fetch EXCEPT ![k] = f]
    PROVE  QueryShape' /\ fetch'[k] = f /\ \A j \in Keys \ {k} : Same(j)
<1>1. /\ DOMAIN fetch' = Keys /\ fetch'[k] = f
      /\ \A j \in Keys \ {k} : fetch'[j] = fetch[j]
    BY DEF QueryShape
<1>2. CASE f = Refetched(k)
    BY <1>1, <1>2, AskedAgain, OneFetch DEF Same
<1>3. CASE f = Asked(user)
    BY <1>1, <1>3, Requests, OneFetch DEF Same
<1>4. CASE f = NoFetch
    <2>1. f \in Fetch0(k) /\ f.at = "idle"  BY <1>4, Requests
    <2>q. QED  BY <1>1, <2>1, OneFetch DEF Same
<1>5. CASE f = fetch[k]
    BY <1>1, <1>5, OneFetch DEF Same, QueryShape, Sound
<1>q. QED
    BY <1>2, <1>3, <1>4, <1>5

\* What the Connect page and the sessions do leaves the lists alone.
LEMMA ConnectAside ==
    ASSUME QueryShape, UserShape, ConnectShape, ConnectStep
    PROVE  /\ QueryShape' /\ left' \in Plan0 /\ UNCHANGED <<user, page>>
           /\ \A k \in Lists : Same(k)
<1> USE Stocked DEF UserShape
<1>0. "wa-status" \in Keys /\ \A k \in Lists : k \in Keys /\ k # "wa-status"
    BY KeyNames
<1>1. ASSUME UNCHANGED <<user, page, cache, fetch>>, left' \in Plan0
      PROVE  /\ QueryShape' /\ left' \in Plan0 /\ UNCHANGED <<user, page>>
             /\ \A k \in Lists : Same(k)
    BY <1>1 DEF QueryShape, Sound, Same
<1>2. ASSUME NEW t \in Tenants, TenantStep(t) PROVE UNCHANGED <<user, page, cache, fetch>> /\ left' \in Plan0
    BY <1>2, Spent DEF TenantStep, Reconnects, CodeComes, CodeEncoded, Opens, Closes, Tells, tabVars
<1>3. ASSUME NEW w \in {"main", "side"}, Dials(w) \/ Drops(w) \/ Hear(w)
      PROVE  UNCHANGED <<user, page, cache, fetch>> /\ left' \in Plan0
    BY <1>3, Spent DEF Dials, Drops, Hear, tabVars
<1>4. ASSUME Restarts \/ ClickStart \/ ClickLeave \/ PostFails \/ StartServed \/ LeaveServed \/ LeaveTold
      PROVE  UNCHANGED <<user, page, cache, fetch>> /\ left' \in Plan0
    BY <1>4, Spent DEF Restarts, ClickStart, ClickLeave, PostFails, StartServed, LeaveServed,
        LeaveTold, tabVars
<1>5. ASSUME NEW f \in {Refetched("wa-status"), Asked(user), NoFetch, fetch["wa-status"]},
             fetch' = [fetch EXCEPT !["wa-status"] = f], UNCHANGED <<user, page, cache>>, left' \in Plan0
      PROVE  /\ QueryShape' /\ left' \in Plan0 /\ UNCHANGED <<user, page>>
             /\ \A k \in Lists : Same(k)
    BY <1>0, <1>5, OneTurned
<1>6. CASE Polls("wa-status") \/ Fails("wa-status") \/ Denied("wa-status")
    BY <1>5, <1>6, Spent DEF Polls, Fails, Denied
<1>7. CASE StartAnswered
    BY <1>5, <1>7 DEF StartAnswered, Answer
<1>8. CASE LeaveAnswered
    BY <1>5, <1>8 DEF LeaveAnswered, Answer
<1>9. CASE StatusServed
    BY <1>9, StatusIsServed DEF StatusServed, Same
<1>10. CASE StatusArrives
    BY <1>0, <1>10, OneArrives DEF StatusArrives, Arrives, Same
<1>q. QED
    BY <1>1, <1>2, <1>3, <1>4, <1>6, <1>7, <1>8, <1>9, <1>10 DEF ConnectStep, PostStep

----------------------------------------------------------------------------
(* The shapes of the variables *)

\* A step that fetches one key, or none, and leaves the user where they are.
LEMMA StaysOn ==
    ASSUME QueryShape, UserShape, UNCHANGED <<user, page>>, left' \in Plan0, UNCHANGED cache,
           \/ UNCHANGED fetch
           \/ \E k \in Keys : \E f \in {Refetched(k), Asked(user), NoFetch, fetch[k]} :
                fetch' = [fetch EXCEPT ![k] = f]
    PROVE  QueryShape' /\ UserShape'
<1>1. UserShape'
    BY DEF UserShape
<1>2. CASE UNCHANGED fetch
    BY <1>1, <1>2 DEF QueryShape, Sound
<1>3. CASE \E k \in Keys : \E f \in {Refetched(k), Asked(user), NoFetch, fetch[k]} :
             fetch' = [fetch EXCEPT ![k] = f]
    <2>1. PICK k \in Keys : \E f \in {Refetched(k), Asked(user), NoFetch, fetch[k]} :
            fetch' = [fetch EXCEPT ![k] = f]
        BY <1>3
    <2>q. QED  BY <1>1, <2>1, OneTurned DEF UserShape
<1>q. QED  BY <1>2, <1>3

LEMMA ListStepShape ==
    ASSUME QueryShape, UserShape, ServerShape, Working, ListStep
    PROVE  QueryShape' /\ UserShape'
<1>0. Lists \subseteq Keys /\ {"retry", "logs"} \subseteq Lists
    BY KeyNames DEF Lists
<1> USE Stocked DEF UserShape
<1>1. ASSUME NEW k \in Lists, ListServed(k) PROVE QueryShape' /\ UserShape'
    BY <1>1, ListIsServed DEF ListServed
<1>2. ASSUME NEW k \in Lists, MarkerRead(k) PROVE QueryShape' /\ UserShape'
    BY <1>2, MarkerIsRead DEF MarkerRead
<1>3. ASSUME NEW k \in Lists, RowsRead(k) PROVE QueryShape' /\ UserShape'
    <2>1. CASE k \in {"retry", "logs"}
        BY <1>3, <2>1, RowsAreRead DEF RowsRead
    <2>2. CASE k \notin {"retry", "logs"}
        BY <1>0, <1>3, <2>2 DEF RowsRead, QueryShape, Sound
    <2>q. QED  BY <2>1, <2>2
<1>4. ASSUME NEW k \in Lists, ListArrives(k) PROVE QueryShape' /\ UserShape'
    BY <1>0, <1>4, OneArrives DEF ListArrives, Arrives
<1>5. ASSUME NEW k \in Lists, ListFails(k) PROVE QueryShape' /\ UserShape'
    BY <1>0, <1>5, StaysOn, Spent DEF ListFails, Fails, Denied
<1>6. ASSUME NEW k \in Lists, Refreshes(k) PROVE QueryShape' /\ UserShape'
    BY <1>0, <1>6, StaysOn, Spent DEF Refreshes
<1>7. ASSUME NEW k \in Lists, Polls(k) PROVE QueryShape' /\ UserShape'
    BY <1>0, <1>7, StaysOn DEF Polls
<1>8. ASSUME NEW t \in Tenants, RowMade(t) \/ RivalClears(t) PROVE QueryShape' /\ UserShape'
    BY <1>8, StaysOn, Spent DEF RowMade, RivalClears
<1>9. ASSUME NEW c \in DOMAIN clears, ClearUpdates(c) \/ ClearCreates(c) PROVE QueryShape' /\ UserShape'
    BY <1>9, StaysOn DEF ClearUpdates, ClearCreates, tabVars
<1>10. ASSUME NEW what \in Mutations, Click(what) PROVE QueryShape' /\ UserShape'
    BY <1>10, StaysOn, Spent DEF Click
<1>11. CASE Served \/ ClearServed
    BY <1>11, StaysOn DEF Served, ClearServed, tabVars
<1>12. CASE Failed
    BY <1>12, StaysOn, Spent DEF Failed
<1>13. CASE AnsweredAwaited \/ AnsweredAtOnce
    <2>1. KeyOf(task.what) \in Keys
        BY <1>13, KeyNames DEF AnsweredAwaited, AnsweredAtOnce, Mutations, Lists
    <2>q. QED  BY <1>13, <2>1, StaysOn DEF AnsweredAwaited, AnsweredAtOnce
<1>q. QED
    BY <1>1, <1>2, <1>3, <1>4, <1>5, <1>6, <1>7, <1>8, <1>9, <1>10, <1>11, <1>12, <1>13
    DEF ListStep, Mutations

LEMMA TabStepShape ==
    ASSUME QueryShape, UserShape, ServerShape, ConnectShape, Working, [Next]_vars
    PROVE  QueryShape' /\ UserShape'
<1> USE Stocked
<1>0. Lists \subseteq Keys
    BY KeyNames
<1>1. ASSUME NEW t \in Tenants, LogIn(t) PROVE QueryShape' /\ UserShape'
    <2>1. Shown("connect", t) /\ UNCHANGED cache /\ user' = t /\ Spend("logins")
        BY <1>1 DEF LogIn, SignIn
    <2>2. QueryShape' /\ page' = "connect"
        BY <2>1, PageShown
    <2>q. QED  BY <2>1, <2>2, Spent, NoneAssumption DEF UserShape, Pages
<1>2. ASSUME NEW p \in Pages, GoTo(p) PROVE QueryShape' /\ UserShape'
    <2>1. Shown(p, user) /\ UNCHANGED <<user, cache>> /\ user # None /\ Spend("visits")
        BY <1>2 DEF GoTo, Visit
    <2>2. QueryShape' /\ page' = p
        BY <2>1, PageShown DEF UserShape
    <2>q. QED  BY <2>1, <2>2, Spent DEF UserShape, Pages
<1>3. CASE LogOut
    <2>1. user' = None /\ page' = "login" /\ UNCHANGED <<cache, fetch>> /\ Spend("clicks")
        BY <1>3 DEF LogOut, SignOut
    <2>q. QED  BY <2>1, Spent DEF UserShape, QueryShape, Sound
<1>4. CASE ThrownOut
    <2>1. /\ user' = None /\ page' = "login"
          /\ cache' = [k \in Keys |-> None] /\ fetch' = [k \in Keys |-> NoFetch]
          /\ UNCHANGED left \/ Spend("network")
        BY <1>4 DEF ThrownOut, Unauthorized
    <2>2. ASSUME NEW k \in Keys PROVE Sound(k)'
        BY <2>1, Requests DEF Sound, Data0
    <2>q. QED  BY <2>1, <2>2, Spent DEF UserShape, QueryShape
<1>5. CASE Saved
    <2>1. UNCHANGED <<user, cache, left>>
        BY <1>5 DEF Saved, SaveAnswered
    <2>2. UNCHANGED <<page, fetch>> \/ (user # None /\ Shown("schedules", user))
        BY <1>5 DEF Saved, SaveAnswered
    <2>3. CASE UNCHANGED <<page, fetch>>
        BY <2>1, <2>3 DEF QueryShape, Sound, UserShape
    <2>4. CASE user # None /\ Shown("schedules", user)
        BY <2>1, <2>4, PageShown DEF UserShape, Pages
    <2>q. QED  BY <2>2, <2>3, <2>4
<1>6. CASE ConnectStep
    BY <1>6, ConnectAside DEF UserShape
<1>7. CASE ListStep
    BY <1>7, ListStepShape
<1>8. CASE UNCHANGED vars
    BY <1>8 DEF vars, tabVars, QueryShape, Sound, UserShape
<1>q. QED
    BY <1>1, <1>2, <1>3, <1>4, <1>5, <1>6, <1>7, <1>8 DEF Next

----------------------------------------------------------------------------
(* What a step does to the server, and what the user is told *)

\* The steps that change the server's rows or put a mutation in its hands.
ServerActs ==
    \/ \E t \in Tenants : RowMade(t) \/ RivalClears(t)
    \/ \E c \in {"mine", "rival"} : ClearUpdates(c) \/ ClearCreates(c)
    \/ \E what \in Mutations : Click(what)
    \/ Served \/ ClearServed

\* The others take the mutation on, or are done with it.
TaskGoesOn ==
    \/ task' \in {task, NoTask}
    \/ task.at = "answered" /\ task' = [task EXCEPT !.at = "refetching"]

Silent == UNCHANGED saidVars /\ user' \in {user, None}

Forgets == told' = [k \in Lists |-> 0] /\ shown' = [k \in Lists |-> 0] /\ hidden' = 0

Speaks ==
    /\ task.at \in {"answered", "refetching"} /\ task.what \in Mutations /\ user' = user
    /\ Reported(KeyOf(task.what))
    /\ \/ shown' = shown
       \/ Mine /\ shown' = [shown EXCEPT ![KeyOf(task.what)] = task.n]
    /\ \/ hidden' = hidden
       \/ Mine /\ task.what = "clear" /\ hidden' = task.time

PageActs ==
    /\ UNCHANGED <<serverVars, overlap>> /\ TaskGoesOn /\ gap' \subseteq Lists
    /\ Silent \/ Forgets \/ Speaks

LEMMA ServerActsFrame ==
    ASSUME ServerActs
    PROVE  UNCHANGED <<user, page, cache, fetch, saidVars, gap>>
BY DEF ServerActs, RowMade, RivalClears, ClearUpdates, ClearCreates, Click, Served, ClearServed,
    tabVars, saidVars

LEMMA TwoKinds ==
    ASSUME ServerShape, SaidShape, Working, [Next]_vars
    PROVE  ServerActs \/ PageActs
<1>0. /\ DOMAIN clears = {"mine", "rival"} /\ gap \subseteq Lists
      /\ KeyOf(task.what) \in Lists
      /\ \A p \in Pages \cup {"login"} : GapsOf(p) \subseteq Lists
    BY DEF ServerShape, SaidShape, Task0, GapsOf, KeyOf, Lists
<1>1. ASSUME NEW t \in Tenants, LogIn(t) PROVE PageActs
    BY <1>0, <1>1 DEF LogIn, PageActs, TaskGoesOn, Forgets, TabForgets, serverVars
<1>2. ASSUME NEW p \in Pages, GoTo(p) PROVE PageActs
    BY <1>0, <1>2 DEF GoTo, Visit, PageActs, TaskGoesOn, Silent, GapAfter
<1>3. CASE LogOut
    BY <1>0, <1>3 DEF LogOut, SignOut, PageActs, TaskGoesOn, Silent, serverVars, saidVars, listVars
<1>4. CASE ThrownOut
    BY <1>4 DEF ThrownOut, PageActs, TaskGoesOn, Forgets, TabForgets, serverVars
<1>5. CASE Saved
    <2>1. gap' \subseteq Lists
        BY <1>0, <1>5 DEF Saved, SaveAnswered, GapAfter, Lists, Pages
    <2>2. Speaks
        BY <1>5 DEF Saved, SaveAnswered, Speaks, Mutations, KeyOf
    <2>q. QED  BY <1>5, <2>1, <2>2 DEF Saved, SaveAnswered, PageActs, TaskGoesOn, serverVars
<1>6. CASE ConnectStep /\ UNCHANGED listVars
    <2>1. UNCHANGED user
        BY <1>6 DEF ConnectStep, TenantStep, Reconnects, CodeComes, CodeEncoded, Opens, Closes, Tells,
            Dials, Drops, Hear, Polls, Fails, Denied, StatusServed, StatusArrives, Arrives, Restarts,
            ClickStart, ClickLeave, PostStep, StartServed, LeaveServed, LeaveTold, StartAnswered,
            LeaveAnswered, Answer, PostFails, tabVars
    <2>q. QED  BY <1>0, <1>6, <2>1 DEF PageActs, TaskGoesOn, Silent, serverVars, saidVars, listVars
<1>7. CASE UNCHANGED vars
    BY <1>0, <1>7 DEF vars, tabVars, PageActs, TaskGoesOn, Silent, serverVars, saidVars, listVars
<1>8. ASSUME NEW k \in Lists, ListServed(k) \/ MarkerRead(k) \/ RowsRead(k) PROVE PageActs
    BY <1>0, <1>8 DEF ListServed, MarkerRead, RowsRead, PageActs, TaskGoesOn, Silent, serverVars,
        saidVars, listVars
<1>9. ASSUME NEW k \in Lists, Settles(k), UNCHANGED user
      PROVE  TaskGoesOn /\ (Silent \/ Speaks)
    <2>1. CASE Awaits(k)
        <3>1. task.what \in Mutations  BY <2>1 DEF Working, Awaits
        <3>q. QED  BY <1>9, <2>1, <3>1 DEF Settles, Awaits, TaskGoesOn, Speaks
    <2>2. CASE ~Awaits(k)
        BY <1>9, <2>2 DEF Settles, TaskGoesOn, Silent
    <2>q. QED  BY <2>1, <2>2
<1>10. ASSUME NEW k \in Lists, ListArrives(k) PROVE PageActs
    BY <1>0, <1>9, <1>10 DEF ListArrives, Arrives, PageActs
<1>11. ASSUME NEW k \in Lists, ListFails(k) PROVE PageActs
    BY <1>0, <1>9, <1>11 DEF ListFails, Fails, Denied, GapAfter, PageActs
<1>12. ASSUME NEW k \in Lists, Refreshes(k) PROVE PageActs
    <2>1. CASE Awaits(k) /\ cache[k] # None
        <3>1. task.what \in Mutations  BY <2>1 DEF Working, Awaits
        <3>q. QED  BY <1>0, <1>12, <2>1, <3>1 DEF Refreshes, Awaits, TaskGoesOn, Speaks, PageActs
    <2>2. CASE ~(Awaits(k) /\ cache[k] # None)
        BY <1>0, <1>12, <2>2 DEF Refreshes, TaskGoesOn, Silent, PageActs, saidVars
    <2>q. QED  BY <2>1, <2>2
<1>13. ASSUME NEW k \in Lists, Polls(k), UNCHANGED listVars PROVE PageActs
    BY <1>0, <1>13 DEF Polls, PageActs, TaskGoesOn, Silent, serverVars, saidVars, listVars
<1>14. CASE Failed
    BY <1>0, <1>14 DEF Failed, PageActs, TaskGoesOn, Silent
<1>15. CASE AnsweredAwaited
    <2>0. task.what \in Mutations  BY <1>15 DEF AnsweredAwaited, Mutations
    <2>1. gap' \subseteq Lists
        BY <1>0, <1>15 DEF AnsweredAwaited, GapAfter
    <2>2. TaskGoesOn
        BY <1>15 DEF AnsweredAwaited, TaskGoesOn
    <2>3. Silent \/ Speaks
        BY <1>15, <2>0 DEF AnsweredAwaited, Silent, Speaks, saidVars
    <2>q. QED  BY <1>15, <2>1, <2>2, <2>3 DEF AnsweredAwaited, PageActs
<1>16. CASE AnsweredAtOnce
    <2>0. task.what \in Mutations  BY <1>16 DEF AnsweredAtOnce, Mutations
    <2>1. gap' \subseteq Lists
        BY <1>0, <1>16 DEF AnsweredAtOnce, GapAfter
    <2>q. QED  BY <1>16, <2>0, <2>1 DEF AnsweredAtOnce, Speaks, TaskGoesOn, PageActs
<1>q. QED
    BY <1>0, <1>1, <1>2, <1>3, <1>4, <1>5, <1>6, <1>7, <1>8, <1>10, <1>11, <1>12, <1>13, <1>14,
       <1>15, <1>16 DEF Next, ListStep, ServerActs, Mutations

----------------------------------------------------------------------------
(* The server *)

Grows ==
    /\ \A t \in Tenants : rows[t] <= rows'[t] /\ \A x \in Tables : table[t][x] <= table'[t][x]
    /\ overlap => overlap'
    /\ ~overlap' => \A t \in Tenants : Cutoff(t) <= Cutoff(t)'

\* The number a mutation is answered with is that of the rows then.
NewAnswer ==
    task'.at \in {"answered", "refetching"} =>
        \/ /\ task.at \in {"answered", "refetching"} /\ task'.what = task.what
           /\ task'.for = task.for /\ task'.n = task.n
        \/ task'.n = table'[task'.for][TableOf(KeyOf(task'.what))]

ServerGoesOn == ServerInv' /\ Grows /\ NewAnswer

LEMMA CutoffIsTime ==
    ASSUME ServerShape, NEW t \in Tenants
    PROVE  Cutoff(t) \in Nat
BY DEF ServerShape, Cutoff

LEMMA TableKnown ==
    ASSUME NEW w \in Mutations
    PROVE  TableOf(KeyOf(w)) \in Tables
BY DEF TableOf, KeyOf, Tables, Mutations

LEMMA RowMadeServer ==
    ASSUME ServerInv, NEW t \in Tenants, RowMade(t)
    PROVE  ServerGoesOn
<1>1. /\ UNCHANGED <<table, marker, clears, task, overlap>>
      /\ rows' \in [Tenants -> Nat] /\ \A s \in Tenants : rows[s] <= rows'[s]
    BY DEF RowMade, ServerInv, ServerShape
<1>2. ServerShape' /\ Working'
    BY <1>1 DEF ServerInv, ServerShape, Working, Clearing
<1>3. \A s \in Tenants : Cutoff(s)' = Cutoff(s) /\ Cutoff(s) \in Nat
    BY <1>1, CutoffIsTime DEF Cutoff, ServerInv
<1>4. Timed'
    <2>1. \A c \in {"mine", "rival"} : Clearing(c)' =>
            Clearing(c) /\ clears[c].for \in Tenants /\ clears[c].time \in Nat
        BY <1>1 DEF ServerInv, ServerShape, Clear0, Working, Clearing
    <2>2. task.at \in {"answered", "refetching"} => task.for \in Tenants
        BY DEF ServerInv, Working
    <2>q. QED  BY <1>1, <1>3, <2>1, <2>2 DEF Timed, ServerInv, ServerShape, Clearing
<1>5. Grows
    BY <1>1, <1>3 DEF Grows, ServerInv, ServerShape
<1>q. QED
    BY <1>1, <1>2, <1>4, <1>5 DEF ServerGoesOn, NewAnswer, ServerInv

\* clearView begins.
LEMMA ClearBeginsServer ==
    ASSUME ServerInv, NEW c \in {"mine", "rival"}, NEW t \in Tenants, ~Clearing(c), ClearBegins(c, t),
           UNCHANGED <<table, rows, marker>>,
           \/ UNCHANGED task /\ c = "rival"
           \/ /\ c = "mine" /\ task.at = "sent" /\ task.what = "clear" /\ t = task.for
              /\ task' = [task EXCEPT !.at = "serving"]
    PROVE  ServerGoesOn
<1>1. /\ clears' \in [{"mine", "rival"} -> Clear0]
      /\ clears'[c] = [at |-> "update", for |-> t, time |-> rows[t]]
      /\ \A d \in {"mine", "rival"} \ {c} : clears'[d] = clears[d]
    BY DEF ClearBegins, ServerInv, ServerShape, Clear0
<1>2. /\ Clearing(c)' /\ clears'[c].for = t /\ clears'[c].time = rows[t]
      /\ \A d \in {"mine", "rival"} \ {c} : Clearing(d)' <=> Clearing(d)
    BY <1>1 DEF Clearing
<1>3. /\ overlap' \in BOOLEAN
      /\ overlap => overlap'
      /\ ~overlap' => \A d \in {"mine", "rival"} : Clearing(d) => clears[d].for # t
    BY DEF ClearBegins, ServerInv, ServerShape
<1>4. ServerShape'
    BY <1>1 DEF ServerInv, ServerShape, Task0, Stages
<1>5. Working'
    <2>1. CASE UNCHANGED task /\ c = "rival"
        BY <1>1, <1>2, <2>1 DEF ServerInv, Working
    <2>2. CASE c = "mine" /\ task.at = "sent" /\ task.what = "clear" /\ t = task.for
               /\ task' = [task EXCEPT !.at = "serving"]
        <3>1. task'.at = "serving" /\ task'.what = "clear" /\ task'.for = t
            BY <2>2 DEF ServerInv, ServerShape, Task0
        <3>q. QED  BY <1>1, <1>2, <2>2, <3>1 DEF ServerInv, Working, Mutations
    <2>q. QED  BY <2>1, <2>2
<1>6. \A s \in Tenants : Cutoff(s)' = Cutoff(s) /\ Cutoff(s) \in Nat /\ rows[s] \in Nat
    BY CutoffIsTime DEF Cutoff, ServerInv, ServerShape
<1>7. task'.at \in {"answered", "refetching"} => task' = task
    BY DEF ServerInv, ServerShape, Task0
<1>8. Timed'
    <2>1. \A d \in {"mine", "rival"} : Clearing(d) => clears[d].for \in Tenants
        BY DEF ServerInv, Working
    <2>2. \A s \in Tenants : (Cutoff(s) <= rows[s])'
        BY <1>6 DEF ServerInv, Timed
    <2>3. \A d \in {"mine", "rival"} : (Clearing(d) => clears[d].time <= rows[clears[d].for])'
        BY <1>1, <1>2, <1>6, <2>1 DEF ServerInv, Timed
    <2>4. ASSUME ~overlap' PROVE \A d \in {"mine", "rival"} : (Clearing(d) => Cutoff(clears[d].for) <= clears[d].time)'
        BY <1>1, <1>2, <1>3, <1>6, <2>1, <2>4 DEF ServerInv, Timed
    <2>5. ASSUME ~overlap' PROVE (Clearing("mine") /\ Clearing("rival") => clears["mine"].for # clears["rival"].for)'
        BY <1>1, <1>2, <1>3, <2>5 DEF ServerInv
    <2>6. ASSUME ~overlap' PROVE (task.at \in {"answered", "refetching"} /\ task.what = "clear" => Cutoff(task.for) >= task.time)'
        BY <1>3, <1>6, <1>7, <2>6 DEF ServerInv, Timed, Working
    <2>q. QED  BY <2>2, <2>3, <2>4, <2>5, <2>6 DEF Timed
<1>9. Grows
    BY <1>3, <1>6 DEF Grows, ServerInv, ServerShape
<1>q. QED
    BY <1>3, <1>4, <1>5, <1>7, <1>8, <1>9 DEF ServerGoesOn, NewAnswer, ServerInv

\* clearView ends, with the marker moved to its time or, where the row came first, not at all.
LEMMA ClearEndsServer ==
    ASSUME ServerInv, NEW c \in {"mine", "rival"}, NEW ok \in BOOLEAN, Clearing(c), ClearEnds(c, ok),
           UNCHANGED <<rows, overlap>>,
           marker' = IF ok THEN [marker EXCEPT ![clears[c].for] = clears[c].time] ELSE marker
    PROVE  ServerGoesOn
<1>a. PICK t, time : t = clears[c].for /\ time = clears[c].time
    OBVIOUS
<1> USE <1>a
<1>1. t \in Tenants /\ time \in Nat /\ time <= rows[t]
    BY DEF ServerInv, ServerShape, Clear0, Working, Timed
<1>2. /\ clears' \in [{"mine", "rival"} -> Clear0] /\ ~Clearing(c)'
      /\ \A d \in {"mine", "rival"} \ {c} : clears'[d] = clears[d] /\ (Clearing(d)' <=> Clearing(d))
    BY DEF ClearEnds, ServerInv, ServerShape, Clear0, NoClear, Clearing
<1>3. /\ table' \in [Tenants -> [Tables -> Nat]]
      /\ \A s \in Tenants : \A x \in Tables : table[s][x] <= table'[s][x]
    <2>1. CASE table' = [table EXCEPT ![t]["logs"] = @ + 1]
        BY <1>1, <2>1 DEF ServerInv, ServerShape, Tables
    <2>2. CASE UNCHANGED table
        BY <2>2 DEF ServerInv, ServerShape
    <2>q. QED  BY <2>1, <2>2 DEF ClearEnds
<1>4. /\ \A s \in Tenants : s # t => Cutoff(s)' = Cutoff(s)
      /\ Cutoff(t)' = IF ok THEN time ELSE Cutoff(t)
      /\ marker' \in [Tenants -> Nat \cup {None}]
    <2>1. time # None
        BY <1>1, DataAssumption
    <2>q. QED  BY <1>1, <2>1 DEF ServerInv, ServerShape, Cutoff
<1>5. \A s \in Tenants : Cutoff(s) \in Nat /\ Cutoff(s)' \in Nat
    BY <1>1, <1>4, CutoffIsTime DEF ServerInv
<1>6. CASE c = "mine" /\ task.at = "serving"
    <2>1. task' = [task EXCEPT !.at = IF ok THEN "answered" ELSE "failed",
                               !.n = table'[t]["logs"], !.time = time]
        BY <1>6 DEF ClearEnds
    <2>2. task.what = "clear" /\ task.for = t /\ task \in Task0
        BY <1>6 DEF ServerInv, ServerShape, Working
    <2>3. table'[t]["logs"] \in Nat
        BY <1>1, <1>3 DEF Tables
    <2>4. /\ task' \in Task0 /\ task'.what = "clear" /\ task'.for = t
          /\ task'.n = table'[t]["logs"] /\ task'.time = time
          /\ task'.at = IF ok THEN "answered" ELSE "failed"
        BY <1>1, <2>1, <2>2, <2>3 DEF Task0, Stages
    <2>5. TableOf(KeyOf("clear")) = "logs"
        BY DEF TableOf, KeyOf
    <2>6. ServerShape'
        BY <1>2, <1>3, <1>4, <2>4 DEF ServerInv, ServerShape
    <2>7. Working'
        BY <1>1, <1>2, <2>3, <2>4, <2>5 DEF ServerInv, Working, Mutations
    <2>8. Timed'
        <3>1. \A s \in Tenants : (Cutoff(s) <= rows[s])'
            BY <1>1, <1>4 DEF ServerInv, Timed
        <3>2. \A d \in {"mine", "rival"} : (Clearing(d) => clears[d].time <= rows[clears[d].for])'
            BY <1>2 DEF ServerInv, Timed
        <3>3. ASSUME ~overlap' PROVE \A d \in {"mine", "rival"} : (Clearing(d) => Cutoff(clears[d].for) <= clears[d].time)'
            BY <1>2, <1>4, <3>3 DEF ServerInv, Timed, Working
        <3>4. (task.at \in {"answered", "refetching"} /\ task.what = "clear" => Cutoff(task.for) >= task.time)'
            BY <1>1, <1>4, <2>4
        <3>q. QED  BY <1>2, <3>1, <3>2, <3>3, <3>4 DEF Timed
    <2>9. Grows
        BY <1>3, <1>4, <1>5 DEF Grows, ServerInv, ServerShape, Timed
    <2>10. NewAnswer
        BY <2>4, <2>5 DEF NewAnswer
    <2>q. QED  BY <2>6, <2>7, <2>8, <2>9, <2>10 DEF ServerInv, ServerGoesOn
<1>7. CASE ~(c = "mine" /\ task.at = "serving")
    <2>1. task' = task
        BY <1>7 DEF ClearEnds
    <2>2. task.at \in {"answered", "refetching"} => task.for \in Tenants /\ task.what \in Mutations
        BY DEF ServerInv, Working
    <2>3. ServerShape'
        BY <1>2, <1>3, <1>4, <2>1 DEF ServerInv, ServerShape
    <2>4. Working'
        <3>1. (task.at \in {"answered", "refetching"} => task.n <= table[task.for][TableOf(KeyOf(task.what))])'
            <4>1. SUFFICES ASSUME task.at \in {"answered", "refetching"}
                  PROVE  task.n <= table'[task.for][TableOf(KeyOf(task.what))]
                BY <2>1
            <4> DEFINE x == TableOf(KeyOf(task.what))
            <4>2. x \in Tables  BY <2>2, <4>1, TableKnown
            <4>3. task.n <= table[task.for][x] /\ task.n \in Nat
                BY <4>1 DEF ServerInv, ServerShape, Task0, Working
            <4>4. table[task.for][x] \in Nat /\ table'[task.for][x] \in Nat
                BY <1>3, <2>2, <4>1, <4>2 DEF ServerInv, ServerShape
            <4> HIDE DEF x
            <4>5. table[task.for][x] <= table'[task.for][x]
                BY <1>3, <2>2, <4>1, <4>2
            <4>q. QED  BY <4>3, <4>4, <4>5 DEF x
        <3>q. QED  BY <1>2, <1>7, <2>1, <3>1 DEF ServerInv, Working
    <2>5. Timed'
        <3>1. \A s \in Tenants : (Cutoff(s) <= rows[s])'
            BY <1>1, <1>4 DEF ServerInv, Timed
        <3>2. \A d \in {"mine", "rival"} : (Clearing(d) => clears[d].time <= rows[clears[d].for])'
            BY <1>2 DEF ServerInv, Timed
        <3>3. ASSUME ~overlap' PROVE \A d \in {"mine", "rival"} : (Clearing(d) => Cutoff(clears[d].for) <= clears[d].time)'
            BY <1>2, <1>4, <3>3 DEF ServerInv, Timed, Working
        <3>4. ASSUME ~overlap' PROVE (task.at \in {"answered", "refetching"} /\ task.what = "clear" => Cutoff(task.for) >= task.time)'
            <4>1. \A s \in Tenants : Cutoff(s) <= Cutoff(s)'
                BY <1>1, <1>4, <1>5, <3>4 DEF ServerInv, Timed
            <4>2. task.time \in Nat  BY DEF ServerInv, ServerShape, Task0
            <4>q. QED  BY <1>5, <2>1, <2>2, <3>4, <4>1, <4>2 DEF ServerInv, Timed
        <3>q. QED  BY <1>2, <3>1, <3>2, <3>3, <3>4 DEF Timed
    <2>6. Grows
        BY <1>3, <1>4, <1>5 DEF Grows, ServerInv, ServerShape, Timed
    <2>q. QED  BY <2>1, <2>3, <2>4, <2>5, <2>6 DEF ServerInv, ServerGoesOn, NewAnswer
<1>q. QED
    BY <1>6, <1>7

LEMMA ServedServer ==
    ASSUME ServerInv, Served
    PROVE  ServerGoesOn
<1>a. PICK t, x : t = task.for /\ x = TableOf(KeyOf(task.what))
    OBVIOUS
<1>1. t \in Tenants /\ task.what \in Mutations /\ x \in Tables /\ task.at = "sent"
    BY <1>a, TableKnown DEF Served, ServerInv, Working
<1>2. /\ UNCHANGED <<marker, clears, overlap>>
      /\ table' = [table EXCEPT ![t][x] = @ + 1]
      /\ rows' = [rows EXCEPT ![t] = IF task.what = "resend" THEN @ + 1 ELSE @]
      /\ task' = [task EXCEPT !.at = "answered", !.n = table'[t][x]]
    BY <1>a DEF Served
<1>3. /\ table' \in [Tenants -> [Tables -> Nat]]
      /\ \A s \in Tenants : \A y \in Tables : table[s][y] <= table'[s][y]
      /\ rows' \in [Tenants -> Nat] /\ \A s \in Tenants : rows[s] <= rows'[s]
    BY <1>1, <1>2 DEF ServerInv, ServerShape
<1>4. /\ task' \in Task0 /\ task'.at = "answered" /\ task'.for = t /\ task'.what = task.what
      /\ task'.n = table'[t][x] /\ task.what # "clear"
    <2>1. table'[t][x] \in Nat  BY <1>1, <1>3
    <2>2. task \in Task0 /\ task.what # "clear" /\ task.for = t
        BY <1>a DEF Served, ServerInv, ServerShape
    <2>q. QED  BY <1>2, <2>1, <2>2 DEF Task0, Stages
<1>5. ServerShape'
    BY <1>2, <1>3, <1>4 DEF ServerInv, ServerShape
<1>6. TableOf(KeyOf(task.what))' = x
    BY <1>a, <1>4
<1>7. Working'
    <2>1. table'[t][x] \in Nat  BY <1>1, <1>3
    <2>q. QED  BY <1>1, <1>2, <1>4, <1>6, <2>1 DEF ServerInv, Working, Clearing
<1>8. \A s \in Tenants : Cutoff(s)' = Cutoff(s) /\ Cutoff(s) \in Nat
    BY <1>2, CutoffIsTime DEF Cutoff, ServerInv
<1>9. Timed'
    <2>1. \A c \in {"mine", "rival"} : Clearing(c)' =>
            Clearing(c) /\ clears[c].for \in Tenants /\ clears[c].time \in Nat
        BY <1>2 DEF ServerInv, ServerShape, Clear0, Working, Clearing
    <2>q. QED  BY <1>2, <1>3, <1>4, <1>8, <2>1 DEF Timed, ServerInv, ServerShape, Clearing
<1>10. Grows
    BY <1>2, <1>3, <1>8 DEF Grows
<1>q. QED
    BY <1>2, <1>4, <1>5, <1>6, <1>7, <1>9, <1>10 DEF ServerGoesOn, NewAnswer, ServerInv

\* A step that changes no row keeps all that is known of the server.
LEMMA ServerIdles ==
    ASSUME ServerInv, UNCHANGED <<table, rows, marker, overlap>>, task' \in Task0,
           \/ UNCHANGED clears
           \/ \E c \in {"mine", "rival"} : Clearing(c) /\ clears' = [clears EXCEPT ![c].at = "create"],
           \/ task'.at = "idle"
           \/ task'.at = "sent" /\ task'.for \in Tenants /\ task'.what \in Mutations
           \/ task' = task
           \/ task.at = "answered" /\ task' = [task EXCEPT !.at = "refetching"]
    PROVE  ServerGoesOn
<1>1. /\ clears' \in [{"mine", "rival"} -> Clear0]
      /\ \A c \in {"mine", "rival"} : /\ Clearing(c)' <=> Clearing(c)
                                      /\ clears'[c].for = clears[c].for
                                      /\ clears'[c].time = clears[c].time
    BY DEF ServerInv, ServerShape, Clear0, Clearing
<1>2. ServerShape'
    BY <1>1 DEF ServerInv, ServerShape
<1>3. \/ task'.at = "idle"
      \/ task'.at = "sent" /\ task'.for \in Tenants /\ task'.what \in Mutations
      \/ task' = task
      \/ /\ task.at = "answered" /\ task'.at = "refetching" /\ task'.what = task.what
         /\ task'.for = task.for /\ task'.n = task.n /\ task'.time = task.time
    BY DEF ServerInv, ServerShape, Task0
<1>4. Working'
    BY <1>1, <1>3 DEF ServerInv, Working
<1>5. \A s \in Tenants : Cutoff(s)' = Cutoff(s) /\ Cutoff(s) \in Nat
    BY CutoffIsTime DEF Cutoff, ServerInv
<1>6. Timed'
    <2>1. \A c \in {"mine", "rival"} : Clearing(c) => clears[c].for \in Tenants
        BY DEF ServerInv, Working
    <2>2. task.at # "idle" => task.for \in Tenants
        BY DEF ServerInv, Working
    <2>q. QED  BY <1>1, <1>3, <1>5, <2>1, <2>2 DEF Timed, ServerInv
<1>7. Grows
    BY <1>5 DEF Grows, ServerInv, ServerShape
<1>8. NewAnswer
    BY <1>3 DEF NewAnswer
<1>q. QED
    BY <1>2, <1>4, <1>6, <1>7, <1>8 DEF ServerGoesOn, ServerInv

LEMMA ServerStep ==
    ASSUME ServerInv, user \in Tenants \cup {None}, user = None => page = "login", SaidShape,
           [Next]_vars
    PROVE  ServerGoesOn
<1>0. DOMAIN clears = {"mine", "rival"} /\ task \in Task0 /\ NoTask \in Task0 /\ NoTask.at = "idle"
    BY DEF ServerInv, ServerShape, Task0, NoTask, Stages
<1>1. CASE PageActs
    <2>1. task' \in Task0
        BY <1>0, <1>1 DEF PageActs, TaskGoesOn, Task0, Stages
    <2>q. QED  BY <1>0, <1>1, <2>1, ServerIdles DEF PageActs, TaskGoesOn, serverVars
<1>2. ASSUME NEW t \in Tenants, RowMade(t) PROVE ServerGoesOn
    BY <1>2, RowMadeServer
<1>3. ASSUME NEW t \in Tenants, RivalClears(t) PROVE ServerGoesOn
    BY <1>3, ClearBeginsServer DEF RivalClears, Clearing
<1>4. ASSUME NEW c \in {"mine", "rival"}, ClearUpdates(c) PROVE ServerGoesOn
    <2>0. Clearing(c) /\ UNCHANGED <<rows, overlap>>
        BY <1>4 DEF ClearUpdates, Clearing
    <2>1. CASE HasMarker(clears[c].for)
        <3>1. ClearEnds(c, TRUE)
            BY <1>4, <2>1 DEF ClearUpdates
        <3>2. marker' = [marker EXCEPT ![clears[c].for] = clears[c].time]
            BY <1>4, <2>1 DEF ClearUpdates, HasMarker
        <3>q. QED  BY <2>0, <3>1, <3>2, ClearEndsServer
    <2>2. CASE ~HasMarker(clears[c].for)
        BY <1>0, <1>4, <2>0, <2>2, ServerIdles DEF ClearUpdates
    <2>q. QED  BY <2>1, <2>2
<1>5. ASSUME NEW c \in {"mine", "rival"}, ClearCreates(c) PROVE ServerGoesOn
    <2>0. Clearing(c) /\ UNCHANGED <<rows, overlap>>
        BY <1>5 DEF ClearCreates, Clearing
    <2>1. CASE marker[clears[c].for] = None
        <3>1. ClearEnds(c, TRUE)
            BY <1>5, <2>1 DEF ClearCreates
        <3>2. marker' = [marker EXCEPT ![clears[c].for] = clears[c].time]
            BY <1>5, <2>1 DEF ClearCreates
        <3>q. QED  BY <2>0, <3>1, <3>2, ClearEndsServer
    <2>2. CASE marker[clears[c].for] # None
        <3>1. ClearEnds(c, FALSE)
            BY <1>5, <2>2 DEF ClearCreates
        <3>2. marker' = marker
            BY <1>5, <2>2 DEF ClearCreates, ServerInv, ServerShape
        <3>q. QED  BY <2>0, <3>1, <3>2, ClearEndsServer
    <2>q. QED  BY <2>1, <2>2
<1>6. ASSUME NEW what \in Mutations, Click(what) PROVE ServerGoesOn
    <2>1. user \in Tenants
        BY <1>6 DEF Click, Buttons
    <2>2. task' \in Task0 /\ task'.at = "sent" /\ task'.for \in Tenants /\ task'.what \in Mutations
        BY <1>6, <2>1 DEF Click, NoTask, Task0, Stages
    <2>q. QED  BY <1>6, <2>2, ServerIdles DEF Click, serverVars
<1>7. CASE Served
    BY <1>7, ServedServer
<1>8. CASE ClearServed
    <2>1. task.for \in Tenants /\ ~Clearing("mine")
        BY <1>8 DEF ClearServed, ServerInv, Working, Clearing
    <2>q. QED  BY <1>8, <2>1, ClearBeginsServer DEF ClearServed
<1>q. QED
    BY <1>1, <1>2, <1>3, <1>4, <1>5, <1>6, <1>7, <1>8, TwoKinds DEF ServerActs, ServerInv

----------------------------------------------------------------------------
(* What the user is told *)

LEMMA SaidStep ==
    ASSUME ServerInv, SaidInv, user \in Tenants \cup {None}, user' \in Tenants \cup {None},
           user = None => page = "login", [Next]_vars
    PROVE  SaidInv'
<1>0. ServerGoesOn
    BY ServerStep DEF SaidInv
<1>1. /\ \A t \in Tenants : Cutoff(t) \in Nat /\ Cutoff(t)' \in Nat
      /\ \A t \in Tenants : \A x \in Tables : table[t][x] \in Nat /\ table'[t][x] \in Nat
      /\ \A k \in Lists : TableOf(k) \in Tables
      /\ task \in Task0 /\ task' \in Task0
    BY <1>0, CutoffIsTime, KeyNames DEF ServerGoesOn, ServerInv, ServerShape, Cutoff
<1>2. task.at \in {"answered", "refetching"} =>
        task.what \in Mutations /\ KeyOf(task.what) \in Lists /\ task.for \in Tenants
    BY DEF ServerInv, Working, Mutations, KeyOf, Lists
<1>3. \A k \in Lists : told[k] \in Nat /\ shown[k] \in Nat /\ shown[k] <= told[k]
    BY DEF SaidInv, SaidShape, Counted
<1>4. /\ \A t \in Tenants : \A x \in Tables : table[t][x] <= table'[t][x]
      /\ ~overlap' => ~overlap /\ \A t \in Tenants : Cutoff(t) <= Cutoff(t)'
    BY <1>0 DEF ServerGoesOn, Grows
<1>5. task'.at \in {"answered", "refetching"} =>
        KeyOf(task.what)' \in Lists /\ task'.for \in Tenants /\ TableOf(KeyOf(task.what))' \in Tables
    <2>1. task'.at \in {"answered", "refetching"} => task'.for \in Tenants /\ task'.what \in Mutations
        BY <1>0 DEF ServerGoesOn, ServerInv, Working
    <2>2. \A w \in Mutations : KeyOf(w) \in Lists /\ TableOf(KeyOf(w)) \in Tables
        BY TableKnown DEF KeyOf, Mutations, Lists
    <2>q. QED  BY <2>1, <2>2
<1>6. ASSUME \A k \in Lists : told'[k] \in Nat, told' \in [Lists -> Nat],
             user' # None => user' \in Tenants /\ \A k \in Lists : told'[k] <= table'[user'][TableOf(k)],
             \A k \in Lists : shown'[k] <= told'[k],
             task.at \in {"answered", "refetching"} /\ task.for = user' =>
                 told'[KeyOf(task.what)] <= task.n
      PROVE  Counted'
    <2>1. ASSUME task'.at \in {"answered", "refetching"}, task'.for = user'
          PROVE  told'[KeyOf(task'.what)] <= task'.n
        <3>1. CASE task.at \in {"answered", "refetching"} /\ task'.what = task.what
                   /\ task'.for = task.for /\ task'.n = task.n
            BY <1>6, <2>1, <3>1
        <3>2. CASE task'.n = table'[task'.for][TableOf(KeyOf(task'.what))]
            <4>1. KeyOf(task'.what) \in Lists /\ task'.for \in Tenants
                BY <1>5, <2>1
            <4>2. user' # None
                BY <2>1, <4>1, NoneAssumption
            <4>q. QED  BY <1>6, <2>1, <3>2, <4>1, <4>2
        <3>q. QED  BY <1>0, <2>1, <3>1, <3>2 DEF ServerGoesOn, NewAnswer
    <2>q. QED  BY <1>6, <2>1 DEF Counted, Mine
<1>7. CASE UNCHANGED saidVars /\ user' \in {user, None} /\ gap' \subseteq Lists
    <2>1. SaidShape'
        BY <1>0, <1>7 DEF SaidInv, SaidShape, saidVars, ServerGoesOn, ServerInv
    <2>2. ASSUME user' # None
          PROVE  user' = user /\ user \in Tenants /\ \A k \in Lists : told[k] <= table'[user][TableOf(k)]
        <3>1. user' = user /\ user \in Tenants
            BY <1>7, <2>2
        <3>2. ASSUME NEW k \in Lists PROVE told[k] <= table'[user][TableOf(k)]
            <4>1. told[k] <= table[user][TableOf(k)]
                BY <2>2, <3>1, NoneAssumption DEF SaidInv, Counted
            <4>q. QED  BY <1>1, <1>3, <1>4, <3>1, <4>1
        <3>q. QED  BY <3>1, <3>2
    <2>3. task.at \in {"answered", "refetching"} /\ task.for = user' => told[KeyOf(task.what)] <= task.n
        BY <1>2, <1>7, NoneAssumption DEF SaidInv, Counted, Mine
    <2>4. Counted'
        BY <1>3, <1>6, <1>7, <2>2, <2>3 DEF saidVars, SaidInv, SaidShape
    <2>5. Past'
        BY <1>1, <1>4, <1>7, <2>2 DEF SaidInv, SaidShape, Past, saidVars
    <2>q. QED  BY <2>1, <2>4, <2>5 DEF SaidInv
<1>8. CASE Forgets /\ gap' \subseteq Lists /\ user' \in Tenants \cup {None}
    <2>1. SaidShape'
        BY <1>0, <1>8 DEF SaidShape, Forgets, ServerGoesOn, ServerInv
    <2>2. /\ \A k \in Lists : told'[k] = 0 /\ shown'[k] = 0
          /\ hidden' = 0
        BY <1>8 DEF Forgets
    <2>3. Counted'
        BY <1>1, <1>2, <1>6, <1>8, <2>1, <2>2 DEF SaidShape, Task0
    <2>4. Past'
        BY <1>1, <1>8, <2>2 DEF Past
    <2>q. QED  BY <2>1, <2>3, <2>4 DEF SaidInv
<1>9. CASE Speaks /\ gap' \subseteq Lists
    <2>a. PICK key, n : key = KeyOf(task.what) /\ n = task.n
        OBVIOUS
    <2>0. /\ key \in Lists /\ n \in Nat /\ user' = user /\ task.for \in Tenants
          /\ n <= table[task.for][TableOf(key)] /\ task.time \in Nat
          /\ Mine => told[key] <= n
        BY <1>1, <1>2, <1>9, <2>a DEF Speaks, Task0, ServerInv, Working, SaidInv, Counted
    <2>1. told' = IF Mine THEN [told EXCEPT ![key] = n] ELSE told
        BY <1>9, <2>a DEF Speaks, Reported
    <2>2. shown' = shown \/ (Mine /\ shown' = [shown EXCEPT ![key] = n])
        BY <1>9, <2>a DEF Speaks
    <2>3. hidden' = hidden \/ (Mine /\ task.what = "clear" /\ hidden' = task.time)
        BY <1>9 DEF Speaks
    <2>4. SaidShape'
        BY <1>0, <1>9, <2>0, <2>1, <2>2, <2>3 DEF SaidInv, SaidShape, ServerGoesOn, ServerInv
    <2>5. \A k \in Lists : shown'[k] <= told'[k] /\ told'[k] \in Nat
        BY <1>3, <2>0, <2>1, <2>2 DEF SaidInv, SaidShape
    <2>6. ASSUME user' # None, NEW k \in Lists PROVE told'[k] <= table'[user'][TableOf(k)]
        <3>1. user \in Tenants /\ told[k] <= table[user][TableOf(k)]
            BY <2>0, <2>6, NoneAssumption DEF SaidInv, Counted
        <3>2. told'[k] <= table[user][TableOf(k)]
            BY <2>0, <2>1, <3>1 DEF Mine, SaidInv, SaidShape
        <3>q. QED  BY <1>1, <1>4, <2>0, <2>5, <3>1, <3>2
    <2>7. Mine => told'[key] <= n
        BY <2>0, <2>1 DEF SaidInv, SaidShape
    <2>8. Counted'
        BY <1>6, <2>a, <2>0, <2>4, <2>5, <2>6, <2>7 DEF Mine, SaidShape
    <2>9. Past'
        <3>1. SUFFICES ASSUME ~overlap', user' # None PROVE Cutoff(user)' >= hidden'
            BY DEF Past
        <3>2. user \in Tenants /\ user' = user /\ Cutoff(user) >= hidden /\ Cutoff(user) <= Cutoff(user)'
            BY <1>4, <2>0, <3>1 DEF SaidInv, Past
        <3>3. Mine /\ task.what = "clear" => Cutoff(user) >= task.time
            BY <1>4, <1>9, <3>1 DEF Mine, ServerInv, Timed, Speaks
        <3>q. QED  BY <1>1, <2>0, <2>3, <3>2, <3>3 DEF SaidInv, SaidShape
    <2>q. QED  BY <2>4, <2>8, <2>9 DEF SaidInv
<1>10. CASE ServerActs
    BY <1>7, <1>10, ServerActsFrame DEF SaidInv, SaidShape
<1>11. CASE PageActs
    BY <1>7, <1>8, <1>9, <1>11 DEF PageActs, Silent
<1>q. QED
    BY <1>10, <1>11, TwoKinds DEF ServerInv, SaidInv

----------------------------------------------------------------------------
(* What the lists show *)

ListsShape == QueryShape /\ UserShape /\ ServerInv /\ SaidInv

LEMMA ShapeStep ==
    ASSUME ListsShape, ConnectShape, [Next]_vars
    PROVE  ListsShape'
<1>1. QueryShape' /\ UserShape'
    BY TabStepShape DEF ListsShape, ServerInv
<1>2. ServerInv'
    BY ServerStep DEF ListsShape, UserShape, SaidInv, ServerGoesOn
<1>3. SaidInv'
    BY <1>1, SaidStep DEF ListsShape, UserShape
<1>q. QED
    BY <1>1, <1>2, <1>3 DEF ListsShape

\* The numbers that are compared.
Numbered(k) ==
    /\ k \in Keys /\ TableOf(k) \in Tables
    /\ told[k] \in Nat /\ shown[k] \in Nat /\ shown[k] <= told[k]
    /\ hidden \in Nat /\ task.n \in Nat /\ task.time \in Nat
    /\ fetch[k].as \in Tenants \cup {None}
    /\ cache[k] # None => cache[k].n \in Nat /\ cache[k].from \in Nat
    /\ fetch[k].at \in {"viewed", "answered"} =>
         /\ fetch[k].got \in List0 /\ fetch[k].got # None
         /\ fetch[k].got.n \in Nat /\ fetch[k].got.from \in Nat
         /\ fetch[k].got.of = fetch[k].as /\ fetch[k].as \in Tenants

LEMMA AreNumbered == ListsShape => \A k \in Lists : Numbered(k)
<1> SUFFICES ASSUME ListsShape, NEW k \in Lists PROVE Numbered(k)
    OBVIOUS
<1>1. k \in Keys /\ k # "wa-status" /\ TableOf(k) \in Tables
    BY KeyNames
<1>2. Sound(k)
    BY <1>1 DEF ListsShape, QueryShape
<1>3. cache[k] # None => cache[k].n \in Nat /\ cache[k].from \in Nat
    BY <1>1, <1>2 DEF Sound, Data0, List0
<1>4. fetch[k].at \in {"viewed", "answered"} =>
        /\ fetch[k].got \in List0 /\ fetch[k].got # None
        /\ fetch[k].got.n \in Nat /\ fetch[k].got.from \in Nat
        /\ fetch[k].got.of = fetch[k].as /\ fetch[k].as \in Tenants
    BY <1>1, <1>2, DataAssumption DEF Sound, List0
<1>5. /\ told[k] \in Nat /\ shown[k] \in Nat /\ shown[k] <= told[k]
      /\ hidden \in Nat
    BY DEF ListsShape, SaidInv, SaidShape, Counted
<1>6. task.n \in Nat /\ task.time \in Nat
    BY DEF ListsShape, ServerInv, ServerShape, Task0
<1>7. fetch[k].as \in Tenants \cup {None}
    BY <1>2 DEF Sound, Fetch0
<1>q. QED
    BY <1>1, <1>3, <1>4, <1>5, <1>6, <1>7 DEF Numbered

LEMMA Numbers ==
    ASSUME ListsShape, NEW k \in Lists
    PROVE  Numbered(k)
BY AreNumbered

LEMMA AreNumberedNext == (ListsShape => \A k \in Lists : Numbered(k))'
BY AreNumbered, PTL

LEMMA NumbersNext ==
    ASSUME ListsShape', NEW k \in Lists
    PROVE  Numbered(k)'
BY AreNumberedNext

\* What a step does not do to a key it has no business with.
KeepsSaid(k) ==
    /\ user' = user /\ shown'[k] = shown[k] /\ (k = "retry" => hidden' = hidden)
    /\ k \notin gap' => k \notin gap
    /\ ~overlap' => ~overlap

\* A fetch that begins now will show it all.
LEMMA AskedNow ==
    ASSUME ListsShape, ListsShape', NEW k \in Lists, Faithful(k), KeepsSaid(k),
           fetch'[k] = Asked(user), cache'[k] = cache[k]
    PROVE  Faithful(k)'
<1>1. fetch'[k].at = "asked" /\ fetch'[k].as = user'
    BY Requests DEF KeepsSaid, Asked
<1>2. ASSUME NEW n, NEW time PROVE ~Behind(k, n, time)'
    BY <1>1 DEF Behind
<1>3. KeptFor(k)'
    BY <1>2 DEF Faithful, KeptFor, Holds, KeepsSaid
<1>4. OwedFor(k)'
    BY <1>1, <1>2 DEF OwedFor, InFlight
<1>5. AwaitedFor(k)'
    BY <1>1 DEF AwaitedFor, InFlight
<1>6. k = "retry" => HiddenStay'
    BY <1>1, <1>2 DEF Faithful, HiddenStay, KeepsSaid
<1>q. QED
    BY <1>3, <1>4, <1>5, <1>6 DEF Faithful

\* A key whose fetch and data stay is as good as before, if nothing is newly reported or awaited
\* or the fetch under way has it.
LEMMA StaysFaithful ==
    ASSUME ListsShape, ListsShape', NEW k \in Lists, Faithful(k), KeepsSaid(k), Same(k),
           k \in Observed(page)' /\ k \notin gap' /\ told'[k] > 0 =>
               \/ told'[k] = told[k] /\ k \in Observed(page)
               \/ InFlight(k) /\ ~Behind(k, told[k], 0)',
           Awaits(k)' =>
               \/ task' = task
               \/ InFlight(k) /\ (k \notin gap' => ~Behind(k, task.n, task.time)')
    PROVE  Faithful(k)'
<1>1. ASSUME NEW n, NEW time PROVE Behind(k, n, time)' <=> Behind(k, n, time)
    BY DEF Behind, InFlight, KeepsSaid, Same
<1>2. KeptFor(k)'
    BY <1>1 DEF Faithful, KeptFor, Holds, KeepsSaid, Same
<1>3. OwedFor(k)'
    BY <1>1 DEF Faithful, OwedFor, Holds, KeepsSaid, Same, InFlight
<1>4. AwaitedFor(k)'
    <2>1. CASE task' = task
        BY <2>1 DEF Faithful, AwaitedFor, Awaits, KeepsSaid, Same, InFlight
    <2>2. CASE InFlight(k) /\ (k \notin gap' => ~Behind(k, task.n, task.time)')
        <3>1. fetch'[k].at = "answered" => fetch'[k].got.n \in Nat
            BY Numbers DEF Same, Numbered
        <3>2. task'.n \in Nat
            BY DEF ListsShape, ServerInv, ServerShape, Task0
        <3>q. QED  BY <2>2, <3>1, <3>2 DEF AwaitedFor, Behind, Same, InFlight
    <2>q. QED  BY <2>1, <2>2 DEF AwaitedFor
<1>5. ASSUME k = "retry" PROVE HiddenStay'
    <2>1. SUFFICES ASSUME ~overlap', k \notin gap'
          PROVE  /\ (user # None /\ hidden > 0 =>
                       cache[k] # None /\ cache[k].from >= hidden /\ ~Behind(k, 0, hidden))'
                 /\ (/\ Awaits(k) /\ task.what = "clear" /\ fetch[k].as = task.for
                     /\ fetch[k].at \in {"viewed", "answered"}
                     => fetch[k].got.from >= task.time)'
        BY <1>5 DEF HiddenStay
    <2>2. HiddenStay /\ ~overlap /\ k \notin gap
        BY <1>5, <2>1 DEF Faithful, KeepsSaid
    <2>3. (user # None /\ hidden > 0 =>
             cache[k] # None /\ cache[k].from >= hidden /\ ~Behind(k, 0, hidden))'
        BY <1>1, <1>5, <2>2 DEF HiddenStay, KeepsSaid, Same
    <2>4. (/\ Awaits(k) /\ task.what = "clear" /\ fetch[k].as = task.for
           /\ fetch[k].at \in {"viewed", "answered"}
           => fetch[k].got.from >= task.time)'
        <3>1. CASE task' = task
            BY <1>5, <2>2, <3>1 DEF HiddenStay, Same, Awaits
        <3>2. CASE ~Behind(k, task.n, task.time)'
            <4>1. fetch'[k].at \in {"viewed", "answered"} => fetch'[k].got.from \in Nat
                BY Numbers DEF Same, Numbered
            <4>2. task'.time \in Nat
                BY DEF ListsShape, ServerInv, ServerShape, Task0
            <4>q. QED  BY <3>2, <4>1, <4>2 DEF Behind
        <3>q. QED  BY <2>1, <3>1, <3>2
    <2>q. QED  BY <2>3, <2>4
<1>q. QED
    BY <1>2, <1>3, <1>4, <1>5 DEF Faithful

\* A handler reads: it answers its reader with all that was reported to them until now.
LEMMA ReadsFaithful ==
    ASSUME ListsShape, ListsShape', NEW k \in Lists, Faithful(k), UNCHANGED <<user, page, listVars>>,
           cache'[k] = cache[k], fetch[k].at \in {"asked", "viewed"},
           fetch'[k].at \in {"viewed", "answered"}, fetch'[k].as = fetch[k].as,
           fetch'[k].at = "answered" => fetch'[k].got.n = table[fetch[k].as][TableOf(k)],
           k = "retry" =>
               \/ fetch'[k].got.from = Cutoff(fetch[k].as)
               \/ fetch[k].at = "viewed" /\ fetch'[k].got.from = fetch[k].got.from
    PROVE  Faithful(k)'
<1>0. /\ UNCHANGED <<task, table, marker, told, shown, hidden, gap, overlap>>
      /\ fetch'[k].got.n \in Nat /\ fetch'[k].got.from \in Nat /\ fetch[k].as \in Tenants
      /\ InFlight(k) /\ InFlight(k)'
    BY NumbersNext DEF listVars, InFlight, Numbered
<1>1. ASSUME fetch[k].as = user
      PROVE  /\ user \in Tenants
             /\ fetch'[k].at = "answered" => fetch'[k].got.n >= told[k] /\ fetch'[k].got.n >= shown[k]
    <2>1. user \in Tenants /\ user # None
        BY <1>0, <1>1, NoneAssumption
    <2>2. told[k] <= table[user][TableOf(k)] /\ table[user][TableOf(k)] \in Nat
        BY <2>1, Numbers DEF ListsShape, SaidInv, Counted, ServerInv, ServerShape, Numbered
    <2>q. QED  BY <1>1, <2>1, <2>2, Numbers DEF Numbered
<1>2. ASSUME user # None, k \notin gap, NEW n \in {told[k], shown[k]}, ~Behind(k, n, 0)
      PROVE  ~Behind(k, n, 0)'
    <2>1. fetch[k].as = user
        BY <1>0, <1>2 DEF Behind
    <2>q. QED  BY <1>0, <1>1, <2>1, Numbers DEF Behind, Numbered
<1>3. KeptFor(k)'
    BY <1>0, <1>2 DEF Faithful, KeptFor, Holds
<1>4. OwedFor(k)'
    <2>1. k \in Observed(page) => user # None
        BY KeyNames DEF ListsShape, UserShape
    <2>q. QED  BY <1>0, <1>2, <2>1 DEF Faithful, OwedFor, Holds
<1>5. AwaitedFor(k)'
    <2>1. SUFFICES ASSUME Awaits(k), fetch[k].as = task.for, fetch'[k].at = "answered"
          PROVE  fetch'[k].got.n >= task.n
        BY <1>0 DEF AwaitedFor, Awaits
    <2>2. task.n <= table[task.for][TableOf(k)] /\ table[task.for][TableOf(k)] \in Nat
        BY <1>0, <2>1, Numbers DEF ListsShape, ServerInv, ServerShape, Working, Awaits, Numbered
    <2>q. QED  BY <2>1, <2>2, Numbers DEF Numbered
<1>6. ASSUME k = "retry" PROVE HiddenStay'
    <2>1. SUFFICES ASSUME ~overlap, k \notin gap
          PROVE  /\ user # None /\ hidden > 0 =>
                      cache[k] # None /\ cache[k].from >= hidden /\ ~Behind(k, 0, hidden)'
                 /\ Awaits(k) /\ task.what = "clear" /\ fetch[k].as = task.for =>
                      fetch'[k].got.from >= task.time
        BY <1>0, <1>6 DEF HiddenStay, Awaits
    <2>2. HiddenStay
        BY <1>6 DEF Faithful
    <2>3. ASSUME user # None, hidden > 0
          PROVE  cache[k] # None /\ cache[k].from >= hidden /\ ~Behind(k, 0, hidden)'
        <3>1. cache[k] # None /\ cache[k].from >= hidden /\ ~Behind(k, 0, hidden)
            BY <1>6, <2>1, <2>2, <2>3 DEF HiddenStay
        <3>2. fetch[k].as = user
            BY <1>0, <3>1 DEF Behind
        <3>3. fetch'[k].got.from >= hidden
            <4>1. CASE fetch'[k].got.from = Cutoff(fetch[k].as)
                BY <2>1, <2>3, <3>2, <4>1 DEF ListsShape, SaidInv, Past
            <4>2. CASE fetch[k].at = "viewed" /\ fetch'[k].got.from = fetch[k].got.from
                BY <3>1, <4>2, Numbers DEF Behind, Numbered
            <4>q. QED  BY <1>6, <4>1, <4>2
        <3>q. QED  BY <1>0, <3>1, <3>2, <3>3, Numbers DEF Behind, Numbered
    <2>4. ASSUME Awaits(k), task.what = "clear", fetch[k].as = task.for
          PROVE  fetch'[k].got.from >= task.time
        <3>1. CASE fetch'[k].got.from = Cutoff(fetch[k].as)
            BY <2>1, <2>4, <3>1 DEF ListsShape, ServerInv, Timed, Awaits
        <3>2. CASE fetch[k].at = "viewed" /\ fetch'[k].got.from = fetch[k].got.from
            BY <1>6, <2>1, <2>2, <2>4, <3>2 DEF HiddenStay
        <3>q. QED  BY <1>6, <3>1, <3>2
    <2>q. QED  BY <2>3, <2>4
<1>q. QED
    BY <1>3, <1>4, <1>5, <1>6 DEF Faithful

\* The mutation that awaited the list, if one did, is over.
LEMMA Settled ==
    ASSUME ListsShape, NEW k \in Lists, Settles(k)
    PROVE  /\ ~Awaits(k)' /\ hidden' \in {hidden, task.time}
           /\ task' \in {task, NoTask}
           /\ \A j \in Lists \ {k} : told'[j] = told[j] /\ shown'[j] = shown[j]
           /\ k # "retry" => hidden' = hidden
           /\ \/ told'[k] = told[k] /\ shown'[k] = shown[k] /\ hidden' = hidden
              \/ /\ Awaits(k) /\ Mine /\ told'[k] = task.n
                 /\ hidden' = IF task.what = "clear" THEN task.time ELSE hidden
           /\ shown'[k] # shown[k] => shown'[k] = task.n /\ told'[k] = task.n
<1>1. told \in [Lists -> Nat] /\ shown \in [Lists -> Nat]
    BY DEF ListsShape, SaidInv, SaidShape
<1>2. KeyOf("clear") = "retry"
    BY DEF KeyOf
<1>3. CASE Awaits(k)
    <2>1. task' = NoTask /\ ~Awaits(k)'
        BY <1>3 DEF Settles, NoTask, Awaits
    <2>2. CASE Mine
        BY <1>1, <1>2, <1>3, <2>1, <2>2 DEF Settles, Reported, Awaits
    <2>3. CASE ~Mine
        BY <1>1, <1>3, <2>1, <2>3 DEF Settles, Reported
    <2>q. QED  BY <2>2, <2>3
<1>4. CASE ~Awaits(k)
    BY <1>4 DEF Settles, Awaits, saidVars
<1>q. QED
    BY <1>3, <1>4

\* The list is fetched.
LEMMA ArrivesFaithful ==
    ASSUME ListsShape, ListsShape', NEW k \in Lists, Faithful(k), ListArrives(k)
    PROVE  Faithful(k)'
<1> DEFINE got == fetch[k].got
           fresh == fetch[k].as = user /\ got.n >= told'[k] /\ (k = "retry" => got.from >= hidden')
<1>0. /\ fetch[k].at = "answered" /\ Settles(k) /\ UNCHANGED <<user, page, overlap>>
      /\ InFlight(k)
    BY DEF ListArrives, Arrives, InFlight
<1>1. /\ cache'[k] = got /\ got # None /\ got.of = fetch[k].as /\ got.n \in Nat /\ got.from \in Nat
      /\ ~InFlight(k)' /\ fetch'[k].at = "idle"
    BY <1>0, Numbers, OneArrives DEF ListArrives, InFlight, NoFetch, ListsShape, Numbered
<1>2. ~Awaits(k)' /\ \A n, time : ~Behind(k, n, time)'
    BY <1>0, <1>1, Settled DEF Behind
<1>3. told'[k] \in Nat /\ shown'[k] \in Nat /\ shown'[k] <= told'[k] /\ hidden' \in Nat
    BY NumbersNext DEF Numbered
<1>4. ASSUME user # None, k \notin gap', ~fresh
      PROVE  /\ k \notin gap /\ (Awaits(k) => fetch[k].as = user)
    BY <1>4 DEF ListArrives
<1>5. ASSUME user # None, k \notin gap', ~fresh, shown'[k] > 0
      PROVE  got.of = user /\ got.n >= shown'[k]
    <2>1. CASE Awaits(k) /\ Mine /\ told'[k] = task.n
        <3>1. fetch[k].as = task.for /\ got.n >= task.n
            BY <1>0, <1>4, <1>5, <2>1 DEF Faithful, AwaitedFor, Mine
        <3>q. QED  BY <1>1, <1>3, <2>1, <3>1, Numbers DEF Mine, Numbered
    <2>2. CASE shown'[k] = shown[k]
        <3>1. ~Behind(k, shown[k], 0)
            BY <1>4, <1>5, <2>2 DEF Faithful, KeptFor
        <3>q. QED  BY <1>0, <1>1, <1>3, <2>2, <3>1, Numbers DEF Behind, Numbered
    <2>q. QED  BY <1>0, <2>1, <2>2, Settled
<1>6. ASSUME k \in Observed(page), k \notin gap', ~fresh, told'[k] > 0
      PROVE  got.of = user /\ got.n >= told'[k]
    <2>0. user # None
        BY <1>6, KeyNames DEF ListsShape, UserShape
    <2>1. CASE Awaits(k) /\ Mine /\ told'[k] = task.n
        <3>1. fetch[k].as = task.for /\ got.n >= task.n
            BY <1>0, <1>4, <1>6, <2>0, <2>1 DEF Faithful, AwaitedFor, Mine
        <3>q. QED  BY <1>1, <2>1, <3>1 DEF Mine
    <2>2. CASE told'[k] = told[k]
        <3>1. ~Behind(k, told[k], 0)
            BY <1>4, <1>6, <2>0, <2>2 DEF Faithful, OwedFor
        <3>q. QED  BY <1>0, <1>1, <1>3, <2>2, <3>1, Numbers DEF Behind, Numbered
    <2>q. QED  BY <1>0, <2>1, <2>2, Settled
<1>7. KeptFor(k)'
    <2>1. SUFFICES ASSUME user # None, k \notin gap', shown'[k] > 0
          PROVE  got # None /\ got.of = user /\ got.n >= shown'[k]
        BY <1>0, <1>1, <1>2 DEF KeptFor, Holds
    <2>q. QED  BY <1>1, <1>3, <1>5, <2>1
<1>8. OwedFor(k)'
    <2>1. SUFFICES ASSUME k \in Observed(page), k \notin gap', told'[k] > 0
          PROVE  got # None /\ got.of = user /\ got.n >= told'[k]
        BY <1>0, <1>1, <1>2 DEF OwedFor, Holds
    <2>q. QED  BY <1>1, <1>6, <2>1
<1>9. AwaitedFor(k)'
    BY <1>2 DEF AwaitedFor
<1>10. ASSUME k = "retry" PROVE HiddenStay'
    <2>1. SUFFICES ASSUME ~overlap, k \notin gap', user # None, hidden' > 0
          PROVE  got.from >= hidden'
        BY <1>0, <1>1, <1>2, <1>10 DEF HiddenStay
    <2>2. CASE fresh
        BY <1>10, <2>2
    <2>3. CASE ~fresh
        <3>0. HiddenStay /\ k \notin gap /\ (Awaits(k) => fetch[k].as = user)
            BY <1>4, <1>10, <2>1, <2>3 DEF Faithful
        <3>1. CASE hidden' = hidden
            <4>1. ~Behind(k, 0, hidden)
                BY <1>10, <2>1, <3>0, <3>1 DEF HiddenStay
            <4>q. QED  BY <1>0, <1>1, <1>3, <3>1, <4>1 DEF Behind
        <3>2. CASE Awaits(k) /\ Mine /\ task.what = "clear" /\ hidden' = task.time
            BY <1>0, <1>10, <2>1, <3>0, <3>2 DEF HiddenStay, Mine
        <3>q. QED  BY <1>0, <3>1, <3>2, Settled
    <2>q. QED  BY <2>2, <2>3
<1>q. QED
    BY <1>7, <1>8, <1>9, <1>10 DEF Faithful

LEMMA FailsFaithful ==
    ASSUME ListsShape, NEW k \in Lists, ListFails(k)
    PROVE  Faithful(k)'
<1>1. k \in gap' /\ ~Awaits(k)'
    BY Settled DEF ListFails, GapAfter
<1>q. QED
    BY <1>1 DEF Faithful, KeptFor, OwedFor, AwaitedFor, HiddenStay

\* A page is shown to the user: its list is fetched, or joins a fetch that knows enough.
LEMMA ShownFaithful ==
    ASSUME ListsShape, ListsShape', NEW k \in Lists, Faithful(k), NEW p, Shown(p, user),
           UNCHANGED <<user, cache, shown, hidden, overlap>>, GapAfter(GapsOf(p)),
           task' \in {task, NoTask}
    PROVE  Faithful(k)'
<1>1. KeepsSaid(k)
    BY DEF KeepsSaid, GapAfter
<1>2. page' = p /\ fetch'[k] = IF k \in Observed(p) THEN Joined(k, user) ELSE fetch[k]
    BY PageShown, Numbers DEF ListsShape, UserShape, Numbered
<1>3. Awaits(k)' => task' = task
    BY DEF Awaits, NoTask
<1>4. CASE k \in Observed(p) /\ ~InFlight(k)
    BY <1>1, <1>2, <1>4, AskedNow DEF Joined
<1>5. CASE k \in Observed(p) /\ InFlight(k)
    <2>1. Same(k)
        BY <1>2, <1>5 DEF Joined, Same
    <2>2. k \notin gap' => ~Behind(k, told'[k], 0)
        <3>1. k \notin gap' => ~Behind(k, told'[k], IF k = "retry" THEN hidden ELSE 0)
            BY <1>5 DEF GapAfter, GapsOf
        <3>q. QED  BY <3>1, Numbers DEF Behind, Numbered
    <2>3. k \notin gap' => ~Behind(k, told[k], 0)'
        BY <2>1, <2>2 DEF Behind, Same, InFlight
    <2>q. QED  BY <1>1, <1>3, <1>5, <2>1, <2>3, StaysFaithful
<1>6. CASE k \notin Observed(p)
    <2>1. Same(k) /\ k \notin Observed(page)'
        BY <1>2, <1>6 DEF Same
    <2>q. QED  BY <1>1, <1>3, <2>1, StaysFaithful
<1>q. QED
    BY <1>4, <1>5, <1>6

\* Nothing but the user's going and coming, the server or the Connect page.
LEMMA AsideFaithful ==
    ASSUME ListsShape, ListsShape', NEW k \in Lists, Faithful(k), Same(k), UNCHANGED <<user, page, saidVars, gap>>,
           ~overlap' => ~overlap, Awaits(k)' => task' = task
    PROVE  Faithful(k)'
<1>1. KeepsSaid(k)
    BY DEF KeepsSaid, saidVars
<1>q. QED
    BY <1>1, StaysFaithful DEF saidVars

LEMMA LogInFaithful ==
    ASSUME ListsShape, NEW k \in Lists, Faithful(k), NEW t \in Tenants, LogIn(t)
    PROVE  Faithful(k)'
<1>1. Shown("connect", t) /\ UNCHANGED <<cache, task, gap, overlap>> /\ hidden' = 0
      /\ told'[k] = 0 /\ shown'[k] = 0
    BY DEF LogIn, SignIn, TabForgets
<1>2. Same(k)
    BY <1>1, PageShown, KeyNames, Numbers DEF ListsShape, Same, Numbered
<1>3. KeptFor(k)' /\ OwedFor(k)'
    BY <1>1 DEF KeptFor, OwedFor
<1>4. AwaitedFor(k)'
    BY <1>1, <1>2 DEF Faithful, AwaitedFor, Awaits, Same, InFlight
<1>5. k = "retry" => HiddenStay'
    BY <1>1, <1>2 DEF Faithful, HiddenStay, Awaits, Same
<1>q. QED
    BY <1>3, <1>4, <1>5 DEF Faithful

LEMMA LogOutFaithful ==
    ASSUME ListsShape, NEW k \in Lists, Faithful(k), LogOut
    PROVE  Faithful(k)'
<1>1. UNCHANGED <<cache, fetch, listVars>> /\ user' = None /\ page' = "login"
    BY DEF LogOut, SignOut
<1>2. KeptFor(k)' /\ OwedFor(k)'
    BY <1>1, KeyNames DEF KeptFor, OwedFor
<1>3. AwaitedFor(k)'
    BY <1>1 DEF Faithful, AwaitedFor, Awaits, InFlight, listVars
<1>4. k = "retry" => HiddenStay'
    BY <1>1 DEF Faithful, HiddenStay, Awaits, listVars
<1>q. QED
    BY <1>2, <1>3, <1>4 DEF Faithful

LEMMA ThrownOutFaithful ==
    ASSUME NEW k \in Lists, ThrownOut
    PROVE  Faithful(k)'
<1>1. task' = NoTask /\ hidden' = 0 /\ told'[k] = 0 /\ shown'[k] = 0
    BY DEF ThrownOut, TabForgets
<1>q. QED
    BY <1>1 DEF Faithful, KeptFor, OwedFor, AwaitedFor, HiddenStay, Awaits, NoTask

LEMMA SavedFaithful ==
    ASSUME ListsShape, ListsShape', NEW k \in Lists, Faithful(k), SaveAnswered
    PROVE  Faithful(k)'
<1>1. /\ UNCHANGED <<user, cache, shown, hidden, overlap>> /\ task' = NoTask
      /\ Reported("schedules") /\ ~Awaits(k)'
    BY DEF SaveAnswered, NoTask, Awaits
<1>2. CASE user = None
    <2>1. Same(k) /\ KeepsSaid(k)
        BY <1>1, <1>2 DEF SaveAnswered, Same, KeepsSaid
    <2>2. k \notin Observed(page)'
        BY <1>2, KeyNames DEF SaveAnswered, ListsShape, UserShape
    <2>q. QED  BY <1>1, <2>1, <2>2, StaysFaithful
<1>3. CASE user # None /\ page = "schedules"
    <2>1. Same(k) /\ KeepsSaid(k) /\ UNCHANGED page
        BY <1>1, <1>3 DEF SaveAnswered, Same, KeepsSaid, GapAfter
    <2>2. k = "schedules" => k \in gap'
        BY <1>3 DEF SaveAnswered, GapAfter
    <2>3. k # "schedules" => told'[k] = told[k]
        BY <1>1 DEF Reported, ListsShape, SaidInv, SaidShape
    <2>q. QED  BY <1>1, <2>1, <2>2, <2>3, StaysFaithful
<1>4. CASE user # None /\ page # "schedules"
    BY <1>1, <1>4, ShownFaithful DEF SaveAnswered
<1>q. QED
    BY <1>2, <1>3, <1>4

LEMMA ServerFaithful ==
    ASSUME ListsShape, ListsShape', ServerGoesOn, NEW k \in Lists, Faithful(k), ServerActs
    PROVE  Faithful(k)'
<1>1. UNCHANGED <<user, page, cache, fetch, saidVars, gap>>
    BY ServerActsFrame
<1>2. Awaits(k)' => task' = task
    <2>0. task \in Task0
        BY DEF ListsShape, ServerInv, ServerShape
    <2>1. ASSUME NEW t \in Tenants, RowMade(t) \/ RivalClears(t) PROVE task' = task
        BY <2>1 DEF RowMade, RivalClears
    <2>2. ASSUME NEW c \in {"mine", "rival"}, ClearUpdates(c) \/ ClearCreates(c)
          PROVE  task' = task \/ task'.at \in {"answered", "failed"}
        BY <2>0, <2>2 DEF ClearUpdates, ClearCreates, ClearEnds, Task0
    <2>3. ASSUME NEW what \in Mutations, Click(what) PROVE task'.at = "sent"
        BY <2>3 DEF Click, NoTask
    <2>4. CASE Served
        BY <2>0, <2>4 DEF Served, Task0, Awaits
    <2>5. CASE ClearServed
        BY <2>0, <2>5 DEF ClearServed, Task0, Awaits
    <2>q. QED  BY <2>1, <2>2, <2>3, <2>4, <2>5 DEF ServerActs, Awaits
<1>3. ~overlap' => ~overlap
    BY DEF ServerGoesOn, Grows
<1>q. QED
    BY <1>1, <1>2, <1>3, AsideFaithful DEF Same

\* The list of a mutation is fetched again: anew, or by a fetch that is under way for the first time.
LEMMA RefetchedFaithful ==
    ASSUME ListsShape, ListsShape', NEW k \in Lists, Faithful(k), KeepsSaid(k), UNCHANGED <<cache, page>>,
           NEW c \in Lists, fetch' = [fetch EXCEPT ![c] = Refetched(c)],
           cache[c] = None /\ InFlight(c) /\ c \notin gap' =>
               /\ told'[c] = told[c] \/ ~Behind(c, told'[c], 0)
               /\ Awaits(c)' => task' = task \/ ~Behind(c, task'.n, task'.time),
           k # c => told'[k] = told[k] /\ (Awaits(k)' => task' = task)
    PROVE  Faithful(k)'
<1>1. /\ DOMAIN fetch = Keys /\ c \in Keys /\ k \in Keys
      /\ fetch'[c] = Refetched(c) /\ (k # c => fetch'[k] = fetch[k])
    BY Numbers DEF Numbered, ListsShape, QueryShape
<1>2. CASE k # c
    BY <1>1, <1>2, StaysFaithful DEF Same
<1>3. CASE k = c /\ ~(InFlight(c) /\ cache[c] = None)
    BY <1>1, <1>3, AskedNow DEF Refetched
<1>4. CASE k = c /\ InFlight(c) /\ cache[c] = None
    <2>1. Same(k)
        BY <1>1, <1>4 DEF Refetched, Same
    <2>2. user' = user /\ fetch'[k] = fetch[k]
        BY <2>1 DEF KeepsSaid, Same
    <2>3. k \notin gap' /\ told'[k] # told[k] => ~Behind(k, told[k], 0)'
        BY <1>4, <2>2 DEF Behind, InFlight
    <2>4. k \notin gap' /\ Awaits(k)' => task' = task \/ ~Behind(k, task.n, task.time)'
        BY <1>4, <2>2 DEF Behind, InFlight
    <2>q. QED  BY <1>4, <2>1, <2>3, <2>4, StaysFaithful
<1>q. QED
    BY <1>2, <1>3, <1>4

LEMMA AnsweredFaithful ==
    ASSUME ListsShape, ListsShape', NEW k \in Lists, Faithful(k), AnsweredAwaited \/ AnsweredAtOnce
    PROVE  Faithful(k)'
<1>a. PICK c : c = KeyOf(task.what)
    OBVIOUS
<1>1. /\ c \in Lists /\ task.at = "answered" /\ UNCHANGED <<user, page, cache, shown, hidden, overlap>>
      /\ task \in Task0 /\ told \in [Lists -> Nat]
    BY <1>a DEF AnsweredAwaited, AnsweredAtOnce, KeyOf, Lists, ListsShape, ServerInv, ServerShape,
        SaidInv, SaidShape
<1>2. KeepsSaid(k)
    BY <1>1 DEF KeepsSaid, AnsweredAwaited, AnsweredAtOnce, GapAfter
<1>3. k # c => told'[k] = told[k]
    BY <1>a, <1>1 DEF AnsweredAwaited, AnsweredAtOnce, Reported
<1>4. Awaits(k)' => AnsweredAwaited /\ k = c /\ task' = [task EXCEPT !.at = "refetching"]
                    /\ task'.n = task.n /\ task'.time = task.time
    BY <1>a, <1>1 DEF AnsweredAwaited, AnsweredAtOnce, Awaits, NoTask, Task0
<1>5. told'[c] = told[c] \/ told'[c] = task.n
    BY <1>a, <1>1 DEF AnsweredAwaited, AnsweredAtOnce, Reported
<1>6. CASE fetch' = [fetch EXCEPT ![c] = Refetched(c)]
           /\ gap' = gap \cup (IF cache[c] = None /\ Behind(c, task.n, task.time) THEN {c} ELSE {})
    <2>1. ASSUME cache[c] = None, c \notin gap' PROVE ~Behind(c, task.n, task.time)
        BY <1>6, <2>1
    <2>2. ASSUME ~Behind(c, task.n, task.time) PROVE ~Behind(c, task.n, 0)
        BY <1>1, <2>2, Numbers DEF Behind, Numbered
    <2>3. cache[c] = None /\ InFlight(c) /\ c \notin gap' =>
            /\ told'[c] = told[c] \/ ~Behind(c, told'[c], 0)
            /\ Awaits(c)' => task' = task \/ ~Behind(c, task'.n, task'.time)
        <3>1. Awaits(c)' => task'.n = task.n /\ task'.time = task.time
            BY <1>a, <1>1 DEF AnsweredAwaited, AnsweredAtOnce, Awaits, NoTask, Task0
        <3>q. QED  BY <1>5, <2>1, <2>2, <3>1
    <2>4. k # c => told'[k] = told[k] /\ (Awaits(k)' => task' = task)
        BY <1>3, <1>4
    <2>5. UNCHANGED <<cache, page>> /\ fetch' = [fetch EXCEPT ![c] = Refetched(c)]
        BY <1>1, <1>6
    <2>q. QED  BY <1>1, <1>2, <2>3, <2>4, <2>5, RefetchedFaithful
<1>7. CASE fetch'[k] = fetch[k] /\ (c \notin Observed(page) \/ UNCHANGED told) /\ ~Awaits(k)'
    <2>1. Same(k)
        BY <1>1, <1>7 DEF Same
    <2>2. k \in Observed(page)' => told'[k] = told[k] /\ k \in Observed(page)
        BY <1>1, <1>3, <1>7
    <2>q. QED  BY <1>2, <1>7, <2>1, <2>2, StaysFaithful
<1>8. CASE AnsweredAwaited
    <2>1. CASE task.what # "toggle" \/ c \in Observed(page)
        BY <1>6, <1>8, <1>a, <2>1 DEF AnsweredAwaited, GapAfter
    <2>2. CASE ~(task.what # "toggle" \/ c \in Observed(page))
        BY <1>7, <1>8, <1>a, <2>2 DEF AnsweredAwaited, Awaits, NoTask
    <2>q. QED  BY <2>1, <2>2
<1>9. CASE AnsweredAtOnce
    <2>1. CASE c \in Observed(page)
        BY <1>6, <1>9, <1>a, <2>1 DEF AnsweredAtOnce, GapAfter
    <2>2. CASE c \notin Observed(page)
        <3>1. fetch'[k] = fetch[k]
            BY <1>9, <1>a, <2>2, Numbers DEF AnsweredAtOnce, ListsShape, QueryShape, Numbered
        <3>q. QED  BY <1>7, <1>9, <2>2, <3>1 DEF AnsweredAtOnce, Awaits, NoTask
    <2>q. QED  BY <2>1, <2>2
<1>q. QED
    BY <1>8, <1>9

LEMMA RefreshFaithful ==
    ASSUME ListsShape, ListsShape', NEW k \in Lists, Faithful(k), NEW c \in Lists, Refreshes(c)
    PROVE  Faithful(k)'
<1>1. /\ UNCHANGED <<user, page, cache, shown, hidden, gap, overlap>>
      /\ fetch' = [fetch EXCEPT ![c] = Refetched(c)] /\ told \in [Lists -> Nat]
    BY DEF Refreshes, ListsShape, SaidInv, SaidShape
<1>2. KeepsSaid(k)
    BY <1>1 DEF KeepsSaid
<1>3. CASE Awaits(c) /\ cache[c] # None
    <2>1. task' = NoTask /\ KeyOf(task.what) = c /\ ~Awaits(k)' /\ Reported(c)
        BY <1>3 DEF Refreshes, Awaits, NoTask
    <2>2. k # c => told'[k] = told[k]
        BY <1>1, <2>1 DEF Reported
    <2>q. QED  BY <1>1, <1>2, <1>3, <2>1, <2>2, RefetchedFaithful
<1>4. CASE ~(Awaits(c) /\ cache[c] # None)
    BY <1>1, <1>2, <1>4, RefetchedFaithful DEF Refreshes
<1>q. QED
    BY <1>3, <1>4

LEMMA FailedFaithful ==
    ASSUME ListsShape, ListsShape', NEW k \in Lists, Faithful(k), Failed
    PROVE  Faithful(k)'
<1>1. UNCHANGED <<user, page, cache, fetch, saidVars, gap, overlap>> /\ ~Awaits(k)'
    BY DEF Failed, Awaits, NoTask
<1>q. QED
    BY <1>1, AsideFaithful DEF Same

LEMMA ListFaithful ==
    ASSUME ListsShape, ListsShape', NEW k \in Lists, Faithful(k), NEW c \in Lists,
           \/ ListServed(c) \/ MarkerRead(c) \/ RowsRead(c)
           \/ ListArrives(c) \/ ListFails(c) \/ Refreshes(c)
           \/ Polls(c) /\ UNCHANGED listVars
    PROVE  Faithful(k)'
<1>0. c \in Keys /\ k \in Keys /\ k # "wa-status" /\ DOMAIN fetch = Keys
    BY KeyNames DEF ListsShape, QueryShape
<1>1. ASSUME k # c, \A j \in Keys \ {c} : Same(j), UNCHANGED <<user, page, listVars>>
      PROVE  Faithful(k)'
    BY <1>0, <1>1, AsideFaithful DEF listVars, saidVars
<1>2. CASE ListServed(c)
    BY <1>0, <1>1, <1>2, ListIsServed, ReadsFaithful DEF ListServed, Same, ListsShape, ServerInv
<1>3. CASE MarkerRead(c)
    BY <1>0, <1>1, <1>3, MarkerIsRead, ReadsFaithful DEF MarkerRead, Same, ListsShape, ServerInv
<1>4. CASE RowsRead(c)
    <2>1. c \in {"retry", "logs"}
        BY <1>0, <1>4 DEF RowsRead, ListsShape, QueryShape, Sound
    <2>q. QED
        BY <1>0, <1>1, <1>4, <2>1, RowsAreRead, ReadsFaithful DEF RowsRead, Same, ListsShape, ServerInv
<1>5. ASSUME k # c, Same(k), Settles(c), UNCHANGED <<user, page, overlap>>, gap \ {c} \subseteq gap'
      PROVE  Faithful(k)'
    <2>1. told'[k] = told[k] /\ shown'[k] = shown[k] /\ (k = "retry" => hidden' = hidden)
          /\ (Awaits(k)' => task' = task)
        BY <1>5, Settled DEF Awaits, NoTask
    <2>2. KeepsSaid(k)
        BY <1>5, <2>1 DEF KeepsSaid
    <2>q. QED  BY <1>5, <2>1, <2>2, StaysFaithful
<1>6. CASE ListArrives(c)
    <2>1. CASE k = c
        BY <1>6, <2>1, ArrivesFaithful
    <2>2. CASE k # c
        BY <1>0, <1>5, <1>6, <2>2, OneArrives DEF ListArrives, Arrives, Same, ListsShape
    <2>q. QED  BY <2>1, <2>2
<1>7. CASE ListFails(c)
    <2>1. CASE k = c
        BY <1>7, <2>1, FailsFaithful
    <2>2. CASE k # c
        BY <1>0, <1>5, <1>7, <2>2 DEF ListFails, Fails, Denied, GapAfter, Same
    <2>q. QED  BY <2>1, <2>2
<1>8. CASE Refreshes(c)
    BY <1>8, RefreshFaithful
<1>9. CASE Polls(c) /\ UNCHANGED listVars
    <2>1. CASE k = c
        <3>1. KeepsSaid(k) /\ fetch'[k] = Asked(user) /\ cache'[k] = cache[k]
            BY <1>0, <1>9, <2>1 DEF Polls, KeepsSaid, listVars
        <3>q. QED  BY <3>1, AskedNow
    <2>2. CASE k # c
        BY <1>0, <1>1, <1>9, <2>2 DEF Polls, Same
    <2>q. QED  BY <2>1, <2>2
<1>q. QED
    BY <1>2, <1>3, <1>4, <1>6, <1>7, <1>8, <1>9

LEMMA ListsInvStep ==
    ASSUME ListsInv, ConnectShape, [Next]_vars
    PROVE  ListsInv'
<1>1. ListsShape /\ ListsShape' /\ ServerGoesOn
    BY ShapeStep, ServerStep DEF ListsInv, ListsShape, UserShape, SaidInv
<1>2. ASSUME NEW k \in Lists PROVE Faithful(k)'
    <2>0. Faithful(k) /\ DOMAIN clears = {"mine", "rival"} /\ k \in Keys
        BY KeyNames DEF ListsInv, ServerInv, ServerShape
    <2>1. ASSUME NEW t \in Tenants, LogIn(t) PROVE Faithful(k)'
        BY <1>1, <2>0, <2>1, LogInFaithful
    <2>2. ASSUME NEW p \in Pages, GoTo(p) PROVE Faithful(k)'
        <3>1. Shown(p, user) /\ UNCHANGED <<user, cache, shown, hidden, overlap, task>> /\ GapAfter(GapsOf(p))
            BY <2>2 DEF GoTo, Visit, saidVars
        <3>q. QED  BY <1>1, <2>0, <3>1, ShownFaithful
    <2>3. CASE LogOut
        BY <1>1, <2>0, <2>3, LogOutFaithful
    <2>4. CASE ThrownOut
        BY <2>4, ThrownOutFaithful
    <2>5. CASE Saved
        BY <1>1, <2>0, <2>5, SavedFaithful DEF Saved
    <2>6. CASE ConnectStep /\ UNCHANGED listVars
        BY <1>1, <2>0, <2>6, ConnectAside, AsideFaithful DEF ListsShape, listVars, saidVars
    <2>7. ASSUME NEW c \in Lists,
                 \/ ListServed(c) \/ MarkerRead(c) \/ RowsRead(c)
                 \/ ListArrives(c) \/ ListFails(c) \/ Refreshes(c)
                 \/ Polls(c) /\ UNCHANGED listVars
          PROVE  Faithful(k)'
        BY <1>1, <2>0, <2>7, ListFaithful
    <2>8. CASE ServerActs
        BY <1>1, <2>0, <2>8, ServerFaithful
    <2>9. CASE Failed
        BY <1>1, <2>0, <2>9, FailedFaithful
    <2>10. CASE AnsweredAwaited \/ AnsweredAtOnce
        BY <1>1, <2>0, <2>10, AnsweredFaithful
    <2>11. CASE UNCHANGED vars
        BY <1>1, <2>0, <2>11, AsideFaithful DEF vars, tabVars, listVars, saidVars, Same
    <2>q. QED
        BY <2>0, <2>1, <2>2, <2>3, <2>4, <2>5, <2>6, <2>7, <2>8, <2>9, <2>10, <2>11
        DEF Next, ListStep, ServerActs, Mutations
<1>q. QED
    BY <1>1, <1>2 DEF ListsInv, ListsShape

----------------------------------------------------------------------------
(* The Connect page *)

LEMMA StatusNames ==
    Session!Statuses = {"disconnected", "connecting", "connected"}
BY DEF Session!Statuses

LEMMA Removed ==
    ASSUME NEW S, NEW s \in Seq(S), NEW i \in DOMAIN s
    PROVE  RemoveAt(s, i) \in Seq(S)
<1>1. SubSeq(s, 1, i - 1) \in Seq(S) /\ SubSeq(s, i + 1, Len(s)) \in Seq(S)
    OBVIOUS
<1>q. QED
    BY <1>1 DEF RemoveAt

LEMMA EmittedShape ==
    ASSUME ConnectShape, NEW t, NEW event \in Event0
    PROVE  Emitted(t, event) \in [{"main", "side"} -> Wire0]
<1>1. ASSUME NEW w \in {"main", "side"}
      PROVE  [wires[w] EXCEPT !.inbox = Append(@, event)] \in Wire0 /\ wires[w] \in Wire0
    <2>1. wires[w] \in Wire0 /\ Append(wires[w].inbox, event) \in Seq(Event0)
        BY DEF ConnectShape, Wire0
    <2>q. QED  BY <2>1 DEF Wire0
<1>2. DOMAIN wires = {"main", "side"}
    BY DEF ConnectShape
<1>q. QED
    BY <1>1, <1>2 DEF Emitted

LEMMA NoWireShape ==
    ASSUME NEW u \in Tenants \cup {None}
    PROVE  /\ [w \in {"main", "side"} |-> [NoWire EXCEPT !.room = u]] \in [{"main", "side"} -> Wire0]
           /\ NoWire \in Wire0
<1>1. <<>> \in Seq(Event0)
    OBVIOUS
<1>q. QED
    BY <1>1 DEF NoWire, Wire0

\* What the effect makes of an answer.
LEMMA AppliedShape ==
    ASSUME NEW v \in Answer0, NEW d \in {None} \cup Answer0
    PROVE  Applied(v, d) \in Answer0
BY DEF Applied, Answer0

\* The events of a wire.
LEMMA HeardShape ==
    ASSUME ConnectShape, NEW w \in {"main", "side"}, wires[w].inbox # <<>>
    PROVE  /\ Head(wires[w].inbox) \in Event0
           /\ [wires EXCEPT ![w].inbox = Tail(@)] \in [{"main", "side"} -> Wire0]
<1>1. wires[w] \in Wire0 /\ wires[w].inbox \in Seq(Event0)
    BY DEF ConnectShape, Wire0
<1>2. Head(wires[w].inbox) \in Event0 /\ Tail(wires[w].inbox) \in Seq(Event0)
    BY <1>1
<1>q. QED
    BY <1>1, <1>2 DEF ConnectShape, Wire0

\* A session changes.
LEMMA SessShape ==
    ASSUME ConnectShape, NEW t \in Tenants, NEW s \in Session!Statuses
    PROVE  /\ sess[t] \in Sess0 /\ Changed(t, s) \in Sess0
           /\ [sess[t] EXCEPT !.status = s] \in Sess0
<1>1. sess[t] \in Sess0
    BY DEF ConnectShape
<1>2. Append(sess[t].news, s) \in Seq(Session!Statuses)
    BY <1>1 DEF Sess0
<1>q. QED
    BY <1>1, <1>2 DEF Changed, Sess0

LEMMA TenantShape ==
    ASSUME ConnectShape, NEW t \in Tenants, TenantStep(t)
    PROVE  ConnectShape'
<1> USE StatusNames
<1>0. sess[t] \in Sess0 /\ sess[t].qr \in (Tenants \X Nat) \cup {None}
    BY SessShape DEF Sess0
<1>1. ASSUME NEW r \in Sess0 PROVE [sess EXCEPT ![t] = r] \in [Tenants -> Sess0]
    BY DEF ConnectShape
<1>2. CASE Reconnects(t)
    <2>1. sess' = [sess EXCEPT ![t] = [sess[t] EXCEPT !.status = "connecting"]]
        BY <1>2 DEF Reconnects
    <2>q. QED  BY <1>1, <1>2, <2>1, SessShape DEF Reconnects, ConnectShape
<1>3. CASE CodeComes(t)
    <2>1. [sess[t] EXCEPT !.coding = TRUE] \in Sess0
        BY <1>0 DEF Sess0
    <2>q. QED  BY <1>1, <1>3, <2>1 DEF CodeComes, ConnectShape
<1>4. CASE CodeEncoded(t)
    <2> DEFINE code == <<t, sess[t].codes + 1>>
               r == [sess[t] EXCEPT !.coding = FALSE, !.codes = @ + 1, !.qr = code]
    <2>1. code \in Tenants \X Nat
        BY <1>0 DEF Sess0
    <2>2. r \in Sess0
        BY <1>0, <2>1 DEF Sess0
    <2>3. [what |-> "qr", is |-> code] \in Event0
        BY <2>1 DEF Event0
    <2>4. sess' = [sess EXCEPT ![t] = r]
        BY <1>4 DEF CodeEncoded
    <2>5. wires' \in [{"main", "side"} -> Wire0]
        BY <1>4, <2>3, EmittedShape DEF CodeEncoded
    <2> HIDE DEF r
    <2>q. QED  BY <1>1, <1>4, <2>2, <2>4, <2>5 DEF CodeEncoded, ConnectShape
<1>5. CASE Opens(t)
    <2>1. Changed(t, "connected") \in Sess0  BY SessShape
    <2>2. [Changed(t, "connected") EXCEPT !.qr = None] \in Sess0
        BY <2>1 DEF Sess0
    <2>q. QED  BY <1>1, <1>5, <2>2 DEF Opens, ConnectShape
<1>6. CASE Closes(t)
    <2>1. PICK qr \in {sess[t].qr, None} :
            sess' = [sess EXCEPT ![t] = [Changed(t, "disconnected") EXCEPT !.qr = qr]]
        BY <1>6 DEF Closes
    <2>2. Changed(t, "disconnected") \in Sess0  BY SessShape
    <2>3. [Changed(t, "disconnected") EXCEPT !.qr = qr] \in Sess0
        BY <1>0, <2>2 DEF Sess0
    <2>q. QED  BY <1>1, <1>6, <2>1, <2>3 DEF Closes, ConnectShape
<1>7. CASE Tells(t)
    <2>1. PICK i \in DOMAIN sess[t].news :
            /\ sess' = [sess EXCEPT ![t].news = RemoveAt(@, i)]
            /\ wires' = Emitted(t, StatusEvent(sess[t].news[i]))
            /\ OffAfter(Unheard(t, StatusEvent(sess[t].news[i])), "status")
        BY <1>7 DEF Tells
    <2>2. sess[t].news \in Seq(Session!Statuses) /\ sess[t].news[i] \in Session!Statuses
        BY <1>0 DEF Sess0
    <2>3. StatusEvent(sess[t].news[i]) \in Event0
        BY <2>2 DEF StatusEvent, Event0
    <2>4. RemoveAt(sess[t].news, i) \in Seq(Session!Statuses)
        BY <2>2, Removed
    <2>5. sess' \in [Tenants -> Sess0]
        BY <1>0, <2>1, <2>4 DEF ConnectShape, Sess0
    <2>6. wires' \in [{"main", "side"} -> Wire0]
        BY <2>1, <2>3, EmittedShape
    <2>7. off' \subseteq {"status", "qr"}
        BY <2>1 DEF OffAfter, ConnectShape
    <2>q. QED  BY <1>7, <2>5, <2>6, <2>7 DEF Tells, ConnectShape
<1>q. QED
    BY <1>2, <1>3, <1>4, <1>5, <1>6, <1>7 DEF TenantStep

LEMMA ConnectStepShape ==
    ASSUME ConnectShape, QueryShape, UserShape, ConnectStep
    PROVE  ConnectShape'
<1> USE StatusNames
<1>0. /\ cache["wa-status"] \in {None} \cup Answer0 /\ fetch["wa-status"].got \in {None} \cup Answer0
      /\ FreshView \in Answer0 /\ view \in Answer0 /\ DOMAIN wires = {"main", "side"}
      /\ page = "connect" => user \in Tenants
    <2>1. "wa-status" \in Keys  BY KeyNames
    <2>2. FreshView \in Answer0  BY DEF FreshView, Answer0
    <2>q. QED  BY <2>1, <2>2 DEF QueryShape, Sound, Data0, Fetch0, ConnectShape, UserShape
<1>1. ASSUME NEW t \in Tenants, TenantStep(t) PROVE ConnectShape'
    BY <1>1, TenantShape
<1>2. ASSUME NEW w \in {"main", "side"}, Dials(w) PROVE ConnectShape'
    BY <1>2 DEF Dials, ConnectShape, Wire0
<1>3. ASSUME NEW w \in {"main", "side"}, Drops(w) PROVE ConnectShape'
    <2>1. <<>> \in Seq(Event0)  OBVIOUS
    <2>2. wires' \in [{"main", "side"} -> Wire0]
        BY <1>3, <2>1 DEF Drops, ConnectShape, Wire0
    <2>q. QED  BY <1>3, <2>2 DEF Drops, OffAfter, ConnectShape
<1>4. ASSUME NEW w \in {"main", "side"}, Hear(w) PROVE ConnectShape'
    <2> DEFINE event == Head(wires[w].inbox)
    <2>1. event \in Event0 /\ wires' \in [{"main", "side"} -> Wire0]
        BY <1>4, HeardShape DEF Hear
    <2>2. CASE page # "connect" \/ (event.what # "status" /\ w # QrEar)
        BY <1>4, <2>1, <2>2 DEF Hear, ConnectShape
    <2>3. CASE page = "connect" /\ event.what = "status"
        <3>1. event.is \in Session!Statuses
            BY <2>1, <2>3 DEF Event0
        <3>2. TakesStatus(event.is) \in Answer0
            BY <1>0, <3>1 DEF TakesStatus, Answer0
        <3>3. view' = TakesStatus(event.is) /\ off' \subseteq {"status", "qr"}
            BY <1>4, <2>3 DEF Hear, ConnectShape
        <3>q. QED  BY <1>4, <2>1, <3>2, <3>3 DEF Hear, ConnectShape
    <2>4. CASE page = "connect" /\ event.what # "status" /\ w = QrEar
        <3>1. event.is \in Tenants \X Nat
            BY <2>1, <2>4 DEF Event0
        <3>2. [view EXCEPT !.qr = event.is] \in Answer0
            BY <1>0, <3>1 DEF Answer0
        <3>3. view' = [view EXCEPT !.qr = event.is] /\ off' \subseteq {"status", "qr"}
            BY <1>4, <2>4 DEF Hear, OffAfter, ConnectShape
        <3>q. QED  BY <1>4, <2>1, <3>2, <3>3 DEF Hear, ConnectShape
    <2>q. QED  BY <2>2, <2>3, <2>4
<1>5. CASE UNCHANGED connectVars
    BY <1>5 DEF connectVars, ConnectShape
<1>6. CASE StatusArrives
    <2>1. Taken(fetch["wa-status"].got) \in Answer0
        BY <1>0, AppliedShape DEF Taken
    <2>q. QED  BY <1>6, <2>1 DEF StatusArrives, ConnectShape
<1>7. CASE Restarts
    <2>1. ASSUME NEW t \in Tenants PROVE [NoSession EXCEPT !.codes = sess[t].codes] \in Sess0
        <3>1. <<>> \in Seq(Session!Statuses) /\ sess[t].codes \in Nat
            BY DEF ConnectShape, Sess0
        <3>q. QED  BY <3>1 DEF NoSession, Sess0
    <2>2. ASSUME NEW w \in {"main", "side"} PROVE [wires[w] EXCEPT !.up = FALSE, !.inbox = <<>>] \in Wire0
        <3>1. <<>> \in Seq(Event0) /\ wires[w] \in Wire0  BY DEF ConnectShape
        <3>q. QED  BY <3>1 DEF Wire0
    <2>q. QED  BY <1>0, <1>7, <2>1, <2>2 DEF Restarts, ConnectShape
<1>8. CASE ClickStart \/ ClickLeave \/ PostFails
    <2>1. [view EXCEPT !.qr = None] \in Answer0  BY <1>0 DEF Answer0
    <2>q. QED  BY <1>8, <2>1 DEF ClickStart, ClickLeave, PostFails, OffAfter, ConnectShape
<1>9. CASE StartServed
    <2> DEFINE t == post.for
               s == IF sess[t].status = "disconnected" THEN "connecting" ELSE sess[t].status
    <2>1. CASE t \in Tenants
        <3>1. s \in Session!Statuses
            BY <2>1, SessShape DEF Sess0
        <3>2. sess' = [sess EXCEPT ![t] = [sess[t] EXCEPT !.status = s]]
            BY <1>9 DEF StartServed
        <3> HIDE DEF s
        <3>3. [sess[t] EXCEPT !.status = s] \in Sess0
            BY <2>1, <3>1, SessShape
        <3>q. QED  BY <1>9, <2>1, <3>2, <3>3 DEF StartServed, ConnectShape
    <2>2. CASE t \notin Tenants
        <3>1. sess' = sess  BY <1>9, <2>2 DEF StartServed, ConnectShape
        <3>q. QED  BY <1>9, <3>1 DEF StartServed, ConnectShape
    <2>q. QED  BY <2>1, <2>2
<1>10. CASE LeaveServed
    <2>1. CASE post.for \in Tenants
        <3> DEFINE t == post.for
                   r == [IF sess[t].status = "disconnected" THEN sess[t] ELSE Changed(t, "disconnected")
                           EXCEPT !.qr = None]
        <3>1. r \in Sess0
            <4>1. sess[t] \in Sess0 /\ Changed(t, "disconnected") \in Sess0
                BY <2>1, SessShape
            <4>2. [sess[t] EXCEPT !.qr = None] \in Sess0 /\ [Changed(t, "disconnected") EXCEPT !.qr = None] \in Sess0
                BY <4>1 DEF Sess0
            <4>q. QED  BY <4>2
        <3>2. sess' = [sess EXCEPT ![t] = r]
            BY <1>10 DEF LeaveServed
        <3> HIDE DEF r
        <3>q. QED  BY <1>10, <2>1, <3>1, <3>2 DEF LeaveServed, ConnectShape
    <2>2. CASE post.for \notin Tenants
        <3>1. sess' = sess  BY <1>10, <2>2 DEF LeaveServed, ConnectShape
        <3>q. QED  BY <1>10, <3>1 DEF LeaveServed, ConnectShape
    <2>q. QED  BY <2>1, <2>2
<1>11. CASE LeaveTold
    <2>1. StatusEvent("disconnected") \in Event0
        BY DEF StatusEvent, Event0
    <2>2. wires' \in [{"main", "side"} -> Wire0]
        BY <1>11, <2>1, EmittedShape DEF LeaveTold
    <2>q. QED  BY <1>11, <2>2 DEF LeaveTold, OffAfter, ConnectShape
<1>12. CASE StartAnswered \/ LeaveAnswered
    <2>1. PICK s \in Session!Statuses :
            /\ view' = IF post.page # "shown" THEN view
                       ELSE [status |-> s, qr |-> IF post.what = "leave" THEN None ELSE view.qr]
            /\ off' \subseteq {"status", "qr"} /\ UNCHANGED <<sess, wires>>
        BY <1>12 DEF StartAnswered, LeaveAnswered, Answer, ConnectShape
    <2>2. view' \in Answer0
        BY <1>0, <2>1 DEF Answer0
    <2>q. QED  BY <2>1, <2>2 DEF ConnectShape
<1>q. QED
    BY <1>1, <1>2, <1>3, <1>4, <1>5, <1>6, <1>7, <1>8, <1>9, <1>10, <1>11, <1>12
    DEF ConnectStep, PostStep, StatusServed

LEMMA ConnectKept ==
    ASSUME ConnectShape, QueryShape, UserShape, ServerShape, [Next]_vars
    PROVE  ConnectShape'
<1> USE StatusNames
<1>0. /\ cache["wa-status"] \in {None} \cup Answer0 /\ FreshView \in Answer0
      /\ DOMAIN wires = {"main", "side"} /\ {} \subseteq {"status", "qr"}
    <2>1. "wa-status" \in Keys  BY KeyNames
    <2>2. FreshView \in Answer0  BY DEF FreshView, Answer0
    <2>q. QED  BY <2>1, <2>2 DEF QueryShape, Sound, Data0, ConnectShape
<1>1. ASSUME NEW u \in Tenants \cup {None}, PageOpens(u), UNCHANGED sess PROVE ConnectShape'
    <2>1. view' \in Answer0
        BY <1>0, <1>1, AppliedShape DEF PageOpens
    <2>2. wires' \in [{"main", "side"} -> Wire0]
        BY <1>0, <1>1, NoWireShape DEF PageOpens, Listens, ConnectShape
    <2>q. QED  BY <1>1, <2>1, <2>2 DEF PageOpens, ConnectShape
<1>2. ASSUME PageCloses, UNCHANGED sess PROVE ConnectShape'
    <2>1. wires' \in [{"main", "side"} -> Wire0]
        BY <1>2, NoWireShape DEF PageCloses, ConnectShape
    <2>q. QED  BY <1>0, <1>2, <2>1 DEF PageCloses, ConnectShape
<1>3. ASSUME PageReloads, UNCHANGED sess PROVE ConnectShape'
    <2>1. wires' \in [{"main", "side"} -> Wire0]
        BY <1>0, <1>3, NoWireShape DEF PageReloads
    <2>q. QED  BY <1>0, <1>3, <2>1 DEF PageReloads, ConnectShape
<1>4. ASSUME NEW t \in Tenants, LogIn(t) PROVE ConnectShape'
    BY <1>1, <1>4 DEF LogIn
<1>5. ASSUME NEW p \in Pages, GoTo(p) PROVE ConnectShape'
    BY <1>1, <1>2, <1>5 DEF GoTo, UserShape
<1>6. CASE LogOut \/ Saved
    BY <1>2, <1>6 DEF LogOut, Saved
<1>7. CASE ThrownOut
    BY <1>3, <1>7 DEF ThrownOut
<1>8. CASE ConnectStep
    BY <1>8, ConnectStepShape
<1>9. CASE UNCHANGED connectVars
    BY <1>9 DEF connectVars, ConnectShape
<1>q. QED
    BY <1>4, <1>5, <1>6, <1>7, <1>8, <1>9 DEF Next, vars

----------------------------------------------------------------------------
(* The invariants *)

LEMMA ListsInit == Init => ListsInv /\ ConnectShape
<1> SUFFICES ASSUME Init PROVE ListsInv /\ ConnectShape
    OBVIOUS
<1> USE DEF Init
<1>1. UserShape
    <2>1. left \in Plan0 /\ page = left.start /\ IF page = "login" THEN user = None ELSE user \in left.who
        BY PlansAssumption DEF TabInit, Plan0
    <2>2. left.who \subseteq Tenants /\ left.start \in {"login"} \cup Pages
        BY <2>1 DEF Plan0
    <2>q. QED  BY <2>1, <2>2, NoneAssumption DEF UserShape, Pages
<1>2. QueryShape
    <2>1. ASSUME NEW k \in Keys PROVE Sound(k)
        <3>1. cache[k] = None /\ fetch[k] \in {Asked(user), NoFetch}
            BY <2>1 DEF TabInit
        <3>2. fetch[k] \in Fetch0(k) /\ fetch[k].at \in {"asked", "idle"}
            BY <1>1, <2>1, <3>1, Requests DEF UserShape
        <3>q. QED  BY <3>1, <3>2 DEF Sound, Data0
    <2>q. QED  BY <2>1 DEF TabInit, QueryShape
<1>3. ServerInv
    <2>1. NoTask \in Task0 /\ NoClear \in Clear0 /\ NoTask.at = "idle" /\ NoClear.at = "idle"
        BY DEF NoTask, Task0, NoClear, Clear0, Stages
    <2>2. ServerShape
        BY <2>1 DEF ListInit, ServerShape
    <2>3. \A c \in {"mine", "rival"} : ~Clearing(c)
        BY <2>1 DEF ListInit, Clearing
    <2>4. Working
        BY <2>1, <2>3 DEF ListInit, Working
    <2>5. \A t \in Tenants : Cutoff(t) = 0 /\ rows[t] = 1
        BY DEF ListInit, Cutoff
    <2>6. Timed
        BY <2>1, <2>3, <2>5 DEF ListInit, Timed
    <2>q. QED  BY <2>2, <2>4, <2>6 DEF ListInit, ServerInv
<1>4. SaidInv
    <2>1. task.at = "idle" /\ hidden = 0 /\ \A k \in Lists : told[k] = 0 /\ shown[k] = 0
        BY DEF ListInit, NoTask
    <2>2. user # None => \A k \in Lists : table[user][TableOf(k)] = 0
        BY <1>1, KeyNames DEF UserShape, ListInit
    <2>3. user # None => Cutoff(user) = 0
        BY <1>1 DEF UserShape, ListInit, Cutoff
    <2>4. SaidShape
        BY DEF ListInit, SaidShape
    <2>q. QED  BY <2>1, <2>2, <2>3, <2>4 DEF SaidInv, Counted, Past
<1>5. ASSUME NEW k \in Lists PROVE Faithful(k)
    <2>1. task.at = "idle" /\ hidden = 0 /\ told[k] = 0 /\ shown[k] = 0
        BY DEF ListInit, NoTask
    <2>q. QED  BY <2>1 DEF Faithful, KeptFor, OwedFor, AwaitedFor, HiddenStay, Awaits
<1>6. ConnectShape
    <2>1. NoSession \in Sess0
        <3>1. <<>> \in Seq(Session!Statuses)  OBVIOUS
        <3>q. QED  BY <3>1, StatusNames DEF NoSession, Sess0
    <2>2. FreshView \in Answer0
        BY StatusNames DEF FreshView, Answer0
    <2>q. QED  BY <2>1, <2>2, NoWireShape DEF ConnectInit, ConnectShape
<1>q. QED
    BY <1>1, <1>2, <1>3, <1>4, <1>5, <1>6 DEF ListsInv

LEMMA ListsHold == Spec => [](ListsInv /\ ConnectShape)
<1>1. ListsInv /\ ConnectShape /\ [Next]_vars => (ListsInv /\ ConnectShape)'
    BY ListsInvStep, ConnectKept DEF ListsInv, ServerInv
<1>q. QED
    BY <1>1, ListsInit, PTL DEF Spec

\* The variables of the tab, of the pages and of what they are fed by keep their types.
THEOREM ConsoleTyped == Spec => []TypeOK
<1>1. ListsInv /\ ConnectShape => TypeOK
    BY DEF ListsInv, QueryShape, Sound, Data0, Fetch0, UserShape, ServerInv, ServerShape, SaidInv,
        SaidShape, ConnectShape, Sess0, TypeOK
<1>q. QED
    BY <1>1, ListsHold, PTL

\* What a page reported as done is on the list it shows, whatever is clicked, polled, refreshed,
\* refused or left in between, and whoever signs in and out.
THEOREM WritesShow == Spec => []OwnWritesShow
<1>1. ListsInv => OwnWritesShow
    <2>1. SUFFICES ASSUME ListsInv, NEW k \in Observed(page) \cap {"schedules", "groups", "retry"},
                          k \notin gap
          PROVE  /\ shown[k] > 0 => cache[k] # None /\ cache[k].of = user /\ cache[k].n >= shown[k]
                 /\ told[k] > 0 => \/ cache[k] # None /\ cache[k].of = user /\ cache[k].n >= told[k]
                                   \/ InFlight(k) /\ ~Behind(k, told[k], 0)
        BY DEF OwnWritesShow
    <2>2. Faithful(k)
        BY <2>1 DEF ListsInv, Lists
    <2>3. user # None
        BY <2>1, KeyNames DEF ListsInv, UserShape
    <2>q. QED  BY <2>1, <2>2, <2>3 DEF Faithful, KeptFor, OwedFor, Holds
<1>q. QED
    BY <1>1, ListsHold, PTL

\* Rows cleared from the Retry center stay away from it, unless somebody else clears the view at
\* the same time.
THEOREM ClearedHold == Spec => []ClearedStaysHidden
<1>1. ListsInv => ClearedStaysHidden
    <2>1. SUFFICES ASSUME ListsInv, page = "retry", "retry" \notin gap, ~overlap, hidden > 0
          PROVE  cache["retry"] # None /\ cache["retry"].from >= hidden
        BY DEF ClearedStaysHidden
    <2>2. Faithful("retry") /\ user # None
        BY <2>1 DEF ListsInv, Lists, UserShape
    <2>q. QED  BY <2>1, <2>2 DEF Faithful, HiddenStay
<1>q. QED
    BY <1>1, ListsHold, PTL
=============================================================================
