------------------------------ MODULE Console ------------------------------
(***************************************************************************)
(* The console in one browser tab: signing in and out, moving between the  *)
(* pages, and the pages' own steps.                                        *)
(***************************************************************************)
EXTENDS ConnectPage, ListPages

vars == <<tabVars, connectVars, listVars>>

Init == TabInit /\ ConnectInit /\ ListInit

\* Login or Register, both of which go to /connect.
LogIn(t) ==
    /\ SignIn(t) /\ PageOpens(t)
    /\ TabForgets
    /\ UNCHANGED <<sess, post, task, gap>>

LogOut ==
    /\ SignOut /\ PageCloses
    /\ UNCHANGED <<sess, listVars>>

GoTo(p) ==
    /\ Visit(p)
    /\ IF p = "connect" THEN PageOpens(user) /\ UNCHANGED post ELSE PageCloses
    /\ UNCHANGED <<sess, serverVars, task, saidVars, overlap>>
    /\ GapAfter(GapsOf(p))

\* The page that is loaded anew knows nothing of what the old one was waiting for.
ThrownOut ==
    /\ Unauthorized /\ PageReloads /\ TabForgets
    /\ task' = NoTask /\ gap' = {}
    /\ UNCHANGED sess

Saved == SaveAnswered /\ PageCloses /\ UNCHANGED sess

Next ==
    \/ \E t \in Tenants : LogIn(t)
    \/ \E p \in Pages : GoTo(p)
    \/ LogOut \/ ThrownOut \/ Saved
    \/ ConnectStep /\ UNCHANGED listVars
    \/ ListStep /\ UNCHANGED connectVars

Spec == Init /\ [][Next]_vars

----------------------------------------------------------------------------
(* Fairness *)

\* What happens without anyone's doing: requests are answered, events arrive, sockets connect.
Settling ==
    \/ /\ UNCHANGED listVars
       /\ \/ \E t \in Tenants : CodeEncoded(t) \/ Tells(t)
          \/ \E w \in DOMAIN wires : Dials(w) \/ Hear(w)
          \/ PostStep
    \/ /\ UNCHANGED connectVars
       /\ \/ \E c \in DOMAIN clears : ClearUpdates(c) \/ ClearCreates(c)
          \/ Served \/ ClearServed \/ AnsweredAwaited \/ AnsweredAtOnce
    \/ Saved
    \/ UNCHANGED left /\ ThrownOut   \* the 401 of a request without a token

\* One round of the interval of a key.
Round(k) ==
    \/ /\ UNCHANGED listVars
       /\ k = "wa-status"
       /\ \/ StatusServed \/ StatusArrives
          \/ (Polls(k) \/ Denied(k)) /\ UNCHANGED connectVars
    \/ /\ UNCHANGED connectVars
       /\ k \in Lists
       /\ \/ ListServed(k) \/ MarkerRead(k) \/ RowsRead(k) \/ ListArrives(k)
          \/ Polls(k) /\ UNCHANGED listVars

FairSpec == Spec /\ WF_vars(Settling) /\ \A k \in Keys : WF_vars(Round(k))

----------------------------------------------------------------------------
(* Properties *)

Answer0 == [status : Session!Statuses, qr : Tenants \X Nat \cup {None}]
List0   == [of : Tenants, n : Nat, from : Nat]

ASSUME DataAssumption == None \notin Nat \cup List0

\* The types of the variables.
TypeOK ==
    /\ user \in Tenants \cup {None} /\ page \in Pages \cup {"login"}
    /\ \A k \in Keys :
         LET data == {None} \cup IF k = "wa-status" THEN Answer0 ELSE List0 IN
         /\ cache[k] \in data
         /\ fetch[k] \in [at : {"idle", "asked", "viewed", "answered"}, as : Tenants \cup {None}, got : data]
    /\ sess \in [Tenants -> [status : Session!Statuses, qr : Tenants \X Nat \cup {None}, coding : BOOLEAN,
                             codes : Nat, news : Seq(Session!Statuses)]]
    /\ view \in Answer0
    /\ marker \in [Tenants -> Nat \cup {None}]
    /\ gap \subseteq Lists /\ off \subseteq {"status", "qr"}

\* What the page said it had done is on the list it shows: at once where the mutation awaits the
\* list, else with the fetch under way; unless that fetch failed, was an older one's or another user's.
OwnWritesShow ==
    \A k \in Observed(page) \cap {"schedules", "groups", "retry"} : k \notin gap =>
        /\ shown[k] > 0 => cache[k] # None /\ cache[k].of = user /\ cache[k].n >= shown[k]
        /\ told[k] > 0 => \/ cache[k] # None /\ cache[k].of = user /\ cache[k].n >= told[k]
                          \/ InFlight(k) /\ ~Behind(k, told[k], 0)

\* Rows cleared from the Retry center do not come back with a poll that was under way, nor with
\* any later one, as long as nobody else clears the view at the same time.
ClearedStaysHidden ==
    page = "retry" /\ "retry" \notin gap /\ ~overlap /\ hidden > 0 =>
        cache["retry"] # None /\ cache["retry"].from >= hidden

\* The interval repairs what a failed or shared fetch left out.
PollingHeals ==
    <>[](page = "retry" => LET list == cache["retry"] IN
            list # None /\ list.of = user /\ list.n >= told["retry"] /\ (overlap \/ list.from >= hidden))

\* Unless an event of the gateway was lost or overtaken, the Connect page ends up showing what the
\* session is. (That it is connecting is no event, and a poll whose answer is that of the last
\* poll changes nothing.)
StatusSettles ==
    <>[](page = "connect" /\ "status" \notin off /\ sess[user].status # "connecting" =>
            view.status = sess[user].status)

\* A QR code that can be scanned is on the page, unless a click took it away or its event was late.
CodeShows ==
    <>[](page = "connect" /\ off = {} /\ sess[user].status = "connecting" => view.qr = sess[user].qr)
=============================================================================
