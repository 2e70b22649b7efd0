---------------------------- MODULE ConnectPage ----------------------------
(***************************************************************************)
(* pages/ConnectWhatsApp.tsx with what it is fed by: the poll of           *)
(* /whatsapp/status, the events of the gateway's sockets                   *)
(* (hooks/useSocket.ts, backend/src/socket/whatsapp.gateway.ts), and the   *)
(* answers to its own requests.  A session is here what SessionStatus says *)
(* of it, with its QR code and the events WhatsAppService emits.           *)
(***************************************************************************)
EXTENDS Tab, Sequences, SequencesExt

Session == INSTANCE SessionStatus WITH status <- "disconnected"

VARIABLES
    sess,    \* Tenants -> status, latestQrs entry, QR being encoded, events not yet emitted
    view,    \* the page's useState: status and qr
    post,    \* the page's POST /connect or DELETE /disconnect
    wires,   \* "main": cachedSocket; "side": a socket only the QR listener holds
    aside,   \* the QR listener is on the side wire
    off      \* history of the page: what it showed may have been out of date when it was shown

connectVars == <<sess, view, post, wires, aside, off>>

NoSession == [status |-> "disconnected", qr |-> None, coding |-> FALSE, codes |-> 0, news |-> <<>>]
FreshView == [status |-> "disconnected", qr |-> None]
NoPost    == [what |-> "none", at |-> "idle", for |-> None, page |-> "gone"]
NoWire    == [room |-> None, up |-> FALSE, inbox |-> <<>>]

ConnectInit ==
    /\ sess = [t \in Tenants |-> NoSession]
    /\ view = FreshView /\ post = NoPost /\ aside = FALSE /\ off = {}
    /\ wires = [w \in {"main", "side"} |-> NoWire]

----------------------------------------------------------------------------
(* The gateway *)

Hears(w, event) == IF w = "main" THEN TRUE ELSE event.what = "qr"

\* emitToTenant: to the sockets that are in the tenant's room now.
Emitted(t, event) ==
    [w \in DOMAIN wires |->
        IF wires[w].room = t /\ wires[w].up /\ Hears(w, event)
        THEN [wires[w] EXCEPT !.inbox = Append(@, event)] ELSE wires[w]]

\* A status event of the signed-in tenant that the page cannot hear.
Unheard(t, event) ==
    /\ page = "connect" /\ t = user /\ event.what = "status"
    /\ ~(wires["main"].up /\ wires["main"].room = t)

OffAfter(bad, part) == off' = IF bad THEN off \cup {part} ELSE off

\* Mutant: Baileys' own word for it.
RawEvent(s) == [what |-> "status", is |-> IF s = "connected" THEN "open" ELSE s]

StatusEvent(s) == [what |-> "status", is |-> s]

\* handleConnection: the room is that of the token the socket was made with.
Dials(w) ==
    /\ wires[w].room # None /\ ~wires[w].up
    /\ wires' = [wires EXCEPT ![w].up = TRUE]
    /\ UNCHANGED <<tabVars, sess, view, post, aside, off>>

HasStatus(inbox) == \E i \in DOMAIN inbox : inbox[i].what = "status"

Drops(w) ==
    /\ wires[w].up /\ Spend("network")
    /\ wires' = [wires EXCEPT ![w].up = FALSE, ![w].inbox = <<>>]
    /\ OffAfter(HasStatus(wires[w].inbox), "status")
    /\ UNCHANGED <<user, page, cache, fetch, sess, view, post, aside>>

----------------------------------------------------------------------------
(* WhatsAppService, as far as it can be seen *)

Changed(t, s) == [sess[t] EXCEPT !.status = s, !.news = Append(@, s)]

\* connect() without a request: the reconnect timer, the start of the process, or a call that
\* overlaps another and replaces its socket.
Reconnects(t) ==
    /\ "connecting" \in Session!MayBecome(sess[t].status) /\ Spend("session")
    /\ sess' = [sess EXCEPT ![t].status = "connecting"]
    /\ UNCHANGED <<user, page, cache, fetch, view, post, wires, aside, off>>

\* A QR code comes with connection.update, and QRCode.toDataURL takes a while.
CodeComes(t) ==
    /\ sess[t].status = "connecting" /\ ~sess[t].coding /\ Spend("session")
    /\ sess' = [sess EXCEPT ![t].coding = TRUE]
    /\ UNCHANGED <<user, page, cache, fetch, view, post, wires, aside, off>>

CodeEncoded(t) ==
    LET code == <<t, sess[t].codes + 1>> IN
    /\ sess[t].coding
    /\ sess' = [sess EXCEPT ![t].coding = FALSE, ![t].codes = @ + 1, ![t].qr = code]
    /\ wires' = Emitted(t, [what |-> "qr", is |-> code])
    /\ UNCHANGED <<tabVars, view, post, aside, off>>

Opens(t) ==
    /\ sess[t].status = "connecting" /\ Spend("session")
    /\ sess' = [sess EXCEPT ![t] = [Changed(t, "connected") EXCEPT !.qr = None]]
    /\ UNCHANGED <<user, page, cache, fetch, view, post, wires, aside, off>>

\* Only a session that was replaced or given up loses its QR code.
Closes(t) ==
    /\ sess[t].status # "disconnected" /\ Spend("session")
    /\ \E qr \in {sess[t].qr, None} :
         sess' = [sess EXCEPT ![t] = [Changed(t, "disconnected") EXCEPT !.qr = qr]]
    /\ UNCHANGED <<user, page, cache, fetch, view, post, wires, aside, off>>

\* updateStatus has returned, not necessarily in the order it was called.
Tells(t) ==
    \E i \in DOMAIN sess[t].news :
        LET event == StatusEvent(sess[t].news[i]) IN
        /\ sess' = [sess EXCEPT ![t].news = RemoveAt(@, i)]
        /\ wires' = Emitted(t, event)
        /\ OffAfter(Unheard(t, event), "status")
        /\ UNCHANGED <<tabVars, view, post, aside>>

\* The process starts anew: sessions, codes and connections are gone, and nobody is told.
Restarts ==
    /\ Spend("network")
    /\ sess' = [t \in Tenants |-> [NoSession EXCEPT !.codes = sess[t].codes]]
    /\ wires' = [w \in DOMAIN wires |-> [wires[w] EXCEPT !.up = FALSE, !.inbox = <<>>]]
    /\ post' = NoPost /\ off' = {"status", "qr"}
    /\ UNCHANGED <<user, page, cache, fetch, view, aside>>

----------------------------------------------------------------------------
(* The page *)

\* The effect on statusData.
Applied(v, d) ==
    IF d = None THEN v
    ELSE [status |-> d.status,
          qr |-> IF d.status = "connected" THEN None ELSE IF d.qr # None THEN d.qr ELSE v.qr]

\* getSocket: a socket that is not connected yet is not shared, so that each of the three callers
\* makes one. The first has no listener; the last is cachedSocket and has the status listener.
Listens(u) ==
    IF wires["main"].up
    THEN UNCHANGED wires /\ aside' = FALSE
    ELSE wires' = [w \in DOMAIN wires |-> [NoWire EXCEPT !.room = u]] /\ aside' = TRUE

PageOpens(u) ==
    /\ view' = Applied(FreshView, cache["wa-status"])
    /\ Listens(u) /\ off' = {}

\* The side wire is lost to the page, and after a reload so is everything else.
PageReloads ==
    /\ wires' = [w \in DOMAIN wires |-> NoWire] /\ aside' = FALSE
    /\ post' = [post EXCEPT !.page = "gone"]
    /\ view' = FreshView /\ off' = {}

PageCloses ==
    /\ wires' = [wires EXCEPT !["side"] = NoWire] /\ aside' = FALSE
    /\ post' = [post EXCEPT !.page = IF @ = "shown" THEN "left" ELSE @]
    /\ view' = FreshView /\ off' = {}

\* The query answers what the controller reads from the two maps.
StatusServed ==
    LET f == fetch["wa-status"] IN
    /\ Asking("wa-status")
    /\ fetch' = [fetch EXCEPT !["wa-status"] =
                   [f EXCEPT !.at = "answered",
                             !.got = [status |-> sess[f.as].status, qr |-> sess[f.as].qr]]]
    /\ UNCHANGED <<user, page, cache, left, connectVars>>

\* Mutants: the effect runs on mount only; it leaves the status alone.
NeverApplied(d) == view
QrOnly(d) == [Applied(view, d) EXCEPT !.status = view.status]

\* Equal data is the same object (structural sharing), for which no effect runs.
Taken(d) == IF page # "connect" \/ d = cache["wa-status"] THEN view ELSE Applied(view, d)

StatusArrives ==
    /\ Arrives("wa-status")
    /\ view' = Taken(fetch["wa-status"].got)
    /\ UNCHANGED <<sess, post, wires, aside, off>>

QrEar == IF aside THEN "side" ELSE "main"

TakesStatus(s) == [status |-> s, qr |-> IF s = "connected" THEN None ELSE view.qr]

\* An event reaches the browser.
Hear(w) ==
    /\ wires[w].inbox # <<>>
    /\ LET event == Head(wires[w].inbox) IN
        IF page # "connect" THEN UNCHANGED <<view, off>>
        ELSE IF event.what = "status"
        THEN /\ view' = TakesStatus(event.is)
             /\ off' = off \cup (IF event.is # sess[user].status THEN {"status"} ELSE {})
                           \cup (IF view.qr # view'.qr /\ sess[user].qr # None THEN {"qr"} ELSE {})
        ELSE IF w # QrEar THEN UNCHANGED <<view, off>>
        ELSE /\ view' = [view EXCEPT !.qr = event.is]
             /\ OffAfter(event.is # sess[user].qr, "qr")
    /\ wires' = [wires EXCEPT ![w].inbox = Tail(@)]
    /\ UNCHANGED <<tabVars, sess, post, aside>>

\* startConnect; the button is not disabled while a request is under way.
ClickStart ==
    /\ page = "connect" /\ view.status # "connected" /\ post.at = "idle" /\ Spend("clicks")
    /\ view' = [view EXCEPT !.qr = None]
    /\ post' = [what |-> "connect", at |-> "sent", for |-> user, page |-> "shown"]
    /\ OffAfter(view.qr # None, "qr")
    /\ UNCHANGED <<user, page, cache, fetch, sess, wires, aside>>

ClickLeave ==
    /\ page = "connect" /\ view.status = "connected" /\ post.at = "idle" /\ Spend("clicks")
    /\ post' = [what |-> "leave", at |-> "sent", for |-> user, page |-> "shown"]
    /\ UNCHANGED <<user, page, cache, fetch, sess, view, wires, aside, off>>

\* connect() of a session that is connected or connecting returns at once.
StartServed ==
    /\ post.at = "sent" /\ post.what = "connect"
    /\ sess' = [sess EXCEPT ![post.for].status = IF @ = "disconnected" THEN "connecting" ELSE @]
    /\ post' = [post EXCEPT !.at = "answered"]
    /\ UNCHANGED <<tabVars, view, wires, aside, off>>

\* disconnect() up to the wipe, and the event after it.
LeaveServed ==
    /\ post.at = "sent" /\ post.what = "leave"
    /\ sess' = [sess EXCEPT ![post.for] =
                  [IF @.status = "disconnected" THEN @ ELSE Changed(post.for, "disconnected")
                     EXCEPT !.qr = None]]
    /\ post' = [post EXCEPT !.at = "wiping"]
    /\ UNCHANGED <<tabVars, view, wires, aside, off>>

LeaveTold ==
    LET event == StatusEvent("disconnected") IN
    /\ post.at = "wiping"
    /\ wires' = Emitted(post.for, event)
    /\ OffAfter(Unheard(post.for, event), "status")
    /\ post' = [post EXCEPT !.at = "answered"]
    /\ UNCHANGED <<tabVars, sess, view, aside>>

\* The code after the await; a page that is no longer shown has only the refetch left to do.
Answer(s, refetch) ==
    /\ view' = IF post.page # "shown" THEN view
               ELSE [status |-> s, qr |-> IF post.what = "leave" THEN None ELSE view.qr]
    /\ fetch' = [fetch EXCEPT !["wa-status"] = IF post.page = "gone" THEN @ ELSE refetch]
    /\ off' = IF post.page # "shown" THEN off
              ELSE off \cup (IF s # sess[user].status THEN {"status"} ELSE {})
                       \cup (IF view'.qr # view.qr /\ sess[user].qr # None THEN {"qr"} ELSE {})
    /\ post' = NoPost
    /\ UNCHANGED <<user, page, cache, left, sess, wires, aside>>

StartAnswered ==
    post.at = "answered" /\ post.what = "connect" /\ Answer("connecting", Refetched("wa-status"))

LeaveAnswered ==
    post.at = "answered" /\ post.what = "leave" /\ Answer("disconnected", fetch["wa-status"])

PostFails ==
    /\ post.at = "sent" /\ Spend("network")
    /\ post' = NoPost
    /\ UNCHANGED <<user, page, cache, fetch, sess, view, wires, aside, off>>

PostStep == StartServed \/ LeaveServed \/ LeaveTold \/ StartAnswered \/ LeaveAnswered

TenantStep(t) == Reconnects(t) \/ CodeComes(t) \/ CodeEncoded(t) \/ Opens(t) \/ Closes(t) \/ Tells(t)

ConnectStep ==
    \/ \E t \in Tenants : TenantStep(t)
    \/ \E w \in {"main", "side"} : Dials(w) \/ Drops(w) \/ Hear(w)
    \/ Polls("wa-status") /\ UNCHANGED connectVars
    \/ (Fails("wa-status") \/ Denied("wa-status")) /\ UNCHANGED connectVars
    \/ StatusServed \/ StatusArrives \/ Restarts
    \/ ClickStart \/ ClickLeave \/ PostStep \/ PostFails
=============================================================================
