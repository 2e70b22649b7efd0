------------------------- MODULE WhatsAppSession -------------------------
(* WhatsAppService for one tenant: the entry of the socket map, connect() await by await, the  *)
(* handler of connection.update, the reconnect timer, disconnect(), the start of the process,  *)
(* and the credentials BaileysAuthAdapter stores.                                               *)
EXTENDS FiniteSets, Integers

CONSTANTS
  Sockets,        \* sockets that may be alive, or in a handler, at once
  Identities,     \* key pairs that may be stored or in memory at once
  Calls,          \* connect() invocations that may be under way at once
  MaxAttempts,    \* WA_MAX_RECONNECT_ATTEMPTS
  MaxBoots,       \* bound on restarts of the process
  Stimuli,        \* what the environment and the users may do
  None

ASSUME SessionBounds == MaxAttempts \in Nat \ {0} /\ MaxBoots \in Nat
ASSUME SessionStimuli ==
  Stimuli \subseteq {"lost", "logout", "replaced", "connect", "disconnect", "database", "early"}
ASSUME SessionNone == None \notin Sockets /\ None \notin Identities

VARIABLES
  entry,    \* sockets.get(tenantId): the socket of the map's entry, or None
  socks,    \* sockets with the entry object and the handler that close over each
  calls,    \* connect() invocations
  leave,    \* disconnect()
  stored,   \* WhatsAppSession.encryptedCreds
  dead,     \* identities that WhatsApp has unlinked
  seen,     \* history since the process started: "overlap", "deaf", "late", "failed", "replaced"
  boots     \* restarts so far

vars == <<entry, socks, calls, leave, stored, dead, seen, boots>>

NoCreds == [id |-> None, linked |-> FALSE]
Creds == [id: Identities, linked: BOOLEAN] \union {NoCreds}

(* A closed socket nobody refers to. *)
NoSocket == [at |-> "closed", on |-> FALSE, status |-> "disconnected", tries |-> 0,
             task |-> "none", reason |-> "none", save |-> FALSE, creds |-> NoCreds]
Idle == [pc |-> "idle", creds |-> NoCreds, sock |-> None]
Staying == [pc |-> "idle", target |-> None]

Live(s) == socks[s].at \in {"opening", "open"}
Quiet(s) == ~Live(s) /\ socks[s].task = "none" /\ ~socks[s].save
Gone(s) == ~Live(s) /\ socks[s].task = "none" /\ entry # s

(* getStatus: the entry's status, "disconnected" without an entry. *)
Status == IF entry = None THEN "disconnected" ELSE socks[entry].status

(* Credentials WhatsApp accepts are stored. *)
Linked == stored.linked /\ stored.id \notin dead

(* A socket object and a key pair nothing refers to any more stand for new ones. *)
FreeSockets == {s \in Sockets : Quiet(s) /\ s \notin {entry, leave.target}
                                /\ \A c \in Calls : calls[c].sock # s}
FreeIdentities == Identities \ ({stored.id} \union {calls[c].creds.id : c \in Calls}
                                \union {socks[s].creds.id : s \in {t \in Sockets : ~Quiet(t)}})

(* Start of the process: onModuleInit connects a tenant whose credentials are stored. *)
Started(creds) ==
  IF creds.id = None THEN {[c \in Calls |-> Idle]}
  ELSE {[c \in Calls |-> IF c = first THEN [Idle EXCEPT !.pc = "load"] ELSE Idle] : first \in Calls}

Init ==
  /\ entry = None /\ leave = Staying /\ dead = {} /\ seen = {} /\ boots = 0
  /\ socks = [s \in Sockets |-> NoSocket]
  /\ stored \in {NoCreds} \union [id: Identities, linked: {TRUE}]
  /\ calls \in Started(stored)

---------------------------------------------------------------------------
(* connect() *)

Refused == Status \in {"connecting", "connected"}

(* Another connect(), a handler or a timer of the tenant is under way, or a socket is alive. *)
Busy == \/ \E c \in Calls : calls[c].pc # "idle"
        \/ \E s \in Sockets : Live(s) \/ socks[s].task # "none"

Request(c) ==
  /\ "connect" \in Stimuli /\ calls[c].pc = "idle" /\ ~Refused
  /\ calls' = [calls EXCEPT ![c].pc = "load"]
  /\ seen' = IF Busy THEN seen \union {"overlap"} ELSE seen
  /\ UNCHANGED <<entry, socks, leave, stored, dead, boots>>

Load(c) ==
  /\ calls[c].pc = "load"
  /\ \/ /\ stored.id # None
        /\ calls' = [calls EXCEPT ![c].pc = "version", ![c].creds = stored]
        /\ UNCHANGED dead
     \/ /\ stored.id = None
        /\ \E i \in FreeIdentities :
             /\ calls' = [calls EXCEPT ![c].pc = "persist",
                                       ![c].creds = [id |-> i, linked |-> FALSE]]
             /\ dead' = dead \ {i}
  /\ UNCHANGED <<entry, socks, leave, stored, seen, boots>>

Persist(c) ==
  /\ calls[c].pc = "persist"
  /\ stored' = calls[c].creds
  /\ calls' = [calls EXCEPT ![c].pc = "version"]
  /\ UNCHANGED <<entry, socks, leave, dead, seen, boots>>

\* Mutant: the entry says so only when updateStatus has returned.
NotYet(c) == [NoSocket EXCEPT !.at = "opening", !.creds = calls[c].creds]

NewSocket(c) == [NoSocket EXCEPT !.at = "opening", !.status = "connecting", !.creds = calls[c].creds]

(* makeWASocket and sockets.set: nothing looks at the map again. *)
Create(c) ==
  /\ calls[c].pc = "version"
  /\ \E s \in FreeSockets :
       /\ socks' = [socks EXCEPT ![s] = NewSocket(c)]
       /\ entry' = s
       /\ calls' = [calls EXCEPT ![c].pc = "status", ![c].sock = s]
  /\ UNCHANGED <<leave, stored, dead, seen, boots>>

(* The listeners are attached once updateStatus has returned. *)
Listen(c) ==
  /\ calls[c].pc = "status"
  /\ socks' = [socks EXCEPT ![calls[c].sock].on = TRUE]
  /\ calls' = [calls EXCEPT ![c] = Idle]
  /\ UNCHANGED <<entry, leave, stored, dead, seen, boots>>

CallFails(c) ==
  /\ "database" \in Stimuli /\ calls[c].pc \in {"load", "persist", "status"}
  /\ seen' = seen \union {IF calls[c].pc = "status" THEN "deaf" ELSE "failed"}
  /\ calls' = [calls EXCEPT ![c] = Idle]
  /\ UNCHANGED <<entry, socks, leave, stored, dead, boots>>

CallStep(c) == Load(c) \/ Persist(c) \/ Create(c) \/ Listen(c)

---------------------------------------------------------------------------
(* The socket and its handlers *)

Scanned(s) ==
  [socks[s] EXCEPT !.creds = [id |-> socks[s].creds.id, linked |-> TRUE], !.save = TRUE]

(* The user scans the code: creds.update, and saveCreds starts. *)
Scan(s) ==
  /\ socks[s].at = "opening" /\ socks[s].on /\ ~socks[s].creds.linked
  /\ socks' = [socks EXCEPT ![s] = Scanned(s)]
  /\ UNCHANGED <<entry, calls, leave, stored, dead, seen, boots>>

(* What a socket nobody refers to any more knew is forgotten. *)
AfterSave(s) ==
  [socks[s] EXCEPT !.save = FALSE, !.creds = IF Gone(s) THEN NoCreds ELSE socks[s].creds]

SaveCreds(s) ==
  /\ socks[s].save
  /\ stored' = socks[s].creds
  /\ socks' = [socks EXCEPT ![s] = AfterSave(s)]
  /\ seen' = IF Live(s) THEN seen ELSE seen \union {"late"}
  /\ UNCHANGED <<entry, calls, leave, dead, boots>>

(* connect() is still waiting for updateStatus and has attached no listener. *)
Early(s) == \E c \in Calls : calls[c].sock = s

Heard(s) == IF socks[s].on THEN seen ELSE seen \union {"deaf"}

Opened(s) ==
  [socks[s] EXCEPT !.at = "open", !.tries = 0,
                   !.status = IF socks[s].on THEN "connected" ELSE socks[s].status]

Open(s) ==
  /\ socks[s].at = "opening" /\ socks[s].creds.linked /\ socks[s].creds.id \notin dead
  /\ Early(s) => "early" \in Stimuli
  /\ socks' = [socks EXCEPT ![s] = Opened(s)]
  /\ seen' = Heard(s)
  /\ UNCHANGED <<entry, calls, leave, stored, dead, boots>>

\* Mutants: the reason becomes the status; the status is set by updateStatus alone.
ReasonAsStatus(s, reason) ==
  [socks[s] EXCEPT !.at = "closed", !.on = FALSE, !.status = reason, !.task = "saving", !.reason = reason]

StatusLater(s, reason) ==
  [socks[s] EXCEPT !.at = "closed", !.on = FALSE, !.task = "saving", !.reason = reason]

(* The synchronous part of the close handler, if it is attached. *)
Closed(s, reason) ==
  IF socks[s].on
    THEN [socks[s] EXCEPT !.at = "closed", !.on = FALSE, !.status = "disconnected",
                          !.task = "saving", !.reason = reason]
    ELSE [socks[s] EXCEPT !.at = "closed"]

Rival(s) == \E t \in Sockets \ {s} : socks[t].at = "open" /\ socks[t].creds.id = socks[s].creds.id

(* An unlinked device is told so; a second login with the same credentials replaces the first. *)
Reasons(s) ==
  IF socks[s].creds.id \in dead
    THEN {"logout"} \union (Stimuli \intersect {"lost"})
    ELSE (Stimuli \intersect {"lost", "logout", "replaced"})
         \union (IF Rival(s) THEN {"replaced"} ELSE {})

Close(s, reason) ==
  /\ Live(s) /\ reason \in Reasons(s) /\ (Early(s) => "early" \in Stimuli)
  /\ socks' = [socks EXCEPT ![s] = Closed(s, reason)]
  /\ dead' = IF reason = "logout" THEN dead \union {socks[s].creds.id} ELSE dead
  /\ seen' = Heard(s)
  /\ UNCHANGED <<entry, calls, leave, stored, boots>>

\* Mutant: setInterval instead of setTimeout.
StillTicks(s) == IF socks[s].task = "timer" THEN socks[s] ELSE NoSocket

(* The handler is over and the map has dropped its entry: at most a save of credentials is left. *)
Over(s) == IF socks[s].save THEN [NoSocket EXCEPT !.save = TRUE, !.creds = socks[s].creds]
                            ELSE NoSocket

\* Mutants: only a logout is acted on; the wipe is missing.
NoTimer(s) ==
  [socks[s] EXCEPT !.task = IF socks[s].reason = "logout" THEN "wiping" ELSE "none"]

NoWipe(s) ==
  [socks[s] EXCEPT !.task = IF socks[s].reason = "lost" THEN "timer" ELSE "forgetting"]

(* After await updateStatus("disconnected"). *)
AfterClose(s) ==
  LET tries == socks[s].tries + 1
  IN  CASE socks[s].reason = "logout" -> [socks[s] EXCEPT !.task = "wiping"]
        [] socks[s].reason = "replaced" -> Over(s)
        [] OTHER -> [socks[s] EXCEPT !.tries = tries,
                                     !.task = IF tries >= MaxAttempts THEN "wiping" ELSE "timer"]

Saved(s) ==
  /\ socks[s].task = "saving"
  /\ socks' = [socks EXCEPT ![s] = AfterClose(s)]
  /\ IF socks[s].reason = "replaced"
       THEN entry' = None /\ seen' = seen \union {"replaced"}
       ELSE UNCHANGED <<entry, seen>>
  /\ UNCHANGED <<calls, leave, stored, dead, boots>>

Wiped(s) ==
  /\ socks[s].task = "wiping"
  /\ stored' = NoCreds
  /\ socks' = [socks EXCEPT ![s].task = "forgetting"]
  /\ UNCHANGED <<entry, calls, leave, dead, seen, boots>>

(* sockets.delete(tenantId), whichever socket the entry now holds. *)
Forget(s) ==
  /\ socks[s].task = "forgetting"
  /\ entry' = None
  /\ socks' = [socks EXCEPT ![s] = Over(s)]
  /\ UNCHANGED <<calls, leave, stored, dead, seen, boots>>

TimerFires(s, c) ==
  /\ socks[s].task = "timer" /\ calls[c].pc = "idle"
  /\ entry' = None
  /\ calls' = [calls EXCEPT ![c].pc = "load"]
  /\ socks' = [socks EXCEPT ![s] = Over(s)]
  /\ UNCHANGED <<leave, stored, dead, seen, boots>>

HandlerStep(s) == SaveCreds(s) \/ Saved(s) \/ Wiped(s) \/ Forget(s) \/ \E c \in Calls : TimerFires(s, c)

---------------------------------------------------------------------------
(* disconnect() *)

Leave ==
  /\ "disconnect" \in Stimuli /\ leave.pc = "idle"
  /\ leave' = IF entry = None THEN [pc |-> "wipe", target |-> None]
                              ELSE [pc |-> "logout", target |-> entry]
  /\ UNCHANGED <<entry, socks, calls, stored, dead, seen, boots>>

(* logout() closes the socket as logged out; when it throws, end(undefined) closes it as lost. *)
LeaveClose ==
  /\ leave.pc = "logout"
  /\ \/ /\ ~Live(leave.target)
        /\ UNCHANGED <<socks, dead>>
     \/ /\ Live(leave.target)
        /\ \E reason \in {"logout", "lost"} :
             /\ socks' = [socks EXCEPT ![leave.target] = Closed(leave.target, reason)]
             /\ dead' = IF reason = "logout" THEN dead \union {socks[leave.target].creds.id} ELSE dead
  /\ entry' = None
  /\ leave' = [pc |-> "wipe", target |-> None]
  /\ seen' = IF entry \in {leave.target, None} THEN seen ELSE seen \union {"overlap"}
  /\ UNCHANGED <<calls, stored, boots>>

LeaveWipe ==
  /\ leave.pc = "wipe"
  /\ stored' = NoCreds
  /\ leave' = Staying
  /\ UNCHANGED <<entry, socks, calls, dead, seen, boots>>

LeaveFails ==
  /\ "database" \in Stimuli /\ leave.pc = "wipe"
  /\ leave' = Staying
  /\ seen' = seen \union {"failed"}
  /\ UNCHANGED <<entry, socks, calls, stored, dead, boots>>

(* The process ends (deployment, crash, or a rejection nobody handles) and starts again. *)
Boot ==
  /\ boots < MaxBoots
  /\ boots' = boots + 1
  /\ entry' = None /\ leave' = Staying /\ seen' = {}
  /\ socks' = [s \in Sockets |-> NoSocket]
  /\ calls' \in Started(stored)
  /\ UNCHANGED <<stored, dead>>

---------------------------------------------------------------------------
Next ==
  \/ \E c \in Calls : Request(c) \/ CallStep(c) \/ CallFails(c)
  \/ \E s \in Sockets : Scan(s) \/ Open(s) \/ HandlerStep(s)
                        \/ \E r \in {"lost", "logout", "replaced"} : Close(s, r)
  \/ Leave \/ LeaveClose \/ LeaveWipe \/ LeaveFails \/ Boot

Spec == Init /\ [][Next]_vars

(* The event loop runs what is ready, timers fire, and a link that is tried again and again opens. *)
FairSpec ==
  /\ Spec
  /\ \A c \in Calls : WF_vars(CallStep(c))
  /\ \A s \in Sockets : WF_vars(HandlerStep(s))
  /\ WF_vars(LeaveClose) /\ WF_vars(LeaveWipe)
  /\ SF_vars(\E s \in Sockets : Open(s))

---------------------------------------------------------------------------
Statuses == {"connecting", "connected", "disconnected"}

SocketRecord ==
  [at: {"opening", "open", "closed"}, on: BOOLEAN, status: Statuses, tries: 0..MaxAttempts,
   save: BOOLEAN, creds: Creds, task: {"none", "saving", "wiping", "forgetting", "timer"},
   reason: {"none", "lost", "logout", "replaced"}]

CallRecord ==
  [pc: {"idle", "load", "persist", "version", "status"}, creds: Creds, sock: Sockets \union {None}]

(* Types; in particular an entry has one of the three statuses the API knows. *)
TypeOK ==
  /\ entry \in Sockets \union {None} /\ stored \in Creds /\ dead \subseteq Identities
  /\ socks \in [Sockets -> SocketRecord] /\ calls \in [Calls -> CallRecord]
  /\ leave \in [pc: {"idle", "logout", "wipe"}, target: Sockets \union {None}]
  /\ seen \subseteq {"overlap", "deaf", "late", "failed", "replaced"} /\ boots \in 0..MaxBoots

(* What GET /whatsapp/status and the send worker are told is what the socket of the entry is. *)
StatusIsTrue ==
  "deaf" \notin seen /\ entry # None =>
    /\ Status = "connected" <=> socks[entry].at = "open"
    /\ Status = "connecting" <=> socks[entry].at = "opening"

(* Unless two connect() or a connect() and a handler overlap, the only live socket of the tenant *)
(* is the one the map knows.                                                                     *)
LiveIsCurrent ==
  "overlap" \notin seen => \A s \in Sockets : Live(s) => entry = s

(* An entry is never a dead end: connect() refuses a connecting or connected one, so it must be  *)
(* a socket whose events are heard, and nothing else replaces a disconnected one.                *)
NeverStuck ==
  "deaf" \notin seen /\ entry # None =>
    IF Refused THEN Live(entry) /\ (socks[entry].on \/ Early(entry))
               ELSE socks[entry].task # "none"

(* What the console and the send worker see of the session is a SessionStatus. *)
Public == INSTANCE SessionStatus WITH status <- Status
ImplementsSessionStatus == Public!Spec

(* Credentials WhatsApp has unlinked do not stay: whoever still holds them ends in a wipe. *)
UnlinkedIsWiped ==
  seen \intersect {"deaf", "late", "failed"} = {} /\ stored.id \in dead =>
    \/ leave.pc = "wipe"
    \/ \E s \in Sockets : socks[s].task # "none" \/ (Live(s) /\ socks[s].creds.id = stored.id)
    \/ \E c \in Calls : calls[c].pc = "load" \/ calls[c].creds.id = stored.id

(* Linked credentials lead to a connected session, at start and after every loss, unless the user *)
(* leaves, WhatsApp unlinks the device, another login replaces it or the database fails.           *)
LinkedConnects ==
  Linked ~> Status = "connected" \/ ~Linked \/ leave.pc # "idle" \/ seen # {}

==========================================================================
