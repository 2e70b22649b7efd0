----------------------- MODULE WhatsAppSessionProofs -----------------------
(***************************************************************************)
(* Theorems about WhatsAppSession, for any number of sockets, key pairs    *)
(* and concurrent calls of connect().                                      *)
(***************************************************************************)
EXTENDS WhatsAppSession, TLAPS

\* A call that has made its socket is the only one to hold it, and has not attached the listeners.
CallsOK ==
  \A c \in Calls :
    /\ calls[c].pc \in {"persist", "version", "status"} => calls[c].creds.id \in Identities
    /\ calls[c].pc = "status" => /\ calls[c].sock \in Sockets
                                 /\ ~socks[calls[c].sock].on
                                 /\ socks[calls[c].sock].task = "none"
    /\ calls[c].pc # "status" => calls[c].sock = None
    /\ \A d \in Calls \ {c} : calls[c].pc = "status" => calls[d].sock # calls[c].sock

\* A socket is live, or in its close handler, or neither; its counter is at zero until the
\* close handler raises it.
SocksOK ==
  \A s \in Sockets :
    /\ Live(s) => socks[s].task = "none" /\ socks[s].tries = 0 /\ socks[s].creds.id \in Identities
    /\ socks[s].at = "opening" => socks[s].status = "connecting"
    /\ socks[s].task = "saving" => socks[s].tries = 0
    /\ socks[s].task # "none" => socks[s].status = "disconnected"

LeaveOK == leave.pc = "logout" => leave.target \in Sockets

Active(s) == Live(s) \/ socks[s].task # "none"

\* Without an overlap there is one thing under way: a call that has no socket yet, a call with
\* the socket it made, a live socket, or a close handler.
OneThread ==
  "overlap" \notin seen =>
    /\ \A c, d \in Calls : calls[c].pc # "idle" /\ calls[d].pc # "idle" => c = d
    /\ \A s, t \in Sockets : Active(s) /\ Active(t) => s = t
    /\ \A c \in Calls, s \in Sockets :
         calls[c].pc # "idle" /\ Active(s) => calls[c].pc = "status" /\ calls[c].sock = s

Core == TypeOK /\ CallsOK /\ SocksOK /\ LeaveOK

\* Unlinked credentials are held by a live socket, by a handler or a timer that ends in a wipe or
\* a new connect(), or by a call that will make a socket of them.
Holds(s) ==
  \/ Live(s) /\ socks[s].creds.id = stored.id
  \/ socks[s].task \in {"wiping", "timer"}
  \/ socks[s].task = "saving" /\ socks[s].reason # "replaced"

Reads(c) ==
  \/ calls[c].pc = "load"
  \/ calls[c].pc \in {"persist", "version"} /\ calls[c].creds.id = stored.id

Held == leave.pc = "wipe" \/ (\E s \in Sockets : Holds(s)) \/ (\E c \in Calls : Reads(c))

WipeComes == seen \intersect {"deaf", "late", "failed"} = {} /\ stored.id \in dead => Held

IInv == Core /\ OneThread /\ LiveIsCurrent /\ StatusIsTrue /\ NeverStuck /\ WipeComes

----------------------------------------------------------------------------

\* The empty credentials are credentials.
LEMMA NoCredsOK == NoCreds \in Creds BY DEF Creds

\* A socket nobody refers to is a socket.
LEMMA NoSocketOK == NoSocket \in SocketRecord
  BY NoCredsOK, SessionBounds DEF SocketRecord, NoSocket, Statuses

\* Every step keeps the types, what calls know of their sockets, and what sockets know of their
\* handlers.
LEMMA CoreNext == Core /\ [Next]_vars => Core'
<1> SUFFICES ASSUME Core, [Next]_vars PROVE Core' OBVIOUS
<1> USE SessionBounds, SessionNone DEF Core
<1>1. ASSUME NEW c \in Calls, Request(c) PROVE Core'
  <2>1. TypeOK'
    <3>1. calls'[c] \in CallRecord BY <1>1 DEF TypeOK, CallRecord, Request
    <3> QED BY <3>1, <1>1 DEF TypeOK, Request
  <2>2. CallsOK'
    BY <1>1 DEF CallsOK, Request
  <2>3. SocksOK'
    BY <1>1 DEF SocksOK, Live, Request
  <2>4. LeaveOK' BY <1>1 DEF LeaveOK, Request
  <2> QED BY <2>1, <2>2, <2>3, <2>4
<1>2. ASSUME NEW c \in Calls, Load(c) PROVE Core'
  <2>1. TypeOK'
    <3>1. CASE stored.id # None
      <4>1. [calls[c] EXCEPT !.pc = "version", !.creds = stored] \in CallRecord
        BY DEF TypeOK, CallRecord
      <4> QED BY <4>1, <3>1, <1>2 DEF TypeOK, Load
    <3>2. CASE stored.id = None
      <4>1. PICK i \in Identities : /\ calls' = [calls EXCEPT ![c].pc = "persist", ![c].creds = [id |-> i, linked |-> FALSE]]
                                    /\ dead' = dead \ {i}
        BY <3>2, <1>2 DEF Load, FreeIdentities
      <4>2. [calls[c] EXCEPT !.pc = "persist", !.creds = [id |-> i, linked |-> FALSE]] \in CallRecord
        BY DEF TypeOK, CallRecord, Creds
      <4> QED BY <4>1, <4>2, <1>2 DEF TypeOK, Load
    <3> QED BY <3>1, <3>2
  <2>2. CallsOK'
    <3>1. /\ calls'[c].sock = calls[c].sock /\ calls'[c].pc # "status" /\ socks' = socks
          /\ calls'[c].creds.id \in Identities
          /\ \A d \in Calls \ {c} : calls'[d] = calls[d]
      BY <1>2 DEF TypeOK, Load, FreeIdentities, CallRecord, Creds, NoCreds
    <3> QED BY <3>1, <1>2 DEF CallsOK, Load
  <2>3. SocksOK'
    BY <1>2 DEF SocksOK, Live, Load
  <2>4. LeaveOK' BY <1>2 DEF LeaveOK, Load
  <2> QED BY <2>1, <2>2, <2>3, <2>4
<1>3. ASSUME NEW c \in Calls, Persist(c) PROVE Core'
  <2>1. TypeOK'
    <3>1. calls'[c] \in CallRecord BY <1>3 DEF TypeOK, CallRecord, Persist
    <3> QED BY <3>1, <1>3 DEF TypeOK, Persist, CallRecord
  <2>2. CallsOK'
    BY <1>3 DEF CallsOK, Persist
  <2>3. SocksOK'
    BY <1>3 DEF SocksOK, Live, Persist
  <2>4. LeaveOK' BY <1>3 DEF LeaveOK, Persist
  <2> QED BY <2>1, <2>2, <2>3, <2>4
<1>4. ASSUME NEW c \in Calls, Create(c) PROVE Core'
  <2>1. TypeOK'
    <3>1. PICK s \in Sockets : /\ socks' = [socks EXCEPT ![s] = NewSocket(c)] /\ entry' = s
                               /\ calls' = [calls EXCEPT ![c].pc = "status", ![c].sock = s]
      BY <1>4 DEF Create, FreeSockets
    <3>2. NewSocket(c) \in SocketRecord
      BY NoSocketOK DEF TypeOK, NewSocket, SocketRecord, CallRecord, Statuses
    <3>3. [calls[c] EXCEPT !.pc = "status", !.sock = s] \in CallRecord BY DEF TypeOK, CallRecord
    <3> QED BY <3>1, <3>2, <3>3, <1>4 DEF TypeOK, Create
  <2>2. CallsOK'
    BY <1>4 DEF TypeOK, CallsOK, Create, FreeSockets, NewSocket, NoSocket
  <2>3. SocksOK'
    BY <1>4 DEF CallsOK, SocksOK, Live, Create, NewSocket, NoSocket
  <2>4. LeaveOK' BY <1>4 DEF LeaveOK, Create
  <2> QED BY <2>1, <2>2, <2>3, <2>4
<1>5. ASSUME NEW c \in Calls, Listen(c) PROVE Core'
  <2>1. TypeOK'
    <3>1. calls'[c] \in CallRecord
      <4>1. calls'[c] = Idle BY <1>5 DEF TypeOK, Listen
      <4>2. calls[c] \in CallRecord BY <1>5 DEF TypeOK
      <4>3. Idle \in CallRecord BY NoCredsOK, NoSocketOK, <4>2 DEF CallRecord, Idle
      <4> QED BY <4>1, <4>3
    <3>2. socks'[calls[c].sock] \in SocketRecord
      <4>1. socks'[calls[c].sock] = [socks[calls[c].sock] EXCEPT !.on = TRUE]
        BY <1>5 DEF TypeOK, Listen, CallsOK
      <4>2. socks[calls[c].sock] \in SocketRecord BY <1>5 DEF TypeOK, Listen, CallsOK
      <4>3. [socks[calls[c].sock] EXCEPT !.on = TRUE] \in SocketRecord
        BY NoCredsOK, NoSocketOK, <4>2 DEF SocketRecord
      <4> QED BY <4>1, <4>3
    <3> QED BY <3>1, <3>2, <1>5 DEF TypeOK, Listen
  <2>2. CallsOK'
    BY <1>5 DEF TypeOK, CallsOK, Listen, Idle
  <2>3. SocksOK'
    BY <1>5 DEF SocksOK, Live, Listen
  <2>4. LeaveOK' BY <1>5 DEF LeaveOK, Listen
  <2> QED BY <2>1, <2>2, <2>3, <2>4
<1>6. ASSUME NEW c \in Calls, CallFails(c) PROVE Core'
  <2>1. TypeOK'
    <3>1. calls'[c] \in CallRecord
      <4>1. calls'[c] = Idle BY <1>6 DEF TypeOK, CallFails
      <4>2. calls[c] \in CallRecord BY <1>6 DEF TypeOK
      <4>3. Idle \in CallRecord BY NoCredsOK, NoSocketOK, <4>2 DEF CallRecord, Idle
      <4> QED BY <4>1, <4>3
    <3> QED BY <3>1, <1>6 DEF TypeOK, CallFails
  <2>2. CallsOK'
    BY <1>6 DEF CallsOK, CallFails, Idle
  <2>3. SocksOK'
    BY <1>6 DEF SocksOK, Live, CallFails
  <2>4. LeaveOK' BY <1>6 DEF LeaveOK, CallFails
  <2> QED BY <2>1, <2>2, <2>3, <2>4
<1>7. ASSUME NEW s \in Sockets, Scan(s) PROVE Core'
  <2>1. TypeOK'
    <3>1. socks'[s] \in SocketRecord
      <4>1. socks'[s] = Scanned(s) BY <1>7 DEF TypeOK, Scan
      <4>2. socks[s] \in SocketRecord BY <1>7 DEF TypeOK
      <4>3. Scanned(s) \in SocketRecord
        BY NoCredsOK, NoSocketOK, <4>2, <1>7 DEF SocketRecord, Scanned, SocksOK, Live, Scan, Creds
      <4> QED BY <4>1, <4>3
    <3> QED BY <3>1, <1>7 DEF TypeOK, Scan
  <2>2. CallsOK'
    BY <1>7 DEF CallsOK, Scan
  <2>3. SocksOK'
    BY <1>7 DEF SocksOK, Live, Scan, Scanned
  <2>4. LeaveOK' BY <1>7 DEF LeaveOK, Scan
  <2> QED BY <2>1, <2>2, <2>3, <2>4
<1>8. ASSUME NEW s \in Sockets, Open(s) PROVE Core'
  <2>1. TypeOK'
    <3>1. socks'[s] \in SocketRecord
      <4>1. socks'[s] = Opened(s) BY <1>8 DEF TypeOK, Open
      <4>2. socks[s] \in SocketRecord BY <1>8 DEF TypeOK
      <4>3. Opened(s) \in SocketRecord
        <5> 0 \in 0..MaxAttempts BY SessionBounds
        <5>1. CASE socks[s].on BY NoSocketOK, <4>2, <5>1 DEF SocketRecord, Statuses, Opened
        <5>2. CASE ~socks[s].on BY NoSocketOK, <4>2, <5>2 DEF SocketRecord, Opened
        <5> QED BY <5>1, <5>2
      <4> QED BY <4>1, <4>3
    <3> QED BY <3>1, <1>8 DEF TypeOK, Open, Heard
  <2>2. CallsOK'
    BY <1>8 DEF CallsOK, Open, Opened
  <2>3. SocksOK'
    BY <1>8 DEF SocksOK, Live, Open, Opened
  <2>4. LeaveOK' BY <1>8 DEF LeaveOK, Open
  <2> QED BY <2>1, <2>2, <2>3, <2>4
<1>9. ASSUME NEW s \in Sockets, SaveCreds(s) PROVE Core'
  <2>1. TypeOK'
    <3>1. socks'[s] \in SocketRecord
      <4>1. socks'[s] = AfterSave(s) BY <1>9 DEF TypeOK, SaveCreds
      <4>2. socks[s] \in SocketRecord BY <1>9 DEF TypeOK
      <4>3. AfterSave(s) \in SocketRecord
        BY NoCredsOK, NoSocketOK, <4>2 DEF SocketRecord, AfterSave
      <4> QED BY <4>1, <4>3
    <3> QED BY <3>1, <1>9 DEF TypeOK, SaveCreds, SocketRecord
  <2>2. CallsOK'
    BY <1>9 DEF CallsOK, SaveCreds, AfterSave
  <2>3. SocksOK'
    BY <1>9 DEF SocksOK, Live, SaveCreds, AfterSave, Gone
  <2>4. LeaveOK' BY <1>9 DEF LeaveOK, SaveCreds
  <2> QED BY <2>1, <2>2, <2>3, <2>4
<1>10. ASSUME NEW s \in Sockets, Saved(s) PROVE Core'
  <2>1. TypeOK'
    <3>1. socks'[s] \in SocketRecord
      <4>1. socks'[s] = AfterClose(s) BY <1>10 DEF TypeOK, Saved
      <4>2. socks[s] \in SocketRecord BY <1>10 DEF TypeOK
      <4>3. AfterClose(s) \in SocketRecord
        <5>0. socks[s].tries = 0 BY <1>10 DEF Saved, SocksOK
        <5> socks[s].tries + 1 \in 0..MaxAttempts BY <5>0, SessionBounds
        <5>1. CASE socks[s].reason = "logout"
          BY NoSocketOK, <4>2, <5>1 DEF SocketRecord, AfterClose
        <5>2. CASE socks[s].reason = "replaced"
          BY NoSocketOK, <4>2, <5>2 DEF SocketRecord, AfterClose, Over
        <5>3. CASE socks[s].reason \notin {"logout", "replaced"}
          BY NoSocketOK, <4>2, <5>3 DEF SocketRecord, AfterClose
        <5> QED BY <5>1, <5>2, <5>3
      <4> QED BY <4>1, <4>3
    <3> QED BY <3>1, <1>10 DEF TypeOK, Saved
  <2>2. CallsOK'
    BY <1>10 DEF CallsOK, Saved
  <2>3. SocksOK'
    BY <1>10 DEF SocksOK, Live, Saved, AfterClose, Over, NoSocket
  <2>4. LeaveOK' BY <1>10 DEF LeaveOK, Saved
  <2> QED BY <2>1, <2>2, <2>3, <2>4
<1>11. ASSUME NEW s \in Sockets, Wiped(s) PROVE Core'
  <2>1. TypeOK'
    <3>1. socks'[s] \in SocketRecord
      <4>1. socks'[s] = [socks[s] EXCEPT !.task = "forgetting"] BY <1>11 DEF TypeOK, Wiped
      <4>2. socks[s] \in SocketRecord BY <1>11 DEF TypeOK
      <4>3. [socks[s] EXCEPT !.task = "forgetting"] \in SocketRecord
        BY NoCredsOK, NoSocketOK, <4>2 DEF SocketRecord
      <4> QED BY <4>1, <4>3
    <3> QED BY <3>1, <1>11 DEF TypeOK, Wiped, Creds
  <2>2. CallsOK'
    BY <1>11 DEF CallsOK, Wiped
  <2>3. SocksOK'
    BY <1>11 DEF SocksOK, Live, Wiped
  <2>4. LeaveOK' BY <1>11 DEF LeaveOK, Wiped
  <2> QED BY <2>1, <2>2, <2>3, <2>4
<1>12. ASSUME NEW s \in Sockets, Forget(s) PROVE Core'
  <2>1. TypeOK'
    <3>1. socks'[s] \in SocketRecord
      <4>1. socks'[s] = Over(s) BY <1>12 DEF TypeOK, Forget
      <4>2. socks[s] \in SocketRecord BY <1>12 DEF TypeOK
      <4>3. Over(s) \in SocketRecord BY NoCredsOK, NoSocketOK, <4>2 DEF SocketRecord, Over
      <4> QED BY <4>1, <4>3
    <3> QED BY <3>1, <1>12 DEF TypeOK, Forget
  <2>2. CallsOK'
    BY <1>12 DEF CallsOK, Forget
  <2>3. SocksOK'
    BY <1>12 DEF SocksOK, Live, Forget, Over, NoSocket
  <2>4. LeaveOK' BY <1>12 DEF LeaveOK, Forget
  <2> QED BY <2>1, <2>2, <2>3, <2>4
<1>13. ASSUME NEW s \in Sockets, NEW c \in Calls, TimerFires(s, c) PROVE Core'
  <2>1. TypeOK'
    <3>1. socks'[s] \in SocketRecord
      <4>1. socks'[s] = Over(s) BY <1>13 DEF TypeOK, TimerFires
      <4>2. socks[s] \in SocketRecord BY <1>13 DEF TypeOK
      <4>3. Over(s) \in SocketRecord BY NoCredsOK, NoSocketOK, <4>2 DEF SocketRecord, Over
      <4> QED BY <4>1, <4>3
    <3>2. calls'[c] \in CallRecord BY <1>13 DEF TypeOK, CallRecord, TimerFires
    <3> QED BY <3>1, <3>2, <1>13 DEF TypeOK, TimerFires
  <2>2. CallsOK'
    BY <1>13 DEF CallsOK, TimerFires
  <2>3. SocksOK'
    BY <1>13 DEF SocksOK, Live, TimerFires, Over, NoSocket
  <2>4. LeaveOK' BY <1>13 DEF LeaveOK, TimerFires
  <2> QED BY <2>1, <2>2, <2>3, <2>4
<1>14. ASSUME NEW s \in Sockets, NEW r \in {"lost", "logout", "replaced"}, Close(s, r) PROVE Core'
  <2>1. TypeOK'
    <3>1. socks'[s] \in SocketRecord
      <4>1. socks'[s] = Closed(s, r) BY <1>14 DEF TypeOK, Close
      <4>2. socks[s] \in SocketRecord BY <1>14 DEF TypeOK
      <4>3. Closed(s, r) \in SocketRecord
        BY NoCredsOK, NoSocketOK, <4>2, <1>14 DEF SocketRecord, Statuses, Closed
      <4> QED BY <4>1, <4>3
    <3>2. dead' \subseteq Identities BY <1>14 DEF TypeOK, Close, SocksOK
    <3> QED BY <3>1, <3>2, <1>14 DEF TypeOK, Close, Heard
  <2>2. CallsOK'
    BY <1>14 DEF CallsOK, Close, Closed
  <2>3. SocksOK'
    BY <1>14 DEF SocksOK, Live, Close, Closed
  <2>4. LeaveOK' BY <1>14 DEF LeaveOK, Close
  <2> QED BY <2>1, <2>2, <2>3, <2>4
<1>15. ASSUME Leave PROVE Core'
  <2>1. TypeOK'
    BY <1>15 DEF TypeOK, Leave
  <2>2. CallsOK'
    BY <1>15 DEF CallsOK, Leave
  <2>3. SocksOK'
    BY <1>15 DEF SocksOK, Live, Leave
  <2>4. LeaveOK' BY <1>15 DEF TypeOK, LeaveOK, Leave
  <2> QED BY <2>1, <2>2, <2>3, <2>4
<1>16. ASSUME LeaveClose PROVE Core'
  <2>1. TypeOK'
    <3>1. leave.target \in Sockets /\ socks[leave.target] \in SocketRecord
      BY <1>16 DEF TypeOK, LeaveOK, LeaveClose
    <3>2. \A r \in {"logout", "lost"} : Closed(leave.target, r) \in SocketRecord
      BY <3>1 DEF Closed, SocketRecord, Statuses
    <3>3. socks' \in [Sockets -> SocketRecord] BY <3>2, <1>16 DEF TypeOK, LeaveClose
    <3>4. dead' \subseteq Identities BY <3>1, <1>16 DEF TypeOK, LeaveClose, SocksOK
    <3> QED BY <3>3, <3>4, <1>16 DEF TypeOK, LeaveClose
  <2>2. CallsOK'
    BY <1>16 DEF TypeOK, SocketRecord, CallsOK, LeaveClose, Closed
  <2>3. SocksOK'
    <3>1. CASE UNCHANGED socks BY <3>1 DEF SocksOK, Live
    <3>2. CASE Live(leave.target)
      <4>1. leave.target \in Sockets BY <1>16 DEF LeaveOK, LeaveClose
      <4>2. PICK r \in {"logout", "lost"} : socks' = [socks EXCEPT ![leave.target] = Closed(leave.target, r)]
        BY <3>2, <1>16 DEF LeaveClose
      <4> QED BY <3>2, <4>1, <4>2 DEF SocksOK, Live, Closed
    <3> QED BY <3>1, <3>2, <1>16 DEF LeaveClose
  <2>4. LeaveOK' BY <1>16 DEF LeaveOK, LeaveClose
  <2> QED BY <2>1, <2>2, <2>3, <2>4
<1>17. ASSUME LeaveWipe PROVE Core'
  <2>1. TypeOK'
    BY <1>17 DEF TypeOK, Creds, LeaveWipe, Staying
  <2>2. CallsOK'
    BY <1>17 DEF CallsOK, LeaveWipe
  <2>3. SocksOK'
    BY <1>17 DEF SocksOK, Live, LeaveWipe
  <2>4. LeaveOK' BY <1>17 DEF LeaveOK, LeaveWipe, Staying
  <2> QED BY <2>1, <2>2, <2>3, <2>4
<1>18. ASSUME LeaveFails PROVE Core'
  <2>1. TypeOK'
    BY <1>18 DEF TypeOK, LeaveFails, Staying
  <2>2. CallsOK'
    BY <1>18 DEF CallsOK, LeaveFails
  <2>3. SocksOK'
    BY <1>18 DEF SocksOK, Live, LeaveFails
  <2>4. LeaveOK' BY <1>18 DEF LeaveOK, LeaveFails, Staying
  <2> QED BY <2>1, <2>2, <2>3, <2>4
<1>19. ASSUME Boot PROVE Core'
  <2>1. TypeOK'
    BY <1>19 DEF TypeOK, SocketRecord, CallRecord, Statuses, Creds, Boot, Started, Staying, Idle,
                 NoSocket
  <2>2. CallsOK'
    BY <1>19 DEF CallsOK, Boot, Started, Idle
  <2>3. SocksOK'
    BY <1>19 DEF SocksOK, Live, Boot, NoSocket
  <2>4. LeaveOK' BY <1>19 DEF LeaveOK, Boot, Staying
  <2> QED BY <2>1, <2>2, <2>3, <2>4
<1>20. CASE UNCHANGED vars
  BY <1>20 DEF vars, TypeOK, CallsOK, SocksOK, LeaveOK, Live
<1> QED
  BY <1>1, <1>2, <1>3, <1>4, <1>5, <1>6, <1>7, <1>8, <1>9, <1>10, <1>11, <1>12, <1>13, <1>14,
     <1>15, <1>16, <1>17, <1>18, <1>19, <1>20 DEF Next, CallStep, HandlerStep
\* Every step that begins something beside what is under way is an overlap.
LEMMA ThreadNext == Core /\ OneThread /\ LiveIsCurrent /\ [Next]_vars => OneThread' /\ LiveIsCurrent'
<1> SUFFICES ASSUME Core, OneThread, LiveIsCurrent, [Next]_vars PROVE OneThread' /\ LiveIsCurrent' OBVIOUS
<1> USE SessionBounds, SessionNone
<1>1. ASSUME NEW c \in Calls, Request(c) PROVE OneThread' /\ LiveIsCurrent'
  <2>1. OneThread'
    BY <1>1 DEF Live, OneThread, Active, Request, Busy
  <2>2. LiveIsCurrent'
    BY <1>1 DEF Live, LiveIsCurrent, Request
  <2> QED BY <2>1, <2>2
<1>2. ASSUME NEW c \in Calls, Load(c) PROVE OneThread' /\ LiveIsCurrent'
  <2>1. OneThread'
    BY <1>2 DEF Core, TypeOK, Live, OneThread, Active, Load
  <2>2. LiveIsCurrent'
    BY <1>2 DEF Live, LiveIsCurrent, Load
  <2> QED BY <2>1, <2>2
<1>3. ASSUME NEW c \in Calls, Persist(c) PROVE OneThread' /\ LiveIsCurrent'
  <2>1. OneThread'
    BY <1>3 DEF Live, OneThread, Active, Persist
  <2>2. LiveIsCurrent'
    BY <1>3 DEF Live, LiveIsCurrent, Persist
  <2> QED BY <2>1, <2>2
<1>4. ASSUME NEW c \in Calls, Create(c) PROVE OneThread' /\ LiveIsCurrent'
  <2>1. OneThread'
    BY <1>4 DEF Core, TypeOK, Live, OneThread, Active, Create
  <2>2. LiveIsCurrent'
    BY <1>4 DEF Live, OneThread, Active, LiveIsCurrent, Create
  <2> QED BY <2>1, <2>2
<1>5. ASSUME NEW c \in Calls, Listen(c) PROVE OneThread' /\ LiveIsCurrent'
  <2>1. OneThread'
    BY <1>5 DEF Live, OneThread, Active, Listen, Idle
  <2>2. LiveIsCurrent'
    BY <1>5 DEF Live, LiveIsCurrent, Listen
  <2> QED BY <2>1, <2>2
<1>6. ASSUME NEW c \in Calls, CallFails(c) PROVE OneThread' /\ LiveIsCurrent'
  <2>1. OneThread'
    BY <1>6 DEF Live, OneThread, Active, CallFails, Idle
  <2>2. LiveIsCurrent'
    BY <1>6 DEF Live, LiveIsCurrent, CallFails
  <2> QED BY <2>1, <2>2
<1>7. ASSUME NEW s \in Sockets, Scan(s) PROVE OneThread' /\ LiveIsCurrent'
  <2>1. OneThread'
    BY <1>7 DEF Live, OneThread, Active, Scan
  <2>2. LiveIsCurrent'
    BY <1>7 DEF Live, LiveIsCurrent, Scan
  <2> QED BY <2>1, <2>2
<1>8. ASSUME NEW s \in Sockets, Open(s) PROVE OneThread' /\ LiveIsCurrent'
  <2>1. OneThread'
    BY <1>8 DEF Live, OneThread, Active, Open, Heard
  <2>2. LiveIsCurrent'
    BY <1>8 DEF Live, LiveIsCurrent, Open, Heard
  <2> QED BY <2>1, <2>2
<1>9. ASSUME NEW s \in Sockets, SaveCreds(s) PROVE OneThread' /\ LiveIsCurrent'
  <2>1. OneThread'
    BY <1>9 DEF Live, OneThread, Active, SaveCreds, AfterSave
  <2>2. LiveIsCurrent'
    BY <1>9 DEF Live, LiveIsCurrent, SaveCreds, AfterSave
  <2> QED BY <2>1, <2>2
<1>10. ASSUME NEW s \in Sockets, Saved(s) PROVE OneThread' /\ LiveIsCurrent'
  <2>1. OneThread'
    BY <1>10 DEF Live, OneThread, Active, Saved
  <2>2. LiveIsCurrent'
    BY <1>10 DEF Core, SocksOK, Live, OneThread, Active, LiveIsCurrent, Saved, AfterClose, Over,
                 NoSocket
  <2> QED BY <2>1, <2>2
<1>11. ASSUME NEW s \in Sockets, Wiped(s) PROVE OneThread' /\ LiveIsCurrent'
  <2>1. OneThread'
    BY <1>11 DEF Live, OneThread, Active, Wiped
  <2>2. LiveIsCurrent'
    BY <1>11 DEF Live, LiveIsCurrent, Wiped
  <2> QED BY <2>1, <2>2
<1>12. ASSUME NEW s \in Sockets, Forget(s) PROVE OneThread' /\ LiveIsCurrent'
  <2>1. OneThread'
    BY <1>12 DEF Live, OneThread, Active, Forget
  <2>2. LiveIsCurrent'
    BY <1>12 DEF Core, SocksOK, Live, OneThread, Active, LiveIsCurrent, Forget, Over, NoSocket
  <2> QED BY <2>1, <2>2
<1>13. ASSUME NEW s \in Sockets, NEW c \in Calls, TimerFires(s, c) PROVE OneThread' /\ LiveIsCurrent'
  <2>1. OneThread'
    BY <1>13 DEF Core, TypeOK, CallsOK, Live, OneThread, Active, TimerFires, Over, NoSocket
  <2>2. LiveIsCurrent'
    BY <1>13 DEF Core, SocksOK, Live, OneThread, Active, LiveIsCurrent, TimerFires, Over, NoSocket
  <2> QED BY <2>1, <2>2
<1>14. ASSUME NEW s \in Sockets, NEW r \in {"lost", "logout", "replaced"}, Close(s, r) PROVE OneThread' /\ LiveIsCurrent'
  <2>1. OneThread'
    BY <1>14 DEF Live, OneThread, Active, Close, Heard
  <2>2. LiveIsCurrent'
    BY <1>14 DEF Live, LiveIsCurrent, Close, Heard
  <2> QED BY <2>1, <2>2
<1>15. ASSUME Leave PROVE OneThread' /\ LiveIsCurrent'
  <2>1. OneThread'
    BY <1>15 DEF Live, OneThread, Active, Leave
  <2>2. LiveIsCurrent'
    BY <1>15 DEF Live, LiveIsCurrent, Leave
  <2> QED BY <2>1, <2>2
<1>16. ASSUME LeaveClose PROVE OneThread' /\ LiveIsCurrent'
  <2>1. OneThread'
    BY <1>16 DEF Core, TypeOK, Live, OneThread, Active, LeaveClose
  <2>2. LiveIsCurrent'
    <3> SUFFICES ASSUME "overlap" \notin seen', NEW s \in Sockets PROVE ~Live(s)' BY <1>16 DEF LiveIsCurrent
    <3>1. "overlap" \notin seen /\ entry \in {leave.target, None} BY <1>16 DEF LeaveClose
    <3>2. Live(s) => s = leave.target BY <3>1 DEF LiveIsCurrent
    <3>3. CASE ~Live(leave.target) BY <3>2, <3>3, <1>16 DEF LeaveClose, Live
    <3>4. CASE Live(leave.target)
      <4>1. leave.target \in Sockets BY <1>16 DEF Core, LeaveOK, LeaveClose
      <4>2. PICK r \in {"logout", "lost"} : socks' = [socks EXCEPT ![leave.target] = Closed(leave.target, r)]
        BY <3>4, <1>16 DEF LeaveClose
      <4> QED BY <3>2, <4>1, <4>2 DEF Core, TypeOK, Live, Closed
    <3> QED BY <3>3, <3>4
  <2> QED BY <2>1, <2>2
<1>17. ASSUME LeaveWipe PROVE OneThread' /\ LiveIsCurrent'
  <2>1. OneThread'
    BY <1>17 DEF Live, OneThread, Active, LeaveWipe
  <2>2. LiveIsCurrent'
    BY <1>17 DEF Live, LiveIsCurrent, LeaveWipe
  <2> QED BY <2>1, <2>2
<1>18. ASSUME LeaveFails PROVE OneThread' /\ LiveIsCurrent'
  <2>1. OneThread'
    BY <1>18 DEF Live, OneThread, Active, LeaveFails
  <2>2. LiveIsCurrent'
    BY <1>18 DEF Live, LiveIsCurrent, LeaveFails
  <2> QED BY <2>1, <2>2
<1>19. ASSUME Boot PROVE OneThread' /\ LiveIsCurrent'
  <2>1. OneThread'
    BY <1>19 DEF Live, OneThread, Active, Boot, Started, Idle, NoSocket
  <2>2. LiveIsCurrent'
    BY <1>19 DEF Live, LiveIsCurrent, Boot, NoSocket
  <2> QED BY <2>1, <2>2
<1>20. CASE UNCHANGED vars
  BY <1>20 DEF vars, Active, Live, LiveIsCurrent, OneThread
<1> QED
  BY <1>1, <1>2, <1>3, <1>4, <1>5, <1>6, <1>7, <1>8, <1>9, <1>10, <1>11, <1>12, <1>13, <1>14,
     <1>15, <1>16, <1>17, <1>18, <1>19, <1>20 DEF Next, CallStep, HandlerStep

\* Every step keeps the status of the entry true, and the entry answerable.
LEMMA StatusNext == Core /\ StatusIsTrue /\ NeverStuck /\ [Next]_vars => StatusIsTrue' /\ NeverStuck'
<1> SUFFICES ASSUME Core, StatusIsTrue, NeverStuck, [Next]_vars PROVE StatusIsTrue' /\ NeverStuck' OBVIOUS
<1> USE SessionBounds, SessionNone
<1>1. ASSUME NEW c \in Calls, Request(c) PROVE StatusIsTrue' /\ NeverStuck'
  <2>1. StatusIsTrue'
    BY <1>1 DEF StatusIsTrue, Status, Request
  <2>2. NeverStuck'
    BY <1>1 DEF NeverStuck, Refused, Status, Request
  <2> QED BY <2>1, <2>2
<1>2. ASSUME NEW c \in Calls, Load(c) PROVE StatusIsTrue' /\ NeverStuck'
  <2>1. StatusIsTrue'
    BY <1>2 DEF StatusIsTrue, Status, Load
  <2>2. NeverStuck'
    BY <1>2 DEF Core, TypeOK, CallsOK, Live, NeverStuck, Refused, Early, Status, Load
  <2> QED BY <2>1, <2>2
<1>3. ASSUME NEW c \in Calls, Persist(c) PROVE StatusIsTrue' /\ NeverStuck'
  <2>1. StatusIsTrue'
    BY <1>3 DEF StatusIsTrue, Status, Persist
  <2>2. NeverStuck'
    BY <1>3 DEF Live, NeverStuck, Refused, Early, Status, Persist
  <2> QED BY <2>1, <2>2
<1>4. ASSUME NEW c \in Calls, Create(c) PROVE StatusIsTrue' /\ NeverStuck'
  <2>1. StatusIsTrue'
    BY <1>4 DEF Core, TypeOK, StatusIsTrue, Status, Create, FreeSockets, NewSocket
  <2>2. NeverStuck'
    BY <1>4 DEF Core, TypeOK, Live, NeverStuck, Refused, Early, Status, Create, FreeSockets,
                NewSocket
  <2> QED BY <2>1, <2>2
<1>5. ASSUME NEW c \in Calls, Listen(c) PROVE StatusIsTrue' /\ NeverStuck'
  <2>1. StatusIsTrue'
    BY <1>5 DEF StatusIsTrue, Status, Listen
  <2>2. NeverStuck'
    BY <1>5 DEF Core, TypeOK, Live, NeverStuck, Refused, Early, Status, Listen
  <2> QED BY <2>1, <2>2
<1>6. ASSUME NEW c \in Calls, CallFails(c) PROVE StatusIsTrue' /\ NeverStuck'
  <2>1. StatusIsTrue'
    BY <1>6 DEF StatusIsTrue, Status, CallFails
  <2>2. NeverStuck'
    BY <1>6 DEF Core, CallsOK, Live, NeverStuck, Refused, Early, Status, CallFails
  <2> QED BY <2>1, <2>2
<1>7. ASSUME NEW s \in Sockets, Scan(s) PROVE StatusIsTrue' /\ NeverStuck'
  <2>1. StatusIsTrue'
    BY <1>7 DEF StatusIsTrue, Status, Scan, Scanned
  <2>2. NeverStuck'
    BY <1>7 DEF Live, NeverStuck, Refused, Early, Status, Scan, Scanned
  <2> QED BY <2>1, <2>2
<1>8. ASSUME NEW s \in Sockets, Open(s) PROVE StatusIsTrue' /\ NeverStuck'
  <2>1. StatusIsTrue'
    BY <1>8 DEF StatusIsTrue, Status, Open, Opened, Heard
  <2>2. NeverStuck'
    BY <1>8 DEF Live, NeverStuck, Refused, Early, Status, Open, Opened, Heard
  <2> QED BY <2>1, <2>2
<1>9. ASSUME NEW s \in Sockets, SaveCreds(s) PROVE StatusIsTrue' /\ NeverStuck'
  <2>1. StatusIsTrue'
    BY <1>9 DEF StatusIsTrue, Status, SaveCreds, AfterSave
  <2>2. NeverStuck'
    BY <1>9 DEF Live, NeverStuck, Refused, Early, Status, SaveCreds, AfterSave
  <2> QED BY <2>1, <2>2
<1>10. ASSUME NEW s \in Sockets, Saved(s) PROVE StatusIsTrue' /\ NeverStuck'
  <2>1. StatusIsTrue'
    BY <1>10 DEF StatusIsTrue, Status, Saved, AfterClose
  <2>2. NeverStuck'
    BY <1>10 DEF Live, NeverStuck, Refused, Early, Status, Saved, AfterClose
  <2> QED BY <2>1, <2>2
<1>11. ASSUME NEW s \in Sockets, Wiped(s) PROVE StatusIsTrue' /\ NeverStuck'
  <2>1. StatusIsTrue'
    BY <1>11 DEF StatusIsTrue, Status, Wiped
  <2>2. NeverStuck'
    BY <1>11 DEF Live, NeverStuck, Refused, Early, Status, Wiped
  <2> QED BY <2>1, <2>2
<1>12. ASSUME NEW s \in Sockets, Forget(s) PROVE StatusIsTrue' /\ NeverStuck'
  <2>1. StatusIsTrue'
    BY <1>12 DEF StatusIsTrue, Forget
  <2>2. NeverStuck'
    BY <1>12 DEF NeverStuck, Forget
  <2> QED BY <2>1, <2>2
<1>13. ASSUME NEW s \in Sockets, NEW c \in Calls, TimerFires(s, c) PROVE StatusIsTrue' /\ NeverStuck'
  <2>1. StatusIsTrue'
    BY <1>13 DEF StatusIsTrue, TimerFires
  <2>2. NeverStuck'
    BY <1>13 DEF NeverStuck, TimerFires
  <2> QED BY <2>1, <2>2
<1>14. ASSUME NEW s \in Sockets, NEW r \in {"lost", "logout", "replaced"}, Close(s, r) PROVE StatusIsTrue' /\ NeverStuck'
  <2>1. StatusIsTrue'
    BY <1>14 DEF StatusIsTrue, Status, Close, Closed, Heard
  <2>2. NeverStuck'
    BY <1>14 DEF Live, NeverStuck, Refused, Early, Status, Close, Closed, Heard
  <2> QED BY <2>1, <2>2
<1>15. ASSUME Leave PROVE StatusIsTrue' /\ NeverStuck'
  <2>1. StatusIsTrue'
    BY <1>15 DEF StatusIsTrue, Status, Leave
  <2>2. NeverStuck'
    BY <1>15 DEF Live, NeverStuck, Refused, Early, Status, Leave
  <2> QED BY <2>1, <2>2
<1>16. ASSUME LeaveClose PROVE StatusIsTrue' /\ NeverStuck'
  <2>1. StatusIsTrue'
    BY <1>16 DEF StatusIsTrue, LeaveClose
  <2>2. NeverStuck'
    BY <1>16 DEF NeverStuck, LeaveClose
  <2> QED BY <2>1, <2>2
<1>17. ASSUME LeaveWipe PROVE StatusIsTrue' /\ NeverStuck'
  <2>1. StatusIsTrue'
    BY <1>17 DEF StatusIsTrue, Status, LeaveWipe
  <2>2. NeverStuck'
    BY <1>17 DEF Live, NeverStuck, Refused, Early, Status, LeaveWipe
  <2> QED BY <2>1, <2>2
<1>18. ASSUME LeaveFails PROVE StatusIsTrue' /\ NeverStuck'
  <2>1. StatusIsTrue'
    BY <1>18 DEF StatusIsTrue, Status, LeaveFails
  <2>2. NeverStuck'
    BY <1>18 DEF Live, NeverStuck, Refused, Early, Status, LeaveFails
  <2> QED BY <2>1, <2>2
<1>19. ASSUME Boot PROVE StatusIsTrue' /\ NeverStuck'
  <2>1. StatusIsTrue'
    BY <1>19 DEF StatusIsTrue, Boot
  <2>2. NeverStuck'
    BY <1>19 DEF NeverStuck, Boot
  <2> QED BY <2>1, <2>2
<1>20. CASE UNCHANGED vars
  BY <1>20 DEF vars, Early, Live, NeverStuck, Refused, Status, StatusIsTrue
<1> QED
  BY <1>1, <1>2, <1>3, <1>4, <1>5, <1>6, <1>7, <1>8, <1>9, <1>10, <1>11, <1>12, <1>13, <1>14,
     <1>15, <1>16, <1>17, <1>18, <1>19, <1>20 DEF Next, CallStep, HandlerStep

\* Every step hands unlinked credentials on to somebody who will wipe them.
LEMMA WipeNext == Core /\ WipeComes /\ [Next]_vars => WipeComes'
<1> SUFFICES ASSUME Core, WipeComes, [Next]_vars PROVE WipeComes' OBVIOUS
<1> USE SessionBounds, SessionNone
<1>1. ASSUME NEW c \in Calls, Request(c) PROVE WipeComes'
  <2>1. WipeComes'
    BY <1>1 DEF Live, WipeComes, Held, Holds, Reads, Request
  <2> QED BY <2>1
<1>2. ASSUME NEW c \in Calls, Load(c) PROVE WipeComes'
  <2>1. WipeComes'
    BY <1>2 DEF Core, TypeOK, CallRecord, WipeComes, Held, Reads, Load
  <2> QED BY <2>1
<1>3. ASSUME NEW c \in Calls, Persist(c) PROVE WipeComes'
  <2>1. WipeComes'
    BY <1>3 DEF WipeComes, Held, Reads, Persist
  <2> QED BY <2>1
<1>4. ASSUME NEW c \in Calls, Create(c) PROVE WipeComes'
  <2>1. WipeComes'
    BY <1>4 DEF Core, TypeOK, Live, WipeComes, Held, Holds, Reads, Create, FreeSockets, NewSocket,
                Quiet
  <2> QED BY <2>1
<1>5. ASSUME NEW c \in Calls, Listen(c) PROVE WipeComes'
  <2>1. WipeComes'
    BY <1>5 DEF Live, WipeComes, Held, Holds, Reads, Listen
  <2> QED BY <2>1
<1>6. ASSUME NEW c \in Calls, CallFails(c) PROVE WipeComes'
  <2>1. WipeComes'
    BY <1>6 DEF WipeComes, CallFails
  <2> QED BY <2>1
<1>7. ASSUME NEW s \in Sockets, Scan(s) PROVE WipeComes'
  <2>1. WipeComes'
    BY <1>7 DEF Live, WipeComes, Held, Holds, Reads, Scan, Scanned
  <2> QED BY <2>1
<1>8. ASSUME NEW s \in Sockets, Open(s) PROVE WipeComes'
  <2>1. WipeComes'
    BY <1>8 DEF Live, WipeComes, Held, Holds, Reads, Open, Opened, Heard
  <2> QED BY <2>1
<1>9. ASSUME NEW s \in Sockets, SaveCreds(s) PROVE WipeComes'
  <2>1. WipeComes'
    <3> SUFFICES ASSUME seen' \intersect {"deaf", "late", "failed"} = {} PROVE \E t \in Sockets : Holds(t)'
      BY <1>9 DEF WipeComes, Held
    <3>1. Live(s) BY <1>9 DEF SaveCreds
    <3>2. socks' = [socks EXCEPT ![s] = AfterSave(s)] /\ stored' = socks[s].creds
      BY <1>9 DEF SaveCreds
    <3>3. Live(s)' /\ socks'[s].creds = socks[s].creds
      BY <3>1, <3>2 DEF Live, AfterSave, Gone
    <3> QED BY <3>2, <3>3 DEF Holds
  <2> QED BY <2>1
<1>10. ASSUME NEW s \in Sockets, Saved(s) PROVE WipeComes'
  <2>1. WipeComes'
    BY <1>10 DEF Core, SocksOK, Live, WipeComes, Held, Holds, Reads, Saved, AfterClose
  <2> QED BY <2>1
<1>11. ASSUME NEW s \in Sockets, Wiped(s) PROVE WipeComes'
  <2>1. WipeComes'
    BY <1>11 DEF Core, TypeOK, NoCreds, WipeComes, Wiped
  <2> QED BY <2>1
<1>12. ASSUME NEW s \in Sockets, Forget(s) PROVE WipeComes'
  <2>1. WipeComes'
    BY <1>12 DEF Core, SocksOK, Live, WipeComes, Held, Holds, Reads, Forget
  <2> QED BY <2>1
<1>13. ASSUME NEW s \in Sockets, NEW c \in Calls, TimerFires(s, c) PROVE WipeComes'
  <2>1. WipeComes'
    BY <1>13 DEF Core, TypeOK, WipeComes, Held, Reads, TimerFires
  <2> QED BY <2>1
<1>14. ASSUME NEW s \in Sockets, NEW r \in {"lost", "logout", "replaced"}, Close(s, r) PROVE WipeComes'
  <2>1. WipeComes'
    <3> SUFFICES ASSUME seen' \intersect {"deaf", "late", "failed"} = {}, stored.id \in dead'
                 PROVE  Held'
      BY <1>14 DEF WipeComes, Close
    <3>1. socks[s].on /\ Live(s) /\ socks' = [socks EXCEPT ![s] = Closed(s, r)]
      BY <1>14 DEF Close, Heard
    <3>2. socks'[s].task = "saving" /\ socks'[s].reason = r
      BY <3>1 DEF Core, TypeOK, Closed
    <3>3. CASE r # "replaced" BY <3>2, <3>3 DEF Held, Holds
    <3>4. CASE r = "replaced"
      <4>1. dead' = dead /\ seen \intersect {"deaf", "late", "failed"} = {}
        BY <3>4, <1>14 DEF Close, Heard
      <4>2. socks[s].creds.id # stored.id BY <3>4, <4>1, <1>14 DEF Close, Reasons
      <4>3. ~Holds(s) BY <3>1, <4>2 DEF Holds, Core, SocksOK
      <4>4. \A t \in Sockets \ {s} : Holds(t)' <=> Holds(t)
        BY <3>1, <1>14 DEF Close, Holds, Live
      <4> QED BY <4>1, <4>3, <4>4, <1>14 DEF WipeComes, Held, Close, Reads
    <3> QED BY <3>3, <3>4
  <2> QED BY <2>1
<1>15. ASSUME Leave PROVE WipeComes'
  <2>1. WipeComes'
    BY <1>15 DEF Live, WipeComes, Held, Holds, Reads, Leave
  <2> QED BY <2>1
<1>16. ASSUME LeaveClose PROVE WipeComes'
  <2>1. WipeComes'
    BY <1>16 DEF WipeComes, Held, LeaveClose
  <2> QED BY <2>1
<1>17. ASSUME LeaveWipe PROVE WipeComes'
  <2>1. WipeComes'
    BY <1>17 DEF Core, TypeOK, NoCreds, WipeComes, LeaveWipe
  <2> QED BY <2>1
<1>18. ASSUME LeaveFails PROVE WipeComes'
  <2>1. WipeComes'
    BY <1>18 DEF WipeComes, LeaveFails
  <2> QED BY <2>1
<1>19. ASSUME Boot PROVE WipeComes'
  <2>1. WipeComes'
    BY <1>19 DEF Core, TypeOK, WipeComes, Held, Reads, Boot, Started, Idle
  <2> QED BY <2>1
<1>20. CASE UNCHANGED vars
  BY <1>20 DEF vars, Held, Holds, Live, Reads, WipeComes
<1> QED
  BY <1>1, <1>2, <1>3, <1>4, <1>5, <1>6, <1>7, <1>8, <1>9, <1>10, <1>11, <1>12, <1>13, <1>14,
     <1>15, <1>16, <1>17, <1>18, <1>19, <1>20 DEF Next, CallStep, HandlerStep

----------------------------------------------------------------------------

\* A process that has just started satisfies the invariant.
LEMMA InitInv == Init => IInv
<1> SUFFICES ASSUME Init PROVE IInv OBVIOUS
<1> USE SessionBounds, SessionNone
<1>1. \A s \in Sockets : ~Live(s) /\ socks[s] = NoSocket BY DEF Init, Live, NoSocket
<1>2. \A c \in Calls : calls[c].pc \in {"idle", "load"} /\ calls[c].sock = None
  BY DEF Init, Started, Idle
<1>3. TypeOK
  <2>1. stored \in Creds BY DEF Init, Creds
  <2>2. calls \in [Calls -> CallRecord] BY NoCredsOK DEF Init, Started, Idle, CallRecord
  <2> QED BY <2>1, <2>2, NoSocketOK DEF Init, TypeOK, Staying
<1>4. CallsOK /\ LeaveOK BY <1>2 DEF Init, CallsOK, LeaveOK, Staying
<1>5. SocksOK BY <1>1 DEF SocksOK, NoSocket
<1>6. OneThread
  <2>1. \A c, d \in Calls : calls[c].pc # "idle" /\ calls[d].pc # "idle" => c = d
    BY DEF Init, Started, Idle
  <2> QED BY <1>1, <2>1 DEF OneThread, Active, NoSocket
<1>7. LiveIsCurrent /\ StatusIsTrue /\ NeverStuck
  BY <1>1 DEF Init, LiveIsCurrent, StatusIsTrue, NeverStuck
<1>8. WipeComes BY DEF Init, WipeComes
<1> QED BY <1>3, <1>4, <1>5, <1>6, <1>7, <1>8 DEF IInv, Core

\* The invariant the theorems follow from.
LEMMA AlwaysInv == Spec => []IInv
<1>1. IInv /\ [Next]_vars => IInv'
  BY CoreNext, ThreadNext, StatusNext, WipeNext DEF IInv
<1> QED BY InitInv, <1>1, PTL DEF Spec

\* Every variable keeps its type, whatever overlaps; in particular the counter of attempts stays in
\* its range, because every socket starts it at zero.
THEOREM TypeCorrect == Spec => []TypeOK
<1>1. IInv => TypeOK BY DEF IInv, Core
<1> QED BY <1>1, AlwaysInv, PTL

\* As long as every event found its listener, the status the API answers is the state of the socket
\* in the map.
THEOREM StatusAlwaysTrue == Spec => []StatusIsTrue
<1>1. IInv => StatusIsTrue BY DEF IInv
<1> QED BY <1>1, AlwaysInv, PTL

\* Without an overlap of two connect(), or of one with a handler, the live socket is that of the map.
THEOREM LiveAlwaysCurrent == Spec => []LiveIsCurrent
<1>1. IInv => LiveIsCurrent BY DEF IInv
<1> QED BY <1>1, AlwaysInv, PTL

\* No entry of the map is a dead end.
THEOREM NeverEverStuck == Spec => []NeverStuck
<1>1. IInv => NeverStuck BY DEF IInv
<1> QED BY <1>1, AlwaysInv, PTL

\* Credentials that WhatsApp has unlinked always have somebody who will wipe them.
THEOREM UnlinkedAlwaysWiped == Spec => []UnlinkedIsWiped
<1>1. IInv => UnlinkedIsWiped BY DEF IInv, WipeComes, Held, Holds, Reads, UnlinkedIsWiped
<1> QED BY <1>1, AlwaysInv, PTL

----------------------------------------------------------------------------

\* What the rest of the system sees of WhatsAppService is a SessionStatus, for any number of
\* overlapping calls, handlers and timers.
THEOREM SessionImplementsStatus == Spec => ImplementsSessionStatus
<1>1. Init => Public!Init
  BY DEF Init, Public!Init, Status
<1>2. IInv /\ IInv' /\ [Next]_vars => [Public!Next]_Status
  <2> SUFFICES ASSUME IInv, IInv', [Next]_vars, Status' # Status PROVE Public!Next
    OBVIOUS
  <2> USE SessionNone
  <2>1. Status \in Statuses /\ Status' \in Statuses
    BY DEF IInv, Core, TypeOK, SocketRecord, Statuses, Status
  <2>2. Status = "disconnected" => Status' = "connecting"
    <3> SUFFICES ASSUME Status = "disconnected", Status' = "connected" PROVE FALSE
      BY <2>1 DEF Statuses
    <3>1. entry' # None /\ entry' \in Sockets /\ socks'[entry'].status = "connected"
      BY DEF IInv, Core, TypeOK, Status
    <3>2. entry' # entry => socks'[entry'].status = "connecting"
      <4>1. ASSUME NEW c \in Calls, Create(c) PROVE socks'[entry'].status = "connecting"
        BY <4>1 DEF IInv, Core, TypeOK, Create, NewSocket
      <4> QED
        BY <3>1, <4>1 DEF Next, vars, CallStep, HandlerStep, Request, Load, Persist, Listen,
                          CallFails, Scan, Open, SaveCreds, Saved, Wiped, Forget, TimerFires, Close,
                          Leave, LeaveClose, LeaveWipe, LeaveFails, Boot
    <3>3. ASSUME NEW s \in Sockets, socks'[s].status = "connected" PROVE socks[s].status # "disconnected"
      <4>1. ASSUME NEW t \in Sockets, Open(t) PROVE socks[s].status # "disconnected"
        BY <3>3, <4>1 DEF IInv, Core, SocksOK, Open
      <4>2. ASSUME NEW t \in Sockets, NEW r \in {"lost", "logout", "replaced"}, Close(t, r)
            PROVE  socks[s].status # "disconnected"
        BY <3>3, <4>2 DEF Close, Closed
      <4>3. ASSUME NEW t \in Sockets, HandlerStep(t) PROVE socks[s].status # "disconnected"
        <5>1. Over(t).status = "disconnected" BY DEF Over, NoSocket
        <5>2. ASSUME Saved(t) PROVE socks[s].status # "disconnected"
          <6>1. AfterClose(t).status \in {"disconnected", socks[t].status}
            <7>1. CASE socks[t].reason = "logout"
              BY <7>1 DEF IInv, Core, TypeOK, SocketRecord, AfterClose
            <7>2. CASE socks[t].reason = "replaced" BY <5>1, <7>2 DEF AfterClose
            <7>3. CASE socks[t].reason \notin {"logout", "replaced"}
              BY <7>3 DEF AfterClose
            <7> QED BY <7>1, <7>2, <7>3
          <6> QED BY <3>3, <5>2, <6>1 DEF Saved
        <5>3. ASSUME SaveCreds(t) PROVE socks[s].status # "disconnected"
          BY <3>3, <5>3 DEF SaveCreds, AfterSave
        <5>4. ASSUME Wiped(t) PROVE socks[s].status # "disconnected"
          BY <3>3, <5>4 DEF Wiped
        <5> QED
          BY <3>3, <4>3, <5>1, <5>2, <5>3, <5>4 DEF IInv, Core, TypeOK, HandlerStep, Forget,
                                                    TimerFires
      <4>4. ASSUME NEW c \in Calls, Create(c) PROVE socks[s].status # "disconnected"
        BY <3>3, <4>4 DEF Create, NewSocket
      <4>5. ASSUME NEW c \in Calls, Listen(c) PROVE socks[s].status # "disconnected"
        BY <3>3, <4>5 DEF Listen
      <4>6. ASSUME NEW t \in Sockets, Scan(t) PROVE socks[s].status # "disconnected"
        BY <3>3, <4>6 DEF Scan, Scanned
      <4>7. CASE LeaveClose
        <5>1. \A r \in {"logout", "lost"} :
                Closed(leave.target, r).status \in {"disconnected", socks[leave.target].status}
          BY <4>7 DEF Closed
        <5> QED BY <3>3, <4>7, <5>1 DEF IInv, Core, TypeOK, LeaveClose
      <4>8. CASE Boot BY <3>3, <4>8 DEF Boot, NoSocket
      <4> QED BY <3>3, <4>1, <4>2, <4>3, <4>4, <4>5, <4>6, <4>7, <4>8
            DEF Next, vars, CallStep, Request, Load, Persist, CallFails, Leave, LeaveWipe, LeaveFails
    <3> QED BY <3>1, <3>2, <3>3 DEF Status
  <2> QED BY <2>1, <2>2 DEF Public!Next, Public!MayBecome, Public!Statuses, Statuses
<1> QED BY <1>1, <1>2, AlwaysInv, PTL DEF Spec, Public!Spec, ImplementsSessionStatus
=============================================================================
