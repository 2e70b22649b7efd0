--------------------------- MODULE SessionStatus ---------------------------
(***************************************************************************)
(* What a tenant's session looks like from outside: the status that        *)
(* GET /whatsapp/status answers and the send worker asks for.  A session   *)
(* is connected only after it was connecting; it may be lost, or begun     *)
(* anew, at any time.                                                      *)
(***************************************************************************)
VARIABLE status

Statuses == {"disconnected", "connecting", "connected"}

MayBecome(s) == IF s = "disconnected" THEN {"connecting"} ELSE Statuses \ {s}

Init == status = "disconnected"

Next == status' \in MayBecome(status)

Spec == Init /\ [][Next]_status
=============================================================================
