---------------------------- MODULE TenantMutex ----------------------------
(***************************************************************************)
(* What the per-tenant send lock promises: one send at a time.             *)
(***************************************************************************)
CONSTANTS Workers, NoOne

VARIABLE sender   \* the worker that sends, or NoOne

Init == sender = NoOne

Start(w) == sender = NoOne /\ sender' = w

Stop == sender # NoOne /\ sender' = NoOne

Next == (\E w \in Workers : Start(w)) \/ Stop

Spec == Init /\ [][Next]_sender
=============================================================================
