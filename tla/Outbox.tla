------------------------------- MODULE Outbox -------------------------------
(***************************************************************************)
(* What message dispatch promises: messages are promised in groups (a run  *)
(* of a schedule), each goes out exactly once, and only then is recorded   *)
(* as sent, for good.                                                      *)
(***************************************************************************)
EXTENDS Integers

CONSTANT Messages

VARIABLES phase,   \* Messages -> how far the message is
          copies   \* Messages -> how often it went out

Init ==
    /\ phase = [m \in Messages |-> "none"]
    /\ copies = [m \in Messages |-> 0]

Promise(S) ==
    /\ S # {}
    /\ \A m \in S : phase[m] = "none"
    /\ phase' = [m \in Messages |-> IF m \in S THEN "owed" ELSE phase[m]]
    /\ UNCHANGED copies

GoOut(m) ==
    /\ phase[m] = "owed"
    /\ phase' = [phase EXCEPT ![m] = "out"]
    /\ copies' = [copies EXCEPT ![m] = @ + 1]

Record(m) ==
    /\ phase[m] = "out"
    /\ phase' = [phase EXCEPT ![m] = "sent"]
    /\ UNCHANGED copies

Next ==
    \/ \E S \in SUBSET Messages : Promise(S)
    \/ \E m \in Messages : GoOut(m) \/ Record(m)

Spec == Init /\ [][Next]_<<phase, copies>>
=============================================================================
