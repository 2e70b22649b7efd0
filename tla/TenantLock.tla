----------------------------- MODULE TenantLock -----------------------------
(***************************************************************************)
(* The per-tenant send lock of MessageSendProcessor                        *)
(* (schedules/message-send.processor.ts: acquireLock, the try/finally of   *)
(* process, releaseLock), in time.  The key is set with SET NX PX and is   *)
(* never renewed; its owner jitters and sends; whoever finishes deletes    *)
(* the key only if the token in it is its own.  Time passes in ticks: a    *)
(* worker's clock counts the ticks since it entered its state, the key's   *)
(* clock the ticks it has left.                                            *)
(***************************************************************************)
EXTENDS Integers

CONSTANTS
    Workers,   \* jobs of the tenant that compete, Concurrency at most
    TTL,       \* LOCK_TTL_MS
    Holds,     \* longest jitter plus longest send of one message: what may be configured
    Patience,  \* TENANT_LOCK_ACQUIRE_TIMEOUT_MS
    NoOne,     \* no owner, no worker
    Ghost      \* the token of an owner that died or failed to delete the key

ASSUME TimesAssumption ==
    TTL \in Nat \ {0} /\ Holds \subseteq Nat \ {0} /\ Patience \in Nat \ {0}

ASSUME OwnersAssumption == NoOne \notin Workers /\ Ghost \notin Workers /\ NoOne # Ghost

VARIABLES
    key,      \* the Redis key: whose token it holds and the ticks it has left
    worker,   \* Workers -> where the job is and the ticks since it got there
    longest   \* the longest hold, as the process was configured

vars == <<key, worker, longest>>

FreeKey == [owner |-> NoOne, left |-> 0]
Idle    == [at |-> "idle", for |-> 0]

Init == key = FreeKey /\ worker = [w \in Workers |-> Idle] /\ longest \in Holds

Waiting(w) == worker[w].at = "waiting"
Holding(w) == worker[w].at = "holding"

Move(w, at) == worker' = [worker EXCEPT ![w] = [at |-> at, for |-> 0]]

\* A job reaches acquireLock.
Enter(w) == worker[w].at = "idle" /\ Move(w, "waiting") /\ UNCHANGED <<key, longest>>

\* Mutants: one tick too many; SET without NX.
SetTooLong(w) == key.owner = NoOne /\ key' = [owner |-> w, left |-> TTL + 1]
SetAnyway(w) == key' = [owner |-> w, left |-> TTL]

SetNX(w) == key.owner = NoOne /\ key' = [owner |-> w, left |-> TTL]

\* One poll of the loop, which runs while the deadline is not reached.
Acquire(w) ==
    /\ Waiting(w) /\ worker[w].for < Patience
    /\ SetNX(w)
    /\ Move(w, "holding") /\ UNCHANGED longest

GiveUp(w) ==
    /\ Waiting(w) /\ worker[w].for >= Patience
    /\ Move(w, "idle") /\ UNCHANGED <<key, longest>>

\* Mutant: DEL without the comparison.
DeletedAnyway(w) == FreeKey

\* The compare-and-delete script.
Released(w) == IF key.owner = w THEN FreeKey ELSE key

\* The send returned or threw and the finally block runs.
Finish(w) == Holding(w) /\ Move(w, "idle") /\ key' = Released(w) /\ UNCHANGED longest

\* releaseLock swallows an error: the key stays until its TTL.
Orphaned == IF key.owner \in Workers THEN [key EXCEPT !.owner = Ghost] ELSE key

FinishFails(w) ==
    /\ Holding(w) /\ key.owner = w
    /\ Move(w, "idle") /\ key' = Orphaned /\ UNCHANGED longest

Crash ==
    /\ \E w \in Workers : worker[w].at # "idle"
    /\ worker' = [w \in Workers |-> Idle]
    /\ key' = Orphaned /\ UNCHANGED longest

\* No worker outstays its limit.
Punctual(w) ==
    /\ Waiting(w) => worker[w].for < Patience
    /\ Holding(w) => worker[w].for < longest

\* Mutant: SET NX without PX.
NeverExpires == key

AfterTick == IF key.left <= 1 THEN FreeKey ELSE [key EXCEPT !.left = @ - 1]

Tick ==
    /\ \A w \in Workers : Punctual(w)
    /\ \E w \in Workers : worker[w].at # "idle" \/ key # FreeKey
    /\ worker' = [w \in Workers |->
                    IF worker[w].at = "idle" THEN worker[w]
                    ELSE [worker[w] EXCEPT !.for = @ + 1]]
    /\ key' = AfterTick /\ UNCHANGED longest

Next ==
    \/ \E w \in Workers : Enter(w) \/ Acquire(w) \/ GiveUp(w) \/ Finish(w) \/ FinishFails(w)
    \/ Crash \/ Tick

Spec == Init /\ [][Next]_vars

\* Workers run on and time passes.
FairSpec == Spec /\ WF_vars(Tick) /\ \A w \in Workers : WF_vars(GiveUp(w)) /\ WF_vars(Finish(w))

----------------------------------------------------------------------------
\* Clocks stay within the limits the code waits for.
TypeOK ==
    /\ key \in [owner : Workers \cup {NoOne, Ghost}, left : 0 .. TTL]
    /\ worker \in [Workers -> [at : {"idle", "waiting", "holding"}, for : Nat]]
    /\ \A w \in Workers : /\ Waiting(w) => worker[w].for <= Patience
                          /\ Holding(w) => worker[w].for <= longest
    /\ longest \in Holds

\* For the first TTL of its hold a worker owns the key, whatever the others,
\* with their expired tokens, failed releases and crashes, do to it.
LeaseHonoured ==
    \A w \in Workers : Holding(w) /\ worker[w].for < TTL => key.owner = w

\* "Serializes sends within a tenant": two jobs of a tenant are never both
\* between taking the lock and the end of their send. It needs a hold that ends
\* within the TTL.
Short == longest < TTL

OneSender == Short => \A v, w \in Workers : Holding(v) /\ Holding(w) => v = w

\* No key outlives its TTL: a tenant whose sender died is not locked out.
KeyExpires == key.owner = Ghost ~> key.owner # Ghost

\* The lock implements the abstract mutex when every hold ends within the TTL.
Sender == IF Short /\ \E w \in Workers : Holding(w) THEN CHOOSE w \in Workers : Holding(w) ELSE NoOne

Mutex == INSTANCE TenantMutex WITH sender <- Sender

ImplementsMutex == Mutex!Spec
=============================================================================
