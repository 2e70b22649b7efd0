-------------------------- MODULE TenantLockProofs --------------------------
(***************************************************************************)
(* Proofs about TenantLock for every number of workers and every choice of *)
(* TTL, longest holds and patience.                                        *)
(***************************************************************************)
EXTENDS TenantLock, TLAPS

(***************************************************************************)
(* Type correctness, with the clocks' limits.                              *)
(***************************************************************************)

\* The clocks never run past the limits the code waits for: Tick is the only
\* action that moves them, and it waits for the workers at their limit.
THEOREM TypeCorrect == Spec => []TypeOK
<1> USE TimesAssumption, OwnersAssumption
<1>1. Init => TypeOK
  BY DEF Init, TypeOK, FreeKey, Idle, Waiting, Holding
<1>2. TypeOK /\ [Next]_vars => TypeOK'
  <2> SUFFICES ASSUME TypeOK, [Next]_vars PROVE TypeOK'
    OBVIOUS
  <2>1. CASE UNCHANGED vars
    BY <2>1 DEF vars, TypeOK, Waiting, Holding
  <2>2. ASSUME NEW w \in Workers, Enter(w) PROVE TypeOK'
    BY <2>2 DEF TypeOK, Enter, Move, Waiting, Holding
  <2>3. ASSUME NEW w \in Workers, Acquire(w) PROVE TypeOK'
    BY <2>3 DEF TypeOK, Acquire, SetNX, Move, Waiting, Holding
  <2>4. ASSUME NEW w \in Workers, GiveUp(w) PROVE TypeOK'
    BY <2>4 DEF TypeOK, GiveUp, Move, Waiting, Holding
  <2>5. ASSUME NEW w \in Workers, Finish(w) PROVE TypeOK'
    BY <2>5 DEF TypeOK, Finish, Released, FreeKey, Move, Waiting, Holding
  <2>6. ASSUME NEW w \in Workers, FinishFails(w) PROVE TypeOK'
    BY <2>6 DEF TypeOK, FinishFails, Orphaned, Move, Waiting, Holding
  <2>7. CASE Crash
    BY <2>7 DEF TypeOK, Crash, Orphaned, Idle, Waiting, Holding
  <2>8. CASE Tick
    <3>1. (key \in [owner : Workers \cup {NoOne, Ghost}, left : 0 .. TTL])'
      BY <2>8 DEF TypeOK, Tick, AfterTick, FreeKey
    <3>2. ASSUME NEW w \in Workers
          PROVE /\ worker'[w] \in [at : {"idle", "waiting", "holding"}, for : Nat]
                /\ Waiting(w)' => worker'[w].for <= Patience
                /\ Holding(w)' => worker'[w].for <= longest'
      BY <2>8 DEF TypeOK, Tick, Punctual, Waiting, Holding
    <3>3. worker' \in [Workers -> [at : {"idle", "waiting", "holding"}, for : Nat]]
      BY <2>8, <3>2 DEF Tick
    <3> QED BY <2>8, <3>1, <3>2, <3>3 DEF TypeOK, Tick
  <2> QED BY <2>1, <2>2, <2>3, <2>4, <2>5, <2>6, <2>7, <2>8 DEF Next
<1> QED BY <1>1, <1>2, PTL DEF Spec

(***************************************************************************)
(* The lease: while a hold is younger than the TTL, the key is its owner's *)
(* and the two clocks add up to the TTL.                                   *)
(***************************************************************************)
LeaseInv ==
    \A w \in Workers :
        Holding(w) /\ worker[w].for < TTL =>
            key.owner = w /\ key.left = TTL - worker[w].for

\* Initially nobody holds the lock.
LEMMA LeaseInit == Init => LeaseInv
BY OwnersAssumption DEF Init, LeaseInv, Holding, Idle

\* Every step keeps the clocks of key and hold together; a step of another
\* worker never touches a key that is not its own.
LEMMA LeaseStep == TypeOK /\ LeaseInv /\ [Next]_vars => LeaseInv'
<1> USE TimesAssumption, OwnersAssumption
<1> SUFFICES ASSUME TypeOK, LeaseInv, [Next]_vars PROVE LeaseInv'
  OBVIOUS
<1>1. CASE UNCHANGED vars
  BY <1>1 DEF vars, LeaseInv, Holding
<1>2. ASSUME NEW v \in Workers, Enter(v) PROVE LeaseInv'
  BY <1>2 DEF TypeOK, LeaseInv, Enter, Move, Holding
<1>3. ASSUME NEW v \in Workers, Acquire(v) PROVE LeaseInv'
  BY <1>3 DEF TypeOK, LeaseInv, Acquire, SetNX, Move, Holding
<1>4. ASSUME NEW v \in Workers, GiveUp(v) PROVE LeaseInv'
  BY <1>4 DEF TypeOK, LeaseInv, GiveUp, Move, Holding
<1>5. ASSUME NEW v \in Workers, Finish(v) PROVE LeaseInv'
  BY <1>5 DEF TypeOK, LeaseInv, Finish, Released, Move, Holding
<1>6. ASSUME NEW v \in Workers, FinishFails(v) PROVE LeaseInv'
  BY <1>6 DEF TypeOK, LeaseInv, FinishFails, Move, Holding
<1>7. CASE Crash
  BY <1>7 DEF LeaseInv, Crash, Idle, Holding
<1>8. CASE Tick
  BY <1>8 DEF TypeOK, LeaseInv, Tick, AfterTick, Punctual, FreeKey, Holding
<1> QED BY <1>1, <1>2, <1>3, <1>4, <1>5, <1>6, <1>7, <1>8 DEF Next

\* For the first TTL of its hold a worker owns the key, whatever the other
\* workers, failed releases and crashes do.
THEOREM LeaseAlwaysHonoured == Spec => []LeaseHonoured
<1>1. LeaseInv => LeaseHonoured
  BY DEF LeaseInv, LeaseHonoured
<1> QED BY <1>1, LeaseInit, LeaseStep, TypeCorrect, PTL DEF Spec

(***************************************************************************)
(* Mutual exclusion, when no hold outlives the TTL.                        *)
(***************************************************************************)

\* A short hold always owns the key, and the key has one owner.
LEMMA ShortHolds ==
  ASSUME TypeOK, LeaseHonoured
  PROVE  /\ Short => \A w \in Workers : Holding(w) => key.owner = w
         /\ OneSender
BY TimesAssumption DEF TypeOK, LeaseHonoured, OneSender, Short

\* If the longest jitter and send fit in the TTL, the lock serialises the
\* sends of a tenant, for any number of jobs.
THEOREM ShortHoldsExclude == Spec => []OneSender
<1>1. TypeOK /\ LeaseHonoured => OneSender
  BY ShortHolds
<1> QED BY <1>1, TypeCorrect, LeaseAlwaysHonoured, PTL

(***************************************************************************)
(* The lock implements the abstract mutex.                                 *)
(***************************************************************************)

\* Under mutual exclusion Sender is the worker that holds, if there is one.
LEMMA SenderIsHolder ==
  ASSUME Short, OneSender, NEW w \in Workers, Holding(w)
  PROVE  Sender = w
BY DEF OneSender, Sender

\* If the longest hold fits in the TTL, every step of the lock is a step of
\* the mutex or leaves it alone.
THEOREM ShortHoldsImplementMutex == Spec => ImplementsMutex
<1> DEFINE Safe == TypeOK /\ LeaseHonoured
<1>1. Init => Mutex!Init
  BY DEF Init, Mutex!Init, Sender, Holding, Idle
<1>2. Safe /\ Safe' /\ [Next]_vars => [Mutex!Next]_Sender
  <2> SUFFICES ASSUME Safe, Safe', [Next]_vars PROVE [Mutex!Next]_Sender
    OBVIOUS
  <2> USE OwnersAssumption
  <2>0. Short' = Short
    BY DEF Next, vars, Enter, Acquire, GiveUp, Finish, FinishFails, Crash, Tick, Short
  <2>1. CASE ~Short
    BY <2>0, <2>1 DEF Sender
  <2>2. CASE Short
    <3>0. /\ OneSender /\ OneSender' /\ Short'
          /\ \A w \in Workers : Holding(w) => key.owner = w
      <4>1. OneSender /\ \A w \in Workers : Holding(w) => key.owner = w
        BY <2>2, ShortHolds
      <4>2. OneSender'
        BY TimesAssumption DEF TypeOK, LeaseHonoured, OneSender, Short
      <4> QED BY <2>0, <2>2, <4>1, <4>2
    <3>1. ASSUME \A w \in Workers : Holding(w)' = Holding(w) PROVE Sender' = Sender
      BY <2>0, <3>1 DEF Sender
    <3>2. CASE UNCHANGED vars
      BY <3>1, <3>2 DEF vars, Holding
    <3>3. ASSUME NEW w \in Workers, Enter(w) PROVE Sender' = Sender
      BY <3>1, <3>3 DEF Safe, TypeOK, Enter, Move, Holding
    <3>4. ASSUME NEW w \in Workers, Acquire(w) PROVE Mutex!Start(w)
      <4>1. \A v \in Workers : ~Holding(v)
        BY <3>0, <3>4 DEF Acquire, SetNX
      <4>2. Sender = NoOne
        BY <4>1 DEF Sender
      <4>3. Holding(w)'
        BY <3>4 DEF Safe, TypeOK, Acquire, Move, Holding
      <4>4. Sender' = w
        BY <3>0, <4>3 DEF OneSender, Sender
      <4> QED BY <4>2, <4>4 DEF Mutex!Start
    <3>5. ASSUME NEW w \in Workers, GiveUp(w) PROVE Sender' = Sender
      BY <3>1, <3>5 DEF Safe, TypeOK, GiveUp, Move, Waiting, Holding
    <3>6. ASSUME NEW w \in Workers, Finish(w) \/ FinishFails(w) PROVE Mutex!Stop
      <4>1. Holding(w) /\ Sender = w
        BY <2>2, <3>0, <3>6, SenderIsHolder DEF Finish, FinishFails
      <4>2. \A v \in Workers : ~Holding(v)'
        BY <2>2, <3>0, <3>6 DEF Safe, TypeOK, OneSender, Finish, FinishFails, Move, Holding
      <4> QED BY <4>1, <4>2 DEF Sender, Mutex!Stop
    <3>7. CASE Crash
      <4>1. Sender' = NoOne
        BY <3>7 DEF Crash, Idle, Holding, Sender
      <4> QED BY <4>1 DEF Mutex!Next, Mutex!Stop
    <3>8. CASE Tick
      BY <3>1, <3>8 DEF Safe, TypeOK, Tick, Holding
    <3> QED
      BY <3>2, <3>3, <3>4, <3>5, <3>6, <3>7, <3>8 DEF Next, Mutex!Next
  <2> QED BY <2>1, <2>2
<1> QED BY <1>1, <1>2, TypeCorrect, LeaseAlwaysHonoured, PTL DEF Spec, Mutex!Spec, ImplementsMutex
=============================================================================
