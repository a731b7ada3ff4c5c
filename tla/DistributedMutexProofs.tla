---------------------- MODULE DistributedMutexProofs ----------------------
(***************************************************************************)
(* DistributedMutex for every number of tasks, every lease and every       *)
(* give-up limit.                                                          *)
(***************************************************************************)
EXTENDS DistributedMutex, TLAPS

\* Every variable keeps its type: the counters stay within Lease and GiveUp.
THEOREM TypeCorrect == Spec => []TypeOK
<1> USE MutexAssumption DEF TypeOK, Pc, Waiters
<1>1. Init => TypeOK
  BY DEF Init
<1>2. TypeOK /\ [Next]_vars => TypeOK'
  <2> SUFFICES ASSUME TypeOK, [Next]_vars PROVE TypeOK'
    OBVIOUS
  <2>1. ASSUME NEW t \in Tasks, Lock(t) PROVE TypeOK'
    BY <2>1 DEF Lock
  <2>2. ASSUME NEW t \in Tasks, Acquire(t) PROVE TypeOK'
    BY <2>2 DEF Acquire
  <2>3. ASSUME NEW t \in Tasks, PollTaken(t) PROVE TypeOK'
    BY <2>3 DEF PollTaken, Refused
  <2>4. ASSUME NEW t \in Tasks, AcquireUnheard(t) PROVE TypeOK'
    BY <2>4 DEF AcquireUnheard, Refused
  <2>5. ASSUME NEW t \in Tasks, Leave(t) PROVE TypeOK'
    BY <2>5 DEF Leave
  <2>6. ASSUME NEW t \in Tasks, Unlock(t) PROVE TypeOK'
    BY <2>6 DEF Unlock
  <2>7. ASSUME NEW t \in Tasks, Crash(t) PROVE TypeOK'
    BY <2>7 DEF Crash
  <2>8. CASE Tick
    BY <2>8 DEF Tick
  <2>9. CASE UNCHANGED vars
    BY <2>9 DEF vars
  <2>10. QED
    BY <2>1, <2>2, <2>3, <2>4, <2>5, <2>6, <2>7, <2>8, <2>9 DEF Next
<1>3. QED
  BY <1>1, <1>2, PTL DEF Spec

-----------------------------------------------------------------------------

\* The strengthening of Exclusion: a protected owner's token is under the key
\* for exactly the rest of its lease, and a key without time does not exist.
IInv == OwnerHasKey /\ KeyExpires

LEMMA IInvInit == Init => IInv
BY MutexAssumption DEF Init, IInv, OwnerHasKey, KeyExpires, Inside

\* Every step preserves the strengthening.
LEMMA IInvNext == TypeOK /\ IInv /\ [Next]_vars => IInv'
<1> SUFFICES ASSUME TypeOK, IInv, [Next]_vars PROVE IInv'
  OBVIOUS
<1> USE MutexAssumption
    DEF TypeOK, Pc, IInv, OwnerHasKey, KeyExpires, Inside, Unprotected
<1>1. ASSUME NEW t \in Tasks, Lock(t) PROVE IInv'
  BY <1>1 DEF Lock
<1>2. ASSUME NEW t \in Tasks, Acquire(t) PROVE IInv'
  BY <1>2 DEF Acquire
<1>3. ASSUME NEW t \in Tasks, PollTaken(t) PROVE IInv'
  BY <1>3 DEF PollTaken, Refused
<1>4. ASSUME NEW t \in Tasks, AcquireUnheard(t) PROVE IInv'
  BY <1>4 DEF AcquireUnheard, Refused
<1>5. ASSUME NEW t \in Tasks, Leave(t) PROVE IInv'
  BY <1>5 DEF Leave
<1>6. ASSUME NEW t \in Tasks, Unlock(t) PROVE IInv'
  BY <1>6 DEF Unlock
<1>7. ASSUME NEW t \in Tasks, Crash(t) PROVE IInv'
  BY <1>7 DEF Crash
<1>8. CASE Tick
  BY <1>8 DEF Tick
<1>9. CASE UNCHANGED vars
  BY <1>9 DEF vars
<1>10. QED
  BY <1>1, <1>2, <1>3, <1>4, <1>5, <1>6, <1>7, <1>8, <1>9 DEF Next

\* DistributedMutex::lock: while a task is protected its token is under the key.
THEOREM OwnerKeepsKey == Spec => []OwnerHasKey
<1>1. IInv => OwnerHasKey
  BY DEF IInv
<1>2. QED
  BY <1>1, IInvInit, IInvNext, TypeCorrect, PTL DEF Spec

\* DistributedMutex: two critical sections overlap only if one of the two gave
\* up waiting or outlived its lease.
THEOREM MutualExclusion == Spec => []Exclusion
<1>1. TypeOK /\ IInv => Exclusion
  BY DEF IInv, OwnerHasKey, Exclusion
<1>2. QED
  BY <1>1, IInvInit, IInvNext, TypeCorrect, PTL DEF Spec

\* del_if_value: the token under the key is replaced only after its own lease
\* or its own DEL.
THEOREM KeyIsNotStolen == Spec => KeyNotStolen
<1> DEFINE Kept == holder # NoTask /\ holder' # holder
                     => ttl = 1 \/ holder \in unlocking
<1>1. TypeOK /\ IInv /\ [Next]_vars => [Kept]_vars
  <2> SUFFICES ASSUME TypeOK, IInv, Next PROVE Kept
    OBVIOUS
  <2>1. CASE Tick
    BY <2>1 DEF Tick, TypeOK, IInv, KeyExpires
  <2>2. ASSUME NEW t \in Tasks, Unlock(t) PROVE Kept
    BY <2>2 DEF Unlock
  <2>3. ASSUME NEW t \in Tasks, 
               Acquire(t) \/ AcquireUnheard(t)
        PROVE Kept
    BY <2>3 DEF Acquire, AcquireUnheard
  <2>4. ASSUME NEW t \in Tasks,
               Lock(t) \/ PollTaken(t) \/ Leave(t) \/ Crash(t)
        PROVE Kept
    BY <2>4 DEF Lock, PollTaken, Leave, Crash
  <2>5. QED
    BY <2>1, <2>2, <2>3, <2>4 DEF Next
<1>2. QED
  BY <1>1, IInvInit, IInvNext, TypeCorrect, PTL DEF Spec, KeyNotStolen

-----------------------------------------------------------------------------

\* What a waiter knows that has not seen the key being obtained: the owner it
\* found has had the key at least as long as it has waited.
WaitInv ==
    \A t \in Tasks :
        /\ pc[t] = "waiting" /\ t \notin turnover /\ holder # NoTask
              => elapsed[t] + ttl <= Lease
        /\ entry[t] = "gaveup" => t \in turnover
        /\ pc[t] = "waiting" => entry[t] # "gaveup"

\* lock(): with a limit that outlasts the lease, a task gives up only if the
\* key was obtained while it waited.
THEOREM GivingUpNeedsTurnover ==
    ASSUME Lease <= GiveUp + 1
    PROVE  Spec => []GiveUpNeedsTurnover
<1>1. Init => WaitInv
  BY MutexAssumption DEF Init, WaitInv
<1>2. TypeOK /\ IInv /\ WaitInv /\ [Next]_vars => WaitInv'
  <2> SUFFICES ASSUME TypeOK, IInv, WaitInv, [Next]_vars PROVE WaitInv'
    OBVIOUS
  <2> USE MutexAssumption DEF TypeOK, Pc, WaitInv, IInv, KeyExpires, Waiters
  <2>1. ASSUME NEW t \in Tasks, Lock(t) PROVE WaitInv'
    BY <2>1 DEF Lock
  <2>2. ASSUME NEW t \in Tasks, Acquire(t) PROVE WaitInv'
    BY <2>2 DEF Acquire
  <2>3. ASSUME NEW t \in Tasks, PollTaken(t) PROVE WaitInv'
    BY <2>3 DEF PollTaken, Refused
  <2>4. ASSUME NEW t \in Tasks, AcquireUnheard(t) PROVE WaitInv'
    BY <2>4 DEF AcquireUnheard, Refused
  <2>5. ASSUME NEW t \in Tasks, Leave(t) PROVE WaitInv'
    BY <2>5 DEF Leave
  <2>6. ASSUME NEW t \in Tasks, Unlock(t) PROVE WaitInv'
    BY <2>6 DEF Unlock
  <2>7. ASSUME NEW t \in Tasks, Crash(t) PROVE WaitInv'
    BY <2>7 DEF Crash
  <2>8. CASE Tick
    BY <2>8 DEF Tick
  <2>9. CASE UNCHANGED vars
    BY <2>9 DEF vars
  <2>10. QED
    BY <2>1, <2>2, <2>3, <2>4, <2>5, <2>6, <2>7, <2>8, <2>9 DEF Next
<1>3. WaitInv => GiveUpNeedsTurnover
  BY DEF WaitInv, GiveUpNeedsTurnover
<1>4. QED
  BY <1>1, <1>2, <1>3, IInvInit, IInvNext, TypeCorrect, PTL DEF Spec
=============================================================================
