------------------------- MODULE DistributedMutex -------------------------
(***************************************************************************)
(* The Redis lock every other component uses: redis/src/lib.rs, struct     *)
(* DistributedMutex.  A lock() call polls SET key token EX 8 NX; the owner *)
(* frees the key with a compare-and-delete script that Drop SPAWNS, so it  *)
(* runs some time after the critical section has ended.  Two escapes make  *)
(* the lock weaker than its name: the key expires by itself, and a waiter  *)
(* that has polled for more than GiveUp seconds returns without the key.   *)
(*                                                                         *)
(* An element of Tasks is one value of the Rust struct: locked once, as    *)
(* every caller in the repository does, under a random token of its own,   *)
(* the element itself (two equal tokens are not modelled).  When Reuse is  *)
(* TRUE an element whose token has left Redis stands for the next fresh    *)
(* value, so that contention never ends.  Time is counted in whole         *)
(* seconds, the unit of EX and of elapsed().as_secs(): several polls (one  *)
(* per 200 ms) may fall into one second, at least one does.                *)
(***************************************************************************)
EXTENDS Naturals

CONSTANTS Tasks,       \* the DistributedMutex values contending for one key
          NoTask,      \* the key does not exist
          Lease,       \* seconds given to SET ... EX (8 in the code)
          GiveUp,      \* a waiter stops after more than this many seconds (8)
          MaxLost,     \* bound: how many replies of SET may be lost
          Reuse        \* whether a finished element is used for a fresh value

ASSUME MutexAssumption ==
    /\ NoTask \notin Tasks
    /\ Lease \in Nat \ {0}
    /\ GiveUp \in Nat
    /\ MaxLost \in Nat
    /\ Reuse \in BOOLEAN

VARIABLES holder,      \* the token stored under the key
          ttl,         \* seconds the key has left
          pc,          \* where each task is in lock / critical section / drop
          entry,       \* how a task entered its critical section
          elapsed,     \* seconds since lock() was called
          stay,        \* seconds since the key was obtained
          polled,      \* waiters that have polled in the current second
          turnover,    \* waiters that have seen the key being obtained
          unlocking,   \* tasks whose spawned del_if_value has not run yet
          lost         \* replies lost so far

vars == <<holder, ttl, pc, entry, elapsed, stay, polled, turnover, unlocking, lost>>

Pc == {"idle", "waiting", "critical", "done"}

TypeOK ==
    /\ holder \in Tasks \cup {NoTask}
    /\ ttl \in 0..Lease
    /\ pc \in [Tasks -> Pc]
    /\ entry \in [Tasks -> {"none", "acquired", "gaveup"}]
    /\ elapsed \in [Tasks -> 0..GiveUp + 1]
    /\ stay \in [Tasks -> 0..Lease]
    /\ polled \in SUBSET Tasks
    /\ turnover \in SUBSET Tasks
    /\ unlocking \in SUBSET Tasks
    /\ lost \in 0..MaxLost

Init ==
    /\ holder = NoTask
    /\ ttl = 0
    /\ pc = [t \in Tasks |-> "idle"]
    /\ entry = [t \in Tasks |-> "none"]
    /\ elapsed = [t \in Tasks |-> 0]
    /\ stay = [t \in Tasks |-> 0]
    /\ polled = {}
    /\ turnover = {}
    /\ unlocking = {}
    /\ lost = 0

Waiters == {t \in Tasks : pc[t] = "waiting"}

Inside(t) == pc[t] = "critical"

-----------------------------------------------------------------------------

\* DistributedMutex::new and the call of lock().
Lock(t) ==
    /\ \/ pc[t] = "idle"
       \/ Reuse /\ pc[t] = "done" /\ holder # t /\ t \notin unlocking
    /\ pc' = [pc EXCEPT ![t] = "waiting"]
    /\ entry' = [entry EXCEPT ![t] = "none"]
    /\ elapsed' = [elapsed EXCEPT ![t] = 0]
    /\ stay' = [stay EXCEPT ![t] = 0]
    /\ turnover' = turnover \ {t}
    /\ UNCHANGED <<holder, ttl, polled, unlocking, lost>>

\* Mutant: SET without NX.
Acquire_NoNX(t) ==
    /\ pc[t] = "waiting"
    /\ holder' = t
    /\ ttl' = Lease
    /\ pc' = [pc EXCEPT ![t] = "critical"]
    /\ entry' = [entry EXCEPT ![t] = "acquired"]
    /\ polled' = polled \ {t}
    /\ turnover' = turnover \cup Waiters
    /\ UNCHANGED <<elapsed, stay, unlocking, lost>>

\* Mutant: a lease much longer than the time a waiter waits.
Acquire_LongLease(t) ==
    /\ pc[t] = "waiting"
    /\ holder = NoTask
    /\ holder' = t
    /\ ttl' = GiveUp + 3
    /\ pc' = [pc EXCEPT ![t] = "critical"]
    /\ entry' = [entry EXCEPT ![t] = "acquired"]
    /\ polled' = polled \ {t}
    /\ turnover' = turnover \cup Waiters
    /\ UNCHANGED <<elapsed, stay, unlocking, lost>>

\* acquire() returned true.
Acquire(t) ==
    /\ pc[t] = "waiting"
    /\ holder = NoTask
    /\ holder' = t
    /\ ttl' = Lease
    /\ pc' = [pc EXCEPT ![t] = "critical"]
    /\ entry' = [entry EXCEPT ![t] = "acquired"]
    /\ polled' = polled \ {t}
    /\ turnover' = turnover \cup Waiters
    /\ UNCHANGED <<elapsed, stay, unlocking, lost>>

\* Mutant: lock() polls without a limit.
Refused_NoLimit(t) ==
    /\ polled' = polled \cup {t}
    /\ UNCHANGED <<pc, entry>>

\* acquire() returned false: the task sleeps, or returns from lock() without
\* the key once it has waited for more than GiveUp seconds.
Refused(t) ==
    IF elapsed[t] > GiveUp
    THEN /\ pc' = [pc EXCEPT ![t] = "critical"]
         /\ entry' = [entry EXCEPT ![t] = "gaveup"]
         /\ polled' = polled \ {t}
    ELSE /\ polled' = polled \cup {t}
         /\ UNCHANGED <<pc, entry>>

\* SET NX is refused (a task may find its own token there, see AcquireUnheard),
\* and the task looks at elapsed().  An error of Redis, which setexnx takes for
\* a refusal, is not modelled.
PollTaken(t) ==
    /\ pc[t] = "waiting"
    /\ holder # NoTask
    /\ Refused(t)
    /\ UNCHANGED <<holder, ttl, elapsed, stay, turnover, unlocking, lost>>

\* SET is applied, its reply is lost with the connection: do_query repeats the
\* command, which now finds the key, so acquire() returns false.
AcquireUnheard(t) ==
    /\ pc[t] = "waiting"
    /\ holder = NoTask
    /\ lost < MaxLost
    /\ lost' = lost + 1
    /\ holder' = t
    /\ ttl' = Lease
    /\ Refused(t)
    /\ turnover' = turnover \cup Waiters
    /\ UNCHANGED <<elapsed, stay, unlocking>>

\* The mutex is dropped at the end of the section: unlock() spawns the DEL.
Leave(t) ==
    /\ pc[t] = "critical"
    /\ pc' = [pc EXCEPT ![t] = "done"]
    /\ unlocking' = unlocking \cup {t}
    /\ UNCHANGED <<holder, ttl, entry, elapsed, stay, polled, turnover, lost>>

\* Mutant: DEL without comparing the token.
Unlock_AnyToken(t) ==
    /\ t \in unlocking
    /\ unlocking' = unlocking \ {t}
    /\ holder' = NoTask
    /\ ttl' = 0
    /\ UNCHANGED <<pc, entry, elapsed, stay, polled, turnover, lost>>

\* del_if_value: only the key's own token deletes it.
Unlock(t) ==
    /\ t \in unlocking
    /\ unlocking' = unlocking \ {t}
    /\ IF holder = t THEN holder' = NoTask /\ ttl' = 0
                     ELSE UNCHANGED <<holder, ttl>>
    /\ UNCHANGED <<pc, entry, elapsed, stay, polled, turnover, lost>>

\* The process dies: no DEL is ever sent, or the spawned one is lost.
Crash(t) ==
    /\ pc[t] \in {"waiting", "critical"} \/ t \in unlocking
    /\ pc' = [pc EXCEPT ![t] = "done"]
    /\ polled' = polled \ {t}
    /\ unlocking' = unlocking \ {t}
    /\ UNCHANGED <<holder, ttl, entry, elapsed, stay, turnover, lost>>

\* A second passes; every waiter has polled in the one that ends.
Tick ==
    /\ Waiters \subseteq polled
    /\ polled' = {}
    /\ IF ttl > 1 THEN ttl' = ttl - 1 /\ UNCHANGED holder
                  ELSE ttl' = 0 /\ holder' = NoTask
    /\ elapsed' = [t \in Tasks |->
                     IF pc[t] = "waiting" /\ elapsed[t] <= GiveUp
                     THEN elapsed[t] + 1 ELSE elapsed[t]]
    /\ stay' = [t \in Tasks |->
                  IF pc[t] = "critical" /\ stay[t] < Lease
                  THEN stay[t] + 1 ELSE stay[t]]
    /\ UNCHANGED <<pc, entry, turnover, unlocking, lost>>

Poll(t) == Acquire(t) \/ PollTaken(t) \/ AcquireUnheard(t)

Next ==
    \/ Tick
    \/ \E t \in Tasks : \/ Lock(t) \/ Acquire(t) \/ PollTaken(t)
                        \/ AcquireUnheard(t) \/ Leave(t) \/ Unlock(t)
                        \/ Crash(t)

Spec == Init /\ [][Next]_vars

\* Time diverges (only finitely many calls fit into one second, hence strong
\* fairness of Tick) and a live waiter keeps polling.  Nothing is assumed of
\* the critical sections: they may last forever.
FairSpec == Spec /\ SF_vars(Tick) /\ \A t \in Tasks : WF_vars(Poll(t))

-----------------------------------------------------------------------------
(***************************************************************************)
(* Properties                                                              *)
(***************************************************************************)

\* A task that may be inside without owning the key: it gave up waiting, or
\* its section has outlived the lease.
Unprotected(t) == entry[t] = "gaveup" \/ stay[t] >= Lease

\* DistributedMutex::lock / del_if_value: two sections overlap only if one of
\* them gave up waiting or outlived its lease; a late unlock of an earlier
\* owner, a crash or a lost reply is never the cause.
Exclusion ==
    \A s, t \in Tasks :
        s # t /\ Inside(s) /\ Inside(t) => Unprotected(s) \/ Unprotected(t)

\* What makes Exclusion inductive: a protected owner's token is under the key,
\* with exactly the rest of the lease to live.
OwnerHasKey ==
    \A t \in Tasks :
        /\ pc[t] \in {"idle", "waiting"} => stay[t] = 0
        /\ Inside(t) /\ ~Unprotected(t) => holder = t /\ ttl = Lease - stay[t]
        /\ t \in unlocking => pc[t] = "done"

KeyExpires == ttl = 0 <=> holder = NoTask

\* The token stored under the key changes only by its owner's own DEL or by
\* expiry: del_if_value of a task that overstayed never frees the next owner.
KeyNotStolen ==
    [][holder # NoTask /\ holder' # holder => ttl = 1 \/ holder \in unlocking]_vars

\* lock(): the limit outlasts a lease (EX 8 against "more than 8 seconds"), so
\* a task gives up only if the key was obtained, by anyone, while it waited:
\* one owner alone, crashed or overstaying, never makes it enter without the key.
GiveUpNeedsTurnover == \A t \in Tasks : entry[t] = "gaveup" => t \in turnover

\* lock() returns: no waiter polls forever, whatever the owners do.
LockReturns == \A t \in Tasks : pc[t] = "waiting" ~> pc[t] # "waiting"
=============================================================================
