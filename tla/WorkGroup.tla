------------------------------ MODULE WorkGroup ------------------------------
(***************************************************************************)
(* What a stream with a consumer group promises, without reads, batches    *)
(* and channels: every entry that is added goes to one reader, once, and   *)
(* is handled by it or lost.  It is lost if there has been a fault, or if  *)
(* it is spoilt by a malformed entry, and what is lost never comes back.   *)
(* What was added before the group began is not given to anybody.          *)
(***************************************************************************)
CONSTANTS Readers, Entries

VARIABLES added,  \* the entries there are
          open,   \* those that wait for a reader
          hand,   \* what each reader has
          done,   \* those that have been handled
          fault,  \* there has been a fault
          spoilt  \* the entries that may be lost without one (never changes)

vars == <<added, open, hand, done, fault, spoilt>>

Init ==
    /\ added = {} /\ open = {} /\ done = {}
    /\ hand = [r \in Readers |-> {}]
    /\ fault = FALSE
    /\ spoilt \subseteq Entries

Add(p) ==
    /\ p \in Entries \ added
    /\ added' = added \cup {p}
    /\ open' = open \cup {p}
    /\ UNCHANGED <<hand, done>>

\* Nothing has been given out.
Unused == done = {} /\ \A r \in Readers : hand[r] = {}

\* The group begins behind what there is, or the reply to a reader is lost.
Miss(ps) ==
    /\ Unused \/ fault'
    /\ open' = open \ ps
    /\ UNCHANGED <<added, hand, done>>

Give(r, ps) ==
    /\ ps \subseteq open
    /\ open' = open \ ps
    /\ hand' = [hand EXCEPT ![r] = @ \cup ps]
    /\ UNCHANGED <<added, done>>

Handle(r, p) ==
    /\ p \in hand[r]
    /\ hand' = [hand EXCEPT ![r] = @ \ {p}]
    /\ done' = done \cup {p}
    /\ UNCHANGED <<added, open>>

Lose(r, ps) ==
    /\ fault' \/ ps \subseteq spoilt
    /\ hand' = [hand EXCEPT ![r] = @ \ ps]
    /\ UNCHANGED <<added, open, done>>

Next ==
    /\ fault => fault'
    /\ spoilt' = spoilt
    /\ \/ \E p \in Entries : Add(p)
       \/ \E ps \in SUBSET Entries : Miss(ps)
       \/ \E r \in Readers, ps \in SUBSET Entries : Give(r, ps) \/ Lose(r, ps)
       \/ \E r \in Readers, p \in Entries : Handle(r, p)

Spec == Init /\ [][Next]_vars
=============================================================================
