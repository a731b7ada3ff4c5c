---------------------------- MODULE QueueService ----------------------------
(***************************************************************************)
(* What the call queues promise to callers and agents, without tasks, keys *)
(* and bridges: a call takes its place in the line, it is its turn once    *)
(* nobody stands before it, and only then an agent is rung for it, who is  *)
(* free.                                                                   *)
(*                                                                         *)
(* The place is that of the second a call brings along, which the clock of *)
(* some host says: a newcomer may stand in front of others, and does not   *)
(* take away the turn of a call that has it.  After a fault, which the     *)
(* implementation names, an agent may be rung that is not free; the order  *)
(* of the line is promised in any case.                                    *)
(***************************************************************************)
EXTENDS Naturals

CONSTANTS Calls, Agents, QueueOf

VARIABLES line,   \* the calls in line
          came,   \* the second each has brought along
          turn,   \* calls whose turn it is
          busy,   \* for which calls an agent is rung, talks, or is not free yet
          fault   \* agents for whom Free is set aside

vars == <<line, came, turn, busy, fault>>

Init ==
    /\ line = {} /\ turn = {}
    /\ came = [c \in Calls |-> 0]
    /\ busy = [a \in Agents |-> {}]
    /\ fault \in SUBSET Agents

Join(c) ==
    /\ c \notin line
    /\ line' = line \cup {c}
    /\ came' = [came EXCEPT ![c] = came'[c]]
    /\ UNCHANGED <<turn, busy>>

\* Calls of the same second stand in the order of their numbers.
First(c) ==
    /\ c \in line
    /\ \A d \in line : QueueOf[d] = QueueOf[c] =>
                        came[c] < came[d] \/ (came[c] = came[d] /\ ~(d < c))

TakeTurn(c) ==
    /\ First(c)
    /\ turn' = turn \cup {c}
    /\ UNCHANGED <<line, came, busy>>

Free(as) == \A a \in as : busy[a] = {}

Ring(c, as) ==
    /\ c \in line \cap turn
    /\ Free(as \ fault')
    /\ busy' = [a \in Agents |-> IF a \in as THEN busy[a] \cup {c} ELSE busy[a]]
    /\ UNCHANGED <<line, came, turn>>

\* Calls leave the line or lose their turn, agents become free.
Leave ==
    /\ line' \subseteq line /\ turn' \subseteq turn
    /\ \A a \in Agents : busy'[a] \subseteq busy[a]
    /\ came' = came

Next ==
    /\ fault \subseteq fault'
    /\ \/ Leave
       \/ \E c \in Calls : Join(c) \/ TakeTurn(c)
       \/ \E c \in Calls, as \in SUBSET Agents : Ring(c, as)

Spec == Init /\ [][Next]_vars
=============================================================================
