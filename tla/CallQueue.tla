----------------------------- MODULE CallQueue -----------------------------
(***************************************************************************)
(* The call queues of switchboard/src/callqueue.rs.  A queue is a sorted   *)
(* set in Redis; every call in it runs CallQueue::run in a task of its     *)
(* own, in any process, polls its rank, and rings agents once it is at the *)
(* head.  A second task per call keeps a heartbeat key, and whoever polls  *)
(* reaps the calls without one.  Agents may serve several queues; what     *)
(* keeps two calls from ringing one agent are expiring Redis keys:         *)
(* queue_available_lock (2 s, per queue), waiting_lock and                 *)
(* global_waiting_lock (a day; 10 s once somebody has asked for the agent) *)
(* and the wait keys after a call.                                         *)
(*                                                                         *)
(* Expiry is an action.  Where the code relies on its being quick enough,  *)
(* the expiry has a guard that says so, named Prompt.  A bridge is the     *)
(* legs and the answer of module Bridge without its own races.             *)
(***************************************************************************)
EXTENDS Naturals, FiniteSets

CONSTANTS Calls,     \* inbound channels; numbers, as equal scores are ordered by id
          Queues, Agents,
          QueueOf,   \* the queue a call is in
          Members,   \* of a queue, each a set of agents: a user, or a hunt group
          OwnWait,   \* agents with wait times of their own, for all queues
          RingAll,   \* queues whose strategy rings all available members
          Global,    \* scope of the keys that bind all queues
          None,
          MaxTime,   \* bound: what the clocks of the hosts may say
          MaxCrash,  \* bound: processes that die
          Prompt     \* whether steps between two keys take less than the keys live

Scopes == Queues \cup {Global}
Legs == Calls \X Agents
Locks == Scopes \X Agents

ASSUME QueueAssumption ==
    /\ Calls \subseteq Nat /\ IsFiniteSet(Calls)
    /\ QueueOf \in [Calls -> Queues]
    /\ Members \in [Queues -> SUBSET SUBSET Agents]
    /\ OwnWait \subseteq Agents
    /\ RingAll \subseteq Queues
    /\ Global \notin Queues /\ None \notin Queues
    /\ MaxTime \in Nat /\ MaxCrash \in Nat
    /\ Prompt \in BOOLEAN

VARIABLES score,     \* nebula:callqueue:<id>:calls, the score a call was added with
          queued,    \* and whether it is a member
          hung,      \* calls whose channel has hung up
          beating,   \* calls whose heartbeat task runs
          stillIn,   \* nebula:channel:<id>:still_in_queue:<queue>
          overtaken, \* pairs: the first came in front of the second, whose turn it was
          pc,        \* where a call is in CallQueue::run
          chosen,    \* agents being rung
          tried,     \* tried_members
          leg,       \* an agent's channel in the current bridge of a call
          answered,  \* calls whose bridge has been answered
          lock,      \* waiting_lock and global_waiting_lock
          reserved,  \* queue_available_lock
          cooling,   \* answer_wait, no_answer_wait, reject_wait
          doubled,   \* two calls of one queue have rung an agent together
          early,     \* a lock was given 10 s before the leg it protects had started
          blind      \* agents that were rung with their group, not found available

lineVars == <<score, queued, hung, beating, stillIn, overtaken>>
ringVars == <<chosen, tried, leg, answered, doubled>>
agentVars == <<lock, reserved, cooling, early, blind>>
vars == <<lineVars, pc, ringVars, agentVars>>

Init ==
    /\ score = [c \in Calls |-> 0]
    /\ queued = {} /\ hung = {} /\ beating = {} /\ stillIn = {} /\ overtaken = {}
    /\ pc = [c \in Calls |-> "out"]
    /\ chosen = [c \in Calls |-> {}] /\ tried = [c \in Calls |-> {}]
    /\ leg = [l \in Legs |-> "none"]
    /\ answered = {} /\ doubled = FALSE /\ early = FALSE
    /\ lock = [k \in Locks |-> "none"]
    /\ reserved = [a \in Agents |-> None]
    /\ cooling = {} /\ blind = {}

\* run() is under way in a process that lives.
Live(c) == pc[c] \notin {"out", "done", "dead"}

\* run() is past wait_position.
Serving(c) == pc[c] \in {"ready", "dial", "lock", "result"}

\* The call waits in the loop of wait_position.
Waiting(c) == pc[c] \in {"wait", "head"}

\* The call has read that it is at the head, and acts on that.
Turn(c) == pc[c] = "head" \/ Serving(c)

-----------------------------------------------------------------------------
(***************************************************************************)
(* The line: add_call, position, the heartbeat and the reaper              *)
(***************************************************************************)

Before(d, c) ==
    /\ QueueOf[d] = QueueOf[c]
    /\ score[d] < score[c] \/ (score[d] = score[c] /\ d < c)

\* position() = 0
AtHead(c) == c \in queued /\ \A d \in queued : ~Before(d, c)

\* ZADD with the second that the clock of this host said when it was read, some
\* time before: any second, so that the call may come in front of others.  The
\* heartbeat is spawned and has not beaten yet.
AddCall(c) ==
    /\ pc[c] = "out"
    /\ pc' = [pc EXCEPT ![c] = "wait"]
    /\ \E read \in 0..MaxTime : score' = [score EXCEPT ![c] = read]
    /\ queued' = queued \cup {c}
    /\ overtaken' = overtaken \cup {<<c, d>> : d \in {e \in queued : Turn(e) /\ Before(c, e)'}}
    /\ beating' = beating \cup {c}
    /\ UNCHANGED <<hung, stillIn, ringVars, agentVars>>

\* ZREM of a call.  Its heartbeat stops by itself and nobody looks at the key any
\* more, so both go with it.
LeaveLine(c) ==
    /\ queued' = queued \ {c}
    /\ beating' = beating \ {c}
    /\ stillIn' = stillIn \ {c}

\* One round of the heartbeat task.
Beat(c) ==
    /\ c \in beating
    /\ IF c \in hung
       THEN beating' = beating \ {c} /\ UNCHANGED stillIn
       ELSE stillIn' = stillIn \cup {c} /\ UNCHANGED beating
    /\ UNCHANGED <<score, overtaken, queued, hung, pc, ringVars, agentVars>>

\* A heartbeat that runs beats every 10 s, the key lives for 15.
BeatExpires(c) ==
    /\ c \in stillIn \ beating
    /\ stillIn' = stillIn \ {c}
    /\ UNCHANGED <<score, overtaken, queued, hung, beating, pc, ringVars, agentVars>>

\* The caller hangs up.
Hang(c) ==
    /\ pc[c] \notin {"out", "done"} /\ c \notin hung
    /\ hung' = hung \cup {c}
    /\ UNCHANGED <<score, overtaken, queued, beating, stillIn, pc, ringVars, agentVars>>

\* The process that runs c dies, and what it has spawned with it.
Crash(c) ==
    /\ Live(c)
    /\ Cardinality({d \in Calls : pc[d] = "dead"}) < MaxCrash
    /\ pc' = [pc EXCEPT ![c] = "dead"]
    /\ beating' = beating \ {c}
    /\ leg' = [l \in Legs |->
                 IF l[1] = c /\ leg[l] = "spawned" THEN "none" ELSE leg[l]]
    /\ UNCHANGED <<score, overtaken, queued, hung, stillIn, chosen, tried, answered,
                   doubled, agentVars>>

\* Mutant: a call without heartbeat leaves the set and is not hung up.
Reap_OnlyZrem(d) ==
    /\ \E c \in Calls : Waiting(c) /\ QueueOf[c] = QueueOf[d]
    /\ d \in queued
    /\ d \in hung \/ d \notin stillIn
    /\ LeaveLine(d)
    /\ UNCHANGED <<score, overtaken, hung, pc, ringVars, agentVars>>

\* Mutant: the reaper looks for channels that have hung up only.
Reap_HungOnly(d) ==
    /\ \E c \in Calls : Waiting(c) /\ QueueOf[c] = QueueOf[d]
    /\ d \in queued \cap hung
    /\ LeaveLine(d)
    /\ UNCHANGED <<score, overtaken, hung, pc, ringVars, agentVars>>

\* position(), of any call that polls: hung up calls leave the set, those
\* without heartbeat key are hung up first.
Reap(d) ==
    /\ \E c \in Calls : Waiting(c) /\ QueueOf[c] = QueueOf[d]
    /\ d \in queued
    /\ d \in hung \/ d \notin stillIn
    /\ LeaveLine(d)
    /\ hung' = hung \cup {d}
    /\ UNCHANGED <<score, overtaken, pc, ringVars, agentVars>>

-----------------------------------------------------------------------------
(***************************************************************************)
(* Agents: is_user_available                                               *)
(***************************************************************************)

\* user_in_call: a channel of the agent that is not hung up.
InCall(a) == \E c \in Calls : leg[<<c, a>>] \in {"up", "talk"}

\* is_waiting gets as far as the locks.
Asked(q, a) == ~InCall(a) /\ \A s \in {Global, q} : <<s, a>> \notin cooling

\* Mutant: an agent reserved for another queue is available.
Available_NoReserve(q, a) ==
    /\ Asked(q, a)
    /\ \A s \in {Global, q} : lock[<<s, a>>] = "none"

\* Neither locked nor reserved for another queue (setexnx_or_eq).
Available(q, a) ==
    /\ Asked(q, a)
    /\ \A s \in {Global, q} : lock[<<s, a>>] = "none"
    /\ reserved[a] \in {None, q}

\* The locks that is_waiting gives 10 s when q asks for the agents of as.
Shortened(q, as) ==
    {k \in {Global, q} \X as : Asked(q, k[2]) /\ lock[k] = "day"}

Free(q, as) == {a \in as : Available(q, a)}

\* Users asked one after the other until one is available.
Queries(q, as) ==
    {asked \in SUBSET as : \/ Cardinality(Free(q, asked)) = 1
                           \/ Free(q, asked) = {} /\ asked = as}

\* The users asked when every member of ms is: is_member_available of a group
\* returns at its first user that is available.
Rounds(q, ms) ==
    {UNION {asked[m] : m \in ms} :
        asked \in {f \in [ms -> SUBSET Agents] : \A m \in ms : f[m] \in Queries(q, m)}}

\* Mutant: is_waiting leaves the time of a lock alone.
Ask_NoExpire(q, as) ==
    /\ reserved' = [a \in Agents |->
                      IF a \in as /\ Available(q, a) THEN q ELSE reserved[a]]
    /\ UNCHANGED <<lock, early>>

\* is_user_available of each agent of as: a lock that has more than 10 s left
\* gets 10 s; an agent found available is reserved for q.
Ask(q, as) ==
    /\ lock' = [k \in Locks |->
                  IF k \in Shortened(q, as) THEN "10s" ELSE lock[k]]
    /\ reserved' = [a \in Agents |->
                      IF a \in as /\ Available(q, a) THEN q ELSE reserved[a]]
    /\ early' = (early \/ \E k \in Shortened(q, as), c \in Calls :
                            leg[<<c, k[2]>>] = "spawned")

\* The 2 s of queue_available_lock are over.
ReserveEnds(a) ==
    /\ reserved[a] # None
    /\ Prompt => \A c \in Calls :
         QueueOf[c] = reserved[a] =>
            /\ a \in chosen[c] => pc[c] \notin {"dial", "lock"}
            /\ leg[<<c, a>>] # "spawned"
    /\ reserved' = [reserved EXCEPT ![a] = None]
    /\ UNCHANGED <<lineVars, pc, ringVars, lock, cooling, early, blind>>

\* The 10 s of a lock are over.  (The day of one that nobody asks for is not.)
LockEnds(s, a) ==
    /\ lock[<<s, a>>] = "10s"
    /\ Prompt => \A c \in Calls : Live(c) => leg[<<c, a>>] \notin {"spawned", "over"}
    /\ lock' = [lock EXCEPT ![<<s, a>>] = "none"]
    /\ UNCHANGED <<lineVars, pc, ringVars, reserved, cooling, early, blind>>

WaitEnds(s, a) ==
    /\ <<s, a>> \in cooling
    /\ cooling' = cooling \ {<<s, a>>}
    /\ UNCHANGED <<lineVars, pc, ringVars, lock, reserved, early, blind>>

-----------------------------------------------------------------------------
(***************************************************************************)
(* CallQueue::run: wait_position                                           *)
(***************************************************************************)

Goto(c, at) == pc' = [pc EXCEPT ![c] = at]

\* The channel has hung up, or position() fails as the call is not in the set.
SeeHangup(c) ==
    /\ \/ pc[c] = "wait" /\ (c \in hung \/ c \notin queued)
       \/ pc[c] = "ready" /\ c \in hung
    /\ Goto(c, "leave")
    /\ UNCHANGED <<lineVars, ringVars, agentVars>>

\* Timeout, shortcode, too many waiting; in the ring loop the ring timeout.
GiveUp(c) ==
    /\ pc[c] \in {"wait", "ready"}
    /\ Goto(c, "leave")
    /\ UNCHANGED <<lineVars, ringVars, agentVars>>

\* Somebody else has picked up the call: queue_answered, Pickup.
PickUp(c) ==
    /\ pc[c] = "wait"
    /\ LeaveLine(c)
    /\ Goto(c, "leave")
    /\ UNCHANGED <<score, overtaken, hung, ringVars, agentVars>>

\* Mutant: a call goes on at any position.
Poll_NoPosition(c) ==
    /\ pc[c] = "wait"
    /\ c \in queued
    /\ Goto(c, "head")
    /\ UNCHANGED <<lineVars, ringVars, agentVars>>

\* position() of the call at the head.
Poll(c) ==
    /\ pc[c] = "wait"
    /\ AtHead(c)
    /\ Goto(c, "head")
    /\ UNCHANGED <<lineVars, ringVars, agentVars>>

\* is_available asks the members until one is available.
Look(c) ==
    /\ pc[c] = "head"
    /\ \E as \in Queries(QueueOf[c], UNION Members[QueueOf[c]]) :
         /\ Ask(QueueOf[c], as)
         /\ Goto(c, IF Free(QueueOf[c], as) = {} THEN "wait" ELSE "ready")
    /\ UNCHANGED <<lineVars, ringVars, cooling, blind>>

-----------------------------------------------------------------------------
(***************************************************************************)
(* CallQueue::run: the loop of bridge and bridge_result                    *)
(***************************************************************************)

\* The members asked: by "sequential" some, by the other strategies all.
Asks(c) ==
    IF QueueOf[c] \in RingAll THEN {Members[QueueOf[c]]} ELSE SUBSET Members[QueueOf[c]]

\* Who is rung when the members ms are available: all of them, or one not tried yet.
Picks(c, ms) ==
    IF QueueOf[c] \in RingAll THEN {UNION ms} \ {{}} ELSE ms \ tried[c]

\* Mutant: tried_members is never cleared.
Choose_NeverClears(c) ==
    /\ pc[c] = "ready" /\ c \notin hung
    /\ \E ms \in Asks(c) : \E as \in Rounds(QueueOf[c], ms) :
         LET picks == Picks(c, {m \in ms : Free(QueueOf[c], m) # {}}) IN
         /\ Ask(QueueOf[c], as)
         /\ \/ /\ \E rung \in picks :
                    /\ chosen' = [chosen EXCEPT ![c] = rung]
                    /\ blind' = blind \cup (rung \ Free(QueueOf[c], as))
               /\ Goto(c, "dial")
               /\ UNCHANGED tried
            \/ /\ ms = Members[QueueOf[c]] /\ picks = {}
               /\ UNCHANGED <<pc, chosen, tried, blind>>
    /\ UNCHANGED <<lineVars, leg, answered, doubled, cooling>>

\* bridge(): with members available but none left to try, tried_members is
\* cleared for the next round.  A group that is rung is rung as a whole.
Choose(c) ==
    /\ pc[c] = "ready" /\ c \notin hung
    /\ \E ms \in Asks(c) : \E as \in Rounds(QueueOf[c], ms) :
         LET picks == Picks(c, {m \in ms : Free(QueueOf[c], m) # {}}) IN
         /\ Ask(QueueOf[c], as)
         /\ \/ /\ \E rung \in picks :
                    /\ chosen' = [chosen EXCEPT ![c] = rung]
                    /\ blind' = blind \cup (rung \ Free(QueueOf[c], as))
               /\ Goto(c, "dial")
               /\ UNCHANGED tried
            \/ /\ ms = Members[QueueOf[c]] /\ picks = {}
               /\ tried' = IF Free(QueueOf[c], as) = {} THEN tried
                           ELSE [tried EXCEPT ![c] = {}]
               /\ UNCHANGED <<pc, chosen, blind>>
    /\ UNCHANGED <<lineVars, leg, answered, doubled, cooling>>

\* An agent is, or is about to be, rung for c, or its end is not handled yet.
Engaged(c, a) ==
    \/ pc[c] # "dead" /\ leg[<<c, a>>] \in {"spawned", "over"}
    \/ leg[<<c, a>>] \in {"up", "talk"}

\* bridge_extensions: a spawned new_outbound for everybody rung, or an error.
Dial(c) ==
    /\ pc[c] = "dial"
    /\ IF c \in hung
       THEN /\ Goto(c, "ready")
            /\ chosen' = [chosen EXCEPT ![c] = {}]
            /\ UNCHANGED <<leg, doubled>>
       ELSE /\ Goto(c, "lock")
            /\ leg' = [l \in Legs |->
                         IF l \in {c} \X chosen[c] THEN "spawned" ELSE leg[l]]
            /\ doubled' = (doubled \/ \E a \in chosen[c] \ blind, d \in Calls \ {c} :
                             QueueOf[d] = QueueOf[c] /\ Engaged(d, a))
            /\ UNCHANGED chosen
    /\ UNCHANGED <<lineVars, tried, answered, agentVars>>

\* Mutant: the locks of the queue are set, the global ones are not.
SetLocks_QueueOnly(c) ==
    /\ pc[c] = "lock"
    /\ Goto(c, "result")
    /\ lock' = [k \in Locks |->
                  IF k \in {QueueOf[c]} \X chosen[c] THEN "day" ELSE lock[k]]
    /\ UNCHANGED <<lineVars, ringVars, reserved, cooling, early, blind>>

SetLocks(c) ==
    /\ pc[c] = "lock"
    /\ Goto(c, "result")
    /\ lock' = [k \in Locks |->
                  IF k \in {Global, QueueOf[c]} \X chosen[c] THEN "day" ELSE lock[k]]
    /\ UNCHANGED <<lineVars, ringVars, reserved, cooling, early, blind>>

SetLeg(c, a, at) == leg' = [leg EXCEPT ![<<c, a>>] = at]

\* The spawned new_outbound gets as far as the agent's set of channels.
LegStarts(c, a) ==
    /\ leg[<<c, a>>] = "spawned"
    /\ SetLeg(c, a, "up")
    /\ UNCHANGED <<lineVars, pc, chosen, tried, answered, doubled, agentVars>>

\* It does not: the Hangup event names a channel without context.
LegFails(c, a) ==
    /\ leg[<<c, a>>] = "spawned"
    /\ SetLeg(c, a, "none")
    /\ UNCHANGED <<lineVars, pc, chosen, tried, answered, doubled, agentVars>>

\* The agent answers, the other legs are hung up.
Answer(c, a) ==
    /\ leg[<<c, a>>] = "up" /\ c \notin answered \cup hung
    /\ answered' = answered \cup {c}
    /\ leg' = [l \in Legs |->
                 IF l = <<c, a>> THEN "talk"
                 ELSE IF l[1] = c /\ leg[l] = "up" THEN "over" ELSE leg[l]]
    /\ UNCHANGED <<lineVars, pc, chosen, tried, doubled, agentVars>>

\* A leg ends: rejected, the ring timeout, the end of the bridge or the call.
LegEnds(c, a) ==
    /\ leg[<<c, a>>] \in {"up", "talk"}
    /\ SetLeg(c, a, "over")
    /\ UNCHANGED <<lineVars, pc, chosen, tried, answered, doubled, agentVars>>

\* bridge_result reads BridgeAnswer: queue_answered takes the call off the line.
HandleAnswer(c) ==
    /\ pc[c] = "result"
    /\ c \in answered \cap queued
    /\ LeaveLine(c)
    /\ UNCHANGED <<score, overtaken, hung, pc, ringVars, agentVars>>

\* bridge_result reads Hangup: set_waiting sets the wait key, then deletes the
\* locks.  A wait time of 0 is a key that expires at once.
HandleHangup(c, a) ==
    /\ pc[c] = "result"
    /\ leg[<<c, a>>] = "over"
    /\ SetLeg(c, a, "none")
    /\ cooling' = cooling \cup {<<IF a \in OwnWait THEN Global ELSE QueueOf[c], a>>}
    /\ lock' = [k \in Locks |->
                  IF k \in {Global, QueueOf[c]} \X {a} THEN "none" ELSE lock[k]]
    /\ UNCHANGED <<lineVars, pc, chosen, tried, answered, doubled, reserved, early, blind>>

\* bridge_result reads BridgeHangup, after the events of all legs.  (Only the
\* strategies that ring one member look at tried_members.)
EndBridge(c) ==
    /\ pc[c] = "result"
    /\ \A a \in Agents : leg[<<c, a>>] = "none"
    /\ c \in answered => c \notin queued
    /\ \/ Goto(c, "leave")
       \/ c \notin answered /\ Goto(c, "ready")
    /\ tried' = IF QueueOf[c] \in RingAll THEN tried
                ELSE [tried EXCEPT ![c] = @ \cup {chosen[c]}]
    /\ chosen' = [chosen EXCEPT ![c] = {}]
    /\ UNCHANGED <<lineVars, leg, answered, doubled, agentVars>>

\* The call flow's remove_call.
RemoveCall(c) ==
    /\ pc[c] = "leave"
    /\ Goto(c, "done")
    /\ LeaveLine(c)
    /\ UNCHANGED <<score, overtaken, hung, ringVars, agentVars>>

-----------------------------------------------------------------------------

\* What the task of c does by itself.
Run(c) ==
    \/ SeeHangup(c) \/ Poll(c) \/ Look(c) \/ Choose(c) \/ Dial(c) \/ SetLocks(c)
    \/ HandleAnswer(c) \/ EndBridge(c) \/ RemoveCall(c)
    \/ \E a \in Agents : HandleHangup(c, a)

Expire ==
    \/ \E a \in Agents : ReserveEnds(a)
    \/ \E s \in Scopes, a \in Agents : LockEnds(s, a) \/ WaitEnds(s, a)

Next ==
    \/ Expire
    \/ \E c \in Calls :
         \/ Run(c)
         \/ AddCall(c) \/ Beat(c) \/ BeatExpires(c) \/ Hang(c) \/ Crash(c) \/ Reap(c)
         \/ GiveUp(c) \/ PickUp(c)
         \/ \E a \in Agents :
              LegStarts(c, a) \/ LegFails(c, a) \/ Answer(c, a) \/ LegEnds(c, a)

Spec == Init /\ [][Next]_vars

\* Heartbeat keys expire, and the reaper runs as long as somebody polls.
FairLine == \A c \in Calls : WF_vars(BeatExpires(c)) /\ WF_vars(Reap(c))

\* The tasks of calls run on, and the keys of agents expire.  Nobody has to
\* call, answer, hang up, give up or die, and a talk may last for ever.
FairTasks ==
    /\ \A c \in Calls : WF_vars(Run(c))
    /\ \A a \in Agents : /\ WF_vars(\E s \in Scopes : LockEnds(s, a))
                         /\ WF_vars(\E s \in Scopes : WaitEnds(s, a))
-----------------------------------------------------------------------------
(***************************************************************************)
(* Properties                                                              *)
(***************************************************************************)

\* Types; also, only a call that is being served has agents chosen.
TypeOK ==
    /\ score \in [Calls -> 0..MaxTime]
    /\ queued \subseteq Calls /\ hung \subseteq Calls /\ beating \subseteq Calls
    /\ stillIn \subseteq Calls
    /\ overtaken \subseteq Calls \X Calls
    /\ pc \in [Calls -> {"out", "wait", "head", "ready", "dial", "lock", "result", "leave",
                         "done", "dead"}]
    /\ chosen \in [Calls -> SUBSET Agents] /\ tried \in [Calls -> SUBSET SUBSET Agents]
    /\ \A c \in Calls : chosen[c] # {} => pc[c] \in {"dial", "lock", "result", "dead"}
    /\ leg \in [Legs -> {"none", "spawned", "up", "talk", "over"}]
    /\ answered \subseteq Calls
    /\ lock \in [Locks -> {"none", "10s", "day"}]
    /\ reserved \in [Agents -> Queues \cup {None}]
    /\ cooling \subseteq Locks
    /\ doubled \in BOOLEAN /\ early \in BOOLEAN
    /\ blind \subseteq Agents

\* wait_position: two calls of a queue are served at once only if the one in
\* front was added while it was the other's turn already.  (The position is not
\* read again once a call has been at the head.)
InOrder ==
    \A c, d \in Calls :
        /\ QueueOf[c] = QueueOf[d]
        /\ Serving(c) /\ Serving(d)
        /\ c \notin hung \cup answered /\ d \notin hung \cup answered
        /\ Before(c, d)
        => <<c, d>> \in overtaken

\* A dead call does not hold up the line for those that wait in it.
DeadCallsGo ==
    \A d \in Calls :
        /\ pc[d] = "dead" /\ d \in queued
        /\ \E c \in Calls : Waiting(c) /\ QueueOf[c] = QueueOf[d]
        ~> \/ d \notin queued
           \/ \A c \in Calls : QueueOf[c] = QueueOf[d] => ~Waiting(c)

\* queue_available_lock: an agent is rung for one call at a time, whatever
\* queues it serves and whoever dies, unless it was rung with its group and
\* nobody had asked for it.
RungOnce ==
    Prompt /\ ~doubled =>
        \A a \in Agents \ blind : \A c, d \in Calls :
            {leg[<<c, a>>], leg[<<d, a>>]} \subseteq {"spawned", "up", "talk"} => c = d

\* The waiting locks: nor is it rung before the end of its last call has been
\* handled, unless a lock was shortened before its leg had started.
RestFirst ==
    Prompt /\ ~doubled /\ ~early =>
        \A a \in Agents \ blind : \A c, d \in Calls :
            Engaged(c, a) /\ Engaged(d, a) => c = d

\* Two calls of one queue ring an agent together only if one was added in front
\* of the other, whose turn it was, one of them has hung up, or a lock was
\* shortened too early.
DoubledIfOvertaken ==
    Prompt /\ doubled /\ ~early =>
        \E c, d \in Calls :
            c # d /\ QueueOf[c] = QueueOf[d] /\ (<<c, d>> \in overtaken \/ c \in hung)

\* is_waiting: a lock that its call did not take back goes once a call at the
\* head asks for the agent, unless the agent is being rung.
LocksHeal ==
    \A q \in Queues, a \in Agents :
        (\E c \in Calls : pc[c] = "ready" /\ QueueOf[c] = q) /\ lock[<<q, a>>] # "none"
            ~> \/ lock[<<q, a>>] = "none"
               \/ \A c \in Calls : QueueOf[c] = q => pc[c] # "ready"
               \/ \E c \in Calls : Engaged(c, a)

\* tried_members: a call at the head goes on ringing agents that are available,
\* tried or not.
KeepsRinging ==
    \A c \in Calls :
        pc[c] = "ready" /\ Free(QueueOf[c], UNION Members[QueueOf[c]]) # {}
            ~> pc[c] # "ready" \/ Free(QueueOf[c], UNION Members[QueueOf[c]]) = {}

\* What callers and agents are promised.  The line is the sorted set with its
\* scores, and it is the turn of whoever has read that it is at the head.  What
\* may have an agent rung that is not free is a call that was overtaken when it
\* was its turn (or has hung up), a lock shortened too early, a reply of Redis
\* that takes longer than the keys live, or the agent's group.
Service == INSTANCE QueueService
             WITH line  <- queued,
                  came  <- score,
                  turn  <- {c \in Calls : Turn(c)},
                  busy  <- [a \in Agents |-> {c \in Calls : Engaged(c, a)}],
                  fault <- IF ~Prompt \/ doubled \/ early THEN Agents ELSE blind

KeepsPromise == Service!Spec
=============================================================================
