----------------------------- MODULE Conference -----------------------------
(***************************************************************************)
(* A call-flow conference (switchboard/src/conference.rs).  Every party is *)
(* a call whose task runs join(), wait() and leave() on three shared Redis *)
(* objects: the set of members, the set of chairmen and the event stream.  *)
(*                                                                         *)
(* Nobody reads the stream from the start: receive_event("$") blocks in an *)
(* XREAD that returns the first event added after the call, for a second   *)
(* at most, and then asks again from "$".  What is added between two such  *)
(* reads is never seen, so any reader that asks from "$" may miss an event.*)
(* The stream itself is not a variable: ear[c] says where c's reader       *)
(* stands, and missed remembers the parties that missed what they wait for.*)
(***************************************************************************)
EXTENDS Naturals, FiniteSets

CONSTANTS
    Parties,        \* the channels that enter the conference
    Chairs,         \* those that typed the chairman's pin
    NeedsChairman,  \* a chairman's pin is configured
    HasMoh,         \* the module has music on hold
    MayHangUp       \* the bound on the calls: those that may end

ASSUME ChairsAssumption ==
    /\ IsFiniteSet(Parties)
    /\ Chairs \subseteq Parties
    /\ NeedsChairman \in BOOLEAN
    /\ HasMoh \in BOOLEAN
    /\ MayHangUp \subseteq Parties

VARIABLES
    hung,       \* the channels with a hangup mark (is_hangup)
    members,    \* nebula:conference:{id}:members
    chairmans,  \* nebula:conference:{id}:chairmans
    links,      \* the pairs <<src, dst>> with dst a destination of src's audio
    pc,         \* the place of each party's task
    todo,       \* the members its loop has still to link or to unlink
    ear,        \* the state of its receive_event
    missed      \* the parties that missed an event they wait for

vars == <<hung, members, chairmans, links, pc, todo, ear, missed>>

-----------------------------------------------------------------------------
Places == {"out", "added", "chaired", "said", "listed", "hold",
           "linking",   \* until todo is empty; then play_alone() looks
           "alone", "music", "wait", "holdwait",
           "leaving", "left", "said_leave", "unlinking", "emptied", "gone"}

\* The places in which a task waits for MemberJoin: held back until a chairman
\* comes (in join and in wait), or told that it is alone.
Held        == {"hold", "holdwait"}
Alone       == {"alone", "music"}
AwaitsJoin  == Held \cup Alone
Listening   == AwaitsJoin \cup {"wait"}

Ears == {"off",    \* no receive_event
         "tail",   \* in a read from "$", or between two
         "kept",   \* reading from the id of an event of another name
         "heard"}  \* an event of the wanted name (or the day's end) comes next

TypeOK ==
    /\ hung \subseteq Parties
    /\ members \subseteq Parties
    /\ chairmans \subseteq Chairs
    /\ links \subseteq Parties \X Parties
    /\ pc \in [Parties -> Places]
    /\ todo \in [Parties -> SUBSET Parties]
    /\ ear \in [Parties -> Ears]
    /\ missed \subseteq Parties

Init ==
    /\ hung = {}
    /\ members = {} /\ chairmans = {} /\ links = {}
    /\ pc = [c \in Parties |-> "out"]
    /\ todo = [c \in Parties |-> {}]
    /\ ear = [c \in Parties |-> "off"]
    /\ missed = {}

-----------------------------------------------------------------------------
(* The stream.                                                             *)

Wants(d, ev) ==
    \/ ev = "member_join" /\ pc[d] \in AwaitsJoin
    \/ ev = "member_leave" /\ pc[d] = "wait"

\* XADD of `ev`: a reader returns it, or goes on from its id when it has another
\* name; those in `lost` were between two reads from "$" and never see it.
Add(ev) ==
    \E lost \in SUBSET {d \in Parties : ear[d] = "tail"} :
        /\ ear' = [d \in Parties |->
                      IF ear[d] \notin {"tail", "kept"} \/ d \in lost THEN ear[d]
                      ELSE IF Wants(d, ev) THEN "heard" ELSE "kept"]
        /\ missed' = missed \cup {d \in lost : Wants(d, ev)}

\* c goes to place p and waits there with a fresh receive_event("$").
Listen(c, p) ==
    /\ pc' = [pc EXCEPT ![c] = p]
    /\ ear' = [ear EXCEPT ![c] = "tail"]
    /\ missed' = missed \ {c}

\* c goes to place p and waits for no event there.
GoOn(c, p) ==
    /\ pc' = [pc EXCEPT ![c] = p]
    /\ ear' = [ear EXCEPT ![c] = "off"]
    /\ missed' = missed \ {c}

\* After a day receive_event gives up; its callers treat that as an event.  The
\* select of a call that has hung up ends, or starts it anew, long before.
DayPasses(c) ==
    /\ c \notin hung
    /\ ear[c] \in {"tail", "kept"}
    /\ ear' = [ear EXCEPT ![c] = "heard"]
    /\ UNCHANGED <<hung, members, chairmans, links, pc, todo, missed>>

-----------------------------------------------------------------------------
(* chairman_joined() drops the chairmen that have hung up until it finds   *)
(* one that has not.                                                       *)

ChairmanJoined == chairmans \ hung # {}

\* The chairmen left after a call: smembers has no order, so any of the dead
\* ones may have been met before the first live one.
Pruned(left) ==
    IF ChairmanJoined
    THEN \E dead \in SUBSET (chairmans \cap hung) : left = chairmans \ dead
    ELSE left = {}

-----------------------------------------------------------------------------
(* join()                                                                  *)

\* The call flow stops before the module when the call has hung up.
JoinAdd(c) ==
    /\ pc[c] = "out" /\ c \notin hung
    /\ members' = members \cup {c}
    /\ pc' = [pc EXCEPT ![c] = "added"]
    /\ UNCHANGED <<hung, chairmans, links, todo, ear, missed>>

JoinChair(c) ==
    /\ pc[c] = "added"
    /\ chairmans' = IF c \in Chairs THEN chairmans \cup {c} ELSE chairmans
    /\ pc' = [pc EXCEPT ![c] = "chaired"]
    /\ UNCHANGED <<hung, members, links, todo, ear, missed>>

\* A mutant: the chairman does not announce itself.
JoinSay_NotChair(c) ==
    /\ pc[c] = "chaired"
    /\ IF c \in Chairs THEN UNCHANGED <<ear, missed>> ELSE Add("member_join")
    /\ pc' = [pc EXCEPT ![c] = "said"]
    /\ UNCHANGED <<hung, members, chairmans, links, todo>>

JoinSay(c) ==
    /\ pc[c] = "chaired"
    /\ Add("member_join")
    /\ pc' = [pc EXCEPT ![c] = "said"]
    /\ UNCHANGED <<hung, members, chairmans, links, todo>>

\* A mutant: the party lists who was linked before, not who is a member.
JoinList_Linked(c) ==
    /\ pc[c] = "said"
    /\ todo' = [todo EXCEPT ![c] = {d \in members \ {c} : pc[d] \in {"linking", "alone", "music", "wait"}}]
    /\ pc' = [pc EXCEPT ![c] = "listed"]
    /\ UNCHANGED <<hung, members, chairmans, links, ear, missed>>

\* The list is read once, here, even if the party is then held for an hour.
JoinList(c) ==
    /\ pc[c] = "said"
    /\ todo' = [todo EXCEPT ![c] = members \ {c}]
    /\ pc' = [pc EXCEPT ![c] = "listed"]
    /\ UNCHANGED <<hung, members, chairmans, links, ear, missed>>

JoinCheck(c) ==
    /\ pc[c] = "listed"
    /\ \E left \in SUBSET chairmans : Pruned(left) /\ chairmans' = left
    /\ IF NeedsChairman /\ ~ChairmanJoined
       THEN Listen(c, "hold")
       ELSE GoOn(c, "linking")
    /\ UNCHANGED <<hung, members, links, todo>>

Both(c, d) == {<<c, d>>, <<d, c>>}

\* The outcomes of bridging, or of unbridging, c and d: it fails, and nobody
\* minds, when the hash of one of them is gone, some time after its hangup.
Outcomes(c, d, after) == IF {c, d} \cap hung = {} THEN {after} ELSE {after, links}

\* bridge_media() out and back for a member of the list.
Link(c) ==
    /\ pc[c] = "linking"
    /\ \E d \in todo[c] :
        /\ links' \in Outcomes(c, d, links \cup Both(c, d))
        /\ todo' = [todo EXCEPT ![c] = @ \ {d}]
    /\ UNCHANGED <<hung, members, chairmans, pc, ear, missed>>

-----------------------------------------------------------------------------
(* Held back until a chairman comes.  The hangup arm of the select is      *)
(* empty: the loop goes on, with a new read of the stream.                 *)

HeldEvent(c) ==
    /\ pc[c] \in Held /\ ear[c] = "heard"
    /\ \E left \in SUBSET chairmans : Pruned(left) /\ chairmans' = left
    /\ IF ChairmanJoined
       THEN IF pc[c] = "hold" THEN GoOn(c, "linking") ELSE Listen(c, "wait")
       ELSE Listen(c, pc[c])
    /\ UNCHANGED <<hung, members, links, todo>>

HeldHangup(c) ==
    /\ pc[c] \in Held /\ c \in hung /\ ear[c] \in {"tail", "kept", "heard"}
    /\ missed' = IF ear[c] = "heard" THEN missed \cup {c} ELSE missed
    /\ ear' = [ear EXCEPT ![c] = "tail"]
    /\ UNCHANGED <<hung, members, chairmans, links, pc, todo>>

-----------------------------------------------------------------------------
(* play_alone(): the only member is told so, then hears music, until       *)
(* somebody joins.  The channel it watches is the one in the set, which is *)
(* the caller unless the caller was taken out because it hung up.          *)

Count(c) ==
    /\ pc[c] = "linking" /\ todo[c] = {}
    /\ IF Cardinality(members) = 1 THEN Listen(c, "alone") ELSE Listen(c, "wait")
    /\ UNCHANGED <<hung, members, chairmans, links, todo>>

\* The music comes with a new receive_event: what the first one missed stays
\* missed, and so does what it had returned when the sound ended first.
SoundEnds(c) ==
    /\ pc[c] = "alone"
    /\ IF HasMoh
       THEN /\ pc' = [pc EXCEPT ![c] = "music"]
            /\ ear' = [ear EXCEPT ![c] = "tail"]
            /\ missed' = IF ear[c] = "heard" THEN missed \cup {c} ELSE missed
       ELSE Listen(c, "wait")
    /\ UNCHANGED <<hung, members, chairmans, links, todo>>

AloneEnds(c) ==
    /\ pc[c] \in Alone
    /\ ear[c] = "heard" \/ members \cap hung # {} \/ c \in hung
    /\ Listen(c, "wait")
    /\ UNCHANGED <<hung, members, chairmans, links, todo>>

-----------------------------------------------------------------------------
(* wait() and leave()                                                      *)

WaitEvent(c) ==
    /\ pc[c] = "wait" /\ ear[c] = "heard"
    /\ IF NeedsChairman
       THEN \E left \in SUBSET chairmans : Pruned(left) /\ chairmans' = left
       ELSE UNCHANGED chairmans
    /\ IF NeedsChairman /\ ~ChairmanJoined
       THEN Listen(c, "holdwait")
       ELSE GoOn(c, "linking")
    /\ UNCHANGED <<hung, members, links, todo>>


WaitHangup(c) ==
    /\ pc[c] = "wait" /\ c \in hung
    /\ GoOn(c, "leaving")
    /\ UNCHANGED <<hung, members, chairmans, links, todo>>

LeaveRemove(c) ==
    /\ pc[c] = "leaving"
    /\ members' = members \ {c}
    /\ pc' = [pc EXCEPT ![c] = "left"]
    /\ UNCHANGED <<hung, chairmans, links, todo, ear, missed>>

LeaveSay(c) ==
    /\ pc[c] = "left"
    /\ Add("member_leave")
    /\ pc' = [pc EXCEPT ![c] = "said_leave"]
    /\ UNCHANGED <<hung, members, chairmans, links, todo>>

LeaveList(c) ==
    /\ pc[c] = "said_leave"
    /\ todo' = [todo EXCEPT ![c] = members \ {c}]
    /\ pc' = [pc EXCEPT ![c] = "unlinking"]
    /\ UNCHANGED <<hung, members, chairmans, links, ear, missed>>

\* unbridge_media() out and back.  A member that has hung up is taken out of the
\* set on the way.
Unlink(c) ==
    /\ pc[c] = "unlinking"
    /\ \E d \in todo[c] :
        /\ links' \in Outcomes(c, d, links \ Both(c, d))
        /\ members' = IF d \in hung THEN members \ {d} ELSE members
        /\ todo' = [todo EXCEPT ![c] = @ \ {d}]
    /\ UNCHANGED <<hung, chairmans, pc, ear, missed>>

LeaveCount(c) ==
    /\ pc[c] = "unlinking" /\ todo[c] = {}
    /\ pc' = [pc EXCEPT ![c] = IF members = {} THEN "emptied" ELSE "gone"]
    /\ UNCHANGED <<hung, members, chairmans, links, todo, ear, missed>>

\* DEL of the stream, by a task that has seen an empty set.  A party that has come
\* since may have had an event in it that its next read would have returned.
LeaveDelete(c) ==
    /\ pc[c] = "emptied"
    /\ \E lost \in SUBSET {d \in Parties : ear[d] = "heard"} :
        /\ ear' = [d \in Parties |-> IF d \in lost THEN "kept" ELSE ear[d]]
        /\ missed' = missed \cup lost
    /\ pc' = [pc EXCEPT ![c] = "gone"]
    /\ UNCHANGED <<hung, members, chairmans, links, todo>>

-----------------------------------------------------------------------------
(* The calls.                                                              *)

Hangup(c) ==
    /\ c \in MayHangUp \ hung /\ pc[c] # "out"
    /\ hung' = hung \cup {c}
    /\ UNCHANGED <<members, chairmans, links, pc, todo, ear, missed>>

-----------------------------------------------------------------------------
TaskStep(c) ==
    \/ JoinAdd(c) \/ JoinChair(c) \/ JoinSay(c) \/ JoinList(c) \/ JoinCheck(c)
    \/ Link(c)
    \/ HeldEvent(c)
    \/ Count(c) \/ AloneEnds(c)
    \/ WaitEvent(c) \/ WaitHangup(c)
    \/ LeaveRemove(c) \/ LeaveSay(c) \/ LeaveList(c) \/ Unlink(c)
    \/ LeaveCount(c) \/ LeaveDelete(c)

Next == \E c \in Parties :
    \/ TaskStep(c)
    \/ DayPasses(c) \/ HeldHangup(c)
    \/ SoundEnds(c)
    \/ Hangup(c)

Spec == Init /\ [][Next]_vars

\* A task that can go on does.  Nothing is assumed of the stream, of hangups or
\* of the length of a sound.
Fairness == \A c \in Parties : WF_vars(TaskStep(c))

FairSpec == Spec /\ Fairness

-----------------------------------------------------------------------------
(* Properties                                                              *)

\* The parties whose join() has linked everybody it listed.
Mixed == {c \in Parties :
             \/ pc[c] = "linking" /\ todo[c] = {}
             \/ pc[c] \in {"alone", "music", "wait", "holdwait"}}

\* Everybody hears everybody: two live parties past the loop of join() are
\* linked both ways, whichever of them read the member list first.  It rests on
\* the order of join(): SADD before SMEMBERS.
Mesh ==
    \A c, d \in Mixed \ hung : c # d => <<c, d>> \in links

\* The parties that have announced themselves and are on the line.
Present == {d \in Parties \ hung : pc[d] \notin {"out", "added", "chaired"}}

\* A party is held back although a chairman is in, or plays the music of the
\* lonely although another is in, only if the event that would have ended the
\* wait fell between two reads of the stream: the check of join(), wait() and
\* play_alone() and the events leave no other way to be forgotten.
WaitsOnlyIfMissed ==
    \A c \in Parties \ hung :
        /\ pc[c] \in Held /\ Present \cap Chairs # {}
               => c \in missed \/ ear[c] = "heard"
        /\ pc[c] \in Alone /\ Present \ {c} # {}
               => c \in missed \/ ear[c] = "heard"

\* Nobody is mixed with anybody before a chairman has come.
NoMixBeforeChairman ==
    NeedsChairman /\ links # {} => \E ch \in Chairs : pc[ch] \notin {"out", "added"}

=============================================================================
