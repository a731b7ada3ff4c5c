-------------------------------- MODULE Room --------------------------------
(***************************************************************************)
(* A meeting room (switchboard/src/room.rs; join_room, sip_join_room,      *)
(* leave_room and handle_hangup of channel.rs).                            *)
(*                                                                         *)
(* The room is a Redis set of channels.  Every switchboard runs a ticker   *)
(* over the rooms in nebula:all_rooms; the tick takes an empty room off    *)
(* that list, and makes a member leave that has sent nothing for ten       *)
(* seconds.  A browser has no call that ends with it, so for a client that *)
(* just disappears the tick is all there is.                               *)
(*                                                                         *)
(* Joins, leaves and ticks are tasks of any switchboard, and only their    *)
(* single Redis commands are atomic.                                       *)
(***************************************************************************)
EXTENDS Naturals, FiniteSets

CONSTANTS
    Channels,  \* the channels that enter the room, each once
    Web,       \* those of web clients; the others are SIP calls
    MaxGoing,  \* the bound on departures: how many may be leaving, removed,
               \* hung up or silent in one behaviour
    MaxDeaths  \* the bound on the tasks that die with their process

ASSUME WebAssumption ==
    /\ Web \subseteq Channels
    /\ MaxGoing \in Nat
    /\ MaxDeaths \in Nat

VARIABLES
    members,  \* nebula:room:{id}:members
    listed,   \* the room is in nebula:all_rooms
    ctx,      \* the channels whose hash holds a call_context
    reach,    \* the channels whose hash holds proxy_host
    hung,     \* the channels with a hangup mark
    quiet,    \* the channels with a last_rtp_packet more than 10 s old
    links,    \* the pairs <<src, dst>> with dst a destination of src's audio
    join,     \* the place of each channel's join task
    todo,     \* the listed members that its loop has still to come to
    got,      \* the members that its reply is going to name
    told,     \* whom each web client has been told is in the room
    leave,    \* the places of the leave_room tasks
    sent,     \* the channels a Hangup request is on its way for
    tick,     \* the place of a ticker that looks at the room
    deaths,   \* the tasks that have died
    crossed,  \* a join began while somebody held an old count of zero
    late,     \* the pairs <<c, d>> in which c hears of d in the wrong order
    missed    \* the pairs <<c, d>> in which a SIP call d could not tell c

vars == <<members, listed, ctx, reach, hung, quiet, links, join, todo, got, told,
          leave, sent, tick, deaths, crossed, late, missed>>

-----------------------------------------------------------------------------
JoinPlaces  == {"out", "answered", "added", "entered", "linking", "stored", "done",
                "dead"}
LeavePlaces == {"idle", "start", "asked", "member", "removed", "empty", "counted"}

\* A channel's leave_room is called for it (by the client, an administrator or
\* the tick) or spawned by the handler of its hangup.
Kinds == {"call", "hangup"}

TypeOK ==
    /\ members \subseteq Channels
    /\ listed \in BOOLEAN
    /\ ctx \subseteq Channels /\ reach \subseteq Channels
    /\ hung \subseteq Channels /\ quiet \subseteq Channels
    /\ links \subseteq Channels \X Channels
    /\ join \in [Channels -> JoinPlaces]
    /\ todo \in [Channels -> SUBSET Channels]
    /\ got \in [Channels -> SUBSET Channels]
    /\ told \in [Channels -> SUBSET Channels]
    /\ leave \in [Kinds \X Channels -> LeavePlaces]
    /\ sent \subseteq Channels
    /\ tick \in {"idle", "empty"}
    /\ deaths \in 0..MaxDeaths
    /\ crossed \in BOOLEAN
    /\ late \subseteq Channels \X Channels
    /\ missed \subseteq Channels \X Channels

Init ==
    /\ members = {} /\ listed = FALSE
    /\ ctx = {} /\ reach = {} /\ hung = {} /\ quiet = {} /\ links = {}
    /\ join = [c \in Channels |-> "out"]
    /\ todo = [c \in Channels |-> {}]
    /\ got = [c \in Channels |-> {}]
    /\ told = [c \in Channels |-> {}]
    /\ leave = [t \in Kinds \X Channels |-> "idle"]
    /\ sent = {} /\ tick = "idle" /\ deaths = 0
    /\ crossed = FALSE /\ late = {} /\ missed = {}

\* Somebody has counted no members and is about to take the room off the list.
Emptying == tick = "empty" \/ \E t \in Kinds \X Channels : leave[t] = "empty"

\* The bound on departures leaves room for c.
MayGo(c) ==
    LET going == hung \cup quiet \cup
                 {d \in Channels : \E k \in Kinds : leave[<<k, d>>] # "idle"}
    IN  Cardinality(going \cup {c}) <= MaxGoing

-----------------------------------------------------------------------------
(* Joining.                                                                *)

\* The context is stored, last_rtp_packet is set by set_answered().
JoinAnswer(c) ==
    /\ join[c] = "out"
    /\ ctx' = ctx \cup {c}
    /\ join' = [join EXCEPT ![c] = "answered"]
    /\ UNCHANGED <<members, listed, reach, hung, quiet, links, todo, got, told,
                   leave, sent, tick, deaths, crossed, late, missed>>

JoinAdd(c) ==
    /\ join[c] = "answered"
    /\ members' = members \cup {c}
    /\ crossed' = (crossed \/ Emptying)
    /\ join' = [join EXCEPT ![c] = "added"]
    /\ UNCHANGED <<listed, ctx, reach, hung, quiet, links, todo, got, told,
                   leave, sent, tick, deaths, late, missed>>

JoinEnter(c) ==
    /\ join[c] = "added"
    /\ listed' = TRUE
    /\ join' = [join EXCEPT ![c] = "entered"]
    /\ UNCHANGED <<members, ctx, reach, hung, quiet, links, todo, got, told,
                   leave, sent, tick, deaths, crossed, late, missed>>

\* A mutant: those still joining are not listed.
JoinList_Joined(c) ==
    /\ join[c] = "entered"
    /\ todo' = [todo EXCEPT ![c] = {d \in members : join[d] = "done"}]
    /\ join' = [join EXCEPT ![c] = "linking"]
    /\ UNCHANGED <<members, listed, ctx, reach, hung, quiet, links, got, told,
                   leave, sent, tick, deaths, crossed, late, missed>>

JoinList(c) ==
    /\ join[c] = "entered"
    /\ todo' = [todo EXCEPT ![c] = members \ {c}]
    /\ join' = [join EXCEPT ![c] = "linking"]
    /\ UNCHANGED <<members, listed, ctx, reach, hung, quiet, links, got, told,
                   leave, sent, tick, deaths, crossed, late, missed>>

\* join_room() tells a web member at the address that its context has held since
\* before its SADD; sip_join_room(), at the one that its hash gets when its join
\* is over.
Hears(c, d) == d \in Web /\ d \in IF c \in Web THEN ctx ELSE reach

\* A member with a context is linked and goes into the reply, and it is told of c
\* if it can be; c itself may be out of the room by now.
JoinMember(c) ==
    /\ join[c] = "linking"
    /\ \E d \in todo[c] :
        /\ todo' = [todo EXCEPT ![c] = @ \ {d}]
        /\ IF d \in ctx
           THEN /\ links' = links \cup {<<c, d>>, <<d, c>>}
                /\ got' = [got EXCEPT ![c] = @ \cup {d}]
           ELSE UNCHANGED <<links, got>>
        /\ told' = IF Hears(c, d) THEN [told EXCEPT ![d] = @ \cup {c}] ELSE told
        /\ late' = IF Hears(c, d) /\ c \notin members THEN late \cup {<<d, c>>} ELSE late
        /\ missed' = IF c \notin Web /\ d \in Web \ reach THEN missed \cup {<<d, c>>} ELSE missed
    /\ UNCHANGED <<members, listed, ctx, reach, hung, quiet, join, leave, sent,
                   tick, deaths, crossed>>

\* The hashes of the web client's socket and channel get the room and its proxy.
JoinStore(c) ==
    /\ c \in Web /\ join[c] = "linking" /\ todo[c] = {}
    /\ reach' = reach \cup {c}
    /\ join' = [join EXCEPT ![c] = "stored"]
    /\ UNCHANGED <<members, listed, ctx, hung, quiet, links, todo, got, told, leave,
                   sent, tick, deaths, crossed, late, missed>>

\* The web client gets its reply.  A SIP call gets none.
JoinReply(c) ==
    /\ join[c] = IF c \in Web THEN "stored" ELSE "linking"
    /\ todo[c] = {}
    /\ told' = IF c \in Web THEN [told EXCEPT ![c] = @ \cup got[c]] ELSE told
    /\ got' = [got EXCEPT ![c] = {}]
    /\ join' = [join EXCEPT ![c] = "done"]
    /\ UNCHANGED <<members, listed, ctx, reach, hung, quiet, links, todo, leave,
                   sent, tick, deaths, crossed, late, missed>>

-----------------------------------------------------------------------------
(* Leaving.                                                                *)

\* hangup() and handle_hangup() mark the channel and stop its media, which
\* takes its streams out of everybody's sources and destinations.
Mark(c) ==
    /\ hung' = hung \cup {c}
    /\ links' = {l \in links : c \notin {l[1], l[2]}}

\* leave_room(): a SIP call is hung up at once, for a web client the handler of
\* the hangup is called.  Nothing happens without a context.
LeaveStart(k, c) ==
    /\ leave[<<k, c>>] = "start"
    /\ leave' = [leave EXCEPT ![<<k, c>>] = IF c \in ctx THEN "asked" ELSE "idle"]
    /\ IF c \in ctx \ Web THEN Mark(c) ELSE UNCHANGED <<hung, links>>
    /\ sent' = IF c \in ctx \cap Web THEN sent \cup {c} ELSE sent
    /\ UNCHANGED <<members, listed, ctx, reach, quiet, join, todo, got, told,
                   tick, deaths, crossed, late, missed>>

LeaveCheck(k, c) ==
    /\ leave[<<k, c>>] = "asked"
    /\ leave' = [leave EXCEPT ![<<k, c>>] = IF c \in members THEN "member" ELSE "idle"]
    /\ UNCHANGED <<members, listed, ctx, reach, hung, quiet, links, join, todo,
                   got, told, sent, tick, deaths, crossed, late, missed>>

LeaveRemove(k, c) ==
    /\ leave[<<k, c>>] = "member"
    /\ members' = members \ {c}
    /\ leave' = [leave EXCEPT ![<<k, c>>] = "removed"]
    /\ UNCHANGED <<listed, ctx, reach, hung, quiet, links, join, todo, got,
                   told, sent, tick, deaths, crossed, late, missed>>

\* A mutant: the count is not looked at.
LeaveCount_Always(k, c) ==
    /\ leave[<<k, c>>] = "removed"
    /\ leave' = [leave EXCEPT ![<<k, c>>] = "empty"]
    /\ UNCHANGED <<members, listed, ctx, reach, hung, quiet, links, join, todo,
                   got, told, sent, tick, deaths, crossed, late, missed>>

LeaveCount(k, c) ==
    /\ leave[<<k, c>>] = "removed"
    /\ leave' = [leave EXCEPT ![<<k, c>>] = IF members = {} THEN "empty" ELSE "counted"]
    /\ UNCHANGED <<members, listed, ctx, reach, hung, quiet, links, join, todo,
                   got, told, sent, tick, deaths, crossed, late, missed>>

LeaveUnlist(k, c) ==
    /\ leave[<<k, c>>] = "empty"
    /\ listed' = FALSE
    /\ leave' = [leave EXCEPT ![<<k, c>>] = "counted"]
    /\ UNCHANGED <<members, ctx, reach, hung, quiet, links, join, todo, got,
                   told, sent, tick, deaths, crossed, late, missed>>

\* A mutant: a member whose join is under way is not told.
LeaveSay_Joined(k, c) ==
    /\ leave[<<k, c>>] = "counted"
    /\ told' = [d \in Channels |->
                   IF d \in members \cap Web \cap ctx /\ join[d] = "done"
                   THEN told[d] \ {c} ELSE told[d]]
    /\ leave' = [leave EXCEPT ![<<k, c>>] = "idle"]
    /\ UNCHANGED <<members, listed, ctx, reach, hung, quiet, links, join, todo,
                   got, sent, tick, deaths, crossed, late, missed>>

\* The members that remain are told.  One whose join is under way is told
\* before the reply that still names c.
LeaveSay(k, c) ==
    LET hearers == members \cap Web \cap ctx
    IN
    /\ leave[<<k, c>>] = "counted"
    /\ told' = [d \in Channels |-> IF d \in hearers THEN told[d] \ {c} ELSE told[d]]
    /\ late' = late \cup {<<d, c>> : d \in {d \in hearers : c \in todo[d] \cup got[d]}}
    /\ leave' = [leave EXCEPT ![<<k, c>>] = "idle"]
    /\ UNCHANGED <<members, listed, ctx, reach, hung, quiet, links, join, todo,
                   got, sent, tick, deaths, crossed, missed>>

\* Who calls leave_room: the client, once its channel's hash names the room ...
LeaveRequest(c) ==
    /\ c \in Web \cap ctx /\ join[c] = "done" /\ MayGo(c)
    /\ leave[<<"call", c>>] = "idle"
    /\ c \notin hung
    /\ leave' = [leave EXCEPT ![<<"call", c>>] = "start"]
    /\ UNCHANGED <<members, listed, ctx, reach, hung, quiet, links, join, todo,
                   got, told, sent, tick, deaths, crossed, late, missed>>

\* ... an administrator in the room, who has been told of c ...
RemoveMember(c) ==
    /\ MayGo(c) /\ leave[<<"call", c>>] = "idle"
    /\ \E admin \in Web \cap members : join[admin] = "done" /\ c \in told[admin]
    /\ leave' = [leave EXCEPT ![<<"call", c>>] = "start"]
    /\ UNCHANGED <<members, listed, ctx, reach, hung, quiet, links, join, todo,
                   got, told, sent, tick, deaths, crossed, late, missed>>

\* A mutant: the tick trusts that who hung up has left.
TickMember_NotHung(c) ==
    /\ listed /\ c \in (members \cap quiet) \ hung
    /\ leave[<<"call", c>>] = "idle"
    /\ leave' = [leave EXCEPT ![<<"call", c>>] = "start"]
    /\ UNCHANGED <<members, listed, ctx, reach, hung, quiet, links, join, todo,
                   got, told, sent, tick, deaths, crossed, late, missed>>

\* ... and the tick of a listed room, for a member that has fallen silent.
TickMember(c) ==
    /\ listed /\ c \in members \cap quiet
    /\ leave[<<"call", c>>] = "idle"
    /\ leave' = [leave EXCEPT ![<<"call", c>>] = "start"]
    /\ UNCHANGED <<members, listed, ctx, reach, hung, quiet, links, join, todo,
                   got, told, sent, tick, deaths, crossed, late, missed>>

-----------------------------------------------------------------------------
(* The tick of the room.                                                   *)

TickCount ==
    /\ tick = "idle" /\ listed /\ members = {}
    /\ tick' = "empty"
    /\ UNCHANGED <<members, listed, ctx, reach, hung, quiet, links, join, todo,
                   got, told, leave, sent, deaths, crossed, late, missed>>

TickUnlist ==
    /\ tick = "empty"
    /\ listed' = FALSE
    /\ tick' = "idle"
    /\ UNCHANGED <<members, ctx, reach, hung, quiet, links, join, todo, got,
                   told, leave, sent, deaths, crossed, late, missed>>

-----------------------------------------------------------------------------
(* The channels.                                                           *)

\* handle_hangup(), for a Hangup request or a BYE.  It makes an answered channel
\* with a room leave it, and does nothing the second time.
HandleHangup(c) ==
    /\ c \in ctx
    /\ c \in sent \/ (c \notin Web \cup hung /\ MayGo(c))
    /\ sent' = sent \ {c}
    /\ IF c \in hung
       THEN UNCHANGED <<hung, links, leave>>
       ELSE /\ Mark(c)
            /\ leave' = [leave EXCEPT ![<<"hangup", c>>] = "start"]
    /\ UNCHANGED <<members, listed, ctx, reach, quiet, join, todo, got, told,
                   tick, deaths, crossed, late, missed>>

\* Nothing has come from c for ten seconds.
FallSilent(c) ==
    /\ c \in ctx \ quiet /\ MayGo(c)
    /\ quiet' = quiet \cup {c}
    /\ UNCHANGED <<members, listed, ctx, reach, hung, links, join, todo, got,
                   told, leave, sent, tick, deaths, crossed, late, missed>>

\* A minute after its hangup the hash of a channel expires.
Expire(c) ==
    /\ c \in hung \cap ctx
    /\ ctx' = ctx \ {c}
    /\ reach' = reach \ {c}
    /\ UNCHANGED <<members, listed, hung, quiet, links, join, todo, got, told,
                   leave, sent, tick, deaths, crossed, late, missed>>

\* The process of a join or of a leave dies with it.
Die(c) ==
    /\ deaths < MaxDeaths
    /\ deaths' = deaths + 1
    /\ \/ /\ join[c] \in {"answered", "added", "entered", "linking", "stored"}
          /\ join' = [join EXCEPT ![c] = "dead"]
          /\ UNCHANGED leave
       \/ \E k \in Kinds :
            /\ leave[<<k, c>>] # "idle"
            /\ leave' = [leave EXCEPT ![<<k, c>>] = "idle"]
          /\ UNCHANGED join
    /\ UNCHANGED <<members, listed, ctx, reach, hung, quiet, links, todo, got,
                   told, sent, tick, crossed, late, missed>>

-----------------------------------------------------------------------------
JoinStep(c) ==
    \/ JoinAdd(c) \/ JoinEnter(c) \/ JoinList(c)
    \/ JoinMember(c) \/ JoinStore(c) \/ JoinReply(c)

LeaveStep(k, c) ==
    \/ LeaveStart(k, c) \/ LeaveCheck(k, c) \/ LeaveRemove(k, c)
    \/ LeaveCount(k, c) \/ LeaveUnlist(k, c) \/ LeaveSay(k, c)

TickStep == TickCount \/ TickUnlist

Next ==
    \/ \E c \in Channels :
        \/ JoinAnswer(c) \/ JoinStep(c)
        \/ \E k \in Kinds : LeaveStep(k, c)
        \/ LeaveRequest(c) \/ RemoveMember(c) \/ TickMember(c)
        \/ HandleHangup(c) \/ FallSilent(c) \/ Expire(c) \/ Die(c)
    \/ TickStep

Spec == Init /\ [][Next]_vars

\* Tasks that run go on, and the ticker comes round.
Fairness ==
    /\ \A c \in Channels :
        /\ WF_vars(JoinStep(c))
        /\ \A k \in Kinds : WF_vars(LeaveStep(k, c))
        /\ WF_vars(TickMember(c))
    /\ WF_vars(TickStep)

FairSpec == Spec /\ Fairness

-----------------------------------------------------------------------------
(* Properties                                                              *)

\* The channels whose join has come to everybody it listed.
In == {c \in members \ hung :
          join[c] \in {"linking", "stored", "done"} /\ todo[c] = {}}

\* Two live members past the loops of their joins hear each other, and a web
\* client that has had its reply knows of both.  It rests on SADD before
\* SMEMBERS: whichever of the two lists second lists the other.  Only a SIP call
\* that came to a web member between that member's SADD and its proxy_host stays
\* unknown to its client, which had listed the room before the call was in it.
Connected ==
    \A c, d \in In : c # d =>
        /\ <<c, d>> \in links
        /\ c \in Web /\ join[c] = "done" => d \in told[c] \/ <<c, d>> \in missed

\* A room with members is on the list that the tickers read, except between the
\* two SADDs of a join, after a join that died there, or after a join that began
\* when another task had already counted nobody.
ListedUnlessCrossed ==
    members # {} =>
        \/ listed
        \/ \E c \in members : join[c] = "added"
        \/ deaths > 0
        \/ crossed

\* The leave of d is still to be announced.
Announcing(d) == \E k \in Kinds : leave[<<k, d>>] \in {"removed", "empty", "counted"}

\* No client goes on showing a member that has left, unless the two events came
\* in the wrong order: the leave was announced before the reply of a join that
\* had listed the member, or the join of a member already gone was announced
\* after its leave.
NoGhosts ==
    \A c \in In \cap Web : \A d \in told[c] \ members :
        Announcing(d) \/ <<c, d>> \in late \/ deaths > 0

\* A member that has fallen silent for good leaves, as long as the room is
\* ticked and the context that leave_room() needs has not expired: tasks that die
\* half-way do not keep it in.
SilentLeaves ==
    \A c \in Channels :
        <>[](c \in members \cap quiet) => <>[](~listed \/ c \notin ctx)
=============================================================================
