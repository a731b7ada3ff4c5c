----------------------------- MODULE RoomProofs -----------------------------
(***************************************************************************)
(* Proofs about Room for any channels, departures and deaths of tasks.     *)
(*                                                                         *)
(* A channel enters the member set once and leaves it once, so a task past *)
(* its SREM announces somebody who is gone for good (Gone, Entered).  Of   *)
(* two live members that have listed the set one still has the other to    *)
(* come to, or both know (Pairs).  Whoever a client has been told of, or   *)
(* will be by a reply, is a member, or its leave is still to be announced, *)
(* or the order was wrong (Heard).                                         *)
(***************************************************************************)
EXTENDS Room, TLAPS

\* The joins that have not added their channel.
Outside == {"out", "answered"}

\* A member has been added; a channel that has a task to remove it, too.  The
\* handler of a hangup starts one leave_room, after the mark.
Entered ==
    /\ \A c \in members : join[c] \notin Outside
    /\ \A k \in Kinds, c \in Channels :
          leave[<<k, c>>] \in {"member", "removed", "empty", "counted"}
              => join[c] \notin Outside
    /\ \A c \in Channels : leave[<<"hangup", c>>] # "idle" => c \in hung

\* After SREM the channel is not a member.
Gone ==
    \A c \in Channels : Announcing(c) => c \notin members

\* A context is lost only after a hangup.
LiveHaveContext ==
    \A c \in Channels \ hung : join[c] # "out" => c \in ctx

\* The lists are empty before SMEMBERS and after the reply, and name only
\* channels that have been added.
Lists ==
    \A c \in Channels :
        /\ join[c] \in Outside \cup {"added", "entered"}
               => todo[c] = {} /\ got[c] = {}
        /\ join[c] = "done" => todo[c] = {} /\ got[c] = {}
        /\ join[c] = "stored" => todo[c] = {}
        /\ \A d \in todo[c] : join[d] \notin Outside
        /\ join[c] \in Outside => told[c] = {}

\* c has d in its audio and, a web client, among those it is told of, unless d was
\* a SIP call that could not tell it.
Knows(c, d) ==
    /\ <<c, d>> \in links /\ <<d, c>> \in links
    /\ c \in Web => d \in told[c] \cup got[c] \/ <<c, d>> \in missed

Pairs ==
    \A c, d \in members \ hung :
        c # d /\ join[c] \in {"linking", "stored", "done"}
              /\ join[d] \in {"linking", "stored", "done"}
            => \/ d \in todo[c]
               \/ c \in todo[d]
               \/ Knows(c, d) /\ Knows(d, c)

\* Whoever is about to unlist the room has counted a set that is empty still.
CountHolds == Emptying => members = {} \/ crossed

\* Each member's room is listed, or it is between its two SADDs.
EachListed ==
    \A c \in members : join[c] = "added" \/ listed \/ deaths > 0 \/ crossed

Heard ==
    \A c \in (members \cap Web) \ hung :
        \A d \in (told[c] \cup todo[c] \cup got[c]) \ members :
            Announcing(d) \/ <<c, d>> \in late \/ deaths > 0

Inv ==
    /\ TypeOK
    /\ Entered
    /\ Gone
    /\ LiveHaveContext
    /\ Lists
    /\ Pairs
    /\ CountHolds
    /\ EachListed
    /\ Heard

-----------------------------------------------------------------------------
LEMMA InitInv == Init => Inv
  <1> SUFFICES ASSUME Init PROVE Inv OBVIOUS
  <1>1. \A k \in Kinds, c \in Channels : leave[<<k, c>>] = "idle"
    BY DEF Init, Kinds
  <1>2. TypeOK
    <2>1. leave \in [Kinds \X Channels -> LeavePlaces] BY DEF Init, LeavePlaces
    <2>2. deaths \in 0..MaxDeaths BY WebAssumption DEF WebAssumption, Init
    <2>3. join \in [Channels -> JoinPlaces] BY DEF Init, JoinPlaces
    <2> QED BY <2>1, <2>2, <2>3 DEF Init, TypeOK
  <1>3. Entered /\ Gone /\ CountHolds
    BY <1>1 DEF Init, Kinds, Entered, Gone, CountHolds, Announcing, Emptying
  <1>4. LiveHaveContext /\ Lists /\ Pairs /\ EachListed /\ Heard
    BY DEF Init, LiveHaveContext, Lists, Pairs, EachListed, Heard, Outside
  <1> QED BY <1>2, <1>3, <1>4 DEF Inv


\* Every action keeps the types.
LEMMA TypeStep == Inv /\ [Next]_vars => TypeOK'
  <1> SUFFICES ASSUME Inv, [Next]_vars PROVE TypeOK' OBVIOUS
  <1> USE WebAssumption DEF WebAssumption, Inv, TypeOK, JoinPlaces, LeavePlaces, Kinds
  <1>1. ASSUME NEW c \in Channels, JoinAnswer(c) PROVE TypeOK'
    BY <1>1 DEF JoinAnswer
  <1>2. ASSUME NEW c \in Channels, JoinAdd(c) PROVE TypeOK'
    BY <1>2 DEF JoinAdd
  <1>3. ASSUME NEW c \in Channels, JoinEnter(c) PROVE TypeOK'
    BY <1>3 DEF JoinEnter
  <1>4. ASSUME NEW c \in Channels, JoinList(c) PROVE TypeOK'
    BY <1>4 DEF JoinList
  <1>5. ASSUME NEW c \in Channels, JoinMember(c) PROVE TypeOK'
    BY <1>5 DEF JoinMember, Hears
  <1>6. ASSUME NEW c \in Channels, JoinStore(c) PROVE TypeOK'
    BY <1>6 DEF JoinStore
  <1>7. ASSUME NEW c \in Channels, JoinReply(c) PROVE TypeOK'
    BY <1>7 DEF JoinReply
  <1>8. ASSUME NEW k \in Kinds, NEW c \in Channels, LeaveStart(k, c) PROVE TypeOK'
    BY <1>8 DEF LeaveStart, Mark
  <1>9. ASSUME NEW k \in Kinds, NEW c \in Channels, LeaveCheck(k, c) PROVE TypeOK'
    BY <1>9 DEF LeaveCheck
  <1>10. ASSUME NEW k \in Kinds, NEW c \in Channels, LeaveRemove(k, c) PROVE TypeOK'
    BY <1>10 DEF LeaveRemove
  <1>11. ASSUME NEW k \in Kinds, NEW c \in Channels, LeaveCount(k, c) PROVE TypeOK'
    BY <1>11 DEF LeaveCount
  <1>12. ASSUME NEW k \in Kinds, NEW c \in Channels, LeaveUnlist(k, c) PROVE TypeOK'
    BY <1>12 DEF LeaveUnlist
  <1>13. ASSUME NEW k \in Kinds, NEW c \in Channels, LeaveSay(k, c) PROVE TypeOK'
    BY <1>13 DEF LeaveSay
  <1>14. ASSUME NEW c \in Channels, LeaveRequest(c) PROVE TypeOK'
    BY <1>14 DEF LeaveRequest
  <1>15. ASSUME NEW c \in Channels, RemoveMember(c) PROVE TypeOK'
    BY <1>15 DEF RemoveMember
  <1>16. ASSUME NEW c \in Channels, TickMember(c) PROVE TypeOK'
    BY <1>16 DEF TickMember
  <1>17. ASSUME NEW c \in Channels, HandleHangup(c) PROVE TypeOK'
    BY <1>17 DEF HandleHangup, Mark
  <1>18. ASSUME NEW c \in Channels, FallSilent(c) PROVE TypeOK'
    BY <1>18 DEF FallSilent
  <1>19. ASSUME NEW c \in Channels, Expire(c) PROVE TypeOK'
    BY <1>19 DEF Expire
  <1>20. ASSUME NEW c \in Channels, Die(c) PROVE TypeOK'
    <2>1. deaths' \in 0..MaxDeaths BY <1>20 DEF Die
    <2>2. join' \in [Channels -> JoinPlaces] BY <1>20 DEF Die
    <2>3. leave' \in [Kinds \X Channels -> LeavePlaces]
      <3>1. PICK j \in Kinds : leave' \in {leave, [leave EXCEPT ![<<j, c>>] = "idle"]}
        BY <1>20 DEF Die
      <3>2. leave \in [Kinds \X Channels -> LeavePlaces] OBVIOUS
      <3>3. "idle" \in LeavePlaces OBVIOUS
      <3> HIDE DEF Kinds, LeavePlaces
      <3> QED BY <3>1, <3>2, <3>3
    <2>4. UNCHANGED <<members, listed, ctx, reach, hung, quiet, links, todo, got, told,
                      sent, tick, crossed, late, missed>>
      BY <1>20 DEF Die
    <2> QED BY <2>1, <2>2, <2>3, <2>4
  <1>21. ASSUME TickCount PROVE TypeOK'
    BY <1>21 DEF TickCount
  <1>22. ASSUME TickUnlist PROVE TypeOK'
    BY <1>22 DEF TickUnlist
  <1>23. CASE UNCHANGED vars
    BY <1>23 DEF vars
  <1> QED
    BY <1>1, <1>2, <1>3, <1>4, <1>5, <1>6, <1>7, <1>8, <1>9, <1>10, <1>11, <1>12, <1>13,
       <1>14, <1>15, <1>16, <1>17, <1>18, <1>19, <1>20, <1>21, <1>22, <1>23
    DEF Next, JoinStep, LeaveStep, TickStep

\* A channel is added before anything is done about it.
LEMMA EnteredStep == Inv /\ [Next]_vars => Entered'
  <1> SUFFICES ASSUME Inv, [Next]_vars PROVE Entered' OBVIOUS
  <1> USE WebAssumption DEF WebAssumption, Inv, TypeOK, JoinPlaces, LeavePlaces, Kinds, Entered, Outside
  <1>1. ASSUME NEW c \in Channels, JoinAnswer(c) PROVE Entered'
    BY <1>1 DEF JoinAnswer
  <1>2. ASSUME NEW c \in Channels, JoinAdd(c) PROVE Entered'
    BY <1>2 DEF JoinAdd
  <1>3. ASSUME NEW c \in Channels, JoinEnter(c) PROVE Entered'
    BY <1>3 DEF JoinEnter
  <1>4. ASSUME NEW c \in Channels, JoinList(c) PROVE Entered'
    BY <1>4 DEF JoinList
  <1>5. ASSUME NEW c \in Channels, JoinMember(c) PROVE Entered'
    BY <1>5 DEF JoinMember, Hears
  <1>6. ASSUME NEW c \in Channels, JoinStore(c) PROVE Entered'
    BY <1>6 DEF JoinStore
  <1>7. ASSUME NEW c \in Channels, JoinReply(c) PROVE Entered'
    BY <1>7 DEF JoinReply
  <1>8. ASSUME NEW k \in Kinds, NEW c \in Channels, LeaveStart(k, c) PROVE Entered'
    BY <1>8 DEF LeaveStart, Mark
  <1>9. ASSUME NEW k \in Kinds, NEW c \in Channels, LeaveCheck(k, c) PROVE Entered'
    BY <1>9 DEF LeaveCheck
  <1>10. ASSUME NEW k \in Kinds, NEW c \in Channels, LeaveRemove(k, c) PROVE Entered'
    BY <1>10 DEF LeaveRemove
  <1>11. ASSUME NEW k \in Kinds, NEW c \in Channels, LeaveCount(k, c) PROVE Entered'
    BY <1>11 DEF LeaveCount
  <1>12. ASSUME NEW k \in Kinds, NEW c \in Channels, LeaveUnlist(k, c) PROVE Entered'
    BY <1>12 DEF LeaveUnlist
  <1>13. ASSUME NEW k \in Kinds, NEW c \in Channels, LeaveSay(k, c) PROVE Entered'
    BY <1>13 DEF LeaveSay
  <1>14. ASSUME NEW c \in Channels, LeaveRequest(c) PROVE Entered'
    BY <1>14 DEF LeaveRequest
  <1>15. ASSUME NEW c \in Channels, RemoveMember(c) PROVE Entered'
    BY <1>15 DEF RemoveMember
  <1>16. ASSUME NEW c \in Channels, TickMember(c) PROVE Entered'
    BY <1>16 DEF TickMember
  <1>17. ASSUME NEW c \in Channels, HandleHangup(c) PROVE Entered'
    BY <1>17 DEF HandleHangup, Mark
  <1>18. ASSUME NEW c \in Channels, FallSilent(c) PROVE Entered'
    BY <1>18 DEF FallSilent
  <1>19. ASSUME NEW c \in Channels, Expire(c) PROVE Entered'
    BY <1>19 DEF Expire
  <1>20. ASSUME NEW c \in Channels, Die(c) PROVE Entered'
    <2>1. members' = members /\ hung' = hung
      BY <1>20 DEF Die
    <2>2. \A d \in Channels : join[d] \notin Outside => join'[d] \notin Outside
      BY <1>20 DEF Die
    <2>3. \A k \in Kinds, d \in Channels : leave'[<<k, d>>] \in {leave[<<k, d>>], "idle"}
      <3>1. PICK j \in Kinds : leave' \in {leave, [leave EXCEPT ![<<j, c>>] = "idle"]}
        BY <1>20 DEF Die
      <3> QED BY <3>1
    <2> QED BY <2>1, <2>2, <2>3
  <1>21. ASSUME TickCount PROVE Entered'
    BY <1>21 DEF TickCount
  <1>22. ASSUME TickUnlist PROVE Entered'
    BY <1>22 DEF TickUnlist
  <1>23. CASE UNCHANGED vars
    BY <1>23 DEF vars
  <1> QED
    BY <1>1, <1>2, <1>3, <1>4, <1>5, <1>6, <1>7, <1>8, <1>9, <1>10, <1>11, <1>12, <1>13,
       <1>14, <1>15, <1>16, <1>17, <1>18, <1>19, <1>20, <1>21, <1>22, <1>23
    DEF Next, JoinStep, LeaveStep, TickStep

\* A channel is added once, so it does not come back behind its SREM.
LEMMA GoneStep == Inv /\ [Next]_vars => Gone'
  <1> SUFFICES ASSUME Inv, [Next]_vars PROVE Gone' OBVIOUS
  <1> USE WebAssumption DEF WebAssumption, Inv, TypeOK, JoinPlaces, LeavePlaces, Kinds, Entered, Gone, Announcing, Outside
  <1>1. ASSUME NEW c \in Channels, JoinAnswer(c) PROVE Gone'
    BY <1>1 DEF JoinAnswer
  <1>2. ASSUME NEW c \in Channels, JoinAdd(c) PROVE Gone'
    BY <1>2 DEF JoinAdd
  <1>3. ASSUME NEW c \in Channels, JoinEnter(c) PROVE Gone'
    BY <1>3 DEF JoinEnter
  <1>4. ASSUME NEW c \in Channels, JoinList(c) PROVE Gone'
    BY <1>4 DEF JoinList
  <1>5. ASSUME NEW c \in Channels, JoinMember(c) PROVE Gone'
    BY <1>5 DEF JoinMember, Hears
  <1>6. ASSUME NEW c \in Channels, JoinStore(c) PROVE Gone'
    BY <1>6 DEF JoinStore
  <1>7. ASSUME NEW c \in Channels, JoinReply(c) PROVE Gone'
    BY <1>7 DEF JoinReply
  <1>8. ASSUME NEW k \in Kinds, NEW c \in Channels, LeaveStart(k, c) PROVE Gone'
    BY <1>8 DEF LeaveStart, Mark
  <1>9. ASSUME NEW k \in Kinds, NEW c \in Channels, LeaveCheck(k, c) PROVE Gone'
    BY <1>9 DEF LeaveCheck
  <1>10. ASSUME NEW k \in Kinds, NEW c \in Channels, LeaveRemove(k, c) PROVE Gone'
    BY <1>10 DEF LeaveRemove
  <1>11. ASSUME NEW k \in Kinds, NEW c \in Channels, LeaveCount(k, c) PROVE Gone'
    BY <1>11 DEF LeaveCount
  <1>12. ASSUME NEW k \in Kinds, NEW c \in Channels, LeaveUnlist(k, c) PROVE Gone'
    BY <1>12 DEF LeaveUnlist
  <1>13. ASSUME NEW k \in Kinds, NEW c \in Channels, LeaveSay(k, c) PROVE Gone'
    BY <1>13 DEF LeaveSay
  <1>14. ASSUME NEW c \in Channels, LeaveRequest(c) PROVE Gone'
    BY <1>14 DEF LeaveRequest
  <1>15. ASSUME NEW c \in Channels, RemoveMember(c) PROVE Gone'
    BY <1>15 DEF RemoveMember
  <1>16. ASSUME NEW c \in Channels, TickMember(c) PROVE Gone'
    BY <1>16 DEF TickMember
  <1>17. ASSUME NEW c \in Channels, HandleHangup(c) PROVE Gone'
    BY <1>17 DEF HandleHangup, Mark
  <1>18. ASSUME NEW c \in Channels, FallSilent(c) PROVE Gone'
    BY <1>18 DEF FallSilent
  <1>19. ASSUME NEW c \in Channels, Expire(c) PROVE Gone'
    BY <1>19 DEF Expire
  <1>20. ASSUME NEW c \in Channels, Die(c) PROVE Gone'
    BY <1>20 DEF Die
  <1>21. ASSUME TickCount PROVE Gone'
    BY <1>21 DEF TickCount
  <1>22. ASSUME TickUnlist PROVE Gone'
    BY <1>22 DEF TickUnlist
  <1>23. CASE UNCHANGED vars
    BY <1>23 DEF vars
  <1> QED
    BY <1>1, <1>2, <1>3, <1>4, <1>5, <1>6, <1>7, <1>8, <1>9, <1>10, <1>11, <1>12, <1>13,
       <1>14, <1>15, <1>16, <1>17, <1>18, <1>19, <1>20, <1>21, <1>22, <1>23
    DEF Next, JoinStep, LeaveStep, TickStep

\* Only the hash of a channel that hung up expires.
LEMMA ContextStep == Inv /\ [Next]_vars => LiveHaveContext'
  <1> SUFFICES ASSUME Inv, [Next]_vars PROVE LiveHaveContext' OBVIOUS
  <1> USE WebAssumption DEF WebAssumption, Inv, TypeOK, JoinPlaces, LeavePlaces, Kinds, LiveHaveContext
  <1>1. ASSUME NEW c \in Channels, JoinAnswer(c) PROVE LiveHaveContext'
    BY <1>1 DEF JoinAnswer
  <1>2. ASSUME NEW c \in Channels, JoinAdd(c) PROVE LiveHaveContext'
    BY <1>2 DEF JoinAdd
  <1>3. ASSUME NEW c \in Channels, JoinEnter(c) PROVE LiveHaveContext'
    BY <1>3 DEF JoinEnter
  <1>4. ASSUME NEW c \in Channels, JoinList(c) PROVE LiveHaveContext'
    BY <1>4 DEF JoinList
  <1>5. ASSUME NEW c \in Channels, JoinMember(c) PROVE LiveHaveContext'
    BY <1>5 DEF JoinMember, Hears
  <1>6. ASSUME NEW c \in Channels, JoinStore(c) PROVE LiveHaveContext'
    BY <1>6 DEF JoinStore
  <1>7. ASSUME NEW c \in Channels, JoinReply(c) PROVE LiveHaveContext'
    BY <1>7 DEF JoinReply
  <1>8. ASSUME NEW k \in Kinds, NEW c \in Channels, LeaveStart(k, c) PROVE LiveHaveContext'
    BY <1>8 DEF LeaveStart, Mark
  <1>9. ASSUME NEW k \in Kinds, NEW c \in Channels, LeaveCheck(k, c) PROVE LiveHaveContext'
    BY <1>9 DEF LeaveCheck
  <1>10. ASSUME NEW k \in Kinds, NEW c \in Channels, LeaveRemove(k, c) PROVE LiveHaveContext'
    BY <1>10 DEF LeaveRemove
  <1>11. ASSUME NEW k \in Kinds, NEW c \in Channels, LeaveCount(k, c) PROVE LiveHaveContext'
    BY <1>11 DEF LeaveCount
  <1>12. ASSUME NEW k \in Kinds, NEW c \in Channels, LeaveUnlist(k, c) PROVE LiveHaveContext'
    BY <1>12 DEF LeaveUnlist
  <1>13. ASSUME NEW k \in Kinds, NEW c \in Channels, LeaveSay(k, c) PROVE LiveHaveContext'
    BY <1>13 DEF LeaveSay
  <1>14. ASSUME NEW c \in Channels, LeaveRequest(c) PROVE LiveHaveContext'
    BY <1>14 DEF LeaveRequest
  <1>15. ASSUME NEW c \in Channels, RemoveMember(c) PROVE LiveHaveContext'
    BY <1>15 DEF RemoveMember
  <1>16. ASSUME NEW c \in Channels, TickMember(c) PROVE LiveHaveContext'
    BY <1>16 DEF TickMember
  <1>17. ASSUME NEW c \in Channels, HandleHangup(c) PROVE LiveHaveContext'
    BY <1>17 DEF HandleHangup, Mark
  <1>18. ASSUME NEW c \in Channels, FallSilent(c) PROVE LiveHaveContext'
    BY <1>18 DEF FallSilent
  <1>19. ASSUME NEW c \in Channels, Expire(c) PROVE LiveHaveContext'
    BY <1>19 DEF Expire
  <1>20. ASSUME NEW c \in Channels, Die(c) PROVE LiveHaveContext'
    BY <1>20 DEF Die
  <1>21. ASSUME TickCount PROVE LiveHaveContext'
    BY <1>21 DEF TickCount
  <1>22. ASSUME TickUnlist PROVE LiveHaveContext'
    BY <1>22 DEF TickUnlist
  <1>23. CASE UNCHANGED vars
    BY <1>23 DEF vars
  <1> QED
    BY <1>1, <1>2, <1>3, <1>4, <1>5, <1>6, <1>7, <1>8, <1>9, <1>10, <1>11, <1>12, <1>13,
       <1>14, <1>15, <1>16, <1>17, <1>18, <1>19, <1>20, <1>21, <1>22, <1>23
    DEF Next, JoinStep, LeaveStep, TickStep

\* The loop starts with SMEMBERS and ends with the reply.
LEMMA ListsStep == Inv /\ [Next]_vars => Lists'
  <1> SUFFICES ASSUME Inv, [Next]_vars PROVE Lists' OBVIOUS
  <1> USE WebAssumption DEF WebAssumption, Inv, TypeOK, JoinPlaces, LeavePlaces, Kinds, Entered, Lists, Outside
  <1>1. ASSUME NEW c \in Channels, JoinAnswer(c) PROVE Lists'
    BY <1>1 DEF JoinAnswer
  <1>2. ASSUME NEW c \in Channels, JoinAdd(c) PROVE Lists'
    BY <1>2 DEF JoinAdd
  <1>3. ASSUME NEW c \in Channels, JoinEnter(c) PROVE Lists'
    BY <1>3 DEF JoinEnter
  <1>4. ASSUME NEW c \in Channels, JoinList(c) PROVE Lists'
    BY <1>4 DEF JoinList
  <1>5. ASSUME NEW c \in Channels, JoinMember(c) PROVE Lists'
    BY <1>5 DEF JoinMember, Hears
  <1>6. ASSUME NEW c \in Channels, JoinStore(c) PROVE Lists'
    BY <1>6 DEF JoinStore
  <1>7. ASSUME NEW c \in Channels, JoinReply(c) PROVE Lists'
    BY <1>7 DEF JoinReply
  <1>8. ASSUME NEW k \in Kinds, NEW c \in Channels, LeaveStart(k, c) PROVE Lists'
    BY <1>8 DEF LeaveStart, Mark
  <1>9. ASSUME NEW k \in Kinds, NEW c \in Channels, LeaveCheck(k, c) PROVE Lists'
    BY <1>9 DEF LeaveCheck
  <1>10. ASSUME NEW k \in Kinds, NEW c \in Channels, LeaveRemove(k, c) PROVE Lists'
    BY <1>10 DEF LeaveRemove
  <1>11. ASSUME NEW k \in Kinds, NEW c \in Channels, LeaveCount(k, c) PROVE Lists'
    BY <1>11 DEF LeaveCount
  <1>12. ASSUME NEW k \in Kinds, NEW c \in Channels, LeaveUnlist(k, c) PROVE Lists'
    BY <1>12 DEF LeaveUnlist
  <1>13. ASSUME NEW k \in Kinds, NEW c \in Channels, LeaveSay(k, c) PROVE Lists'
    BY <1>13 DEF LeaveSay
  <1>14. ASSUME NEW c \in Channels, LeaveRequest(c) PROVE Lists'
    BY <1>14 DEF LeaveRequest
  <1>15. ASSUME NEW c \in Channels, RemoveMember(c) PROVE Lists'
    BY <1>15 DEF RemoveMember
  <1>16. ASSUME NEW c \in Channels, TickMember(c) PROVE Lists'
    BY <1>16 DEF TickMember
  <1>17. ASSUME NEW c \in Channels, HandleHangup(c) PROVE Lists'
    BY <1>17 DEF HandleHangup, Mark
  <1>18. ASSUME NEW c \in Channels, FallSilent(c) PROVE Lists'
    BY <1>18 DEF FallSilent
  <1>19. ASSUME NEW c \in Channels, Expire(c) PROVE Lists'
    BY <1>19 DEF Expire
  <1>20. ASSUME NEW c \in Channels, Die(c) PROVE Lists'
    BY <1>20 DEF Die
  <1>21. ASSUME TickCount PROVE Lists'
    BY <1>21 DEF TickCount
  <1>22. ASSUME TickUnlist PROVE Lists'
    BY <1>22 DEF TickUnlist
  <1>23. CASE UNCHANGED vars
    BY <1>23 DEF vars
  <1> QED
    BY <1>1, <1>2, <1>3, <1>4, <1>5, <1>6, <1>7, <1>8, <1>9, <1>10, <1>11, <1>12, <1>13,
       <1>14, <1>15, <1>16, <1>17, <1>18, <1>19, <1>20, <1>21, <1>22, <1>23
    DEF Next, JoinStep, LeaveStep, TickStep

\* The second of two joins to list the members finds the first.
LEMMA PairsStep == Inv /\ [Next]_vars => Pairs'
  <1> SUFFICES ASSUME Inv, [Next]_vars PROVE Pairs' OBVIOUS
  <1> USE WebAssumption DEF WebAssumption, Inv, TypeOK, JoinPlaces, LeavePlaces, Kinds, Entered, Gone, Announcing, LiveHaveContext, Lists, Pairs, Knows, Outside
  <1>1. ASSUME NEW c \in Channels, JoinAnswer(c) PROVE Pairs'
    BY <1>1 DEF JoinAnswer
  <1>2. ASSUME NEW c \in Channels, JoinAdd(c) PROVE Pairs'
    BY <1>2 DEF JoinAdd
  <1>3. ASSUME NEW c \in Channels, JoinEnter(c) PROVE Pairs'
    BY <1>3 DEF JoinEnter
  <1>4. ASSUME NEW c \in Channels, JoinList(c) PROVE Pairs'
    BY <1>4 DEF JoinList
  <1>5. ASSUME NEW c \in Channels, JoinMember(c) PROVE Pairs'
    BY <1>5 DEF JoinMember, Hears
  <1>6. ASSUME NEW c \in Channels, JoinStore(c) PROVE Pairs'
    BY <1>6 DEF JoinStore
  <1>7. ASSUME NEW c \in Channels, JoinReply(c) PROVE Pairs'
    BY <1>7 DEF JoinReply
  <1>8. ASSUME NEW k \in Kinds, NEW c \in Channels, LeaveStart(k, c) PROVE Pairs'
    <2>1. /\ hung \subseteq hung'
          /\ \A x, y \in Channels \ hung' : <<x, y>> \in links => <<x, y>> \in links'
      BY <1>8 DEF LeaveStart, Mark
    <2>2. UNCHANGED <<members, join, todo, got, told, missed>> BY <1>8 DEF LeaveStart
    <2> QED BY <2>1, <2>2
  <1>9. ASSUME NEW k \in Kinds, NEW c \in Channels, LeaveCheck(k, c) PROVE Pairs'
    BY <1>9 DEF LeaveCheck
  <1>10. ASSUME NEW k \in Kinds, NEW c \in Channels, LeaveRemove(k, c) PROVE Pairs'
    BY <1>10 DEF LeaveRemove
  <1>11. ASSUME NEW k \in Kinds, NEW c \in Channels, LeaveCount(k, c) PROVE Pairs'
    BY <1>11 DEF LeaveCount
  <1>12. ASSUME NEW k \in Kinds, NEW c \in Channels, LeaveUnlist(k, c) PROVE Pairs'
    BY <1>12 DEF LeaveUnlist
  <1>13. ASSUME NEW k \in Kinds, NEW c \in Channels, LeaveSay(k, c) PROVE Pairs'
    <2>1. c \notin members BY <1>13 DEF LeaveSay
    <2>2. \A d \in members : told'[d] \in SUBSET Channels /\ told[d] \subseteq told'[d] \cup {c}
      BY <1>13 DEF LeaveSay
    <2>3. UNCHANGED <<members, hung, links, join, todo, got, missed>> BY <1>13 DEF LeaveSay
    <2>4. \A x, y \in members : Knows(x, y) => Knows(x, y)'
      BY <2>1, <2>2, <2>3
    <2> QED BY <2>3, <2>4
  <1>14. ASSUME NEW c \in Channels, LeaveRequest(c) PROVE Pairs'
    BY <1>14 DEF LeaveRequest
  <1>15. ASSUME NEW c \in Channels, RemoveMember(c) PROVE Pairs'
    BY <1>15 DEF RemoveMember
  <1>16. ASSUME NEW c \in Channels, TickMember(c) PROVE Pairs'
    BY <1>16 DEF TickMember
  <1>17. ASSUME NEW c \in Channels, HandleHangup(c) PROVE Pairs'
    BY <1>17 DEF HandleHangup, Mark
  <1>18. ASSUME NEW c \in Channels, FallSilent(c) PROVE Pairs'
    BY <1>18 DEF FallSilent
  <1>19. ASSUME NEW c \in Channels, Expire(c) PROVE Pairs'
    BY <1>19 DEF Expire
  <1>20. ASSUME NEW c \in Channels, Die(c) PROVE Pairs'
    BY <1>20 DEF Die
  <1>21. ASSUME TickCount PROVE Pairs'
    BY <1>21 DEF TickCount
  <1>22. ASSUME TickUnlist PROVE Pairs'
    BY <1>22 DEF TickUnlist
  <1>23. CASE UNCHANGED vars
    BY <1>23 DEF vars
  <1> QED
    BY <1>1, <1>2, <1>3, <1>4, <1>5, <1>6, <1>7, <1>8, <1>9, <1>10, <1>11, <1>12, <1>13,
       <1>14, <1>15, <1>16, <1>17, <1>18, <1>19, <1>20, <1>21, <1>22, <1>23
    DEF Next, JoinStep, LeaveStep, TickStep

\* A join that begins on an old count leaves a trace.
LEMMA CountStep == Inv /\ [Next]_vars => CountHolds'
  <1> SUFFICES ASSUME Inv, [Next]_vars PROVE CountHolds' OBVIOUS
  <1> USE WebAssumption DEF WebAssumption, Inv, TypeOK, JoinPlaces, LeavePlaces, Kinds, CountHolds, Emptying
  <1>1. ASSUME NEW c \in Channels, JoinAnswer(c) PROVE CountHolds'
    BY <1>1 DEF JoinAnswer
  <1>2. ASSUME NEW c \in Channels, JoinAdd(c) PROVE CountHolds'
    BY <1>2 DEF JoinAdd
  <1>3. ASSUME NEW c \in Channels, JoinEnter(c) PROVE CountHolds'
    BY <1>3 DEF JoinEnter
  <1>4. ASSUME NEW c \in Channels, JoinList(c) PROVE CountHolds'
    BY <1>4 DEF JoinList
  <1>5. ASSUME NEW c \in Channels, JoinMember(c) PROVE CountHolds'
    BY <1>5 DEF JoinMember, Hears
  <1>6. ASSUME NEW c \in Channels, JoinStore(c) PROVE CountHolds'
    BY <1>6 DEF JoinStore
  <1>7. ASSUME NEW c \in Channels, JoinReply(c) PROVE CountHolds'
    BY <1>7 DEF JoinReply
  <1>8. ASSUME NEW k \in Kinds, NEW c \in Channels, LeaveStart(k, c) PROVE CountHolds'
    BY <1>8 DEF LeaveStart, Mark
  <1>9. ASSUME NEW k \in Kinds, NEW c \in Channels, LeaveCheck(k, c) PROVE CountHolds'
    BY <1>9 DEF LeaveCheck
  <1>10. ASSUME NEW k \in Kinds, NEW c \in Channels, LeaveRemove(k, c) PROVE CountHolds'
    BY <1>10 DEF LeaveRemove
  <1>11. ASSUME NEW k \in Kinds, NEW c \in Channels, LeaveCount(k, c) PROVE CountHolds'
    BY <1>11 DEF LeaveCount
  <1>12. ASSUME NEW k \in Kinds, NEW c \in Channels, LeaveUnlist(k, c) PROVE CountHolds'
    BY <1>12 DEF LeaveUnlist
  <1>13. ASSUME NEW k \in Kinds, NEW c \in Channels, LeaveSay(k, c) PROVE CountHolds'
    BY <1>13 DEF LeaveSay
  <1>14. ASSUME NEW c \in Channels, LeaveRequest(c) PROVE CountHolds'
    BY <1>14 DEF LeaveRequest
  <1>15. ASSUME NEW c \in Channels, RemoveMember(c) PROVE CountHolds'
    BY <1>15 DEF RemoveMember
  <1>16. ASSUME NEW c \in Channels, TickMember(c) PROVE CountHolds'
    BY <1>16 DEF TickMember
  <1>17. ASSUME NEW c \in Channels, HandleHangup(c) PROVE CountHolds'
    BY <1>17 DEF HandleHangup, Mark
  <1>18. ASSUME NEW c \in Channels, FallSilent(c) PROVE CountHolds'
    BY <1>18 DEF FallSilent
  <1>19. ASSUME NEW c \in Channels, Expire(c) PROVE CountHolds'
    BY <1>19 DEF Expire
  <1>20. ASSUME NEW c \in Channels, Die(c) PROVE CountHolds'
    BY <1>20 DEF Die
  <1>21. ASSUME TickCount PROVE CountHolds'
    BY <1>21 DEF TickCount
  <1>22. ASSUME TickUnlist PROVE CountHolds'
    BY <1>22 DEF TickUnlist
  <1>23. CASE UNCHANGED vars
    BY <1>23 DEF vars
  <1> QED
    BY <1>1, <1>2, <1>3, <1>4, <1>5, <1>6, <1>7, <1>8, <1>9, <1>10, <1>11, <1>12, <1>13,
       <1>14, <1>15, <1>16, <1>17, <1>18, <1>19, <1>20, <1>21, <1>22, <1>23
    DEF Next, JoinStep, LeaveStep, TickStep

\* SADD to the list comes after SADD to the set.
LEMMA EachStep == Inv /\ [Next]_vars => EachListed'
  <1> SUFFICES ASSUME Inv, [Next]_vars PROVE EachListed' OBVIOUS
  <1> USE WebAssumption DEF WebAssumption, Inv, TypeOK, JoinPlaces, LeavePlaces, Kinds, CountHolds, Emptying, EachListed, Outside
  <1>1. ASSUME NEW c \in Channels, JoinAnswer(c) PROVE EachListed'
    BY <1>1 DEF JoinAnswer
  <1>2. ASSUME NEW c \in Channels, JoinAdd(c) PROVE EachListed'
    BY <1>2 DEF JoinAdd
  <1>3. ASSUME NEW c \in Channels, JoinEnter(c) PROVE EachListed'
    BY <1>3 DEF JoinEnter
  <1>4. ASSUME NEW c \in Channels, JoinList(c) PROVE EachListed'
    BY <1>4 DEF JoinList
  <1>5. ASSUME NEW c \in Channels, JoinMember(c) PROVE EachListed'
    BY <1>5 DEF JoinMember, Hears
  <1>6. ASSUME NEW c \in Channels, JoinStore(c) PROVE EachListed'
    BY <1>6 DEF JoinStore
  <1>7. ASSUME NEW c \in Channels, JoinReply(c) PROVE EachListed'
    BY <1>7 DEF JoinReply
  <1>8. ASSUME NEW k \in Kinds, NEW c \in Channels, LeaveStart(k, c) PROVE EachListed'
    BY <1>8 DEF LeaveStart, Mark
  <1>9. ASSUME NEW k \in Kinds, NEW c \in Channels, LeaveCheck(k, c) PROVE EachListed'
    BY <1>9 DEF LeaveCheck
  <1>10. ASSUME NEW k \in Kinds, NEW c \in Channels, LeaveRemove(k, c) PROVE EachListed'
    BY <1>10 DEF LeaveRemove
  <1>11. ASSUME NEW k \in Kinds, NEW c \in Channels, LeaveCount(k, c) PROVE EachListed'
    BY <1>11 DEF LeaveCount
  <1>12. ASSUME NEW k \in Kinds, NEW c \in Channels, LeaveUnlist(k, c) PROVE EachListed'
    BY <1>12 DEF LeaveUnlist
  <1>13. ASSUME NEW k \in Kinds, NEW c \in Channels, LeaveSay(k, c) PROVE EachListed'
    BY <1>13 DEF LeaveSay
  <1>14. ASSUME NEW c \in Channels, LeaveRequest(c) PROVE EachListed'
    BY <1>14 DEF LeaveRequest
  <1>15. ASSUME NEW c \in Channels, RemoveMember(c) PROVE EachListed'
    BY <1>15 DEF RemoveMember
  <1>16. ASSUME NEW c \in Channels, TickMember(c) PROVE EachListed'
    BY <1>16 DEF TickMember
  <1>17. ASSUME NEW c \in Channels, HandleHangup(c) PROVE EachListed'
    BY <1>17 DEF HandleHangup, Mark
  <1>18. ASSUME NEW c \in Channels, FallSilent(c) PROVE EachListed'
    BY <1>18 DEF FallSilent
  <1>19. ASSUME NEW c \in Channels, Expire(c) PROVE EachListed'
    BY <1>19 DEF Expire
  <1>20. ASSUME NEW c \in Channels, Die(c) PROVE EachListed'
    BY <1>20 DEF Die
  <1>21. ASSUME TickCount PROVE EachListed'
    BY <1>21 DEF TickCount
  <1>22. ASSUME TickUnlist PROVE EachListed'
    BY <1>22 DEF TickUnlist
  <1>23. CASE UNCHANGED vars
    BY <1>23 DEF vars
  <1> QED
    BY <1>1, <1>2, <1>3, <1>4, <1>5, <1>6, <1>7, <1>8, <1>9, <1>10, <1>11, <1>12, <1>13,
       <1>14, <1>15, <1>16, <1>17, <1>18, <1>19, <1>20, <1>21, <1>22, <1>23
    DEF Next, JoinStep, LeaveStep, TickStep

\* A leave is announced to everybody who may have been told of the member.
LEMMA HeardStep == Inv /\ [Next]_vars => Heard'
  <1> SUFFICES ASSUME Inv, [Next]_vars,
                      NEW x \in (members' \cap Web) \ hung',
                      NEW d \in (told'[x] \cup todo'[x] \cup got'[x]) \ members'
               PROVE  (Announcing(d) \/ <<x, d>> \in late \/ deaths > 0)'
    BY DEF Heard
  <1> DEFINE Goal == (Announcing(d) \/ <<x, d>> \in late \/ deaths > 0)'
  <1> USE WebAssumption DEF WebAssumption, Inv, TypeOK, JoinPlaces, LeavePlaces, Kinds, Entered, LiveHaveContext, Lists, Heard, Announcing, Outside
  <1>1. ASSUME NEW c \in Channels, JoinAnswer(c) PROVE Goal
    BY <1>1 DEF JoinAnswer
  <1>2. ASSUME NEW c \in Channels, JoinAdd(c) PROVE Goal
    BY <1>2 DEF JoinAdd
  <1>3. ASSUME NEW c \in Channels, JoinEnter(c) PROVE Goal
    BY <1>3 DEF JoinEnter
  <1>4. ASSUME NEW c \in Channels, JoinList(c) PROVE Goal
    BY <1>4 DEF JoinList
  <1>5. ASSUME NEW c \in Channels, JoinMember(c) PROVE Goal
    BY <1>5 DEF JoinMember, Hears
  <1>6. ASSUME NEW c \in Channels, JoinStore(c) PROVE Goal
    BY <1>6 DEF JoinStore
  <1>7. ASSUME NEW c \in Channels, JoinReply(c) PROVE Goal
    BY <1>7 DEF JoinReply
  <1>8. ASSUME NEW k \in Kinds, NEW c \in Channels, LeaveStart(k, c) PROVE Goal
    BY <1>8 DEF LeaveStart, Mark
  <1>9. ASSUME NEW k \in Kinds, NEW c \in Channels, LeaveCheck(k, c) PROVE Goal
    BY <1>9 DEF LeaveCheck
  <1>10. ASSUME NEW k \in Kinds, NEW c \in Channels, LeaveRemove(k, c) PROVE Goal
    BY <1>10 DEF LeaveRemove
  <1>11. ASSUME NEW k \in Kinds, NEW c \in Channels, LeaveCount(k, c) PROVE Goal
    BY <1>11 DEF LeaveCount
  <1>12. ASSUME NEW k \in Kinds, NEW c \in Channels, LeaveUnlist(k, c) PROVE Goal
    BY <1>12 DEF LeaveUnlist
  <1>13. ASSUME NEW k \in Kinds, NEW c \in Channels, LeaveSay(k, c) PROVE Goal
    BY <1>13 DEF LeaveSay
  <1>14. ASSUME NEW c \in Channels, LeaveRequest(c) PROVE Goal
    BY <1>14 DEF LeaveRequest
  <1>15. ASSUME NEW c \in Channels, RemoveMember(c) PROVE Goal
    BY <1>15 DEF RemoveMember
  <1>16. ASSUME NEW c \in Channels, TickMember(c) PROVE Goal
    BY <1>16 DEF TickMember
  <1>17. ASSUME NEW c \in Channels, HandleHangup(c) PROVE Goal
    BY <1>17 DEF HandleHangup, Mark
  <1>18. ASSUME NEW c \in Channels, FallSilent(c) PROVE Goal
    BY <1>18 DEF FallSilent
  <1>19. ASSUME NEW c \in Channels, Expire(c) PROVE Goal
    BY <1>19 DEF Expire
  <1>20. ASSUME NEW c \in Channels, Die(c) PROVE Goal
    BY <1>20 DEF Die
  <1>21. ASSUME TickCount PROVE Goal
    BY <1>21 DEF TickCount
  <1>22. ASSUME TickUnlist PROVE Goal
    BY <1>22 DEF TickUnlist
  <1>23. CASE UNCHANGED vars
    BY <1>23 DEF vars
  <1> QED
    BY <1>1, <1>2, <1>3, <1>4, <1>5, <1>6, <1>7, <1>8, <1>9, <1>10, <1>11, <1>12, <1>13,
       <1>14, <1>15, <1>16, <1>17, <1>18, <1>19, <1>20, <1>21, <1>22, <1>23
    DEF Next, JoinStep, LeaveStep, TickStep

\* Every step keeps the inductive invariant.
LEMMA StepInv == Inv /\ [Next]_vars => Inv'
  BY TypeStep, EnteredStep, GoneStep, ContextStep, ListsStep, PairsStep, CountStep,
     EachStep, HeardStep DEF Inv

LEMMA Invariance == Spec => []Inv
  BY InitInv, StepInv, PTL DEF Spec

-----------------------------------------------------------------------------
\* The variables keep their types.
THEOREM TypeCorrect == Spec => []TypeOK
  <1>1. Inv => TypeOK BY DEF Inv
  <1> QED BY <1>1, Invariance, PTL

\* Live members past the loops of their joins hear and know each other, however
\* their joins were interleaved.
THEOREM ConnectedHolds == Spec => []Connected
  <1>1. Inv => Connected
    BY DEF Inv, TypeOK, Connected, In, Pairs, Knows, Lists
  <1> QED BY <1>1, Invariance, PTL

\* Only a join that crosses a count of zero, or that dies between its SADDs,
\* leaves a room with members unlisted.
THEOREM ListedUnlessCrossedHolds == Spec => []ListedUnlessCrossed
  <1>1. Inv => ListedUnlessCrossed
    BY DEF Inv, ListedUnlessCrossed, EachListed
  <1> QED BY <1>1, Invariance, PTL

\* A client goes on showing a member that has left only in the two orders that
\* late records, or when a task died.
THEOREM NoGhostsHolds == Spec => []NoGhosts
  <1>1. Inv => NoGhosts
    BY DEF Inv, NoGhosts, In, Heard
  <1> QED BY <1>1, Invariance, PTL
=============================================================================
