-------------------------- MODULE ConferenceProofs --------------------------
(***************************************************************************)
(* Proofs about Conference for any set of parties, chairmen and hangups.   *)
(*                                                                         *)
(* The inductive invariant Inv says where a live party is registered (in   *)
(* the member set from SADD on, a chairman among the chairmen before it    *)
(* announces itself), that a listening task has a reader, and that of two  *)
(* live parties that have read the list one still has the other to link or *)
(* both are linked.                                                        *)
(***************************************************************************)
EXTENDS Conference, FiniteSetTheorems, TLAPS

\* The places of leave().
Leaving == {"leaving", "left", "said_leave", "unlinking", "emptied", "gone"}

\* Only a call that has hung up takes itself out.
LeaversHung ==
    \A c \in Parties : pc[c] \in Leaving => c \in hung

\* A live party is a member from its SADD on.
LiveAreMembers ==
    \A c \in Parties \ hung : pc[c] # "out" => c \in members

\* The chairmen's set holds every live chairman past its SADD, and nobody else
\* before it.
LiveAreChairmans ==
    /\ \A c \in Chairs \ hung : pc[c] \notin {"out", "added"} => c \in chairmans
    /\ \A c \in chairmans : pc[c] \notin {"out", "added"}

\* A task that waits for an event has a receive_event.
ListenersHear ==
    \A c \in Parties : pc[c] \in Listening => ear[c] # "off"

\* Past the loop of join() nothing is left to link.
LoopDone ==
    \A c \in Parties : pc[c] \in {"alone", "music", "wait", "holdwait"} => todo[c] = {}

\* The parties that have read the list of members.
Listed(c) == pc[c] \notin {"out", "added", "chaired", "said"}

\* Of two live parties that have read the list, one has the other on its list
\* still, or they are linked.
ListedOrLinked ==
    \A c, d \in Parties \ hung :
        c # d /\ Listed(c) /\ Listed(d)
            => d \in todo[c] \/ c \in todo[d] \/ Both(c, d) \subseteq links

\* Nobody is past the check of join() before a chairman has come.
PastCheck == {"linking", "alone", "music", "wait", "holdwait"} \cup Leaving
MixNeedsChairman ==
    NeedsChairman /\ (links # {} \/ \E c \in Parties : pc[c] \in PastCheck)
        => \E ch \in Chairs : pc[ch] \notin {"out", "added"}

Inv ==
    /\ TypeOK
    /\ LeaversHung
    /\ LiveAreMembers
    /\ LiveAreChairmans
    /\ ListenersHear
    /\ LoopDone
    /\ ListedOrLinked
    /\ MixNeedsChairman
    /\ WaitsOnlyIfMissed

-----------------------------------------------------------------------------
\* A set of one element that has c is {c}.
LEMMA OnlyMember ==
    ASSUME NEW S \in SUBSET Parties, NEW c \in S, Cardinality(S) = 1
    PROVE  S = {c}
  <1>1. IsFiniteSet(S) BY FS_Subset, ChairsAssumption DEF ChairsAssumption
  <1>2. PICK x : S = {x} BY <1>1, FS_Singleton
  <1> QED BY <1>2

LEMMA InitInv == Init => Inv
  BY ChairsAssumption DEF ChairsAssumption, Init, Inv, TypeOK, LeaversHung,
     LiveAreMembers, LiveAreChairmans, ListenersHear, LoopDone, ListedOrLinked,
     Listed, MixNeedsChairman, PastCheck, Leaving, WaitsOnlyIfMissed, Present, Places, Ears,
     Listening, AwaitsJoin, Held, Alone


\* Every action keeps the types.
LEMMA TypeStep == Inv /\ [Next]_vars => TypeOK'
  <1> SUFFICES ASSUME Inv, [Next]_vars PROVE TypeOK' OBVIOUS
  <1> USE ChairsAssumption DEF ChairsAssumption, Inv, TypeOK, Places, Ears
  <1>1. ASSUME NEW c \in Parties, JoinAdd(c) PROVE TypeOK'
    BY <1>1 DEF JoinAdd
  <1>2. ASSUME NEW c \in Parties, JoinChair(c) PROVE TypeOK'
    BY <1>2 DEF JoinChair
  <1>3. ASSUME NEW c \in Parties, JoinSay(c) PROVE TypeOK'
    BY <1>3 DEF JoinSay, Add, Wants, Listening, AwaitsJoin
  <1>4. ASSUME NEW c \in Parties, JoinList(c) PROVE TypeOK'
    BY <1>4 DEF JoinList
  <1>5. ASSUME NEW c \in Parties, JoinCheck(c) PROVE TypeOK'
    BY <1>5 DEF JoinCheck, Pruned, ChairmanJoined, Listen, GoOn
  <1>6. ASSUME NEW c \in Parties, Link(c) PROVE TypeOK'
    BY <1>6 DEF Link, Outcomes, Both
  <1>7. ASSUME NEW c \in Parties, HeldEvent(c) PROVE TypeOK'
    BY <1>7 DEF HeldEvent, Pruned, ChairmanJoined, Listen, GoOn, Held
  <1>8. ASSUME NEW c \in Parties, Count(c) PROVE TypeOK'
    BY <1>8 DEF Count, Listen
  <1>9. ASSUME NEW c \in Parties, AloneEnds(c) PROVE TypeOK'
    BY <1>9 DEF AloneEnds, Listen, Alone
  <1>10. ASSUME NEW c \in Parties, WaitEvent(c) PROVE TypeOK'
    BY <1>10 DEF WaitEvent, Pruned, ChairmanJoined, Listen, GoOn
  <1>11. ASSUME NEW c \in Parties, WaitHangup(c) PROVE TypeOK'
    BY <1>11 DEF WaitHangup, GoOn
  <1>12. ASSUME NEW c \in Parties, LeaveRemove(c) PROVE TypeOK'
    BY <1>12 DEF LeaveRemove
  <1>13. ASSUME NEW c \in Parties, LeaveSay(c) PROVE TypeOK'
    BY <1>13 DEF LeaveSay, Add, Wants, AwaitsJoin
  <1>14. ASSUME NEW c \in Parties, LeaveList(c) PROVE TypeOK'
    BY <1>14 DEF LeaveList
  <1>15. ASSUME NEW c \in Parties, Unlink(c) PROVE TypeOK'
    BY <1>15 DEF Unlink, Outcomes, Both
  <1>16. ASSUME NEW c \in Parties, LeaveCount(c) PROVE TypeOK'
    BY <1>16 DEF LeaveCount
  <1>17. ASSUME NEW c \in Parties, LeaveDelete(c) PROVE TypeOK'
    BY <1>17 DEF LeaveDelete
  <1>18. ASSUME NEW c \in Parties, DayPasses(c) PROVE TypeOK'
    BY <1>18 DEF DayPasses
  <1>19. ASSUME NEW c \in Parties, HeldHangup(c) PROVE TypeOK'
    BY <1>19 DEF HeldHangup, Held
  <1>20. ASSUME NEW c \in Parties, SoundEnds(c) PROVE TypeOK'
    BY <1>20 DEF SoundEnds, Listen
  <1>21. ASSUME NEW c \in Parties, Hangup(c) PROVE TypeOK'
    BY <1>21 DEF Hangup
  <1>22. CASE UNCHANGED vars
    BY <1>22 DEF vars
  <1> QED
    BY <1>1, <1>2, <1>3, <1>4, <1>5, <1>6, <1>7, <1>8, <1>9, <1>10, <1>11, <1>12, <1>13,
       <1>14, <1>15, <1>16, <1>17, <1>18, <1>19, <1>20, <1>21, <1>22
    DEF Next, TaskStep

\* leave() starts at a hangup only.
LEMMA LeaversStep == Inv /\ [Next]_vars => LeaversHung'
  <1> SUFFICES ASSUME Inv, [Next]_vars PROVE LeaversHung' OBVIOUS
  <1> USE ChairsAssumption DEF ChairsAssumption, Inv, TypeOK, LeaversHung, Leaving, Places
  <1>1. ASSUME NEW c \in Parties, JoinAdd(c) PROVE LeaversHung'
    BY <1>1 DEF JoinAdd
  <1>2. ASSUME NEW c \in Parties, JoinChair(c) PROVE LeaversHung'
    BY <1>2 DEF JoinChair
  <1>3. ASSUME NEW c \in Parties, JoinSay(c) PROVE LeaversHung'
    BY <1>3 DEF JoinSay, Add, Wants, Listening, AwaitsJoin
  <1>4. ASSUME NEW c \in Parties, JoinList(c) PROVE LeaversHung'
    BY <1>4 DEF JoinList
  <1>5. ASSUME NEW c \in Parties, JoinCheck(c) PROVE LeaversHung'
    BY <1>5 DEF JoinCheck, Pruned, ChairmanJoined, Listen, GoOn
  <1>6. ASSUME NEW c \in Parties, Link(c) PROVE LeaversHung'
    BY <1>6 DEF Link, Outcomes, Both
  <1>7. ASSUME NEW c \in Parties, HeldEvent(c) PROVE LeaversHung'
    BY <1>7 DEF HeldEvent, Pruned, ChairmanJoined, Listen, GoOn, Held
  <1>8. ASSUME NEW c \in Parties, Count(c) PROVE LeaversHung'
    BY <1>8 DEF Count, Listen
  <1>9. ASSUME NEW c \in Parties, AloneEnds(c) PROVE LeaversHung'
    BY <1>9 DEF AloneEnds, Listen, Alone
  <1>10. ASSUME NEW c \in Parties, WaitEvent(c) PROVE LeaversHung'
    BY <1>10 DEF WaitEvent, Pruned, ChairmanJoined, Listen, GoOn
  <1>11. ASSUME NEW c \in Parties, WaitHangup(c) PROVE LeaversHung'
    BY <1>11 DEF WaitHangup, GoOn
  <1>12. ASSUME NEW c \in Parties, LeaveRemove(c) PROVE LeaversHung'
    BY <1>12 DEF LeaveRemove
  <1>13. ASSUME NEW c \in Parties, LeaveSay(c) PROVE LeaversHung'
    BY <1>13 DEF LeaveSay, Add, Wants, AwaitsJoin
  <1>14. ASSUME NEW c \in Parties, LeaveList(c) PROVE LeaversHung'
    BY <1>14 DEF LeaveList
  <1>15. ASSUME NEW c \in Parties, Unlink(c) PROVE LeaversHung'
    BY <1>15 DEF Unlink, Outcomes, Both
  <1>16. ASSUME NEW c \in Parties, LeaveCount(c) PROVE LeaversHung'
    BY <1>16 DEF LeaveCount
  <1>17. ASSUME NEW c \in Parties, LeaveDelete(c) PROVE LeaversHung'
    BY <1>17 DEF LeaveDelete
  <1>18. ASSUME NEW c \in Parties, DayPasses(c) PROVE LeaversHung'
    BY <1>18 DEF DayPasses
  <1>19. ASSUME NEW c \in Parties, HeldHangup(c) PROVE LeaversHung'
    BY <1>19 DEF HeldHangup, Held
  <1>20. ASSUME NEW c \in Parties, SoundEnds(c) PROVE LeaversHung'
    BY <1>20 DEF SoundEnds, Listen
  <1>21. ASSUME NEW c \in Parties, Hangup(c) PROVE LeaversHung'
    BY <1>21 DEF Hangup
  <1>22. CASE UNCHANGED vars
    BY <1>22 DEF vars
  <1> QED
    BY <1>1, <1>2, <1>3, <1>4, <1>5, <1>6, <1>7, <1>8, <1>9, <1>10, <1>11, <1>12, <1>13,
       <1>14, <1>15, <1>16, <1>17, <1>18, <1>19, <1>20, <1>21, <1>22
    DEF Next, TaskStep

\* Nobody takes a live party out of the set.
LEMMA MembersStep == Inv /\ [Next]_vars => LiveAreMembers'
  <1> SUFFICES ASSUME Inv, [Next]_vars PROVE LiveAreMembers' OBVIOUS
  <1> USE ChairsAssumption DEF ChairsAssumption, Inv, TypeOK, LeaversHung, Leaving, LiveAreMembers
  <1>1. ASSUME NEW c \in Parties, JoinAdd(c) PROVE LiveAreMembers'
    BY <1>1 DEF JoinAdd
  <1>2. ASSUME NEW c \in Parties, JoinChair(c) PROVE LiveAreMembers'
    BY <1>2 DEF JoinChair
  <1>3. ASSUME NEW c \in Parties, JoinSay(c) PROVE LiveAreMembers'
    BY <1>3 DEF JoinSay, Add, Wants, Listening, AwaitsJoin
  <1>4. ASSUME NEW c \in Parties, JoinList(c) PROVE LiveAreMembers'
    BY <1>4 DEF JoinList
  <1>5. ASSUME NEW c \in Parties, JoinCheck(c) PROVE LiveAreMembers'
    BY <1>5 DEF JoinCheck, Pruned, ChairmanJoined, Listen, GoOn
  <1>6. ASSUME NEW c \in Parties, Link(c) PROVE LiveAreMembers'
    BY <1>6 DEF Link, Outcomes, Both
  <1>7. ASSUME NEW c \in Parties, HeldEvent(c) PROVE LiveAreMembers'
    BY <1>7 DEF HeldEvent, Pruned, ChairmanJoined, Listen, GoOn, Held
  <1>8. ASSUME NEW c \in Parties, Count(c) PROVE LiveAreMembers'
    BY <1>8 DEF Count, Listen
  <1>9. ASSUME NEW c \in Parties, AloneEnds(c) PROVE LiveAreMembers'
    BY <1>9 DEF AloneEnds, Listen, Alone
  <1>10. ASSUME NEW c \in Parties, WaitEvent(c) PROVE LiveAreMembers'
    BY <1>10 DEF WaitEvent, Pruned, ChairmanJoined, Listen, GoOn
  <1>11. ASSUME NEW c \in Parties, WaitHangup(c) PROVE LiveAreMembers'
    BY <1>11 DEF WaitHangup, GoOn
  <1>12. ASSUME NEW c \in Parties, LeaveRemove(c) PROVE LiveAreMembers'
    BY <1>12 DEF LeaveRemove
  <1>13. ASSUME NEW c \in Parties, LeaveSay(c) PROVE LiveAreMembers'
    BY <1>13 DEF LeaveSay, Add, Wants, AwaitsJoin
  <1>14. ASSUME NEW c \in Parties, LeaveList(c) PROVE LiveAreMembers'
    BY <1>14 DEF LeaveList
  <1>15. ASSUME NEW c \in Parties, Unlink(c) PROVE LiveAreMembers'
    BY <1>15 DEF Unlink, Outcomes, Both
  <1>16. ASSUME NEW c \in Parties, LeaveCount(c) PROVE LiveAreMembers'
    BY <1>16 DEF LeaveCount
  <1>17. ASSUME NEW c \in Parties, LeaveDelete(c) PROVE LiveAreMembers'
    BY <1>17 DEF LeaveDelete
  <1>18. ASSUME NEW c \in Parties, DayPasses(c) PROVE LiveAreMembers'
    BY <1>18 DEF DayPasses
  <1>19. ASSUME NEW c \in Parties, HeldHangup(c) PROVE LiveAreMembers'
    BY <1>19 DEF HeldHangup, Held
  <1>20. ASSUME NEW c \in Parties, SoundEnds(c) PROVE LiveAreMembers'
    BY <1>20 DEF SoundEnds, Listen
  <1>21. ASSUME NEW c \in Parties, Hangup(c) PROVE LiveAreMembers'
    BY <1>21 DEF Hangup
  <1>22. CASE UNCHANGED vars
    BY <1>22 DEF vars
  <1> QED
    BY <1>1, <1>2, <1>3, <1>4, <1>5, <1>6, <1>7, <1>8, <1>9, <1>10, <1>11, <1>12, <1>13,
       <1>14, <1>15, <1>16, <1>17, <1>18, <1>19, <1>20, <1>21, <1>22
    DEF Next, TaskStep

\* chairman_joined() drops the dead only.
LEMMA ChairmansStep == Inv /\ [Next]_vars => LiveAreChairmans'
  <1> SUFFICES ASSUME Inv, [Next]_vars PROVE LiveAreChairmans' OBVIOUS
  <1> USE ChairsAssumption DEF ChairsAssumption, Inv, TypeOK, LiveAreChairmans
  <1>1. ASSUME NEW c \in Parties, JoinAdd(c) PROVE LiveAreChairmans'
    BY <1>1 DEF JoinAdd
  <1>2. ASSUME NEW c \in Parties, JoinChair(c) PROVE LiveAreChairmans'
    BY <1>2 DEF JoinChair
  <1>3. ASSUME NEW c \in Parties, JoinSay(c) PROVE LiveAreChairmans'
    BY <1>3 DEF JoinSay, Add, Wants, Listening, AwaitsJoin
  <1>4. ASSUME NEW c \in Parties, JoinList(c) PROVE LiveAreChairmans'
    BY <1>4 DEF JoinList
  <1>5. ASSUME NEW c \in Parties, JoinCheck(c) PROVE LiveAreChairmans'
    BY <1>5 DEF JoinCheck, Pruned, ChairmanJoined, Listen, GoOn
  <1>6. ASSUME NEW c \in Parties, Link(c) PROVE LiveAreChairmans'
    BY <1>6 DEF Link, Outcomes, Both
  <1>7. ASSUME NEW c \in Parties, HeldEvent(c) PROVE LiveAreChairmans'
    BY <1>7 DEF HeldEvent, Pruned, ChairmanJoined, Listen, GoOn, Held
  <1>8. ASSUME NEW c \in Parties, Count(c) PROVE LiveAreChairmans'
    BY <1>8 DEF Count, Listen
  <1>9. ASSUME NEW c \in Parties, AloneEnds(c) PROVE LiveAreChairmans'
    BY <1>9 DEF AloneEnds, Listen, Alone
  <1>10. ASSUME NEW c \in Parties, WaitEvent(c) PROVE LiveAreChairmans'
    BY <1>10 DEF WaitEvent, Pruned, ChairmanJoined, Listen, GoOn
  <1>11. ASSUME NEW c \in Parties, WaitHangup(c) PROVE LiveAreChairmans'
    BY <1>11 DEF WaitHangup, GoOn
  <1>12. ASSUME NEW c \in Parties, LeaveRemove(c) PROVE LiveAreChairmans'
    BY <1>12 DEF LeaveRemove
  <1>13. ASSUME NEW c \in Parties, LeaveSay(c) PROVE LiveAreChairmans'
    BY <1>13 DEF LeaveSay, Add, Wants, AwaitsJoin
  <1>14. ASSUME NEW c \in Parties, LeaveList(c) PROVE LiveAreChairmans'
    BY <1>14 DEF LeaveList
  <1>15. ASSUME NEW c \in Parties, Unlink(c) PROVE LiveAreChairmans'
    BY <1>15 DEF Unlink, Outcomes, Both
  <1>16. ASSUME NEW c \in Parties, LeaveCount(c) PROVE LiveAreChairmans'
    BY <1>16 DEF LeaveCount
  <1>17. ASSUME NEW c \in Parties, LeaveDelete(c) PROVE LiveAreChairmans'
    BY <1>17 DEF LeaveDelete
  <1>18. ASSUME NEW c \in Parties, DayPasses(c) PROVE LiveAreChairmans'
    BY <1>18 DEF DayPasses
  <1>19. ASSUME NEW c \in Parties, HeldHangup(c) PROVE LiveAreChairmans'
    BY <1>19 DEF HeldHangup, Held
  <1>20. ASSUME NEW c \in Parties, SoundEnds(c) PROVE LiveAreChairmans'
    BY <1>20 DEF SoundEnds, Listen
  <1>21. ASSUME NEW c \in Parties, Hangup(c) PROVE LiveAreChairmans'
    BY <1>21 DEF Hangup
  <1>22. CASE UNCHANGED vars
    BY <1>22 DEF vars
  <1> QED
    BY <1>1, <1>2, <1>3, <1>4, <1>5, <1>6, <1>7, <1>8, <1>9, <1>10, <1>11, <1>12, <1>13,
       <1>14, <1>15, <1>16, <1>17, <1>18, <1>19, <1>20, <1>21, <1>22
    DEF Next, TaskStep

\* A task goes to a waiting place with a new reader.
LEMMA ListenStep == Inv /\ [Next]_vars => ListenersHear'
  <1> SUFFICES ASSUME Inv, [Next]_vars PROVE ListenersHear' OBVIOUS
  <1> USE ChairsAssumption DEF ChairsAssumption, Inv, TypeOK, ListenersHear, Listening, AwaitsJoin, Held, Alone
  <1>1. ASSUME NEW c \in Parties, JoinAdd(c) PROVE ListenersHear'
    BY <1>1 DEF JoinAdd
  <1>2. ASSUME NEW c \in Parties, JoinChair(c) PROVE ListenersHear'
    BY <1>2 DEF JoinChair
  <1>3. ASSUME NEW c \in Parties, JoinSay(c) PROVE ListenersHear'
    BY <1>3 DEF JoinSay, Add, Wants
  <1>4. ASSUME NEW c \in Parties, JoinList(c) PROVE ListenersHear'
    BY <1>4 DEF JoinList
  <1>5. ASSUME NEW c \in Parties, JoinCheck(c) PROVE ListenersHear'
    BY <1>5 DEF JoinCheck, Pruned, ChairmanJoined, Listen, GoOn
  <1>6. ASSUME NEW c \in Parties, Link(c) PROVE ListenersHear'
    BY <1>6 DEF Link, Outcomes, Both
  <1>7. ASSUME NEW c \in Parties, HeldEvent(c) PROVE ListenersHear'
    BY <1>7 DEF HeldEvent, Pruned, ChairmanJoined, Listen, GoOn
  <1>8. ASSUME NEW c \in Parties, Count(c) PROVE ListenersHear'
    BY <1>8 DEF Count, Listen
  <1>9. ASSUME NEW c \in Parties, AloneEnds(c) PROVE ListenersHear'
    BY <1>9 DEF AloneEnds, Listen
  <1>10. ASSUME NEW c \in Parties, WaitEvent(c) PROVE ListenersHear'
    BY <1>10 DEF WaitEvent, Pruned, ChairmanJoined, Listen, GoOn
  <1>11. ASSUME NEW c \in Parties, WaitHangup(c) PROVE ListenersHear'
    BY <1>11 DEF WaitHangup, GoOn
  <1>12. ASSUME NEW c \in Parties, LeaveRemove(c) PROVE ListenersHear'
    BY <1>12 DEF LeaveRemove
  <1>13. ASSUME NEW c \in Parties, LeaveSay(c) PROVE ListenersHear'
    BY <1>13 DEF LeaveSay, Add, Wants
  <1>14. ASSUME NEW c \in Parties, LeaveList(c) PROVE ListenersHear'
    BY <1>14 DEF LeaveList
  <1>15. ASSUME NEW c \in Parties, Unlink(c) PROVE ListenersHear'
    BY <1>15 DEF Unlink, Outcomes, Both
  <1>16. ASSUME NEW c \in Parties, LeaveCount(c) PROVE ListenersHear'
    BY <1>16 DEF LeaveCount
  <1>17. ASSUME NEW c \in Parties, LeaveDelete(c) PROVE ListenersHear'
    BY <1>17 DEF LeaveDelete
  <1>18. ASSUME NEW c \in Parties, DayPasses(c) PROVE ListenersHear'
    BY <1>18 DEF DayPasses
  <1>19. ASSUME NEW c \in Parties, HeldHangup(c) PROVE ListenersHear'
    BY <1>19 DEF HeldHangup
  <1>20. ASSUME NEW c \in Parties, SoundEnds(c) PROVE ListenersHear'
    BY <1>20 DEF SoundEnds, Listen
  <1>21. ASSUME NEW c \in Parties, Hangup(c) PROVE ListenersHear'
    BY <1>21 DEF Hangup
  <1>22. CASE UNCHANGED vars
    BY <1>22 DEF vars
  <1> QED
    BY <1>1, <1>2, <1>3, <1>4, <1>5, <1>6, <1>7, <1>8, <1>9, <1>10, <1>11, <1>12, <1>13,
       <1>14, <1>15, <1>16, <1>17, <1>18, <1>19, <1>20, <1>21, <1>22
    DEF Next, TaskStep

\* play_alone() comes after the loop.
LEMMA LoopStep == Inv /\ [Next]_vars => LoopDone'
  <1> SUFFICES ASSUME Inv, [Next]_vars PROVE LoopDone' OBVIOUS
  <1> USE ChairsAssumption DEF ChairsAssumption, Inv, TypeOK, LoopDone
  <1>1. ASSUME NEW c \in Parties, JoinAdd(c) PROVE LoopDone'
    BY <1>1 DEF JoinAdd
  <1>2. ASSUME NEW c \in Parties, JoinChair(c) PROVE LoopDone'
    BY <1>2 DEF JoinChair
  <1>3. ASSUME NEW c \in Parties, JoinSay(c) PROVE LoopDone'
    BY <1>3 DEF JoinSay, Add, Wants, Listening, AwaitsJoin
  <1>4. ASSUME NEW c \in Parties, JoinList(c) PROVE LoopDone'
    BY <1>4 DEF JoinList
  <1>5. ASSUME NEW c \in Parties, JoinCheck(c) PROVE LoopDone'
    BY <1>5 DEF JoinCheck, Pruned, ChairmanJoined, Listen, GoOn
  <1>6. ASSUME NEW c \in Parties, Link(c) PROVE LoopDone'
    BY <1>6 DEF Link, Outcomes, Both
  <1>7. ASSUME NEW c \in Parties, HeldEvent(c) PROVE LoopDone'
    BY <1>7 DEF HeldEvent, Pruned, ChairmanJoined, Listen, GoOn, Held
  <1>8. ASSUME NEW c \in Parties, Count(c) PROVE LoopDone'
    BY <1>8 DEF Count, Listen
  <1>9. ASSUME NEW c \in Parties, AloneEnds(c) PROVE LoopDone'
    BY <1>9 DEF AloneEnds, Listen, Alone
  <1>10. ASSUME NEW c \in Parties, WaitEvent(c) PROVE LoopDone'
    BY <1>10 DEF WaitEvent, Pruned, ChairmanJoined, Listen, GoOn
  <1>11. ASSUME NEW c \in Parties, WaitHangup(c) PROVE LoopDone'
    BY <1>11 DEF WaitHangup, GoOn
  <1>12. ASSUME NEW c \in Parties, LeaveRemove(c) PROVE LoopDone'
    BY <1>12 DEF LeaveRemove
  <1>13. ASSUME NEW c \in Parties, LeaveSay(c) PROVE LoopDone'
    BY <1>13 DEF LeaveSay, Add, Wants, AwaitsJoin
  <1>14. ASSUME NEW c \in Parties, LeaveList(c) PROVE LoopDone'
    BY <1>14 DEF LeaveList
  <1>15. ASSUME NEW c \in Parties, Unlink(c) PROVE LoopDone'
    BY <1>15 DEF Unlink, Outcomes, Both
  <1>16. ASSUME NEW c \in Parties, LeaveCount(c) PROVE LoopDone'
    BY <1>16 DEF LeaveCount
  <1>17. ASSUME NEW c \in Parties, LeaveDelete(c) PROVE LoopDone'
    BY <1>17 DEF LeaveDelete
  <1>18. ASSUME NEW c \in Parties, DayPasses(c) PROVE LoopDone'
    BY <1>18 DEF DayPasses
  <1>19. ASSUME NEW c \in Parties, HeldHangup(c) PROVE LoopDone'
    BY <1>19 DEF HeldHangup, Held
  <1>20. ASSUME NEW c \in Parties, SoundEnds(c) PROVE LoopDone'
    BY <1>20 DEF SoundEnds, Listen
  <1>21. ASSUME NEW c \in Parties, Hangup(c) PROVE LoopDone'
    BY <1>21 DEF Hangup
  <1>22. CASE UNCHANGED vars
    BY <1>22 DEF vars
  <1> QED
    BY <1>1, <1>2, <1>3, <1>4, <1>5, <1>6, <1>7, <1>8, <1>9, <1>10, <1>11, <1>12, <1>13,
       <1>14, <1>15, <1>16, <1>17, <1>18, <1>19, <1>20, <1>21, <1>22
    DEF Next, TaskStep

\* The second of two parties to read the list finds the first in it.
LEMMA LinkStep == Inv /\ [Next]_vars => ListedOrLinked'
  <1> SUFFICES ASSUME Inv, [Next]_vars PROVE ListedOrLinked' OBVIOUS
  <1> USE ChairsAssumption DEF ChairsAssumption, Inv, TypeOK, LeaversHung, Leaving, LiveAreMembers, LoopDone, ListedOrLinked, Listed, Both
  <1>1. ASSUME NEW c \in Parties, JoinAdd(c) PROVE ListedOrLinked'
    BY <1>1 DEF JoinAdd
  <1>2. ASSUME NEW c \in Parties, JoinChair(c) PROVE ListedOrLinked'
    BY <1>2 DEF JoinChair
  <1>3. ASSUME NEW c \in Parties, JoinSay(c) PROVE ListedOrLinked'
    BY <1>3 DEF JoinSay, Add, Wants, Listening, AwaitsJoin
  <1>4. ASSUME NEW c \in Parties, JoinList(c) PROVE ListedOrLinked'
    BY <1>4 DEF JoinList
  <1>5. ASSUME NEW c \in Parties, JoinCheck(c) PROVE ListedOrLinked'
    BY <1>5 DEF JoinCheck, Pruned, ChairmanJoined, Listen, GoOn
  <1>6. ASSUME NEW c \in Parties, Link(c) PROVE ListedOrLinked'
    BY <1>6 DEF Link, Outcomes
  <1>7. ASSUME NEW c \in Parties, HeldEvent(c) PROVE ListedOrLinked'
    BY <1>7 DEF HeldEvent, Pruned, ChairmanJoined, Listen, GoOn, Held
  <1>8. ASSUME NEW c \in Parties, Count(c) PROVE ListedOrLinked'
    BY <1>8 DEF Count, Listen
  <1>9. ASSUME NEW c \in Parties, AloneEnds(c) PROVE ListedOrLinked'
    BY <1>9 DEF AloneEnds, Listen, Alone
  <1>10. ASSUME NEW c \in Parties, WaitEvent(c) PROVE ListedOrLinked'
    BY <1>10 DEF WaitEvent, Pruned, ChairmanJoined, Listen, GoOn
  <1>11. ASSUME NEW c \in Parties, WaitHangup(c) PROVE ListedOrLinked'
    BY <1>11 DEF WaitHangup, GoOn
  <1>12. ASSUME NEW c \in Parties, LeaveRemove(c) PROVE ListedOrLinked'
    BY <1>12 DEF LeaveRemove
  <1>13. ASSUME NEW c \in Parties, LeaveSay(c) PROVE ListedOrLinked'
    BY <1>13 DEF LeaveSay, Add, Wants, AwaitsJoin
  <1>14. ASSUME NEW c \in Parties, LeaveList(c) PROVE ListedOrLinked'
    BY <1>14 DEF LeaveList
  <1>15. ASSUME NEW c \in Parties, Unlink(c) PROVE ListedOrLinked'
    BY <1>15 DEF Unlink, Outcomes
  <1>16. ASSUME NEW c \in Parties, LeaveCount(c) PROVE ListedOrLinked'
    BY <1>16 DEF LeaveCount
  <1>17. ASSUME NEW c \in Parties, LeaveDelete(c) PROVE ListedOrLinked'
    BY <1>17 DEF LeaveDelete
  <1>18. ASSUME NEW c \in Parties, DayPasses(c) PROVE ListedOrLinked'
    BY <1>18 DEF DayPasses
  <1>19. ASSUME NEW c \in Parties, HeldHangup(c) PROVE ListedOrLinked'
    BY <1>19 DEF HeldHangup, Held
  <1>20. ASSUME NEW c \in Parties, SoundEnds(c) PROVE ListedOrLinked'
    BY <1>20 DEF SoundEnds, Listen
  <1>21. ASSUME NEW c \in Parties, Hangup(c) PROVE ListedOrLinked'
    BY <1>21 DEF Hangup
  <1>22. CASE UNCHANGED vars
    BY <1>22 DEF vars
  <1> QED
    BY <1>1, <1>2, <1>3, <1>4, <1>5, <1>6, <1>7, <1>8, <1>9, <1>10, <1>11, <1>12, <1>13,
       <1>14, <1>15, <1>16, <1>17, <1>18, <1>19, <1>20, <1>21, <1>22
    DEF Next, TaskStep

\* The check of join() lets nobody pass before a chairman.
LEMMA MixStep == Inv /\ [Next]_vars => MixNeedsChairman'
  <1> SUFFICES ASSUME Inv, [Next]_vars PROVE MixNeedsChairman' OBVIOUS
  <1> USE ChairsAssumption DEF ChairsAssumption, Inv, TypeOK, LiveAreChairmans, MixNeedsChairman, PastCheck, Leaving
  <1>1. ASSUME NEW c \in Parties, JoinAdd(c) PROVE MixNeedsChairman'
    BY <1>1 DEF JoinAdd
  <1>2. ASSUME NEW c \in Parties, JoinChair(c) PROVE MixNeedsChairman'
    BY <1>2 DEF JoinChair
  <1>3. ASSUME NEW c \in Parties, JoinSay(c) PROVE MixNeedsChairman'
    BY <1>3 DEF JoinSay, Add, Wants, Listening, AwaitsJoin
  <1>4. ASSUME NEW c \in Parties, JoinList(c) PROVE MixNeedsChairman'
    BY <1>4 DEF JoinList
  <1>5. ASSUME NEW c \in Parties, JoinCheck(c) PROVE MixNeedsChairman'
    BY <1>5 DEF JoinCheck, Pruned, ChairmanJoined, Listen, GoOn
  <1>6. ASSUME NEW c \in Parties, Link(c) PROVE MixNeedsChairman'
    BY <1>6 DEF Link, Outcomes, Both
  <1>7. ASSUME NEW c \in Parties, HeldEvent(c) PROVE MixNeedsChairman'
    BY <1>7 DEF HeldEvent, Pruned, ChairmanJoined, Listen, GoOn, Held
  <1>8. ASSUME NEW c \in Parties, Count(c) PROVE MixNeedsChairman'
    BY <1>8 DEF Count, Listen
  <1>9. ASSUME NEW c \in Parties, AloneEnds(c) PROVE MixNeedsChairman'
    BY <1>9 DEF AloneEnds, Listen, Alone
  <1>10. ASSUME NEW c \in Parties, WaitEvent(c) PROVE MixNeedsChairman'
    BY <1>10 DEF WaitEvent, Pruned, ChairmanJoined, Listen, GoOn
  <1>11. ASSUME NEW c \in Parties, WaitHangup(c) PROVE MixNeedsChairman'
    BY <1>11 DEF WaitHangup, GoOn
  <1>12. ASSUME NEW c \in Parties, LeaveRemove(c) PROVE MixNeedsChairman'
    BY <1>12 DEF LeaveRemove
  <1>13. ASSUME NEW c \in Parties, LeaveSay(c) PROVE MixNeedsChairman'
    BY <1>13 DEF LeaveSay, Add, Wants, AwaitsJoin
  <1>14. ASSUME NEW c \in Parties, LeaveList(c) PROVE MixNeedsChairman'
    BY <1>14 DEF LeaveList
  <1>15. ASSUME NEW c \in Parties, Unlink(c) PROVE MixNeedsChairman'
    BY <1>15 DEF Unlink, Outcomes, Both
  <1>16. ASSUME NEW c \in Parties, LeaveCount(c) PROVE MixNeedsChairman'
    BY <1>16 DEF LeaveCount
  <1>17. ASSUME NEW c \in Parties, LeaveDelete(c) PROVE MixNeedsChairman'
    BY <1>17 DEF LeaveDelete
  <1>18. ASSUME NEW c \in Parties, DayPasses(c) PROVE MixNeedsChairman'
    BY <1>18 DEF DayPasses
  <1>19. ASSUME NEW c \in Parties, HeldHangup(c) PROVE MixNeedsChairman'
    BY <1>19 DEF HeldHangup, Held
  <1>20. ASSUME NEW c \in Parties, SoundEnds(c) PROVE MixNeedsChairman'
    BY <1>20 DEF SoundEnds, Listen
  <1>21. ASSUME NEW c \in Parties, Hangup(c) PROVE MixNeedsChairman'
    BY <1>21 DEF Hangup
  <1>22. CASE UNCHANGED vars
    BY <1>22 DEF vars
  <1> QED
    BY <1>1, <1>2, <1>3, <1>4, <1>5, <1>6, <1>7, <1>8, <1>9, <1>10, <1>11, <1>12, <1>13,
       <1>14, <1>15, <1>16, <1>17, <1>18, <1>19, <1>20, <1>21, <1>22
    DEF Next, TaskStep

\* Whoever begins to wait has looked after the others announced themselves.
LEMMA WaitStep == Inv /\ [Next]_vars => WaitsOnlyIfMissed'
  <1> SUFFICES ASSUME Inv, [Next]_vars PROVE WaitsOnlyIfMissed' OBVIOUS
  <1> USE ChairsAssumption DEF ChairsAssumption, Inv, TypeOK, LiveAreMembers, LiveAreChairmans, ListenersHear, WaitsOnlyIfMissed, Present, Listening, AwaitsJoin, Held, Alone
  <1>1. ASSUME NEW c \in Parties, JoinAdd(c) PROVE WaitsOnlyIfMissed'
    BY <1>1 DEF JoinAdd
  <1>2. ASSUME NEW c \in Parties, JoinChair(c) PROVE WaitsOnlyIfMissed'
    BY <1>2 DEF JoinChair
  <1>3. ASSUME NEW c \in Parties, JoinSay(c) PROVE WaitsOnlyIfMissed'
    <2>1. PICK lost \in SUBSET {d \in Parties : ear[d] = "tail"} :
            /\ ear' = [d \in Parties |->
                         IF ear[d] \notin {"tail", "kept"} \/ d \in lost THEN ear[d]
                         ELSE IF Wants(d, "member_join") THEN "heard" ELSE "kept"]
            /\ missed' = missed \cup {d \in lost : Wants(d, "member_join")}
      BY <1>3 DEF JoinSay, Add
    <2>2. \A d \in Parties : pc[d] \in AwaitsJoin => d # c /\ Wants(d, "member_join")
      BY <1>3 DEF JoinSay, Wants
    <2>3. \A d \in Parties : pc[d] \in AwaitsJoin => d \in missed' \/ ear'[d] = "heard"
      BY <2>1, <2>2 DEF Ears
    <2>4. hung' = hung /\ \A d \in Parties : pc'[d] \in AwaitsJoin => pc[d] \in AwaitsJoin
      BY <1>3 DEF JoinSay
    <2> QED BY <2>3, <2>4
  <1>4. ASSUME NEW c \in Parties, JoinList(c) PROVE WaitsOnlyIfMissed'
    BY <1>4 DEF JoinList
  <1>5. ASSUME NEW c \in Parties, JoinCheck(c) PROVE WaitsOnlyIfMissed'
    BY <1>5 DEF JoinCheck, Pruned, ChairmanJoined, Listen, GoOn
  <1>6. ASSUME NEW c \in Parties, Link(c) PROVE WaitsOnlyIfMissed'
    BY <1>6 DEF Link, Outcomes, Both
  <1>7. ASSUME NEW c \in Parties, HeldEvent(c) PROVE WaitsOnlyIfMissed'
    BY <1>7 DEF HeldEvent, Pruned, ChairmanJoined, Listen, GoOn
  <1>8. ASSUME NEW c \in Parties, Count(c) PROVE WaitsOnlyIfMissed'
    <2>1. CASE Cardinality(members) = 1
      <3>1. c \in hung \/ c \in members BY <1>8 DEF Count
      <3>2. c \in hung \/ members = {c} BY <3>1, <2>1, OnlyMember
      <3> QED BY <1>8, <2>1, <3>2 DEF Count, Listen
    <2>2. CASE Cardinality(members) # 1
      BY <1>8, <2>2 DEF Count, Listen
    <2> QED BY <2>1, <2>2
  <1>9. ASSUME NEW c \in Parties, AloneEnds(c) PROVE WaitsOnlyIfMissed'
    BY <1>9 DEF AloneEnds, Listen
  <1>10. ASSUME NEW c \in Parties, WaitEvent(c) PROVE WaitsOnlyIfMissed'
    BY <1>10 DEF WaitEvent, Pruned, ChairmanJoined, Listen, GoOn
  <1>11. ASSUME NEW c \in Parties, WaitHangup(c) PROVE WaitsOnlyIfMissed'
    BY <1>11 DEF WaitHangup, GoOn
  <1>12. ASSUME NEW c \in Parties, LeaveRemove(c) PROVE WaitsOnlyIfMissed'
    BY <1>12 DEF LeaveRemove
  <1>13. ASSUME NEW c \in Parties, LeaveSay(c) PROVE WaitsOnlyIfMissed'
    BY <1>13 DEF LeaveSay, Add, Wants
  <1>14. ASSUME NEW c \in Parties, LeaveList(c) PROVE WaitsOnlyIfMissed'
    BY <1>14 DEF LeaveList
  <1>15. ASSUME NEW c \in Parties, Unlink(c) PROVE WaitsOnlyIfMissed'
    BY <1>15 DEF Unlink, Outcomes, Both
  <1>16. ASSUME NEW c \in Parties, LeaveCount(c) PROVE WaitsOnlyIfMissed'
    BY <1>16 DEF LeaveCount
  <1>17. ASSUME NEW c \in Parties, LeaveDelete(c) PROVE WaitsOnlyIfMissed'
    BY <1>17 DEF LeaveDelete
  <1>18. ASSUME NEW c \in Parties, DayPasses(c) PROVE WaitsOnlyIfMissed'
    BY <1>18 DEF DayPasses
  <1>19. ASSUME NEW c \in Parties, HeldHangup(c) PROVE WaitsOnlyIfMissed'
    BY <1>19 DEF HeldHangup
  <1>20. ASSUME NEW c \in Parties, SoundEnds(c) PROVE WaitsOnlyIfMissed'
    BY <1>20 DEF SoundEnds, Listen
  <1>21. ASSUME NEW c \in Parties, Hangup(c) PROVE WaitsOnlyIfMissed'
    BY <1>21 DEF Hangup
  <1>22. CASE UNCHANGED vars
    BY <1>22 DEF vars
  <1> QED
    BY <1>1, <1>2, <1>3, <1>4, <1>5, <1>6, <1>7, <1>8, <1>9, <1>10, <1>11, <1>12, <1>13,
       <1>14, <1>15, <1>16, <1>17, <1>18, <1>19, <1>20, <1>21, <1>22
    DEF Next, TaskStep

\* Every step keeps the inductive invariant.
LEMMA StepInv == Inv /\ [Next]_vars => Inv'
  BY TypeStep, LeaversStep, MembersStep, ChairmansStep, ListenStep, LoopStep, LinkStep,
     MixStep, WaitStep DEF Inv

LEMMA Invariance == Spec => []Inv
  BY InitInv, StepInv, PTL DEF Spec

-----------------------------------------------------------------------------
\* The variables keep their types.
THEOREM TypeCorrect == Spec => []TypeOK
  <1>1. Inv => TypeOK BY DEF Inv
  <1> QED BY <1>1, Invariance, PTL

\* Live parties past the loop of join() are linked both ways, whatever the order
\* in which they were added, listed and linked.
THEOREM MeshHolds == Spec => []Mesh
  <1>1. Inv => Mesh
    BY DEF Inv, Mesh, Mixed, LoopDone, ListedOrLinked, Listed, Both
  <1> QED BY <1>1, Invariance, PTL

\* Nobody is held, or left alone, while those it waits for are in, unless it
\* missed their event.
THEOREM WaitsOnlyIfMissedHolds == Spec => []WaitsOnlyIfMissed
  <1>1. Inv => WaitsOnlyIfMissed BY DEF Inv
  <1> QED BY <1>1, Invariance, PTL

\* No audio is linked before a chairman has come to a conference that needs one.
THEOREM NoMixBeforeChairmanHolds == Spec => []NoMixBeforeChairman
  <1>1. Inv => NoMixBeforeChairman
    BY DEF Inv, MixNeedsChairman, NoMixBeforeChairman
  <1> QED BY <1>1, Invariance, PTL
=============================================================================
