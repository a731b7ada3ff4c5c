-------------------------- MODULE CallQueueProofs --------------------------
(***************************************************************************)
(* What CallQueue promises for any number of calls, queues and agents.     *)
(***************************************************************************)
EXTENDS CallQueue, TLAPS

\* The parts of Next: the steps of a call, of one of its legs, and of the clock.
CallStep(c) ==
    \/ AddCall(c) \/ Beat(c) \/ BeatExpires(c) \/ Hang(c) \/ Crash(c) \/ Reap(c)
    \/ SeeHangup(c) \/ GiveUp(c) \/ PickUp(c) \/ Poll(c) \/ Look(c) \/ Choose(c)
    \/ Dial(c) \/ SetLocks(c) \/ HandleAnswer(c) \/ EndBridge(c) \/ RemoveCall(c)

LegStep(c, a) ==
    \/ LegStarts(c, a) \/ LegFails(c, a) \/ Answer(c, a) \/ LegEnds(c, a)
    \/ HandleHangup(c, a)

\* Every step is one of them.
LEMMA NextParts ==
    Next => \/ Expire
            \/ \E c \in Calls : CallStep(c) \/ \E a \in Agents : LegStep(c, a)
BY DEF Next, Run, CallStep, LegStep

-----------------------------------------------------------------------------

LEMMA InitTypes == Init => TypeOK
<1> SUFFICES ASSUME Init PROVE TypeOK
    OBVIOUS
<1>1. score \in [Calls -> 0..MaxTime]
  BY QueueAssumption DEF Init
<1>2. early \in BOOLEAN /\ doubled \in BOOLEAN
  BY DEF Init
<1>3. leg \in [Legs -> {"none", "spawned", "up", "talk", "over"}]
  BY DEF Init
<1>4. lock \in [Locks -> {"none", "10s", "day"}]
  BY DEF Init
<1>5. reserved \in [Agents -> Queues \cup {None}]
  BY DEF Init
<1>6. QED
  BY <1>1, <1>2, <1>3, <1>4, <1>5 DEF Init, TypeOK

\* Asking for agents keeps the types of what it writes.
LEMMA AskTypes ==
    ASSUME TypeOK, NEW q \in Queues, NEW as \in SUBSET Agents, Ask(q, as)
    PROVE  /\ lock' \in [Locks -> {"none", "10s", "day"}]
           /\ reserved' \in [Agents -> Queues \cup {None}]
           /\ early' \in BOOLEAN
<1>1. lock' \in [Locks -> {"none", "10s", "day"}]
  BY DEF TypeOK, Ask
<1>2. reserved' \in [Agents -> Queues \cup {None}]
  BY DEF TypeOK, Ask
<1>3. early' \in BOOLEAN
  BY Zenon DEF TypeOK, Ask
<1>4. QED
  BY <1>1, <1>2, <1>3

\* Whoever is asked, and whoever is rung, is an agent.
LEMMA QueriesAgents ==
    ASSUME NEW c \in Calls, NEW as \in Queries(QueueOf[c], UNION Members[QueueOf[c]])
    PROVE  as \in SUBSET Agents
<1>1. UNION Members[QueueOf[c]] \in SUBSET Agents
  BY QueueAssumption
<1>2. QED
  BY <1>1 DEF Queries

LEMMA AsksAgents ==
    ASSUME NEW c \in Calls, NEW ms \in Asks(c)
    PROVE  /\ ms \in SUBSET SUBSET Agents
           /\ Rounds(QueueOf[c], ms) \subseteq SUBSET Agents
<1>1. Members[QueueOf[c]] \in SUBSET SUBSET Agents
  BY QueueAssumption
<1>2. ms \in SUBSET SUBSET Agents
  BY <1>1 DEF Asks
<1>3. ASSUME NEW f \in [ms -> SUBSET Agents]
      PROVE  UNION {f[m] : m \in ms} \in SUBSET Agents
  OBVIOUS
<1>4. QED
  BY <1>2, <1>3 DEF Rounds

LEMMA PicksAgents ==
    ASSUME NEW c \in Calls, NEW ms \in SUBSET SUBSET Agents
    PROVE  Picks(c, ms) \subseteq SUBSET Agents
<1>1. CASE QueueOf[c] \in RingAll
  BY <1>1 DEF Picks
<1>2. CASE QueueOf[c] \notin RingAll
  BY <1>2 DEF Picks
<1>3. QED
  BY <1>1, <1>2

\* What looking for somebody available does: it asks agents.
LEMMA LookEffect ==
    ASSUME NEW c \in Calls, Look(c)
    PROVE  /\ \E as \in SUBSET Agents : Ask(QueueOf[c], as)
           /\ pc[c] = "head"
           /\ pc' = [pc EXCEPT ![c] = "wait"] \/ pc' = [pc EXCEPT ![c] = "ready"]
           /\ UNCHANGED <<lineVars, ringVars, cooling, blind>>
BY QueriesAgents DEF Look, Goto

\* Waiting for one's turn changes nothing of the line, and rings nobody.
LEMMA PollOrLook ==
    ASSUME NEW c \in Calls, Poll(c) \/ Look(c)
    PROVE  /\ pc[c] \in {"wait", "head"}
           /\ \E at \in {"head", "wait", "ready"} : pc' = [pc EXCEPT ![c] = at]
           /\ UNCHANGED <<lineVars, ringVars, cooling, blind>>
BY LookEffect DEF Poll, Goto, agentVars

\* What choosing does: it asks agents and picks some, of whom those that it has
\* not found available are blind from then on.
Chosen(c, as) ==
    \E rung \in SUBSET Agents :
        /\ chosen' = [chosen EXCEPT ![c] = rung]
        /\ pc' = [pc EXCEPT ![c] = "dial"]
        /\ blind' = blind \cup (rung \ Free(QueueOf[c], as))
        /\ tried' = tried

LEMMA ChooseEffect ==
    ASSUME NEW c \in Calls, Choose(c)
    PROVE  \E as \in SUBSET Agents :
             /\ Ask(QueueOf[c], as)
             /\ \/ /\ UNCHANGED <<pc, chosen, blind>>
                   /\ tried' = tried \/ tried' = [tried EXCEPT ![c] = {}]
                \/ Chosen(c, as)
<1> DEFINE picks(ms) == Picks(c, {m \in ms : Free(QueueOf[c], m) # {}})
<1>1. PICK ms \in Asks(c) : \E as \in Rounds(QueueOf[c], ms) :
         /\ Ask(QueueOf[c], as)
         /\ \/ /\ \E rung \in picks(ms) :
                    /\ chosen' = [chosen EXCEPT ![c] = rung]
                    /\ blind' = blind \cup (rung \ Free(QueueOf[c], as))
               /\ Goto(c, "dial")
               /\ UNCHANGED tried
            \/ /\ tried' = IF Free(QueueOf[c], as) = {} THEN tried
                           ELSE [tried EXCEPT ![c] = {}]
               /\ UNCHANGED <<pc, chosen, blind>>
  BY Zenon DEF Choose
<1>2. ms \in SUBSET SUBSET Agents /\ Rounds(QueueOf[c], ms) \subseteq SUBSET Agents
  BY AsksAgents
<1>3. picks(ms) \subseteq SUBSET Agents
  BY <1>2, PicksAgents
<1> HIDE DEF picks
<1>4. QED
  BY <1>1, <1>2, <1>3 DEF Chosen, Goto

\* Agents that have been rung blind stay marked.
LEMMA BlindStays == ASSUME Next PROVE blind \subseteq blind'
<1> USE DEF agentVars
<1>1. CASE Expire
  BY <1>1 DEF Expire, ReserveEnds, LockEnds, WaitEnds
<1>2. ASSUME NEW c \in Calls, CallStep(c) PROVE blind \subseteq blind'
  <2>1. CASE Choose(c)
    BY <2>1, ChooseEffect DEF Chosen
  <2>2. CASE Poll(c) \/ Look(c)
    BY <2>2, PollOrLook
  <2>3. CASE ~Choose(c) /\ ~Poll(c) /\ ~Look(c)
    BY <1>2, <2>3
       DEF CallStep, AddCall, Beat, BeatExpires, Hang, Crash, Reap, SeeHangup, GiveUp,
           PickUp, Dial, SetLocks, HandleAnswer, EndBridge, RemoveCall
  <2>4. QED
    BY <2>1, <2>2, <2>3
<1>3. ASSUME NEW c \in Calls, NEW a \in Agents, LegStep(c, a) PROVE blind \subseteq blind'
  BY <1>3 DEF LegStep, LegStarts, LegFails, Answer, LegEnds, HandleHangup
<1>4. QED
  BY <1>1, <1>2, <1>3, NextParts

LEMMA CallTypes == ASSUME TypeOK, NEW c \in Calls, CallStep(c) PROVE TypeOK'
<1> USE QueueAssumption DEF TypeOK, lineVars, ringVars, agentVars
<1>1. CASE AddCall(c)
  BY <1>1 DEF AddCall
<1>2. CASE Beat(c)
  BY <1>2 DEF Beat
<1>3. CASE BeatExpires(c)
  BY <1>3 DEF BeatExpires
<1>4. CASE Hang(c)
  BY <1>4 DEF Hang
<1>5. CASE Crash(c)
  BY <1>5 DEF Crash, Live, Legs
<1>6. CASE Reap(c)
  BY <1>6 DEF Reap, LeaveLine
<1>7. CASE SeeHangup(c)
  BY <1>7 DEF SeeHangup, Goto
<1>8. CASE GiveUp(c)
  BY <1>8 DEF GiveUp, Goto
<1>9. CASE PickUp(c)
  BY <1>9 DEF PickUp, LeaveLine, Goto
<1>10. CASE Poll(c)
  BY <1>10 DEF Poll, Goto
<1>11. CASE Look(c)
  <2>1. PICK as \in SUBSET Agents : Ask(QueueOf[c], as)
    BY <1>11, LookEffect
  <2>2. /\ lock' \in [Locks -> {"none", "10s", "day"}]
        /\ reserved' \in [Agents -> Queues \cup {None}]
        /\ early' \in BOOLEAN
    BY <2>1, AskTypes
  <2>3. /\ pc' = [pc EXCEPT ![c] = "wait"] \/ pc' = [pc EXCEPT ![c] = "ready"]
        /\ pc[c] = "head"
        /\ UNCHANGED <<lineVars, ringVars, cooling, blind>>
    BY <1>11, LookEffect
  <2>4. QED
    BY <2>2, <2>3
<1>12. CASE Choose(c)
  <2>1. PICK as \in SUBSET Agents :
           /\ Ask(QueueOf[c], as)
           /\ \/ /\ UNCHANGED <<pc, chosen, blind>>
                 /\ tried' = tried \/ tried' = [tried EXCEPT ![c] = {}]
              \/ Chosen(c, as)
    BY <1>12, ChooseEffect
  <2>2. /\ lock' \in [Locks -> {"none", "10s", "day"}]
        /\ reserved' \in [Agents -> Queues \cup {None}]
        /\ early' \in BOOLEAN
    BY <2>1, AskTypes
  <2>3. UNCHANGED <<lineVars, leg, answered, doubled, cooling>>
    BY <1>12 DEF Choose
  <2>4. CASE UNCHANGED <<pc, chosen, blind>>
    BY <2>1, <2>2, <2>3, <2>4 DEF Chosen
  <2>5. CASE Chosen(c, as)
    <3>1. PICK rung \in SUBSET Agents :
            /\ chosen' = [chosen EXCEPT ![c] = rung]
            /\ pc' = [pc EXCEPT ![c] = "dial"]
            /\ blind' = blind \cup (rung \ Free(QueueOf[c], as))
            /\ tried' = tried
      BY <2>5 DEF Chosen
    <3>2. QED
      BY <2>2, <2>3, <3>1
  <2>6. QED
    BY <2>1, <2>4, <2>5
<1>13. CASE Dial(c)
  <2>1. pc' \in {[pc EXCEPT ![c] = "ready"], [pc EXCEPT ![c] = "lock"]}
    BY <1>13 DEF Dial, Goto
  <2>2. /\ chosen' \in {chosen, [chosen EXCEPT ![c] = {}]}
        /\ pc'[c] = "ready" => chosen'[c] = {}
    BY <1>13 DEF Dial, Goto
  <2>3. leg' \in [Legs -> {"none", "spawned", "up", "talk", "over"}]
    BY <1>13 DEF Dial
  <2>4. doubled' \in BOOLEAN
    BY <1>13, Zenon DEF Dial
  <2>5. UNCHANGED <<lineVars, tried, answered, agentVars>>
    BY <1>13 DEF Dial
  <2>6. QED
    BY <2>1, <2>2, <2>3, <2>4, <2>5
<1>14. CASE SetLocks(c)
  BY <1>14 DEF SetLocks, Goto
<1>15. CASE HandleAnswer(c)
  BY <1>15 DEF HandleAnswer, LeaveLine
<1>16. CASE EndBridge(c)
  BY <1>16 DEF EndBridge, Goto
<1>17. CASE RemoveCall(c)
  BY <1>17 DEF RemoveCall, LeaveLine, Goto
<1>18. QED
  BY <1>1, <1>2, <1>3, <1>4, <1>5, <1>6, <1>7, <1>8, <1>9,
     <1>10, <1>11, <1>12, <1>13, <1>14, <1>15, <1>16, <1>17 DEF CallStep

LEMMA LegTypes ==
    ASSUME TypeOK, NEW c \in Calls, NEW a \in Agents, LegStep(c, a) PROVE TypeOK'
<1> USE QueueAssumption DEF TypeOK, lineVars, ringVars, agentVars, SetLeg, Legs
<1>1. CASE LegStarts(c, a)
  BY <1>1 DEF LegStarts
<1>2. CASE LegFails(c, a)
  BY <1>2 DEF LegFails
<1>3. CASE Answer(c, a)
  BY <1>3 DEF Answer
<1>4. CASE LegEnds(c, a)
  BY <1>4 DEF LegEnds
<1>5. CASE HandleHangup(c, a)
  BY <1>5 DEF HandleHangup, Locks, Scopes
<1>6. QED
  BY <1>1, <1>2, <1>3, <1>4, <1>5 DEF LegStep

LEMMA ExpireTypes == ASSUME TypeOK, Expire PROVE TypeOK'
<1> USE DEF TypeOK, lineVars, ringVars, Locks
<1>1. ASSUME NEW a \in Agents, ReserveEnds(a) PROVE TypeOK'
  BY <1>1 DEF ReserveEnds
<1>2. ASSUME NEW s \in Scopes, NEW a \in Agents, LockEnds(s, a) PROVE TypeOK'
  BY <1>2 DEF LockEnds
<1>3. ASSUME NEW s \in Scopes, NEW a \in Agents, WaitEnds(s, a) PROVE TypeOK'
  BY <1>3 DEF WaitEnds
<1>4. QED
  BY <1>1, <1>2, <1>3 DEF Expire

\* Every variable keeps its type, and members are chosen only for a call that is
\* being served.
THEOREM TypeCorrect == Spec => []TypeOK
<1>1. TypeOK /\ [Next]_vars => TypeOK'
  <2> SUFFICES ASSUME TypeOK, [Next]_vars PROVE TypeOK'
      OBVIOUS
  <2>1. CASE Next
    BY <2>1, NextParts, CallTypes, LegTypes, ExpireTypes
  <2>2. CASE UNCHANGED vars
    BY <2>2 DEF TypeOK, vars, lineVars, ringVars, agentVars
  <2>3. QED
    BY <2>1, <2>2
<1>2. QED
  BY InitTypes, <1>1, PTL DEF Spec

-----------------------------------------------------------------------------

\* A call has legs from its dialling to the end of the bridge only, and is not
\* answered before.
Bridged ==
    /\ \A c \in Calls, a \in Agents :
          leg[<<c, a>>] # "none" =>
              pc[c] = "dead" \/ (pc[c] \in {"lock", "result"} /\ a \in chosen[c])
    /\ \A c \in Calls : pc[c] \in {"out", "wait", "head", "ready", "dial"} => c \notin answered

LEMMA BridgedInit == Init => Bridged
<1> SUFFICES ASSUME Init PROVE Bridged
    OBVIOUS
<1>1. \A c \in Calls, a \in Agents : leg[<<c, a>>] = "none"
  BY DEF Init, Legs
<1>2. answered = {}
  BY DEF Init
<1>3. QED
  BY <1>1, <1>2 DEF Bridged

\* Dialling changes the legs to the members chosen, and no other.
LEMMA DialLegs ==
    ASSUME NEW c \in Calls, Dial(c), c \notin hung
    PROVE  \A d \in Calls, a \in Agents :
             leg'[<<d, a>>] = IF d = c /\ a \in chosen[c] THEN "spawned" ELSE leg[<<d, a>>]
<1>1. leg' = [l \in Legs |-> IF l \in {c} \X chosen[c] THEN "spawned" ELSE leg[l]]
  BY DEF Dial
<1>2. \A d \in Calls, a \in Agents :
        <<d, a>> \in Legs /\ (<<d, a>> \in {c} \X chosen[c] <=> d = c /\ a \in chosen[c])
  BY DEF Legs
<1>3. QED
  BY <1>1, <1>2

LEMMA BridgedCall == ASSUME TypeOK, Bridged, NEW c \in Calls, CallStep(c) PROVE Bridged'
<1> USE DEF TypeOK, Bridged, lineVars, ringVars, agentVars
<1>1. CASE AddCall(c)
  BY <1>1 DEF AddCall
<1>2. CASE Beat(c)
  BY <1>2 DEF Beat
<1>3. CASE BeatExpires(c)
  BY <1>3 DEF BeatExpires
<1>4. CASE Hang(c)
  BY <1>4 DEF Hang
<1>5. CASE Crash(c)
  BY <1>5 DEF Crash, Legs
<1>6. CASE Reap(c)
  BY <1>6 DEF Reap, LeaveLine
<1>7. CASE SeeHangup(c)
  BY <1>7 DEF SeeHangup, Goto
<1>8. CASE GiveUp(c)
  BY <1>8 DEF GiveUp, Goto
<1>9. CASE PickUp(c)
  BY <1>9 DEF PickUp, LeaveLine, Goto
<1>10. CASE Poll(c) \/ Look(c)
  <2>1. PICK at \in {"head", "wait", "ready"} : pc' = [pc EXCEPT ![c] = at]
    BY <1>10, PollOrLook
  <2>2. pc[c] \in {"wait", "head"} /\ UNCHANGED ringVars
    BY <1>10, PollOrLook
  <2>3. QED
    BY <2>1, <2>2
<1>11. CASE Choose(c)
  <2>1. /\ (pc' = pc /\ chosen' = chosen) \/ pc' = [pc EXCEPT ![c] = "dial"]
        /\ \A d \in Calls \ {c} : chosen'[d] = chosen[d]
        /\ pc[c] = "ready" /\ UNCHANGED <<leg, answered>>
    BY <1>11 DEF Choose, Goto
  <2>2. QED
    BY <2>1
<1>12. CASE Dial(c)
  <2>1. CASE c \in hung
    <3>1. /\ pc' = [pc EXCEPT ![c] = "ready"] /\ pc[c] = "dial"
          /\ chosen' = [chosen EXCEPT ![c] = {}] /\ UNCHANGED <<leg, answered>>
      BY <1>12, <2>1 DEF Dial, Goto
    <3>2. QED
      BY <3>1
  <2>2. CASE c \notin hung
    <3>1. /\ pc' = [pc EXCEPT ![c] = "lock"] /\ pc[c] = "dial"
          /\ UNCHANGED <<chosen, answered>>
      BY <1>12, <2>2 DEF Dial, Goto
    <3>2. \A d \in Calls, a \in Agents :
            leg'[<<d, a>>] = IF d = c /\ a \in chosen[c] THEN "spawned" ELSE leg[<<d, a>>]
      BY <1>12, <2>2, DialLegs
    <3>3. QED
      BY <3>1, <3>2
  <2>3. QED
    BY <2>1, <2>2
<1>13. CASE SetLocks(c)
  BY <1>13 DEF SetLocks, Goto
<1>14. CASE HandleAnswer(c)
  BY <1>14 DEF HandleAnswer, LeaveLine
<1>15. CASE EndBridge(c)
  <2>1. /\ \A a \in Agents : leg[<<c, a>>] = "none"
        /\ \A d \in Calls \ {c} : pc'[d] = pc[d] /\ chosen'[d] = chosen[d]
        /\ pc'[c] = "leave" \/ (pc'[c] = "ready" /\ c \notin answered)
        /\ UNCHANGED <<leg, answered>>
    BY <1>15 DEF EndBridge, Goto
  <2>2. QED
    BY <2>1
<1>16. CASE RemoveCall(c)
  BY <1>16 DEF RemoveCall, LeaveLine, Goto
<1>17. QED
  BY <1>1, <1>2, <1>3, <1>4, <1>5, <1>6, <1>7, <1>8, <1>9, <1>10, <1>11, <1>12, <1>13,
     <1>14, <1>15, <1>16 DEF CallStep

LEMMA BridgedLeg ==
    ASSUME TypeOK, Bridged, NEW c \in Calls, NEW a \in Agents, LegStep(c, a)
    PROVE  Bridged'
<1>1. UNCHANGED <<pc, chosen>>
  BY DEF LegStep, LegStarts, LegFails, Answer, LegEnds, HandleHangup
<1>2. \A d \in Calls, b \in Agents : leg'[<<d, b>>] # "none" => leg[<<d, b>>] # "none"
  <2> USE DEF TypeOK, Legs, SetLeg
  <2>1. CASE LegStarts(c, a)
    BY <2>1 DEF LegStarts
  <2>2. CASE LegFails(c, a)
    BY <2>2 DEF LegFails
  <2>3. CASE Answer(c, a)
    BY <2>3 DEF Answer
  <2>4. CASE LegEnds(c, a)
    BY <2>4 DEF LegEnds
  <2>5. CASE HandleHangup(c, a)
    BY <2>5 DEF HandleHangup
  <2>6. QED
    BY <2>1, <2>2, <2>3, <2>4, <2>5 DEF LegStep
<1>3. answered' = answered \/ (answered' = answered \cup {c} /\ leg[<<c, a>>] = "up")
  BY DEF LegStep, LegStarts, LegFails, Answer, LegEnds, HandleHangup
<1>4. QED
  BY <1>1, <1>2, <1>3 DEF Bridged

LEMMA BridgedExpire == ASSUME Bridged, Expire PROVE Bridged'
BY DEF Bridged, Expire, ReserveEnds, LockEnds, WaitEnds, ringVars

LEMMA BridgedStep == TypeOK /\ Bridged /\ [Next]_vars => Bridged'
<1> SUFFICES ASSUME TypeOK, Bridged, [Next]_vars PROVE Bridged'
    OBVIOUS
<1>1. CASE Next
  BY <1>1, NextParts, BridgedCall, BridgedLeg, BridgedExpire
<1>2. CASE UNCHANGED vars
  BY <1>2 DEF Bridged, vars, ringVars
<1>3. QED
  BY <1>1, <1>2

-----------------------------------------------------------------------------

\* A call has been at the head and has not lost its place: it is its turn, it has
\* not hung up, and its answer, if any, has not been handled.
AtFront(c) ==
    Turn(c) /\ c \notin hung /\ (c \in answered => pc[c] = "lock")

\* Such a call is still in the line, and who stands before it came when it was
\* its turn already.
InLine ==
    \A c \in Calls :
        AtFront(c) =>
            /\ c \in queued
            /\ \A d \in queued : Before(d, c) => <<d, c>> \in overtaken

LEMMA InLineInit == Init => InLine
BY DEF Init, InLine, AtFront, Turn, Serving

\* It takes the line to change for this to break: whoever goes on being served
\* and whoever goes on standing in the line were so before.
LEMMA InLineSame ==
    ASSUME InLine, score' = score, queued' \subseteq queued, overtaken \subseteq overtaken',
           \A c \in Calls : AtFront(c)' => AtFront(c),
           \A c \in queued \ queued' : c \in Calls => ~AtFront(c)'
    PROVE  InLine'
BY DEF InLine, Before

LEMMA InLineCall ==
    ASSUME TypeOK, Bridged, InLine, NEW c \in Calls, CallStep(c) PROVE InLine'
<1> USE DEF TypeOK, lineVars, ringVars, agentVars
<1>1. CASE AddCall(c)
  <2>1. /\ \A d \in Calls \ {c} : score'[d] = score[d] /\ pc'[d] = pc[d]
        /\ pc[c] = "out" /\ pc'[c] = "wait"
        /\ hung' = hung /\ answered' = answered /\ queued' = queued \cup {c}
        /\ overtaken' = overtaken \cup
                          {<<c, d>> : d \in {e \in queued : Turn(e) /\ Before(c, e)'}}
    BY <1>1 DEF AddCall
  <2>2. SUFFICES ASSUME NEW d \in Calls, AtFront(d)'
                 PROVE  /\ d \in queued'
                        /\ \A e \in queued' : Before(e, d)' => <<e, d>> \in overtaken'
    BY DEF InLine
  <2>3. d # c /\ AtFront(d) /\ Turn(d)
    BY <2>1, <2>2 DEF AtFront, Turn, Serving
  <2>4. d \in queued /\ \A e \in queued : Before(e, d) => <<e, d>> \in overtaken
    BY <2>3 DEF InLine
  <2>5. ASSUME NEW e \in queued', Before(e, d)' PROVE <<e, d>> \in overtaken'
    <3>1. CASE e = c
      BY <2>1, <2>3, <2>4, <2>5, <3>1
    <3>2. CASE e # c
      <4>1. e \in queued /\ Before(e, d)
        BY <2>1, <2>3, <2>5, <3>2 DEF Before
      <4>2. QED
        BY <2>1, <2>4, <4>1
    <3>3. QED
      BY <3>1, <3>2
  <2>6. QED
    BY <2>1, <2>4, <2>5
<1>2. CASE Beat(c)
  BY <1>2, InLineSame DEF Beat, AtFront, Turn, Serving
<1>3. CASE BeatExpires(c)
  BY <1>3, InLineSame DEF BeatExpires, AtFront, Turn, Serving
<1>4. CASE Hang(c)
  BY <1>4, InLineSame DEF Hang, AtFront, Turn, Serving
<1>5. CASE Crash(c)
  BY <1>5, InLineSame DEF Crash, AtFront, Turn, Serving
<1>6. CASE Reap(c)
  BY <1>6, InLineSame DEF Reap, LeaveLine, AtFront, Turn, Serving
<1>7. CASE SeeHangup(c)
  BY <1>7, InLineSame DEF SeeHangup, Goto, AtFront, Turn, Serving
<1>8. CASE GiveUp(c)
  BY <1>8, InLineSame DEF GiveUp, Goto, AtFront, Turn, Serving
<1>9. CASE PickUp(c)
  BY <1>9, InLineSame DEF PickUp, LeaveLine, Goto, AtFront, Turn, Serving
<1>10. CASE Poll(c)
  <2>1. UNCHANGED <<score, queued, hung, answered, overtaken>> /\ AtHead(c)
    BY <1>10 DEF Poll
  <2>2. \A d \in Calls \ {c} : AtFront(d)' => AtFront(d)
    BY <1>10, <2>1 DEF Poll, Goto, AtFront, Turn, Serving
  <2>3. c \in queued /\ \A d \in queued : ~Before(d, c)
    BY <2>1 DEF AtHead
  <2>4. QED
    BY <2>1, <2>2, <2>3 DEF InLine, Before
<1>11. CASE Look(c)
  <2>1. pc[c] = "head" /\ UNCHANGED <<score, queued, hung, answered, overtaken>>
    BY <1>11, LookEffect
  <2>2. pc' = [pc EXCEPT ![c] = "wait"] \/ pc' = [pc EXCEPT ![c] = "ready"]
    BY <1>11, LookEffect
  <2>3. c \notin answered
    BY <2>1 DEF Bridged
  <2>4. QED
    BY <2>1, <2>2, <2>3, InLineSame DEF AtFront, Turn, Serving
<1>12. CASE Choose(c)
  <2>1. UNCHANGED <<score, queued, hung, answered, overtaken>> /\ pc[c] = "ready"
    BY <1>12 DEF Choose
  <2>2. pc' = pc \/ pc' = [pc EXCEPT ![c] = "dial"]
    BY <1>12 DEF Choose, Goto
  <2>3. QED
    BY <2>1, <2>2, InLineSame DEF AtFront, Turn, Serving
<1>13. CASE Dial(c)
  <2>1. c \notin answered
    BY <1>13 DEF Dial, Bridged
  <2>2. QED
    BY <1>13, <2>1, InLineSame DEF Dial, Goto, AtFront, Turn, Serving
<1>14. CASE SetLocks(c)
  BY <1>14, InLineSame DEF SetLocks, Goto, AtFront, Turn, Serving
<1>15. CASE HandleAnswer(c)
  BY <1>15, InLineSame DEF HandleAnswer, LeaveLine, AtFront, Turn, Serving
<1>16. CASE EndBridge(c)
  BY <1>16, InLineSame DEF EndBridge, Goto, AtFront, Turn, Serving
<1>17. CASE RemoveCall(c)
  BY <1>17, InLineSame DEF RemoveCall, LeaveLine, Goto, AtFront, Turn, Serving
<1>18. QED
  BY <1>1, <1>2, <1>3, <1>4, <1>5, <1>6, <1>7, <1>8, <1>9, <1>10, <1>11, <1>12, <1>13,
     <1>14, <1>15, <1>16, <1>17 DEF CallStep

LEMMA InLineLeg ==
    ASSUME TypeOK, InLine, NEW c \in Calls, NEW a \in Agents, LegStep(c, a)
    PROVE  InLine'
<1>1. UNCHANGED <<score, queued, hung, overtaken, pc>> /\ answered \subseteq answered'
  BY DEF LegStep, LegStarts, LegFails, Answer, LegEnds, HandleHangup, lineVars
<1>2. QED
  BY <1>1, InLineSame DEF AtFront, Turn, Serving

LEMMA InLineExpire == ASSUME InLine, Expire PROVE InLine'
<1>1. UNCHANGED <<score, queued, hung, overtaken, pc, answered>>
  BY DEF Expire, ReserveEnds, LockEnds, WaitEnds, lineVars, ringVars
<1>2. QED
  BY <1>1, InLineSame DEF AtFront, Turn, Serving

LEMMA InLineStep == TypeOK /\ Bridged /\ InLine /\ [Next]_vars => InLine'
<1> SUFFICES ASSUME TypeOK, Bridged, InLine, [Next]_vars PROVE InLine'
    OBVIOUS
<1>1. CASE Next
  BY <1>1, NextParts, InLineCall, InLineLeg, InLineExpire
<1>2. CASE UNCHANGED vars
  BY <1>2, InLineSame DEF vars, lineVars, ringVars, AtFront, Turn, Serving
<1>3. QED
  BY <1>1, <1>2

\* Of two calls of a queue that are served at once, the one that stands before the
\* other was added when it was the other's turn already; whatever the clocks of the
\* hosts say, and although no call reads its position again.
THEOREM ServedInOrder == Spec => []InOrder
<1>1. InLine => InOrder
  BY DEF InLine, InOrder, AtFront, Turn
<1>2. QED
  BY TypeCorrect, BridgedInit, BridgedStep, InLineInit, InLineStep, <1>1, PTL DEF Spec

-----------------------------------------------------------------------------

\* a is rung for c, or in a call.
Rings(c, a) == leg[<<c, a>>] \in {"spawned", "up", "talk"}

\* c is about to ring a.
Picked(c, a) == pc[c] = "dial" /\ a \in chosen[c]

\* What queue_available_lock is for: from the choice of a until its leg counts as
\* being in a call, a is reserved for the queue of c.
Needs(c, a) ==
    \/ pc[c] \in {"dial", "lock"} /\ a \in chosen[c]
    \/ leg[<<c, a>>] = "spawned"

\* Hence nobody of another queue rings an agent that has been picked, and nobody
\* of any queue unless two calls of one queue have met there (doubled).  Of agents
\* rung blind nothing is said.
Reserves ==
    Prompt =>
        /\ \A c \in Calls, a \in Agents \ blind : Needs(c, a) => reserved[a] = QueueOf[c]
        /\ \A c, d \in Calls, a \in Agents \ blind :
             Picked(c, a) /\ Rings(d, a) => QueueOf[d] = QueueOf[c]
        /\ \A c \in Calls, a \in Agents : pc[c] = "dead" => leg[<<c, a>>] # "spawned"
        /\ ~doubled => \A c, d \in Calls, a \in Agents \ blind :
                         Rings(c, a) /\ Rings(d, a) => c = d

LEMMA ReservesInit == Init => Reserves
<1> SUFFICES ASSUME Init PROVE Reserves
    OBVIOUS
<1>1. \A c \in Calls, a \in Agents : leg[<<c, a>>] = "none"
  BY DEF Init, Legs
<1>2. \A c \in Calls : pc[c] = "out"
  BY DEF Init
<1>3. QED
  BY <1>1, <1>2 DEF Reserves, Needs, Picked, Rings

\* No step that reserves, frees, picks and rings nobody breaks it.
LEMMA ReservesSame ==
    ASSUME Reserves, reserved' = reserved, doubled => doubled', blind \subseteq blind',
           \A c \in Calls, a \in Agents :
               /\ Needs(c, a)' => Needs(c, a)
               /\ Picked(c, a)' => Picked(c, a)
               /\ Rings(c, a)' => Rings(c, a)
               /\ pc'[c] = "dead" /\ leg'[<<c, a>>] = "spawned" =>
                    pc[c] = "dead" /\ leg[<<c, a>>] = "spawned"
    PROVE  Reserves'
<1> SUFFICES ASSUME Prompt PROVE Reserves'
  BY DEF Reserves
<1>1. \A c \in Calls, a \in Agents \ blind' : Needs(c, a)' => reserved'[a] = QueueOf[c]
  BY DEF Reserves
<1>2. \A c, d \in Calls, a \in Agents \ blind' :
         Picked(c, a)' /\ Rings(d, a)' => QueueOf[d] = QueueOf[c]
  BY DEF Reserves
<1>3. \A c \in Calls, a \in Agents : pc'[c] = "dead" => leg'[<<c, a>>] # "spawned"
  BY DEF Reserves
<1>4. ~doubled' => \A c, d \in Calls, a \in Agents \ blind' :
                     Rings(c, a)' /\ Rings(d, a)' => c = d
  BY DEF Reserves
<1>5. QED
  BY <1>1, <1>2, <1>3, <1>4 DEF Reserves

\* Asking for agents takes no reservation away.
LEMMA AskReserves ==
    ASSUME TypeOK, Reserves, Prompt, NEW q \in Queues, NEW as \in SUBSET Agents,
           Ask(q, as)
    PROVE  /\ \A c \in Calls, a \in Agents \ blind : Needs(c, a) => reserved'[a] = QueueOf[c]
           /\ \A a \in as : Available(q, a) => reserved'[a] = q
<1> SUFFICES ASSUME NEW a \in Agents
             PROVE  /\ a \notin blind => \A c \in Calls : Needs(c, a) => reserved'[a] = QueueOf[c]
                    /\ a \in as /\ Available(q, a) => reserved'[a] = q
    OBVIOUS
<1>1. reserved'[a] = IF a \in as /\ Available(q, a) THEN q ELSE reserved[a]
  BY DEF Ask
<1>2. a \notin blind => \A c \in Calls : Needs(c, a) => reserved[a] = QueueOf[c]
  BY DEF Reserves
<1>3. Available(q, a) => reserved[a] \in {None, q}
  BY DEF Available
<1>4. \A c \in Calls : QueueOf[c] # None
  BY QueueAssumption
<1>5. QED
  BY <1>1, <1>2, <1>3, <1>4

\* A leg of another queue keeps an agent from being available.
LEMMA AvailableAlone ==
    ASSUME TypeOK, Reserves, Prompt, NEW q \in Queues, NEW a \in Agents \ blind,
           Available(q, a), NEW d \in Calls, Rings(d, a)
    PROVE  QueueOf[d] = q
<1>1. leg[<<d, a>>] \notin {"up", "talk"}
  BY DEF Available, Asked, InCall
<1>2. Needs(d, a)
  BY <1>1 DEF Rings, Needs
<1>3. reserved[a] = QueueOf[d] /\ reserved[a] \in {None, q}
  BY <1>2 DEF Reserves, Available
<1>4. QED
  BY <1>3, QueueAssumption

LEMMA ReservesPoll ==
    ASSUME TypeOK, Reserves, NEW c \in Calls, Poll(c) \/ Look(c) PROVE Reserves'
<1>1. PICK at \in {"head", "wait", "ready"} : pc' = [pc EXCEPT ![c] = at]
  BY PollOrLook
<1>2. UNCHANGED <<chosen, leg, doubled, blind>> /\ pc[c] \in {"wait", "head"}
  BY PollOrLook DEF ringVars
<1>3. \A d \in Calls, a \in Agents :
        /\ Needs(d, a)' => Needs(d, a)
        /\ Picked(d, a)' => Picked(d, a)
        /\ Rings(d, a)' <=> Rings(d, a)
        /\ pc'[d] = "dead" => pc[d] = "dead"
  BY <1>1, <1>2 DEF TypeOK, Needs, Picked, Rings
<1>4. CASE Poll(c)
  BY <1>2, <1>3, <1>4, ReservesSame DEF Poll, agentVars
<1>5. CASE Look(c)
  <2>1. PICK as \in SUBSET Agents : Ask(QueueOf[c], as)
    BY <1>5, LookEffect
  <2>2. Prompt => \A d \in Calls, a \in Agents \ blind :
                    Needs(d, a) => reserved'[a] = QueueOf[d]
    BY <2>1, AskReserves, QueueAssumption
  <2>3. QED
    BY <1>2, <1>3, <2>2 DEF Reserves
<1>6. QED
  BY <1>4, <1>5

LEMMA ReservesChoose ==
    ASSUME TypeOK, Reserves, NEW c \in Calls, Choose(c) PROVE Reserves'
<1>1. PICK as \in SUBSET Agents :
        /\ Ask(QueueOf[c], as)
        /\ \/ /\ UNCHANGED <<pc, chosen, blind>>
              /\ tried' = tried \/ tried' = [tried EXCEPT ![c] = {}]
           \/ Chosen(c, as)
  BY ChooseEffect
<1> DEFINE free == Free(QueueOf[c], as)
<1>2. free \subseteq Agents /\ QueueOf[c] \in Queues
  BY QueueAssumption DEF Free
<1>3. Prompt => /\ \A d \in Calls, a \in Agents \ blind :
                     Needs(d, a) => reserved'[a] = QueueOf[d]
                /\ \A a \in free : reserved'[a] = QueueOf[c]
  BY <1>1, <1>2, AskReserves DEF Free
<1>4. Prompt => \A a \in free \ blind, d \in Calls : Rings(d, a) => QueueOf[d] = QueueOf[c]
  BY <1>2, AvailableAlone DEF Free
<1> HIDE DEF free
<1>5. /\ blind \subseteq blind'
      /\ \/ pc' = pc /\ chosen' = chosen
         \/ \E rung \in SUBSET Agents : /\ chosen' = [chosen EXCEPT ![c] = rung]
                                        /\ pc' = [pc EXCEPT ![c] = "dial"]
                                        /\ rung \ free \subseteq blind'
  BY <1>1 DEF Chosen, free
<1>6. UNCHANGED <<leg, doubled>> /\ pc[c] = "ready"
  BY DEF Choose
<1>7. \A d \in Calls, a \in Agents :
        /\ Needs(d, a)' => Needs(d, a) \/ (d = c /\ a \in free \cup blind')
        /\ Picked(d, a)' => Picked(d, a) \/ (d = c /\ a \in free \cup blind')
        /\ Rings(d, a)' <=> Rings(d, a)
        /\ pc'[d] = "dead" => pc[d] = "dead"
  BY <1>5, <1>6 DEF TypeOK, Needs, Picked, Rings
<1>8. QED
  BY <1>3, <1>4, <1>5, <1>6, <1>7 DEF Reserves

LEMMA ReservesDial ==
    ASSUME TypeOK, Reserves, NEW c \in Calls, Dial(c) PROVE Reserves'
<1>1. UNCHANGED <<reserved, blind>> /\ pc[c] = "dial"
  BY DEF Dial, agentVars
<1>2. CASE c \in hung
  <2>1. pc' = [pc EXCEPT ![c] = "ready"] /\ chosen' = [chosen EXCEPT ![c] = {}]
        /\ UNCHANGED <<leg, doubled>>
    BY <1>2 DEF Dial, Goto
  <2>2. QED
    BY <1>1, <2>1, ReservesSame DEF TypeOK, Needs, Picked, Rings
<1>3. CASE c \notin hung
  <2> SUFFICES ASSUME Prompt PROVE Reserves'
      BY DEF Reserves
  <2>1. /\ pc' = [pc EXCEPT ![c] = "lock"] /\ chosen' = chosen
        /\ leg' = [l \in Legs |-> IF l \in {c} \X chosen[c] THEN "spawned" ELSE leg[l]]
        /\ doubled' = (doubled \/ \E a \in chosen[c] \ blind, d \in Calls \ {c} :
                                    QueueOf[d] = QueueOf[c] /\ Engaged(d, a))
    BY <1>3 DEF Dial, Goto
  <2>2. \A d \in Calls, a \in Agents :
          leg'[<<d, a>>] = IF d = c /\ a \in chosen[c] THEN "spawned" ELSE leg[<<d, a>>]
    BY <1>3, DialLegs
  <2>3. \A d \in Calls, a \in Agents :
          /\ Needs(d, a)' => Needs(d, a)
          /\ Picked(d, a)' => Picked(d, a) /\ d # c
          /\ Rings(d, a)' => Rings(d, a) \/ (d = c /\ Picked(c, a))
          /\ pc'[d] = "dead" => pc[d] = "dead" /\ d # c
    <3>1. \A d \in Calls : pc'[d] = IF d = c THEN "lock" ELSE pc[d]
      BY <2>1 DEF TypeOK
    <3>2. SUFFICES ASSUME NEW d \in Calls, NEW a \in Agents
                   PROVE  /\ Needs(d, a)' => Needs(d, a)
                          /\ Picked(d, a)' => Picked(d, a) /\ d # c
                          /\ Rings(d, a)' => Rings(d, a) \/ (d = c /\ Picked(c, a))
                          /\ pc'[d] = "dead" => pc[d] = "dead" /\ d # c
      OBVIOUS
    <3>3. CASE d = c
      BY <1>1, <2>1, <2>2, <3>1, <3>3 DEF Needs, Picked, Rings
    <3>4. CASE d # c
      BY <2>1, <2>2, <3>1, <3>4 DEF Needs, Picked, Rings
    <3>5. QED
      BY <3>3, <3>4
  <2>4. \A d, e \in Calls, a \in Agents \ blind :
          Picked(d, a)' /\ Rings(e, a)' => QueueOf[e] = QueueOf[d]
    <3>1. \A d \in Calls, a \in Agents \ blind : Picked(d, a) => reserved[a] = QueueOf[d]
      BY DEF Reserves, Needs, Picked
    <3>2. QED
      BY <2>3, <3>1 DEF Reserves
  <2>5. ~doubled' => \A d, e \in Calls, a \in Agents \ blind : Rings(d, a)' /\ Rings(e, a)' => d = e
    <3>1. SUFFICES ASSUME ~doubled', NEW d \in Calls \ {c}, NEW a \in chosen[c] \ blind,
                          a \in Agents, Rings(d, a)
                   PROVE  FALSE
      BY <2>1, <2>3 DEF Reserves, Picked
    <3>2. QueueOf[d] = QueueOf[c]
      BY <1>1, <3>1 DEF Reserves, Picked
    <3>3. Engaged(d, a)
      BY <3>1 DEF Reserves, Rings, Engaged
    <3>4. QED
      BY <2>1, <3>1, <3>2, <3>3
  <2>6. QED
    BY <1>1, <2>2, <2>3, <2>4, <2>5 DEF Reserves
<1>4. QED
  BY <1>2, <1>3

LEMMA ReservesCall ==
    ASSUME TypeOK, Reserves, NEW c \in Calls, CallStep(c) PROVE Reserves'
<1> USE DEF TypeOK, lineVars, ringVars, agentVars
<1>1. CASE AddCall(c)
  BY <1>1, ReservesSame DEF AddCall, Needs, Picked, Rings
<1>2. CASE Beat(c)
  BY <1>2, ReservesSame DEF Beat, Needs, Picked, Rings
<1>3. CASE BeatExpires(c)
  BY <1>3, ReservesSame DEF BeatExpires, Needs, Picked, Rings
<1>4. CASE Hang(c)
  BY <1>4, ReservesSame DEF Hang, Needs, Picked, Rings
<1>5. CASE Crash(c)
  BY <1>5, ReservesSame DEF Crash, Legs, Needs, Picked, Rings
<1>6. CASE Reap(c)
  BY <1>6, ReservesSame DEF Reap, LeaveLine, Needs, Picked, Rings
<1>7. CASE SeeHangup(c)
  BY <1>7, ReservesSame DEF SeeHangup, Goto, Needs, Picked, Rings
<1>8. CASE GiveUp(c)
  BY <1>8, ReservesSame DEF GiveUp, Goto, Needs, Picked, Rings
<1>9. CASE PickUp(c)
  BY <1>9, ReservesSame DEF PickUp, LeaveLine, Goto, Needs, Picked, Rings
<1>10. CASE Poll(c) \/ Look(c)
  BY <1>10, ReservesPoll
<1>11. CASE Choose(c)
  BY <1>11, ReservesChoose
<1>12. CASE Dial(c)
  BY <1>12, ReservesDial
<1>13. CASE SetLocks(c)
  BY <1>13, ReservesSame DEF SetLocks, Goto, Needs, Picked, Rings
<1>14. CASE HandleAnswer(c)
  BY <1>14, ReservesSame DEF HandleAnswer, LeaveLine, Needs, Picked, Rings
<1>15. CASE EndBridge(c)
  BY <1>15, ReservesSame DEF EndBridge, Goto, Needs, Picked, Rings
<1>16. CASE RemoveCall(c)
  BY <1>16, ReservesSame DEF RemoveCall, LeaveLine, Goto, Needs, Picked, Rings
<1>17. QED
  BY <1>1, <1>2, <1>3, <1>4, <1>5, <1>6, <1>7, <1>8, <1>9, <1>10, <1>11, <1>12, <1>13, <1>14, <1>15, <1>16 DEF CallStep

LEMMA ReservesLeg ==
    ASSUME TypeOK, Reserves, NEW c \in Calls, NEW a \in Agents, LegStep(c, a)
    PROVE  Reserves'
<1>1. UNCHANGED <<pc, chosen, doubled, reserved, blind>>
  BY DEF LegStep, LegStarts, LegFails, Answer, LegEnds, HandleHangup, agentVars
<1>2. \A d \in Calls, b \in Agents :
        /\ leg'[<<d, b>>] = "spawned" => leg[<<d, b>>] = "spawned"
        /\ Rings(d, b)' => Rings(d, b)
  <2> USE DEF TypeOK, Legs, Rings, SetLeg
  <2>1. CASE LegStarts(c, a)
    BY <2>1 DEF LegStarts
  <2>2. CASE LegFails(c, a)
    BY <2>2 DEF LegFails
  <2>3. CASE Answer(c, a)
    BY <2>3 DEF Answer
  <2>4. CASE LegEnds(c, a)
    BY <2>4 DEF LegEnds
  <2>5. CASE HandleHangup(c, a)
    BY <2>5 DEF HandleHangup
  <2>6. QED
    BY <2>1, <2>2, <2>3, <2>4, <2>5 DEF LegStep
<1>3. QED
  BY <1>1, <1>2, ReservesSame DEF Needs, Picked

LEMMA ReservesExpire == ASSUME TypeOK, Reserves, Expire PROVE Reserves'
<1> USE DEF lineVars, ringVars
<1>1. ASSUME NEW a \in Agents, ReserveEnds(a) PROVE Reserves'
  <2>1. UNCHANGED <<pc, chosen, leg, doubled, blind>>
    BY <1>1 DEF ReserveEnds
  <2>2. \A c \in Calls, b \in Agents :
          /\ Needs(c, b)' <=> Needs(c, b)
          /\ Picked(c, b)' <=> Picked(c, b)
          /\ Rings(c, b)' <=> Rings(c, b)
    BY <2>1 DEF Needs, Picked, Rings
  <2>3. Prompt => \A c \in Calls, b \in Agents \ blind : Needs(c, b) => reserved'[b] = QueueOf[c]
    <3> SUFFICES ASSUME Prompt, NEW c \in Calls, NEW b \in Agents \ blind, Needs(c, b)
                 PROVE  reserved'[b] = QueueOf[c]
        OBVIOUS
    <3>1. reserved[b] = QueueOf[c]
      BY DEF Reserves
    <3>2. b # a
      BY <1>1, <3>1 DEF ReserveEnds, Needs
    <3>3. QED
      BY <1>1, <3>1, <3>2 DEF ReserveEnds, TypeOK
  <2>4. QED
    BY <2>1, <2>2, <2>3 DEF Reserves
<1>2. ASSUME NEW s \in Scopes, NEW a \in Agents, LockEnds(s, a) \/ WaitEnds(s, a)
      PROVE  Reserves'
  BY <1>2, ReservesSame DEF LockEnds, WaitEnds, Needs, Picked, Rings
<1>3. QED
  BY <1>1, <1>2 DEF Expire

LEMMA ReservesStep == TypeOK /\ Reserves /\ [Next]_vars => Reserves'
<1> SUFFICES ASSUME TypeOK, Reserves, [Next]_vars PROVE Reserves'
    OBVIOUS
<1>1. CASE Next
  BY <1>1, NextParts, ReservesCall, ReservesLeg, ReservesExpire
<1>2. CASE UNCHANGED vars
  BY <1>2, ReservesSame DEF vars, lineVars, ringVars, agentVars, Needs, Picked, Rings
<1>3. QED
  BY <1>1, <1>2

\* Whatever queues an agent serves and whoever dies, it is rung for one call at a
\* time, as long as a reservation outlives the dialling it is for, no two calls of
\* one queue have met at an agent, and it was never rung with its hunt group
\* without having been found available.
THEOREM OneRingAtATime == Spec => []RungOnce
<1>1. Reserves => RungOnce
  BY DEF Reserves, RungOnce, Rings
<1>2. QED
  BY TypeCorrect, ReservesInit, ReservesStep, <1>1, PTL DEF Spec

-----------------------------------------------------------------------------

\* The waiting locks of a, seen from c: for a day as long as a is rung or talks,
\* and there until the end of its leg is handled.
Locked(c, a) ==
    \A s \in {Global, QueueOf[c]} :
        /\ leg[<<c, a>>] \in {"spawned", "up", "talk"} => lock[<<s, a>>] = "day"
        /\ leg[<<c, a>>] = "over" => lock[<<s, a>>] # "none"

\* While no two calls of one queue have met and no lock was shortened too early.
Orderly == Prompt /\ ~doubled /\ ~early

\* From set_waiting on the locks take over from the reservation: between them they
\* keep a call of another queue from picking an agent that is engaged.
Rested ==
    Orderly =>
        /\ \A c \in Calls, a \in Agents \ blind : pc[c] = "result" => Locked(c, a)
        /\ \A c, d \in Calls, a \in Agents \ blind :
             Picked(c, a) /\ Engaged(d, a) => QueueOf[d] = QueueOf[c]
        /\ \A c, d \in Calls, a \in Agents \ blind :
             Engaged(c, a) /\ Engaged(d, a) => c = d

LEMMA RestedInit == Init => Rested
<1> SUFFICES ASSUME Init PROVE Rested
    OBVIOUS
<1>1. \A c \in Calls, a \in Agents : leg[<<c, a>>] = "none"
  BY DEF Init, Legs
<1>2. \A c \in Calls : pc[c] = "out"
  BY DEF Init
<1>3. QED
  BY <1>1, <1>2 DEF Rested, Picked, Engaged

\* Only dialling finds two calls together, and only asking shortens a lock.
LEMMA DoubledByDial ==
    ASSUME Next PROVE doubled' = doubled \/ \E c \in Calls : Dial(c)
<1>1. CASE Expire
  BY <1>1 DEF Expire, ReserveEnds, LockEnds, WaitEnds, ringVars
<1>2. ASSUME NEW c \in Calls, CallStep(c), ~Dial(c) PROVE doubled' = doubled
  BY <1>2
     DEF CallStep, AddCall, Beat, BeatExpires, Hang, Crash, Reap, SeeHangup, GiveUp, PickUp,
         Poll, Look, Choose, SetLocks, HandleAnswer, EndBridge, RemoveCall, ringVars
<1>3. ASSUME NEW c \in Calls, NEW a \in Agents, LegStep(c, a) PROVE doubled' = doubled
  BY <1>3 DEF LegStep, LegStarts, LegFails, Answer, LegEnds, HandleHangup
<1>4. QED
  BY <1>1, <1>2, <1>3, NextParts

LEMMA EarlyStays == ASSUME Next, early PROVE early'
<1>1. CASE Expire
  <2>1. early' = early
    BY <1>1 DEF Expire, ReserveEnds, LockEnds, WaitEnds
  <2>2. QED
    BY <2>1
<1>2. ASSUME NEW c \in Calls, CallStep(c) PROVE early'
  <2>1. CASE Look(c) \/ Choose(c)
    <3>1. PICK as \in SUBSET Agents : Ask(QueueOf[c], as)
      BY <2>1, LookEffect, ChooseEffect
    <3>2. QED
      BY <3>1, Zenon DEF Ask
  <2>2. CASE ~Look(c) /\ ~Choose(c)
    <3>1. early' = early
      BY <1>2, <2>2
         DEF CallStep, AddCall, Beat, BeatExpires, Hang, Crash, Reap, SeeHangup, GiveUp,
             PickUp, Poll, Dial, SetLocks, HandleAnswer, EndBridge, RemoveCall, agentVars
    <3>2. QED
      BY <3>1
  <2>3. QED
    BY <2>1, <2>2
<1>3. ASSUME NEW c \in Calls, NEW a \in Agents, LegStep(c, a) PROVE early'
  <2>1. early' = early
    BY <1>3 DEF LegStep, LegStarts, LegFails, Answer, LegEnds, HandleHangup, agentVars
  <2>2. QED
    BY <2>1
<1>4. QED
  BY <1>1, <1>2, <1>3, NextParts

\* What was not orderly does not become so.
LEMMA OrderlyBefore == Next /\ Orderly' => Orderly
<1> SUFFICES ASSUME Next, Orderly' PROVE Orderly
    OBVIOUS
<1>1. ASSUME NEW c \in Calls, Dial(c) PROVE doubled => doubled'
  BY <1>1, Zenon DEF Dial
<1>2. doubled => doubled'
  BY <1>1, DoubledByDial
<1>3. early => early'
  BY EarlyStays
<1>4. QED
  BY <1>2, <1>3 DEF Orderly

\* No step that picks and engages nobody and leaves a rung agent locked breaks it.
LEMMA RestedSame ==
    ASSUME Rested, Orderly' => Orderly, blind \subseteq blind',
           \A c \in Calls, a \in Agents :
               /\ Picked(c, a)' => Picked(c, a)
               /\ Engaged(c, a)' => Engaged(c, a)
               /\ pc'[c] = "result" =>
                    pc[c] = "result" /\ (Orderly' /\ Locked(c, a) => Locked(c, a)')
    PROVE  Rested'
BY DEF Rested

\* Asking for an agent shortens no lock of one that is rung or talks, unless it is
\* too early.
LEMMA AskLocks ==
    ASSUME TypeOK, NEW q \in Queues, NEW as \in SUBSET Agents, Ask(q, as), ~early',
           leg' = leg, NEW c \in Calls, NEW a \in Agents, Locked(c, a)
    PROVE  Locked(c, a)'
<1> SUFFICES ASSUME NEW s \in {Global, QueueOf[c]}
             PROVE  /\ leg[<<c, a>>] \in {"spawned", "up", "talk"} => lock'[<<s, a>>] = "day"
                    /\ leg[<<c, a>>] = "over" => lock'[<<s, a>>] # "none"
    BY DEF Locked
<1>1. s \in Scopes /\ <<s, a>> \in Locks
  BY QueueAssumption DEF Scopes, Locks
<1>2. lock'[<<s, a>>] = IF <<s, a>> \in Shortened(q, as) THEN "10s" ELSE lock[<<s, a>>]
  BY <1>1 DEF Ask
<1>3. CASE leg[<<c, a>>] \in {"up", "talk"}
  <2>1. <<s, a>> \notin Shortened(q, as)
    BY <1>3 DEF Shortened, Asked, InCall
  <2>2. QED
    BY <1>2, <1>3, <2>1 DEF Locked
<1>4. CASE leg[<<c, a>>] = "spawned"
  <2>1. \A k \in Shortened(q, as), d \in Calls : leg[<<d, k[2]>>] # "spawned"
    BY Zenon DEF Ask
  <2>2. <<s, a>> \notin Shortened(q, as)
    BY <1>4, <2>1
  <2>3. QED
    BY <1>2, <1>4, <2>2 DEF Locked
<1>5. CASE leg[<<c, a>>] = "over"
  BY <1>2, <1>5 DEF Locked
<1>6. QED
  BY <1>3, <1>4, <1>5

\* An agent that is available is engaged at most by a call of the same queue whose
\* locks are not set yet.
LEMMA AvailableRested ==
    ASSUME TypeOK, Bridged, Reserves, Rested, Orderly, NEW q \in Queues,
           NEW a \in Agents \ blind, Available(q, a), NEW d \in Calls, Engaged(d, a)
    PROVE  QueueOf[d] = q /\ pc[d] = "lock"
<1>1. leg[<<d, a>>] \in {"spawned", "over"} /\ pc[d] # "dead"
  BY DEF Available, Asked, InCall, Engaged
<1>2. pc[d] \in {"lock", "result"} /\ a \in chosen[d]
  BY <1>1 DEF Bridged
<1>3. pc[d] # "result"
  <2>1. SUFFICES ASSUME pc[d] = "result" PROVE FALSE
      OBVIOUS
  <2>2. Locked(d, a)
    BY <2>1 DEF Rested
  <2>3. lock[<<Global, a>>] # "none"
    BY <1>1, <2>2 DEF Locked
  <2>4. QED
    BY <2>3 DEF Available
<1>4. Needs(d, a)
  BY <1>2, <1>3 DEF Needs
<1>5. reserved[a] = QueueOf[d] /\ reserved[a] \in {None, q}
  BY <1>4 DEF Reserves, Available, Orderly
<1>6. QED
  BY <1>2, <1>3, <1>5, QueueAssumption

\* What choosing newly picks is available, or rung blind.
LEMMA ChoosePicks ==
    ASSUME TypeOK, NEW c \in Calls, Choose(c), NEW d \in Calls, NEW a \in Agents,
           Picked(d, a)'
    PROVE  Picked(d, a) \/ (d = c /\ (a \in blind' \/ Available(QueueOf[c], a)))
<1>1. PICK as \in SUBSET Agents : UNCHANGED <<pc, chosen, blind>> \/ Chosen(c, as)
  BY ChooseEffect
<1>2. CASE UNCHANGED <<pc, chosen, blind>>
  BY <1>2 DEF Picked
<1>3. CASE Chosen(c, as)
  BY <1>3 DEF TypeOK, Picked, Chosen, Free
<1>4. QED
  BY <1>1, <1>2, <1>3

LEMMA RestedPoll ==
    ASSUME TypeOK, Rested, Orderly' => Orderly, NEW c \in Calls, Poll(c) \/ Look(c)
    PROVE  Rested'
<1>1. PICK at \in {"head", "wait", "ready"} : pc' = [pc EXCEPT ![c] = at]
  BY PollOrLook
<1>2. UNCHANGED <<chosen, leg, doubled, blind>> /\ pc[c] \in {"wait", "head"}
  BY PollOrLook DEF ringVars
<1>3. Orderly' => \A d \in Calls, a \in Agents : Locked(d, a) => Locked(d, a)'
  <2>1. CASE Poll(c)
    BY <1>2, <2>1 DEF Poll, agentVars, Locked
  <2>2. CASE Look(c)
    <3>1. PICK as \in SUBSET Agents : Ask(QueueOf[c], as)
      BY <2>2, LookEffect
    <3>2. QED
      BY <1>2, <3>1, AskLocks, QueueAssumption DEF Orderly
  <2>3. QED
    BY <2>1, <2>2
<1>4. \A d \in Calls, a \in Agents :
        /\ Picked(d, a)' => Picked(d, a)
        /\ Engaged(d, a)' => Engaged(d, a)
        /\ pc'[d] = "result" => pc[d] = "result"
  <2>1. \A d \in Calls : /\ pc'[d] \in {pc[d], "head", "wait", "ready"}
                         /\ pc[d] = "dead" => pc'[d] = "dead"
    BY <1>1, <1>2 DEF TypeOK
  <2>2. QED
    BY <1>2, <2>1 DEF Picked, Engaged
<1>5. QED
  BY <1>2, <1>3, <1>4, RestedSame

LEMMA RestedChoose ==
    ASSUME TypeOK, Bridged, Reserves, Rested, Orderly' => Orderly,
           NEW c \in Calls, Choose(c)
    PROVE  Rested'
<1>1. PICK as \in SUBSET Agents :
             /\ Ask(QueueOf[c], as)
             /\ blind \subseteq blind'
             /\ \/ pc' = pc
                \/ pc' = [pc EXCEPT ![c] = "dial"]
  BY ChooseEffect DEF Chosen
<1>2. leg' = leg /\ pc[c] = "ready" /\ QueueOf[c] \in Queues
  BY QueueAssumption DEF Choose
<1>3. Orderly' => \A d \in Calls, a \in Agents : Locked(d, a) => Locked(d, a)'
  BY <1>1, <1>2, AskLocks DEF Orderly
<1>4. \A d \in Calls : /\ pc'[d] = "result" => pc[d] = "result"
                       /\ pc[d] = "dead" => pc'[d] = "dead"
  BY <1>1, <1>2 DEF TypeOK
<1>5. \A d \in Calls, a \in Agents : Engaged(d, a)' => Engaged(d, a)
  BY <1>2, <1>4 DEF Engaged
<1>6. Orderly' => \A d, e \in Calls, a \in Agents \ blind' :
                    Picked(d, a)' /\ Engaged(e, a)' => QueueOf[e] = QueueOf[d]
  BY <1>1, <1>2, <1>5, ChoosePicks, AvailableRested DEF Rested
<1>7. QED
  BY <1>1, <1>3, <1>4, <1>5, <1>6 DEF Rested

LEMMA RestedDial ==
    ASSUME TypeOK, Bridged, Reserves, Rested, Orderly' => Orderly,
           NEW c \in Calls, Dial(c)
    PROVE  Rested'
<1>1. CASE c \in hung
  <2>1. /\ pc' = [pc EXCEPT ![c] = "ready"] /\ UNCHANGED <<leg, lock, blind>>
        /\ chosen' = [chosen EXCEPT ![c] = {}]
        /\ pc[c] = "dial"
    BY <1>1 DEF Dial, Goto, agentVars
  <2>2. QED
    BY <2>1, RestedSame DEF TypeOK, Picked, Engaged, Locked
<1>2. CASE c \notin hung
  <2> SUFFICES ASSUME Orderly' PROVE Rested'
      BY DEF Rested
  <2>1. /\ pc' = [pc EXCEPT ![c] = "lock"] /\ pc[c] = "dial"
        /\ UNCHANGED <<chosen, lock, reserved, blind>>
        /\ doubled' = (doubled \/ \E a \in chosen[c] \ blind, d \in Calls \ {c} :
                                    QueueOf[d] = QueueOf[c] /\ Engaged(d, a))
    BY <1>2 DEF Dial, Goto, agentVars
  <2>2. \A d \in Calls, a \in Agents :
          leg'[<<d, a>>] = IF d = c /\ a \in chosen[c] THEN "spawned" ELSE leg[<<d, a>>]
    BY <1>2, DialLegs
  <2>3. \A d \in Calls : pc'[d] = IF d = c THEN "lock" ELSE pc[d]
    BY <2>1 DEF TypeOK
  <2>4. \A d \in Calls, a \in Agents :
          /\ Picked(d, a)' => Picked(d, a) /\ d # c
          /\ Engaged(d, a)' => Engaged(d, a) \/ (d = c /\ Picked(c, a))
    <3> TAKE d \in Calls, a \in Agents
    <3>1. Picked(d, a)' => Picked(d, a) /\ d # c
      BY <2>1, <2>3 DEF Picked
    <3>2. CASE d = c /\ a \in chosen[c]
      BY <2>1, <3>1, <3>2 DEF Picked
    <3>3. CASE ~(d = c /\ a \in chosen[c])
      <4>1. leg'[<<d, a>>] = leg[<<d, a>>] /\ (pc'[d] # "dead" => pc[d] # "dead")
        BY <2>1, <2>2, <2>3, <3>3
      <4>2. QED
        BY <3>1, <4>1 DEF Engaged
    <3>4. QED
      BY <3>2, <3>3
  <2>5. \A d \in Calls, a \in Agents \ blind : pc'[d] = "result" => Locked(d, a)'
    <3> SUFFICES ASSUME NEW d \in Calls, NEW a \in Agents \ blind, pc'[d] = "result"
                 PROVE  Locked(d, a)'
        OBVIOUS
    <3>1. pc[d] = "result" /\ leg'[<<d, a>>] = leg[<<d, a>>]
      BY <2>2, <2>3
    <3>2. Locked(d, a)
      BY <3>1 DEF Rested
    <3>3. QED
      BY <2>1, <3>1, <3>2 DEF Locked
  <2>6. \A d, e \in Calls, a \in Agents \ blind :
          Picked(d, a) /\ Picked(e, a) => QueueOf[d] = QueueOf[e]
    <3>1. \A d \in Calls, a \in Agents \ blind : Picked(d, a) => reserved[a] = QueueOf[d]
      BY DEF Reserves, Needs, Picked, Orderly
    <3>2. QED
      BY <3>1
  <2>7. \A d, e \in Calls, a \in Agents \ blind :
          Picked(d, a)' /\ Engaged(e, a)' => QueueOf[e] = QueueOf[d]
    <3>1. \A d, e \in Calls, a \in Agents \ blind :
            Picked(d, a) /\ Engaged(e, a) => QueueOf[e] = QueueOf[d]
      BY DEF Rested
    <3>2. QED
      BY <2>4, <2>6, <3>1
  <2>8. ASSUME NEW d \in Calls, NEW a \in Agents \ blind, Picked(c, a), Engaged(d, a)
        PROVE  d = c
    <3>1. QueueOf[d] = QueueOf[c]
      BY <2>8 DEF Rested
    <3>2. a \in chosen[c] \ blind /\ ~doubled'
      BY <2>8 DEF Picked, Orderly
    <3>3. ~\E b \in chosen[c] \ blind, e \in Calls \ {c} : QueueOf[e] = QueueOf[c] /\ Engaged(e, b)
      BY <2>1, <3>2, Zenon
    <3>4. QED
      BY <2>8, <3>1, <3>2, <3>3
  <2>9. \A d, e \in Calls, a \in Agents \ blind :
          Engaged(d, a)' /\ Engaged(e, a)' => d = e
    <3>1. \A d, e \in Calls, a \in Agents \ blind : Engaged(d, a) /\ Engaged(e, a) => d = e
      BY DEF Rested
    <3>2. QED
      BY <2>4, <2>8, <3>1
  <2>10. QED
    BY <2>1, <2>5, <2>7, <2>9 DEF Rested
<1>3. QED
  BY <1>1, <1>2

LEMMA RestedSetLocks ==
    ASSUME TypeOK, Bridged, Rested, Orderly' => Orderly, NEW c \in Calls, SetLocks(c)
    PROVE  Rested'
<1>1. /\ pc' = [pc EXCEPT ![c] = "result"] /\ pc[c] = "lock"
      /\ UNCHANGED <<chosen, leg, blind>>
      /\ lock' = [k \in Locks |->
                    IF k \in {Global, QueueOf[c]} \X chosen[c] THEN "day" ELSE lock[k]]
  BY DEF SetLocks, Goto, ringVars
<1>2. \A d \in Calls : pc'[d] = IF d = c THEN "result" ELSE pc[d]
  BY <1>1 DEF TypeOK
<1>3. \A d \in Calls, a \in Agents :
        /\ Picked(d, a)' => Picked(d, a)
        /\ Engaged(d, a)' <=> Engaged(d, a)
  BY <1>1, <1>2 DEF Picked, Engaged
<1>4. \A s \in Scopes, a \in Agents :
        /\ lock'[<<s, a>>] \in {"day", lock[<<s, a>>]}
        /\ s \in {Global, QueueOf[c]} /\ a \in chosen[c] => lock'[<<s, a>>] = "day"
  <2> TAKE s \in Scopes, a \in Agents
  <2>1. <<s, a>> \in Locks
    BY DEF Locks
  <2>2. QED
    BY <1>1, <2>1
<1>5. ASSUME Orderly', NEW d \in Calls, NEW a \in Agents \ blind, pc'[d] = "result"
      PROVE  Locked(d, a)'
  <2> SUFFICES ASSUME NEW s \in {Global, QueueOf[d]}, leg[<<d, a>>] # "none"
               PROVE  \/ lock'[<<s, a>>] = "day"
                      \/ lock'[<<s, a>>] = lock[<<s, a>>] /\ Locked(d, a)
      BY <1>1 DEF Locked
  <2>1. s \in Scopes
    BY QueueAssumption DEF Scopes
  <2>2. CASE d = c
    <3>1. a \in chosen[c]
      BY <1>1, <2>2 DEF Bridged
    <3>2. QED
      BY <1>4, <2>1, <2>2, <3>1
  <2>3. CASE d # c
    <3>1. pc[d] = "result" /\ Orderly
      BY <1>2, <1>5, <2>3
    <3>2. Locked(d, a)
      BY <3>1 DEF Rested
    <3>3. QED
      BY <1>4, <2>1, <3>2
  <2>4. QED
    BY <2>2, <2>3
<1>6. QED
  BY <1>1, <1>3, <1>5 DEF Rested

LEMMA RestedCall ==
    ASSUME TypeOK, Bridged, Reserves, Rested, Orderly' => Orderly,
           NEW c \in Calls, CallStep(c)
    PROVE  Rested'
<1> USE DEF TypeOK, lineVars, ringVars, agentVars
<1>1. CASE AddCall(c)
  BY <1>1, RestedSame DEF AddCall, Picked, Engaged, Locked
<1>2. CASE Beat(c)
  BY <1>2, RestedSame DEF Beat, Picked, Engaged, Locked
<1>3. CASE BeatExpires(c)
  BY <1>3, RestedSame DEF BeatExpires, Picked, Engaged, Locked
<1>4. CASE Hang(c)
  BY <1>4, RestedSame DEF Hang, Picked, Engaged, Locked
<1>5. CASE Crash(c)
  <2>1. \A d \in Calls : pc'[d] = IF d = c THEN "dead" ELSE pc[d]
    BY <1>5 DEF Crash
  <2>2. \A d \in Calls, a \in Agents :
          /\ leg'[<<d, a>>] \in {"none", leg[<<d, a>>]}
          /\ d # c => leg'[<<d, a>>] = leg[<<d, a>>]
    BY <1>5 DEF Crash, Legs
  <2>3. UNCHANGED <<chosen, lock, blind>>
    BY <1>5 DEF Crash
  <2>4. \A d \in Calls, a \in Agents :
          /\ Picked(d, a)' => Picked(d, a)
          /\ Engaged(d, a)' => Engaged(d, a)
    <3> TAKE d \in Calls, a \in Agents
    <3>1. Picked(d, a)' => Picked(d, a)
      BY <2>1, <2>3 DEF Picked
    <3>2. leg'[<<d, a>>] \in {"none", leg[<<d, a>>]}
      BY <2>2
    <3>3. Engaged(d, a)' => Engaged(d, a)
      BY <2>1, <3>2 DEF Engaged
    <3> QED BY <3>1, <3>3
  <2>5. \A d \in Calls, a \in Agents :
          pc'[d] = "result" => pc[d] = "result" /\ (Locked(d, a) => Locked(d, a)')
    BY <2>1, <2>2, <2>3 DEF Locked
  <2>6. QED
    BY <2>3, <2>4, <2>5, RestedSame
<1>6. CASE Reap(c)
  BY <1>6, RestedSame DEF Reap, Picked, Engaged, Locked
<1>7. CASE SeeHangup(c)
  BY <1>7, RestedSame DEF SeeHangup, Goto, Picked, Engaged, Locked
<1>8. CASE GiveUp(c)
  BY <1>8, RestedSame DEF GiveUp, Goto, Picked, Engaged, Locked
<1>9. CASE PickUp(c)
  BY <1>9, RestedSame DEF PickUp, Goto, Picked, Engaged, Locked
<1>10. CASE Poll(c) \/ Look(c)
  BY <1>10, RestedPoll
<1>11. CASE Choose(c)
  BY <1>11, RestedChoose
<1>12. CASE Dial(c)
  BY <1>12, RestedDial
<1>13. CASE SetLocks(c)
  BY <1>13, RestedSetLocks
<1>14. CASE HandleAnswer(c)
  BY <1>14, RestedSame DEF HandleAnswer, Picked, Engaged, Locked
<1>15. CASE EndBridge(c)
  <2>1. \A d \in Calls : pc'[d] = pc[d] \/ (d = c /\ pc'[d] \in {"leave", "ready"} /\ pc[d] = "result")
    BY <1>15 DEF EndBridge, Goto
  <2>2. (\A d \in Calls \ {c} : chosen'[d] = chosen[d]) /\ UNCHANGED <<leg, lock, blind>>
    BY <1>15 DEF EndBridge
  <2>3. pc[c] = "result" /\ pc'[c] # "dial"
    BY <1>15, <2>1 DEF EndBridge
  <2>4. QED
    BY <2>1, <2>2, <2>3, RestedSame DEF Picked, Engaged, Locked
<1>16. CASE RemoveCall(c)
  BY <1>16, RestedSame DEF RemoveCall, Goto, Picked, Engaged, Locked
<1>17. QED
  BY <1>1, <1>2, <1>3, <1>4, <1>5, <1>6, <1>7, <1>8, <1>9, <1>10, <1>11, <1>12, <1>13,
     <1>14, <1>15, <1>16 DEF CallStep

\* Whose leg is over is engaged with nobody else, so that its locks may be deleted.
LEMMA RestedHangup ==
    ASSUME TypeOK, Bridged, Rested, Orderly' => Orderly,
           NEW c \in Calls, NEW a \in Agents, HandleHangup(c, a)
    PROVE  Rested'
<1>1. /\ pc[c] = "result" /\ leg[<<c, a>>] = "over" /\ UNCHANGED <<pc, chosen, blind>>
      /\ leg' = [leg EXCEPT ![<<c, a>>] = "none"]
      /\ lock' = [k \in Locks |->
                    IF k \in {Global, QueueOf[c]} \X {a} THEN "none" ELSE lock[k]]
  BY DEF HandleHangup, SetLeg
<1>2. \A d \in Calls, b \in Agents :
        leg'[<<d, b>>] = IF d = c /\ b = a THEN "none" ELSE leg[<<d, b>>]
  BY <1>1 DEF TypeOK, Legs
<1>3. \A s \in Scopes, b \in Agents : b # a => lock'[<<s, b>>] = lock[<<s, b>>]
  <2> TAKE s \in Scopes, b \in Agents
  <2>1. <<s, b>> \in Locks
    BY DEF Locks
  <2>2. QED
    BY <1>1, <2>1
<1>4. \A d \in Calls, b \in Agents :
        /\ Picked(d, b)' => Picked(d, b)
        /\ Engaged(d, b)' => Engaged(d, b)
  BY <1>1, <1>2 DEF Picked, Engaged
<1>5. ASSUME Orderly', NEW d \in Calls, NEW b \in Agents \ blind, pc'[d] = "result"
      PROVE  Locked(d, b)'
  <2> SUFFICES ASSUME NEW s \in {Global, QueueOf[d]}, leg'[<<d, b>>] # "none"
               PROVE  /\ leg'[<<d, b>>] = leg[<<d, b>>] /\ Locked(d, b)
                      /\ lock'[<<s, b>>] = lock[<<s, b>>]
      BY DEF Locked
  <2>1. s \in Scopes
    BY QueueAssumption DEF Scopes
  <2>2. pc[d] = "result" /\ leg[<<d, b>>] # "none" /\ leg'[<<d, b>>] = leg[<<d, b>>]
    BY <1>1, <1>2, <1>5
  <2>3. Engaged(c, a)
    BY <1>1 DEF Engaged
  <2>4. leg[<<d, b>>] \in {"spawned", "up", "talk", "over"}
    BY <2>2 DEF TypeOK, Legs
  <2>5. Engaged(d, b)
    BY <2>2, <2>4 DEF Engaged
  <2>6. b # a
    BY <1>2, <1>5, <2>2, <2>3, <2>5 DEF Rested
  <2>7. QED
    BY <1>3, <1>5, <2>1, <2>2, <2>6 DEF Rested
<1>6. QED
  BY <1>1, <1>4, <1>5 DEF Rested

LEMMA RestedLeg ==
    ASSUME TypeOK, Bridged, Reserves, Rested, Orderly' => Orderly,
           NEW c \in Calls, NEW a \in Agents, LegStep(c, a)
    PROVE  Rested'
<1>1. CASE HandleHangup(c, a)
  BY <1>1, RestedHangup
<1>2. CASE ~HandleHangup(c, a)
  <2> SUFFICES ASSUME Orderly' PROVE Rested'
      BY DEF Rested
  <2>1. UNCHANGED <<pc, chosen, lock, blind>>
    BY <1>2 DEF LegStep, LegStarts, LegFails, Answer, LegEnds, agentVars
  <2>2. \A d \in Calls, b \in Agents :
          \/ leg'[<<d, b>>] \in {leg[<<d, b>>], "none"}
          \/ leg[<<d, b>>] = "spawned" /\ leg'[<<d, b>>] = "up"
          \/ leg[<<d, b>>] = "up" /\ leg'[<<d, b>>] \in {"talk", "over"}
          \/ leg[<<d, b>>] = "talk" /\ leg'[<<d, b>>] = "over"
    <3> USE DEF TypeOK, Legs, SetLeg
    <3>1. CASE LegStarts(c, a)
      BY <3>1 DEF LegStarts
    <3>2. CASE LegFails(c, a)
      BY <3>2 DEF LegFails
    <3>3. CASE Answer(c, a)
      BY <3>3 DEF Answer
    <3>4. CASE LegEnds(c, a)
      BY <3>4 DEF LegEnds
    <3>5. QED
      BY <1>2, <3>1, <3>2, <3>3, <3>4 DEF LegStep
  <2>3. \A d \in Calls, b \in Agents : pc[d] = "dead" => leg[<<d, b>>] # "spawned"
    BY DEF Reserves, Orderly
  <2>4. \A d \in Calls, b \in Agents : Engaged(d, b)' => Engaged(d, b)
    BY <2>1, <2>2, <2>3 DEF Engaged
  <2>5. \A d \in Calls, b \in Agents : Locked(d, b) => Locked(d, b)'
    BY <2>1, <2>2 DEF Locked
  <2>6. QED
    BY <2>1, <2>4, <2>5, RestedSame DEF Picked
<1>3. QED
  BY <1>1, <1>2

LEMMA RestedExpire ==
    ASSUME TypeOK, Rested, Orderly' => Orderly, Expire PROVE Rested'
<1> USE DEF ringVars
<1>1. ASSUME NEW a \in Agents, ReserveEnds(a) PROVE Rested'
  BY <1>1, RestedSame DEF ReserveEnds, Picked, Engaged, Locked
<1>2. ASSUME NEW s \in Scopes, NEW a \in Agents, WaitEnds(s, a) PROVE Rested'
  BY <1>2, RestedSame DEF WaitEnds, Picked, Engaged, Locked
<1>3. ASSUME NEW s \in Scopes, NEW a \in Agents, LockEnds(s, a) PROVE Rested'
  <2>1. UNCHANGED <<pc, chosen, leg, blind>>
    BY <1>3 DEF LockEnds
  <2>2. \A k \in Locks : lock'[k] = IF k = <<s, a>> THEN "none" ELSE lock[k]
    BY <1>3 DEF LockEnds, TypeOK
  <2>3. ASSUME Orderly', NEW d \in Calls, NEW b \in Agents, pc[d] = "result", Locked(d, b)
        PROVE  Locked(d, b)'
    <3>1. Live(d)
      BY <2>3 DEF Live
    <3>2. lock[<<s, a>>] = "10s" /\ leg[<<d, a>>] \notin {"spawned", "over"}
      BY <1>3, <2>3, <3>1 DEF LockEnds, Orderly
    <3>3. SUFFICES ASSUME NEW t \in {Global, QueueOf[d]}, leg[<<d, b>>] # "none"
                   PROVE  lock'[<<t, b>>] = lock[<<t, b>>]
      BY <2>1, <2>3 DEF Locked
    <3>4. <<t, b>> \in Locks /\ <<d, b>> \in Legs
      BY QueueAssumption DEF Scopes, Locks, Legs
    <3>5. <<t, b>> # <<s, a>>
      BY <2>3, <3>2, <3>3, <3>4 DEF Locked, TypeOK
    <3>6. QED
      BY <2>2, <3>4, <3>5
  <2>4. QED
    BY <2>1, <2>3, RestedSame DEF Picked, Engaged
<1>4. QED
  BY <1>1, <1>2, <1>3 DEF Expire

LEMMA RestedStep ==
    TypeOK /\ Bridged /\ Reserves /\ Rested /\ [Next]_vars => Rested'
<1> SUFFICES ASSUME TypeOK, Bridged, Reserves, Rested, [Next]_vars PROVE Rested'
    OBVIOUS
<1>1. CASE Next
  <2>1. Orderly' => Orderly
    BY <1>1, OrderlyBefore
  <2>2. QED
    BY <1>1, <2>1, NextParts, RestedCall, RestedLeg, RestedExpire
<1>2. CASE UNCHANGED vars
  <2>1. UNCHANGED <<pc, chosen, leg, lock, doubled, early, blind>>
    BY <1>2 DEF vars, ringVars, agentVars
  <2>2. Orderly' => Orderly
    BY <2>1 DEF Orderly
  <2>3. QED
    BY <2>1, <2>2, RestedSame DEF Picked, Engaged, Locked
<1>3. QED
  BY <1>1, <1>2

\* An agent is not rung again before the end of its last call has been handled, for
\* any queues it serves, as long as no two calls of one queue have met at an agent,
\* no lock was shortened before its leg had started, and it was never rung with its
\* hunt group without having been found available.
THEOREM AgentsRest == Spec => []RestFirst
<1>1. Rested => RestFirst
  BY DEF Rested, RestFirst, Orderly
<1>2. QED
  BY TypeCorrect, BridgedInit, BridgedStep, ReservesInit, ReservesStep, RestedInit,
     RestedStep, <1>1, PTL DEF Spec

-----------------------------------------------------------------------------

\* c and d are in one queue; one was added in front of the other, whose turn it was,
\* or one of them has hung up.
Tied(c, d) ==
    /\ c # d /\ QueueOf[c] = QueueOf[d]
    /\ {<<c, d>>, <<d, c>>} \cap overtaken # {} \/ {c, d} \cap hung # {}

\* Two calls that meet at an agent are tied as soon as one of them has picked it.
Meet ==
    Orderly =>
        \A c, d \in Calls, a \in Agents \ blind :
            c # d /\ QueueOf[c] = QueueOf[d] /\ Picked(c, a) /\ Engaged(d, a) => Tied(c, d)

Ties ==
    Meet /\ (Prompt /\ ~early /\ doubled => \E c, d \in Calls : Tied(c, d))

LEMMA TiesInit == Init => Ties
<1> SUFFICES ASSUME Init PROVE Ties
    OBVIOUS
<1>1. doubled = FALSE /\ \A c \in Calls : pc[c] = "out"
  BY DEF Init
<1>2. Prompt /\ ~early /\ doubled => \E c, d \in Calls : Tied(c, d)
  BY <1>1
<1>3. Meet
  BY <1>1 DEF Meet, Picked
<1>4. QED
  BY <1>2, <1>3 DEF Ties

\* Two calls of one queue that are both at the front are tied: one stands before the
\* other.
LEMMA FrontTied ==
    ASSUME TypeOK, InLine, NEW c \in Calls, NEW d \in Calls, AtFront(c), AtFront(d),
           c # d, QueueOf[c] = QueueOf[d]
    PROVE  Tied(c, d)
<1>1. score[c] \in Nat /\ score[d] \in Nat /\ c \in Nat /\ d \in Nat
  BY QueueAssumption DEF TypeOK
<1>2. Before(c, d) \/ Before(d, c)
  BY <1>1 DEF Before
<1>3. <<c, d>> \in overtaken \/ <<d, c>> \in overtaken
  BY <1>2 DEF InLine
<1>4. QED
  BY <1>3 DEF Tied

\* Who has hung up stays so, and who has overtaken whom.
LEMMA TiedStays ==
    ASSUME Next, NEW c \in Calls, NEW d \in Calls, Tied(c, d)
    PROVE  Tied(c, d)'
<1> USE DEF lineVars
<1>1. CASE Expire
  BY <1>1 DEF Expire, ReserveEnds, LockEnds, WaitEnds, Tied
<1>2. ASSUME NEW e \in Calls, CallStep(e)
      PROVE  hung \subseteq hung' /\ overtaken \subseteq overtaken'
  <2>1. CASE Poll(e) \/ Look(e)
    BY <2>1, PollOrLook
  <2>2. CASE ~Poll(e) /\ ~Look(e)
    BY <1>2, <2>2
       DEF CallStep, AddCall, Beat, BeatExpires, Hang, Crash, Reap, SeeHangup, GiveUp,
           PickUp, Choose, Dial, SetLocks, HandleAnswer, EndBridge, RemoveCall
  <2>3. QED
    BY <2>1, <2>2
<1>3. ASSUME NEW e \in Calls, NEW a \in Agents, LegStep(e, a)
      PROVE  hung' = hung /\ overtaken' = overtaken
  BY <1>3 DEF LegStep, LegStarts, LegFails, Answer, LegEnds, HandleHangup
<1>4. QED
  BY <1>1, <1>2, <1>3, NextParts DEF Tied

\* Who picks and who is engaged comes from choosing and dialling.
LEMMA PicksAndEngages ==
    ASSUME TypeOK, Reserves, Prompt, Next,
           NEW c \in Calls, NEW a \in Agents
    PROVE  /\ Picked(c, a)' =>
              \/ Picked(c, a)
              \/ Choose(c) /\ (a \in blind' \/ Available(QueueOf[c], a))
           /\ Engaged(c, a)' => Engaged(c, a) \/ (Dial(c) /\ c \notin hung /\ Picked(c, a))
<1> DEFINE Goal ==
           /\ Picked(c, a)' =>
              \/ Picked(c, a)
              \/ Choose(c) /\ (a \in blind' \/ Available(QueueOf[c], a))
           /\ Engaged(c, a)' => Engaged(c, a) \/ (Dial(c) /\ c \notin hung /\ Picked(c, a))
<1> SUFFICES Goal
    OBVIOUS
<1>1. CASE Expire
  BY <1>1 DEF Expire, ReserveEnds, LockEnds, WaitEnds, ringVars, Picked, Engaged
<1>2. ASSUME NEW d \in Calls, CallStep(d) PROVE Goal
  <2>1. CASE Choose(d)
    <3>1. Picked(c, a)' =>
              \/ Picked(c, a)
              \/ Choose(c) /\ (a \in blind' \/ Available(QueueOf[c], a))
      BY <2>1, ChoosePicks
    <3>2. leg' = leg /\ pc[d] = "ready" /\ (pc' = pc \/ pc' = [pc EXCEPT ![d] = "dial"])
      BY <2>1 DEF Choose, Goto
    <3>3. pc'[c] # "dead" => pc[c] # "dead"
      BY <3>2 DEF TypeOK
    <3>4. QED
      BY <3>1, <3>2, <3>3 DEF Engaged
  <2>2. CASE Dial(d)
    <3>1. /\ pc[d] = "dial" /\ pc' \in {[pc EXCEPT ![d] = "ready"], [pc EXCEPT ![d] = "lock"]}
          /\ chosen' \in {chosen, [chosen EXCEPT ![d] = {}]}
      BY <2>2 DEF Dial, Goto
    <3>2. Picked(c, a)' => Picked(c, a)
      BY <3>1 DEF TypeOK, Picked
    <3>3. \/ leg'[<<c, a>>] = leg[<<c, a>>]
          \/ c = d /\ a \in chosen[c] /\ c \notin hung
      <4>1. CASE d \in hung
        BY <2>2, <4>1 DEF Dial
      <4>2. CASE d \notin hung
        BY <2>2, <4>2, DialLegs
      <4>3. QED
        BY <4>1, <4>2
    <3>4. pc'[c] # "dead" => pc[c] # "dead"
      BY <3>1 DEF TypeOK
    <3>5. QED
      BY <2>2, <3>1, <3>2, <3>3, <3>4 DEF Engaged, Picked
  <2>3. CASE ~Choose(d) /\ ~Dial(d)
    <3>1. pc'[c] = "dial" => pc[c] = "dial" /\ chosen'[c] = chosen[c]
      <4> USE <2>3 DEF TypeOK, ringVars
      <4>1. CASE AddCall(d) \/ Crash(d)
        BY <4>1 DEF AddCall, Crash
      <4>2. CASE Poll(d) \/ Look(d)
        BY <4>2, PollOrLook
      <4>3. CASE EndBridge(d)
        BY <4>3 DEF EndBridge, Goto
      <4>4. CASE Beat(d) \/ BeatExpires(d) \/ Hang(d) \/ Reap(d) \/ HandleAnswer(d)
        BY <4>4 DEF Beat, BeatExpires, Hang, Reap, HandleAnswer
      <4>5. CASE SeeHangup(d) \/ GiveUp(d) \/ PickUp(d) \/ RemoveCall(d)
        BY <4>5 DEF SeeHangup, GiveUp, PickUp, RemoveCall, Goto
      <4>6. CASE SetLocks(d)
        BY <4>6 DEF SetLocks, Goto
      <4>7. QED
        BY <1>2, <4>1, <4>2, <4>3, <4>4, <4>5, <4>6 DEF CallStep
    <3>2. /\ leg'[<<c, a>>] \in {leg[<<c, a>>], "none"}
          /\ pc'[c] # "dead" => pc[c] # "dead"
      <4> USE <2>3 DEF TypeOK, ringVars
      <4>1. CASE AddCall(d)
        BY <4>1 DEF AddCall
      <4>2. CASE Crash(d)
        BY <4>2 DEF Crash, Legs, Live
      <4>3. CASE Poll(d) \/ Look(d)
        BY <4>3, PollOrLook
      <4>4. CASE EndBridge(d)
        BY <4>4 DEF EndBridge, Goto
      <4>5. CASE Beat(d) \/ BeatExpires(d) \/ Hang(d) \/ Reap(d) \/ HandleAnswer(d)
        BY <4>5 DEF Beat, BeatExpires, Hang, Reap, HandleAnswer
      <4>6. CASE SeeHangup(d) \/ GiveUp(d) \/ PickUp(d) \/ RemoveCall(d)
        BY <4>6 DEF SeeHangup, GiveUp, PickUp, RemoveCall, Goto
      <4>7. CASE SetLocks(d)
        BY <4>7 DEF SetLocks, Goto
      <4>8. QED
        BY <1>2, <4>1, <4>2, <4>3, <4>4, <4>5, <4>6, <4>7 DEF CallStep
    <3>3. QED
      BY <3>1, <3>2 DEF Picked, Engaged
  <2>4. QED
    BY <2>1, <2>2, <2>3
<1>3. ASSUME NEW d \in Calls, NEW b \in Agents, LegStep(d, b) PROVE Goal
  <2>1. UNCHANGED <<pc, chosen>>
    BY <1>3 DEF LegStep, LegStarts, LegFails, Answer, LegEnds, HandleHangup
  <2>2. \/ leg'[<<c, a>>] \in {leg[<<c, a>>], "none"}
        \/ leg[<<c, a>>] \in {"spawned", "up", "talk"}
    <3> USE DEF TypeOK, Legs, SetLeg
    <3>1. CASE LegStarts(d, b) \/ LegFails(d, b) \/ LegEnds(d, b)
      BY <3>1 DEF LegStarts, LegFails, LegEnds
    <3>2. CASE Answer(d, b)
      BY <3>2 DEF Answer
    <3>3. CASE HandleHangup(d, b)
      BY <3>3 DEF HandleHangup
    <3>4. QED
      BY <1>3, <3>1, <3>2, <3>3 DEF LegStep
  <2>3. pc[c] = "dead" => leg[<<c, a>>] # "spawned"
    BY DEF Reserves
  <2>4. QED
    BY <2>1, <2>2, <2>3 DEF Picked, Engaged
<1>4. QED
  BY <1>1, <1>2, <1>3, NextParts

LEMMA TiesNext ==
    ASSUME TypeOK, Bridged, InLine, Reserves, Rested, Ties, Next PROVE Ties'
<1>1. Orderly' => Orderly
  BY OrderlyBefore
<1>2. \A c, d \in Calls : Tied(c, d) => Tied(c, d)'
  BY TiedStays
<1>3. Meet'
  <2> SUFFICES ASSUME Orderly', NEW c \in Calls, NEW d \in Calls,
                      NEW a \in Agents \ blind',
                      c # d, QueueOf[c] = QueueOf[d], Picked(c, a)', Engaged(d, a)'
               PROVE  Tied(c, d)
      BY <1>2 DEF Meet
  <2>1. Orderly /\ Prompt
    BY <1>1 DEF Orderly
  <2>2. a \notin blind
    BY BlindStays
  <2>3. CASE Picked(c, a) /\ Engaged(d, a)
    BY <2>1, <2>2, <2>3 DEF Ties, Meet
  <2>4. CASE Picked(c, a) /\ ~Engaged(d, a)
    <3>1. d \notin hung /\ Picked(d, a)
      BY <2>1, <2>4, PicksAndEngages
    <3>2. pc[c] = "dial" /\ pc[d] = "dial"
      BY <2>4, <3>1 DEF Picked
    <3>3. AtFront(d) /\ (c \notin hung => AtFront(c))
      BY <3>1, <3>2 DEF Bridged, AtFront, Turn, Serving
    <3>4. CASE c \in hung
      BY <3>2, <3>4 DEF Tied
    <3>5. QED
      BY <3>3, <3>4, FrontTied
  <2>5. CASE ~Picked(c, a)
    <3>1. Choose(c) /\ Available(QueueOf[c], a)
      BY <2>1, <2>5, PicksAndEngages
    <3>2. pc[c] = "ready" /\ c \notin hung /\ QueueOf[c] \in Queues
      BY <3>1, QueueAssumption DEF Choose
    <3>3. Engaged(d, a)
      <4>1. ~Dial(d)
        <5>1. SUFFICES ASSUME Dial(d) PROVE FALSE
            OBVIOUS
        <5>2. pc[d] = "dial" /\ pc' \in {[pc EXCEPT ![d] = "ready"], [pc EXCEPT ![d] = "lock"]}
          BY <5>1 DEF Dial, Goto
        <5>3. pc'[c] = "ready"
          BY <3>2, <5>2 DEF TypeOK
        <5>4. QED
          BY <5>3 DEF Picked
      <4>2. QED
        BY <2>1, <4>1, PicksAndEngages
    <3>4. pc[d] = "lock"
      BY <2>1, <2>2, <3>1, <3>2, <3>3, AvailableRested
    <3>5. AtFront(c) /\ (d \notin hung => AtFront(d))
      BY <3>2, <3>4 DEF Bridged, AtFront, Turn, Serving
    <3>6. CASE d \in hung
      BY <3>2, <3>4, <3>6 DEF Tied
    <3>7. QED
      BY <3>5, <3>6, FrontTied
  <2>6. QED
    BY <2>3, <2>4, <2>5
<1>4. ASSUME Prompt, ~early', doubled' PROVE \E c, d \in Calls : Tied(c, d)
  <2>1. ~early
    <3>1. SUFFICES ASSUME early PROVE early'
        BY <1>4
    <3>2. QED
      BY <3>1, EarlyStays
  <2>2. CASE doubled
    BY <1>4, <2>1, <2>2 DEF Ties
  <2>3. CASE ~doubled
    <3>1. PICK c \in Calls : Dial(c)
      BY <1>4, <2>3, DoubledByDial
    <3>2. \E a \in chosen[c] \ blind, d \in Calls \ {c} : QueueOf[d] = QueueOf[c] /\ Engaged(d, a)
      BY <1>4, <2>3, <3>1, Zenon DEF Dial
    <3>3. PICK a \in chosen[c] \ blind, d \in Calls \ {c} :
                 QueueOf[d] = QueueOf[c] /\ Engaged(d, a)
      BY <3>2
    <3>4. a \in Agents /\ Picked(c, a)
      BY <3>1, <3>3 DEF Dial, Picked, TypeOK
    <3>5. Tied(c, d)
      BY <1>4, <2>1, <2>3, <3>3, <3>4 DEF Ties, Meet, Orderly
    <3>6. QED
      BY <3>5
  <2>4. QED
    BY <2>2, <2>3
<1>5. QED
  BY <1>2, <1>3, <1>4 DEF Ties

LEMMA TiesStep ==
    TypeOK /\ Bridged /\ InLine /\ Reserves /\ Rested /\ Ties /\ [Next]_vars => Ties'
<1> SUFFICES ASSUME TypeOK, Bridged, InLine, Reserves, Rested, Ties, [Next]_vars
             PROVE  Ties'
    OBVIOUS
<1>1. CASE Next
  BY <1>1, TiesNext
<1>2. CASE UNCHANGED vars
  <2>1. UNCHANGED <<pc, chosen, leg, overtaken, hung, doubled, early, blind>>
    BY <1>2 DEF vars, lineVars, ringVars, agentVars
  <2>2. \A c, d \in Calls : Tied(c, d)' <=> Tied(c, d)
    BY <2>1 DEF Tied
  <2>3. Meet'
    BY <2>1, <2>2 DEF Ties, Meet, Orderly, Picked, Engaged
  <2>4. Prompt /\ ~early' /\ doubled' => \E c, d \in Calls : Tied(c, d)'
    BY <2>1, <2>2 DEF Ties
  <2>5. QED
    BY <2>3, <2>4 DEF Ties
<1>3. QED
  BY <1>1, <1>2

\* Two calls of one queue ring an agent together, that one of them has found
\* available, only if one was added in front of the other, whose turn it was, one
\* of them has hung up, or a lock was shortened too early: for any number of calls,
\* queues and agents.
THEOREM DoubledOnlyIfOvertaken == Spec => []DoubledIfOvertaken
<1>1. ASSUME NEW c \in Calls, NEW d \in Calls, Tied(c, d)
      PROVE  \E e, f \in Calls :
               /\ e # f /\ QueueOf[e] = QueueOf[f]
               /\ <<e, f>> \in overtaken \/ e \in hung
  <2>1. CASE <<c, d>> \in overtaken \/ c \in hung
    BY <1>1, <2>1 DEF Tied
  <2>2. CASE <<d, c>> \in overtaken \/ d \in hung
    BY <1>1, <2>2 DEF Tied
  <2>3. QED
    BY <1>1, <2>1, <2>2 DEF Tied
<1>2. Ties => DoubledIfOvertaken
  BY <1>1 DEF Ties, DoubledIfOvertaken
<1>3. QED
  BY TypeCorrect, BridgedInit, BridgedStep, InLineInit, InLineStep, ReservesInit,
     ReservesStep, RestedInit, RestedStep, TiesInit, TiesStep, <1>2, PTL DEF Spec

-----------------------------------------------------------------------------
(***************************************************************************)
(* CallQueue implements QueueService.                                      *)
(***************************************************************************)

\* A call that has not come is not in the line, and a dead one starts no leg.
Begun ==
    \A c \in Calls :
        /\ pc[c] = "out" => c \notin queued
        /\ pc[c] = "dead" => \A a \in Agents : leg[<<c, a>>] # "spawned"

LEMMA BegunInit == Init => Begun
BY DEF Init, Begun

\* Nobody comes back to "out", the line grows by calls that come, and only a call
\* that reads its position gets its turn.
LEMMA LineStep ==
    ASSUME TypeOK, NEW c \in Calls, CallStep(c), ~AddCall(c)
    PROVE  /\ score' = score /\ queued' \subseteq queued
           /\ \A d \in Calls : /\ pc'[d] = "out" => pc[d] = "out"
                               /\ ~Poll(c) /\ Turn(d)' => Turn(d)
<1> USE DEF TypeOK, lineVars, Goto, LeaveLine, Turn, Serving
<1>1. CASE Beat(c) \/ BeatExpires(c) \/ Hang(c)
  BY <1>1 DEF Beat, BeatExpires, Hang
<1>2. CASE Crash(c)
  BY <1>2 DEF Crash
<1>3. CASE Reap(c) \/ PickUp(c) \/ HandleAnswer(c) \/ RemoveCall(c)
  BY <1>3 DEF Reap, PickUp, HandleAnswer, RemoveCall
<1>4. CASE SeeHangup(c) \/ GiveUp(c) \/ SetLocks(c)
  BY <1>4 DEF SeeHangup, GiveUp, SetLocks
<1>5. CASE Poll(c)
  <2>1. UNCHANGED lineVars /\ pc' = [pc EXCEPT ![c] = "head"]
    BY <1>5 DEF Poll
  <2>2. QED
    BY <1>5, <2>1
<1>6. CASE Look(c)
  <2>1. pc[c] = "head" /\ UNCHANGED lineVars
    BY <1>6, LookEffect
  <2>2. pc' = [pc EXCEPT ![c] = "wait"] \/ pc' = [pc EXCEPT ![c] = "ready"]
    BY <1>6, LookEffect
  <2>3. QED
    BY <2>1, <2>2
<1>7. CASE Choose(c)
  <2>1. UNCHANGED lineVars /\ pc[c] = "ready"
    BY <1>7 DEF Choose
  <2>2. pc' = pc \/ pc' = [pc EXCEPT ![c] = "dial"]
    BY <1>7 DEF Choose
  <2>3. QED
    BY <2>1, <2>2
<1>8. CASE Dial(c)
  <2>1. UNCHANGED lineVars /\ pc[c] = "dial"
    BY <1>8 DEF Dial
  <2>2. pc' = [pc EXCEPT ![c] = "ready"] \/ pc' = [pc EXCEPT ![c] = "lock"]
    BY <1>8 DEF Dial
  <2>3. QED
    BY <2>1, <2>2
<1>9. CASE EndBridge(c)
  <2>1. UNCHANGED lineVars /\ pc[c] = "result"
    BY <1>9 DEF EndBridge
  <2>2. pc' = [pc EXCEPT ![c] = "leave"] \/ pc' = [pc EXCEPT ![c] = "ready"]
    BY <1>9 DEF EndBridge
  <2>3. QED
    BY <2>1, <2>2
<1>10. QED
  BY <1>1, <1>2, <1>3, <1>4, <1>5, <1>6, <1>7, <1>8, <1>9 DEF CallStep

\* A step of a call that neither dials nor dies leaves all legs as they are, and
\* a call that is dead stays so.
LEMMA LegsKept ==
    ASSUME TypeOK, NEW c \in Calls, CallStep(c), ~Crash(c), Dial(c) => c \in hung
    PROVE  /\ leg' = leg
           /\ \A d \in Calls : pc'[d] = "dead" <=> pc[d] = "dead"
<1> USE DEF TypeOK, ringVars, Goto
<1>1. CASE AddCall(c) \/ Beat(c) \/ BeatExpires(c) \/ Hang(c) \/ Reap(c)
  BY <1>1 DEF AddCall, Beat, BeatExpires, Hang, Reap
<1>2. CASE PickUp(c) \/ HandleAnswer(c) \/ RemoveCall(c)
  BY <1>2 DEF PickUp, HandleAnswer, RemoveCall
<1>3. CASE SeeHangup(c) \/ GiveUp(c) \/ SetLocks(c)
  BY <1>3 DEF SeeHangup, GiveUp, SetLocks
<1>4. CASE Poll(c) \/ Look(c)
  <2>1. PICK at \in {"head", "wait", "ready"} : pc' = [pc EXCEPT ![c] = at]
    BY <1>4, PollOrLook
  <2>2. pc[c] \in {"wait", "head"} /\ leg' = leg
    BY <1>4, PollOrLook
  <2>3. QED
    BY <2>1, <2>2
<1>5. CASE Choose(c)
  <2>1. /\ pc[c] = "ready" /\ leg' = leg
        /\ pc' = pc \/ pc' = [pc EXCEPT ![c] = "dial"]
    BY <1>5 DEF Choose
  <2>2. QED
    BY <2>1
<1>6. CASE Dial(c)
  BY <1>6 DEF Dial
<1>7. CASE EndBridge(c)
  <2>1. /\ pc[c] = "result" /\ leg' = leg
        /\ pc' = [pc EXCEPT ![c] = "leave"] \/ pc' = [pc EXCEPT ![c] = "ready"]
    BY <1>7 DEF EndBridge
  <2>2. QED
    BY <2>1
<1>8. QED
  BY <1>1, <1>2, <1>3, <1>4, <1>5, <1>6, <1>7 DEF CallStep

\* A leg of a living call, or one that is up, goes on from a leg that was so.
LEMMA LegMoves ==
    ASSUME TypeOK, NEW c \in Calls, NEW a \in Agents, LegStep(c, a)
    PROVE  /\ UNCHANGED <<score, pc>> /\ queued' = queued
           /\ \A d \in Calls, b \in Agents :
                /\ leg'[<<d, b>>] = "spawned" => leg[<<d, b>>] = "spawned"
                /\ leg'[<<d, b>>] = "over" => leg[<<d, b>>] \in {"over", "up", "talk"}
                /\ leg'[<<d, b>>] \in {"up", "talk"} =>
                     leg[<<d, b>>] \in {"spawned", "up", "talk"}
<1>1. UNCHANGED <<score, pc>> /\ queued' = queued
  BY DEF LegStep, LegStarts, LegFails, Answer, LegEnds, HandleHangup, lineVars
<1> USE DEF TypeOK, Legs, SetLeg
<1>2. CASE LegStarts(c, a)
  BY <1>1, <1>2 DEF LegStarts
<1>3. CASE LegFails(c, a)
  BY <1>1, <1>3 DEF LegFails
<1>4. CASE Answer(c, a)
  BY <1>1, <1>4 DEF Answer
<1>5. CASE LegEnds(c, a)
  BY <1>1, <1>5 DEF LegEnds
<1>6. CASE HandleHangup(c, a)
  BY <1>1, <1>6 DEF HandleHangup
<1>7. QED
  BY <1>2, <1>3, <1>4, <1>5, <1>6 DEF LegStep

\* A process that dies engages nobody, and leaves no leg that has not started.
LEMMA CrashLegs ==
    ASSUME TypeOK, NEW c \in Calls, Crash(c)
    PROVE  /\ \A d \in Calls : pc'[d] = "dead" <=> d = c \/ pc[d] = "dead"
           /\ \A d \in Calls, a \in Agents :
                leg'[<<d, a>>] = IF d = c /\ leg[<<d, a>>] = "spawned" THEN "none"
                                 ELSE leg[<<d, a>>]
<1>1. \A d \in Calls, a \in Agents : <<d, a>> \in Legs /\ <<d, a>>[1] = d
  BY DEF Legs
<1>2. leg' = [l \in Legs |-> IF l[1] = c /\ leg[l] = "spawned" THEN "none" ELSE leg[l]]
  BY DEF Crash
<1>3. \A d \in Calls : pc'[d] = "dead" <=> d = c \/ pc[d] = "dead"
  BY DEF Crash, TypeOK
<1>4. QED
  BY <1>1, <1>2, <1>3

\* Only dialling engages an agent.
LEMMA EngagedByDial ==
    ASSUME TypeOK, Begun, Next,
           NEW d \in Calls, NEW b \in Agents, Engaged(d, b)', ~Engaged(d, b)
    PROVE  \E c \in Calls : Dial(c) /\ c \notin hung
<1>1. CASE Expire
  BY <1>1 DEF Expire, ReserveEnds, LockEnds, WaitEnds, ringVars, Engaged
<1>2. ASSUME NEW c \in Calls, CallStep(c), ~Crash(c), Dial(c) => c \in hung
      PROVE  FALSE
  BY <1>2, LegsKept DEF Engaged
<1>3. ASSUME NEW c \in Calls, Crash(c) PROVE FALSE
  BY <1>3, CrashLegs DEF Engaged
<1>4. ASSUME NEW c \in Calls, NEW a \in Agents, LegStep(c, a) PROVE FALSE
  BY <1>4, LegMoves DEF Engaged, Begun
<1>5. QED
  BY <1>1, <1>2, <1>3, <1>4, NextParts DEF CallStep

LEMMA BegunStep == TypeOK /\ Begun /\ [Next]_vars => Begun'
<1> SUFFICES ASSUME TypeOK, Begun, [Next]_vars PROVE Begun'
    OBVIOUS
<1>1. CASE UNCHANGED vars
  BY <1>1 DEF Begun, vars, lineVars, ringVars
<1>2. CASE Expire
  BY <1>2 DEF Expire, ReserveEnds, LockEnds, WaitEnds, lineVars, ringVars, Begun
<1>3. ASSUME NEW c \in Calls, CallStep(c) PROVE Begun'
  <2>1. \A d \in Calls : pc'[d] = "out" => d \notin queued'
    <3>1. CASE AddCall(c)
      BY <3>1 DEF AddCall, TypeOK, Begun
    <3>2. CASE ~AddCall(c)
      BY <1>3, <3>2, LineStep DEF Begun
    <3>3. QED
      BY <3>1, <3>2
  <2>2. ASSUME NEW d \in Calls, NEW a \in Agents, pc'[d] = "dead"
        PROVE  leg'[<<d, a>>] # "spawned"
    <3>1. CASE Crash(c)
      BY <2>2, <3>1, CrashLegs DEF Begun
    <3>2. CASE Dial(c) /\ c \notin hung
      <4>1. /\ leg'[<<d, a>>] = IF d = c /\ a \in chosen[c] THEN "spawned"
                                ELSE leg[<<d, a>>]
            /\ pc' = [pc EXCEPT ![c] = "lock"]
        BY <3>2, DialLegs DEF Dial, Goto
      <4>2. QED
        BY <2>2, <4>1 DEF TypeOK, Begun
    <3>3. CASE ~Crash(c) /\ (Dial(c) => c \in hung)
      BY <1>3, <2>2, <3>3, LegsKept DEF Begun
    <3>4. QED
      BY <3>1, <3>2, <3>3
  <2>3. QED
    BY <2>1, <2>2 DEF Begun
<1>4. ASSUME NEW c \in Calls, NEW a \in Agents, LegStep(c, a) PROVE Begun'
  BY <1>4, LegMoves DEF Begun
<1>5. QED
  BY <1>1, <1>2, <1>3, <1>4, NextParts

Busy == [a \in Agents |-> {c \in Calls : Engaged(c, a)}]
Turns == {c \in Calls : Turn(c)}
Fault == IF ~Prompt \/ doubled \/ early THEN Agents ELSE blind

\* A fault is not taken back.
LEMMA FaultStays == TypeOK' /\ Next => Fault \subseteq Fault'
<1> SUFFICES ASSUME TypeOK', Next PROVE Fault \subseteq Fault'
    OBVIOUS
<1>1. blind \subseteq blind' /\ blind' \subseteq Agents
  BY BlindStays DEF TypeOK
<1>2. Orderly' => Orderly
  BY OrderlyBefore
<1>3. QED
  BY <1>1, <1>2 DEF Fault, Orderly

\* Reading that it is at the head is the turn of a call, in QueueService's words.
LEMMA PollTakesTurn ==
    ASSUME TypeOK, NEW c \in Calls, Poll(c)
    PROVE  Service!TakeTurn(c)
<1>1. AtHead(c) /\ pc[c] = "wait" /\ pc' = [pc EXCEPT ![c] = "head"]
  BY DEF Poll, Goto
<1>2. UNCHANGED <<queued, score, leg>>
  BY DEF Poll, lineVars, ringVars
<1>3. Service!First(c)
  <2>1. ASSUME NEW d \in queued, QueueOf[d] = QueueOf[c]
        PROVE  score[c] < score[d] \/ (score[c] = score[d] /\ ~(d < c))
    <3>1. score[c] \in Nat /\ score[d] \in Nat
      BY QueueAssumption DEF TypeOK
    <3>2. ~Before(d, c)
      BY <1>1 DEF AtHead
    <3>3. QED
      BY <2>1, <3>1, <3>2 DEF Before
  <2>2. QED
    BY <1>1, <2>1 DEF AtHead, Service!First
<1>4. Turns' = Turns \cup {c}
  BY <1>1 DEF TypeOK, Turns, Turn, Serving
<1>5. \A d \in Calls : pc'[d] = "dead" <=> pc[d] = "dead"
  BY <1>1 DEF TypeOK
<1>6. Busy' = Busy
  BY <1>2, <1>5 DEF Busy, Engaged
<1>7. QED
  BY <1>2, <1>3, <1>4, <1>6 DEF Service!TakeTurn, Busy, Turns

\* Dialling rings, in QueueService's words: it is the call's turn, it is in line, and
\* an agent that is engaged already is a fault.
LEMMA DialRings ==
    ASSUME TypeOK, Bridged, InLine, RestFirst', NEW c \in Calls, Dial(c), c \notin hung
    PROVE  Service!Ring(c, chosen[c])
<1>1. /\ pc[c] = "dial" /\ UNCHANGED <<queued, score>>
      /\ pc' = [pc EXCEPT ![c] = "lock"]
  BY DEF Dial, Goto, lineVars
<1>2. \A d \in Calls, a \in Agents :
        leg'[<<d, a>>] = IF d = c /\ a \in chosen[c] THEN "spawned" ELSE leg[<<d, a>>]
  BY DialLegs
<1>3. \A a \in Agents : leg[<<c, a>>] = "none"
  BY <1>1 DEF Bridged
<1>4. c \in queued /\ c \in Turns /\ Turns' = Turns
  <2>1. AtFront(c)
    BY <1>1 DEF AtFront, Turn, Serving, Bridged
  <2>2. \A d \in Calls : Turn(d)' <=> Turn(d)
    BY <1>1 DEF TypeOK, Turn, Serving
  <2>3. QED
    BY <2>1, <2>2 DEF InLine, AtFront, Turns
<1>5. \A d \in Calls, a \in Agents :
        Engaged(d, a)' <=> Engaged(d, a) \/ (d = c /\ a \in chosen[c])
  <2> TAKE d \in Calls, a \in Agents
  <2>1. pc'[d] = "dead" <=> pc[d] = "dead"
    BY <1>1 DEF TypeOK
  <2>2. CASE d = c
    <3>1. pc'[d] # "dead" /\ ~Engaged(d, a)
      BY <1>1, <1>3, <2>2 DEF TypeOK, Engaged
    <3>2. QED
      BY <1>2, <1>3, <2>2, <3>1 DEF Engaged
  <2>3. CASE d # c
    BY <1>2, <2>1, <2>3 DEF Engaged
  <2>4. QED
    BY <2>2, <2>3
<1>6. ASSUME NEW a \in chosen[c] \ Fault' PROVE Busy[a] = {}
  <2>1. a \in Agents
    BY DEF TypeOK
  <2>2. Orderly' /\ a \notin blind'
    BY <1>6, <2>1 DEF Fault, Orderly
  <2>3. ASSUME NEW d \in Calls, Engaged(d, a) PROVE FALSE
    <3>1. Engaged(d, a)' /\ Engaged(c, a)'
      BY <1>5, <2>1, <2>3
    <3>2. d = c
      BY <2>1, <2>2, <3>1 DEF RestFirst, Orderly
    <3>3. QED
      BY <1>3, <2>1, <2>3, <3>2 DEF Engaged
  <2>4. QED
    BY <2>1, <2>3 DEF Busy
<1>7. Busy' = [a \in Agents |-> IF a \in chosen[c] THEN Busy[a] \cup {c} ELSE Busy[a]]
  <2>1. ASSUME NEW a \in Agents
        PROVE  {d \in Calls : Engaged(d, a)'} =
                  IF a \in chosen[c] THEN Busy[a] \cup {c} ELSE Busy[a]
    BY <1>5, <2>1 DEF Busy
  <2>2. QED
    BY <2>1 DEF Busy
<1>8. QED
  BY <1>1, <1>4, <1>6, <1>7 DEF Service!Ring, Service!Free, Busy, Turns, Fault

\* Every step is one of QueueService, or changes nothing that it sees.
LEMMA StepServes ==
    TypeOK /\ TypeOK' /\ Bridged /\ InLine /\ Begun /\ RestFirst' /\ [Next]_vars
        => [Service!Next]_<<queued, score, Turns, Busy, Fault>>
<1> SUFFICES ASSUME TypeOK, TypeOK', Bridged, InLine, Begun, RestFirst', [Next]_vars
             PROVE  Service!Next \/ UNCHANGED <<queued, score, Turns, Busy, Fault>>
    OBVIOUS
<1>1. CASE UNCHANGED vars
  <2>1. UNCHANGED <<queued, score, pc, leg, doubled, early, blind>>
    BY <1>1 DEF vars, lineVars, ringVars, agentVars
  <2>2. QED
    BY <2>1 DEF Busy, Engaged, Turns, Turn, Serving, Fault
<1>2. CASE Next
  <2>1. Fault \subseteq Fault'
    BY <1>2, FaultStays
  <2>2. ASSUME NEW c \in Calls, Dial(c), c \notin hung PROVE Service!Next
    <3>1. Service!Ring(c, chosen[c]) /\ chosen[c] \in SUBSET Agents
      BY <2>2, DialRings DEF TypeOK
    <3>2. QED
      BY <2>1, <3>1 DEF Service!Next, Fault
  <2>3. ASSUME NEW c \in Calls, Poll(c) PROVE Service!Next
    <3>1. Service!TakeTurn(c)
      BY <2>3, PollTakesTurn
    <3>2. QED
      BY <2>1, <3>1 DEF Service!Next, Fault
  <2>4. ASSUME NEW c \in Calls, AddCall(c) PROVE Service!Next
    <3>1. CallStep(c) /\ ~Crash(c) /\ ~Dial(c)
      BY <2>4 DEF CallStep, AddCall, Crash, Live, Dial
    <3>2. \A d \in Calls, a \in Agents : Engaged(d, a)' <=> Engaged(d, a)
      BY <3>1, LegsKept DEF Engaged
    <3>3. Busy' = Busy
      BY <3>2 DEF Busy
    <3>4. PICK read \in 0..MaxTime : score' = [score EXCEPT ![c] = read]
      BY <2>4 DEF AddCall
    <3>5. /\ c \notin queued /\ queued' = queued \cup {c}
          /\ score'[c] = read
          /\ pc[c] = "out" /\ pc' = [pc EXCEPT ![c] = "wait"]
      BY <2>4, <3>4 DEF AddCall, Begun, TypeOK
    <3>6. Turns' = Turns
      BY <3>5 DEF TypeOK, Turns, Turn, Serving
    <3>7. Service!Join(c)
      BY <3>3, <3>4, <3>5, <3>6 DEF Service!Join, Busy, Turns
    <3>8. QED
      BY <2>1, <3>7 DEF Service!Next, Fault
  <2>5. CASE ~\E c \in Calls : (Dial(c) /\ c \notin hung) \/ Poll(c) \/ AddCall(c)
    <3>1. \A d \in Calls, a \in Agents : Engaged(d, a)' => Engaged(d, a)
      BY <1>2, <2>5, EngagedByDial
    <3>2. score' = score /\ queued' \subseteq queued /\ \A d \in Calls : Turn(d)' => Turn(d)
      <4>1. CASE Expire
        BY <4>1 DEF Expire, ReserveEnds, LockEnds, WaitEnds, lineVars, Turn, Serving
      <4>2. ASSUME NEW c \in Calls, CallStep(c)
            PROVE  /\ score' = score /\ queued' \subseteq queued
                   /\ \A d \in Calls : Turn(d)' => Turn(d)
        BY <2>5, <4>2, LineStep
      <4>3. ASSUME NEW c \in Calls, NEW a \in Agents, LegStep(c, a)
            PROVE  /\ score' = score /\ queued' \subseteq queued
                   /\ \A d \in Calls : Turn(d)' => Turn(d)
        BY <4>3, LegMoves DEF Turn, Serving
      <4>4. QED
        BY <1>2, <4>1, <4>2, <4>3, NextParts
    <3>3. \A a \in Agents : Busy'[a] \subseteq Busy[a]
      BY <3>1 DEF Busy
    <3>4. Turns' \subseteq Turns
      BY <3>2 DEF Turns
    <3>5. Service!Leave
      BY <3>2, <3>3, <3>4 DEF Service!Leave, Busy, Turns
    <3>6. QED
      BY <2>1, <3>5 DEF Service!Next, Fault
  <2>6. QED
    BY <2>2, <2>3, <2>4, <2>5
<1>3. QED
  BY <1>1, <1>2

\* CallQueue::run, with its keys, heartbeats, reapers and crashes, gives the turn to
\* whoever is first in line, whatever second a newcomer brings along, rings agents
\* only for calls that have it, and rings only agents that are free, but for those
\* that a named fault sets aside.
THEOREM QueueServes == Spec => KeepsPromise
<1>1. Init => Service!Init
  <2> SUFFICES ASSUME Init PROVE Service!Init
      OBVIOUS
  <2>1. \A c \in Calls, a \in Agents : ~Engaged(c, a)
    BY DEF Init, Legs, Engaged
  <2>2. \A c \in Calls : ~Turn(c)
    BY DEF Init, Turn, Serving
  <2>3. QED
    BY <2>1, <2>2 DEF Init, Service!Init
<1>2. QED
  BY <1>1, TypeCorrect, BridgedInit, BridgedStep, InLineInit, InLineStep, BegunInit,
     BegunStep, AgentsRest, StepServes, PTL
     DEF Spec, KeepsPromise, Service!Spec, Service!vars, Busy, Turns, Fault
=============================================================================
