--------------------------- MODULE BridgeProofs ---------------------------
(***************************************************************************)
(* Bridge for every number of legs, backups and confirming callees.        *)
(***************************************************************************)
EXTENDS Bridge, TLAPS

\* The steps of a leg's own handlers, and all others: the parts of Next.
LegStep(l) ==
    \/ AddLeg(l) \/ StartLeg(l) \/ AddBackup(l) \/ Leave(l) \/ Decide(l)
    \/ PressKey(l) \/ NoKey(l) \/ StrayHangs(l)
    \/ CheckAnswer(l) \/ StoreAnswer(l) \/ Connect(l) \/ ServerHangs(l)
    \/ LegAnswers(l) \/ LegHangs(l)

BridgeStep ==
    \/ Ready \/ Hear \/ TimerFires \/ CallerLeaves \/ AckCheck
    \/ StartWait \/ WaiterDies \/ CallerHangs
    \/ \E result \in Results : CheckHangup(result) \/ End(result)

LEMMA NextParts == Next => BridgeStep \/ \E l \in Legs : LegStep(l)
BY DEF Next, Running, BridgeStep, LegStep

-----------------------------------------------------------------------------

\* A leg that is about to ring its backup has one.
Typed == TypeOK /\ \A l \in Legs : leg[l] \in {"backup", "waits"} => BackupOf[l] \in Legs

LEMMA TypedInit == Init => Typed
BY BridgeAssumption DEF Init, Typed, TypeOK

LEMMA TypedLeg == ASSUME Typed, NEW l \in Legs, LegStep(l) PROVE Typed'
<1> USE BridgeAssumption DEF Typed, TypeOK, bridgeVars, watchVars
<1>1. CASE AddLeg(l)
  BY <1>1 DEF AddLeg
<1>2. CASE AddBackup(l)
  BY <1>2 DEF AddBackup
<1>3. CASE Leave(l)
  BY <1>3 DEF Leave
<1>4. CASE Decide(l)
  BY <1>4 DEF Decide, Call, Results
<1>5. CASE PressKey(l)
  BY <1>5 DEF PressKey, Step
<1>6. CASE NoKey(l)
  BY <1>6 DEF NoKey, Step
<1>7. CASE CheckAnswer(l)
  BY <1>7 DEF CheckAnswer, Step
<1>8. CASE StoreAnswer(l)
  BY <1>8 DEF StoreAnswer, Step
<1>9. CASE Connect(l)
  BY <1>9 DEF Connect, Step, Drain
<1>10. CASE ServerHangs(l)
  BY <1>10 DEF ServerHangs
<1>11. CASE LegAnswers(l)
  BY <1>11 DEF LegAnswers, Step
<1>12. CASE LegHangs(l)
  BY <1>12 DEF LegHangs
<1>13. CASE StartLeg(l)
  BY <1>13 DEF StartLeg
<1>14. CASE StrayHangs(l)
  BY <1>14 DEF StrayHangs
<1>15. QED
  BY <1>1, <1>2, <1>3, <1>4, <1>5, <1>6, <1>7, <1>8, <1>9, <1>10, <1>11, <1>12, <1>13,
     <1>14 DEF LegStep

LEMMA TypedBridge == ASSUME Typed, BridgeStep PROVE Typed'
<1> USE BridgeAssumption DEF Typed, TypeOK, bridgeVars, watchVars
<1>1. CASE Ready
  BY <1>1 DEF Ready
<1>2. CASE Hear
  BY <1>2 DEF Hear
<1>3. CASE TimerFires
  <2>1. hangups' = hangups \/ hangups' = hangups \cup {<<"check", "Noanswer">>}
    BY <1>3 DEF TimerFires, Call
  <2>2. hangups' \subseteq {"check", "end"} \X Results
    BY <2>1 DEF Results
  <2>3. QED
    BY <1>3, <2>2 DEF TimerFires
<1>4. CASE CallerLeaves
  BY <1>4 DEF CallerLeaves, Call, Results
<1>5. CASE AckCheck
  BY <1>5 DEF AckCheck
<1>6. CASE StartWait
  BY <1>6 DEF StartWait, Call, Results
<1>7. CASE WaiterDies
  BY <1>7 DEF WaiterDies
<1>8. CASE CallerHangs
  BY <1>8 DEF CallerHangs
<1>9. ASSUME NEW result \in Results, CheckHangup(result) PROVE Typed'
  BY <1>9 DEF CheckHangup
<1>10. ASSUME NEW result \in Results, End(result) PROVE Typed'
  BY <1>10 DEF End, Drain
<1>11. QED
  BY <1>1, <1>2, <1>3, <1>4, <1>5, <1>6, <1>7, <1>8, <1>9, <1>10 DEF BridgeStep

LEMMA TypedAlways == Spec => []Typed
<1>1. Typed /\ UNCHANGED vars => Typed'
  BY DEF Typed, TypeOK, vars, bridgeVars, watchVars
<1>2. Typed /\ [Next]_vars => Typed'
  BY <1>1, NextParts, TypedLeg, TypedBridge
<1>3. QED
  BY <1>2, TypedInit, PTL DEF Spec

\* Types; the server hangs up only channels that are not over, and only a leg whose
\* answer() is done is connected.
THEOREM TypeCorrect == Spec => []TypeOK
<1>1. Typed => TypeOK
  BY DEF Typed
<1>2. QED
  BY <1>1, TypedAlways, PTL

-----------------------------------------------------------------------------
(***************************************************************************)
(* The invariant behind the safety properties.                             *)
(***************************************************************************)

\* What holds however handlers cross: an answer comes from a leg whose answer()
\* has stored it, results and calls with Ok need their cause.
Causes ==
    /\ answer # None => answering[answer] \in {"connect", "done"}
    /\ answer # None \/ waiter # "dialling" => ready
    /\ \A l \in Legs : answering[l] = "store" => ready
    /\ results # {} => hungup
    /\ \A at \in {"check", "end"} : <<at, "Ok">> \in hangups => answer # None

\* Before the first answer nothing has been decided against a leg.
Unanswered ==
    answer = None /\ ~hungup =>
        /\ ending = {}
        /\ \A l \in Legs : leg[l] \in {"new", "up"} => l \in channels
        /\ waiter # "dialling" /\ channels = {} =>
             hangups # {} \/ \E l \in Legs : leg[l] = "decide"

\* A bridge is hung up, or the leg that answered stays until its own hangup.
Answered ==
    answer # None /\ ~hungup =>
        /\ answer \notin ending
        /\ leg[answer] \notin {"ended", "missed", "stray"}
        /\ \/ answer \in channels
           \/ leg[answer] = "decide"
           \/ <<"check", "Ok">> \in hangups
           \/ <<"end", "Ok">> \in hangups

\* What an uncrossed handler knows when it writes.
Decisions ==
    /\ \A l \in Legs : answering[l] = "store" => answer = None /\ ~hungup
    /\ \A l \in Legs : answering[l] = "connect" => answer = l
    /\ connected \subseteq {answer}
    /\ \A result \in Results :
         <<"end", result>> \in hangups => ((result = "Ok") <=> (answer # None))
    /\ \A result \in results : (result = "Ok") <=> (answer # None)

IInv == Causes /\ (~crossed => Unanswered /\ Answered /\ Decisions)

LEMMA IInvInit == Init => IInv
BY BridgeAssumption DEF Init, IInv, Causes, Unanswered, Answered, Decisions

LEMMA IInvLeg == ASSUME Typed, IInv, NEW l \in Legs, LegStep(l) PROVE IInv'
<1> USE BridgeAssumption DEF Typed, TypeOK, bridgeVars, watchVars, IInv, Causes,
        Unanswered, Answered, Decisions, Results
<1>1. CASE AddLeg(l)
  BY <1>1 DEF AddLeg
<1>2. CASE AddBackup(l)
  BY <1>2 DEF AddBackup
<1>3. CASE Leave(l)
  BY <1>3 DEF Leave
<1>4. CASE Decide(l)
  <2>1. \/ answer = l /\ hangups' = hangups \cup {<<"check", "Ok">>}
        \/ answer # l /\ channels = {} /\ hangups' = hangups \cup {<<"check", "Busy">>}
        \/ answer # l /\ channels # {} /\ hangups' = hangups
    BY <1>4, Zenon DEF Decide, Call
  <2>2. UNCHANGED <<bridgeVars, ending, answering, waiter, connected, crossed>>
    BY <1>4 DEF Decide
  <2>3. leg' = [leg EXCEPT ![l] = "gone"] /\ leg[l] = "decide"
    BY <1>4 DEF Decide
  <2>4. Causes'
    BY <2>1, <2>2
  <2>5. ~crossed => Unanswered'
    BY <2>1, <2>2, <2>3
  <2>6. ~crossed => Answered'
    BY <2>1, <2>2, <2>3
  <2>7. ~crossed => Decisions'
    BY <2>1, <2>2
  <2>8. QED
    BY <2>2, <2>4, <2>5, <2>6, <2>7
<1>5. CASE PressKey(l)
  BY <1>5 DEF PressKey, Step
<1>6. CASE NoKey(l)
  BY <1>6 DEF NoKey, Step
<1>7. CASE CheckAnswer(l)
  BY <1>7 DEF CheckAnswer, Step, IsHangup
<1>8. CASE StoreAnswer(l)
  BY <1>8 DEF StoreAnswer, Step, Deciding
<1>9. CASE Connect(l)
  BY <1>9 DEF Connect, Step, Drain
<1>10. CASE ServerHangs(l)
  BY <1>10 DEF ServerHangs
<1>11. CASE LegAnswers(l)
  BY <1>11 DEF LegAnswers, Step
<1>12. CASE LegHangs(l)
  BY <1>12 DEF LegHangs
<1>13. CASE StartLeg(l)
  BY <1>13 DEF StartLeg
<1>14. CASE StrayHangs(l)
  BY <1>14 DEF StrayHangs
<1>15. QED
  BY <1>1, <1>2, <1>3, <1>4, <1>5, <1>6, <1>7, <1>8, <1>9, <1>10, <1>11, <1>12, <1>13,
     <1>14 DEF LegStep

LEMMA IInvBridge == ASSUME Typed, IInv, BridgeStep PROVE IInv'
<1> USE BridgeAssumption DEF Typed, TypeOK, bridgeVars, watchVars, IInv, Causes,
        Unanswered, Answered, Decisions, Results
<1>1. CASE Ready
  BY <1>1 DEF Ready
<1>2. CASE Hear
  BY <1>2 DEF Hear
<1>3. CASE TimerFires
  BY <1>3 DEF TimerFires, Call
<1>4. CASE CallerLeaves
  BY <1>4 DEF CallerLeaves, Call
<1>5. CASE AckCheck
  BY <1>5 DEF AckCheck
<1>6. CASE StartWait
  <2>1. /\ hangups' = hangups \/ hangups' = hangups \cup {<<"check", "Unavailable">>}
        /\ channels = {} => hangups' # {}
    BY <1>6 DEF StartWait, Call
  <2>2. UNCHANGED <<bridgeVars, leg, ending, answering, connected, crossed>> /\ ready
    BY <1>6 DEF StartWait
  <2>3. Causes'
    BY <2>1, <2>2
  <2>4. ~crossed => Unanswered'
    BY <2>1, <2>2
  <2>5. ~crossed => Answered'
    BY <2>1, <2>2
  <2>6. ~crossed => Decisions'
    BY <2>1, <2>2
  <2>7. QED
    BY <2>2, <2>3, <2>4, <2>5, <2>6
<1>7. CASE WaiterDies
  BY <1>7 DEF WaiterDies
<1>8. CASE CallerHangs
  BY <1>8 DEF CallerHangs
<1>9. ASSUME NEW result \in Results, CheckHangup(result) PROVE IInv'
  BY <1>9 DEF CheckHangup, IsHangup
<1>10. ASSUME NEW result \in Results, End(result) PROVE IInv'
  BY <1>10 DEF End, Drain
<1>11. QED
  BY <1>1, <1>2, <1>3, <1>4, <1>5, <1>6, <1>7, <1>8, <1>9, <1>10 DEF BridgeStep

LEMMA IInvAlways == Spec => []IInv
<1>1. IInv /\ UNCHANGED vars => IInv'
  BY DEF IInv, Causes, Unanswered, Answered, Decisions, vars, bridgeVars, watchVars
<1>2. Typed /\ IInv /\ [Next]_vars => IInv'
  BY <1>1, NextParts, IInvLeg, IInvBridge
<1>3. QED
  BY <1>2, IInvInit, TypedAlways, PTL DEF Spec

-----------------------------------------------------------------------------

\* Bridge::answer: uncrossed, only the leg whose answer is stored is connected.
THEOREM OnlyTheAnswerIsConnected == Spec => []OneCalleeUncrossed
<1>1. IInv => OneCalleeUncrossed
  BY DEF IInv, Decisions, OneCalleeUncrossed
<1>2. QED
  BY <1>1, IInvAlways, PTL

\* Bridge::hangup: uncrossed, what is announced tells whether somebody answered.
THEOREM ResultsAreRight == Spec => []ResultMatchesAnswer
<1>1. IInv => ResultMatchesAnswer
  BY DEF IInv, Decisions, ResultMatchesAnswer
<1>2. QED
  BY <1>1, IInvAlways, PTL

\* Bridge::answer and hangup: uncrossed, the server never hangs up the leg that
\* answered while the bridge lives.
THEOREM CalleeIsKept == Spec => []CalleeStays
<1>1. IInv => CalleeStays
  BY DEF IInv, Answered, CalleeStays
<1>2. QED
  BY <1>1, IInvAlways, PTL

\* Bridge::outbound_hangup: legs that leave together never all overlook that
\* none is left.
THEOREM LastLegEnds == Spec => []LastLegEndsBridge
<1>1. Typed /\ IInv => LastLegEndsBridge
  BY DEF Typed, TypeOK, IInv, Unanswered, Answered, Quiet, LastLegEndsBridge
<1>2. QED
  BY <1>1, TypedAlways, IInvAlways, PTL
=============================================================================
