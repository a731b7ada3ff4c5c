----------------------- MODULE SipTransactionProofs -----------------------
(***************************************************************************)
(* SipTransaction for every number of handlers and every bound.            *)
(***************************************************************************)
EXTENDS SipTransaction, FiniteSetTheorems, TLAPS

\* The machine of each kind.
LEMMA MachineOfKind ==
    /\ kind = "InviteClient" => Machine = InviteClient
    /\ kind = "InviteServer" => Machine = InviteServer
    /\ kind = "NonInviteClient" => Machine = NonInviteClient
    /\ kind = "NonInviteServer" => Machine = NonInviteServer
BY Zenon DEF Machine

\* Every row of the machine that runs starts in a state, ends in one or
\* terminates, and passes a final response up only on a final response.
LEMMA RowsAreTyped ==
    ASSUME kind \in AllKinds, NEW r \in Machine
    PROVE  /\ r[1] \in States
           /\ r[3] \in States \cup {"Terminated"}
           /\ r[4] \in {"act_200", "act_300", "act_200to699"} => r[2] \in {"2xx", "3xx"}
BY MachineOfKind DEF AllKinds, States, InviteClient, InviteServer, NonInviteClient,
       NonInviteServer

\* A run of spin() that has the lock carries out a row of the machine.
LEMMA ReadIsTyped ==
    ASSUME kind' = kind, NEW input, Read(input)
    PROVE  TurnOK'
<1>1. Machine' = Machine
  BY Zenon DEF Machine
<1>2. CASE Rows(tx.state, input) = {}
  BY <1>2 DEF Read, TurnOK
<1>3. CASE Rows(tx.state, input) # {}
  BY <1>1, <1>3 DEF Read, Rows, TurnOK
<1>4. QED
  BY <1>2, <1>3

LEMMA TurnIsTyped ==
    ASSUME SipAssumption, TypeOK, turn # Free
    PROVE  \E r \in Machine :
             /\ turn.input = r[2] /\ turn.next = r[3] /\ turn.what = r[4]
             /\ turn.next \in States \cup {"Terminated"}
             /\ turn.what \in {"act_200", "act_300", "act_200to699"} =>
                  turn.input \in {"2xx", "3xx"}
<1>1. kind \in AllKinds
  BY DEF TypeOK, SipAssumption
<1>2. QED
  BY <1>1, RowsAreTyped DEF TypeOK, TurnOK

\* The machine is fixed by the kind.
LEMMA TurnStays ==
    ASSUME TurnOK, kind' = kind, turn' = turn
    PROVE  TurnOK'
<1>1. Machine' = Machine
  BY Zenon DEF Machine
<1>2. QED
  BY <1>1 DEF TurnOK, Free

-----------------------------------------------------------------------------

\* Every variable keeps its type.
THEOREM TypeCorrect == Spec => []TypeOK
<1> USE SipAssumption DEF TypeOK
<1>1. Init => TypeOK
  <2> SUFFICES ASSUME Init PROVE TypeOK
    OBVIOUS
  <2>1. RecordOK
    BY DEF Init, RecordOK, Gone
  <2>2. HandlersOK
    BY DEF Init, HandlersOK, Idle
  <2>3. armed \in [Timers -> Nat]
    BY DEF Init
  <2>4. TurnOK
    BY DEF Init, TurnOK
  <2>5. QED
    BY <2>1, <2>2, <2>3, <2>4 DEF Init
<1>2. TypeOK /\ [Next]_vars => TypeOK'
  <2> SUFFICES ASSUME TypeOK, [Next]_vars PROVE TypeOK'
    OBVIOUS
  <2>1. Gone \in [exists : BOOLEAN, ttl : BOOLEAN, state : {None},
                  request : {None}, response : {None}, last : {None}]
    BY DEF Gone
  <2>2. InitialState \in States
    BY Zenon DEF InitialState, States
  <2>3. \A timers : \A base \in [Timers -> Nat] : Start(base, timers) \in [Timers -> Nat]
    BY DEF Start
  <2>4. ASSUME NEW t \in Timers, FireTimer(t) PROVE TypeOK'
    <3>1. armed' \in [Timers -> Nat]
      BY <2>4 DEF FireTimer
    <3>2. TurnOK'
      BY <2>4, ReadIsTyped DEF FireTimer
    <3>3. HandlersOK' /\ RecordOK'
      BY <2>4 DEF FireTimer, HandlersOK, IsClient, RecordOK
    <3>4. QED
      BY <2>4, <3>1, <3>2, <3>3 DEF FireTimer
  <2>5. ASSUME NEW h \in Handlers, SpinMessage(h) PROVE TypeOK'
    <3>1. HandlersOK' /\ RecordOK'
      BY <2>5 DEF SpinMessage, HandlersOK, IsClient, Idle, RecordOK
    <3>2. TurnOK'
      BY <2>5, ReadIsTyped DEF SpinMessage
    <3>3. QED
      BY <2>5, <3>1, <3>2 DEF SpinMessage
  <2>6. CASE Say
    <3>1. TurnOK'
      <4>1. Machine' = Machine
        BY <2>6, Zenon DEF Say, Machine
      <4>2. turn' \in {[turn EXCEPT !.at = "arm"], [turn EXCEPT !.at = "failed"]}
        BY <2>6 DEF Say
      <4>3. QED
        BY <2>6, <4>1, <4>2 DEF Say, TurnOK, Free
    <3>2. passed' \subseteq Responses
      <4>1. tx.response \in Responses \cup {None}
        BY DEF RecordOK
      <4>2. passed' = passed \cup ({tx.response} \ {None}) \/ passed' = passed
        BY <2>6 DEF Say
      <4>3. QED
        BY <4>1, <4>2
    <3>3. HandlersOK' /\ RecordOK'
      BY <2>6 DEF Say, HandlersOK, IsClient, RecordOK
    <3>4. QED
      BY <2>6, <3>1, <3>2, <3>3 DEF Say
  <2>7. CASE Arm
    <3>1. TurnOK'
      <4>1. Machine' = Machine
        BY <2>7, Zenon DEF Arm, Machine
      <4>2. QED
        BY <2>7, <4>1 DEF Arm, TurnOK, Free
    <3>2. armed' \in [Timers -> Nat]
      BY <2>3, <2>7 DEF Arm
    <3>3. HandlersOK' /\ RecordOK'
      BY <2>7 DEF Arm, HandlersOK, IsClient, RecordOK
    <3>4. QED
      BY <2>7, <3>1, <3>2, <3>3 DEF Arm
  <2>8. CASE Write
    <3>1. turn # Free
      BY <2>8 DEF Write, Free
    <3>2. TurnOK'
      <4>1. Machine' = Machine
        BY <2>8, Zenon DEF Write, Machine
      <4>2. turn' \in {[turn EXCEPT !.at = "again"], Free}
        BY <2>8 DEF Write
      <4>3. QED
        BY <3>1, <4>1, <4>2 DEF TurnOK
    <3>3. RecordOK'
      <4>1. turn.next \in States \cup {"Terminated"}
        BY <3>1, TurnIsTyped
      <4>2. CASE tx' = Gone
        BY <4>2 DEF RecordOK, Gone
      <4>3. CASE tx' # Gone
        <5>1. /\ tx' = [tx EXCEPT !.exists = TRUE, !.state = turn.next]
              /\ turn.next \in States
          BY <2>8, <4>1, <4>3 DEF Write
        <5>2. QED
          BY <5>1 DEF RecordOK
      <4>4. QED
        BY <4>2, <4>3
    <3>4. final' \in {"2xx", "3xx", None}
      BY <2>8, <3>1, TurnIsTyped DEF Write
    <3>5. HandlersOK'
      BY <2>8 DEF Write, HandlersOK, IsClient
    <3>6. QED
      BY <2>8, <3>2, <3>3, <3>4, <3>5 DEF Write
  <2>9. CASE SpinAgain
    <3>1. TurnOK'
      BY <2>9, ReadIsTyped DEF SpinAgain
    <3>2. HandlersOK' /\ RecordOK'
      BY <2>9 DEF SpinAgain, HandlersOK, IsClient, RecordOK
    <3>3. QED
      BY <2>9, <3>1, <3>2 DEF SpinAgain
  <2>10. CASE SendRequest
    <3>1. RecordOK'
      BY <2>1, <2>2, <2>10 DEF SendRequest, RecordOK
    <3>2. HandlersOK'
      BY <2>10 DEF SendRequest, HandlersOK, IsClient
    <3>3. armed' \in [Timers -> Nat]
      BY <2>3, <2>10 DEF SendRequest
    <3>4. QED
      BY TurnStays, <2>10, <3>1, <3>2, <3>3 DEF SendRequest
  <2>11. ASSUME NEW h \in Handlers, NEW r \in Responses, ReceiveResponse(h, r)
        PROVE  TypeOK'
    BY <2>11, TurnStays DEF ReceiveResponse, HandlersOK, RecordOK, IsClient, Messages, Responses
  <2>12. ASSUME NEW h \in Handlers, StoreResponse(h) PROVE TypeOK'
    <3>1. HandlersOK'
      BY <2>12 DEF StoreResponse, HandlersOK, IsClient
    <3>2. RecordOK'
      BY <2>12 DEF StoreResponse, Put, RecordOK, HandlersOK
    <3>3. QED
      BY TurnStays, <2>12, <3>1, <3>2 DEF StoreResponse
  <2>13. ASSUME NEW h \in Handlers, StartCancel(h) PROVE TypeOK'
    BY <2>13, TurnStays DEF StartCancel, HandlersOK, RecordOK, IsClient
  <2>14. ASSUME NEW h \in Handlers, Cancel(h) PROVE TypeOK'
    <3>1. HandlersOK'
      BY <2>14 DEF Cancel, HandlersOK, IsClient, Idle
    <3>2. RecordOK'
      BY <2>14 DEF Cancel, Put, RecordOK
    <3>3. armed' \in [Timers -> Nat]
      BY <2>3, <2>14 DEF Cancel
    <3>4. QED
      BY TurnStays, <2>14, <3>1, <3>2, <3>3 DEF Cancel
  <2>15. ASSUME NEW h \in Handlers, NEW m \in {"Req", "Ack"}, ReceiveRequest(h, m)
         PROVE  TypeOK'
    BY <2>15, TurnStays DEF ReceiveRequest, HandlersOK, RecordOK, IsClient, Messages
  <2>16. ASSUME NEW h \in Handlers, CreateServer(h) PROVE TypeOK'
    <3>1. HandlersOK'
      BY <2>16 DEF CreateServer, HandlersOK, IsClient, Idle
    <3>2. RecordOK'
      BY <2>1, <2>2, <2>16 DEF CreateServer, RecordOK
    <3>3. QED
      BY TurnStays, <2>16, <3>1, <3>2 DEF CreateServer
  <2>17. ASSUME NEW h \in Handlers, Route(h) PROVE TypeOK'
    BY <2>17, TurnStays DEF Route, HandlersOK, RecordOK, IsClient, Idle
  <2>18. ASSUME NEW h \in Handlers, NEW r \in Responses \cup {"100"}, Respond(h, r)
         PROVE  TypeOK'
    BY <2>18, TurnStays DEF Respond, HandlersOK, RecordOK, IsClient, Messages
  <2>19. ASSUME NEW h \in Handlers, StoreLast(h) PROVE TypeOK'
    <3>1. HandlersOK'
      BY <2>19 DEF StoreLast, HandlersOK, IsClient, Idle
    <3>2. RecordOK'
      BY <2>19 DEF StoreLast, Put, RecordOK, HandlersOK
    <3>3. QED
      BY TurnStays, <2>19, <3>1, <3>2 DEF StoreLast
  <2>20. CASE Expire
    BY <2>1, <2>20, TurnStays DEF Expire, HandlersOK, RecordOK, IsClient
  <2>21. CASE Crash
    <3>1. TurnOK'
      BY <2>21 DEF Crash, TurnOK
    <3>2. QED
      BY <2>21, <3>1 DEF Crash, HandlersOK, RecordOK, Idle
  <2>22. CASE UNCHANGED vars
    BY <2>22, TurnStays DEF vars, HandlersOK, RecordOK, IsClient
  <2>23. QED
    BY <2>4, <2>5, <2>10, <2>11, <2>12, <2>13, <2>14, <2>15, <2>16, <2>17, <2>18,
       <2>19, <2>20, <2>21, <2>22, <2>6, <2>7, <2>8, <2>9 DEF Next
<1>3. QED
  BY <1>1, <1>2, PTL DEF Spec

-----------------------------------------------------------------------------

\* What a step of a run of spin() can do to the record: delete it, or write the
\* row's next state into it.
LEMMA TurnEffect ==
    ASSUME TypeOK, SipAssumption, Say \/ Arm \/ Write \/ SpinAgain
    PROVE  \/ tx' = tx
           \/ Write /\ tx' = Gone
           \/ /\ Write /\ turn.next \in States /\ tx'.exists
              /\ tx' = [tx EXCEPT !.exists = TRUE, !.state = turn.next]
              /\ tx'.ttl = tx.ttl /\ tx'.state = turn.next
<1>1. CASE Write
  <2>1. turn # Free
    BY <1>1 DEF Write, Free
  <2>2. turn.next \in States \cup {"Terminated"}
    BY <2>1, TurnIsTyped
  <2>3. QED
    BY <1>1, <2>2 DEF Write, TypeOK, RecordOK
<1>2. CASE Say \/ Arm \/ SpinAgain
  BY <1>2 DEF Say, Arm, SpinAgain
<1>3. QED
  BY <1>1, <1>2

\* What any other step can do to it: nothing, delete it, create it where there
\* was none, or write a message into it.
LEMMA StepEffect ==
    ASSUME TypeOK, [Next]_vars, ~(Say \/ Arm \/ Write \/ SpinAgain)
    PROVE  \/ tx' = tx
           \/ Expire /\ tx' = Gone
           \/ /\ ~tx.exists \/ created = 0
              /\ created' > created
              /\ tx'.exists /\ tx'.ttl /\ tx'.state = InitialState
           \/ /\ \E h \in Handlers : StoreResponse(h) \/ Cancel(h) \/ StoreLast(h)
              /\ tx'.exists /\ tx'.ttl = tx.ttl /\ tx'.state = tx.state
<1> USE SipAssumption
<1>1. ASSUME SendRequest \/ \E h \in Handlers : CreateServer(h) /\ tx' # tx
      PROVE  /\ ~tx.exists \/ created = 0
             /\ created' > created
             /\ tx'.exists /\ tx'.ttl /\ tx'.state = InitialState
  <2>1. /\ ~tx.exists \/ created = 0
        /\ created' = created + 1
        /\ \/ tx' = [Gone EXCEPT !.exists = TRUE, !.ttl = TRUE, !.state = InitialState]
           \/ tx' = [Gone EXCEPT !.exists = TRUE, !.ttl = TRUE, !.state = InitialState,
                                 !.request = "req"]
    BY <1>1 DEF SendRequest, CreateServer
  <2>2. created' > created
    BY <2>1 DEF TypeOK
  <2>3. tx'.exists = TRUE /\ tx'.ttl = TRUE /\ tx'.state = InitialState
    BY <2>1, Zenon DEF Gone
  <2>4. QED
    BY <2>1, <2>2, <2>3
<1>2. ASSUME NEW h \in Handlers, StoreResponse(h) \/ Cancel(h) \/ StoreLast(h)
      PROVE  tx'.exists /\ tx'.ttl = tx.ttl /\ tx'.state = tx.state
  BY <1>2 DEF StoreResponse, Cancel, StoreLast, Put, TypeOK, RecordOK
<1>3. ASSUME NEW h \in Handlers,
             \/ SpinMessage(h) \/ StartCancel(h) \/ Route(h)
             \/ \E r \in Responses : ReceiveResponse(h, r)
             \/ \E r \in Responses \cup {"100"} : Respond(h, r)
             \/ \E m \in {"Req", "Ack"} : ReceiveRequest(h, m)
      PROVE  tx' = tx
  BY <1>3 DEF SpinMessage, StartCancel, Route, ReceiveResponse, Respond, ReceiveRequest
<1>4. ASSUME Crash \/ UNCHANGED vars \/ \E t \in Timers : FireTimer(t)
      PROVE  tx' = tx
  BY <1>4 DEF Crash, vars, FireTimer
<1>5. Expire => tx' = Gone
  BY DEF Expire
<1>6. QED
  BY <1>1, <1>2, <1>3, <1>4, <1>5 DEF Next

\* What any step can do to the run of spin() under way.
LEMMA StepTurns ==
    ASSUME [Next]_vars, ~(Say \/ Arm \/ Write \/ SpinAgain)
    PROVE  \/ turn' = turn
           \/ Crash /\ turn' = Free /\ tx' = tx
           \/ \E t \in Timers : FireTimer(t)
           \/ \E h \in Handlers : SpinMessage(h)
BY DEF Next, vars, SendRequest, CreateServer, StoreResponse, Cancel, StoreLast,
   StartCancel, Route, ReceiveResponse, Respond, ReceiveRequest, Expire, Crash

\* kind never changes, and with it the machine and its timers; only a TTL that
\* runs out under a run of spin() makes it one that outlived its record.
LEMMA KindIsFixed ==
    ASSUME [Next]_vars
    PROVE  /\ kind' = kind
           /\ \A s : LastTimer(s)' = LastTimer(s)
           /\ Machine' = Machine
           /\ lapsed' = lapsed \/ (Expire /\ lapsed' = (lapsed \/ turn # Free))
<1>1. kind' = kind
  BY DEF Next, vars, FireTimer, SpinMessage, Say, Arm, Write, SpinAgain, SendRequest,
     CreateServer, StoreResponse, Cancel, StoreLast, StartCancel, Route,
     ReceiveResponse, Respond, ReceiveRequest, Expire, Crash
<1>2. lapsed' = lapsed \/ (Expire /\ lapsed' = (lapsed \/ turn # Free))
  BY DEF Next, vars, FireTimer, SpinMessage, Say, Arm, Write, SpinAgain, SendRequest,
     CreateServer, StoreResponse, Cancel, StoreLast, StartCancel, Route,
     ReceiveResponse, Respond, ReceiveRequest, Expire, Crash
<1>3. ASSUME NEW s PROVE LastTimer(s)' = LastTimer(s)
  BY <1>1, Zenon DEF LastTimer
<1>4. Machine' = Machine
  BY <1>1, Zenon DEF Machine
<1>5. QED
  BY <1>1, <1>2, <1>3, <1>4

\* A run of spin() that has read the state and not yet written it.
Busy == turn.at \in {"say", "arm", "write", "failed"}

\* As long as no run outlived its record, the run under way still carries out a
\* row of the state that the record has.
OnCourse ==
    ~lapsed /\ Busy =>
        \E r \in Machine : /\ r[1] = tx.state /\ r[2] = turn.input
                           /\ r[3] = turn.next /\ r[4] = turn.what

\* A record with a state is one that Transaction::new made.
RecordInv ==
    /\ StateHasTtl
    /\ tx.state # None \/ turn # Free => created > 0
    /\ OnCourse

\* What a run of spin() has read when it is Busy.
LEMMA ReadRow ==
    ASSUME SipAssumption, TypeOK, NEW input, Read(input)
    PROVE  \/ turn' = Free
           \/ \E r \in Machine :
                /\ r[1] = tx.state /\ r[2] = input /\ tx.state \in States
                /\ turn' = [at |-> "say", input |-> input, what |-> r[4], next |-> r[3]]
<1>1. kind \in AllKinds
  BY DEF TypeOK, SipAssumption
<1>2. QED
  BY <1>1, RowsAreTyped DEF Read, Rows

LEMMA RecordStep ==
    ASSUME TypeOK, TypeOK', RecordInv, [Next]_vars
    PROVE  RecordInv'
<1> USE SipAssumption
<1>1. created' \in {created, created + 1}
  BY DEF Next, vars, FireTimer, SpinMessage, Say, Arm, Write, SpinAgain, SendRequest,
     CreateServer, StoreResponse, Cancel, StoreLast, StartCancel, Route,
     ReceiveResponse, Respond, ReceiveRequest, Expire, Crash
<1>2. created' >= created
  BY <1>1 DEF TypeOK
<1>3. None \notin States
  BY DEF States
<1>4. CASE Write
  <2>1. Busy /\ turn # Free /\ Busy' = FALSE
    BY <1>4 DEF Write, Busy, Free
  <2>2. created' = created /\ lapsed' = lapsed
    BY <1>4 DEF Write
  <2>3. ~lapsed => tx.state # None
    <3>1. kind \in AllKinds
      BY DEF TypeOK
    <3>2. QED
      BY <1>3, <2>1, <3>1, RowsAreTyped DEF RecordInv, OnCourse
  <2>4. StateHasTtl'
    BY <1>4, <2>2, <2>3, TurnEffect DEF RecordInv, StateHasTtl, Gone
  <2>5. created' > 0
    BY <2>1, <2>2 DEF RecordInv
  <2>6. QED
    BY <2>1, <2>4, <2>5 DEF RecordInv, OnCourse
<1>5. CASE Say \/ Arm
  <2>1. /\ tx' = tx /\ created' = created /\ lapsed' = lapsed
        /\ Busy /\ turn # Free
        /\ turn'.input = turn.input /\ turn'.next = turn.next /\ turn'.what = turn.what
    BY <1>5 DEF Say, Arm, Busy, Free, TypeOK, TurnOK
  <2>2. QED
    BY <2>1, KindIsFixed DEF RecordInv, StateHasTtl, OnCourse
<1>6. ASSUME NEW input, Read(input), UNCHANGED <<tx, created, lapsed>>
      PROVE  RecordInv'
  <2>1. CASE turn' = Free
    BY <1>6, <2>1 DEF RecordInv, StateHasTtl, OnCourse, Busy, Free
  <2>2. CASE turn' # Free
    <3>1. PICK r \in Machine :
            /\ r[1] = tx.state /\ r[2] = input /\ tx.state \in States
            /\ turn' = [at |-> "say", input |-> input, what |-> r[4], next |-> r[3]]
      BY <1>6, <2>2, ReadRow
    <3>2. QED
      BY <1>3, <1>6, <3>1, KindIsFixed DEF RecordInv, StateHasTtl, OnCourse
  <2>3. QED
    BY <2>1, <2>2
<1>7. CASE \/ SpinAgain \/ \E t \in Timers : FireTimer(t)
           \/ \E h \in Handlers : SpinMessage(h)
  BY <1>6, <1>7 DEF SpinAgain, FireTimer, SpinMessage
<1>8. CASE Crash /\ turn' = Free /\ tx' = tx
  BY <1>8 DEF Crash, RecordInv, StateHasTtl, OnCourse, Busy, Free
<1>9. CASE ~(Say \/ Arm \/ Write \/ SpinAgain) /\ turn' = turn
  <2>1. CASE Expire
    <3>1. tx'.state = None /\ created' = created
      BY <2>1 DEF Expire, Gone
    <3>2. Busy => turn # Free
      BY DEF Busy, Free
    <3>3. Busy => lapsed'
      BY <2>1, <3>2, Zenon DEF Expire
    <3>4. QED
      BY <1>9, <3>1, <3>3 DEF RecordInv, StateHasTtl, OnCourse, Busy
  <2>2. CASE ~Expire
    <3>1. lapsed' = lapsed
      BY <2>2, KindIsFixed
    <3>2. ~lapsed /\ Busy => tx.state # None
      <4>1. kind \in AllKinds
        BY DEF TypeOK
      <4>2. QED
        BY <1>3, <4>1, RowsAreTyped DEF RecordInv, OnCourse
    <3>3. CASE tx' = tx
      BY <1>2, <1>9, <3>1, <3>3, KindIsFixed
         DEF RecordInv, StateHasTtl, OnCourse, Busy, TypeOK
    <3>4. CASE /\ ~tx.exists \/ created = 0
               /\ created' > created
               /\ tx'.exists /\ tx'.ttl /\ tx'.state = InitialState
      <4>1. ~(~lapsed /\ Busy)
        BY <3>2, <3>4 DEF RecordInv, StateHasTtl, TypeOK
      <4>2. QED
        BY <1>9, <3>1, <3>4, <4>1 DEF RecordInv, StateHasTtl, OnCourse, Busy, TypeOK
    <3>5. CASE tx'.exists /\ tx'.ttl = tx.ttl /\ tx'.state = tx.state
      BY <1>2, <1>9, <3>1, <3>5, KindIsFixed
         DEF RecordInv, StateHasTtl, OnCourse, Busy, TypeOK
    <3>6. QED
      BY <1>9, <2>2, <3>3, <3>4, <3>5, StepEffect
  <2>3. QED
    BY <2>1, <2>2
<1>10. QED
  BY <1>4, <1>5, <1>7, <1>8, <1>9, StepTurns

LEMMA RecordInvariant == Spec => []RecordInv
<1>1. Init => RecordInv
  BY DEF Init, RecordInv, StateHasTtl, OnCourse, Busy, Gone, Free
<1>2. QED
  BY <1>1, RecordStep, TypeCorrect, PTL DEF Spec

\* Transaction::set_state writes with a plain HSET, yet nothing takes the TTL
\* from a record that has a state, except a run of spin() under which the TTL
\* itself runs out.
THEOREM StateKeepsTtl == Spec => []StateHasTtl
<1>1. RecordInv => StateHasTtl
  BY DEF RecordInv
<1>2. QED
  BY <1>1, RecordInvariant, PTL

-----------------------------------------------------------------------------

\* hmset_nx_ex: the handlers that made the record and have not routed yet,
\* together with the requests routed, never outnumber the records made.
THEOREM RoutesOnce == Spec => []RoutedOnce
<1> USE SipAssumption
<1>1. ASSUME NEW H, H \subseteq Handlers PROVE IsFiniteSet(H) /\ Cardinality(H) \in Nat
  BY <1>1, FS_Subset, FS_CardinalityType
<1>2. Init => RoutedOnce
  <2> SUFFICES ASSUME Init PROVE RoutedOnce
    OBVIOUS
  <2>1. Routing = {}
    BY DEF Init, Routing, Idle
  <2>2. QED
    BY <2>1, FS_EmptySet DEF Init, RoutedOnce
<1>3. ASSUME TypeOK, RoutedOnce, [Next]_vars PROVE RoutedOnce'
  <2>1. Routing \subseteq Handlers /\ Routing' \subseteq Handlers
    BY DEF Routing
  <2>2. /\ IsFiniteSet(Routing) /\ Cardinality(Routing) \in Nat
        /\ IsFiniteSet(Routing') /\ Cardinality(Routing') \in Nat
    BY <1>1, <2>1
  <2>3. CASE \E h \in Handlers : Route(h)
    <3>1. PICK h \in Handlers : Route(h)
      BY <2>3
    <3>2. h \in Routing /\ Routing' = Routing \ {h}
      BY <1>3, <3>1 DEF Route, Routing, Idle, TypeOK, HandlersOK
    <3>3. Cardinality(Routing') = Cardinality(Routing) - 1
      BY <2>2, <3>2, FS_RemoveElement
    <3>4. QED
      BY <1>3, <2>2, <3>1, <3>3 DEF Route, RoutedOnce, TypeOK
  <2>4. CASE \E h \in Handlers : CreateServer(h) /\ tx' # tx
    <3>1. PICK h \in Handlers : CreateServer(h) /\ tx' # tx
      BY <2>4
    <3>2. /\ Routing' = Routing \cup {h} /\ h \notin Routing
          /\ created' = created + 1 /\ routed' = routed
      BY <1>3, <3>1 DEF CreateServer, Routing, Idle, TypeOK, HandlersOK
    <3>3. Cardinality(Routing') = Cardinality(Routing) + 1
      BY <2>2, <3>2, FS_AddElement
    <3>4. QED
      BY <1>3, <2>2, <3>2, <3>3 DEF RoutedOnce, TypeOK
  <2>5. ASSUME NEW h \in Handlers, CreateServer(h), tx' = tx
        PROVE  /\ handler' = [handler EXCEPT ![h] = Idle]
               /\ created' = created /\ routed' = routed
    BY <2>5 DEF CreateServer, Gone
  <2>6. CASE \E h \in Handlers : CreateServer(h) /\ tx' = tx
    <3>1. Routing' \subseteq Routing
      BY <1>3, <2>5, <2>6 DEF Routing, Idle, TypeOK, HandlersOK
    <3>2. Cardinality(Routing') <= Cardinality(Routing)
      BY <2>2, <3>1, FS_Subset
    <3>3. QED
      BY <1>3, <2>2, <2>5, <2>6, <3>2 DEF RoutedOnce, TypeOK
  <2>7. CASE ~\E h \in Handlers : Route(h) \/ CreateServer(h)
    <3>1. Routing' \subseteq Routing
      <4>1. CASE \/ SendRequest \/ Expire \/ UNCHANGED vars
                 \/ Say \/ Arm \/ Write \/ SpinAgain
                 \/ \E t \in Timers : FireTimer(t)
        <5>1. handler' = handler
          BY <4>1 DEF vars, SendRequest, Expire, FireTimer, Say, Arm, Write, SpinAgain
        <5>2. QED
          BY <5>1 DEF Routing
      <4>2. CASE \E h \in Handlers :
                   \/ SpinMessage(h) \/ StoreResponse(h) \/ StartCancel(h)
                   \/ Cancel(h) \/ StoreLast(h)
                   \/ \E r \in Responses : ReceiveResponse(h, r)
                   \/ \E r \in Responses \cup {"100"} : Respond(h, r)
                   \/ \E m \in {"Req", "Ack"} : ReceiveRequest(h, m)
        BY <1>3, <4>2 DEF SpinMessage, StoreResponse, Cancel, StoreLast, StartCancel,
           ReceiveResponse, Respond, ReceiveRequest, Routing, Idle, TypeOK, HandlersOK
      <4>3. CASE Crash
        BY <4>3 DEF Crash, Routing, Idle
      <4>4. QED
        BY <1>3, <2>7, <4>1, <4>2, <4>3 DEF Next
    <3>2. routed' = routed
      BY <1>3, <2>7 DEF Next, vars, FireTimer, SpinMessage, Say, Arm, Write, SpinAgain,
         SendRequest,
         StoreResponse, Cancel, StoreLast, StartCancel, ReceiveResponse, Respond,
         ReceiveRequest, Expire, Crash
    <3>3. ~SendRequest => created' = created
      BY <1>3, <2>7 DEF Next, vars, FireTimer, SpinMessage, Say, Arm, Write, SpinAgain,
         StoreResponse, Cancel, StoreLast, StartCancel, ReceiveResponse, Respond,
         ReceiveRequest, Expire, Crash
    <3>4. Cardinality(Routing') <= Cardinality(Routing)
      BY <2>2, <3>1, FS_Subset
    <3>5. QED
      BY <1>3, <2>2, <3>2, <3>3, <3>4 DEF RoutedOnce, TypeOK, SendRequest
  <2>8. QED
    BY <2>3, <2>4, <2>6, <2>7
<1>4. QED
  BY <1>2, <1>3, TypeCorrect, PTL DEF Spec

-----------------------------------------------------------------------------
(***************************************************************************)
(* The two machines that agree with their diagrams.                        *)
(***************************************************************************)

Sound == kind \in {"InviteServer", "NonInviteClient"}

LEMMA TimersOfKind ==
    ASSUME SipAssumption
    PROVE  /\ LastTimer(None) = None
           /\ kind = "InviteServer" =>
                /\ LastTimer("Proceeding") = None
                /\ LastTimer("Accepted") = "L"
                /\ LastTimer("Completed") = "H"
                /\ LastTimer("Confirmed") = "I"
           /\ kind = "NonInviteClient" =>
                /\ LastTimer("Trying") = "F"
                /\ LastTimer("Proceeding") = "F"
                /\ LastTimer("Completed") = "K"
<1>1. /\ None # "Calling" /\ None # "Accepted" /\ None # "Completed"
      /\ None # "Confirmed" /\ None # "Trying" /\ None # "Proceeding"
  BY DEF SipAssumption
<1>2. LastTimer(None) = None
  BY <1>1, Zenon DEF LastTimer
<1>3. ASSUME kind = "InviteServer"
      PROVE  /\ LastTimer("Proceeding") = None
             /\ LastTimer("Accepted") = "L"
             /\ LastTimer("Completed") = "H"
             /\ LastTimer("Confirmed") = "I"
  BY <1>3, Zenon DEF LastTimer
<1>4. ASSUME kind = "NonInviteClient"
      PROVE  /\ LastTimer("Trying") = "F"
             /\ LastTimer("Proceeding") = "F"
             /\ LastTimer("Completed") = "K"
  BY <1>4, Zenon DEF LastTimer
<1>5. QED
  BY <1>2, <1>3, <1>4

LEMMA StartsOfRow ==
    /\ "L" \in Starts("server_act_200")
    /\ "H" \in Starts("server_act_300")
    /\ "I" \in Starts("server_ack")
    /\ "K" \in Starts("act_200to699")
<1>1. Starts("server_act_200") = {"L"} /\ Starts("server_ack") = {"I"}
      /\ Starts("act_200to699") = {"K"}
  BY Zenon DEF Starts
<1>2. Starts("server_act_300") = IF Udp THEN {"G", "H"} ELSE {"H"}
  BY Zenon DEF Starts
<1>3. QED
  BY <1>1, <1>2

\* A row on the last timer of its state ends the transaction; any other that
\* enters a state with a last timer starts it, or stays with it.
LEMMA RowsArm ==
    ASSUME SipAssumption, Sound, NEW r \in Machine
    PROVE  /\ r[4] # "reply_final"
           /\ LastTimer(r[1]) # None /\ LastTimer(r[1]) = r[2] => r[3] = "Terminated"
           /\ \/ r[3] = "Terminated"
              \/ LastTimer(r[3]) = None
              \/ LastTimer(r[3]) \in Starts(r[4])
              \/ LastTimer(r[3]) = LastTimer(r[1]) /\ LastTimer(r[1]) # r[2]
<1>1. CASE kind = "InviteServer"
  BY <1>1, MachineOfKind, TimersOfKind, StartsOfRow DEF InviteServer
<1>2. CASE kind = "NonInviteClient"
  BY <1>2, MachineOfKind, TimersOfKind, StartsOfRow DEF NonInviteClient
<1>3. QED
  BY <1>1, <1>2 DEF Sound

\* In a state with a last timer, that timer has a row.
LEMMA LastTimerHasRow ==
    ASSUME SipAssumption, Sound, NEW s \in States, LastTimer(s) # None
    PROVE  LastTimer(s) \in Timers /\ Rows(s, LastTimer(s)) # {}
<1>1. CASE kind = "InviteServer"
  <2>1. s \in {"Accepted", "Completed", "Confirmed"} \/ s \in {"Trying", "Calling"}
    BY <1>1, TimersOfKind DEF States
  <2>2. LastTimer("Trying") = None /\ LastTimer("Calling") = None
    BY <1>1, Zenon DEF LastTimer
  <2>3. /\ <<"Accepted", "L", "Terminated", "none">> \in Machine
        /\ <<"Completed", "H", "Terminated", "none">> \in Machine
        /\ <<"Confirmed", "I", "Terminated", "none">> \in Machine
    BY <1>1, MachineOfKind DEF InviteServer
  <2>4. QED
    BY <1>1, <2>1, <2>2, <2>3, TimersOfKind DEF Rows, Timers
<1>2. CASE kind = "NonInviteClient"
  <2>1. LastTimer("Calling") = None /\ LastTimer("Accepted") = None
        /\ LastTimer("Confirmed") = None
    BY <1>2, Zenon DEF LastTimer
  <2>2. s \in {"Trying", "Proceeding", "Completed"}
    BY <2>1 DEF States
  <2>3. /\ <<"Trying", "F", "Terminated", "none">> \in Machine
        /\ <<"Proceeding", "F", "Terminated", "none">> \in Machine
        /\ <<"Completed", "K", "Terminated", "none">> \in Machine
    BY <1>2, MachineOfKind DEF NonInviteClient
  <2>4. QED
    BY <1>2, <2>2, <2>3, TimersOfKind DEF Rows, Timers
<1>3. QED
  BY <1>1, <1>2 DEF Sound

\* Why the timers hold: a run of spin() leads to a state whose last timer is
\* asleep by the time the state is written.
OnTime ==
    /\ turn.at \notin {"failed", "again"}
    /\ crashes = 0 /\ ~lapsed /\ Busy /\ turn.next # "Terminated" =>
         \/ LastTimer(turn.next) = None
         \/ armed[LastTimer(turn.next)] > 0
         \/ turn.at # "write" /\ LastTimer(turn.next) \in Starts(turn.what)

ArmInv == EndIsArmed /\ OnTime

\* The turn that a timer or a message starts: base are the timers left.
LEMMA ReadArms ==
    ASSUME SipAssumption, TypeOK, Sound, ArmInv, crashes = 0, ~lapsed, turn = Free,
           NEW input, Read(input),
           armed' \in [Timers -> Nat],
           \A t \in Timers : t # input => armed'[t] = armed[t],
           UNCHANGED <<kind, tx, lapsed, crashes>>
    PROVE  /\ LastTimer(tx.state) # None =>
                armed'[LastTimer(tx.state)] > 0 \/ turn'.next = "Terminated"
           /\ OnTime'
<1> DEFINE L == LastTimer(tx.state)
<1>1. tx.state \in States \/ tx.state = None
  BY DEF TypeOK, RecordOK
<1>2. L # None => L \in Timers /\ Rows(tx.state, L) # {} /\ armed[L] > 0
  <2>1. turn.next # "Terminated"
    BY DEF Free, SipAssumption
  <2>2. QED
    BY <1>1, <2>1, LastTimerHasRow, TimersOfKind DEF ArmInv, EndIsArmed
<1>3. \A s : LastTimer(s)' = LastTimer(s)
  <2>1. ASSUME NEW s PROVE LastTimer(s)' = LastTimer(s)
    BY Zenon DEF LastTimer
  <2>2. QED
    BY <2>1
<1>4. CASE Rows(tx.state, input) = {}
  <2>1. turn' = Free
    BY <1>4 DEF Read
  <2>2. QED
    BY <1>2, <1>4, <2>1 DEF OnTime, Busy, Free
<1>5. CASE Rows(tx.state, input) # {}
  <2>1. PICK r \in Machine :
          /\ r[1] = tx.state /\ r[2] = input /\ tx.state \in States
          /\ turn' = [at |-> "say", input |-> input, what |-> r[4], next |-> r[3]]
    <3>1. turn' # Free
      BY <1>5 DEF Read, Free
    <3>2. QED
      BY <3>1, ReadRow
  <2>2. L # None /\ L = input => r[3] = "Terminated"
    BY <2>1, RowsArm
  <2>3. L # None /\ L # input => armed'[L] > 0
    BY <1>2
  <2>4. kind \in AllKinds
    BY DEF TypeOK, SipAssumption
  <2>5. r[3] # "Terminated" => r[3] \in States
    BY <2>4, RowsAreTyped
  <2>6. \A what : Starts(what)' = Starts(what)
    <3>1. ASSUME NEW what PROVE Starts(what)' = Starts(what)
      BY Zenon DEF Starts
    <3>2. QED
      BY <3>1
  <2>7. \/ r[3] = "Terminated"
        \/ LastTimer(r[3]) = None
        \/ LastTimer(r[3]) \in Starts(r[4])
        \/ LastTimer(r[3]) = L /\ L # input
    BY <2>1, RowsArm
  <2>8. OnTime'
    <3>1. turn'.at = "say" /\ turn'.next = r[3] /\ turn'.what = r[4]
      BY <2>1
    <3>2. \/ r[3] = "Terminated"
          \/ LastTimer(r[3]) = None
          \/ LastTimer(r[3]) \in Starts(r[4])
          \/ armed'[LastTimer(r[3])] > 0
      BY <2>3, <2>7
    <3>3. QED
      BY <1>3, <2>6, <3>1, <3>2 DEF OnTime
  <2>9. QED
    BY <2>1, <2>2, <2>3, <2>8
<1>6. QED
  BY <1>4, <1>5

\* fsm.rs: however many handlers race and whatever timers are left over from an
\* earlier life of the key, a state that only a timer ends has it asleep, as
\* long as the TTL does not run out under a run of spin().
THEOREM EndStaysArmed ==
    ASSUME Kinds \subseteq {"InviteServer", "NonInviteClient"}
    PROVE  Spec => []EndIsArmed
<1> USE SipAssumption
<1>1. Init => ArmInv
  BY TimersOfKind DEF Init, ArmInv, OnTime, Busy, EndIsArmed, Gone, Free
<1>2. ASSUME TypeOK, TypeOK', RecordInv, ArmInv, [Next]_vars PROVE ArmInv'
  <2>1. Sound /\ kind \in AllKinds
    BY <1>2 DEF Sound, TypeOK
  <2>2. /\ kind' = kind /\ \A s : LastTimer(s)' = LastTimer(s)
        /\ \A what : Starts(what)' = Starts(what)
    <3>1. ASSUME NEW what PROVE Starts(what)' = Starts(what)
      BY <1>2, KindIsFixed, Zenon DEF Starts
    <3>2. QED
      BY <1>2, <3>1, KindIsFixed
  <2>3. turn # Free => turn.what # "reply_final"
    BY <1>2, <2>1, TurnIsTyped, RowsArm
  <2>4. turn.at \notin {"failed", "again"}
    BY <1>2 DEF ArmInv, OnTime
  <2>5. tx.state \in States \/ tx.state = None
    BY <1>2 DEF TypeOK, RecordOK
  <2>6. LastTimer(tx.state) # None => LastTimer(tx.state) \in Timers
    BY <2>1, <2>5, LastTimerHasRow, TimersOfKind
  <2>7. turn # Free /\ turn.next # "Terminated" /\ LastTimer(turn.next) # None =>
            LastTimer(turn.next) \in Timers
    <3>1. turn # Free /\ turn.next # "Terminated" => turn.next \in States
      BY <1>2, TurnIsTyped
    <3>2. QED
      BY <2>1, <3>1, LastTimerHasRow
  <2>8. CASE Crash
    <3>1. crashes' # 0 /\ turn' = Free
      BY <1>2, <2>8 DEF Crash, TypeOK
    <3>2. QED
      BY <3>1 DEF ArmInv, OnTime, EndIsArmed, Free
  <2>9. ASSUME NEW input, Read(input), turn = Free,
                armed' \in [Timers -> Nat],
                \A t \in Timers : t # input => armed'[t] = armed[t],
                UNCHANGED <<tx, lapsed, crashes>>
         PROVE  ArmInv'
    <3>1. CASE crashes = 0 /\ ~lapsed
      <4>1. /\ LastTimer(tx.state) # None =>
                 armed'[LastTimer(tx.state)] > 0 \/ turn'.next = "Terminated"
            /\ OnTime'
        BY <1>2, <2>1, <2>2, <2>9, <3>1, ReadArms
      <4>2. QED
        BY <2>2, <2>9, <4>1 DEF ArmInv, EndIsArmed
    <3>2. CASE ~(crashes = 0 /\ ~lapsed)
      <4>1. turn'.at \notin {"failed", "again"}
        BY <2>9 DEF Read, Free
      <4>2. QED
        BY <2>9, <3>2, <4>1 DEF ArmInv, EndIsArmed, OnTime
    <3>3. QED
      BY <3>1, <3>2
  <2>10. CASE \E t \in Timers : FireTimer(t)
    <3>1. PICK t \in Timers : FireTimer(t)
      BY <2>10
    <3>2. armed' \in [Timers -> Nat] /\ \A u \in Timers : u # t => armed'[u] = armed[u]
      BY <1>2, <3>1 DEF FireTimer, TypeOK
    <3>3. Read(t) /\ turn = Free /\ UNCHANGED <<tx, lapsed, crashes>>
      BY <3>1 DEF FireTimer
    <3>4. QED
      BY <2>9, <3>2, <3>3
  <2>11. CASE \E h \in Handlers : SpinMessage(h)
    <3>1. PICK h \in Handlers : SpinMessage(h)
      BY <2>11
    <3>2. /\ Read(handler[h].msg) /\ turn = Free /\ armed' = armed
          /\ UNCHANGED <<tx, lapsed, crashes>>
      BY <3>1 DEF SpinMessage
    <3>3. QED
      BY <1>2, <2>9, <3>2 DEF TypeOK
  <2>12. CASE Say
    <3>1. turn # Free
      BY <2>12 DEF Say, Free
    <3>2. turn' = [turn EXCEPT !.at = "arm"] /\ turn.at = "say"
      BY <2>3, <2>12, <3>1 DEF Say
    <3>3. turn'.at = "arm" /\ turn'.next = turn.next /\ turn'.what = turn.what
      BY <1>2, <3>1, <3>2 DEF TypeOK, TurnOK
    <3>4. /\ tx' = tx /\ armed' = armed /\ lapsed' = lapsed /\ crashes' = crashes
      BY <2>12 DEF Say
    <3>5. EndIsArmed'
      BY <1>2, <2>2, <3>3, <3>4 DEF ArmInv, EndIsArmed
    <3>6. OnTime'
      BY <1>2, <2>2, <3>2, <3>3, <3>4 DEF ArmInv, OnTime, Busy
    <3>7. QED
      BY <3>5, <3>6 DEF ArmInv
  <2>13. CASE Arm
    <3>1. turn # Free /\ Busy /\ turn.at = "arm"
      BY <2>13 DEF Arm, Free, Busy
    <3>2. turn'.at = "write" /\ turn'.next = turn.next /\ turn'.what = turn.what
      BY <1>2, <2>13, <3>1 DEF Arm, TypeOK, TurnOK
    <3>3. tx' = tx /\ lapsed' = lapsed /\ crashes' = crashes
      BY <2>13 DEF Arm
    <3>4. \A t \in Timers : armed'[t] >= armed[t]
      BY <1>2, <2>13 DEF Arm, Start, TypeOK
    <3>5. ~lapsed => tx.ttl
      <4>1. ~lapsed => tx.state \in States
        BY <1>2, <2>1, <3>1, RowsAreTyped DEF RecordInv, OnCourse
      <4>2. None \notin States
        BY DEF States
      <4>3. QED
        BY <1>2, <4>1, <4>2 DEF RecordInv, StateHasTtl
    <3>6. ~lapsed => \A t \in Timers : t \in Starts(turn.what) => armed'[t] > 0
      BY <1>2, <2>13, <3>5 DEF Arm, Start, TypeOK
    <3>7. EndIsArmed'
      BY <1>2, <2>2, <2>6, <3>2, <3>3, <3>4 DEF ArmInv, EndIsArmed, TypeOK
    <3>8. OnTime'
      BY <1>2, <2>2, <2>7, <3>1, <3>2, <3>3, <3>4, <3>6 DEF ArmInv, OnTime, TypeOK
    <3>9. QED
      BY <3>7, <3>8 DEF ArmInv
  <2>14. CASE Write
    <3>1. turn # Free /\ Busy /\ turn.at = "write" /\ turn' = Free
      BY <2>4, <2>14 DEF Write, Free, Busy
    <3>2. armed' = armed /\ lapsed' = lapsed /\ crashes' = crashes
      BY <2>14 DEF Write
    <3>3. turn.next \in States \cup {"Terminated"}
      BY <1>2, <3>1, TurnIsTyped
    <3>4. CASE turn.next = "Terminated"
      <4>1. tx'.state = None
        BY <2>14, <3>4 DEF Write, Gone
      <4>2. QED
        BY <2>2, <3>1, <4>1, TimersOfKind DEF ArmInv, EndIsArmed, OnTime, Busy, Free
    <3>5. CASE turn.next # "Terminated"
      <4>1. tx'.state = turn.next
        BY <1>2, <2>14, <3>5 DEF Write, TypeOK, RecordOK
      <4>2. crashes = 0 /\ ~lapsed /\ LastTimer(turn.next) # None =>
                armed[LastTimer(turn.next)] > 0
        BY <1>2, <3>1, <3>5 DEF ArmInv, OnTime
      <4>3. QED
        BY <2>2, <3>1, <3>2, <4>1, <4>2 DEF ArmInv, EndIsArmed, OnTime, Busy, Free
    <3>6. QED
      BY <3>4, <3>5
  <2>15. ~SpinAgain
    BY <2>4 DEF SpinAgain
  <2>16. ASSUME UNCHANGED <<turn, lapsed, crashes>>,
                armed' \in [Timers -> Nat],
                \A t \in Timers : armed'[t] >= armed[t],
                \/ tx'.state = tx.state
                \/ LastTimer(tx'.state) = None
                \/ armed'[LastTimer(tx'.state)] > 0
         PROVE  ArmInv'
    <3>2. EndIsArmed'
      BY <1>2, <2>2, <2>6, <2>16 DEF ArmInv, EndIsArmed, TypeOK
    <3>3. Busy => turn # Free
      BY DEF Busy, Free
    <3>4. OnTime'
      BY <1>2, <2>2, <2>7, <2>16, <3>3 DEF ArmInv, OnTime, Busy, TypeOK
    <3>5. QED
      BY <3>2, <3>4 DEF ArmInv
  <2>17. CASE SendRequest
    <3>1. tx'.state = InitialState /\ armed' = Start(armed, FirstTimers)
      BY <2>17 DEF SendRequest, Gone
    <3>2. kind = "NonInviteClient"
      BY <2>1, <2>17 DEF Sound, SendRequest, IsClient
    <3>3. InitialState = "Trying"
      BY <3>2, Zenon DEF InitialState
    <3>4. FirstTimers = IF Udp THEN {"E", "F"} ELSE {"F"}
      BY <3>2, Zenon DEF FirstTimers
    <3>5. /\ armed' \in [Timers -> Nat] /\ \A t \in Timers : armed'[t] >= armed[t]
          /\ armed'["F"] > 0
      BY <1>2, <3>1, <3>4 DEF Start, Timers, TypeOK
    <3>6. UNCHANGED <<turn, lapsed, crashes>>
      BY <2>17 DEF SendRequest
    <3>7. QED
      BY <2>16, <3>1, <3>2, <3>3, <3>5, <3>6, TimersOfKind
  <2>18. CASE \E h \in Handlers : CreateServer(h)
    <3>1. /\ UNCHANGED <<turn, lapsed, crashes>> /\ armed' = armed
          /\ kind # "NonInviteClient"
      BY <1>2, <2>18 DEF CreateServer, TypeOK, HandlersOK, IsClient
    <3>2. tx' = tx \/ tx'.state = InitialState
      BY <2>18, Zenon DEF CreateServer, Gone
    <3>3. InitialState = "Proceeding"
      BY <2>1, <3>1, Zenon DEF Sound, InitialState
    <3>4. tx'.state = tx.state \/ LastTimer(tx'.state) = None
      BY <2>1, <3>1, <3>2, <3>3, TimersOfKind DEF Sound
    <3>5. QED
      BY <1>2, <2>16, <3>1, <3>4 DEF TypeOK
  <2>19. CASE \E h \in Handlers : StoreResponse(h) \/ StoreLast(h)
    <3>1. UNCHANGED <<turn, lapsed, crashes, armed>> /\ tx'.state = tx.state
      BY <1>2, <2>19 DEF StoreResponse, StoreLast, Put, TypeOK, RecordOK
    <3>2. QED
      BY <1>2, <2>16, <3>1 DEF TypeOK
  <2>20. CASE \E h \in Handlers : Cancel(h)
    <3>1. UNCHANGED <<turn, lapsed, crashes>> /\ tx'.state = tx.state
      BY <1>2, <2>20 DEF Cancel, Put, TypeOK, RecordOK
    <3>2. armed' \in [Timers -> Nat] /\ \A t \in Timers : armed'[t] >= armed[t]
      BY <1>2, <2>20 DEF Cancel, Start, TypeOK
    <3>3. QED
      BY <2>16, <3>1, <3>2
  <2>21. CASE Expire
    <3>1. tx'.state = None /\ turn' = turn /\ armed' = armed /\ crashes' = crashes
      BY <2>21 DEF Expire, Gone
    <3>2. Busy => turn # Free
      BY DEF Busy, Free
    <3>3. Busy => lapsed'
      BY <2>21, <3>2, Zenon DEF Expire
    <3>4. QED
      BY <2>2, <2>4, <3>1, <3>3, TimersOfKind DEF ArmInv, EndIsArmed, OnTime, Busy
  <2>22. CASE \/ UNCHANGED vars
              \/ \E h \in Handlers :
                   \/ StartCancel(h) \/ Route(h)
                   \/ \E r \in Responses : ReceiveResponse(h, r)
                   \/ \E r \in Responses \cup {"100"} : Respond(h, r)
                   \/ \E m \in {"Req", "Ack"} : ReceiveRequest(h, m)
    <3>1. UNCHANGED <<turn, lapsed, crashes, armed, tx>>
      BY <2>22 DEF vars, StartCancel, Route, ReceiveResponse, Respond, ReceiveRequest
    <3>2. QED
      BY <1>2, <2>16, <3>1 DEF TypeOK
  <2>23. QED
    BY <1>2, <2>8, <2>10, <2>11, <2>12, <2>13, <2>14, <2>15, <2>17, <2>18, <2>19,
       <2>20, <2>21, <2>22 DEF Next
<1>3. ArmInv => EndIsArmed
  BY DEF ArmInv
<1>4. QED
  BY <1>1, <1>2, <1>3, TypeCorrect, RecordInvariant, PTL DEF Spec

-----------------------------------------------------------------------------

\* The state a record stands for in the diagram.
Shown(s) == IF s = None THEN "Terminated" ELSE s

\* Every row of a sound machine is drawn.
LEMMA RowsAreArrows ==
    ASSUME Sound, NEW r \in Machine
    PROVE  r[3] = r[1] \/ <<r[1], r[3]>> \in Diagram!Arrows
<1>1. CASE kind = "InviteServer"
  <2>1. Diagram!Arrows =
          {<<"Proceeding", "Accepted">>, <<"Proceeding", "Completed">>,
           <<"Completed", "Confirmed">>, <<"Completed", "Terminated">>,
           <<"Confirmed", "Terminated">>, <<"Accepted", "Terminated">>}
    BY <1>1, Zenon DEF Diagram!Arrows
  <2>2. QED
    BY <1>1, <2>1, MachineOfKind DEF InviteServer
<1>2. CASE kind = "NonInviteClient"
  <2>1. Diagram!Arrows =
          {<<"Trying", "Proceeding">>, <<"Trying", "Completed">>,
           <<"Trying", "Terminated">>, <<"Proceeding", "Completed">>,
           <<"Proceeding", "Terminated">>, <<"Completed", "Terminated">>}
    BY <1>2, Zenon DEF Diagram!Arrows
  <2>2. QED
    BY <1>2, <2>1, MachineOfKind DEF NonInviteClient
<1>3. QED
  BY <1>1, <1>2 DEF Sound

\* The state a run of spin() writes is the one it read, or follows an arrow.
LEMMA WriteFollows ==
    ASSUME SipAssumption, TypeOK, Sound, RecordInv, ~lapsed, Write
    PROVE  tx'.state = tx.state \/ <<Shown(tx.state), Shown(tx'.state)>> \in Diagram!Arrows
<1>1. Busy
  BY DEF Write, Busy
<1>2. PICK r \in Machine : r[1] = tx.state /\ r[3] = turn.next
  BY <1>1 DEF RecordInv, OnCourse
<1>3. kind \in AllKinds
  BY DEF TypeOK, SipAssumption
<1>4. r[1] \in States /\ r[3] \in States \cup {"Terminated"}
  BY <1>3, RowsAreTyped
<1>5. Shown(tx.state) = r[1]
  BY <1>2, <1>4 DEF Shown, States, SipAssumption
<1>6. Shown(tx'.state) = r[3]
  <2>1. CASE r[3] = "Terminated"
    BY <1>2, <2>1 DEF Write, Gone, Shown
  <2>2. CASE r[3] # "Terminated"
    BY <1>2, <1>4, <2>2 DEF Write, Shown, States, SipAssumption, TypeOK, RecordOK
  <2>3. QED
    BY <2>1, <2>2
<1>7. CASE r[3] = r[1]
  <2>1. tx'.state = tx.state
    BY <1>2, <1>4, <1>7 DEF Write, States, TypeOK, RecordOK
  <2>2. QED
    BY <2>1
<1>8. QED
  BY <1>5, <1>6, <1>7, RowsAreArrows

\* fsm.rs implements the diagrams in its comments: the INVITE server and the
\* non-INVITE client, for as long as the TTL does not run out.
THEOREM ImplementsDiagram ==
    ASSUME Kinds \subseteq {"InviteServer", "NonInviteClient"}, ~Expiry
    PROVE  Spec => FollowsDiagram
<1> USE SipAssumption
<1>1. Init => Diagram!Init /\ ~lapsed
  BY DEF Init, Gone, Diagram!Init
<1>2. ASSUME TypeOK, RecordInv, ~lapsed, [Next]_vars
      PROVE  /\ ~lapsed'
             /\ [(Diagram!Begin \/ Diagram!Move) /\ UNCHANGED kind]_
                  <<kind, IF tx.state = None THEN "Terminated" ELSE tx.state>>
  <2>1. kind' = kind /\ lapsed' = lapsed
    BY <1>2, KindIsFixed DEF Expire
  <2>2. Sound
    BY <1>2 DEF Sound, TypeOK
  <2>3. CASE tx'.state = tx.state
    BY <1>2, <2>1, <2>3 DEF Shown
  <2>4. CASE Write
    BY <1>2, <2>1, <2>2, <2>4, WriteFollows DEF Diagram!Move, Shown
  <2>5. CASE Say \/ Arm \/ SpinAgain
    <3>1. tx' = tx
      BY <2>5 DEF Say, Arm, SpinAgain
    <3>2. QED
      BY <2>3, <3>1
  <2>6. CASE /\ ~tx.exists \/ created = 0
             /\ tx'.state = InitialState
    <3>1. tx.state = None
      BY <1>2, <2>6 DEF RecordInv, StateHasTtl, TypeOK
    <3>2. InitialState \in States /\ InitialState = Diagram!First
      <4>1. InitialState \in States
        BY Zenon DEF InitialState, States
      <4>2. InitialState = Diagram!First
        BY Zenon DEF InitialState, Diagram!First
      <4>3. QED
        BY <4>1, <4>2
    <3>3. Shown(tx'.state) = Diagram!First
      BY <2>6, <3>2 DEF Shown, States
    <3>4. QED
      BY <1>2, <2>1, <3>1, <3>3 DEF Diagram!Begin, Shown
  <2>7. ~Expire
    BY DEF Expire
  <2>8. QED
    BY <1>2, <2>3, <2>4, <2>5, <2>6, <2>7, StepEffect
<1>3. QED
  BY <1>1, <1>2, TypeCorrect, RecordInvariant, PTL
     DEF Spec, FollowsDiagram, Diagram!Spec

-----------------------------------------------------------------------------

Finals == {"act_200", "act_300", "act_200to699"}

\* As long as no response is stored over another and no run of spin() outlives
\* its record: a handler that waits for the lock finds its own message stored.
Unmixed ==
    IsClient /\ ~raced /\ ~lapsed =>
        /\ tx.state # None =>
             \A h \in Handlers : handler[h].at = "spin" => tx.response = handler[h].msg
        /\ turn.at = "say" /\ turn.what \in Finals => tx.response = turn.input

\* A run of spin() that has spoken has passed the final response up; only a
\* server fails to reply.
Spoken ==
    /\ ~raced /\ ~lapsed /\ turn.at \in {"arm", "write", "failed"} /\ turn.what \in Finals =>
         turn.input \in passed
    /\ turn.at \in {"failed", "again"} => ~IsClient

\* Before send() a client transaction has no handlers.
Unsent ==
    IsClient /\ created = 0 =>
        /\ tx = Gone /\ turn = Free
        /\ \A h \in Handlers : handler[h] = Idle

PassInv == FinalReachesTUAlone /\ Unmixed /\ Spoken /\ Unsent

\* Rows that end the waiting states are the clients' own, and take a response;
\* final replies are a server's.
LEMMA FinalRows ==
    ASSUME kind \in AllKinds, NEW r \in Machine
    PROVE  /\ r[4] \in Finals => IsClient /\ r[2] \in {"2xx", "3xx"}
           /\ r[4] = "reply_final" => ~IsClient
BY MachineOfKind DEF AllKinds, Finals, IsClient, InviteServer, NonInviteServer,
   InviteClient, NonInviteClient

\* passup: unless a response is stored over one that still waits to be passed
\* up, or the TTL runs out under a run of spin(), the final response reaches the
\* router, whatever timers, cancel, crashes and an earlier expiry do.
THEOREM FinalIsPassedUp == Spec => []FinalReachesTUAlone
<1> USE SipAssumption DEF PassInv
<1>1. Init => PassInv
  BY DEF Init, FinalReachesTUAlone, FinalReachesTU, Unmixed, Spoken, Unsent, Gone,
     Idle, Free
<1>2. ASSUME TypeOK, RecordInv, PassInv, [Next]_vars PROVE PassInv'
  <2>1. /\ kind' = kind /\ IsClient' = IsClient /\ kind \in AllKinds
    BY <1>2, KindIsFixed DEF IsClient, TypeOK
  <2>2. lapsed' = lapsed \/ (Expire /\ lapsed' = (lapsed \/ turn # Free))
    BY <1>2, KindIsFixed
  <2>3. None \notin States
    BY DEF States
  <2>4. CASE UNCHANGED <<tx, handler, turn, created, passed, final, raced, lapsed>>
    BY <1>2, <2>1, <2>4 DEF FinalReachesTUAlone, FinalReachesTU, Unmixed, Spoken, Unsent
  <2>5. CASE \E t \in Timers : FireTimer(t)
    <3>1. PICK t \in Timers : FireTimer(t)
      BY <2>5
    <3>2. /\ Read(t) /\ turn = Free
          /\ UNCHANGED <<tx, handler, created, passed, final, raced, lapsed>>
      BY <3>1 DEF FireTimer
    <3>3. turn' = Free \/ (turn'.at = "say" /\ turn'.what \notin Finals /\ tx.state # None)
      <4>1. CASE turn' # Free
        <5>1. PICK r \in Machine :
                /\ r[1] = tx.state /\ r[2] = t /\ tx.state \in States
                /\ turn' = [at |-> "say", input |-> t, what |-> r[4], next |-> r[3]]
          BY <1>2, <3>2, <4>1, ReadRow
        <5>2. r[4] \notin Finals
          BY <2>1, <5>1, FinalRows DEF Timers
        <5>3. QED
          BY <2>3, <5>1, <5>2
      <4>2. QED
        BY <4>1
    <3>4. Unsent'
      BY <1>2, <2>1, <3>2, <3>3 DEF Unsent, Gone
    <3>5. QED
      BY <1>2, <2>1, <3>2, <3>3, <3>4
         DEF FinalReachesTUAlone, FinalReachesTU, Unmixed, Spoken, Free
  <2>6. CASE \E h \in Handlers : SpinMessage(h)
    <3>1. PICK h \in Handlers : SpinMessage(h)
      BY <2>6
    <3>2. /\ Read(handler[h].msg) /\ turn = Free /\ handler[h].at = "spin"
          /\ handler' = [handler EXCEPT ![h] = Idle]
          /\ UNCHANGED <<tx, created, passed, final, raced, lapsed>>
      BY <3>1 DEF SpinMessage
    <3>3. \/ turn' = Free
          \/ turn'.at = "say" /\ turn'.input = handler[h].msg /\ tx.state # None
      BY <1>2, <2>3, <3>2, ReadRow
    <3>4. \A g \in Handlers : handler'[g].at = "spin" => handler'[g] = handler[g]
      BY <1>2, <3>2 DEF Idle, TypeOK, HandlersOK
    <3>5. Unmixed'
      BY <1>2, <2>1, <3>2, <3>3, <3>4 DEF Unmixed, Free
    <3>6. ~(IsClient /\ created = 0)
      BY <1>2, <3>2 DEF Unsent, Idle
    <3>7. QED
      BY <1>2, <2>1, <3>2, <3>3, <3>5, <3>6
         DEF FinalReachesTUAlone, FinalReachesTU, Spoken, Unsent, Free
  <2>7. CASE Say
    <3>1. /\ turn # Free /\ Busy /\ turn.at = "say"
          /\ UNCHANGED <<tx, handler, created, final, raced, lapsed>>
          /\ passed \subseteq passed'
      BY <2>7 DEF Say, Busy, Free
    <3>2. /\ turn'.at \in {"arm", "failed"}
          /\ turn'.what = turn.what /\ turn'.input = turn.input
      BY <1>2, <2>7, <3>1 DEF Say, TypeOK, TurnOK
    <3>3. Spoken'
      <4>1. turn'.at = "failed" => ~IsClient
        <5>1. turn'.at = "failed" => turn.what = "reply_final"
          BY <1>2, <2>7, <3>1 DEF Say, TypeOK, TurnOK
        <5>2. QED
          BY <1>2, <2>1, <3>1, <5>1, TurnIsTyped, FinalRows
      <4>2. SUFFICES ASSUME ~raced, ~lapsed, turn.what \in Finals
                     PROVE  turn.input \in passed'
        BY <2>1, <3>1, <3>2, <4>1 DEF Spoken
      <4>3. PICK r \in Machine : /\ r[1] = tx.state /\ r[2] = turn.input
                                 /\ r[4] = turn.what
        BY <1>2, <3>1, <4>2 DEF RecordInv, OnCourse
      <4>4. IsClient /\ turn.input \in {"2xx", "3xx"} /\ tx.state \in States
        BY <2>1, <4>2, <4>3, FinalRows, RowsAreTyped
      <4>5. tx.ttl
        BY <1>2, <2>3, <4>2, <4>4 DEF RecordInv, StateHasTtl
      <4>6. tx.response = turn.input
        BY <1>2, <3>1, <4>2, <4>4 DEF Unmixed
      <4>7. passed' = passed \cup ({tx.response} \ {None})
        BY <2>7, <4>2, <4>5 DEF Say, PassesUp, Finals
      <4>8. QED
        BY <4>4, <4>6, <4>7
    <3>4. FinalReachesTUAlone' /\ Unmixed' /\ Unsent'
      BY <1>2, <2>1, <3>1, <3>2
         DEF FinalReachesTUAlone, FinalReachesTU, Unmixed, Unsent
    <3>5. QED
      BY <3>3, <3>4
  <2>8. CASE Arm
    <3>1. /\ turn # Free /\ turn.at = "arm"
          /\ UNCHANGED <<tx, handler, created, passed, final, raced, lapsed>>
      BY <2>8 DEF Arm, Free
    <3>2. turn'.at = "write" /\ turn'.what = turn.what /\ turn'.input = turn.input
      BY <1>2, <2>8, <3>1 DEF Arm, TypeOK, TurnOK
    <3>3. QED
      BY <1>2, <2>1, <3>1, <3>2
         DEF FinalReachesTUAlone, FinalReachesTU, Unmixed, Spoken, Unsent
  <2>9. CASE Write
    <3>1. /\ turn # Free /\ Busy /\ turn.at \in {"write", "failed"}
          /\ UNCHANGED <<handler, created, passed, raced, lapsed>>
          /\ final' = IF turn.what \in Finals THEN turn.input ELSE final
      BY <2>9 DEF Write, Busy, Free, Finals
    <3>2. turn'.at \in {"free", "again"}
      BY <1>2, <2>9, <3>1 DEF Write, Free, TypeOK, TurnOK
    <3>3. FinalReachesTUAlone'
      BY <1>2, <3>1 DEF FinalReachesTUAlone, FinalReachesTU, Spoken
    <3>4. Unmixed'
      <4>1. ~lapsed => tx.state # None
        BY <1>2, <2>1, <2>3, <3>1, RowsAreTyped DEF RecordInv, OnCourse
      <4>2. tx'.state # None => tx'.response = tx.response
        BY <1>2, <2>9 DEF Write, Gone, TypeOK, RecordOK
      <4>3. QED
        BY <1>2, <2>1, <3>1, <3>2, <4>1, <4>2 DEF Unmixed
    <3>5. turn'.at = "again" => turn.at = "failed"
      BY <2>9 DEF Write, Free
    <3>6. Unsent' /\ Spoken'
      BY <1>2, <2>1, <3>1, <3>2, <3>5 DEF Unsent, Spoken
    <3>7. QED
      BY <3>3, <3>4, <3>6
  <2>10. CASE SpinAgain
    <3>1. /\ turn # Free /\ turn.at = "again" /\ Read(turn.input)
          /\ UNCHANGED <<tx, handler, created, passed, final, raced, lapsed>>
      BY <2>10 DEF SpinAgain, Free
    <3>2. ~IsClient
      BY <1>2, <3>1 DEF Spoken
    <3>3. turn'.at \in {"free", "say"}
      BY <3>1 DEF Read, Free
    <3>4. QED
      BY <1>2, <2>1, <3>1, <3>2, <3>3
         DEF Unsent, Unmixed, Spoken, FinalReachesTUAlone, FinalReachesTU
  <2>11. CASE SendRequest
    <3>1. /\ IsClient /\ created = 0 /\ created' = 1
          /\ UNCHANGED <<handler, turn, passed, final, raced, lapsed>>
      BY <2>11 DEF SendRequest
    <3>2. QED
      BY <1>2, <2>1, <3>1
         DEF Unsent, Unmixed, Spoken, Idle, Free, FinalReachesTUAlone, FinalReachesTU
  <2>12. CASE \E h \in Handlers : CreateServer(h)
    <3>1. ~IsClient /\ UNCHANGED <<turn, passed, final, raced, lapsed>>
      BY <1>2, <2>12 DEF CreateServer, TypeOK, HandlersOK
    <3>2. QED
      BY <1>2, <2>1, <3>1
         DEF Unsent, Unmixed, Spoken, FinalReachesTUAlone, FinalReachesTU
  <2>13. CASE \E h \in Handlers : StoreResponse(h)
    <3>1. PICK h \in Handlers : StoreResponse(h)
      BY <2>13
    <3>2. /\ handler[h].at = "store" /\ handler' = [handler EXCEPT ![h].at = "spin"]
          /\ tx' = [tx EXCEPT !.exists = TRUE, !.response = handler[h].msg]
          /\ UNCHANGED <<turn, created, passed, final, lapsed>>
      BY <3>1 DEF StoreResponse, Put
    <3>3. raced' = (raced \/ turn.at = "say"
                          \/ \E g \in Handlers \ {h} : handler[g].at = "spin")
      BY <3>1 DEF StoreResponse
    <3>4. ~raced' => /\ ~raced /\ turn.at # "say"
                     /\ \A g \in Handlers \ {h} : handler[g].at # "spin"
      BY <3>3, Zenon
    <3>5. \A g \in Handlers : g # h => handler'[g] = handler[g]
      BY <1>2, <3>2 DEF TypeOK, HandlersOK
    <3>6. handler'[h].msg = handler[h].msg /\ tx'.response = handler[h].msg
      BY <1>2, <3>2 DEF TypeOK, RecordOK, HandlersOK
    <3>7. Unmixed'
      BY <2>1, <3>2, <3>4, <3>5, <3>6 DEF Unmixed
    <3>8. ~(IsClient /\ created = 0)
      BY <1>2, <3>2 DEF Unsent, Idle
    <3>9. QED
      BY <1>2, <2>1, <3>2, <3>4, <3>7, <3>8
         DEF FinalReachesTUAlone, FinalReachesTU, Spoken, Unsent
  <2>14. CASE \E h \in Handlers :
               \/ Cancel(h) \/ StoreLast(h) \/ StartCancel(h) \/ Route(h)
               \/ \E r \in Responses : ReceiveResponse(h, r)
               \/ \E r \in Responses \cup {"100"} : Respond(h, r)
               \/ \E m \in {"Req", "Ack"} : ReceiveRequest(h, m)
    <3>1. PICK h \in Handlers :
               \/ Cancel(h) \/ StoreLast(h) \/ StartCancel(h) \/ Route(h)
               \/ \E r \in Responses : ReceiveResponse(h, r)
               \/ \E r \in Responses \cup {"100"} : Respond(h, r)
               \/ \E m \in {"Req", "Ack"} : ReceiveRequest(h, m)
      BY <2>14
    <3>2. UNCHANGED <<turn, passed, final, raced, lapsed>>
      BY <3>1 DEF Cancel, StoreLast, StartCancel, Route, ReceiveResponse, Respond,
         ReceiveRequest
    <3>3. Unmixed'
      <4>1. CASE Cancel(h)
        <5>1. tx'.state = tx.state /\ tx'.response = tx.response
              /\ handler' = [handler EXCEPT ![h] = Idle]
          BY <1>2, <4>1 DEF Cancel, Put, TypeOK, RecordOK
        <5>2. QED
          BY <1>2, <2>1, <3>2, <5>1 DEF Unmixed, Idle, TypeOK, HandlersOK
      <4>2. CASE \/ StoreLast(h)
                 \/ \E r \in Responses \cup {"100"} : Respond(h, r)
                 \/ \E m \in {"Req", "Ack"} : ReceiveRequest(h, m)
        BY <2>1, <4>2 DEF StoreLast, Respond, ReceiveRequest, Unmixed
      <4>3. CASE \/ StartCancel(h) \/ Route(h)
                 \/ \E r \in Responses : ReceiveResponse(h, r)
        BY <1>2, <2>1, <3>2, <4>3 DEF StartCancel, Route, ReceiveResponse, Unmixed,
           Idle, TypeOK, HandlersOK
      <4>4. QED
        BY <3>1, <4>1, <4>2, <4>3
    <3>4. Unsent'
      BY <1>2, <2>1, <3>1, <3>2 DEF Cancel, StoreLast, StartCancel, Route,
         ReceiveResponse, Respond, ReceiveRequest, Unsent, IsClient, Idle, Gone
    <3>5. QED
      BY <1>2, <2>1, <3>2, <3>3, <3>4 DEF FinalReachesTUAlone, FinalReachesTU, Spoken
  <2>15. CASE Expire
    <3>1. /\ tx' = Gone /\ UNCHANGED <<handler, turn, created, passed, final, raced>>
          /\ lapsed' = (lapsed \/ turn # Free)
      BY <2>15 DEF Expire
    <3>2. ~lapsed' => ~lapsed /\ turn = Free
      BY <3>1, Zenon
    <3>3. tx'.state = None
      BY <3>1 DEF Gone
    <3>4. Unsent' /\ FinalReachesTUAlone' /\ Spoken'
      BY <1>2, <2>1, <3>1, <3>2
         DEF Unsent, Spoken, FinalReachesTUAlone, FinalReachesTU
    <3>5. Unmixed'
      BY <3>1, <3>2, <3>3 DEF Unmixed, Free
    <3>6. QED
      BY <3>4, <3>5
  <2>16. CASE Crash
    BY <1>2, <2>1, <2>16 DEF Crash, Unmixed, Unsent, Spoken, Idle, Free,
       FinalReachesTUAlone, FinalReachesTU
  <2>17. QED
    BY <1>2, <2>4, <2>5, <2>6, <2>7, <2>8, <2>9, <2>10, <2>11, <2>12, <2>13, <2>14,
       <2>15, <2>16 DEF Next, vars
<1>3. PassInv => FinalReachesTUAlone
  OBVIOUS
<1>4. QED
  BY <1>1, <1>2, <1>3, TypeCorrect, RecordInvariant, PTL DEF Spec
=============================================================================
