-------------------------- MODULE SipTransaction --------------------------
(***************************************************************************)
(* One SIP transaction of sip/src/transaction.rs, driven by the state      *)
(* machines of sip/src/fsm.rs.  The transaction lives in a Redis hash with *)
(* a TTL of 600 s; any process of the cluster may work on it.  spin() runs *)
(* under the transaction's DistributedMutex, one run at a time, but what   *)
(* it reads and writes in Redis are steps of their own: the lock keeps     *)
(* other runs out, not the TTL, nor what the code does outside the lock    *)
(* (the existence check of get_tx, the HSET of the message,                *)
(* Transaction::new).  Handlers of several messages interleave between     *)
(* those steps as the tasks TransactionManager spawns per message do.      *)
(*                                                                         *)
(* Messages are reduced to the class the machines look at.  A timer is the *)
(* number of sleeping tasks register_timer has spawned for its input; they *)
(* may fire in any order.                                                  *)
(***************************************************************************)
EXTENDS Naturals, FiniteSets

CONSTANTS Kinds,       \* which of the four machines a behaviour may run
          Udp,         \* whether the remote address is reached over UDP
          Handlers,    \* the tasks that may be handling a message at a time
          None,
          MaxCreated,  \* bound: how many times the key's record is created
          MaxCrash,    \* bound: how many times the processes crash
          MaxArmed,    \* bound: no new response of the TU and no new cancel
                       \* while this many tasks sleep before one timer
          Expiry       \* whether the 600 s may run out

AllKinds == {"InviteClient", "InviteServer", "NonInviteClient", "NonInviteServer"}

ASSUME SipAssumption ==
    /\ IsFiniteSet(Handlers)
    /\ Kinds \subseteq AllKinds
    /\ Udp \in BOOLEAN
    /\ None \notin {"Trying", "Calling", "Proceeding", "Accepted", "Completed",
                    "Confirmed", "Terminated", "req", "cancel", "100", "1xx", "2xx",
                    "3xx"}
    /\ MaxCreated \in Nat
    /\ MaxCrash \in Nat
    /\ MaxArmed \in Nat \ {0}
    /\ Expiry \in BOOLEAN

States == {"Trying", "Calling", "Proceeding", "Accepted", "Completed", "Confirmed"}
Timers == {"A", "B", "D", "M", "Cancel", "E", "F", "K", "J", "G", "H", "I", "L"}
Responses == {"1xx", "2xx", "3xx"}
Messages == Responses \cup {"100", "Req", "Ack"}

VARIABLES kind,        \* method and side of the transaction: fixed by its key
          tx,          \* the Redis hash of the transaction
          armed,       \* how many tasks sleep before each timer input
          handler,     \* what each message handler does next, on which message
          turn,        \* the run of spin() that has the lock
          created,     \* how many times Transaction::new succeeded
          routed,      \* how many requests went to the router (server)
          passed,      \* responses passed up to the router (client)
          final,       \* the response that ended the waiting states (client)
          raced,       \* a response was stored over one not yet spun (client)
          lapsed,      \* the TTL ran out under a run of spin()
          crashes

vars == <<kind, tx, armed, handler, turn, created, routed, passed, final, raced,
          lapsed, crashes>>

IsClient == kind \in {"InviteClient", "NonInviteClient"}

Gone == [exists |-> FALSE, ttl |-> FALSE, state |-> None,
         request |-> None, response |-> None, last |-> None]

Idle == [at |-> "idle", msg |-> None]

\* Nobody has the transaction's lock.
Free == [at |-> "free", input |-> None, what |-> "none", next |-> None]

Init ==
    /\ kind \in Kinds
    /\ tx = Gone
    /\ armed = [t \in Timers |-> 0]
    /\ handler = [h \in Handlers |-> Idle]
    /\ turn = Free
    /\ created = 0
    /\ routed = 0
    /\ passed = {}
    /\ final = None
    /\ raced = FALSE
    /\ lapsed = FALSE
    /\ crashes = 0

-----------------------------------------------------------------------------
(***************************************************************************)
(* The four machines: <<state, input, next state, what is done>>.  An      *)
(* input without a row is FsmError::InvalidInput and changes nothing.      *)
(***************************************************************************)

InviteClient ==
    {<<"Calling", "1xx", "Proceeding", "passup">>,
     <<"Calling", "2xx", "Accepted", "act_200">>,
     <<"Calling", "3xx", "Completed", "act_300">>,
     <<"Calling", "A", "Calling", "resend">>,
     <<"Calling", "B", "Terminated", "none">>,
     <<"Calling", "Cancel", "Calling", "wait_cancel">>,
     <<"Calling", "TransportError", "Terminated", "none">>,
     <<"Proceeding", "1xx", "Proceeding", "passup">>,
     <<"Proceeding", "2xx", "Accepted", "act_200">>,
     <<"Proceeding", "3xx", "Completed", "act_300">>,
     <<"Proceeding", "Cancel", "Proceeding", "resend_cancel">>,
     <<"Accepted", "2xx", "Accepted", "passup">>,
     <<"Accepted", "M", "Terminated", "none">>,
     <<"Completed", "3xx", "Accepted", "ack">>,
     <<"Completed", "D", "Terminated", "none">>,
     <<"Completed", "TransportError", "Terminated", "none">>}

InviteServer ==
    {<<"Proceeding", "Req", "Proceeding", "respond">>,
     <<"Proceeding", "1xx", "Proceeding", "respond">>,
     <<"Proceeding", "TransportError", "Proceeding", "none">>,
     <<"Proceeding", "2xx", "Accepted", "server_act_200">>,
     <<"Proceeding", "3xx", "Completed", "server_act_300">>,
     <<"Completed", "Req", "Completed", "respond">>,
     <<"Completed", "G", "Completed", "respond">>,
     <<"Completed", "TransportError", "Completed", "none">>,
     <<"Completed", "Ack", "Confirmed", "server_ack">>,
     <<"Completed", "H", "Terminated", "none">>,
     <<"Accepted", "Req", "Accepted", "none">>,
     <<"Accepted", "2xx", "Accepted", "respond">>,
     <<"Accepted", "Ack", "Accepted", "none">>,
     <<"Accepted", "TransportError", "Accepted", "none">>,
     <<"Accepted", "L", "Terminated", "none">>,
     <<"Confirmed", "I", "Terminated", "none">>}

NonInviteClient ==
    {<<"Trying", "E", "Trying", "resend">>,
     <<"Trying", "1xx", "Proceeding", "passup">>,
     <<"Trying", "2xx", "Completed", "act_200to699">>,
     <<"Trying", "3xx", "Completed", "act_200to699">>,
     <<"Trying", "F", "Terminated", "none">>,
     <<"Trying", "TransportError", "Terminated", "none">>,
     <<"Proceeding", "E", "Proceeding", "resend">>,
     <<"Proceeding", "1xx", "Proceeding", "passup">>,
     <<"Proceeding", "2xx", "Completed", "act_200to699">>,
     <<"Proceeding", "3xx", "Completed", "act_200to699">>,
     <<"Proceeding", "F", "Terminated", "none">>,
     <<"Proceeding", "TransportError", "Terminated", "none">>,
     <<"Completed", "K", "Terminated", "none">>}

NonInviteServer ==
    {<<"Trying", "1xx", "Proceeding", "respond">>,
     <<"Trying", "2xx", "Completed", "reply_final">>,
     <<"Trying", "3xx", "Completed", "reply_final">>,
     <<"Proceeding", "Req", "Proceeding", "respond">>,
     <<"Proceeding", "1xx", "Proceeding", "respond">>,
     <<"Proceeding", "2xx", "Completed", "reply_final">>,
     <<"Proceeding", "3xx", "Completed", "reply_final">>,
     <<"Proceeding", "TransportError", "Terminated", "none">>,
     <<"Completed", "Req", "Proceeding", "respond">>,
     <<"Completed", "TransportError", "Terminated", "none">>,
     <<"Completed", "J", "Terminated", "none">>}

Machine ==
    CASE kind = "InviteClient" -> InviteClient
      [] kind = "InviteServer" -> InviteServer
      [] kind = "NonInviteClient" -> NonInviteClient
      [] kind = "NonInviteServer" -> NonInviteServer

\* Mutant: the machine acts whatever state it reads.
Rows_AnyState(state, input) == {r \in Machine : r[2] = input}

Rows(state, input) == {r \in Machine : r[1] = state /\ r[2] = input}

InitialState ==
    CASE kind = "InviteClient" -> "Calling"
      [] kind = "InviteServer" -> "Proceeding"
      [] OTHER -> "Trying"

\* Timers a step of the machine starts (register_timer).
Starts(what) ==
    CASE what = "resend" -> IF kind = "InviteClient" THEN {"A"} ELSE {"E"}
      [] what \in {"wait_cancel", "resend_cancel"} -> {"Cancel"}
      [] what = "act_200" -> {"M"}
      [] what = "act_300" -> {"D"}
      [] what = "act_200to699" -> {"K"}
      [] what = "server_act_200" -> {"L"}
      [] what = "server_act_300" -> IF Udp THEN {"G", "H"} ELSE {"H"}
      [] what = "server_ack" -> {"I"}
      [] what = "reply_final" -> {"J"}
      [] OTHER -> {}

\* Mutant: failures of an INVITE are not passed up.
PassesUp_NoFailures == {"passup", "act_200", "act_200to699"}

PassesUp == {"passup", "act_200", "act_300", "act_200to699"}

\* Timers Transaction::new starts for a client transaction.
FirstTimers ==
    CASE kind = "InviteClient" -> IF Udp THEN {"A", "B"} ELSE {"B"}
      [] kind = "NonInviteClient" -> IF Udp THEN {"E", "F"} ELSE {"F"}
      [] OTHER -> {}

\* Mutant: one sleeping task per transaction, replaced by register_timer.
Start_OneSlot(base, timers) == [t \in Timers |-> IF t \in timers THEN 1 ELSE 0]

Start(base, timers) == [t \in Timers |-> IF t \in timers THEN base[t] + 1 ELSE base[t]]

\* The timers that are started only if get_remote_uri finds the address that
\* Transaction::new wrote.  No HSET writes it, so it is there with the TTL.
Addressed == {"D", "G", "I", "J", "K"}

\* spin(): the state is read under the lock.  A missing record, or an input the
\* state has no row for, ends the run.
Read(input) ==
    IF Rows(tx.state, input) = {}
    THEN turn' = Free
    ELSE \E r \in Rows(tx.state, input) :
           turn' = [at |-> "say", input |-> input, what |-> r[4], next |-> r[3]]

\* A sleeping task wakes up and gets the lock.
FireTimer(t) ==
    /\ armed[t] > 0
    /\ turn = Free
    /\ armed' = [armed EXCEPT ![t] = @ - 1]
    /\ Read(t)
    /\ UNCHANGED <<kind, tx, handler, created, routed, passed, final, raced, lapsed,
                   crashes>>

\* Handler h gets the lock to spin with the message it holds; its task is the
\* run from here on.
SpinMessage(h) ==
    /\ handler[h].at = "spin"
    /\ turn = Free
    /\ Read(handler[h].msg)
    /\ handler' = [handler EXCEPT ![h] = Idle]
    /\ UNCHANGED <<kind, tx, armed, created, routed, passed, final, raced, lapsed,
                   crashes>>

\* passup sends the response stored under the key, if it and the address are
\* still there, and ignores it if they are not.  Replies go to the wire; only
\* the final reply of a non-INVITE server looks at a failure, and then starts
\* no timer.
Say ==
    /\ turn.at = "say"
    /\ passed' = IF turn.what \in PassesUp /\ tx.ttl
                 THEN passed \cup ({tx.response} \ {None})
                 ELSE passed
    /\ \E delivered \in BOOLEAN :
         /\ IF turn.what = "reply_final" THEN delivered => tx.ttl /\ tx.last # None
                                         ELSE delivered
         /\ turn' = [turn EXCEPT !.at = IF delivered THEN "arm" ELSE "failed"]
    /\ UNCHANGED <<kind, tx, armed, handler, created, routed, final, raced, lapsed,
                   crashes>>

\* The timers of the row are started.
Arm ==
    /\ turn.at = "arm"
    /\ armed' = Start(armed, Starts(turn.what) \ (IF tx.ttl THEN {} ELSE Addressed))
    /\ turn' = [turn EXCEPT !.at = "write"]
    /\ UNCHANGED <<kind, tx, handler, created, routed, passed, final, raced, lapsed,
                   crashes>>

\* set_state (a plain HSET) or delete; the lock is released, except that after
\* a final reply that could not be sent the loop turns once more with the
\* input spin() was called with (the TransportError produced is shadowed).
Write ==
    /\ turn.at \in {"write", "failed"}
    /\ tx' = IF turn.next = "Terminated" THEN Gone
             ELSE [tx EXCEPT !.exists = TRUE, !.state = turn.next]
    /\ final' = IF turn.what \in {"act_200", "act_300", "act_200to699"}
                THEN turn.input ELSE final
    /\ turn' = IF turn.at = "failed" THEN [turn EXCEPT !.at = "again"] ELSE Free
    /\ UNCHANGED <<kind, armed, handler, created, routed, passed, raced, lapsed, crashes>>

SpinAgain ==
    /\ turn.at = "again"
    /\ Read(turn.input)
    /\ UNCHANGED <<kind, tx, armed, handler, created, routed, passed, final, raced,
                   lapsed, crashes>>

\* HSET on the record's key; it recreates a deleted record without state and
\* without TTL.
Put(field, value) == tx' = [tx EXCEPT !.exists = TRUE, ![field] = value]

-----------------------------------------------------------------------------
(***************************************************************************)
(* Client: TransactionManager::send, then one handler per response.        *)
(***************************************************************************)

\* send(): Transaction::new, set_request, transport.send.  The branch is fresh,
\* so the key is created once.  The three awaits are one step: nothing is sent
\* to the key before the last of them, and the first timer is 500 ms away.
SendRequest ==
    /\ IsClient
    /\ created = 0
    /\ created' = 1
    /\ tx' = [Gone EXCEPT !.exists = TRUE, !.ttl = TRUE, !.state = InitialState,
                          !.request = "req"]
    /\ armed' = Start(armed, FirstTimers)
    /\ UNCHANGED <<kind, handler, turn, routed, passed, final, raced, lapsed, crashes>>

\* handle_msg: get_tx finds the key.
ReceiveResponse(h, r) ==
    /\ IsClient
    /\ handler[h] = Idle
    /\ tx.exists
    /\ handler' = [handler EXCEPT ![h] = [at |-> "store", msg |-> r]]
    /\ UNCHANGED <<kind, tx, armed, turn, created, routed, passed, final, raced, lapsed,
                   crashes>>

\* receive: set_response, outside the transaction's lock.
StoreResponse(h) ==
    /\ IsClient
    /\ handler[h].at = "store"
    /\ Put("response", handler[h].msg)
    /\ raced' = (raced \/ turn.at = "say" \/ \E g \in Handlers \ {h} : handler[g].at = "spin")
    /\ handler' = [handler EXCEPT ![h].at = "spin"]
    /\ UNCHANGED <<kind, armed, turn, created, routed, passed, final, lapsed, crashes>>

\* cancel(): get_tx, get_request and get_remote_uri succeed.
StartCancel(h) ==
    /\ kind = "InviteClient"
    /\ handler[h] = Idle
    /\ armed["Cancel"] < MaxArmed
    /\ tx.request # None /\ tx.ttl
    /\ handler' = [handler EXCEPT ![h] = [at |-> "cancel", msg |-> None]]
    /\ UNCHANGED <<kind, tx, armed, turn, created, routed, passed, final, raced, lapsed,
                   crashes>>

\* cancel(): TimerCancel, then set_request replaces the INVITE by the CANCEL.
Cancel(h) ==
    /\ handler[h].at = "cancel"
    /\ armed' = Start(armed, {"Cancel"})
    /\ Put("request", "cancel")
    /\ handler' = [handler EXCEPT ![h] = Idle]
    /\ UNCHANGED <<kind, turn, created, routed, passed, final, raced, lapsed, crashes>>

-----------------------------------------------------------------------------
(***************************************************************************)
(* Server: one handler per request, and the responses of the TU.           *)
(***************************************************************************)

\* handle_msg: a (retransmitted) request, or the ACK of an INVITE whose branch
\* it shares.  get_tx decides between spinning and a new transaction.
ReceiveRequest(h, m) ==
    /\ ~IsClient
    /\ m = "Ack" => kind = "InviteServer"
    /\ handler[h] = Idle
    /\ handler' = [handler EXCEPT ![h] =
                     [at |-> IF tx.exists THEN "spin" ELSE "create", msg |-> m]]
    /\ UNCHANGED <<kind, tx, armed, turn, created, routed, passed, final, raced, lapsed,
                   crashes>>

\* Mutant: HMSET without NX.
CreateServer_NoNX(h) ==
    /\ handler[h].at = "create"
    /\ created < MaxCreated
    /\ created' = IF tx.exists THEN created ELSE created + 1
    /\ tx' = [Gone EXCEPT !.exists = TRUE, !.ttl = TRUE, !.state = InitialState]
    /\ handler' = [handler EXCEPT ![h].at = "route"]
    /\ UNCHANGED <<kind, armed, turn, routed, passed, final, raced, lapsed, crashes>>

\* Transaction::new: hmset_nx_ex fails (TransactionExist) if another handler or
\* a late HSET made the key in the meantime; the request is then dropped.
CreateServer(h) ==
    /\ handler[h].at = "create"
    /\ IF tx.exists
       THEN /\ handler' = [handler EXCEPT ![h] = Idle]
            /\ UNCHANGED <<tx, created>>
       ELSE /\ created < MaxCreated
            /\ created' = created + 1
            /\ tx' = [Gone EXCEPT !.exists = TRUE, !.ttl = TRUE,
                                  !.state = InitialState]
            /\ handler' = [handler EXCEPT ![h].at = "route"]
    /\ UNCHANGED <<kind, armed, turn, routed, passed, final, raced, lapsed, crashes>>

\* handle_msg: the request goes to the router.
Route(h) ==
    /\ handler[h].at = "route"
    /\ routed' = routed + 1
    /\ handler' = [handler EXCEPT ![h] = Idle]
    /\ UNCHANGED <<kind, tx, armed, turn, created, passed, final, raced, lapsed, crashes>>

\* TransactionManager::respond: get_tx and get_remote_uri find a live record.
Respond(h, r) ==
    /\ ~IsClient
    /\ routed > 0
    /\ \A t \in Timers : armed[t] < MaxArmed
    /\ handler[h] = Idle
    /\ tx.ttl
    /\ handler' = [handler EXCEPT ![h] = [at |-> "store", msg |-> r]]
    /\ UNCHANGED <<kind, tx, armed, turn, created, routed, passed, final, raced, lapsed,
                   crashes>>

\* Transaction::respond: set_last_response, outside the transaction's lock; a
\* 100 goes no further (it was sent when the request arrived).
StoreLast(h) ==
    /\ ~IsClient
    /\ handler[h].at = "store"
    /\ Put("last", handler[h].msg)
    /\ handler' = [handler EXCEPT ![h] = IF @.msg = "100" THEN Idle
                                         ELSE [@ EXCEPT !.at = "spin"]]
    /\ UNCHANGED <<kind, armed, turn, created, routed, passed, final, raced, lapsed, crashes>>

-----------------------------------------------------------------------------

\* Redis drops the record 600 s after it was created, whoever has its lock.
Expire ==
    /\ Expiry
    /\ tx.exists /\ tx.ttl
    /\ tx' = Gone
    /\ lapsed' = (lapsed \/ turn # Free)
    /\ UNCHANGED <<kind, armed, handler, turn, created, routed, passed, final, raced,
                   crashes>>

\* The processes die with their handlers and sleeping timers; Redis survives
\* and lets the lock of a dead run expire.
Crash ==
    /\ crashes < MaxCrash
    /\ crashes' = crashes + 1
    /\ armed' = [t \in Timers |-> 0]
    /\ handler' = [h \in Handlers |-> Idle]
    /\ turn' = Free
    /\ UNCHANGED <<kind, tx, created, routed, passed, final, raced, lapsed>>

Next ==
    \/ SendRequest
    \/ Expire
    \/ Crash
    \/ \E t \in Timers : FireTimer(t)
    \/ Say \/ Arm \/ Write \/ SpinAgain
    \/ \E h \in Handlers :
         \/ SpinMessage(h) \/ StoreResponse(h) \/ StartCancel(h) \/ Cancel(h)
         \/ CreateServer(h) \/ Route(h) \/ StoreLast(h)
         \/ \E r \in Responses : ReceiveResponse(h, r)
         \/ \E r \in Responses \cup {"100"} : Respond(h, r)
         \/ \E m \in {"Req", "Ack"} : ReceiveRequest(h, m)

Spec == Init /\ [][Next]_vars

\* The timers that end the transactions of the machines FairSpec is used for,
\* the INVITE server and the non-INVITE client.
EndTimers == {"F", "H", "I", "K", "L"}

\* Sleeping tasks wake up: tokio's timers do not get lost while the process
\* lives, and their lock() returns however often others take the lock
\* (DistributedMutex: LockReturns).  A run of spin() goes on.  No message has
\* to arrive.
FairSpec ==
    /\ Spec
    /\ \A t \in EndTimers : SF_vars(FireTimer(t))
    /\ WF_vars(Say \/ Arm \/ Write \/ SpinAgain)
-----------------------------------------------------------------------------
(***************************************************************************)
(* Properties                                                              *)
(***************************************************************************)

RecordOK ==
    tx \in [exists : BOOLEAN, ttl : BOOLEAN, state : States \cup {None},
            request : {"req", "cancel", None},
            response : Responses \cup {None},
            last : Responses \cup {"100", None}]

\* A handler that is about to store a response holds one; the 100 and new
\* transactions are the server's only.
HandlersOK ==
    /\ handler \in [Handlers ->
                      [at : {"idle", "store", "spin", "cancel", "create", "route"},
                       msg : Messages \cup {None}]]
    /\ \A h \in Handlers :
         /\ handler[h].at = "store" => /\ handler[h].msg \in Responses \cup {"100"}
                                       /\ IsClient => handler[h].msg # "100"
         /\ handler[h].at = "create" => ~IsClient

\* A run of spin() carries out a row of the machine, from whatever state.
TurnOK ==
    \/ turn = Free
    \/ \E r \in Machine :
         turn \in [at : {"say", "arm", "write", "failed", "again"},
                  input : {r[2]}, what : {r[4]}, next : {r[3]}]

TypeOK ==
    /\ kind \in Kinds
    /\ RecordOK
    /\ armed \in [Timers -> Nat]
    /\ HandlersOK
    /\ TurnOK
    /\ created \in Nat
    /\ routed \in Nat
    /\ passed \subseteq Responses
    /\ final \in {"2xx", "3xx", None}
    /\ raced \in BOOLEAN
    /\ lapsed \in BOOLEAN
    /\ crashes \in Nat

\* Transaction::set_state writes with a plain HSET: a record that has a state is
\* still one Transaction::new made, and carries its TTL, unless the TTL ran out
\* between the HGET and the HSET of one run of spin().  Whatever else is late,
\* only a leftover without state can stay forever.
StateHasTtl == ~lapsed => (tx.state # None => tx.exists /\ tx.ttl)

\* Handlers that made the record and have not sent the request on yet.
Routing == {h \in Handlers : handler[h].at = "route"}

\* handle_msg: two handlers that both miss the key, or a retransmission, hand
\* the router at most one request per record (hmset_nx_ex).
RoutedOnce == routed + Cardinality(Routing) <= created

\* The timer whose firing ends the transaction in a state; None where the code
\* waits for a message (or for the TTL).
LastTimer(state) ==
    CASE kind = "InviteClient" /\ state = "Calling" -> "B"
      [] kind = "InviteClient" /\ state = "Accepted" -> "M"
      [] kind = "InviteClient" /\ state = "Completed" -> "D"
      [] kind = "InviteServer" /\ state = "Accepted" -> "L"
      [] kind = "InviteServer" /\ state = "Completed" -> "H"
      [] kind = "InviteServer" /\ state = "Confirmed" -> "I"
      [] kind = "NonInviteClient" /\ state \in {"Trying", "Proceeding"} -> "F"
      [] kind = "NonInviteClient" /\ state = "Completed" -> "K"
      [] kind = "NonInviteServer" /\ state = "Completed" -> "J"
      [] OTHER -> None

\* fsm.rs: while the processes live, a transaction in a state that only a timer
\* ends has that timer asleep or is about to be deleted; retransmissions, racing
\* handlers and the timers of an earlier transaction on the same key never take
\* it away.  Only a run of spin() that outlives its record (get_remote_uri then
\* fails) leaves a state without its timer.
EndIsArmed ==
    crashes = 0 /\ ~lapsed /\ LastTimer(tx.state) # None =>
        armed[LastTimer(tx.state)] > 0 \/ turn.next = "Terminated"

\* passup: the final response that ended the waiting states reached the router.
FinalReachesTU == final # None => final \in passed

\* receive: as long as no response is stored over another that still waits to be
\* passed up, and the TTL does not run out under a run of spin() (whose passup
\* then fails unnoticed while the state moves on), timers, cancel and crashes
\* never lose the final response.
FinalReachesTUAlone == ~raced /\ ~lapsed => FinalReachesTU

\* A transaction in a state that only a timer ends comes to its end.
EventuallyEnds == LastTimer(tx.state) # None ~> LastTimer(tx.state) = None

\* The diagrams drawn in the comments of fsm.rs; a record that does not exist
\* (or a leftover without state) is a terminated transaction.
Diagram == INSTANCE SipDiagram
             WITH state <- IF tx.state = None THEN "Terminated" ELSE tx.state,
                  kind <- kind

FollowsDiagram == Diagram!Spec
=============================================================================
