------------------------------ MODULE Bridge ------------------------------
(***************************************************************************)
(* A bridge of switchboard/src/bridge.rs: one caller rings several callee  *)
(* legs at once, the first that answers gets the call, the others are hung *)
(* up, and everybody is told how it ended.  The bridge is a Redis hash, a  *)
(* set of channels and an event stream.  Every handler below may run in a  *)
(* task, and in a process, of its own; what a handler reads and what it    *)
(* does about it later are steps of their own.                             *)
(*                                                                         *)
(* answer() and hangup() start with `self.mutex().lock().await`, which     *)
(* drops the mutex (and so unlocks it) at the end of that statement: the   *)
(* lock orders nothing that follows, and the model has none.               *)
(***************************************************************************)
EXTENDS Naturals, FiniteSets

CONSTANTS Legs,       \* outbound channels
          First,      \* those bridge_extensions rings at once
          BackupOf,   \* the leg a leg's backup_invite rings, or None
          Confirm,    \* legs that must press a key after they answer
          None

Results == {"Ok", "Noanswer", "Busy", "Unavailable"}

ASSUME BridgeAssumption ==
    /\ IsFiniteSet(Legs)
    /\ First \subseteq Legs
    /\ BackupOf \in [Legs -> Legs \cup {None}]
    /\ \A l \in Legs : BackupOf[l] # None => l \in First /\ BackupOf[l] \notin First
    /\ \A k, l \in Legs : k # l /\ BackupOf[k] # None => BackupOf[k] # BackupOf[l]
    /\ Confirm \subseteq Legs
    /\ None \notin Legs

VARIABLES ready,      \* the hash exists and names the inbound channel
          channels,   \* nebula:bridge:<id>:channels
          answer,     \* field answer_channel
          hungup,     \* field hangup
          results,    \* results in the BridgeHangup events of the stream
          leg,        \* the channel of each leg
          ending,     \* legs with a spawned Channel::hangup still to run
          answering,  \* what each leg's Bridge::answer does next
          hangups,    \* calls of Bridge::hangup(result) under way
          caller,     \* the inbound channel
          timer,      \* whether handle_timeout still waits
          waiter,     \* the process that called bridge_extensions
          checking,   \* whether a hangup_ack_check runs
          connected,  \* legs whose media is bridged with the caller's
          crossed     \* two handlers decided on a state the other changed

bridgeVars == <<ready, channels, answer, hungup, results>>
watchVars == <<timer, waiter, checking>>
vars == <<bridgeVars, leg, ending, answering, hangups, caller, watchVars,
          connected, crossed>>

\* Bridge::is_hangup: also true while the hash does not exist.
IsHangup == hungup \/ ~ready

\* A call of Bridge::hangup starts.
Call(result) == hangups' = hangups \cup {<<"check", result>>}

Init ==
    /\ ready = FALSE /\ channels = {} /\ answer = None /\ hungup = FALSE
    /\ results = {}
    /\ leg = [l \in Legs |-> "none"] /\ ending = {}
    /\ answering = [l \in Legs |-> "no"]
    /\ hangups = {}
    /\ caller = "up" /\ timer = FALSE /\ waiter = "dialling" /\ checking = FALSE
    /\ connected = {} /\ crossed = FALSE

-----------------------------------------------------------------------------
(***************************************************************************)
(* Channel::bridge_extensions, wait, handle_timeout                        *)
(***************************************************************************)

\* One SADD per location; its new_outbound is spawned.
AddLeg(l) ==
    /\ ~ready
    /\ l \in First /\ leg[l] = "none"
    /\ channels' = channels \cup {l}
    /\ leg' = [leg EXCEPT ![l] = "new"]
    /\ UNCHANGED <<ready, answer, hungup, results, ending, answering, hangups,
                   caller, watchVars, connected, crossed>>

\* new_outbound: the HMSET of the leg's context and the INVITE to its proxy.  It
\* does not ask whether the leg has been hung up since: such a leg rings on,
\* and nobody hangs it up again.  Who awaits a backup's new_outbound goes on.
StartLeg(l) ==
    /\ leg[l] \in {"new", "missed"}
    /\ leg' = [k \in Legs |->
                 IF k = l THEN IF leg[l] = "new" THEN "up" ELSE "stray"
                 ELSE IF leg[k] = "waits" /\ BackupOf[k] = l THEN "leave"
                 ELSE leg[k]]
    /\ UNCHANGED <<bridgeVars, ending, answering, hangups, caller, watchVars,
                   connected, crossed>>

\* set_inbound makes the hash; handle_timeout is spawned.
Ready ==
    /\ ~ready
    /\ \A l \in First : leg[l] # "none"
    /\ ready' = TRUE
    /\ timer' = TRUE
    /\ UNCHANGED <<channels, answer, hungup, results, leg, ending, answering,
                   hangups, caller, waiter, checking, connected, crossed>>

\* wait(): with no leg left it spawns a hangup of its own.
StartWait ==
    /\ ready
    /\ waiter = "dialling"
    /\ waiter' = "waiting"
    /\ IF channels = {} THEN Call("Unavailable") ELSE UNCHANGED hangups
    /\ UNCHANGED <<bridgeVars, leg, ending, answering, caller, timer, checking,
                   connected, crossed>>

\* wait() reads the first BridgeHangup and acknowledges it.
Hear ==
    /\ waiter = "waiting"
    /\ results # {}
    /\ waiter' = "acked"
    /\ UNCHANGED <<bridgeVars, leg, ending, answering, hangups, caller, timer,
                   checking, connected, crossed>>

\* The process that waits dies.
WaiterDies ==
    /\ waiter = "waiting"
    /\ waiter' = "dead"
    /\ UNCHANGED <<bridgeVars, leg, ending, answering, hangups, caller, timer,
                   checking, connected, crossed>>

\* Mutant: handle_timeout leaves at any event of the stream.
TimerFires_AnyEventStops ==
    /\ timer
    /\ \A l \in Legs : leg[l] # "gone"
    /\ timer' = FALSE
    /\ Call("Noanswer")
    /\ UNCHANGED <<bridgeVars, leg, ending, answering, caller, waiter, checking,
                   connected, crossed>>

\* The deadline, or a BridgeAnswer or BridgeHangup in the stream.  (A call
\* queue's cancel() differs from the deadline in its result only.)
TimerFires ==
    /\ timer
    /\ timer' = FALSE
    /\ IF connected = {} /\ results = {} THEN Call("Noanswer") ELSE UNCHANGED hangups
    /\ UNCHANGED <<bridgeVars, leg, ending, answering, caller, waiter, checking,
                   connected, crossed>>

-----------------------------------------------------------------------------
(***************************************************************************)
(* A leg answers: Channel::handle_answer, Bridge::answer                   *)
(***************************************************************************)

Step(l, at) == answering' = [answering EXCEPT ![l] = at]

\* A 200 may cross the CANCEL of a leg the server has hung up.
LegAnswers(l) ==
    /\ leg[l] \in {"up", "ended", "stray"}
    /\ answering[l] = "no"
    /\ Step(l, IF l \in Confirm THEN "confirm" ELSE "check")
    /\ UNCHANGED <<bridgeVars, leg, ending, hangups, caller, watchVars, connected,
                   crossed>>

PressKey(l) ==
    /\ answering[l] = "confirm"
    /\ Step(l, "check")
    /\ UNCHANGED <<bridgeVars, leg, ending, hangups, caller, watchVars, connected,
                   crossed>>

\* No key or the wrong one: Channel::hangup, of which the bridge hears nothing.
NoKey(l) ==
    /\ answering[l] = "confirm"
    /\ Step(l, "done")
    /\ leg' = IF leg[l] = "up" THEN [leg EXCEPT ![l] = "ended"] ELSE leg
    /\ ending' = ending \ {l}
    /\ UNCHANGED <<bridgeVars, hangups, caller, watchVars, connected, crossed>>

\* Mutant: the answered() check of answer() is missing.
CheckAnswer_HangupOnly(l) ==
    /\ answering[l] = "check"
    /\ Step(l, IF IsHangup THEN "done" ELSE "store")
    /\ UNCHANGED <<bridgeVars, leg, ending, hangups, caller, watchVars, connected,
                   crossed>>

CheckAnswer(l) ==
    /\ answering[l] = "check"
    /\ Step(l, IF IsHangup \/ answer # None THEN "done" ELSE "store")
    /\ UNCHANGED <<bridgeVars, leg, ending, hangups, caller, watchVars, connected,
                   crossed>>

\* Others that have read the bridge and not yet written it, or l itself
\* hanging up.
Deciding(l) ==
    \/ \E k \in Legs \ {l} : answering[k] = "store"
    \/ hangups # {}
    \/ leg[l] # "up"

StoreAnswer(l) ==
    /\ answering[l] = "store"
    /\ answer' = l
    /\ crossed' = (crossed \/ Deciding(l))
    /\ Step(l, "connect")
    /\ UNCHANGED <<ready, channels, hungup, results, leg, ending, hangups, caller,
                   watchVars, connected>>

\* Channels of ls leave the set, each with a spawned Channel::hangup.  That
\* one does nothing if the channel is hung up already.
Drain(ls) ==
    /\ channels' = channels \ ls
    /\ ending' = ending \cup {l \in channels \cap ls : leg[l] \in {"new", "up"}}

\* Mutant: the leg that answered is hung up with the others.
Connect_DrainsAll(l) ==
    /\ answering[l] = "connect"
    /\ Drain(Legs)
    /\ connected' = connected \cup {l}
    /\ Step(l, "done")
    /\ UNCHANGED <<ready, answer, hungup, results, leg, hangups, caller, watchVars,
                   crossed>>

\* The other channels go; BridgeAnswer goes to the stream; inbound.answer(),
\* stop_ringtone, bridge_media both ways.
Connect(l) ==
    /\ answering[l] = "connect"
    /\ Drain(Legs \ {l})
    /\ connected' = connected \cup {l}
    /\ Step(l, "done")
    /\ UNCHANGED <<ready, answer, hungup, results, leg, hangups, caller, watchVars,
                   crossed>>

-----------------------------------------------------------------------------
(***************************************************************************)
(* A channel hangs up: Channel::handle_hangup, Bridge::channel_hangup      *)
(***************************************************************************)

\* A leg fails or hangs up.  Unless the code forbids it (404, 486) and while
\* the bridge still rings, its backup is tried.  (A 302 is not modelled.)
LegHangs(l) ==
    /\ leg[l] = "up"
    /\ \E backup \in BOOLEAN :
         leg' = [leg EXCEPT ![l] =
                   IF backup /\ BackupOf[l] # None /\ answer = None /\ ~IsHangup
                   THEN "backup" ELSE "leave"]
    /\ ending' = ending \ {l}
    /\ UNCHANGED <<bridgeVars, answering, hangups, caller, watchVars, connected,
                   crossed>>

\* A leg the server took for hung up ends by itself: handle_hangup returns.
StrayHangs(l) ==
    /\ leg[l] = "stray"
    /\ leg' = [leg EXCEPT ![l] = "ended"]
    /\ UNCHANGED <<bridgeVars, ending, answering, hangups, caller, watchVars,
                   connected, crossed>>

\* SADD of the backup, whose new_outbound is awaited.
AddBackup(l) ==
    /\ leg[l] = "backup"
    /\ channels' = channels \cup {BackupOf[l]}
    /\ leg' = [leg EXCEPT ![l] = "waits", ![BackupOf[l]] = "new"]
    /\ crossed' = (crossed \/ hungup \/ answer # None)
    /\ UNCHANGED <<ready, answer, hungup, results, ending, answering, hangups,
                   caller, watchVars, connected>>

\* outbound_hangup: SREM.  Before set_inbound, get_inbound fails and the leg
\* stays in the set.
Leave(l) ==
    /\ leg[l] = "leave"
    /\ channels' = IF ready THEN channels \ {l} ELSE channels
    /\ leg' = [leg EXCEPT ![l] = IF ready THEN "decide" ELSE "gone"]
    /\ UNCHANGED <<ready, answer, hungup, results, ending, answering, hangups,
                   caller, watchVars, connected, crossed>>

\* Mutant: the last leg to leave does not hang up the bridge.
Decide_NotLast(l) ==
    /\ leg[l] = "decide"
    /\ leg' = [leg EXCEPT ![l] = "gone"]
    /\ IF answer = l THEN Call("Ok") ELSE UNCHANGED hangups
    /\ UNCHANGED <<bridgeVars, ending, answering, caller, watchVars, connected,
                   crossed>>

\* outbound_hangup: the leg that answered, or the last one, hangs the bridge up.
Decide(l) ==
    /\ leg[l] = "decide"
    /\ leg' = [leg EXCEPT ![l] = "gone"]
    /\ IF answer = l THEN Call("Ok")
       ELSE IF channels = {} THEN Call("Busy") ELSE UNCHANGED hangups
    /\ UNCHANGED <<bridgeVars, ending, answering, caller, watchVars, connected,
                   crossed>>

\* Before bridge_extensions stores bridge_id the caller has no bridge to tell.
CallerHangs ==
    /\ caller = "up"
    /\ caller' = IF ready THEN "leave" ELSE "gone"
    /\ UNCHANGED <<bridgeVars, leg, ending, answering, hangups, watchVars,
                   connected, crossed>>

\* Mutant: the caller's result does not depend on the answer.
CallerLeaves_AlwaysNoanswer ==
    /\ caller = "leave"
    /\ caller' = "gone"
    /\ Call("Noanswer")
    /\ UNCHANGED <<bridgeVars, leg, ending, answering, watchVars, connected, crossed>>

\* inbound_hangup
CallerLeaves ==
    /\ caller = "leave"
    /\ caller' = "gone"
    /\ Call(IF answer # None THEN "Ok" ELSE "Noanswer")
    /\ UNCHANGED <<bridgeVars, leg, ending, answering, watchVars, connected, crossed>>

-----------------------------------------------------------------------------
(***************************************************************************)
(* Bridge::hangup(result), whoever called it                               *)
(***************************************************************************)

\* Mutant: a result other than Ok ends an answered bridge too.
CheckHangup_AnyResult(result) ==
    /\ <<"check", result>> \in hangups
    /\ hangups' = (hangups \ {<<"check", result>>}) \cup
                  (IF IsHangup THEN {} ELSE {<<"end", result>>})
    /\ UNCHANGED <<bridgeVars, leg, ending, answering, caller, watchVars,
                   connected, crossed>>

\* It returns when the bridge is hung up, or answered and the result not Ok.
CheckHangup(result) ==
    /\ <<"check", result>> \in hangups
    /\ hangups' = (hangups \ {<<"check", result>>}) \cup
                  (IF IsHangup \/ (result # "Ok" /\ answer # None)
                   THEN {} ELSE {<<"end", result>>})
    /\ UNCHANGED <<bridgeVars, leg, ending, answering, caller, watchVars,
                   connected, crossed>>

\* Mutant: channels leave the set without being hung up.
End_Silent(result) ==
    /\ <<"end", result>> \in hangups
    /\ hangups' = hangups \ {<<"end", result>>}
    /\ hungup' = TRUE
    /\ channels' = {}
    /\ results' = results \cup {result}
    /\ checking' = TRUE
    /\ crossed' = (crossed \/ \E l \in Legs : answering[l] = "store")
    /\ UNCHANGED <<ready, answer, leg, ending, answering, caller, timer, waiter,
                   connected>>

\* Mutant: hangup_ack_check is not spawned.
End_NoCheck(result) ==
    /\ <<"end", result>> \in hangups
    /\ hangups' = hangups \ {<<"end", result>>}
    /\ hungup' = TRUE
    /\ Drain(Legs)
    /\ results' = results \cup {result}
    /\ crossed' = (crossed \/ \E l \in Legs : answering[l] = "store")
    /\ UNCHANGED <<ready, answer, leg, answering, caller, timer, waiter, checking,
                   connected>>

\* The field hangup is set, the channels are drained, BridgeHangup goes to the
\* stream and hangup_ack_check is spawned.  One step: no other handler acts
\* differently on what is half done.
End(result) ==
    /\ <<"end", result>> \in hangups
    /\ hangups' = hangups \ {<<"end", result>>}
    /\ hungup' = TRUE
    /\ Drain(Legs)
    /\ results' = results \cup {result}
    /\ checking' = TRUE
    /\ crossed' = (crossed \/ \E l \in Legs : answering[l] = "store")
    /\ UNCHANGED <<ready, answer, leg, answering, caller, timer, waiter, connected>>

\* hangup_ack_check: the ack, or 1 s without any event.
AckCheck ==
    /\ checking
    /\ checking' = FALSE
    /\ caller' = IF waiter = "acked" THEN caller ELSE "gone"
    /\ UNCHANGED <<bridgeVars, leg, ending, answering, hangups, timer, waiter,
                   connected, crossed>>

\* A spawned Channel::hangup, which does not tell the bridge.  The field hangup
\* is set; of a leg that is not started there is no context, or no dialog at
\* its proxy, and nothing else happens.
ServerHangs(l) ==
    /\ l \in ending
    /\ ending' = ending \ {l}
    /\ leg' = [leg EXCEPT ![l] = IF leg[l] = "new" THEN "missed" ELSE "ended"]
    /\ UNCHANGED <<bridgeVars, answering, hangups, caller, watchVars, connected,
                   crossed>>

-----------------------------------------------------------------------------

\* What runs without anybody's help.
Running ==
    \/ Ready \/ Hear \/ TimerFires \/ CallerLeaves \/ AckCheck
    \/ \E l \in Legs : \/ AddLeg(l) \/ StartLeg(l)
                       \/ AddBackup(l) \/ Leave(l) \/ Decide(l)
                       \/ PressKey(l) \/ NoKey(l) \/ CheckAnswer(l)
                       \/ StoreAnswer(l) \/ Connect(l) \/ ServerHangs(l)
    \/ \E result \in Results : CheckHangup(result) \/ End(result)

Next ==
    \/ Running
    \/ StartWait \/ WaiterDies \/ CallerHangs
    \/ \E l \in Legs : LegAnswers(l) \/ LegHangs(l) \/ StrayHangs(l)

Spec == Init /\ [][Next]_vars

\* Started tasks run on and timers fire; nobody has to answer or to hang up.
FairSpec == Spec /\ WF_vars(Running)
-----------------------------------------------------------------------------
(***************************************************************************)
(* Properties                                                              *)
(***************************************************************************)

\* Types; also, the server hangs up only channels that are not over.
TypeOK ==
    /\ ready \in BOOLEAN /\ hungup \in BOOLEAN /\ timer \in BOOLEAN
    /\ checking \in BOOLEAN /\ crossed \in BOOLEAN
    /\ channels \subseteq {l \in Legs : leg[l] # "none"}
    /\ ending \subseteq {l \in Legs : leg[l] \in {"new", "up"}}
    /\ connected \subseteq {l \in Legs : answering[l] = "done"}
    /\ answer \in Legs \cup {None}
    /\ results \subseteq Results
    /\ hangups \subseteq {"check", "end"} \X Results
    /\ leg \in [Legs -> {"none", "new", "up", "backup", "waits", "leave", "decide",
                         "gone", "ended", "missed", "stray"}]
    /\ answering \in [Legs -> {"no", "confirm", "check", "store", "connect", "done"}]
    /\ caller \in {"up", "leave", "gone"}
    /\ waiter \in {"dialling", "waiting", "acked", "dead"}

\* Bridge::answer: a second answer is refused ("bridge already answered"), so
\* the caller's media is never bridged with two callees.
OneCallee == Cardinality(connected) <= 1

\* The same as long as no two handlers cross.
OneCalleeUncrossed == ~crossed => connected \subseteq {answer}

\* Bridge::hangup: uncrossed, an answered bridge ends as Ok only, and one that
\* nobody answered never does.
ResultMatchesAnswer ==
    ~crossed => \A result \in results : (result = "Ok") <=> (answer # None)

\* Bridge::answer hangs up everybody but the leg that answered: uncrossed, the
\* server hangs up that leg only after the bridge.
CalleeStays ==
    ~crossed /\ answer # None /\ ~hungup =>
        answer \notin ending /\ leg[answer] \notin {"ended", "missed", "stray"}

\* No handler of a leg or of the bridge is under way.
Quiet ==
    /\ hangups = {}
    /\ \A l \in Legs : /\ leg[l] \notin {"backup", "waits", "leave", "decide"}
                       /\ answering[l] \in {"no", "done"}

\* outbound_hangup: legs that hang up at once never all overlook that the set
\* is empty; when the dust has settled the bridge is hung up too.
LastLegEndsBridge ==
    Quiet /\ waiter # "dialling" /\ channels = {} /\ ~crossed => hungup

\* inbound_hangup: a caller that leaves takes the bridge along, unless an
\* answer crosses its hangup.
CallerEndsBridge == caller = "leave" ~> hungup \/ crossed

\* handle_timeout: ringing ends.
RingingEnds == ready ~> answer # None \/ hungup

\* Bridge::hangup: every leg is hung up in the end, backups included, unless
\* it is added as the bridge ends, or its Channel::hangup ran before its
\* new_outbound: that one rings on.
LegsEnd ==
    hungup ~> crossed \/ \A l \in Legs : leg[l] \in {"none", "gone", "ended", "stray"}

\* hangup_ack_check: the end is heard in wait(), or the caller is hung up even
\* though the process that waited for it has died.
EndIsHeard == hungup ~> waiter = "acked" \/ caller = "gone"
=============================================================================
