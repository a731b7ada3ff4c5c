---------------------------- MODULE SipDiagram ----------------------------
(***************************************************************************)
(* The abstract transaction: the states and arrows of the four diagrams    *)
(* (RFC 3261 and RFC 6026) that sip/src/fsm.rs draws above its machines,   *)
(* without the messages.  A key whose transaction has terminated may be    *)
(* used again.                                                             *)
(***************************************************************************)
VARIABLES kind, state

First ==
    CASE kind = "InviteClient" -> "Calling"
      [] kind = "InviteServer" -> "Proceeding"
      [] OTHER -> "Trying"

Arrows ==
    CASE kind = "InviteClient" ->
        {<<"Calling", "Proceeding">>, <<"Calling", "Accepted">>,
         <<"Calling", "Completed">>, <<"Calling", "Terminated">>,
         <<"Proceeding", "Accepted">>, <<"Proceeding", "Completed">>,
         <<"Accepted", "Terminated">>, <<"Completed", "Terminated">>}
      [] kind = "InviteServer" ->
        {<<"Proceeding", "Accepted">>, <<"Proceeding", "Completed">>,
         <<"Completed", "Confirmed">>, <<"Completed", "Terminated">>,
         <<"Confirmed", "Terminated">>, <<"Accepted", "Terminated">>}
      [] kind = "NonInviteClient" ->
        {<<"Trying", "Proceeding">>, <<"Trying", "Completed">>,
         <<"Trying", "Terminated">>, <<"Proceeding", "Completed">>,
         <<"Proceeding", "Terminated">>, <<"Completed", "Terminated">>}
      [] kind = "NonInviteServer" ->
        {<<"Trying", "Proceeding">>, <<"Trying", "Completed">>,
         <<"Proceeding", "Completed">>, <<"Proceeding", "Terminated">>,
         <<"Completed", "Terminated">>}

Init ==
    /\ kind \in {"InviteClient", "InviteServer", "NonInviteClient", "NonInviteServer"}
    /\ state = "Terminated"

Begin == state = "Terminated" /\ state' = First

Move == <<state, state'>> \in Arrows

Spec == Init /\ [][(Begin \/ Move) /\ UNCHANGED kind]_<<kind, state>>
=============================================================================
