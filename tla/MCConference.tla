---------------------------- MODULE MCConference ----------------------------
(* A small instance of Conference: one chairman among the parties.         *)
EXTENDS Conference

CONSTANTS a, b, ch
Three == {a, b, ch}
Two == {a, ch}
OneChair == {ch}
=============================================================================
