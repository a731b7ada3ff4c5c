------------------------------- MODULE MCRoom -------------------------------
(* A small instance of Room: a web client and a SIP call.                  *)
EXTENDS Room

CONSTANTS a, s
Pair == {a, s}
JustA == {a}
=============================================================================
