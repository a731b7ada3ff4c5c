----------------------------- MODULE MCBridge -----------------------------
(* Two legs that ring at once, or one with a backup, for Bridge. *)
EXTENDS Bridge
CONSTANTS a, b

TwoLegs == {a, b}
OnlyA == {a}
BBacksA == [l \in TwoLegs |-> IF l = a THEN b ELSE None]
NoBackup == [l \in TwoLegs |-> None]
BConfirms == {b}
=============================================================================
