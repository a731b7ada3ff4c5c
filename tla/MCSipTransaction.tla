------------------------- MODULE MCSipTransaction -------------------------
(* Model values for SipTransaction and the sets of machines its runs use. *)
EXTENDS SipTransaction, TLC
CONSTANTS h1, h2

TwoHandlers == {h1, h2}
Symmetry == Permutations(Handlers)

\* The machines that agree with their diagrams.
SoundKinds == {"InviteServer", "NonInviteClient"}
=============================================================================
