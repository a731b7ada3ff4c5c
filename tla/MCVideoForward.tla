--------------------------- MODULE MCVideoForward ---------------------------
EXTENDS VideoForward
CONSTANTS low, high

\* The numbers of one layer wrap between two frames, those of the other
\* inside the second, which is a key frame.
TwoLayers == {low, high}
AtTheWrap == [l \in TwoLayers |-> IF l = low THEN W - 1 ELSE W - 2]
TwoFrames == <<1, 2, 2>>
=============================================================================
