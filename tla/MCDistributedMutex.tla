------------------------ MODULE MCDistributedMutex ------------------------
(* Model values for DistributedMutex.                                     *)
EXTENDS DistributedMutex
CONSTANTS t1, t2

TwoTasks == {t1, t2}
=============================================================================
