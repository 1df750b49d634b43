------------------------------ MODULE MCQueue ------------------------------
(***************************************************************************)
(* TLC instance of RTOSQueue: the first task has a higher priority.        *)
(***************************************************************************)
EXTENDS RTOSQueue

CONSTANT First

Ranked == [t \in Tasks |-> IF t = First THEN 2 ELSE 1]
=============================================================================
