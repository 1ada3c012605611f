---------------------------- MODULE MCRefreshLock ----------------------------
(***************************************************************************)
(* Instances of RefreshLock for TLC.                                       *)
(***************************************************************************)
EXTENDS RefreshLock, TLC

CONSTANTS p1, p2, p3, t1, t2, t3, t4

\* Each call in a process of its own.
MCApart == [t \in Tasks |-> CASE t = t1 -> p1 [] t = t2 -> p2 [] t = t3 -> p3]
\* Calls t1 to t3 in one process, t4 in another.
MCTogether == [t \in Tasks |-> IF t = t4 THEN p2 ELSE p1]
\* Call t3 is made in the callback of t1.
MCNested == [t \in Tasks |-> IF t = t3 THEN t1 ELSE None]
MCNoParent == [t \in Tasks |-> None]
\* Each call writes an entry of its own.
MCClouds == [t \in Tasks |-> t]
=============================================================================
