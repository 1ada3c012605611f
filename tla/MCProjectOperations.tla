------------------------- MODULE MCProjectOperations -------------------------
(***************************************************************************)
(* Instances of ProjectOperations for TLC.                                 *)
(***************************************************************************)
EXTENDS ProjectOperations, TLC

CONSTANTS h1, h2, o1, o2, o3, begin, complete, other

\* The content "begin" admits a push and retains o2 for its completion.
MCReserves == [c \in Contents |-> IF c = begin THEN o2 ELSE None]
MCCompletion == [o \in OpIds |-> IF o = o2 THEN complete ELSE begin]
Symmetric == Permutations({h1, h2})
=============================================================================
