------------------------- MODULE RefreshLockHistory -------------------------
(***************************************************************************)
(* RefreshLock with the one event its holders are not safe from.  The      *)
(* calls look at the directory, then remove it by its name: "the remaining *)
(* stat -> unlink -> rmdir observation window is not atomic"               *)
(* (packages/core/src/credentials/refresh-lock.ts:274).  Here the window   *)
(* may be open, and processes suspended for as long as they like; the      *)
(* history remembers whether another call ever changed the directory in    *)
(* such a window.                                                          *)
(***************************************************************************)
EXTENDS RefreshLock

VARIABLE overtaken  \* whether a call ever was, in the window before a removal

Looked == {"judge", "unlink", "rmdir", "undo_rmdir", "release_rmdir"}

\* A call that has looked at the directory for the last time before it removes
\* it takes no step, and the directory changes.
Overtakes == dir' # dir /\ \E t \in Tasks : task[t].pc \in Looked /\ task'[t] = task[t]

HNext == Next /\ overtaken' = (overtaken \/ Overtakes)

HInit == Init /\ overtaken = FALSE

HSpec == HInit /\ [][HNext]_<<vars, overtaken>>

-----------------------------------------------------------------------------
\* Until a call is overtaken, of the calls of all processes one at a time runs
\* its callback: a holder that is merely slow keeps the lock however long it
\* takes, one that was suspended does not take another's directory for the one
\* it made, and what one call releases is never another's.
ExclusiveUntilOvertaken == ~overtaken => MutualExclusion
HeldUntilOvertaken == ~overtaken => HolderKeepsLock
WrittenUntilOvertaken == ~overtaken => NoLostWrite
=============================================================================
