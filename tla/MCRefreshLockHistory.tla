------------------------ MODULE MCRefreshLockHistory ------------------------
(***************************************************************************)
(* Instances of RefreshLockHistory for TLC.                                *)
(***************************************************************************)
EXTENDS MCRefreshLock, RefreshLockHistory

\* Nothing is claimed of what follows.
NotOvertaken == ~overtaken
=============================================================================
