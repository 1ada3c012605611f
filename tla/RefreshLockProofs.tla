-------------------------- MODULE RefreshLockProofs --------------------------
(***************************************************************************)
(* Theorems about RefreshLock, for any processes, calls, entries and       *)
(* bounds, and processes suspended for as long as they like.  What         *)
(* concerns one process alone (synchronous calls, nested calls) holds      *)
(* whatever the clock and the other processes do.  That one call at a time *)
(* holds the lock holds until another call changes the directory between a *)
(* call's last look at it and its removal, and nothing else ends it.       *)
(***************************************************************************)
EXTENDS RefreshLockHistory, FiniteSetTheorems, TLAPS

Calls == [pc : Places, id : 0..MaxDirs, since : 0..MaxTime,
          started : 0..MaxTime, nested : BOOLEAN, copy : Entries]

(* Of the calls of one process. *)
Busy(t) == task[t].pc \notin {"idle"} \cup Over
AsyncBusy(p) == {t \in Tasks \ Sync : ProcessOf[t] = p /\ Busy(t)}

Buried == \A t \in Tasks : ProcessOf[t] \in killed => task[t].pc \in Over
Nesting ==
  \A t \in Tasks : task[t].nested =>
    /\ Parent[t] # None /\ Parent[t] \notin Sync
    /\ task[t].pc \in Section /\ task[Parent[t]].pc \in Section
OneAtATime ==
  \A t, u \in Tasks : ProcessOf[t] = ProcessOf[u] /\ KeepsLoop(t) /\ KeepsLoop(u) => t = u
Counted == \A p \in Processes \ killed : pending[p] = Cardinality(AsyncBusy(p))
SyncAlone ==
  \A s \in Sync, t \in Tasks \ Sync :
    ProcessOf[s] = ProcessOf[t] /\ Busy(s) /\ ~task[s].nested => ~Busy(t)
Identified == \A t \in Tasks : At(t, "own") => task[t].id # 0

LoopInv ==
  TypeOK /\ Identified /\ Buried /\ Nesting /\ OneAtATime /\ Counted /\ SyncAlone

(* Of the directory and the calls that made it, or remove it. *)
Owning == Section \cup {"release", "release_unlink"}
Identifying == Owning \cup {"own", "publish", "undo", "undo_stat", "undo_rmdir", "release_rmdir"}
Removing == {"judge", "unlink", "rmdir"}

\* A call that made a directory and may yet take what it finds for it; one
\* that has taken it.
Fresh(t) == At(t, "identify") /\ ~(now - task[t].since > Stale)
HasDir(t) == ~task[t].nested /\ task[t].pc \in Identifying

Ids == dir.id <= made /\ \A t \in Tasks : HasDir(t) => task[t].id \in 1..made
Distinct ==
  \A t, u \in Tasks : HasDir(t) /\ HasDir(u) /\ task[t].id = task[u].id => t = u
MakesIt(t) ==
  Fresh(t) =>
    /\ Exists /\ task[t].since <= dir.mtime
    /\ \A u \in Tasks \ {t} : ~Fresh(u) /\ (HasDir(u) => task[u].id # dir.id)
KeepsDir(t) ==
  HasDir(t) =>
    /\ task[t].pc \in Owning \cup {"undo_rmdir", "release_rmdir"} => dir.id = task[t].id
    /\ task[t].pc \in Owning \cup {"publish"} /\ dir.id = task[t].id
         => [id |-> dir.id, by |-> t] \in dir.records
RemovesOld(t) ==
  task[t].pc \in Removing =>
    /\ Exists /\ dir.id = task[t].id
    /\ task[t].pc = "judge" => IsOld
    /\ task[t].pc # "judge" => ~HasLiveOwner(t) /\ \A u \in Tasks : ~Fresh(u)

LockInv ==
  /\ Ids /\ Distinct
  /\ \A t \in Tasks : task[t].since <= now /\ MakesIt(t) /\ KeepsDir(t) /\ RemovesOld(t)

(* Of the file. *)
CopyTrue ==
  \A t \in Tasks : At(t, "write") => task[t].copy = file /\ \A u \in Tasks : Parent[u] # t

IInv == LoopInv /\ (~overtaken => LockInv /\ CopyTrue /\ NoLostWrite)

-----------------------------------------------------------------------------
(* Rows and their types.                                                   *)

Dirs == [id : 0..MaxDirs, mtime : 0..MaxTime, records : SUBSET Records]
RestTyped ==
  /\ now \in 0..MaxTime /\ made \in 0..MaxDirs /\ dir \in Dirs
  /\ file \in Entries /\ wrote \subseteq Tasks /\ killed \subseteq Processes

LEMMA TypeParts ==
  TypeOK <=> RestTyped /\ pending \in [Processes -> Nat] /\ task \in [Tasks -> Calls]
BY DEF TypeOK, RestTyped, Dirs, Calls

LEMMA IdleType == Idle \in Calls
BY LockAssumption DEF Idle, Calls, Places, Empty, Entries

\* A step of one call changes the row of that call alone.
Only(t) == task' \in [Tasks -> Calls] /\ \A u \in Tasks \ {t} : task'[u] = task[u]

LEMMA Goes ==
  ASSUME TypeOK, NEW t \in Tasks, NEW place \in Places, Goto(t, place)
  PROVE  /\ Only(t) /\ task'[t].pc = place
         /\ task'[t].id = task[t].id /\ task'[t].since = task[t].since
         /\ task'[t].nested = task[t].nested /\ task'[t].copy = task[t].copy
<1>1. task \in [Tasks -> Calls] /\ task[t] \in Calls
  BY TypeParts
<1>2. [task[t] EXCEPT !.pc = place] \in Calls
  BY <1>1 DEF Calls
<1>3. task' = [task EXCEPT ![t] = [task[t] EXCEPT !.pc = place]]
  BY DEF Goto
<1>4. Only(t) /\ task'[t] = [task[t] EXCEPT !.pc = place]
  BY <1>1, <1>2, <1>3 DEF Only
<1> QED
  BY <1>1, <1>4 DEF Calls

LEMMA IsGone ==
  ASSUME TypeOK, NEW t \in Tasks, NEW place \in Places, Gone(t, place)
  PROVE  Only(t) /\ task'[t].pc = place /\ ~task'[t].nested /\ task'[t].since = 0
<1>1. [Idle EXCEPT !.pc = place] \in Calls
  BY IdleType DEF Calls
<1>2. /\ [Idle EXCEPT !.pc = place].pc = place /\ ~[Idle EXCEPT !.pc = place].nested
      /\ [Idle EXCEPT !.pc = place].since = 0
  BY DEF Idle
<1>3. task' = [task EXCEPT ![t] = [Idle EXCEPT !.pc = place]] /\ task \in [Tasks -> Calls]
  BY TypeParts DEF Gone
<1> QED
  BY <1>1, <1>2, <1>3 DEF Only

LEMMA RecordsWritten ==
  ASSUME RestTyped, NEW R \in SUBSET Records, WithRecords(R)
  PROVE  /\ dir' \in Dirs /\ dir'.id = dir.id /\ dir'.records = R
         /\ dir'.mtime = IF R = dir.records THEN dir.mtime ELSE now
BY DEF WithRecords, RestTyped, Dirs

LEMMA RecordRemoved ==
  ASSUME RestTyped, NEW id, RemoveRecord(id)
  PROVE  /\ dir' \in Dirs /\ dir'.id = dir.id /\ dir'.records = dir.records \ RecordsOf(id)
         /\ dir'.mtime = IF RecordsOf(id) = {} THEN dir.mtime ELSE now
<1>1. dir.records \ RecordsOf(id) \in SUBSET Records
  BY DEF RestTyped, Dirs
<1>2. dir.records \ RecordsOf(id) = dir.records <=> RecordsOf(id) = {}
  BY DEF RecordsOf
<1> QED
  BY <1>1, <1>2, RecordsWritten DEF RemoveRecord

LEMMA EmptyRemoved ==
  ASSUME RestTyped, RemoveEmpty PROVE dir' \in Dirs
BY LockAssumption DEF RemoveEmpty, RestTyped, Dirs, NoDir

-----------------------------------------------------------------------------
(* What a step does to the process that takes it.                          *)

Dead == [Idle EXCEPT !.pc = "dead"]

GoesOn(t) ==
  /\ Runs(t) /\ Only(t) /\ Busy(t) /\ Busy(t)'
  /\ task'[t].nested = task[t].nested /\ (task[t].nested => task'[t].pc \in Section)
  /\ UNCHANGED <<pending, killed>>
Ends(t) ==
  /\ Runs(t) /\ Only(t) /\ Busy(t) /\ task'[t].pc \in Over
  /\ ~task'[t].nested /\ Unmark(t) /\ UNCHANGED killed

LEMMA EndsWith ==
  ASSUME TypeOK, NEW t \in Tasks, Runs(t), Busy(t), NEW place \in Over, EndWith(t, place)
  PROVE  Ends(t)
<1>1. place \in Places /\ Gone(t, place) /\ Unmark(t) /\ UNCHANGED killed
  BY DEF EndWith, Same, Over, Places
<1> QED
  BY <1>1, IsGone DEF Ends

LEMMA Advances ==
  ASSUME TypeOK, Nesting, NEW t \in Tasks, Runs(t), Busy(t), task[t].pc \notin Section,
         NEW place \in Places \ ({"idle"} \cup Over), Goto(t, place),
         UNCHANGED <<pending, killed>>
  PROVE  GoesOn(t)
<1>1. ~task[t].nested
  BY DEF Nesting, Busy, Over
<1> QED
  BY <1>1, Goes DEF GoesOn, Busy

\* A call that has begun goes on or ends.
LEMMA StepShape ==
  ASSUME LoopInv, NEW t \in Tasks, Step(t) \/ Abort(t)
  PROVE  Begin(t) \/ GoesOn(t) \/ Ends(t)
<1>0. TypeOK /\ Nesting /\ task \in [Tasks -> Calls] /\ task[t] \in Calls
  BY TypeParts DEF LoopInv
<1>1. CASE Abort(t)
  BY <1>0, <1>1, EndsWith DEF Abort, Busy, Over, Section
<1>2. CASE Mkdir(t)
  <2>1. CASE Exists
    BY <1>0, <1>2, <2>1, Advances DEF Mkdir, Busy, Over, Section, Places, Acquiring, At
  <2>2. CASE ~Exists
    <3>1. made + 1 \in 0..MaxDirs
      BY <1>2, <2>2, <1>0, LockAssumption DEF Mkdir, TypeOK
    <3>2. task' = [task EXCEPT ![t].pc = "identify", ![t].since = now] /\ At(t, "mkdir") /\ Runs(t)
          /\ UNCHANGED <<pending, killed>>
      BY <1>2, <2>2 DEF Mkdir
    <3>3. Only(t) /\ task'[t].pc = "identify" /\ task'[t].nested = task[t].nested
      BY <1>0, <3>2 DEF Only, Calls, TypeOK, Places, Acquiring
    <3>4. ~task[t].nested
      BY <1>0, <3>2 DEF Nesting, At, Section
    <3> QED
      BY <3>2, <3>3, <3>4 DEF GoesOn, Busy, Over, At
  <2> QED
    BY <2>1, <2>2
<1>3. CASE Identify(t)
  <2>0. At(t, "identify") /\ Runs(t) /\ ~task[t].nested
    BY <1>0, <1>3 DEF Identify, Nesting, At, Section
  <2>1. CASE ~Exists \/ now - task[t].since > Stale
    BY <1>0, <1>3, <2>0, <2>1, EndsWith DEF Identify, Busy, Over, Section, At
  <2>2. CASE ~(~Exists \/ now - task[t].since > Stale)
    <3>1. task' = [task EXCEPT ![t].pc = "own", ![t].id = dir.id, ![t].since = 0] /\ UNCHANGED <<pending, killed>>
      BY <1>3, <2>2 DEF Identify, OnlyDir, Same
    <3>2. dir.id \in 0..MaxDirs
      BY <1>0 DEF TypeOK
    <3>3. 0 \in 0..MaxTime
      BY LockAssumption
    <3>4. Only(t) /\ task'[t].pc = "own" /\ task'[t].nested = task[t].nested
      BY <1>0, <3>1, <3>2, <3>3 DEF Only, Calls, Places, Acquiring
    <3> QED
      BY <2>0, <3>1, <3>4 DEF GoesOn, Busy, Over, At
  <2> QED
    BY <2>1, <2>2
<1>4. CASE WriteOwnerRecord(t)
  BY <1>0, <1>4, Advances DEF WriteOwnerRecord, Busy, Over, Section, Places, Acquiring, At, OnlyDir, Same
<1>5. CASE Publish(t)
  <2>0. At(t, "publish") /\ Runs(t) /\ ~task[t].nested
    BY <1>0, <1>5 DEF Publish, Nesting, At, Section
  <2>1. PICK place \in {"read", "undo"} : Goto(t, place)
    BY <1>5 DEF Publish
  <2>2. place \in Places
    BY DEF Places, Acquiring, Section
  <2> QED
    BY <1>0, <1>5, <2>0, <2>1, <2>2, Goes DEF GoesOn, Busy, Over, At, Publish, Look, OnlyDir, Same
<1>6. CASE Undo(t)
  BY <1>0, <1>6, Advances DEF Undo, Busy, Over, Section, Places, Acquiring, At, OnlyDir, Same
<1>7. CASE UndoStat(t)
  <2>1. CASE dir.id = task[t].id
    BY <1>0, <1>7, <2>1, Advances DEF UndoStat, Busy, Over, Section, Places, Acquiring, At, OnlyDir, Same
  <2>2. CASE dir.id # task[t].id
    BY <1>0, <1>7, <2>2, EndsWith DEF UndoStat, Busy, Over, Section, At
  <2> QED
    BY <2>1, <2>2
<1>8. CASE UndoRmdir(t)
  BY <1>0, <1>8, EndsWith DEF UndoRmdir, Busy, Over, Section, At
<1>9. CASE Observe(t)
  <2>0. At(t, "observe") /\ Runs(t) /\ ~task[t].nested /\ UNCHANGED <<pending, killed>>
    BY <1>0, <1>9 DEF Observe, Nesting, At, Section, Look, OnlyDir, Same
  <2>1. CASE Exists /\ IsOld
    <3>1. task' = [task EXCEPT ![t].pc = "recheck", ![t].id = dir.id]
      BY <1>9, <2>1 DEF Observe
    <3>2. dir.id \in 0..MaxDirs /\ now \in 0..MaxTime
      BY <1>0 DEF TypeOK
    <3>3. Only(t) /\ task'[t].pc = "recheck" /\ task'[t].nested = task[t].nested
      BY <1>0, <3>1, <3>2 DEF Only, Calls, Places, Acquiring
    <3> QED
      BY <2>0, <3>3 DEF GoesOn, Busy, Over, At
  <2>2. CASE ~(Exists /\ IsOld)
    <3>1. PICK place \in {"wait", "mkdir"} : Goto(t, place)
      BY <1>9, <2>2 DEF Observe
    <3> QED
      BY <1>0, <2>0, <3>1, Advances DEF Busy, Over, At, Section, Places, Acquiring
  <2> QED
    BY <2>1, <2>2
<1>10. CASE Recheck(t)
  <2>1. PICK place \in {"mkdir", "judge", "wait"} : Goto(t, place)
    BY <1>10 DEF Recheck
  <2> QED
    BY <1>0, <1>10, <2>1, Advances
    DEF Recheck, Busy, Over, Section, Places, Acquiring, At, Look, OnlyDir, Same
<1>11. CASE Judge(t)
  <2>1. PICK place \in {"unlink", "wait"} : Goto(t, place)
    BY <1>11 DEF Judge
  <2> QED
    BY <1>0, <1>11, <2>1, Advances
    DEF Judge, Busy, Over, Section, Places, Acquiring, At, Look, OnlyDir, Same
<1>12. CASE Unlink(t)
  BY <1>0, <1>12, Advances DEF Unlink, Busy, Over, Section, Places, Acquiring, At, OnlyDir, Same
<1>13. CASE Rmdir(t)
  <2>1. CASE dir.records = {}
    BY <1>0, <1>13, <2>1, Advances DEF Rmdir, Busy, Over, Section, Places, Acquiring, At, OnlyDir, Same
  <2>2. CASE dir.records # {}
    BY <1>0, <1>13, <2>2, EndsWith DEF Rmdir, Busy, Over, Section, At
  <2> QED
    BY <2>1, <2>2
<1>14. CASE Wait(t)
  <2>1. CASE now - task[t].started >= Acquire
    BY <1>0, <1>14, <2>1, EndsWith DEF Wait, Busy, Over, Section, At
  <2>2. CASE ~(now - task[t].started >= Acquire)
    BY <1>0, <1>14, <2>2, Advances DEF Wait, Busy, Over, Section, Places, Acquiring, At, OnlyDir, Same
  <2> QED
    BY <2>1, <2>2
<1>15. CASE ReadAll(t)
  <2>1. /\ At(t, "read") /\ Runs(t) /\ UNCHANGED <<pending, killed>>
        /\ task' = [task EXCEPT ![t].pc = "write", ![t].copy = file]
    BY <1>15 DEF ReadAll, Look, OnlyDir, Same
  <2>2. file \in Entries
    BY <1>0 DEF TypeOK
  <2>3. Only(t) /\ task'[t].pc = "write" /\ task'[t].nested = task[t].nested
    BY <1>0, <2>1, <2>2 DEF Only, Calls, Places, Section
  <2> QED
    BY <2>1, <2>3 DEF GoesOn, Busy, Over, At, Section
<1>16. CASE WriteAll(t)
  <2>1. /\ At(t, "write") /\ Runs(t) /\ UNCHANGED <<pending, killed>>
        /\ task' = [task EXCEPT ![t].pc = "leave", ![t].copy = Empty]
    BY <1>16 DEF WriteAll
  <2>2. Empty \in Entries
    BY DEF Empty, Entries
  <2>3. Only(t) /\ task'[t].pc = "leave" /\ task'[t].nested = task[t].nested
    BY <1>0, <2>1, <2>2 DEF Only, Calls, Places, Section
  <2> QED
    BY <2>1, <2>3 DEF GoesOn, Busy, Over, At, Section
<1>17. CASE Leave(t)
  <2>1. task[t].pc \in {"read", "leave"} /\ Runs(t) /\ UNCHANGED <<pending, killed>>
    BY <1>17 DEF Leave, Look, OnlyDir, Same
  <2>2. CASE task[t].nested
    <3>1. Gone(t, "done") /\ "done" \in Places
      BY <1>17, <2>2 DEF Leave, Places
    <3>2. t \in Sync
      BY <1>0, <2>2, LockAssumption DEF Nesting
    <3> QED
      BY <1>0, <2>1, <3>1, <3>2, IsGone DEF Ends, Busy, Over, Unmark
  <2>3. CASE ~task[t].nested
    <3>1. task' = [task EXCEPT ![t].pc = "release", ![t].copy = Empty]
      BY <1>17, <2>3 DEF Leave
    <3>2. now \in 0..MaxTime /\ Empty \in Entries
      BY <1>0 DEF TypeOK, Empty, Entries
    <3>3. Only(t) /\ task'[t].pc = "release" /\ task'[t].nested = task[t].nested
      BY <1>0, <2>3, <3>1, <3>2 DEF Only, Calls, Places, Releasing
    <3> QED
      BY <2>1, <2>3, <3>3 DEF GoesOn, Busy, Over
  <2> QED
    BY <2>2, <2>3
<1>18. CASE Release(t)
  <2>1. CASE Goto(t, "release_unlink") /\ OnlyDir
    BY <1>0, <1>18, <2>1, Advances DEF Release, Busy, Over, Section, Places, Releasing, At, OnlyDir, Same
  <2>2. CASE EndWith(t, "done")
    BY <1>0, <1>18, <2>2, EndsWith DEF Release, Busy, Over, Section, At
  <2> QED
    BY <1>18, <2>1, <2>2 DEF Release
<1>19. CASE ReleaseUnlink(t)
  <2>1. CASE Goto(t, "release_rmdir") /\ OnlyDir
    BY <1>0, <1>19, <2>1, Advances DEF ReleaseUnlink, Busy, Over, Section, Places, Releasing, At, OnlyDir, Same
  <2>2. CASE EndWith(t, "done")
    BY <1>0, <1>19, <2>2, EndsWith DEF ReleaseUnlink, Busy, Over, Section, At
  <2> QED
    BY <1>19, <2>1, <2>2 DEF ReleaseUnlink
<1>20. CASE ReleaseRmdir(t)
  BY <1>0, <1>20, EndsWith DEF ReleaseRmdir, Busy, Over, Section, At
<1> QED
  BY <1>1, <1>2, <1>3, <1>4, <1>5, <1>6, <1>7, <1>8, <1>9, <1>10, <1>11, <1>12, <1>13,
     <1>14, <1>15, <1>16, <1>17, <1>18, <1>19, <1>20 DEF Step
LEMMA BeginShape ==
  ASSUME LoopInv, NEW t \in Tasks, Begin(t)
  PROVE  /\ Runs(t) /\ Only(t) /\ At(t, "idle") /\ UNCHANGED killed
         /\ \/ /\ Parent[t] # None /\ t \in Sync /\ task[Parent[t]].pc \in Section
               /\ task'[t].pc = "read" /\ task'[t].nested /\ UNCHANGED pending
            \/ /\ t \in Sync /\ task'[t].pc = "failed" /\ ~task'[t].nested
               /\ UNCHANGED pending
            \/ /\ task'[t].pc = "mkdir" /\ ~task'[t].nested
               /\ t \in Sync => pending[ProcessOf[t]] = 0 /\ UNCHANGED pending
               /\ t \notin Sync =>
                    pending' = [pending EXCEPT ![ProcessOf[t]] = pending[ProcessOf[t]] + 1]
<1>0. TypeOK /\ task \in [Tasks -> Calls] /\ task[t] \in Calls /\ now \in 0..MaxTime
  BY TypeParts DEF LoopInv, RestTyped
<1>1. At(t, "idle") /\ Runs(t) /\ UNCHANGED killed
  BY DEF Begin, Same
<1>2. ~task[t].nested
  BY <1>0, <1>1 DEF LoopInv, Nesting, At, Section
<1>3. CASE HoldsLock(t) /\ task' = [task EXCEPT ![t].pc = "read", ![t].nested = TRUE]
           /\ UNCHANGED pending
  <2>1. Parent[t] # None /\ t \in Sync /\ task[Parent[t]].pc \in Section
    BY <1>3, LockAssumption DEF HoldsLock, Live
  <2>2. Only(t) /\ task'[t].pc = "read" /\ task'[t].nested
    BY <1>0, <1>3 DEF Only, Calls, Places, Section
  <2> QED
    BY <1>1, <1>3, <2>1, <2>2
<1>4. CASE t \in Sync /\ Goto(t, "failed") /\ UNCHANGED pending
  <2>1. "failed" \in Places
    BY DEF Places
  <2> QED
    BY <1>0, <1>1, <1>2, <1>4, <2>1, Goes
<1>5. CASE /\ t \in Sync => pending[ProcessOf[t]] = 0
           /\ task' = [task EXCEPT ![t].pc = "mkdir", ![t].started = now]
           /\ pending' = IF t \in Sync THEN pending
                         ELSE [pending EXCEPT ![ProcessOf[t]] = @ + 1]
  <2>1. Only(t) /\ task'[t].pc = "mkdir" /\ ~task'[t].nested
    BY <1>0, <1>2, <1>5 DEF Only, Calls, Places, Acquiring
  <2>2. t \notin Sync =>
          pending' = [pending EXCEPT ![ProcessOf[t]] = pending[ProcessOf[t]] + 1]
    BY <1>5
  <2> QED
    BY <1>1, <1>5, <2>1, <2>2
<1> QED
  BY <1>3, <1>4, <1>5 DEF Begin

-----------------------------------------------------------------------------
(* The calls of one process.                                               *)

LEMMA AsyncBusyFinite ==
  ASSUME NEW p PROVE IsFiniteSet(AsyncBusy(p))
<1>1. AsyncBusy(p) \subseteq Tasks /\ IsFiniteSet(Tasks)
  BY LockAssumption DEF AsyncBusy
<1> QED
  BY <1>1, FS_Subset

\* While a call runs in a process, no other of it does.
LEMMA OthersYield ==
  ASSUME NEW t \in Tasks, Only(t), Runs(t), OneAtATime
  PROVE  OneAtATime'
<1>1. \A u \in Tasks \ {t} : ProcessOf[u] = ProcessOf[t] => ~KeepsLoop(u)
  BY DEF Runs
<1>2. \A u \in Tasks \ {t} : KeepsLoop(u)' <=> KeepsLoop(u)
  BY DEF KeepsLoop, Only
<1> QED
  BY <1>1, <1>2 DEF OneAtATime

\* A nested call keeps its process from leaving the callback it was made in.
LEMMA ParentStays ==
  ASSUME Nesting, NEW t \in Tasks, Runs(t),
         NEW u \in Tasks \ {t}, task[u].nested, task[u].pc \in Section
  PROVE  Parent[u] # t
<1>1. u \in Sync /\ ProcessOf[Parent[u]] = ProcessOf[u]
  BY LockAssumption DEF Nesting
<1>2. KeepsLoop(u)
  BY <1>1 DEF KeepsLoop, Section
<1> QED
  BY <1>1, <1>2 DEF Runs

LEMMA BuriedKept ==
  ASSUME Buried, NEW t \in Tasks, Only(t), Runs(t), UNCHANGED killed
  PROVE  Buried'
BY DEF Buried, Only, Runs

LEMMA NestingKept ==
  ASSUME Nesting, NEW t \in Tasks, Only(t), Runs(t),
         task'[t].nested =>
           /\ Parent[t] # None /\ Parent[t] \notin Sync
           /\ task'[t].pc \in Section /\ task[Parent[t]].pc \in Section /\ Parent[t] # t
  PROVE  Nesting'
<1> SUFFICES ASSUME NEW u \in Tasks, task'[u].nested
             PROVE  /\ Parent[u] # None /\ Parent[u] \notin Sync
                    /\ task'[u].pc \in Section /\ task'[Parent[u]].pc \in Section
  BY DEF Nesting
<1>1. CASE u = t
  <2>1. Parent[t] \in Tasks
    BY <1>1, LockAssumption
  <2> QED
    BY <1>1, <2>1 DEF Only
<1>2. CASE u # t
  <2>1. task'[u] = task[u]
    BY <1>2 DEF Only
  <2>2. Parent[u] \in Tasks
    BY <2>1, LockAssumption DEF Nesting
  <2>3. task[u].pc \in Section /\ Parent[u] # t
    BY <1>2, <2>1, ParentStays DEF Nesting
  <2> QED
    BY <2>1, <2>2, <2>3 DEF Nesting, Only
<1> QED
  BY <1>1, <1>2

LEMMA GoingOn ==
  ASSUME LoopInv, NEW t \in Tasks, GoesOn(t)
  PROVE  /\ pending' \in [Processes -> Nat]
         /\ Buried' /\ Nesting' /\ OneAtATime' /\ Counted' /\ SyncAlone'
<1>0. Only(t) /\ Runs(t) /\ UNCHANGED <<pending, killed>>
  BY DEF GoesOn
<1>1. pending' \in [Processes -> Nat] /\ Buried' /\ OneAtATime'
  BY <1>0, BuriedKept, OthersYield, TypeParts DEF LoopInv
<1>2. Nesting'
  <2>1. task'[t].nested => Parent[t] # None /\ Parent[t] \notin Sync
    BY DEF LoopInv, Nesting, GoesOn
  <2>2. task'[t].nested => task[t].pc \in Section
    BY DEF LoopInv, Nesting, GoesOn, Busy, Over
  <2>3. task'[t].nested => task[Parent[t]].pc \in Section
    BY <2>2 DEF LoopInv, Nesting, GoesOn
  <2>4. Parent[t] # None => t \in Sync
    BY LockAssumption
  <2>5. task'[t].nested => Parent[t] # t /\ task'[t].pc \in Section
    BY <2>1, <2>4 DEF GoesOn
  <2> QED
    BY <1>0, <2>1, <2>3, <2>5, NestingKept DEF LoopInv
<1>3. \A u \in Tasks : Busy(u)' <=> Busy(u)
  BY DEF GoesOn, Only, Busy
<1>4. \A u \in Tasks : task'[u].nested = task[u].nested
  BY DEF GoesOn, Only
<1>5. SyncAlone'
  BY <1>3, <1>4, LockAssumption DEF LoopInv, SyncAlone
<1>6. Counted'
  <2>1. \A p \in Processes : AsyncBusy(p)' = AsyncBusy(p)
    BY <1>3 DEF AsyncBusy
  <2> QED
    BY <1>0, <2>1 DEF LoopInv, Counted
<1> QED
  BY <1>1, <1>2, <1>5, <1>6

LEMMA Ending ==
  ASSUME LoopInv, NEW t \in Tasks, Ends(t)
  PROVE  /\ pending' \in [Processes -> Nat]
         /\ Buried' /\ Nesting' /\ OneAtATime' /\ Counted' /\ SyncAlone'
<1>0. Only(t) /\ Runs(t) /\ UNCHANGED killed /\ ProcessOf[t] \in Processes \ killed
  BY LockAssumption DEF Ends, Runs
<1>1. Buried' /\ OneAtATime'
  BY <1>0, BuriedKept, OthersYield DEF LoopInv
<1>2. Nesting'
  <2>1. ~task'[t].nested
    BY DEF Ends
  <2> QED
    BY <1>0, <2>1, NestingKept DEF LoopInv
<1>3. ~Busy(t)' /\ Busy(t) /\ \A u \in Tasks \ {t} : Busy(u)' <=> Busy(u)
  BY DEF Ends, Only, Busy
<1>4. \A u \in Tasks \ {t} : task'[u].nested = task[u].nested
  BY DEF Ends, Only
<1>5. SyncAlone'
  BY <1>3, <1>4, LockAssumption DEF LoopInv, SyncAlone
<1>6. pending \in [Processes -> Nat]
  BY TypeParts DEF LoopInv
<1>7. CASE t \in Sync
  <2>1. \A p \in Processes : AsyncBusy(p)' = AsyncBusy(p)
    BY <1>3, <1>7 DEF AsyncBusy
  <2>2. pending' = pending
    BY <1>7 DEF Ends, Unmark
  <2> QED
    BY <1>0, <1>1, <1>2, <1>5, <1>6, <2>1, <2>2 DEF LoopInv, Counted
<1>8. CASE t \notin Sync
  <2> DEFINE p == ProcessOf[t]
  <2>1. pending' = [pending EXCEPT ![p] = pending[p] - 1]
    BY <1>8 DEF Ends, Unmark
  <2>2. \A q \in Processes \ {p} : AsyncBusy(q)' = AsyncBusy(q)
    BY <1>3 DEF AsyncBusy
  <2>3. t \in AsyncBusy(p) /\ AsyncBusy(p)' = AsyncBusy(p) \ {t}
    BY <1>3, <1>8 DEF AsyncBusy
  <2>4. /\ Cardinality(AsyncBusy(p)) \in Nat /\ Cardinality(AsyncBusy(p)') \in Nat
        /\ Cardinality(AsyncBusy(p)') = Cardinality(AsyncBusy(p)) - 1
    BY <2>3, AsyncBusyFinite, FS_RemoveElement, FS_CardinalityType
  <2>5. pending[p] = Cardinality(AsyncBusy(p))
    BY <1>0 DEF LoopInv, Counted
  <2>6. pending' \in [Processes -> Nat] /\ pending'[p] = Cardinality(AsyncBusy(p)')
    BY <1>0, <1>6, <2>1, <2>4, <2>5
  <2>7. Counted'
    <3> SUFFICES ASSUME NEW q \in Processes \ killed'
                 PROVE  pending'[q] = Cardinality(AsyncBusy(q)')
      BY DEF Counted
    <3> QED
      BY <1>0, <1>6, <2>1, <2>2, <2>6 DEF LoopInv, Counted
  <2> QED
    BY <1>1, <1>2, <1>5, <2>6, <2>7
<1> QED
  BY <1>7, <1>8

LEMMA Beginning ==
  ASSUME LoopInv, NEW t \in Tasks, Begin(t)
  PROVE  /\ pending' \in [Processes -> Nat] /\ Only(t)
         /\ Buried' /\ Nesting' /\ OneAtATime' /\ Counted' /\ SyncAlone'
<1> DEFINE p == ProcessOf[t]
<1>0. /\ Only(t) /\ Runs(t) /\ UNCHANGED killed /\ p \in Processes \ killed
      /\ At(t, "idle") /\ ~Busy(t) /\ pending \in [Processes -> Nat]
  BY BeginShape, LockAssumption, TypeParts DEF LoopInv, Runs, Busy, At
<1>1. Buried' /\ OneAtATime'
  BY <1>0, BuriedKept, OthersYield DEF LoopInv
<1>2. \A u \in Tasks \ {t} : (Busy(u)' <=> Busy(u)) /\ task'[u].nested = task[u].nested
  BY <1>0 DEF Only, Busy
<1>3. CASE /\ Parent[t] # None /\ t \in Sync /\ task[Parent[t]].pc \in Section
           /\ task'[t].pc = "read" /\ task'[t].nested /\ UNCHANGED pending
  <2>1. Parent[t] # t /\ Parent[t] \in Tasks /\ ProcessOf[Parent[t]] = p
    BY <1>0, <1>3, LockAssumption DEF At, Section
  <2>2. Parent[t] \notin Sync
    <3> SUFFICES ASSUME Parent[t] \in Sync PROVE FALSE
      OBVIOUS
    <3>1. KeepsLoop(Parent[t])
      BY <1>3 DEF KeepsLoop, Section
    <3> QED
      BY <1>0, <2>1, <3>1 DEF Runs
  <2>3. Nesting'
    BY <1>0, <1>3, <2>1, <2>2, NestingKept DEF LoopInv, Section
  <2>4. \A q \in Processes : AsyncBusy(q)' = AsyncBusy(q)
    BY <1>2, <1>3 DEF AsyncBusy
  <2>5. Counted'
    BY <1>0, <1>3, <2>4 DEF LoopInv, Counted
  <2>6. SyncAlone'
    BY <1>2, <1>3, LockAssumption DEF LoopInv, SyncAlone
  <2> QED
    BY <1>0, <1>1, <1>3, <2>3, <2>5, <2>6
<1>4. CASE t \in Sync /\ task'[t].pc = "failed" /\ ~task'[t].nested /\ UNCHANGED pending
  <2>1. Nesting'
    BY <1>0, <1>4, NestingKept DEF LoopInv
  <2>2. ~Busy(t)'
    BY <1>4 DEF Busy, Over
  <2>3. \A q \in Processes : AsyncBusy(q)' = AsyncBusy(q)
    BY <1>2, <1>4 DEF AsyncBusy
  <2>4. Counted'
    BY <1>0, <1>4, <2>3 DEF LoopInv, Counted
  <2>5. SyncAlone'
    BY <1>2, <2>2, <1>4, LockAssumption DEF LoopInv, SyncAlone
  <2> QED
    BY <1>0, <1>1, <1>4, <2>1, <2>4, <2>5
<1>5. CASE /\ task'[t].pc = "mkdir" /\ ~task'[t].nested
           /\ t \in Sync /\ pending[p] = 0 /\ UNCHANGED pending
  <2>1. Nesting'
    BY <1>0, <1>5, NestingKept DEF LoopInv
  <2>2. \A q \in Processes : AsyncBusy(q)' = AsyncBusy(q)
    BY <1>2, <1>5 DEF AsyncBusy
  <2>3. Counted'
    BY <1>0, <1>5, <2>2 DEF LoopInv, Counted
  <2>4. AsyncBusy(p) = {}
    <3>1. Cardinality(AsyncBusy(p)) = 0
      BY <1>0, <1>5 DEF LoopInv, Counted
    <3> QED
      BY <3>1, AsyncBusyFinite, FS_EmptySet
  <2>5. \A u \in Tasks \ Sync : ProcessOf[u] = p => ~Busy(u)
    BY <2>4 DEF AsyncBusy
  <2>6. SyncAlone'
    BY <1>2, <1>5, <2>5, LockAssumption DEF LoopInv, SyncAlone
  <2> QED
    BY <1>0, <1>1, <1>5, <2>1, <2>3, <2>6
<1>6. CASE /\ task'[t].pc = "mkdir" /\ ~task'[t].nested /\ t \notin Sync
           /\ pending' = [pending EXCEPT ![p] = pending[p] + 1]
  <2>1. Nesting'
    BY <1>0, <1>6, NestingKept DEF LoopInv
  <2>2. Busy(t)'
    BY <1>6 DEF Busy, Over
  <2>3. \A q \in Processes \ {p} : AsyncBusy(q)' = AsyncBusy(q)
    BY <1>2 DEF AsyncBusy
  <2>4. t \notin AsyncBusy(p) /\ AsyncBusy(p)' = AsyncBusy(p) \cup {t}
    BY <1>0, <1>2, <1>6, <2>2 DEF AsyncBusy
  <2>5. Cardinality(AsyncBusy(p)') = Cardinality(AsyncBusy(p)) + 1
    BY <2>4, AsyncBusyFinite, FS_AddElement
  <2>6. pending' \in [Processes -> Nat] /\ pending'[p] = Cardinality(AsyncBusy(p)')
    BY <1>0, <1>6, <2>5 DEF LoopInv, Counted
  <2>7. Counted'
    <3> SUFFICES ASSUME NEW q \in Processes \ killed'
                 PROVE  pending'[q] = Cardinality(AsyncBusy(q)')
      BY DEF Counted
    <3> QED
      BY <1>0, <1>6, <2>3, <2>6 DEF LoopInv, Counted
  <2>8. \A s \in Sync : ProcessOf[s] = p => ~Busy(s)
    <3> SUFFICES ASSUME NEW s \in Sync, ProcessOf[s] = p, Busy(s) PROVE FALSE
      OBVIOUS
    <3>1. s \in Tasks \ {t} /\ KeepsLoop(s)
      BY <1>6, LockAssumption DEF Busy, Over, KeepsLoop
    <3> QED
      BY <1>0, <3>1 DEF Runs
  <2>9. SyncAlone'
    BY <1>2, <1>6, <2>8, LockAssumption DEF LoopInv, SyncAlone
  <2> QED
    BY <1>0, <1>1, <2>1, <2>6, <2>7, <2>9
<1> QED
  BY <1>3, <1>4, <1>5, <1>6, BeginShape
\* What a kill leaves: the killed process's calls are over.
LEMMA Killing ==
  ASSUME TypeOK, Buried, NEW p \in Processes, Kill(p)
  PROVE  /\ task' \in [Tasks -> Calls] /\ killed' = killed \cup {p}
         /\ UNCHANGED <<now, dir, made, file, wrote, pending>>
         /\ \A t \in Tasks : IF ProcessOf[t] = p THEN task'[t].pc \in Over /\ (Busy(t) => ~task'[t].nested)
                             ELSE task'[t] = task[t]
<1>1. Dead \in Calls /\ ~Dead.nested /\ Dead.pc = "dead"
  BY IdleType DEF Dead, Idle, Calls, Places
<1>2. task' = [t \in Tasks |-> IF ProcessOf[t] = p /\ task[t].pc \notin {"done", "failed", "obstructed"}
                               THEN Dead ELSE task[t]]
  BY DEF Kill, Dead
<1>3. \A t \in Tasks : task[t].pc \in {"done", "failed", "obstructed"} => ~Busy(t)
  BY DEF Busy, Over
<1>4. task \in [Tasks -> Calls]
  BY TypeParts
<1>5. \A t \in Tasks : ProcessOf[t] = p => task'[t].pc \in Over /\ (Busy(t) => ~task'[t].nested)
  BY <1>1, <1>2, <1>3 DEF Over
<1>6. \A t \in Tasks : ProcessOf[t] # p => task'[t] = task[t]
  BY <1>2
<1>7. task' \in [Tasks -> Calls]
  BY <1>1, <1>2, <1>4
<1> QED
  BY <1>5, <1>6, <1>7 DEF Kill

LEMMA LoopKilled ==
  ASSUME LoopInv, NEW p \in Processes, Kill(p)
  PROVE  LoopInv'
<1>0. /\ task' \in [Tasks -> Calls] /\ killed' = killed \cup {p}
      /\ UNCHANGED <<now, dir, made, file, wrote, pending>>
      /\ \A t \in Tasks : ProcessOf[t] = p => task'[t].pc \in Over /\ (Busy(t) => ~task'[t].nested)
      /\ \A t \in Tasks : ProcessOf[t] # p => task'[t] = task[t]
  BY Killing DEF LoopInv
<1>1. TypeOK'
  BY <1>0, TypeParts DEF LoopInv, TypeOK, Calls
<1>2. Identified' /\ Buried'
  BY <1>0 DEF LoopInv, Identified, Buried, At, Over
<1>3. Nesting'
  <2> SUFFICES ASSUME NEW u \in Tasks, task'[u].nested
               PROVE  /\ Parent[u] # None /\ Parent[u] \notin Sync
                      /\ task'[u].pc \in Section /\ task'[Parent[u]].pc \in Section
    BY DEF Nesting
  <2>1. CASE ProcessOf[u] # p
    <3>1. task'[u] = task[u]
      BY <1>0, <2>1
    <3>2. Parent[u] \in Tasks /\ ProcessOf[Parent[u]] # p
      BY <2>1, <3>1, LockAssumption DEF LoopInv, Nesting
    <3> QED
      BY <1>0, <3>1, <3>2 DEF LoopInv, Nesting
  <2>2. CASE ProcessOf[u] = p
    <3>1. task'[u] = Dead \/ task'[u] = task[u]
      BY <2>2 DEF Kill, Dead
    <3>2. ~Dead.nested
      BY DEF Dead, Idle
    <3>3. task'[u] = task[u] /\ task'[u].pc \in Over
      BY <1>0, <2>2, <3>1, <3>2
    <3> QED
      BY <3>3 DEF LoopInv, Nesting, Section, Over
  <2> QED
    BY <2>1, <2>2
<1>4. \A t \in Tasks : Busy(t)' => task'[t] = task[t] /\ Busy(t) /\ ProcessOf[t] # p
  BY <1>0 DEF Busy
<1>5. \A t \in Tasks : KeepsLoop(t)' => KeepsLoop(t)
  BY <1>0 DEF KeepsLoop, Over
<1>6. OneAtATime'
  BY <1>5 DEF LoopInv, OneAtATime
<1>7. SyncAlone'
  BY <1>4, LockAssumption DEF LoopInv, SyncAlone
<1>8. Counted'
  <2>1. \A q \in Processes \ {p} : AsyncBusy(q)' = AsyncBusy(q)
    BY <1>0 DEF AsyncBusy, Busy
  <2> QED
    BY <1>0, <2>1 DEF LoopInv, Counted
<1> QED
  BY <1>1, <1>2, <1>3, <1>6, <1>7, <1>8 DEF LoopInv

LEMMA LoopTicked ==
  ASSUME LoopInv, Tick
  PROVE  LoopInv'
<1>1. now' \in 0..MaxTime
  BY LockAssumption DEF Tick, LoopInv, TypeOK
<1>2. TypeOK'
  BY <1>1 DEF Tick, LoopInv, TypeOK
<1>3. \A t \in Tasks : (Busy(t)' <=> Busy(t)) /\ (KeepsLoop(t)' <=> KeepsLoop(t))
  BY DEF Tick, Busy, KeepsLoop
<1>4. \A p \in Processes : AsyncBusy(p)' = AsyncBusy(p)
  BY <1>3 DEF AsyncBusy
<1>5. Identified' /\ Buried'
  BY DEF Tick, LoopInv, Identified, Buried, At
<1>8. Nesting'
  BY DEF Tick, LoopInv, Nesting
<1>6. OneAtATime' /\ SyncAlone'
  BY <1>3, LockAssumption DEF Tick, LoopInv, OneAtATime, SyncAlone
<1>7. Counted'
  BY <1>4 DEF Tick, LoopInv, Counted
<1> QED
  BY <1>2, <1>5, <1>6, <1>7, <1>8 DEF LoopInv

-----------------------------------------------------------------------------
(* Clock, directory and file keep their types.                             *)

\* Only Identify takes a call to where it records itself.
LEMMA IdentifiedKept ==
  ASSUME Identified, NEW t \in Tasks, Only(t), task'[t].pc # "own"
  PROVE  Identified'
BY DEF Identified, Only, At

LEMMA EndPlace ==
  ASSUME TypeOK, NEW t \in Tasks, NEW place \in Places, Goto(t, place) \/ Gone(t, place)
  PROVE  task'[t].pc = place
BY Goes, IsGone

LEMMA RestKept ==
  ASSUME LoopInv, NEW t \in Tasks, Step(t) \/ Abort(t)
  PROVE  RestTyped'
<1>0. /\ TypeOK /\ RestTyped /\ task[t] \in Calls /\ now \in 0..MaxTime /\ made \in 0..MaxDirs
      /\ dir \in Dirs /\ file \in Entries /\ wrote \subseteq Tasks /\ killed \subseteq Processes
  BY TypeParts DEF LoopInv, RestTyped
<1>1. CASE Same /\ UNCHANGED dir
  BY <1>0, <1>1 DEF Same, RestTyped
<1>2. CASE Same /\ RemoveEmpty
  BY <1>0, <1>2, EmptyRemoved DEF Same, RestTyped
<1>3. CASE Same /\ RemoveRecord(task[t].id)
  BY <1>0, <1>3, RecordRemoved DEF Same, RestTyped
<1>4. CASE Mkdir(t)
  <2>1. CASE Exists
    BY <1>0, <1>4, <2>1 DEF Mkdir, RestTyped
  <2>2. CASE ~Exists
    <3>1. made' = made + 1 /\ made < MaxDirs /\ dir' = [id |-> made + 1, mtime |-> now, records |-> {}]
          /\ UNCHANGED <<now, file, wrote, killed>>
      BY <1>4, <2>2 DEF Mkdir
    <3>2. made + 1 \in 0..MaxDirs
      BY <1>0, <3>1, LockAssumption
    <3> QED
      BY <1>0, <3>1, <3>2 DEF RestTyped, Dirs
  <2> QED
    BY <2>1, <2>2
<1>5. CASE WriteOwnerRecord(t)
  <2>1. CASE UNCHANGED dir
    BY <1>1, <1>5, <2>1 DEF WriteOwnerRecord, OnlyDir
  <2>2. CASE WithRecords(dir.records \cup {[id |-> task[t].id, by |-> t]})
    <3>1. task[t].id \in 1..MaxDirs
      BY <1>0, <1>5, LockAssumption DEF LoopInv, Identified, WriteOwnerRecord, Calls
    <3>2. dir.records \cup {[id |-> task[t].id, by |-> t]} \in SUBSET Records
      BY <1>0, <3>1 DEF Dirs, Records
    <3> QED
      BY <1>0, <1>5, <2>2, <3>2, RecordsWritten DEF WriteOwnerRecord, OnlyDir, Same, RestTyped
  <2> QED
    BY <1>5, <2>1, <2>2 DEF WriteOwnerRecord
<1>6. CASE WriteAll(t)
  <2>1. /\ file' = [task[t].copy EXCEPT ![CloudOf[t]] = t] /\ wrote' = wrote \cup {t}
        /\ UNCHANGED <<now, dir, made, killed>>
    BY <1>6 DEF WriteAll
  <2>2. file' \in Entries
    BY <1>0, <2>1, LockAssumption DEF Calls, Entries
  <2> QED
    BY <1>0, <2>1, <2>2 DEF RestTyped
<1>7. \/ Same /\ (UNCHANGED dir \/ RemoveEmpty \/ RemoveRecord(task[t].id))
      \/ Mkdir(t) \/ WriteOwnerRecord(t) \/ WriteAll(t)
  BY DEF Step, Begin, Abort, Identify, Publish, Undo, UndoStat, UndoRmdir, Observe, Recheck, Judge,
         Unlink, Rmdir, Wait, ReadAll, Leave, Release, ReleaseUnlink, ReleaseRmdir,
         EndWith, OnlyDir, Look
<1> QED
  BY <1>1, <1>2, <1>3, <1>4, <1>5, <1>6, <1>7

LEMMA IdentifiedStep ==
  ASSUME LoopInv, NEW t \in Tasks, Only(t), Step(t) \/ Abort(t)
  PROVE  Identified'
<1>1. CASE task'[t].pc # "own"
  BY <1>1, IdentifiedKept DEF LoopInv
<1>2. CASE Identify(t) /\ task'[t].pc = "own"
  <2>1. task[t] \in Calls /\ task \in [Tasks -> Calls]
    BY TypeParts DEF LoopInv
  <2>2. CASE ~Exists \/ now - task[t].since > Stale
    BY <1>2, <2>1, <2>2, EndPlace DEF LoopInv, Identify, EndWith, Places
  <2>3. CASE ~(~Exists \/ now - task[t].since > Stale)
    <3>1. task' = [task EXCEPT ![t].pc = "own", ![t].id = dir.id, ![t].since = 0] /\ dir.id # 0
      BY <1>2, <2>3 DEF Identify, Exists
    <3>2. task'[t].id # 0
      BY <2>1, <3>1 DEF Calls
    <3> QED
      BY <3>2 DEF LoopInv, Identified, Only, At
  <2> QED
    BY <2>2, <2>3
<1>3. ASSUME task'[t].pc = "own" PROVE Identify(t)
  <2>1. task[t] \in Calls /\ task \in [Tasks -> Calls]
    BY TypeParts DEF LoopInv
  <2>2. ~Begin(t)
    BY <1>3, BeginShape
  <2>3. \A place \in Places \ {"own"} : ~Goto(t, place) /\ ~Gone(t, place)
    BY <1>3, EndPlace DEF LoopInv
  <2>4. ~Mkdir(t) /\ ~Observe(t) /\ ~ReadAll(t) /\ ~WriteAll(t) /\ ~Leave(t)
    <3>1. ~Mkdir(t)
      BY <1>3, <2>1, <2>3 DEF Mkdir, Places, Acquiring, Calls
    <3>2. ~Observe(t)
      BY <1>3, <2>1, <2>3 DEF Observe, Places, Acquiring, Calls
    <3>3. ~ReadAll(t) /\ ~WriteAll(t)
      BY <1>3, <2>1 DEF ReadAll, WriteAll, Calls
    <3>4. ~Leave(t)
      BY <1>3, <2>1, <2>3 DEF Leave, Places, Calls
    <3> QED
      BY <3>1, <3>2, <3>3, <3>4
  <2>5. ~Abort(t) /\ ~WriteOwnerRecord(t) /\ ~Publish(t) /\ ~Undo(t) /\ ~UndoStat(t) /\ ~UndoRmdir(t)
    BY <2>3 DEF Abort, WriteOwnerRecord, Publish, Undo, UndoStat, UndoRmdir, EndWith,
                Places, Acquiring, Section
  <2>6. ~Recheck(t) /\ ~Judge(t) /\ ~Unlink(t) /\ ~Rmdir(t) /\ ~Wait(t)
    BY <2>3 DEF Recheck, Judge, Unlink, Rmdir, Wait, EndWith, Places, Acquiring
  <2>7. ~Release(t) /\ ~ReleaseUnlink(t) /\ ~ReleaseRmdir(t)
    BY <2>3 DEF Release, ReleaseUnlink, ReleaseRmdir, EndWith, Places, Releasing
  <2> QED
    BY <2>2, <2>4, <2>5, <2>6, <2>7 DEF Step
<1> QED
  BY <1>1, <1>2, <1>3
-----------------------------------------------------------------------------
(* What holds of the calls of one process holds throughout.                *)

LEMMA LoopStep ==
  ASSUME LoopInv, NEW t \in Tasks, Step(t) \/ Abort(t)
  PROVE  LoopInv'
<1>1. /\ pending' \in [Processes -> Nat] /\ Only(t)
      /\ Buried' /\ Nesting' /\ OneAtATime' /\ Counted' /\ SyncAlone'
  BY StepShape, Beginning, GoingOn, Ending DEF GoesOn, Ends
<1>2. TypeOK'
  <2>1. RestTyped' /\ task' \in [Tasks -> Calls]
    BY <1>1, RestKept DEF Only
  <2> QED
    BY <1>1, <2>1 DEF TypeOK, RestTyped, Dirs, Calls
<1>3. Identified'
  BY <1>1, IdentifiedStep
<1> QED
  BY <1>1, <1>2, <1>3 DEF LoopInv

LEMMA LoopInit ==
  Init => LoopInv
<1> SUFFICES ASSUME Init PROVE LoopInv
  OBVIOUS
<1>1. \A t \in Tasks : task[t] = Idle /\ ~task[t].nested /\ task[t].pc = "idle"
  BY IdleType DEF Init, Idle
<1>2. task \in [Tasks -> Calls]
  BY IdleType DEF Init
<1>3. dir \in Dirs /\ made \in 0..MaxDirs
  BY LockAssumption DEF Init, Abandoned, NoDir, Dirs, Records
<1>4. TypeOK
  BY <1>2, <1>3, LockAssumption DEF Init, TypeOK, Empty, Entries, Calls, Dirs
<1>5. Identified /\ Buried /\ Nesting
  BY <1>1 DEF Init, Identified, Buried, Nesting, At
<1>6. OneAtATime
  BY <1>1 DEF OneAtATime, KeepsLoop
<1>7. SyncAlone
  BY <1>1 DEF SyncAlone, Busy
<1>8. Counted
  <2>1. \A p \in Processes : AsyncBusy(p) = {}
    BY <1>1 DEF AsyncBusy, Busy
  <2> QED
    BY <2>1, FS_EmptySet DEF Init, Counted
<1> QED
  BY <1>4, <1>5, <1>6, <1>7, <1>8 DEF LoopInv

LEMMA LoopStutters ==
  ASSUME LoopInv, UNCHANGED vars
  PROVE  LoopInv'
<1>1. TypeOK' /\ Identified' /\ Buried'
  BY DEF vars, LoopInv, TypeOK, Identified, Buried, At
<1>2. Nesting'
  BY DEF vars, LoopInv, Nesting
<1>3. \A t \in Tasks : (Busy(t)' <=> Busy(t)) /\ (KeepsLoop(t)' <=> KeepsLoop(t))
  BY DEF vars, Busy, KeepsLoop
<1>4. OneAtATime' /\ SyncAlone'
  BY <1>3, LockAssumption DEF vars, LoopInv, OneAtATime, SyncAlone
<1>5. Counted'
  <2>1. \A p \in Processes : AsyncBusy(p)' = AsyncBusy(p)
    BY <1>3 DEF AsyncBusy
  <2> QED
    BY <2>1 DEF vars, LoopInv, Counted
<1> QED
  BY <1>1, <1>2, <1>4, <1>5 DEF LoopInv

LEMMA LoopInvariant == Spec => []LoopInv
<1>1. LoopInv /\ [Next]_vars => LoopInv'
  BY LoopStep, LoopKilled, LoopTicked, LoopStutters DEF Next
<1> QED
  BY LoopInit, <1>1, PTL DEF Spec

\* Every variable keeps its type: a call that ends was counted as pending.
THEOREM TypeCorrect == Spec => []TypeOK
<1>1. LoopInv => TypeOK
  BY DEF LoopInv
<1> QED
  BY <1>1, LoopInvariant, PTL

\* withRefreshLockSync fails at once in a process whose asynchronous callers
\* are under way, and none of these starts while it runs.
THEOREM SyncNeverBlocks == Spec => []SyncFailsFast
<1>1. LoopInv => SyncFailsFast
  <2> SUFFICES ASSUME LoopInv, NEW s \in Sync, NEW t \in Tasks \ Sync, ProcessOf[s] = ProcessOf[t],
                      task[s].pc \in Acquiring \/ Inside(s)
               PROVE  task[t].pc \in {"idle"} \cup Over
    BY DEF SyncFailsFast
  <2>1. Busy(s) /\ ~task[s].nested
    BY LockAssumption DEF LoopInv, Nesting, Inside, Busy, Over, Acquiring, Section
  <2> QED
    BY <2>1 DEF LoopInv, SyncAlone, Busy
<1> QED
  BY <1>1, LoopInvariant, PTL

\* A call that skips the lock runs inside the callback of the one that holds it.
THEOREM NestedCallsAreCovered == Spec => []NestedUnderLock
<1>1. LoopInv => NestedUnderLock
  <2> SUFFICES ASSUME LoopInv, NEW t \in Tasks, task[t].nested, task[t].pc \in Section
               PROVE  Inside(Parent[t])
    BY DEF NestedUnderLock
  <2>1. Parent[t] \in Tasks \ Sync /\ task[Parent[t]].pc \in Section
    BY LockAssumption DEF LoopInv, Nesting
  <2>2. Parent[Parent[t]] = None
    BY <2>1, LockAssumption
  <2> QED
    BY <2>1, <2>2 DEF LoopInv, Nesting, Inside
<1> QED
  BY <1>1, LoopInvariant, PTL

-----------------------------------------------------------------------------
(* The directory, until a call is overtaken.                               *)

\* Nobody else is between a last look at the directory and its removal when a
\* step changes it.
Unwatched(t) == dir' # dir => \A u \in Tasks \ {t} : task[u].pc \notin Looked

LEMMA Rows ==
  ASSUME LoopInv
  PROVE  /\ TypeOK /\ RestTyped /\ task \in [Tasks -> Calls] /\ dir \in Dirs /\ Stale \in Nat
         /\ now \in Nat /\ made \in Nat /\ dir.id \in Nat /\ dir.mtime \in Nat
         /\ \A t \in Tasks : task[t].since \in Nat /\ task[t].id \in Nat
BY TypeParts, LockAssumption DEF LoopInv, RestTyped, Dirs, Calls

\* What the other calls are to the directory is told by their rows.
LEMMA Bystanders ==
  ASSUME NEW t \in Tasks, Only(t), UNCHANGED now
  PROVE  \A u \in Tasks \ {t} : /\ task'[u] = task[u]
                                /\ (HasDir(u)' <=> HasDir(u)) /\ (Fresh(u)' <=> Fresh(u))
<1> SUFFICES ASSUME NEW u \in Tasks \ {t}
             PROVE  /\ task'[u] = task[u]
                    /\ (HasDir(u)' <=> HasDir(u)) /\ (Fresh(u)' <=> Fresh(u))
  OBVIOUS
<1>1. task'[u] = task[u]
  BY DEF Only
<1> QED
  BY <1>1 DEF HasDir, Fresh, At

\* A call takes no other's directory for its own and makes none.
LEMMA SameDirs ==
  ASSUME LockInv, NEW t \in Tasks, Only(t), UNCHANGED <<now, made>>, dir'.id = dir.id,
         ~Fresh(t)', HasDir(t)' => HasDir(t) /\ task'[t].id = task[t].id
  PROVE  /\ Ids' /\ Distinct' /\ (Exists' <=> Exists)
         /\ \A u \in Tasks : (Fresh(u)' => Fresh(u)) /\ (HasDir(u)' => HasDir(u) /\ task'[u].id = task[u].id)
<1>1. \A u \in Tasks : (Fresh(u)' => Fresh(u)) /\ (HasDir(u)' => HasDir(u) /\ task'[u].id = task[u].id)
  BY Bystanders
<1>2. Ids' /\ Distinct'
  BY <1>1 DEF LockInv, Ids, Distinct
<1> QED
  BY <1>1, <1>2 DEF Exists

\* A step that leaves the directory as it is.
LEMMA Quiet ==
  ASSUME LockInv, NEW t \in Tasks, Only(t), UNCHANGED <<now, dir, made, killed>>,
         ~Fresh(t)', HasDir(t)' => HasDir(t) /\ task'[t].id = task[t].id,
         task'[t].since <= now, KeepsDir(t)', RemovesOld(t)'
  PROVE  LockInv'
<1>1. /\ Ids' /\ Distinct' /\ (Exists' <=> Exists)
      /\ \A u \in Tasks : (Fresh(u)' => Fresh(u)) /\ (HasDir(u)' => HasDir(u) /\ task'[u].id = task[u].id)
  BY SameDirs
<1>2. ASSUME NEW u \in Tasks \ {t}
      PROVE  task'[u].since <= now /\ MakesIt(u)' /\ KeepsDir(u)' /\ RemovesOld(u)'
  <2>1. task'[u] = task[u] /\ (HasDir(u)' <=> HasDir(u)) /\ (Fresh(u)' <=> Fresh(u))
    BY Bystanders
  <2>2. MakesIt(u)'
    BY <1>1, <2>1 DEF LockInv, MakesIt
  <2>3. KeepsDir(u)'
    BY <2>1 DEF LockInv, KeepsDir
  <2>4. RemovesOld(u)'
    BY <1>1, <2>1 DEF LockInv, RemovesOld, IsOld, HasLiveOwner, RecordsOf
  <2> QED
    BY <2>1, <2>2, <2>3, <2>4 DEF LockInv
<1>3. MakesIt(t)'
  BY DEF MakesIt
<1> QED
  BY <1>1, <1>2, <1>3 DEF LockInv

\* A step that may add or remove a record: nobody is between a last look at
\* the directory and its removal, and records of other calls stay.
LEMMA Touching ==
  ASSUME LoopInv, LockInv, NEW t \in Tasks, Only(t), UNCHANGED <<now, made, killed>>,
         dir'.id = dir.id, dir'.mtime \in {dir.mtime, now},
         Unwatched(t),
         \A u \in Tasks \ {t} :
           HasDir(u) /\ dir.id = task[u].id /\ [id |-> dir.id, by |-> u] \in dir.records
             => [id |-> dir.id, by |-> u] \in dir'.records,
         ~Fresh(t)', HasDir(t)' => HasDir(t) /\ task'[t].id = task[t].id,
         task'[t].since <= now, KeepsDir(t)', RemovesOld(t)'
  PROVE  LockInv'
<1>1. CASE dir' = dir
  BY <1>1, Quiet
<1>2. CASE dir' # dir
  <2>1. /\ Ids' /\ Distinct' /\ (Exists' <=> Exists)
        /\ \A u \in Tasks : (Fresh(u)' => Fresh(u)) /\ (HasDir(u)' => HasDir(u) /\ task'[u].id = task[u].id)
    BY SameDirs
  <2>2. ASSUME NEW u \in Tasks \ {t}
        PROVE  task'[u].since <= now /\ MakesIt(u)' /\ KeepsDir(u)' /\ RemovesOld(u)'
    <3>1. task'[u] = task[u] /\ (HasDir(u)' <=> HasDir(u)) /\ (Fresh(u)' <=> Fresh(u))
      BY Bystanders
    <3>2. MakesIt(u)'
      BY <2>1, <3>1, Rows DEF LockInv, MakesIt
    <3>3. KeepsDir(u)'
      BY <3>1 DEF LockInv, KeepsDir
    <3>4. RemovesOld(u)'
      BY <1>2, <3>1 DEF RemovesOld, Removing, Looked, Unwatched
    <3> QED
      BY <3>1, <3>2, <3>3, <3>4 DEF LockInv
  <2>3. MakesIt(t)'
    BY DEF MakesIt
  <2> QED
    BY <2>1, <2>2, <2>3 DEF LockInv
<1> QED
  BY <1>1, <1>2

\* A step that may remove the directory, and ends the call's concern with it.
LEMMA Emptying ==
  ASSUME LoopInv, LockInv, NEW t \in Tasks, Only(t), UNCHANGED <<now, made, killed>>, RemoveEmpty,
         Unwatched(t),
         \A u \in Tasks : ~Fresh(u),
         ~Fresh(t)', ~HasDir(t)', task'[t].since <= now, task'[t].pc \notin Removing
  PROVE  LockInv'
<1>0. KeepsDir(t)' /\ RemovesOld(t)'
  BY DEF KeepsDir, RemovesOld
<1>1. CASE dir' = dir
  BY <1>0, <1>1, Quiet
<1>2. CASE dir' # dir
  <2>1. dir' = NoDir /\ dir.records = {}
    BY <1>2 DEF RemoveEmpty
  <2>2. \A u \in Tasks : (HasDir(u)' => HasDir(u) /\ task'[u].id = task[u].id) /\ ~Fresh(u)'
    BY Bystanders
  <2>3. Ids' /\ Distinct'
    BY <2>1, <2>2, Rows DEF LockInv, Ids, Distinct, NoDir
  <2>4. ASSUME NEW u \in Tasks \ {t} PROVE task'[u].since <= now /\ KeepsDir(u)' /\ RemovesOld(u)'
    <3>1. task'[u] = task[u] /\ (HasDir(u)' <=> HasDir(u)) /\ task[u].pc \notin Looked
      BY <1>2, Bystanders DEF Unwatched
    <3>2. KeepsDir(u)'
      <4> SUFFICES ASSUME HasDir(u) PROVE KeepsDir(u)'
        BY <3>1 DEF KeepsDir
      <4>1. task[u].pc \notin Owning
        BY <2>1 DEF LockInv, KeepsDir
      <4>2. task[u].id # 0 /\ dir'.id = 0
        BY <2>1, Rows DEF LockInv, Ids, NoDir
      <4> QED
        BY <3>1, <4>1, <4>2 DEF KeepsDir, Looked
    <3>3. RemovesOld(u)'
      BY <3>1 DEF RemovesOld, Removing, Looked
    <3> QED
      BY <3>1, <3>2, <3>3 DEF LockInv
  <2>5. \A u \in Tasks : MakesIt(u)'
    BY <2>2 DEF MakesIt
  <2> QED
    BY <1>0, <2>3, <2>4, <2>5 DEF LockInv
<1> QED
  BY <1>1, <1>2

\* A record of the call's own identity is not one that another call keeps.
LEMMA OthersRecords ==
  ASSUME LoopInv, LockInv, NEW t \in Tasks, HasDir(t), RemoveRecord(task[t].id)
  PROVE  /\ dir'.id = dir.id /\ dir'.mtime \in {dir.mtime, now}
         /\ \A u \in Tasks \ {t} :
              HasDir(u) /\ dir.id = task[u].id /\ [id |-> dir.id, by |-> u] \in dir.records
                => [id |-> dir.id, by |-> u] \in dir'.records
<1>1. /\ dir'.id = dir.id /\ dir'.mtime \in {dir.mtime, now}
      /\ dir'.records = dir.records \ RecordsOf(task[t].id)
  BY Rows, RecordRemoved
<1>2. \A u \in Tasks \ {t} : HasDir(u) => task[u].id # task[t].id
  BY DEF LockInv, Distinct
<1> QED
  BY <1>1, <1>2 DEF RecordsOf

\* A call that ends has nothing more to do with the directory.
LEMMA EndsOff ==
  ASSUME TypeOK, NEW t \in Tasks, NEW place \in Over, EndWith(t, place)
  PROVE  /\ Only(t) /\ task'[t].pc = place /\ task'[t].since = 0
         /\ UNCHANGED <<now, made, killed>>
         /\ ~Fresh(t)' /\ ~HasDir(t)' /\ task'[t].pc \notin Removing
         /\ KeepsDir(t)' /\ RemovesOld(t)'
<1>1. place \in Places /\ Gone(t, place) /\ UNCHANGED <<now, made, killed>>
  BY DEF EndWith, Same, Over, Places
<1>2. Only(t) /\ task'[t].pc = place /\ task'[t].since = 0
  BY <1>1, IsGone
<1>3. ~Fresh(t)' /\ ~HasDir(t)' /\ task'[t].pc \notin Removing
  BY <1>2 DEF Over, Fresh, At, HasDir, Identifying, Owning, Section, Removing
<1> QED
  BY <1>1, <1>2, <1>3 DEF KeepsDir, RemovesOld

LEMMA EndsQuietly ==
  ASSUME LoopInv, LockInv, NEW t \in Tasks, NEW place \in Over, EndWith(t, place), UNCHANGED dir
  PROVE  LockInv'
<1>1. TypeOK /\ now \in Nat
  BY Rows
<1>2. /\ Only(t) /\ task'[t].since = 0 /\ UNCHANGED <<now, made, killed>>
      /\ ~Fresh(t)' /\ ~HasDir(t)' /\ KeepsDir(t)' /\ RemovesOld(t)'
  BY <1>1, EndsOff
<1>3. task'[t].since <= now
  BY <1>1, <1>2
<1> QED
  BY <1>2, <1>3, Quiet

\* A call goes on to a place where it is nothing to the directory.
LEMMA GoesAside ==
  ASSUME LoopInv, LockInv, NEW t \in Tasks, NEW place \in {"observe", "mkdir", "wait"},
         Goto(t, place), UNCHANGED <<now, dir, made, killed>>
  PROVE  LockInv'
<1>1. TypeOK /\ place \in Places
  BY Rows DEF Places, Acquiring
<1>2. Only(t) /\ task'[t].pc = place /\ task'[t].since = task[t].since
  BY <1>1, Goes
<1>3. ~Fresh(t)' /\ ~HasDir(t)' /\ task'[t].pc \notin Removing
  BY <1>2 DEF Fresh, At, HasDir, Identifying, Owning, Section, Removing
<1>4. KeepsDir(t)' /\ RemovesOld(t)' /\ task'[t].since <= now
  BY <1>2, <1>3 DEF KeepsDir, RemovesOld, LockInv
<1> QED
  BY <1>2, <1>3, <1>4, Quiet

LEMMA MakingStep ==
  ASSUME LoopInv, LockInv, NEW t \in Tasks, Unwatched(t),
         Begin(t) \/ Abort(t) \/ Mkdir(t) \/ Identify(t)
  PROVE  LockInv'
<1>0. /\ TypeOK /\ RestTyped /\ task \in [Tasks -> Calls] /\ task[t] \in Calls /\ dir \in Dirs
      /\ now \in Nat /\ made \in Nat /\ dir.id \in Nat /\ task[t].since <= now
      /\ ~task[t].nested \/ task[t].pc \in Section
  BY Rows DEF LoopInv, LockInv, Nesting
<1>1. CASE Begin(t)
  <2>1. Only(t) /\ UNCHANGED <<now, dir, made, killed>> /\ task'[t].since = task[t].since
    BY <1>0, <1>1, BeginShape DEF Begin, Same, Goto, Calls
  <2>2. task'[t].pc \in {"read", "failed", "mkdir"} /\ (task'[t].pc = "read" => task'[t].nested)
    BY <1>1, BeginShape
  <2>3. ~Fresh(t)' /\ ~HasDir(t)' /\ task'[t].pc \notin Removing
    BY <2>2 DEF Fresh, At, HasDir, Identifying, Owning, Section, Removing
  <2>4. KeepsDir(t)' /\ RemovesOld(t)' /\ task'[t].since <= now
    BY <1>0, <2>1, <2>3 DEF KeepsDir, RemovesOld
  <2> QED
    BY <2>1, <2>3, <2>4, Quiet
<1>2. CASE Abort(t)
  BY <1>2, EndsQuietly DEF Abort, Over
<1>3. CASE Mkdir(t) /\ Exists
  <2>1. Goto(t, "observe") /\ UNCHANGED <<now, dir, made, killed>>
    BY <1>3 DEF Mkdir
  <2> QED
    BY <2>1, GoesAside
<1>4. CASE Mkdir(t) /\ ~Exists
  <2>1. /\ dir' = [id |-> made + 1, mtime |-> now, records |-> {}] /\ made' = made + 1
        /\ task' = [task EXCEPT ![t].pc = "identify", ![t].since = now] /\ UNCHANGED <<now, killed>>
    BY <1>4 DEF Mkdir
  <2>2. Only(t) /\ task'[t].pc = "identify" /\ task'[t].since = now
    BY <1>0, <2>1 DEF Only, Calls, Places, Acquiring, RestTyped
  <2>3. dir.id = 0 /\ dir'.id = made + 1 /\ dir'.mtime = now /\ dir' # dir
    BY <1>0, <1>4, <2>1 DEF Exists
  <2>4. ~HasDir(t)' /\ task'[t].pc \notin Removing
    BY <2>2 DEF HasDir, Identifying, Owning, Section, Removing
  <2>5. ASSUME NEW u \in Tasks \ {t}
        PROVE  /\ task'[u] = task[u] /\ (HasDir(u)' <=> HasDir(u)) /\ ~Fresh(u)'
               /\ task[u].pc \notin Looked
    <3>1. task'[u] = task[u] /\ (HasDir(u)' <=> HasDir(u)) /\ (Fresh(u)' <=> Fresh(u))
      BY <2>1, <2>2, Bystanders
    <3>2. ~Fresh(u)
      BY <1>4 DEF LockInv, MakesIt
    <3> QED
      BY <2>3, <3>1, <3>2 DEF Unwatched
  <2>6. Ids'
    <3> SUFFICES ASSUME NEW u \in Tasks, HasDir(u)' PROVE task'[u].id \in 1..made'
      BY <1>0, <2>1, <2>3 DEF Ids
    <3>1. u # t /\ HasDir(u) /\ task'[u] = task[u]
      BY <2>4, <2>5
    <3> QED
      BY <1>0, <2>1, <3>1 DEF LockInv, Ids
  <2>7. Distinct'
    BY <2>4, <2>5 DEF LockInv, Distinct
  <2>8. task'[t].since <= now /\ KeepsDir(t)' /\ RemovesOld(t)'
    BY <1>0, <2>2, <2>4 DEF KeepsDir, RemovesOld
  <2>9. MakesIt(t)'
    <3>1. Exists' /\ task'[t].since <= dir'.mtime
      BY <1>0, <2>2, <2>3 DEF Exists
    <3>2. ASSUME NEW u \in Tasks \ {t} PROVE ~Fresh(u)' /\ (HasDir(u)' => task'[u].id # dir'.id)
      <4>1. ~Fresh(u)' /\ (HasDir(u)' => HasDir(u)) /\ task'[u] = task[u]
        BY <2>5
      <4>2. HasDir(u) => task[u].id \in 1..made
        BY DEF LockInv, Ids
      <4> QED
        BY <1>0, <2>3, <4>1, <4>2
    <3> QED
      BY <3>1, <3>2 DEF MakesIt
  <2>10. ASSUME NEW u \in Tasks \ {t}
         PROVE  task'[u].since <= now /\ MakesIt(u)' /\ KeepsDir(u)' /\ RemovesOld(u)'
    <3>1. /\ task'[u] = task[u] /\ (HasDir(u)' <=> HasDir(u)) /\ ~Fresh(u)'
          /\ task[u].pc \notin Looked
      BY <2>5
    <3>2. MakesIt(u)' /\ RemovesOld(u)'
      BY <3>1 DEF MakesIt, RemovesOld, Removing, Looked
    <3>3. KeepsDir(u)'
      <4> SUFFICES ASSUME HasDir(u) PROVE KeepsDir(u)'
        BY <3>1 DEF KeepsDir
      <4>1. task[u].id \in 1..made
        BY DEF LockInv, Ids
      <4>2. task[u].id # dir.id /\ task[u].id # dir'.id
        BY <1>0, <2>3, <4>1
      <4>3. task[u].pc \notin Owning
        BY <4>2 DEF LockInv, KeepsDir
      <4> QED
        BY <3>1, <4>2, <4>3 DEF KeepsDir, Looked
    <3> QED
      BY <3>1, <3>2, <3>3 DEF LockInv
  <2> QED
    BY <2>1, <2>6, <2>7, <2>8, <2>9, <2>10 DEF LockInv
<1>5. CASE Identify(t) /\ (~Exists \/ now - task[t].since > Stale)
  BY <1>5, EndsQuietly DEF Identify, Over
<1>6. CASE Identify(t) /\ ~(~Exists \/ now - task[t].since > Stale)
  <2>1. /\ task' = [task EXCEPT ![t].pc = "own", ![t].id = dir.id, ![t].since = 0]
        /\ Exists /\ Fresh(t) /\ UNCHANGED <<now, dir, made, killed>>
    BY <1>6 DEF Identify, OnlyDir, Same, Fresh
  <2>2. Only(t) /\ task'[t].pc = "own" /\ task'[t].id = dir.id /\ task'[t].since = 0
    <3>1. 0 \in 0..MaxTime /\ dir.id \in 0..MaxDirs
      BY <1>0, LockAssumption DEF Dirs
    <3> QED
      BY <1>0, <2>1, <3>1 DEF Only, Calls, Places, Acquiring
  <2>3. \A u \in Tasks \ {t} : ~Fresh(u) /\ (HasDir(u) => task[u].id # dir.id)
    BY <2>1 DEF LockInv, MakesIt
  <2>4. \A u \in Tasks \ {t} : /\ task'[u] = task[u] /\ ~Fresh(u)'
                               /\ (HasDir(u)' <=> HasDir(u))
    BY <2>1, <2>2, <2>3, Bystanders
  <2>5. ~Fresh(t)' /\ task'[t].pc \notin Removing
    BY <2>2 DEF Fresh, At, Removing
  <2>6. dir.id \in 1..made
    BY <1>0, <2>1 DEF LockInv, Ids, Exists
  <2>7. Ids'
    BY <2>1, <2>2, <2>4, <2>6 DEF LockInv, Ids
  <2>8. Distinct'
    <3> SUFFICES ASSUME NEW u \in Tasks, NEW v \in Tasks, HasDir(u)', HasDir(v)',
                        task'[u].id = task'[v].id
                 PROVE  u = v
      BY DEF Distinct
    <3>1. CASE u = t /\ v # t
      BY <2>2, <2>3, <2>4, <3>1
    <3>2. CASE u # t /\ v = t
      BY <2>2, <2>3, <2>4, <3>2
    <3>3. CASE u # t /\ v # t
      BY <2>4, <3>3 DEF LockInv, Distinct
    <3> QED
      BY <3>1, <3>2, <3>3
  <2>9. KeepsDir(t)' /\ RemovesOld(t)' /\ task'[t].since <= now /\ MakesIt(t)'
    BY <1>0, <2>2, <2>5 DEF KeepsDir, RemovesOld, MakesIt, Owning, Section
  <2>10. ASSUME NEW u \in Tasks \ {t}
         PROVE  task'[u].since <= now /\ MakesIt(u)' /\ KeepsDir(u)' /\ RemovesOld(u)'
    <3>1. task'[u] = task[u] /\ (HasDir(u)' <=> HasDir(u)) /\ ~Fresh(u)'
      BY <2>4
    <3>2. MakesIt(u)' /\ KeepsDir(u)'
      BY <2>1, <3>1 DEF LockInv, MakesIt, KeepsDir
    <3>3. RemovesOld(u)'
      <4>1. \A v \in Tasks : Fresh(v)' => Fresh(v)
        BY <2>4, <2>5
      <4> QED
        BY <2>1, <3>1, <4>1 DEF LockInv, RemovesOld, IsOld, HasLiveOwner, RecordsOf, Exists
    <3> QED
      BY <3>1, <3>2, <3>3 DEF LockInv
  <2> QED
    BY <2>1, <2>7, <2>8, <2>9, <2>10 DEF LockInv
<1> QED
  BY <1>1, <1>2, <1>3, <1>4, <1>5, <1>6

LEMMA RecordingStep ==
  ASSUME LoopInv, LockInv, NEW t \in Tasks, Unwatched(t),
         WriteOwnerRecord(t) \/ Publish(t) \/ Undo(t) \/ UndoStat(t) \/ UndoRmdir(t)
  PROVE  LockInv'
<1>0. /\ TypeOK /\ RestTyped /\ task[t] \in Calls /\ dir \in Dirs /\ now \in Nat
      /\ task[t].since <= now /\ (~task[t].nested \/ task[t].pc \in Section)
  BY Rows DEF LoopInv, LockInv, Nesting
<1>1. CASE WriteOwnerRecord(t)
  <2>0. task[t].pc = "own" /\ HasDir(t) /\ UNCHANGED <<now, made, killed>>
    BY <1>0, <1>1 DEF WriteOwnerRecord, At, HasDir, Identifying, Section, OnlyDir, Same
  <2>1. CASE Goto(t, "undo") /\ UNCHANGED dir
    <3>1. /\ Only(t) /\ task'[t].pc = "undo" /\ task'[t].id = task[t].id
          /\ task'[t].since = task[t].since
      BY <1>0, <2>1, Goes DEF Places, Acquiring
    <3>2. ~Fresh(t)' /\ KeepsDir(t)' /\ RemovesOld(t)'
      BY <3>1 DEF Fresh, At, KeepsDir, RemovesOld, Owning, Section, Removing
    <3> QED
      BY <1>0, <2>0, <2>1, <3>1, <3>2, Quiet
  <2>2. CASE WithRecords(dir.records \cup {[id |-> task[t].id, by |-> t]}) /\ Goto(t, "publish")
    <3>1. /\ Only(t) /\ task'[t].pc = "publish" /\ task'[t].id = task[t].id
          /\ task'[t].since = task[t].since
      BY <1>0, <2>2, Goes DEF Places, Acquiring
    <3>2. /\ dir'.id = dir.id /\ dir'.mtime \in {dir.mtime, now}
          /\ dir'.records = dir.records \cup {[id |-> task[t].id, by |-> t]}
      BY <1>0, <2>2 DEF WithRecords, Dirs
    <3>3. ~Fresh(t)' /\ KeepsDir(t)' /\ RemovesOld(t)'
      BY <3>1, <3>2 DEF Fresh, At, KeepsDir, RemovesOld, Owning, Section, Removing
    <3> QED
      BY <1>0, <2>0, <3>1, <3>2, <3>3, Touching
  <2> QED
    BY <1>1, <2>1, <2>2 DEF WriteOwnerRecord
<1>2. CASE Publish(t)
  <2>1. task[t].pc = "publish" /\ HasDir(t) /\ UNCHANGED <<now, dir, made, killed>>
    BY <1>0, <1>2 DEF Publish, At, HasDir, Identifying, Section, Look, OnlyDir, Same
  <2>2. PICK place \in {"read", "undo"} : Goto(t, place) /\ (place = "read" => dir.id = task[t].id)
    BY <1>2 DEF Publish
  <2>3. place \in Places
    BY DEF Places, Acquiring, Section
  <2>4. /\ Only(t) /\ task'[t].pc = place /\ task'[t].id = task[t].id
        /\ task'[t].since = task[t].since
    BY <1>0, <2>2, <2>3, Goes
  <2>5. ~Fresh(t)' /\ RemovesOld(t)'
    BY <2>4 DEF Fresh, At, RemovesOld, Removing
  <2>6. KeepsDir(t)'
    BY <2>1, <2>2, <2>4 DEF LockInv, KeepsDir, Owning, Section
  <2> QED
    BY <1>0, <2>1, <2>4, <2>5, <2>6, Quiet
<1>3. CASE Undo(t)
  <2>1. /\ task[t].pc = "undo" /\ HasDir(t) /\ UNCHANGED <<now, made, killed>>
        /\ Goto(t, "undo_stat") /\ RemoveRecord(task[t].id)
    BY <1>0, <1>3 DEF Undo, At, HasDir, Identifying, Section, OnlyDir, Same
  <2>2. /\ Only(t) /\ task'[t].pc = "undo_stat" /\ task'[t].id = task[t].id
        /\ task'[t].since = task[t].since
    BY <1>0, <2>1, Goes DEF Places, Acquiring
  <2>3. ~Fresh(t)' /\ KeepsDir(t)' /\ RemovesOld(t)'
    BY <2>2 DEF Fresh, At, KeepsDir, RemovesOld, Owning, Section, Removing
  <2>4. /\ dir'.id = dir.id /\ dir'.mtime \in {dir.mtime, now}
        /\ \A u \in Tasks \ {t} :
             HasDir(u) /\ dir.id = task[u].id /\ [id |-> dir.id, by |-> u] \in dir.records
               => [id |-> dir.id, by |-> u] \in dir'.records
    BY <2>1, OthersRecords
  <2> QED
    BY <1>0, <2>1, <2>2, <2>3, <2>4, Touching
<1>4. CASE UndoStat(t) /\ dir.id = task[t].id
  <2>1. /\ task[t].pc = "undo_stat" /\ HasDir(t) /\ UNCHANGED <<now, dir, made, killed>>
        /\ Goto(t, "undo_rmdir")
    BY <1>0, <1>4 DEF UndoStat, At, HasDir, Identifying, Section, OnlyDir, Same
  <2>2. /\ Only(t) /\ task'[t].pc = "undo_rmdir" /\ task'[t].id = task[t].id
        /\ task'[t].since = task[t].since
    BY <1>0, <2>1, Goes DEF Places, Acquiring
  <2>3. ~Fresh(t)' /\ KeepsDir(t)' /\ RemovesOld(t)'
    BY <1>4, <2>1, <2>2 DEF Fresh, At, KeepsDir, RemovesOld, Owning, Section, Removing
  <2> QED
    BY <1>0, <2>1, <2>2, <2>3, Quiet
<1>5. CASE UndoStat(t) /\ dir.id # task[t].id
  BY <1>5, EndsQuietly DEF UndoStat, Over
<1>6. CASE UndoRmdir(t)
  <2>1. task[t].pc = "undo_rmdir" /\ HasDir(t) /\ RemoveEmpty /\ EndWith(t, "failed")
    BY <1>0, <1>6 DEF UndoRmdir, At, HasDir, Identifying, Section
  <2>2. /\ Only(t) /\ task'[t].since = 0 /\ UNCHANGED <<now, made, killed>>
        /\ ~Fresh(t)' /\ ~HasDir(t)' /\ task'[t].pc \notin Removing
    BY <1>0, <2>1, EndsOff DEF Over
  <2>3. dir.id = task[t].id
    BY <2>1 DEF LockInv, KeepsDir
  <2>4. \A u \in Tasks : ~Fresh(u)
    BY <2>1, <2>3 DEF LockInv, MakesIt, Fresh, At
  <2>5. task'[t].since <= now
    BY <1>0, <2>2
  <2> QED
    BY <2>1, <2>2, <2>4, <2>5, Emptying
<1> QED
  BY <1>1, <1>2, <1>3, <1>4, <1>5, <1>6

LEMMA WaitingStep ==
  ASSUME LoopInv, LockInv, NEW t \in Tasks, Unwatched(t),
         Observe(t) \/ Recheck(t) \/ Judge(t) \/ Unlink(t) \/ Rmdir(t) \/ Wait(t)
  PROVE  LockInv'
<1>0. /\ TypeOK /\ RestTyped /\ task \in [Tasks -> Calls] /\ task[t] \in Calls /\ dir \in Dirs
      /\ now \in Nat /\ Stale \in Nat /\ dir.mtime \in Nat /\ task[t].since <= now
      /\ \A u \in Tasks : task[u].since \in Nat
  BY Rows DEF LockInv
<1>1. CASE Observe(t)
  <2>0. UNCHANGED <<now, dir, made, killed>>
    BY <1>1 DEF Observe, Look, OnlyDir, Same
  <2>1. CASE Exists /\ IsOld
    <3>1. task' = [task EXCEPT ![t].pc = "recheck", ![t].id = dir.id]
      BY <1>1, <2>1 DEF Observe
    <3>2. Only(t) /\ task'[t].pc = "recheck" /\ task'[t].since = task[t].since
      BY <1>0, <3>1 DEF Only, Calls, Places, Acquiring, Dirs
    <3>3. ~Fresh(t)' /\ ~HasDir(t)' /\ KeepsDir(t)' /\ RemovesOld(t)'
      BY <3>2 DEF Fresh, At, HasDir, KeepsDir, RemovesOld, Identifying, Owning, Section, Removing
    <3> QED
      BY <1>0, <2>0, <3>2, <3>3, Quiet
  <2>2. CASE ~(Exists /\ IsOld)
    <3>1. PICK place \in {"wait", "mkdir"} : Goto(t, place)
      BY <1>1, <2>2 DEF Observe
    <3> QED
      BY <2>0, <3>1, GoesAside
  <2> QED
    BY <2>1, <2>2
<1>2. CASE Recheck(t)
  <2>0. UNCHANGED <<now, dir, made, killed>>
    BY <1>2 DEF Recheck, Look, OnlyDir, Same
  <2>1. CASE Exists /\ dir.id = task[t].id /\ IsOld
    <3>1. Goto(t, "judge")
      BY <1>2, <2>1 DEF Recheck
    <3>2. Only(t) /\ task'[t].pc = "judge" /\ task'[t].id = task[t].id /\ task'[t].since = task[t].since
      BY <1>0, <3>1, Goes DEF Places, Acquiring
    <3>3. ~Fresh(t)' /\ ~HasDir(t)' /\ KeepsDir(t)'
      BY <3>2 DEF Fresh, At, HasDir, KeepsDir, Identifying, Owning, Section
    <3>4. RemovesOld(t)'
      BY <2>0, <2>1, <3>2 DEF RemovesOld, Exists, IsOld
    <3> QED
      BY <1>0, <2>0, <3>2, <3>3, <3>4, Quiet
  <2>2. CASE ~(Exists /\ dir.id = task[t].id /\ IsOld)
    <3>1. PICK place \in {"wait", "mkdir"} : Goto(t, place)
      BY <1>2, <2>2 DEF Recheck
    <3> QED
      BY <2>0, <3>1, GoesAside
  <2> QED
    BY <2>1, <2>2
<1>3. CASE Judge(t) /\ HasLiveOwner(t)
  <2>1. Goto(t, "wait") /\ UNCHANGED <<now, dir, made, killed>>
    BY <1>3 DEF Judge, Look, OnlyDir, Same
  <2> QED
    BY <2>1, GoesAside
<1>4. CASE Judge(t) /\ ~HasLiveOwner(t)
  <2>1. Goto(t, "unlink") /\ UNCHANGED <<now, dir, made, killed>> /\ task[t].pc = "judge"
    BY <1>4 DEF Judge, At, Look, OnlyDir, Same
  <2>2. Only(t) /\ task'[t].pc = "unlink" /\ task'[t].id = task[t].id /\ task'[t].since = task[t].since
    BY <1>0, <2>1, Goes DEF Places, Acquiring
  <2>3. ~Fresh(t)' /\ ~HasDir(t)' /\ KeepsDir(t)'
    BY <2>2 DEF Fresh, At, HasDir, KeepsDir, Identifying, Owning, Section
  <2>4. Exists /\ dir.id = task[t].id /\ IsOld
    BY <2>1 DEF LockInv, RemovesOld, Removing
  <2>5. \A u \in Tasks : ~Fresh(u)
    <3> SUFFICES ASSUME NEW u \in Tasks, Fresh(u) PROVE FALSE
      OBVIOUS
    <3>1. task[u].since <= dir.mtime
      BY DEF LockInv, MakesIt
    <3> QED
      BY <1>0, <2>4, <3>1 DEF Fresh, IsOld
  <2>6. \A u \in Tasks : ~Fresh(u)'
    BY <2>1, <2>2, <2>3, <2>5, Bystanders
  <2>7. ~HasLiveOwner(t)' /\ Exists'
    BY <1>4, <2>1, <2>2, <2>4 DEF HasLiveOwner, RecordsOf, Exists
  <2>8. RemovesOld(t)'
    BY <2>1, <2>2, <2>4, <2>6, <2>7 DEF RemovesOld
  <2> QED
    BY <1>0, <2>1, <2>2, <2>3, <2>8, Quiet
<1>5. CASE Unlink(t)
  <2>1. /\ Goto(t, "rmdir") /\ UNCHANGED <<now, made, killed>> /\ task[t].pc = "unlink"
        /\ RemoveRecord(task[t].id)
    BY <1>5 DEF Unlink, At, OnlyDir, Same
  <2>2. Only(t) /\ task'[t].pc = "rmdir" /\ task'[t].id = task[t].id /\ task'[t].since = task[t].since
    BY <1>0, <2>1, Goes DEF Places, Acquiring
  <2>3. /\ dir'.id = dir.id /\ dir'.mtime \in {dir.mtime, now}
        /\ dir'.records = dir.records \ RecordsOf(task[t].id)
    BY <1>0, <2>1, RecordRemoved
  <2>4. /\ Exists /\ dir.id = task[t].id /\ ~HasLiveOwner(t) /\ \A u \in Tasks : ~Fresh(u)
    BY <2>1 DEF LockInv, RemovesOld, Removing
  <2>5. ASSUME NEW u \in Tasks \ {t}, HasDir(u) PROVE [id |-> dir.id, by |-> u] \notin dir.records
    <3>1. u # None /\ ProcessOf[u] \notin killed
      BY <2>5, LockAssumption
      DEF LoopInv, Buried, HasDir, Identifying, Owning, Section, Over
    <3> QED
      BY <2>4, <3>1 DEF HasLiveOwner, RecordsOf
  <2>6. ~Fresh(t)' /\ ~HasDir(t)' /\ KeepsDir(t)'
    BY <2>2 DEF Fresh, At, HasDir, KeepsDir, Identifying, Owning, Section
  <2>7. \A u \in Tasks : ~Fresh(u)'
    BY <2>1, <2>2, <2>4, <2>6, Bystanders
  <2>8. ~HasLiveOwner(t)'
    BY <2>2, <2>3 DEF HasLiveOwner, RecordsOf
  <2>9. RemovesOld(t)'
    BY <2>2, <2>3, <2>4, <2>7, <2>8 DEF RemovesOld, Exists
  <2> QED
    BY <1>0, <2>1, <2>2, <2>3, <2>5, <2>6, <2>9, Touching
<1>6. CASE Rmdir(t) /\ dir.records = {}
  <2>1. Goto(t, "mkdir") /\ UNCHANGED <<now, made, killed>> /\ task[t].pc = "rmdir" /\ RemoveEmpty
    BY <1>6 DEF Rmdir, At, OnlyDir, Same
  <2>2. Only(t) /\ task'[t].pc = "mkdir" /\ task'[t].since = task[t].since
    BY <1>0, <2>1, Goes DEF Places, Acquiring
  <2>3. ~Fresh(t)' /\ ~HasDir(t)' /\ task'[t].pc \notin Removing
    BY <2>2 DEF Fresh, At, HasDir, Identifying, Owning, Section, Removing
  <2>4. \A u \in Tasks : ~Fresh(u)
    BY <2>1 DEF LockInv, RemovesOld, Removing
  <2> QED
    BY <1>0, <2>1, <2>2, <2>3, <2>4, Emptying
<1>7. CASE Rmdir(t) /\ dir.records # {}
  BY <1>7, EndsQuietly DEF Rmdir, Over
<1>8. CASE Wait(t)
  <2>1. CASE now - task[t].started >= Acquire
    BY <1>8, <2>1, EndsQuietly DEF Wait, Over
  <2>2. CASE ~(now - task[t].started >= Acquire)
    BY <1>8, <2>2, GoesAside DEF Wait, OnlyDir, Same
  <2> QED
    BY <2>1, <2>2
<1> QED
  BY <1>1, <1>2, <1>3, <1>4, <1>5, <1>6, <1>7, <1>8

LEMMA HoldingStep ==
  ASSUME LoopInv, LockInv, NEW t \in Tasks, Unwatched(t),
         \/ ReadAll(t) \/ WriteAll(t) \/ Leave(t)
         \/ Release(t) \/ ReleaseUnlink(t) \/ ReleaseRmdir(t)
  PROVE  LockInv'
<1>0. /\ TypeOK /\ RestTyped /\ task \in [Tasks -> Calls] /\ task[t] \in Calls /\ dir \in Dirs
      /\ now \in Nat /\ task[t].since <= now /\ (~task[t].nested \/ task[t].pc \in Section)
      /\ Empty \in Entries
  BY Rows DEF LoopInv, LockInv, Nesting, Empty, Entries
<1>1. CASE ReadAll(t) \/ WriteAll(t) \/ (Leave(t) /\ ~task[t].nested)
  <2>1. UNCHANGED <<now, dir, made, killed>> /\ task[t].pc \in Section
    BY <1>1 DEF ReadAll, WriteAll, Leave, At, Section, Look, OnlyDir, Same
  <2>2. /\ Only(t) /\ task'[t].pc \in Section \cup {"release"} /\ task'[t].id = task[t].id
        /\ task'[t].since = task[t].since /\ task'[t].nested = task[t].nested
    <3>1. CASE ReadAll(t)
      BY <1>0, <3>1 DEF ReadAll, Only, Calls, Places, Section, RestTyped
    <3>2. CASE WriteAll(t)
      BY <1>0, <3>2 DEF WriteAll, Only, Calls, Places, Section
    <3>3. CASE Leave(t) /\ ~task[t].nested
      BY <1>0, <3>3 DEF Leave, Only, Calls, Places, Releasing
    <3> QED
      BY <1>1, <3>1, <3>2, <3>3
  <2>3. ~Fresh(t)' /\ RemovesOld(t)'
    BY <2>2 DEF Fresh, At, RemovesOld, Section, Removing
  <2>4. HasDir(t)' => HasDir(t)
    BY <2>1, <2>2 DEF HasDir, Identifying, Owning
  <2>5. KeepsDir(t)'
    BY <2>1, <2>2, <2>4 DEF LockInv, KeepsDir, Owning, Section
  <2> QED
    BY <1>0, <2>1, <2>2, <2>3, <2>4, <2>5, Quiet
<1>2. CASE Leave(t) /\ task[t].nested
  <2>1. Gone(t, "done") /\ UNCHANGED <<now, dir, made, killed>>
    BY <1>2 DEF Leave, Look, OnlyDir, Same
  <2>2. Only(t) /\ task'[t].pc = "done" /\ task'[t].since = 0
    BY <1>0, <2>1, IsGone DEF Places
  <2>3. ~Fresh(t)' /\ ~HasDir(t)' /\ KeepsDir(t)' /\ RemovesOld(t)'
    BY <2>2 DEF Fresh, At, HasDir, KeepsDir, RemovesOld, Identifying, Owning, Section, Removing
  <2> QED
    BY <1>0, <2>1, <2>2, <2>3, Quiet
<1>3. CASE Release(t)
  <2>0. task[t].pc = "release" /\ HasDir(t)
    BY <1>0, <1>3 DEF Release, At, HasDir, Identifying, Owning, Section
  <2>1. CASE dir.id = task[t].id /\ Goto(t, "release_unlink") /\ UNCHANGED dir /\ OnlyDir
    <3>1. /\ Only(t) /\ task'[t].pc = "release_unlink" /\ task'[t].id = task[t].id
          /\ task'[t].since = task[t].since /\ UNCHANGED <<now, made, killed>>
      BY <1>0, <2>1, Goes DEF Places, Releasing, OnlyDir, Same
    <3>2. ~Fresh(t)' /\ RemovesOld(t)'
      BY <3>1 DEF Fresh, At, RemovesOld, Removing
    <3>3. KeepsDir(t)'
      BY <2>0, <2>1, <3>1 DEF LockInv, KeepsDir, Owning, Section
    <3> QED
      BY <1>0, <2>0, <2>1, <3>1, <3>2, <3>3, Quiet
  <2>2. CASE RemoveRecord(task[t].id) /\ EndWith(t, "done")
    <3>1. /\ Only(t) /\ task'[t].since = 0 /\ UNCHANGED <<now, made, killed>>
          /\ ~Fresh(t)' /\ ~HasDir(t)' /\ KeepsDir(t)' /\ RemovesOld(t)'
      BY <1>0, <2>2, EndsOff DEF Over
    <3>2. /\ dir'.id = dir.id /\ dir'.mtime \in {dir.mtime, now}
          /\ \A u \in Tasks \ {t} :
               HasDir(u) /\ dir.id = task[u].id /\ [id |-> dir.id, by |-> u] \in dir.records
                 => [id |-> dir.id, by |-> u] \in dir'.records
      BY <2>0, <2>2, OthersRecords
    <3> QED
      BY <1>0, <3>1, <3>2, Touching
  <2> QED
    BY <1>3, <2>1, <2>2 DEF Release
<1>4. CASE ReleaseUnlink(t)
  <2>0. task[t].pc = "release_unlink" /\ HasDir(t) /\ RemoveRecord(task[t].id)
    BY <1>0, <1>4 DEF ReleaseUnlink, At, HasDir, Identifying, Owning, Section
  <2>1. /\ dir'.id = dir.id /\ dir'.mtime \in {dir.mtime, now}
        /\ \A u \in Tasks \ {t} :
             HasDir(u) /\ dir.id = task[u].id /\ [id |-> dir.id, by |-> u] \in dir.records
               => [id |-> dir.id, by |-> u] \in dir'.records
    BY <2>0, OthersRecords
  <2>2. CASE EndWith(t, "done")
    <3>1. /\ Only(t) /\ task'[t].since = 0 /\ UNCHANGED <<now, made, killed>>
          /\ ~Fresh(t)' /\ ~HasDir(t)' /\ KeepsDir(t)' /\ RemovesOld(t)'
      BY <1>0, <2>2, EndsOff DEF Over
    <3> QED
      BY <1>0, <2>1, <3>1, Touching
  <2>3. CASE Goto(t, "release_rmdir") /\ OnlyDir
    <3>1. /\ Only(t) /\ task'[t].pc = "release_rmdir" /\ task'[t].id = task[t].id
          /\ task'[t].since = task[t].since /\ UNCHANGED <<now, made, killed>>
      BY <1>0, <2>3, Goes DEF Places, Releasing, OnlyDir, Same
    <3>2. ~Fresh(t)' /\ RemovesOld(t)'
      BY <3>1 DEF Fresh, At, RemovesOld, Removing
    <3>3. dir.id = task[t].id
      BY <2>0 DEF LockInv, KeepsDir, Owning
    <3>4. KeepsDir(t)'
      BY <2>1, <3>1, <3>3 DEF KeepsDir, Owning, Section
    <3> QED
      BY <1>0, <2>0, <2>1, <3>1, <3>2, <3>4, Touching
  <2> QED
    BY <1>4, <2>2, <2>3 DEF ReleaseUnlink
<1>5. CASE ReleaseRmdir(t)
  <2>1. task[t].pc = "release_rmdir" /\ HasDir(t) /\ RemoveEmpty /\ EndWith(t, "done")
    BY <1>0, <1>5 DEF ReleaseRmdir, At, HasDir, Identifying, Section
  <2>2. /\ Only(t) /\ task'[t].since = 0 /\ UNCHANGED <<now, made, killed>>
        /\ ~Fresh(t)' /\ ~HasDir(t)' /\ task'[t].pc \notin Removing
    BY <1>0, <2>1, EndsOff DEF Over
  <2>3. dir.id = task[t].id
    BY <2>1 DEF LockInv, KeepsDir
  <2>4. \A u \in Tasks : ~Fresh(u)
    BY <2>1, <2>3 DEF LockInv, MakesIt, Fresh, At
  <2>5. task'[t].since <= now
    BY <1>0, <2>2
  <2> QED
    BY <2>1, <2>2, <2>4, <2>5, Emptying
<1> QED
  BY <1>1, <1>2, <1>3, <1>4, <1>5

LEMMA LockKilled ==
  ASSUME LoopInv, LockInv, NEW p \in Processes, Kill(p)
  PROVE  LockInv'
<1>1. /\ UNCHANGED <<now, dir, made>> /\ killed \subseteq killed'
      /\ \A t \in Tasks : task'[t] = task[t] \/ task'[t] = Dead
  BY DEF Kill, Dead
<1>2. Dead.pc = "dead" /\ Dead.since = 0
  BY DEF Dead, Idle
<1>3. \A t \in Tasks : HasDir(t)' \/ Fresh(t)' \/ task'[t].pc \in Removing => task'[t] = task[t]
  BY <1>1, <1>2 DEF HasDir, Fresh, At, Identifying, Owning, Section, Removing
<1>4. \A t \in Tasks : (HasDir(t)' => HasDir(t)) /\ (Fresh(t)' => Fresh(t))
  BY <1>1, <1>3 DEF HasDir, Fresh, At
<1>5. Ids' /\ Distinct'
  BY <1>1, <1>3, <1>4 DEF LockInv, Ids, Distinct
<1>6. ASSUME NEW t \in Tasks PROVE task'[t].since <= now'
  BY <1>1, <1>2, Rows DEF LockInv
<1>7. ASSUME NEW t \in Tasks PROVE MakesIt(t)' /\ KeepsDir(t)'
  BY <1>1, <1>3, <1>4 DEF LockInv, MakesIt, KeepsDir, Exists
<1>8. ASSUME NEW t \in Tasks PROVE RemovesOld(t)'
  <2> SUFFICES ASSUME task'[t].pc \in Removing PROVE RemovesOld(t)'
    BY DEF RemovesOld
  <2>1. task'[t] = task[t]
    BY <1>3
  <2>2. HasLiveOwner(t)' => HasLiveOwner(t)
    BY <1>1, <2>1 DEF HasLiveOwner, RecordsOf
  <2> QED
    BY <1>1, <1>4, <2>1, <2>2 DEF LockInv, RemovesOld, Exists, IsOld
<1> QED
  BY <1>5, <1>6, <1>7, <1>8 DEF LockInv

LEMMA LockTicked ==
  ASSUME LoopInv, LockInv, Tick
  PROVE  LockInv'
<1>1. /\ now' = now + 1 /\ UNCHANGED <<dir, made, killed, task>>
      /\ now \in Nat /\ dir.mtime \in Nat /\ Stale \in Nat /\ \A t \in Tasks : task[t].since \in Nat
  BY Rows DEF Tick
<1>2. \A t \in Tasks : (HasDir(t)' <=> HasDir(t)) /\ (Fresh(t)' => Fresh(t))
  BY <1>1 DEF HasDir, Fresh, At
<1>3. Ids' /\ Distinct'
  BY <1>1, <1>2 DEF LockInv, Ids, Distinct
<1>4. ASSUME NEW t \in Tasks PROVE task'[t].since <= now' /\ MakesIt(t)' /\ KeepsDir(t)'
  BY <1>1, <1>2 DEF LockInv, MakesIt, KeepsDir, Exists
<1>5. ASSUME NEW t \in Tasks PROVE RemovesOld(t)'
  BY <1>1, <1>2 DEF LockInv, RemovesOld, Exists, IsOld, HasLiveOwner, RecordsOf
<1> QED
  BY <1>3, <1>4, <1>5 DEF LockInv

LEMMA LockStutters ==
  ASSUME LockInv, UNCHANGED vars
  PROVE  LockInv'
<1>1. \A t \in Tasks : (HasDir(t)' <=> HasDir(t)) /\ (Fresh(t)' <=> Fresh(t))
  BY DEF vars, HasDir, Fresh, At
<1>2. Ids' /\ Distinct'
  BY <1>1 DEF vars, LockInv, Ids, Distinct
<1>3. ASSUME NEW t \in Tasks PROVE task'[t].since <= now' /\ MakesIt(t)' /\ KeepsDir(t)'
  BY <1>1 DEF vars, LockInv, MakesIt, KeepsDir, Exists
<1>4. ASSUME NEW t \in Tasks PROVE RemovesOld(t)'
  BY <1>1 DEF vars, LockInv, RemovesOld, Exists, IsOld, HasLiveOwner, RecordsOf
<1> QED
  BY <1>2, <1>3, <1>4 DEF LockInv

LEMMA LockInit ==
  Init => LockInv
<1> SUFFICES ASSUME Init PROVE LockInv
  OBVIOUS
<1>1. \A t \in Tasks : task[t].pc = "idle" /\ task[t].since = 0
  BY DEF Init, Idle
<1>2. now = 0 /\ made = dir.id /\ dir.id \in {0, 1}
  BY DEF Init, NoDir, Abandoned
<1>3. \A t \in Tasks : ~HasDir(t) /\ ~Fresh(t) /\ task[t].pc \notin Removing
  BY <1>1 DEF HasDir, Fresh, At, Identifying, Owning, Section, Removing
<1> QED
  BY <1>1, <1>2, <1>3 DEF LockInv, Ids, Distinct, MakesIt, KeepsDir, RemovesOld

\* A step that overtakes nobody keeps what holds of the directory.
LEMMA LockStep ==
  ASSUME LoopInv, LockInv, Next, ~Overtakes
  PROVE  LockInv'
<1>1. ASSUME NEW t \in Tasks, Step(t) \/ Abort(t) PROVE LockInv'
  <2>1. Only(t)
    BY <1>1, StepShape, BeginShape DEF GoesOn, Ends
  <2>2. Unwatched(t)
    BY <2>1 DEF Overtakes, Unwatched, Only
  <2> QED
    BY <1>1, <2>2, MakingStep, RecordingStep, WaitingStep, HoldingStep DEF Step
<1> QED
  BY <1>1, LockKilled, LockTicked DEF Next

\* A call that runs its callback has the directory, and no two have the same.
LEMMA LockExcludes ==
  ASSUME LockInv PROVE MutualExclusion /\ HolderKeepsLock
<1>1. \A t \in Tasks : Inside(t) => HasDir(t) /\ task[t].pc \in Owning
  BY DEF Inside, HasDir, Identifying, Owning
<1>2. \A t \in Tasks : Inside(t) => /\ dir.id = task[t].id
                                    /\ [id |-> dir.id, by |-> t] \in dir.records
  BY <1>1 DEF LockInv, KeepsDir
<1>3. MutualExclusion
  BY <1>1, <1>2 DEF LockInv, Distinct, MutualExclusion
<1>4. HolderKeepsLock
  BY <1>2 DEF HolderKeepsLock
<1> QED
  BY <1>3, <1>4

-----------------------------------------------------------------------------
(* The file.                                                               *)

\* Of the calls of all processes one is between its read and its write.
LEMMA OneWriter ==
  ASSUME LoopInv, MutualExclusion, CopyTrue, NEW t \in Tasks, NEW u \in Tasks,
         At(t, "write"), At(u, "write")
  PROVE  t = u
<1>1. ASSUME NEW v \in Tasks, At(v, "write"), task[v].nested
      PROVE  /\ Parent[v] \in Tasks /\ Inside(Parent[v]) /\ v \in Sync
             /\ ProcessOf[Parent[v]] = ProcessOf[v] /\ ~At(Parent[v], "write")
  <2>1. Parent[v] \in Tasks \ Sync /\ task[Parent[v]].pc \in Section /\ v \in Sync
    BY <1>1, LockAssumption DEF LoopInv, Nesting
  <2>2. ~task[Parent[v]].nested
    BY <2>1, LockAssumption DEF LoopInv, Nesting
  <2>3. ~At(Parent[v], "write")
    BY <2>1 DEF CopyTrue
  <2> QED
    BY <2>1, <2>2, <2>3, LockAssumption DEF Inside
<1>2. \A v \in Tasks : At(v, "write") /\ ~task[v].nested => Inside(v)
  BY DEF At, Inside, Section
<1>3. CASE task[t].nested /\ task[u].nested
  <2>1. Parent[t] = Parent[u]
    BY <1>1, <1>3 DEF MutualExclusion
  <2>2. ProcessOf[t] = ProcessOf[u] /\ KeepsLoop(t) /\ KeepsLoop(u)
    BY <1>1, <1>3, <2>1 DEF KeepsLoop, At
  <2> QED
    BY <2>2 DEF LoopInv, OneAtATime
<1>4. CASE ~task[t].nested /\ ~task[u].nested
  BY <1>2, <1>4 DEF MutualExclusion
<1>5. CASE task[t].nested /\ ~task[u].nested
  BY <1>1, <1>2, <1>5 DEF MutualExclusion
<1>6. CASE ~task[t].nested /\ task[u].nested
  BY <1>1, <1>2, <1>6 DEF MutualExclusion
<1> QED
  BY <1>3, <1>4, <1>5, <1>6

LEMMA FileStep ==
  ASSUME LoopInv, MutualExclusion, CopyTrue, NoLostWrite, NEW t \in Tasks, Step(t) \/ Abort(t)
  PROVE  CopyTrue' /\ NoLostWrite'
<1>0. /\ TypeOK /\ task \in [Tasks -> Calls] /\ task[t] \in Calls /\ Only(t)
      /\ file \in Entries /\ wrote \subseteq Tasks /\ CloudOf \in [Tasks -> Clouds]
  BY TypeParts, StepShape, BeginShape, LockAssumption DEF LoopInv, RestTyped, GoesOn, Ends
<1>1. CASE WriteAll(t)
  <2>1. /\ task[t].pc = "write" /\ file' = [task[t].copy EXCEPT ![CloudOf[t]] = t]
        /\ wrote' = wrote \cup {t} /\ task' = [task EXCEPT ![t].pc = "leave", ![t].copy = Empty]
    BY <1>1 DEF WriteAll, At
  <2>2. task[t].copy = file
    BY <2>1 DEF CopyTrue, At
  <2>3. task'[t].pc = "leave"
    BY <1>0, <2>1 DEF Calls
  <2>4. \A u \in Tasks : ~At(u, "write")'
    <3> SUFFICES ASSUME NEW u \in Tasks, task'[u].pc = "write" PROVE FALSE
      BY DEF At
    <3>1. u # t /\ task[u].pc = "write"
      BY <1>0, <2>3 DEF Only
    <3> QED
      BY <2>1, <3>1, OneWriter DEF At
  <2>5. NoLostWrite'
    <3> SUFFICES ASSUME NEW s \in wrote'
                 PROVE  \E u \in wrote' : CloudOf[u] = CloudOf[s] /\ file'[CloudOf[s]] = u
      BY DEF NoLostWrite
    <3>1. \A c \in Clouds : file'[c] = IF c = CloudOf[t] THEN t ELSE file[c]
      BY <1>0, <2>1, <2>2 DEF Entries
    <3>2. CASE CloudOf[s] = CloudOf[t]
      BY <1>0, <2>1, <3>1, <3>2
    <3>3. CASE CloudOf[s] # CloudOf[t]
      <4>1. s \in wrote /\ s \in Tasks
        BY <1>0, <2>1, <3>3
      <4>2. PICK u \in wrote : CloudOf[u] = CloudOf[s] /\ file[CloudOf[s]] = u
        BY <4>1 DEF NoLostWrite
      <4> QED
        BY <1>0, <2>1, <3>1, <3>3, <4>1, <4>2
    <3> QED
      BY <3>2, <3>3
  <2> QED
    BY <2>4, <2>5 DEF CopyTrue
<1>2. CASE UNCHANGED <<file, wrote>> /\ task'[t].pc # "write"
  BY <1>0, <1>2 DEF CopyTrue, NoLostWrite, Only, At
<1>3. CASE ReadAll(t)
  <2>1. /\ UNCHANGED <<file, wrote>> /\ task' = [task EXCEPT ![t].pc = "write", ![t].copy = file]
        /\ \A u \in Tasks : Parent[u] # t
    BY <1>3 DEF ReadAll, Look, OnlyDir, Same
  <2>2. task'[t].copy = file
    BY <1>0, <2>1 DEF Calls
  <2> QED
    BY <1>0, <2>1, <2>2 DEF CopyTrue, NoLostWrite, Only, At
<1>4. UNCHANGED <<file, wrote>> \/ WriteAll(t)
  BY DEF Step, Begin, Abort, Mkdir, Identify, WriteOwnerRecord, Publish, Undo, UndoStat, UndoRmdir,
         Observe, Recheck, Judge, Unlink, Rmdir, Wait, ReadAll, Leave, Release, ReleaseUnlink,
         ReleaseRmdir, EndWith, OnlyDir, Look, Same
<1>5. task'[t].pc # "write" \/ ReadAll(t)
  <2> SUFFICES ASSUME task'[t].pc = "write", ~ReadAll(t) PROVE FALSE
    OBVIOUS
  <2>1. ~Begin(t)
    BY BeginShape
  <2>2. \A place \in Places \ {"write"} : ~Goto(t, place) /\ ~Gone(t, place)
    BY EndPlace DEF LoopInv
  <2>3. ~Mkdir(t)
    BY <1>0, <2>2 DEF Mkdir, Places, Acquiring, Calls
  <2>4. ~Identify(t)
    BY <1>0, <2>2 DEF Identify, EndWith, Places, Calls
  <2>5. ~Observe(t)
    BY <1>0, <2>2 DEF Observe, Places, Acquiring, Calls
  <2>6. ~WriteAll(t)
    BY <1>0 DEF WriteAll, Calls
  <2>7. ~Leave(t)
    BY <1>0, <2>2 DEF Leave, Places, Calls
  <2>8. ~Abort(t) /\ ~WriteOwnerRecord(t) /\ ~Publish(t) /\ ~Undo(t) /\ ~UndoStat(t) /\ ~UndoRmdir(t)
    BY <2>2 DEF Abort, WriteOwnerRecord, Publish, Undo, UndoStat, UndoRmdir, EndWith,
                Places, Acquiring, Section
  <2>9. ~Recheck(t) /\ ~Judge(t) /\ ~Unlink(t) /\ ~Rmdir(t) /\ ~Wait(t)
    BY <2>2 DEF Recheck, Judge, Unlink, Rmdir, Wait, EndWith, Places, Acquiring
  <2>10. ~Release(t) /\ ~ReleaseUnlink(t) /\ ~ReleaseRmdir(t)
    BY <2>2 DEF Release, ReleaseUnlink, ReleaseRmdir, EndWith, Places, Releasing
  <2> QED
    BY <2>1, <2>3, <2>4, <2>5, <2>6, <2>7, <2>8, <2>9, <2>10 DEF Step
<1> QED
  BY <1>1, <1>2, <1>3, <1>4, <1>5

-----------------------------------------------------------------------------
(* The history: what holds until a call is overtaken.                      *)

LEMMA HistoryInvariant == HSpec => []IInv
<1>1. Init /\ overtaken = FALSE => IInv
  BY LoopInit, LockInit DEF IInv, Init, CopyTrue, NoLostWrite, At, Idle
<1>2. IInv /\ [HNext]_<<vars, overtaken>> => IInv'
  <2> SUFFICES ASSUME IInv, [HNext]_<<vars, overtaken>> PROVE IInv'
    OBVIOUS
  <2>1. LoopInv'
    BY LoopStep, LoopKilled, LoopTicked, LoopStutters DEF IInv, HNext, Next
  <2>2. CASE overtaken'
    BY <2>1, <2>2 DEF IInv
  <2>3. CASE ~overtaken' /\ HNext
    <3>1. /\ Next /\ ~Overtakes /\ LoopInv /\ LockInv /\ CopyTrue /\ NoLostWrite
          /\ MutualExclusion
      BY <2>3, LockExcludes DEF HNext, IInv
    <3>2. LockInv'
      BY <3>1, LockStep
    <3>3. CASE \E t \in Tasks : Step(t) \/ Abort(t)
      BY <2>1, <3>1, <3>2, <3>3, FileStep DEF IInv
    <3>4. CASE \E p \in Processes : Kill(p)
      <4>1. /\ UNCHANGED <<file, wrote>>
            /\ \A t \in Tasks : task'[t] = task[t] \/ task'[t] = Dead
        BY <3>4 DEF Kill, Dead
      <4>2. Dead.pc # "write"
        BY DEF Dead, Idle
      <4>3. CopyTrue' /\ NoLostWrite'
        BY <3>1, <4>1, <4>2 DEF CopyTrue, NoLostWrite, At
      <4> QED
        BY <2>1, <3>2, <4>3 DEF IInv
    <3>5. CASE Tick
      <4>1. CopyTrue' /\ NoLostWrite'
        BY <3>1, <3>5 DEF Tick, CopyTrue, NoLostWrite, At
      <4> QED
        BY <2>1, <3>2, <4>1 DEF IInv
    <3> QED
      BY <3>1, <3>3, <3>4, <3>5 DEF Next
  <2>4. CASE ~overtaken' /\ UNCHANGED <<vars, overtaken>>
    <3>1. LockInv /\ CopyTrue /\ NoLostWrite /\ UNCHANGED vars
      BY <2>4 DEF IInv
    <3>2. LockInv'
      BY <3>1, LockStutters
    <3>3. CopyTrue' /\ NoLostWrite'
      BY <3>1 DEF vars, CopyTrue, NoLostWrite, At
    <3> QED
      BY <2>1, <3>2, <3>3 DEF IInv
  <2> QED
    BY <2>2, <2>3, <2>4
<1> QED
  BY <1>1, <1>2, PTL DEF HSpec, HInit

\* One call at a time runs its callback, however slow its holder, however long
\* any process was suspended and whoever was killed, until another call changes
\* the directory between a call's last look at it and its removal.
THEOREM MutuallyExclusive == HSpec => []ExclusiveUntilOvertaken
<1>1. IInv => ExclusiveUntilOvertaken
  BY LockExcludes DEF IInv, ExclusiveUntilOvertaken
<1> QED
  BY <1>1, HistoryInvariant, PTL

\* Until then the directory and the record of a call that runs its callback
\* stay in place.
THEOREM HoldersKeepTheirLock == HSpec => []HeldUntilOvertaken
<1>1. IInv => HeldUntilOvertaken
  BY LockExcludes DEF IInv, HeldUntilOvertaken
<1> QED
  BY <1>1, HistoryInvariant, PTL

\* Until then each entry of credentials.json holds what a call for it wrote:
\* every call writes back the file as it stands.
THEOREM NoWriteIsLost == HSpec => []WrittenUntilOvertaken
<1>1. IInv => WrittenUntilOvertaken
  BY DEF IInv, WrittenUntilOvertaken
<1> QED
  BY <1>1, HistoryInvariant, PTL
=============================================================================
