----------------------------- MODULE RefreshLock -----------------------------
(***************************************************************************)
(* The lock around every mutation of a credential store                    *)
(* (packages/core/src/credentials/refresh-lock.ts) and the read-modify-    *)
(* write of credentials.json under it (file-store.ts).                     *)
(*                                                                         *)
(* The lock is a directory made by an atomic mkdir.  It holds one record,  *)
(* named after the directory's identity (inode and birth time) and naming  *)
(* the owner's process.  A directory older than Stale whose record names   *)
(* no living process is removed by whoever waits for it.  Every file-      *)
(* system call is a step, so that calls of other processes come between;   *)
(* a task of the same process comes between only where the code awaits.    *)
(***************************************************************************)
EXTENDS Naturals, Sequences, FiniteSets

CONSTANTS
  Processes, Tasks,  \* processes, and the calls of the lock they make
  ProcessOf,         \* the process of each call
  Sync,              \* the calls of withRefreshLockSync; the others are async
  Parent,            \* the call in whose callback a call is made, or None
  Clouds, CloudOf,   \* the entries of the file, and the one each call writes
  None,
  Stale,             \* REFRESH_LOCK_STALE_MS
  Acquire,           \* REFRESH_LOCK_ACQUIRE_MS
  LeftBehind,        \* what a process that ended before may have left of its lock
  MaxTime, MaxDirs, MaxKills   \* bounds

ASSUME LockAssumption ==
  /\ None \notin Tasks \cup Processes /\ IsFiniteSet(Tasks)
  /\ ProcessOf \in [Tasks -> Processes] /\ CloudOf \in [Tasks -> Clouds]
  /\ Sync \subseteq Tasks
  /\ Parent \in [Tasks -> Tasks \cup {None}]
  \* Inside a callback the store's synchronous mutators are called.
  /\ \A t \in Tasks : Parent[t] # None => t \in Sync /\ ProcessOf[Parent[t]] = ProcessOf[t]
  /\ LeftBehind \subseteq {"unnamed", "named"}
  /\ {Stale, Acquire, MaxTime, MaxDirs, MaxKills} \subseteq Nat /\ MaxDirs > 0

VARIABLES
  now,
  dir,      \* the directory at the lock's path: id (0: none), mtime, records
  made,     \* how many directories were ever made at that path
  file,     \* credentials.json: whose write each entry holds
  wrote,    \* calls whose write has completed
  pending,  \* asyncPending, per process
  killed,   \* processes that were killed
  task      \* each call's place and locals

vars == <<now, dir, made, file, wrote, pending, killed, task>>

Acquiring == {"mkdir", "identify", "own", "publish", "undo", "undo_stat", "undo_rmdir",
              "observe", "recheck", "judge", "unlink", "rmdir", "wait"}
Section == {"read", "write", "leave"}
Releasing == {"release", "release_unlink", "release_rmdir"}
Places == {"idle", "done", "failed", "obstructed", "dead"} \cup Acquiring \cup Section \cup Releasing

\* A record file in the directory: the identity in its name, the call whose
\* process it names (None: a process that ended long ago).
Records == [id : 1..MaxDirs, by : Tasks \cup {None}]
Entries == [Clouds -> Tasks \cup {None}]
NoDir == [id |-> 0, mtime |-> 0, records |-> {}]
Empty == [c \in Clouds |-> None]
Idle == [pc |-> "idle", id |-> 0, since |-> 0, started |-> 0, nested |-> FALSE, copy |-> Empty]

At(t, place) == task[t].pc = place
Goto(t, place) == task' = [task EXCEPT ![t].pc = place]
Exists == dir.id # 0
IsOld == now - dir.mtime > Stale
RecordsOf(id) == {r \in dir.records : r.id = id}

\* rmdir removes whatever directory is at the path, if it is empty.
RemoveEmpty == dir' = IF dir.records = {} THEN NoDir ELSE dir

\* Adding or removing an entry touches the directory.
WithRecords(records) ==
  dir' = IF records = dir.records THEN dir ELSE [dir EXCEPT !.records = records, !.mtime = now]

\* removeOwnerRecordIfMatches, removeStaleOwnerRecord
RemoveRecord(id) == WithRecords(dir.records \ RecordsOf(id))

\* Between two awaits, or in a synchronous call, a process runs nothing else.
KeepsLoop(t) ==
  \/ t \in Sync /\ task[t].pc \notin {"idle", "done", "failed", "obstructed", "dead"}
  \/ task[t].pc \in {"own", "undo", "judge", "unlink", "release_unlink"}
Runs(t) ==
  /\ ProcessOf[t] \notin killed
  /\ \A u \in Tasks \ {t} : ProcessOf[u] = ProcessOf[t] => ~KeepsLoop(u)

Same == UNCHANGED <<now, made, file, wrote, killed>>
OnlyDir == Same /\ UNCHANGED pending
Look == OnlyDir /\ UNCHANGED dir

\* Bug: a synchronous call, which never counted, is uncounted.
UnmarkSync(t) == pending' = [pending EXCEPT ![ProcessOf[t]] = @ - 1]

\* Bug: a flag instead of a count.
UnmarkAll(t) ==
  pending' = IF t \in Sync THEN pending ELSE [pending EXCEPT ![ProcessOf[t]] = 0]

\* The end of a call: an async one leaves asyncPending.
Unmark(t) ==
  pending' = IF t \in Sync THEN pending ELSE [pending EXCEPT ![ProcessOf[t]] = @ - 1]

\* Its locals are gone with it.
Gone(t, place) == task' = [task EXCEPT ![t] = [Idle EXCEPT !.pc = place]]
EndWith(t, place) == Gone(t, place) /\ Unmark(t) /\ Same

-----------------------------------------------------------------------------
(* Entering.                                                               *)

Entered(t) == task[t].pc \in Section \cup Releasing \cup {"done"}

\* Bug: a token that release does not clear.
LiveForEver(t) == Entered(t)

\* A held token counts while its callback runs, and no longer.
Live(t) == task[t].pc \in Section

HoldsLock(t) == Parent[t] # None /\ Live(Parent[t])

\* A call made in a callback inherits its context, and may be made later.
Begin(t) ==
  /\ At(t, "idle") /\ Runs(t) /\ now + Acquire <= MaxTime
  /\ Parent[t] # None => Entered(Parent[t])
  /\ \/ /\ HoldsLock(t)
        /\ task' = [task EXCEPT ![t].pc = "read", ![t].nested = TRUE]
        /\ UNCHANGED pending
     \/ /\ ~HoldsLock(t) /\ t \in Sync /\ pending[ProcessOf[t]] > 0
        /\ Goto(t, "failed") /\ UNCHANGED pending
     \/ /\ ~HoldsLock(t) /\ (t \in Sync => pending[ProcessOf[t]] = 0)
        /\ task' = [task EXCEPT ![t].pc = "mkdir", ![t].started = now]
        /\ pending' = IF t \in Sync THEN pending
                      ELSE [pending EXCEPT ![ProcessOf[t]] = @ + 1]
  /\ Same /\ UNCHANGED dir

\* throwIfAborted, at the head of the loop and while waiting.
Abort(t) ==
  /\ task[t].pc \in {"mkdir", "wait"} /\ t \notin Sync /\ Runs(t)
  /\ EndWith(t, "failed") /\ UNCHANGED dir

Mkdir(t) ==
  /\ At(t, "mkdir") /\ Runs(t)
  /\ \/ /\ ~Exists /\ made < MaxDirs
        /\ made' = made + 1
        /\ dir' = [id |-> made + 1, mtime |-> now, records |-> {}]
        /\ task' = [task EXCEPT ![t].pc = "identify", ![t].since = now]
     \/ Exists /\ Goto(t, "observe") /\ UNCHANGED <<dir, made>>
  /\ UNCHANGED <<now, file, wrote, killed, pending>>

\* Bug: however long ago that was.
IdentifyAnyway(t) ==
  /\ At(t, "identify") /\ Runs(t)
  /\ IF ~Exists
     THEN EndWith(t, "failed")
     ELSE /\ task' = [task EXCEPT ![t].pc = "own", ![t].id = dir.id, ![t].since = 0]
          /\ OnlyDir
  /\ UNCHANGED dir

\* What stat finds is taken for the directory just made, unless that was long ago.
Identify(t) ==
  /\ At(t, "identify") /\ Runs(t)
  /\ IF ~Exists \/ now - task[t].since > Stale
     THEN EndWith(t, "failed")
     ELSE /\ task' = [task EXCEPT ![t].pc = "own", ![t].id = dir.id, ![t].since = 0]
          /\ OnlyDir
  /\ UNCHANGED dir

\* Bug: another's record is overwritten.
OverwriteOwnerRecord(t) ==
  /\ At(t, "own") /\ Runs(t)
  /\ IF ~Exists
     THEN Goto(t, "undo") /\ UNCHANGED dir
     ELSE /\ WithRecords((dir.records \ RecordsOf(task[t].id)) \cup {[id |-> task[t].id, by |-> t]})
          /\ Goto(t, "publish")
  /\ OnlyDir

\* It is not written where there is one, and writing may fail.
WriteOwnerRecord(t) ==
  /\ At(t, "own") /\ Runs(t)
  /\ \/ Goto(t, "undo") /\ UNCHANGED dir
     \/ /\ Exists /\ RecordsOf(task[t].id) = {}
        /\ WithRecords(dir.records \cup {[id |-> task[t].id, by |-> t]})
        /\ Goto(t, "publish")
  /\ OnlyDir

Publish(t) ==
  /\ At(t, "publish") /\ Runs(t)
  /\ Goto(t, IF dir.id = task[t].id THEN "read" ELSE "undo")
  /\ Look

\* The owner could not be recorded: what this call left is removed.
Undo(t) ==
  /\ At(t, "undo") /\ Runs(t)
  /\ RemoveRecord(task[t].id) /\ Goto(t, "undo_stat") /\ OnlyDir
UndoStat(t) ==
  /\ At(t, "undo_stat") /\ Runs(t)
  /\ IF dir.id = task[t].id THEN Goto(t, "undo_rmdir") /\ OnlyDir ELSE EndWith(t, "failed")
  /\ UNCHANGED dir
UndoRmdir(t) ==
  /\ At(t, "undo_rmdir") /\ Runs(t)
  /\ RemoveEmpty /\ EndWith(t, "failed")

-----------------------------------------------------------------------------
(* Waiting, and removing what a dead owner left.                           *)

Observe(t) ==
  /\ At(t, "observe") /\ Runs(t)
  /\ IF Exists /\ IsOld
     THEN task' = [task EXCEPT ![t].pc = "recheck", ![t].id = dir.id]
     ELSE Goto(t, IF Exists THEN "wait" ELSE "mkdir")
  /\ Look

Recheck(t) ==
  /\ At(t, "recheck") /\ Runs(t)
  /\ Goto(t, IF ~Exists THEN "mkdir"
             ELSE IF dir.id = task[t].id /\ IsOld THEN "judge" ELSE "wait")
  /\ Look

\* Bug: age alone decides.
NeverLive(t) == FALSE

HasLiveOwner(t) ==
  \E r \in RecordsOf(task[t].id) : r.by # None /\ ProcessOf[r.by] \notin killed

Judge(t) ==
  /\ At(t, "judge") /\ Runs(t)
  /\ Goto(t, IF HasLiveOwner(t) THEN "wait" ELSE "unlink")
  /\ Look
Unlink(t) ==
  /\ At(t, "unlink") /\ Runs(t)
  /\ RemoveRecord(task[t].id) /\ Goto(t, "rmdir") /\ OnlyDir
Rmdir(t) ==
  /\ At(t, "rmdir") /\ Runs(t)
  /\ IF dir.records = {} THEN RemoveEmpty /\ Goto(t, "mkdir") /\ OnlyDir
     ELSE EndWith(t, "obstructed") /\ UNCHANGED dir

\* Bug: there is no limit to it.
WaitForEver(t) ==
  /\ At(t, "wait") /\ Runs(t)
  /\ Goto(t, "mkdir") /\ Look

\* The retry interval may span any time, or none that is counted here.
Wait(t) ==
  /\ At(t, "wait") /\ Runs(t)
  /\ IF now - task[t].started >= Acquire THEN EndWith(t, "failed")
     ELSE Goto(t, "mkdir") /\ OnlyDir
  /\ UNCHANGED dir

-----------------------------------------------------------------------------
(* The callback: FileStore reads the whole file and writes it back.  One   *)
(* that calls a mutator of the store writes through it alone.              *)

ReadAll(t) ==
  /\ At(t, "read") /\ Runs(t) /\ \A u \in Tasks : Parent[u] # t
  /\ task' = [task EXCEPT ![t].pc = "write", ![t].copy = file]
  /\ Look

\* Bug: the entries of other clouds are not carried over.
WriteOwnEntry(t) ==
  /\ At(t, "write") /\ Runs(t)
  /\ file' = [Empty EXCEPT ![CloudOf[t]] = t]
  /\ wrote' = wrote \cup {t}
  /\ Goto(t, "leave")
  /\ UNCHANGED <<now, dir, made, pending, killed>>

WriteAll(t) ==
  /\ At(t, "write") /\ Runs(t)
  /\ file' = [task[t].copy EXCEPT ![CloudOf[t]] = t]
  /\ wrote' = wrote \cup {t}
  /\ task' = [task EXCEPT ![t].pc = "leave", ![t].copy = Empty]
  /\ UNCHANGED <<now, dir, made, pending, killed>>

\* The callback returns, or throws before it wrote.  A nested one has no lock
\* of its own to release.
Leave(t) ==
  /\ task[t].pc \in {"read", "leave"} /\ Runs(t)
  /\ IF task[t].nested THEN Gone(t, "done")
     ELSE task' = [task EXCEPT ![t].pc = "release", ![t].copy = Empty]
  /\ Look

\* release: the directory is inspected, which may fail; if it is not this
\* call's, only a record of this call's own is removed.
Release(t) ==
  /\ At(t, "release") /\ Runs(t)
  /\ \/ dir.id = task[t].id /\ Goto(t, "release_unlink") /\ UNCHANGED dir /\ OnlyDir
     \/ RemoveRecord(task[t].id) /\ EndWith(t, "done")

ReleaseUnlink(t) ==
  /\ At(t, "release_unlink") /\ Runs(t)
  /\ RemoveRecord(task[t].id)
  /\ IF RecordsOf(task[t].id) = {} THEN EndWith(t, "done") ELSE Goto(t, "release_rmdir") /\ OnlyDir
ReleaseRmdir(t) ==
  /\ At(t, "release_rmdir") /\ Runs(t)
  /\ RemoveEmpty /\ EndWith(t, "done")

-----------------------------------------------------------------------------
Kill(p) ==
  /\ p \notin killed /\ Cardinality(killed) < MaxKills
  /\ killed' = killed \cup {p}
  /\ task' = [t \in Tasks |-> IF ProcessOf[t] = p /\ task[t].pc \notin {"done", "failed", "obstructed"}
                              THEN [Idle EXCEPT !.pc = "dead"] ELSE task[t]]
  /\ UNCHANGED <<now, dir, made, file, wrote, pending>>

\* A process may be suspended between any two of its calls.
Tick ==
  /\ now < MaxTime
  /\ now' = now + 1
  /\ UNCHANGED <<dir, made, file, wrote, pending, killed, task>>

\* The directory such a process left, with or without its record.
Abandoned == {[id |-> 1, mtime |-> 0,
               records |-> IF left = "named" THEN {[id |-> 1, by |-> None]} ELSE {}] :
                left \in LeftBehind}

Init ==
  /\ now = 0
  /\ dir \in {NoDir} \cup Abandoned /\ made = dir.id
  /\ file = Empty /\ wrote = {} /\ killed = {}
  /\ pending = [p \in Processes |-> 0]
  /\ task = [t \in Tasks |-> Idle]

Step(t) ==
  \/ Begin(t) \/ Mkdir(t) \/ Identify(t) \/ WriteOwnerRecord(t) \/ Publish(t)
  \/ Undo(t) \/ UndoStat(t) \/ UndoRmdir(t)
  \/ Observe(t) \/ Recheck(t) \/ Judge(t) \/ Unlink(t) \/ Rmdir(t) \/ Wait(t)
  \/ ReadAll(t) \/ WriteAll(t) \/ Leave(t)
  \/ Release(t) \/ ReleaseUnlink(t) \/ ReleaseRmdir(t)

Next == (\E t \in Tasks : Step(t) \/ Abort(t)) \/ (\E p \in Processes : Kill(p)) \/ Tick

Spec == Init /\ [][Next]_vars

-----------------------------------------------------------------------------
TypeOK ==
  /\ now \in 0..MaxTime /\ made \in 0..MaxDirs
  /\ dir \in [id : 0..MaxDirs, mtime : 0..MaxTime, records : SUBSET Records]
  /\ file \in Entries /\ wrote \subseteq Tasks /\ killed \subseteq Processes
  /\ pending \in [Processes -> Nat]
  /\ task \in [Tasks -> [pc : Places, id : 0..MaxDirs, since : 0..MaxTime,
                         started : 0..MaxTime, nested : BOOLEAN, copy : Entries]]

Over == {"done", "failed", "obstructed", "dead"}

\* A call that runs its callback under a lock of its own.
Inside(t) == task[t].pc \in Section /\ ~task[t].nested

\* Of the calls of all processes, one at a time runs its callback
\* (RefreshLockHistory says until when).
MutualExclusion == \A t, u \in Tasks : Inside(t) /\ Inside(u) => t = u

\* No write of credentials is undone by another's: each entry of the file holds
\* what a call for it wrote, though every call writes back the whole file.
NoLostWrite == \A t \in wrote : \E u \in wrote : CloudOf[u] = CloudOf[t] /\ file[CloudOf[t]] = u

\* A synchronous call never waits for, nor enters beside, an asynchronous one
\* of its process, which could not finish while the event loop is blocked.
SyncFailsFast ==
  \A s \in Sync, t \in Tasks \ Sync :
    /\ ProcessOf[s] = ProcessOf[t]
    /\ task[s].pc \in Acquiring \/ Inside(s)
    => task[t].pc \in {"idle"} \cup Over

\* A call made in a callback skips the lock only while that callback runs: one
\* that outlives the release takes the lock itself.
NestedUnderLock ==
  \A t \in Tasks : task[t].nested /\ task[t].pc \in Section => Inside(Parent[t])

\* A call that runs its callback still has its directory and its record there.
HolderKeepsLock ==
  \A t \in Tasks : Inside(t) => dir.id = task[t].id /\ \E r \in dir.records : r = [id |-> dir.id, by |-> t]

\* What is reported as a stale lock that cannot be removed is not a lock that
\* a living process has just recorded as its own.
ObstructedIsStale ==
  [][\A t \in Tasks : At(t, "obstructed")' /\ ~At(t, "obstructed")
       => \A r \in dir.records : r.by = None \/ ProcessOf[r.by] \in killed]_vars

\* Time passes, and a process that is not killed goes on; a call may still be
\* made by whoever has none to make.
FairSpec ==
  /\ Spec /\ WF_vars(Tick)
  /\ \A t \in Tasks : WF_vars(~At(t, "idle") /\ Step(t))

\* Every call ends: it runs its callback and releases, or gives up, whoever
\* was killed holding the lock.
CallsEnd == \A t \in Tasks : ~At(t, "idle") ~> task[t].pc \in Over
=============================================================================
