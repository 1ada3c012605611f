----------------------------- MODULE StoreFiles -----------------------------
(***************************************************************************)
(* The file of a project database: sessions that write it                  *)
(* (packages/storage/src/history/database/connection.ts, transactions.ts), *)
(* its upgrade to the current schema (schema-upgrade.ts) and the return to *)
(* a backup (database-backup.ts), each in a process of its own that may    *)
(* die between any two calls.                                              *)
(*                                                                         *)
(* A file is known by its number, as by its inode: a rename gives the      *)
(* database's path to another file while old connections keep theirs.      *)
(* Commits first live in the write-ahead log beside the path, until the    *)
(* log is folded into the file they belong to.  SQLite opens a file at     *)
(* once and the log by its name, at the first read; sessions compare their *)
(* file with the path's at every write, upgrades and restores do not.      *)
(***************************************************************************)
EXTENDS Naturals, FiniteSets

CONSTANTS
  Sessions, Upgraders, Restorers,
  Build,      \* the schema version each session's build reads and writes
  Silent,     \* writes that move no counter
  InPlace,    \* what may be at the path at first: "readable", "unreadable", "absent"
  Attempts,   \* PREPARATION_ATTEMPTS
  MaxFile, MaxWrite,  \* bounds: files there can be, writes there can be
  None

Processes == Sessions \cup Upgraders \cup Restorers
Files == 1..MaxFile
Versions == {"released", "current"}
Copies == [version : Versions, rows : SUBSET (1..MaxWrite)]

ASSUME FilesAssumption ==
  /\ Build \in [Sessions -> Versions] /\ Silent \subseteq 1..MaxWrite
  /\ InPlace \subseteq {"readable", "unreadable", "absent"}
  /\ Attempts \in Nat \ {0} /\ MaxFile \in Nat \ {0} /\ MaxWrite \in Nat
  /\ Sessions \cap Upgraders = {} /\ (Sessions \cup Upgraders) \cap Restorers = {}
  /\ None \notin Files \cup Processes /\ \A c \in Copies : c # None

VARIABLES
  content,   \* what each file holds, or None
  readable,  \* the files that can be opened as this store
  path,      \* the file at the database's path, or None
  log,       \* the file whose commits the log beside the path last took, or None
  unfolded,  \* files some of whose commits are only in their log
  replaced,  \* names of set-aside files: who set which aside
  backups,   \* what the published backups hold
  writer,    \* who holds each file's write lock; a restorer's excludes readers too
  proc,      \* where each process is
  writes,    \* how many writes were begun
  told,      \* writes whose callers were told of their success
  crossed    \* history: whether the path ever was another file's when an upgrade
             \* read its own or a restore held it, or two restores swapped at once

vars ==
  <<content, readable, path, log, unfolded, replaced, backups, writer, proc, writes, told, crossed>>
disk == <<content, readable, path, log, unfolded, replaced, backups>>

Places == {"idle", "open", "writing", "committing",
           "inspected", "prepared", "opened", "read", "locked", "published",
           "staged", "held", "linked", "aside", "placed"}
\* file: what it has open; beside: the file at the path when an upgrade first
\* read its own; copy: its backup, or what a restore found in the file it holds
Idle == [pc |-> "idle", file |-> None, beside |-> None, copy |-> None, try |-> 0,
         incoming |-> None, moved |-> None]

At(p, place) == proc[p].pc = place
File(p) == proc[p].file
CopyOf(f) == [version |-> content[f].version, rows |-> content[f].rows]
Enter(p, place) == proc' = [proc EXCEPT ![p].pc = place]

\* A connection that has read keeps a shared lock on its file.  Opening takes
\* none, and a restorer's has not read anything before it holds the file.
Connected(f) == {p \in Sessions \cup Upgraders : File(p) = f /\ ~At(p, "opened")}
Exclusive(f) == writer[f] \in Restorers
CanRead(f) == f # None /\ f \in readable /\ ~Exclusive(f)

Unlock(p) == writer' = [f \in Files |-> IF writer[f] = p THEN None ELSE writer[f]]

\* The last connection to the file at the path folds the log as it closes.
Folds(p) ==
  LET f == File(p) IN f # None /\ f = path /\ log # None /\ Connected(f) = {p} /\ ~Exclusive(f)
CloseFile(p) ==
  /\ log' = IF Folds(p) THEN None ELSE log
  /\ unfolded' = IF Folds(p) THEN unfolded \ {File(p)} ELSE unfolded

\* What is read of files whose pages and another's log were mixed is anything.
Spoil(files) ==
  /\ content' \in {[f \in Files |-> IF f \in files THEN any[f] ELSE content[f]] :
                      any \in [files -> Copies]}
  /\ \E lost \in SUBSET files : readable' = readable \ lost

-----------------------------------------------------------------------------
(* Sessions *)

Open(s) ==
  /\ At(s, "idle") /\ CanRead(path) /\ content[path].version = Build[s]
  /\ proc' = [proc EXCEPT ![s] = [Idle EXCEPT !.pc = "open", !.file = path]]
  /\ UNCHANGED <<disk, writer, writes, told, crossed>>

\* Bug: the version is only looked at when the database is opened.
BeginUnversioned(s) ==
  /\ At(s, "open") /\ path = File(s) /\ writer[File(s)] = None /\ writes < MaxWrite
  /\ Enter(s, "writing")
  /\ writer' = [writer EXCEPT ![File(s)] = s]
  /\ UNCHANGED <<disk, writes, told, crossed>>

Begin(s) ==
  /\ At(s, "open") /\ path = File(s) /\ writer[File(s)] = None /\ writes < MaxWrite
  /\ content[File(s)].version = Build[s]
  /\ Enter(s, "writing")
  /\ writer' = [writer EXCEPT ![File(s)] = s]
  /\ UNCHANGED <<disk, writes, told, crossed>>

\* The path must still name the file before the commit; then COMMIT is issued.
Check(s) ==
  /\ At(s, "writing") /\ path = File(s)
  /\ Enter(s, "committing")
  /\ UNCHANGED <<disk, writer, writes, told, crossed>>

CommitWrite(s) ==
  LET f == File(s)
      w == writes + 1
  IN /\ At(s, "committing") /\ writes < MaxWrite
     /\ content' = [content EXCEPT ![f].rows = @ \cup {w}]
     /\ unfolded' = unfolded \cup {f}
     /\ log' = IF path = f THEN f ELSE log
     /\ told' = told \cup {[write |-> w, file |-> f, by |-> s]}
     /\ writes' = w
     /\ Enter(s, "open") /\ Unlock(s)
     /\ UNCHANGED <<readable, path, replaced, backups, crossed>>

\* A session closes, refused or not, after rolling back what it had begun.
Close(s) ==
  /\ ~At(s, "idle")
  /\ CloseFile(s) /\ Unlock(s)
  /\ proc' = [proc EXCEPT ![s] = Idle]
  /\ UNCHANGED <<content, readable, path, replaced, backups, writes, told, crossed>>

-----------------------------------------------------------------------------
(* upgradeDatabaseFile *)

Inspect(u) ==
  /\ At(u, "idle") /\ CanRead(path) /\ content[path].version = "released"
  /\ proc' = [proc EXCEPT ![u] = [Idle EXCEPT !.pc = "inspected", !.try = 1]]
  /\ UNCHANGED <<disk, writer, writes, told, crossed>>

\* writePendingBackup, or a published backup that holds the same: a copy of
\* what is at the path now.
Prepare(u) ==
  /\ At(u, "inspected") /\ CanRead(path)
  /\ proc' = [proc EXCEPT ![u].pc = "prepared", ![u].copy = CopyOf(path)]
  /\ UNCHANGED <<disk, writer, writes, told, crossed>>

\* The file is opened, whoever holds it.
OpenLive(u) ==
  /\ At(u, "prepared") /\ path # None
  /\ proc' = [proc EXCEPT ![u].pc = "opened", ![u].file = path]
  /\ UNCHANGED <<disk, writer, writes, told, crossed>>

\* configureWriter reads first: it waits for whoever holds the file, and opens
\* the log beside the path, which may be another file's by then.
ReadLive(u) ==
  /\ At(u, "opened") /\ CanRead(File(u))
  /\ proc' = [proc EXCEPT ![u].pc = "read", ![u].beside = path]
  /\ crossed' = (crossed \/ path # File(u))
  /\ UNCHANGED <<disk, writer, writes, told>>

\* BEGIN IMMEDIATE locks the log: a restorer, which holds the file and no log,
\* does not keep it from an upgrade of another file.
LockLive(u) ==
  LET f == proc[u].beside
  IN /\ At(u, "read") /\ writer[f] \notin Sessions \cup Upgraders
     /\ Enter(u, "locked")
     /\ writer' = [writer EXCEPT ![f] = IF Exclusive(f) THEN @ ELSE u]
     /\ UNCHANGED <<disk, writes, told, crossed>>

\* Bug: only the counters are compared.
StaleCounters(u) ==
  Cardinality(proc[u].copy.rows \ Silent) # Cardinality(content[File(u)].rows \ Silent)

\* The file no longer holds what the backup holds.
Stale(u) == proc[u].copy # CopyOf(File(u))

\* Bug: preparation starts over without limit.
NextTryForEver(u) == [Idle EXCEPT !.pc = "inspected", !.try = proc[u].try + 1]

NextTry(u) ==
  IF proc[u].try = Attempts THEN Idle
  ELSE [Idle EXCEPT !.pc = "inspected", !.try = proc[u].try + 1]

\* Another process upgraded it meanwhile, or it changed and is backed up again,
\* or is read with the commits of another file.
Again(u) ==
  /\ At(u, "locked")
  /\ \/ /\ content[File(u)].version = "current"
        /\ proc' = [proc EXCEPT ![u] = Idle]
     \/ /\ content[File(u)].version = "released"
        /\ Stale(u) \/ proc[u].beside # File(u)
        /\ proc' = [proc EXCEPT ![u] = NextTry(u)]
  /\ CloseFile(u) /\ Unlock(u)
  /\ UNCHANGED <<content, readable, path, replaced, backups, writes, told, crossed>>

Publish(u) ==
  /\ At(u, "locked") /\ content[File(u)].version = "released" /\ ~Stale(u)
  /\ backups' = backups \cup {proc[u].copy}
  /\ Enter(u, "published")
  /\ UNCHANGED <<content, readable, path, log, unfolded, replaced, writer, writes, told, crossed>>

\* The commit goes to the log that was opened.
CommitUpgrade(u) ==
  LET f == File(u)
  IN /\ At(u, "published")
     /\ \/ /\ proc[u].beside = f
           /\ content' = [content EXCEPT ![f].version = "current"]
           /\ log' = IF Folds(u) THEN None ELSE IF path = f THEN f ELSE log
           /\ unfolded' = IF Folds(u) THEN unfolded \ {f} ELSE unfolded \cup {f}
           /\ UNCHANGED readable
        \/ /\ proc[u].beside # f
           /\ Spoil({proc[u].beside})
           /\ log' = IF path = proc[u].beside THEN f ELSE log
           /\ UNCHANGED unfolded
     /\ proc' = [proc EXCEPT ![u] = Idle]
     /\ Unlock(u)
     /\ UNCHANGED <<path, replaced, backups, writes, told, crossed>>

\* It is refused, cancelled, out of time, or the transition does not verify.
FailUpgrade(u) ==
  /\ ~At(u, "idle")
  /\ CloseFile(u) /\ Unlock(u)
  /\ proc' = [proc EXCEPT ![u] = Idle]
  /\ UNCHANGED <<content, readable, path, replaced, backups, writes, told, crossed>>

-----------------------------------------------------------------------------
(* restoreDatabaseFileBackup *)

\* stageVerifiedCopy: a copy beside the database, under a name of this run's own.
Stage(r, b, f) ==
  /\ At(r, "idle") /\ b \in backups /\ content[f] = None
  /\ content' = [content EXCEPT ![f] = b]
  /\ readable' = readable \cup {f}
  /\ proc' = [proc EXCEPT ![r] = [Idle EXCEPT !.pc = "staged", !.incoming = f]]
  /\ UNCHANGED <<path, log, unfolded, replaced, backups, writer, writes, told, crossed>>

\* Between these a restore takes the database's path for what it found there.
Swapping(r) == proc[r].pc \in {"held", "linked", "aside"}
OthersSwap(r) == \E q \in Restorers \ {r} : Swapping(q)

\* inspectCurrentDatabase, before the connection that is to hold the file;
\* there is nothing to hold if there is no file or it cannot be read.
InspectCurrent(r) ==
  /\ At(r, "staged")
  /\ \/ /\ CanRead(path)
        /\ Enter(r, "opened") /\ UNCHANGED crossed
     \/ /\ path = None \/ path \notin readable
        /\ Enter(r, IF path = None THEN "linked" ELSE "held")
        /\ crossed' = (crossed \/ OthersSwap(r))
  /\ UNCHANGED <<disk, writer, writes, told>>

OpenHold(r) ==
  /\ At(r, "opened") /\ File(r) = None /\ path # None
  /\ proc' = [proc EXCEPT ![r].file = path]
  /\ UNCHANGED <<disk, writer, writes, told, crossed>>

\* settleCurrentDatabase: under exclusive locking the log beside the path is
\* folded into the file, whichever's it is, and the file held, which any other
\* connection that has read it refuses.
Hold(r) ==
  LET f == File(r)
      mixed == path # f /\ log # None
  IN /\ At(r, "opened") /\ f # None /\ f \in readable
     /\ Connected(f) = {} /\ ~Exclusive(f)
     /\ writer' = [writer EXCEPT ![f] = r]
     /\ mixed => Spoil({f, path})
     /\ ~mixed => UNCHANGED <<content, readable>>
     /\ log' = None
     /\ unfolded' = IF log = None /\ path # f THEN unfolded ELSE unfolded \ {path}
     /\ proc' = [proc EXCEPT ![r].pc = "held", ![r].copy = content'[f]]
     /\ crossed' = (crossed \/ path # f \/ OthersSwap(r))
     /\ UNCHANGED <<path, replaced, backups, writes, told>>

\* Bug: the file in place gets no second name.
LinkNothing(r) ==
  /\ At(r, "held") /\ path # None
  /\ Enter(r, "linked")
  /\ UNCHANGED <<disk, writer, writes, told, crossed>>

Link(r) ==
  /\ At(r, "held") /\ path # None
  /\ replaced' = replaced \cup {[by |-> r, file |-> path]}
  /\ Enter(r, "linked")
  /\ UNCHANGED <<content, readable, path, log, unfolded, backups, writer, writes, told, crossed>>

\* Bug: the log stays where it is.
LeaveLog(r) ==
  /\ At(r, "linked")
  /\ Enter(r, "aside")
  /\ UNCHANGED <<disk, writer, writes, told, crossed>>

SetLogAside(r) ==
  /\ At(r, "linked")
  /\ log' = None
  /\ proc' = [proc EXCEPT ![r].pc = "aside", ![r].moved = log]
  /\ UNCHANGED <<content, readable, path, unfolded, replaced, backups, writer, writes, told, crossed>>

Place(r) ==
  /\ At(r, "aside")
  /\ path' = proc[r].incoming
  /\ Enter(r, "placed")
  /\ UNCHANGED <<content, readable, log, unfolded, replaced, backups, writer, writes, told, crossed>>

\* releaseWriteLock; the directory is then flushed and the restore reported.
Release(r) ==
  /\ At(r, "placed")
  /\ proc' = [proc EXCEPT ![r] = Idle]
  /\ Unlock(r)
  /\ UNCHANGED <<disk, writes, told, crossed>>

\* It is refused or fails before anything moved: the staged copy is removed.
Abandon(r) ==
  /\ proc[r].pc \in {"staged", "opened", "held"}
  /\ content' = [content EXCEPT ![proc[r].incoming] = None]
  /\ readable' = readable \ {proc[r].incoming}
  /\ proc' = [proc EXCEPT ![r] = Idle]
  /\ Unlock(r)
  /\ UNCHANGED <<path, log, unfolded, replaced, backups, writes, told, crossed>>

\* It fails once something moved: what moved goes back, or stays where it is
\* if that fails too.
MoveBack(r) ==
  /\ proc[r].pc \in {"linked", "aside"}
  /\ \/ /\ log' = IF proc[r].moved = None THEN log ELSE proc[r].moved
        /\ replaced' = replaced \ {[by |-> r, file |-> path]}
     \/ UNCHANGED <<log, replaced>>
  /\ content' = [content EXCEPT ![proc[r].incoming] = None]
  /\ readable' = readable \ {proc[r].incoming}
  /\ proc' = [proc EXCEPT ![r] = Idle]
  /\ Unlock(r)
  /\ UNCHANGED <<path, unfolded, backups, writes, told, crossed>>

-----------------------------------------------------------------------------
\* A process dies: its locks end with it, and what it left on disk stays.
Crash(p) ==
  /\ ~At(p, "idle")
  /\ proc' = [proc EXCEPT ![p] = Idle]
  /\ Unlock(p)
  /\ UNCHANGED <<disk, writes, told, crossed>>

Init ==
  LET first == [version |-> "released", rows |-> {}]
  IN /\ path \in {None, 1}
     /\ readable \in {{}, {path}} \ {{None}}
     /\ IF path = None THEN "absent" \in InPlace
        ELSE IF readable = {} THEN "unreadable" \in InPlace ELSE "readable" \in InPlace
     /\ content = [f \in Files |-> IF f = path THEN first ELSE None]
     /\ \/ log = None /\ unfolded = {}
        \/ log = path /\ path # None /\ unfolded = {path}
     /\ replaced = {}
     /\ backups \in {{}, {first}}
     /\ writer = [f \in Files |-> None]
     /\ proc = [p \in Processes |-> Idle]
     /\ writes = 0 /\ told = {} /\ crossed = FALSE

SessionStep(s) == Open(s) \/ Begin(s) \/ Check(s) \/ CommitWrite(s) \/ Close(s)
UpgradeStep(u) ==
  \/ Inspect(u) \/ Prepare(u) \/ OpenLive(u) \/ ReadLive(u) \/ LockLive(u) \/ Again(u)
  \/ Publish(u) \/ CommitUpgrade(u) \/ FailUpgrade(u)
RestoreStep(r) ==
  \/ \E b \in backups, f \in Files : Stage(r, b, f)
  \/ InspectCurrent(r) \/ OpenHold(r) \/ Hold(r) \/ Link(r) \/ SetLogAside(r)
  \/ Place(r) \/ Release(r) \/ Abandon(r) \/ MoveBack(r)

Next ==
  \/ \E s \in Sessions : SessionStep(s)
  \/ \E u \in Upgraders : UpgradeStep(u)
  \/ \E r \in Restorers : RestoreStep(r)
  \/ \E p \in Processes : Crash(p)

Spec == Init /\ [][Next]_vars

-----------------------------------------------------------------------------
TypeOK ==
  /\ content \in [Files -> Copies \cup {None}]
  /\ readable \subseteq Files /\ unfolded \subseteq Files
  /\ path \in Files \cup {None} /\ log \in Files \cup {None}
  /\ replaced \subseteq [by : Restorers, file : Files]
  /\ backups \subseteq Copies
  /\ writer \in [Files -> Processes \cup {None}]
  /\ proc \in [Processes -> [pc : Places, file : Files \cup {None}, copy : Copies \cup {None},
                             beside : Files \cup {None}, try : 0..Attempts, incoming : Files \cup {None},
                             moved : Files \cup {None}]]
  /\ writes \in 0..MaxWrite
  /\ told \subseteq [write : 1..MaxWrite, file : Files, by : Sessions]
  /\ crossed \in BOOLEAN

\* The following hold until upgrades or restores have crossed.  The code keeps
\* nobody from it, and from then on what is read may be two files mixed.

\* A file changes its schema only into what a published backup can undo: one
\* that holds every row the file held, silent writes too, and no row is lost.
UpgradesBacked ==
  [][~crossed' => \A f \in Files :
       content[f] # None /\ content'[f] # None /\ content'[f].version # content[f].version =>
         /\ CopyOf(f) \in backups
         /\ content'[f].rows = content[f].rows]_vars

\* A write is told to have succeeded only by a build of the file's version,
\* although an upgrade or a restore may come between any two of its steps.
OwnVersion ==
  [][~crossed' => \A t \in told' \ told : content[t.file].version = Build[t.by]]_vars

\* Whatever was told to be written is in a file that still has a name.
ToldKept ==
  ~crossed => \A t \in told :
    /\ t.write \in content[t.file].rows
    /\ t.file = path \/ \E n \in replaced : n.file = t.file

\* At every moment, the path of a database that can be opened names a whole
\* one: its own log and no other lies beside it, with all that is only there.
Whole ==
  path # None /\ path \in readable =>
    /\ content[path] # None /\ log \in {None, path}
    /\ path \in unfolded => log = path
PathWhole == ~crossed => Whole

\* A restore that holds the database replaces the file it holds, as it was
\* when it was proved idle (database-backup.ts:843).
HeldAcrossSwap ==
  \A r \in Restorers :
    proc[r].pc \in {"held", "linked", "aside"} /\ File(r) # None =>
      path = File(r) /\ CopyOf(path) = proc[r].copy

\* The log beside a database that can be opened is its own: one left beside a
\* new file "would be replayed into it" (database-backup.ts:897).
OwnLog == path \in readable => log \in {None, path}
=============================================================================
