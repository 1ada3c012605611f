# Verification of orcaops

TLA+ models of orcaops, the TLC configurations that check them on small
instances, and TLAPS proofs of their safety properties for all instances. Paths
are relative to `src/`. `PROJECT.json` lists, for every definition that models
code, the lines it models.

## The system

orcaops records what coding agents plan and do in a repository, keeps those
records in a project database (SQLite) beside the Git history, derives knowledge
from them with an LLM in the background, and pushes them to a cloud service.
Every command is a process of its own. Processes meet only in the database, in
Git refs and in a few files, so what makes the program hard is what may happen
between two of their transactions.

| Part | State it keeps | Operations and who calls them | Hard behaviour | What makes it correct |
|---|---|---|---|---|
| Knowledge-processing queue (`packages/storage/src/history/database/processing-*.ts`) | lease, jobs, attempts, usage reservations, reopenings, confirmations, pause | claim, park, start, settle, recover, retry, reopen, confirm, pause; one transaction each, called by workers and people | superseded owners, crashes between transactions, disagreeing clocks, sliding windows | one job runs; an open attempt keeps its job; no hold is stranded; windows and allowances hold |
| Knowledge worker (`apps/orcaops-cli/src/knowledge-worker/`) | one run's place and locals | takes the lease, recovers, claims, calls a provider, settles or publishes; a heartbeat beside it | awaits between transactions, providers that outlive the run, stale decisions | no paid call beside a live one; no call replaced while it may still spend; a run ends |
| Publication (`knowledge-interpretation.ts`) | knowledge records, unit receipts | publishes a unit and settles its attempt at once | moved governing state | each unit published once, in order |
| Operations and transactions (`transactions.ts`, `connection.ts`) | receipts, counters, SQLite's write lock | one transaction per operation ID, retried after uncertain answers | lost answers, poisoned connections, reused IDs | an operation happens once; all who learn its result learn the same |
| Database file (`connection.ts`, `schema-upgrade.ts`, `database-backup.ts`) | the file at the path, its log, backups, names of replaced files | sessions write, an upgrade changes the schema, a restore swaps the file | another process between two file-system calls, death between them | nothing acknowledged is lost; an upgrade can be undone; the path names a whole database |
| Artifact capture (`packages/storage/src/artifacts`, `events`; `execution*.ts`) | an artifact's events, its execution's binding | revise, open, close, abandon, summarise, take over | decisions on a snapshot others outdate | no step in two hands; what is done keeps its meaning and evidence |
| Retention and Git refs (`packages/core/src/history/retention`, `capture`) | capture rows, refs, cleanups | a capture publishes a boundary; `gc` reclaims retired ones | no transaction spans Git and the database; loss of power | what history selected stays reachable; nothing else leaks |
| Artifact push (`packages/core/src/history/sync`; `artifact-push*.ts`, `remote-transport.ts`, `cloud-sync*.ts`) | pushes, calls, settlements, cloud and session records | admit, dispatch, settle, resume, skip, resync | several pushers, lost answers, cancellation, moving sources | a call is sent once and arrives in order; "synced" is true |
| Credentials and the refresh lock (`packages/core/src/credentials`) | a lock directory, `credentials.json` | refresh and mutate under the lock, async and sync, nested | stale locks, killed owners, re-entry | one holder; no entry is lost |
| Durable files and file-era locks, OAuth sign-in, knowledge records, review data, review engine, evaluators, LLM providers, search and usage accounting, seeding, command line, watch UI, agent activity | | | | not modelled, see below |

A capture *admits* a job into the queue in its own transaction and wakes a
worker. The worker talks to the queue only through transactions, each naming the
generation of the lease it acts under. Providers are subprocesses in a process
group of their own and survive the worker that spawned them. People act on the
queue directly, without the lease. A capture is settled in the database only
after its Git ref was written out, and is then pushed, by its own command or by
the next one that finds it pending. All of this runs inside operations as
`transactions.ts` provides them, on a file that an upgrade or a restore may
replace meanwhile.

## The modules

| Component | Abstract | Detailed | Instances | Theorems |
|---|---|---|---|---|
| Queue | – | `ProcessingQueue` | `MCProcessingQueue` | `ProcessingQueueProofs` |
| Worker | `ProcessingQueue` | `KnowledgeWorker` | `MCKnowledgeWorker` | `KnowledgeWorkerProofs` |
| Refresh lock | – | `RefreshLock` `RefreshLockHistory` | `MCRefreshLock` `MCRefreshLockHistory` | `RefreshLockProofs` |
| Operations | `OperationLog` | `ProjectOperations` | `MCProjectOperations` | `ProjectOperationsProofs` |
| Database file | – | `StoreFiles` | `MCStoreFiles` | `StoreFilesProofs` |
| Push | – | `ArtifactPush` | `MCArtifactPush` | `ArtifactPushProofs` |
| Retention | – | `CaptureRetention` | `MCCaptureRetention` | `CaptureRetentionProofs` |
| Artifact | – | `ArtifactLifecycle` | `MCArtifactLifecycle` | `ArtifactLifecycleProofs` |

A comment that begins `Bug:` introduces a variant of a definition below it, with
an error such code could have. Nothing uses these; replacing the definition by
its variant breaks a property (`mutants` in `PROJECT.json` names both).

### ProcessingQueue

Variables are tables. `jobs[j]` is a `processing_jobs` row with its latest
reopening and its number of confirmations; `attempts[j]` the sequence of the
job's `processing_attempts`, each with its `processing_usage` row, made in the
same transaction. A receipt is what a published unit leaves in its attempt.

| Code | Actions |
|---|---|
| `processing-lease.ts` | `TakeLease` `RenewLease` `ReleaseLease` |
| `processing-schedule.ts` | `ClaimJob` `ParkJob` `UnparkJobs` `SettleExhaustedJob` `StartAttempt` `RecordProcess` `Settle...` `Recover` |
| `processing-usage.ts` | `SettleCall`; `InWindow` `Spent` `Refusal` `Oldest` |
| `processing-reopenings.ts`, `processing-control.ts` | `AttemptsMade` `AttemptsAllowed`; `RetryJob` `ReopenJob` `SetPause` `PauseUnder` |
| `processing-confirmations.ts`, `processing-jobs.ts`, `knowledge-interpretation.ts` | `ConfirmModel`, `AdmitJob`, `PublishUnit` |

The queue does not trust its callers: an operation may be invoked under any
generation ever issued, at any clock within `Skew` of the real time. What callers
do fix is narrowed in `AttemptStep` and `StartStep`. Abstracted: payloads,
schedules (a job has `Units[j]` units), identities and grants, `renewed_at`,
configuration other than the allowance, the comparison of `updated_at` in a
reopening, and replays (`ProjectOperations`). `recordProcessingModelResume` has
no caller.

### KnowledgeWorker

`worker[o]` is one run: its place in `loop.ts` and the locals that live across
awaits. Each transaction of the queue is a step and each await a place where
others may act. `Heartbeat` runs beside the run as its timer does,
`RecordSpawned` beside the call as its callback does. `alive` holds the provider
processes that run, `called` those that ever did, `unconfirmed` those whose run
settled the call without having seen the process stop.

| Code in `loop.ts` | Actions |
|---|---|
| `runKnowledgeWorker`, heartbeat | `Start` `Finish` `Fail` `Heartbeat` |
| `#recover`, `#recoverOnce`, `#reexamineOriginBound` | `RecoverOnce` `Terminate` `RecoverGone` `ReexamineOriginBound` |
| `run`, `#processJob`, `#park`, `#finishExhausted` | `Claim` `Exit` `Refuse` `OverSchedule` `FinishExhausted` `WithdrawBeforeSpawn` `SettleWithdrawn` |
| `#startAttempt`, `#completeWithoutCall`, `#callProvider` | `BeginAttempt` `CompleteWithoutCall` `Spawn` `SpawnRefused` `RecordSpawned` `CallEnds` |
| `#settle`, `#plannedOutcome`, `#pauseWorkload` | `LeaveUnsettled` `EndCall` `SettleLost` `SettleAgain` `SettleGaveUp` `Publish` `PauseWorkload` |

`Fail` is a transaction that is refused or fails; `Crash` kills a run anywhere.
What configuration, consent, retrieval and the provider answer is free. The
count of local conditions before a pause and the idle waits are abstracted. A
person's `pause` is exercised in the queue's runs; the worker's run has
`PauseWorkload`. Assumed of the outside: a provider ends within `CallLifetime` of
its attempt's start (its own timeout and kill grace); a run is not suspended for
a whole call lifetime between starting an attempt and spawning; a recorded
process ID is not reused; all runs share one machine's clock (`OneClock`).

### RefreshLock

Every file-system call of `refresh-lock.ts` is a step; a task of the same process
comes between only where the code awaits, and a synchronous call keeps its
process. `dir` is the directory at the lock's path with its age and records,
`file` the entries of `credentials.json`, `task[t]` a call's place and locals,
reset when the call ends. Processes are killed anywhere, leave locks behind, and
may fail to write their record; one that is not killed may be suspended for any
time between two calls. The window between the last look at a directory and its
removal is open, as the code says it is (`refresh-lock.ts:274`).
`RefreshLockHistory` adds one history variable: `overtaken` is set when another
call changes the directory in that window. Left out: a record's process ID being
reused, `clear` and `clearAll`, the keyring, and a synchronous call made inside a
synchronous callback, which the model cannot make.

### OperationLog and ProjectOperations

`OperationLog` says what `runProjectOperation` promises: an operation is
performed at most once and whoever learns its result learns the one it was
performed with. `ProjectOperations` has connections that `Call`, are admitted
(`Admit`, SQLite's write lock), look the receipt up and write (`Settle`),
`Commit` with or without an answer (`CommitUnreported`), `Retry`, `Refuse`,
`Fail`, become unusable (`Poison`) or `Crash`. Retained operation IDs
(`artifact-push.ts`) are part of it. Checks of the file's identity are in
`StoreFiles`.

### StoreFiles

A file is known by a number, as by its inode; a rename gives the path to another
file while old connections keep theirs. `log` names the file whose log lies
beside the path, `unfolded` the files some of whose commits are only in their
log, `writer` who holds each file's lock.

| Code | Actions |
|---|---|
| `connection.ts`, `transactions.ts` (sessions) | `Open` `Begin` `Check` `CommitWrite` `Close` |
| `schema-upgrade.ts`: `upgradeDatabaseFile` | `Inspect` `Prepare` `OpenLive` `ReadLive` `LockLive` `Again` `Publish` `CommitUpgrade` `FailUpgrade` |
| `database-backup.ts`: `restoreDatabaseFileBackup` | `Stage` `InspectCurrent` `OpenHold` `Hold` `Link` `SetLogAside` `Place` `Release` `Abandon` `MoveBack` |

Each session, upgrade and restore is a process of its own name, so the three sets
are disjoint. Opening a file takes no lock and waits for nobody: `OpenLive` and
`OpenHold` take whatever the path names then. The first read (`ReadLive`, `Hold`)
waits for whoever holds that file and opens the log beside the path of that
moment: `beside` is the file this log belongs to. Sessions compare their file with
the path's at every write, upgrades and restores never do. So an upgrade that
opened before a swap and read after it has the file that was set aside and the
other file's log, and a restore may hold a file that is no longer the database.

The history variable `crossed` is set when that has happened – an upgrade read,
or a restore held, a file the path no longer named – or when two restores are
between settling the database and placing their copy, which they can be only
where there is nothing to lock. From then on SQLite reads pages of one file and
a log of another: `Spoil` lets it find anything. A moved database is neither
checkpointed nor deleted as it closes, as SQLite does. Left out: damage to a
published backup, fsync and power, initialisation.

### ArtifactPush

A call of a push is its place in the order `callsForSnapshot` gives, its content
the generation of the sources it was prepared from. `push`, `call`, `terminal`,
`current`, `cloud` and `session` are tables; `at`, `on`, `seen`, `mind` what each
pusher has in hand; `wire`, `got` and `sent` the network and the server.

| Code | Actions |
|---|---|
| `artifact-sync.ts`, `session-observation.ts`, `session-branch.ts` | `Start` `Observe` `ReadArtifact` `Look` `Skip` `Prepare` |
| `artifact-push.ts` | `Begin` `BeginStale` |
| `dispatch.ts`, `remote-transport.ts` | `Restore` `Admit` `Answer` `Throw` `Acknowledge` `RecordUnknown` `Cancel` |
| `artifact-push-terminal.ts`, `cloud-sync.ts` | `Settle` `SettleReplayed` `RecordFailure` |
| the program around it | `AppendEvents` `AppendUsage` `ChangeBranch` `Tick` `Deliver` `Lose` `GiveUp` `Stop` `Kill` |

Left out: the session history's cap of ten names, the base commit, what payloads
say. The usage and cloud reads of one synchronous stretch are one step.
`sendAllowed` is not asked by the dispatch. A cancellation while a call is being
sent leaves an attempt without an outcome.

### CaptureRetention

A capture's row goes from admitted to selected or retired; its ref is absent,
being committed by Git, there, or there and on the disk.

| Code | Actions |
|---|---|
| `capture/retention.ts`, `checkpoint.ts`, `capture-retention.ts` | `Start` `Begin` `Resume` `Settle` `Refuse` `Retain` `Retire` |
| `retention/publication.ts`, `ref-transaction.ts` | `TakeLock` `Create` `Commit` `GitCommit` `Ack` `Flush` `Verify` `Stop` |
| `gc.ts`, `maintenance.ts`, `reclamation.ts`, `retention-reclamation.ts` | `Gc` `ResumeCleanup` `Admit` `Remove` `Gone` `Sweep` `Confirm` `Record` `Fail` |
| the machine | `LosePower` |

The capture of one other revision stands for all that moves the artifact on
(`CaptureElsewhere`). Left out: waiting for Git's lock and `.lock` files left
over, packed, symbolic and foreign refs, disks that lie, which objects a commit
reaches, several publications of one import, plan baselines and review retention.

### ArtifactLifecycle

`artifact` is an artifact's history: plan revisions, checkpoints, summaries;
`execution` its sequence of bindings; `command[a]` what an agent has in hand,
with what it read; `present` the worktrees that exist. A command reads, decides
(`Revise`, `OpenCheckpoint`, `CloseCheckpoint`, `AbandonCheckpoint`,
`Summarise`, `Checkout` ...) and settles (`Settle...`, `PublishCheckout`) what it
decided if nothing it depends on has moved. The code reads the artifact and its
execution one after the other; the model reads both at once, as a change between
makes the settlement refuse. Left out: keys and replays, freshness tokens (which
only refuse more), evaluator gates and dispositions, imported and unbound legacy
artifacts, focus, overlap of windows. Git is asked again before publishing, but
not atomically with the transaction, so the model's settlement does not ask. A
removed worktree does not come back.

## What is checked

| Run | Question | Bounds, and why they suffice | Distinct states |
|---|---|---|---|
| `Queue_recovery` | does an open attempt keep its job, is no hold stranded, does one job run, do the windows hold, does a superseded owner change nothing? | two owners and generations whose clocks are up to a unit, a whole lease and lifetime, apart; two admitted jobs, one that waits on a model confirmation: an attempt of the first generation meets recovery under the second with its owner still acting; one call per window, a budget of 3 with 2 held and 1 reported, so that a call at the edge of a window is refused for its count, its spend or neither | 530,748 |
| `Worker_calls` | what is known of live providers? | two runs and generations, a lifetime of two units, a person who retries | 2,689,703 |
| `Worker_ends` | do runs end, do allowance and units hold, does the worker use the queue only through its operations? | one run: another can do no more to it than take its lease, which it meets as a failed renewal; two jobs, three attempts, a reopening, a confirmation | 471,722 |
| `Lock_holders` | until a call is overtaken, is there one holder, is no entry lost? do synchronous calls never wait? | two processes with two asynchronous and two synchronous calls (one nested), one kill, three clock units with staleness 1, so that a suspension may outlive it twice, locks left behind | 1,391,018 |
| `Ops_once` | once, with one answer, for every retry? | two connections, three IDs of which one is retained, three contents, two attempts | 343,649 |
| `Files_swap` | until they cross, what do an upgrade and two restores do to sessions and to one another? | two sessions of two builds, an upgrade, two restores, three files, one write, which moves no counter | 679,425 |
| `Push_delivery` | is a call sent once, in order, and reported truthfully? | two pushers, two pushes of two calls, two branches, all four faults | 1,383,441 |
| `Push_settles` | does every push end, and is what is not pending there? | two pushers, two source changes, an error and a kill; no loss of requests | 417,762 |
| `Retained` | does what was selected stay, and does nothing leak? | one capture by two agents under one key, one other revision, `gc`, two stops, one loss of power | 157,919 |
| `Artifact_work` | are plans, claims and evidence coherent? | two agents in two worktrees, a plan that grows, two criteria, four events, two bindings | 1,705,590 |
| `Doc_stuck_capture` | (violation, below) | as `Retained`, one agent | |
| `Doc_restore_held` | (violation, below) | one session, two restores | |

Deadlock is not checked where processes end and nobody need start another; the
queue's runs do check it. Symmetry is used in safety runs only. Counters are
bounded by the constants `Max...`, in the guards of what advances them.

Three runs are constrained. In `Queue_recovery` the real time advances only before
the first attempt (`TimePassesBefore`): every caller may read 0 or 1 at every step,
in any order, so the passing of a unit of time is among what disagreeing clocks
do. `Lock_holders` stops at `NotOvertaken` and `Files_swap` at `Uncrossed`: their
properties say nothing of what follows, and the flags are never reset.
`SyncFailsFast` does, and is proved of all behaviours.

Other configurations, checked by hand: `Lock_ends` (`CallsEnd`: every call of the
lock ends), `Files_one_restore` (one restore, two writes, no constraint),
`Queue_parked` (the properties of `Queue_recovery` but the windows', while time
passes and jobs are parked), `Queue_windows` (windows and clocks over two
units of time, so that the edge of each span is met), `Artifact_plans` (a larger
plan, with `LossesAcknowledged` and `SummaryIsFinal`) and the `Doc_...` of the
next section. `Retained` was also run with two captures and with two cleaners.

What the properties say is in the comment at each. Those everything leans on:
`OpenAttemptHeld` (queue), `LiveCallIsOpen` (worker), `OneUnfinished` (push),
`SelectedKept` (retention), `ClaimsDisjoint` (artifact). `WindowsHeld` counts a
call at no more than what was held for it: a provider may report more and the
code does not claim otherwise.

### Fairness

Weak fairness of each process's own next step, and of little else: Node runs the
continuations of a process that is not killed, and a transaction or a call
returns or throws.

- `RunEnds`: each run's step. Clock, people, heartbeat and providers may stop.
  What is ruled out is a run that claims and refuses one job for ever.
- `CallsEnd` (operations): each connection's `Proceed`; callers make finitely
  many calls (`MaxCalls`).
- `Settles`: each pusher's `Proceed` and each delivery. With lost requests a
  call's delivery is never known and its push rightly stays open, so loss is not
  among this run's faults.
- `NothingLeaks`: each process, and Git finishing what it was told to. That an
  unanswered command is repeated and `gc` is run again is an assumption about
  people, not about the code.
- `CallsEnd` (lock): each task's step and the clock.

### Where the code and its words differ

`Doc_stuck_capture` and `Doc_restore_held` are listed runs. A capture killed after its admission, whose
artifact another capture then advances, is resumed by every later command under
its key, outside the `try` that retires stale captures, and refused with
`STALE_CONTEXT` each time, where `checkpoint.ts:92` says its admission is retired
and its refusal retained. A restore opens the database by its name
(`database-backup.ts:683`), then waits up to five seconds until it is idle, and
compares nothing afterwards: the second of two restores holds the file the first
has set aside and moves away the restored one, which sessions may be writing,
where `database-backup.ts:843` says "the database being replaced is held for this
restore alone, from the moment it is proved idle until the restored file has taken
its place". The others have a configuration of their own whose one
property TLC violates:

| Configuration | The words | What happens |
|---|---|---|
| `Doc_recovery` | a lost attempt whose lifetime has elapsed is settled (`processing-schedule.ts:1175`) | a start older than a lifetime is read as the moment of taking the lease; a run recovers once, so a run that comes late leaves the attempt, and the next late run again |
| `Doc_retry` | "a replacement paid call can never start while a lost one may still be running" (`processing-schedule.ts:1-4`) | a person's retry makes the job due at once |
| `Doc_one_call` | "one call runs at a time" (`configuration.md:186`) | after a call not seen to stop, the run goes on to the next job |
| `Doc_parked_schedule` | a parked capture is taken again "once the cap or the allowance is raised" (`configuration.md:181`) | after a reopening the approved allowance caps the configured one |
| `Doc_lock_record` | "A predecessor therefore cannot overwrite or unlink a successor's record" (`refresh-lock.ts:272`) | two waiters remove one stale lock and both take the new directory's identity; the one that fails to record itself removes the other's record and directory, as its cleanup compares the identity and not the process (`refresh-lock.ts:392`) |
| `Doc_lock_obstructed` | "The stale credential lock ... contains unexpected entries" (`refresh-lock.ts:62`) | what a waiter reports so is the lock its rival has just taken |
| `Doc_late_upgrade` | a log left beside the new main file "would be replayed into it" (`database-backup.ts:897`), so it moves aside first; "nothing is ever told a write succeeded into a file that is then set aside" (`:848`) | the upgrade opens by name (`schema-upgrade.ts:783`) and reads at `:784`; if a restore swaps the file between, it locks and writes the log beside the path for the file that was set aside, and that log stays beside the restored file |
| `Doc_changed` | "The artifact changed during synchronization." (`database-capture-sync.ts:125`) | a push whose every call arrived is left uncredited because another process recorded a failure meanwhile |
| `Doc_resync` | "Retry any artifacts whose last eager push may have failed" (`program.ts:2129`) | a call that failed is retained as unknown, every later dispatch stops there, and no other push of the artifact can be admitted |
| `Doc_refused_written` | "nothing was written" (`database-capture-refusal.ts:18`) | the refusal is retained while another command of the same key commits |

One more has no run. Checkpoints open at a
`checkout --handoff --recover-orphaned` make their recovery outstanding, and
nothing ends it: `prepareExecutionCheckpointRecovery` (`execution.ts:335`) has no
caller outside tests, while every command that could end a checkpoint is a task
(`checkpoint.ts:195,431,720`), which outstanding recovery refuses
(`execution.ts:297`).

## What is proved

TLAPS checks the theorems below for all values of the constants that satisfy
the named assumptions (`...Assumption`) in the modules. They cover every safety
and action property of the listed runs and both refinements. Where a run has
no `TypeOK`, the theorem `TypeCorrect` (or `FilesTyped`) says it for all
instances. The inductive invariants were tried with TLC first, on instances of
their components, as far as TLC can evaluate them.

### The queue

| Theorem | Property |
|---|---|
| `TypeCorrect`, `OneRunningHolds`, `OpenAttemptHeldHolds`, `NoStrandedHoldHolds` | `TypeOK` `OneRunning` `OpenAttemptHeld` `NoStrandedHold` |
| `AllowanceIsHeld`, `UnitsArePublishedOnce` | `AllowanceHeld` `UnitsPublishedOnce` |
| `SupersededChangeNothing` | `SupersededChangesNothing` |
| `WindowsAreHeld` | `WindowsHeld` |

`IInv` is the conjunction of the first four. Only together are they inductive:
that recovery frees a job without leaving an open attempt behind needs the open
attempt to be the latest, and that a new attempt strands no older one needs that
its job had none open. `JobInv` (`Begun`, `Planned`, `Unpublished`, `Ranked`,
`Finished`, `WithinAllowance`, `Scheduled`) rests on `IInv` and on one lemma about
how a step may move one job (`Moves`), into which every action is sorted first.
`WindowInv` and `SpendInv` bound calls and spend in every window that ends at any
instant, not only at the present; the sums of the library are reasoned about by a
least counterexample, so that no theorem with an operator parameter is needed.

### The worker

| Theorem | Property |
|---|---|
| `WorkerImplementsQueue` | `ImplementsQueue`: every step of runs, people and time is a step of the queue or none |
| `ReleasedAreNeverCalled`, `LiveCallsAreOpen`, `OneCallLives` | `ReleasedNeverCalled` `LiveCallIsOpen` `OneLiveCall` |
| `ReplacedIfAsked` | `ReplacedOnlyIfAsked` |

For any number of runs, though the refinement is checked with one. What is proved
of the queue therefore holds of the worker. `KnowInv` says what a run still knows
of its job after others have acted (`RunInv`), that a call that runs has its
attempt (`CallInv`) and whose lease it is (`LeaseInv`); a run whose generation is
no longer the lease's knows nothing, and the frame lemmas say what a step under
another generation leaves to it. `WorkerInv` adds when the job of a live call may
come due (`Waits`), from how a step may date a job (`RetryJob`, `Undated`,
`SameDate`, `GivenBack`, `SettledDate`). The first attempt at `ReplacedIfAsked`
failed for a reason: a retry a person asked for and a window put off comes due by
itself later. The property says so since.

### The refresh lock

| Theorem | Property |
|---|---|
| `MutuallyExclusive`, `HoldersKeepTheirLock`, `NoWriteIsLost` | `ExclusiveUntilOvertaken` `HeldUntilOvertaken` `WrittenUntilOvertaken` |
| `TypeCorrect`, `SyncNeverBlocks`, `NestedCallsAreCovered` | `TypeOK` `SyncFailsFast` `NestedUnderLock` |

Nothing is assumed of the window or of how long a process is suspended: the first
three hold until a call is overtaken, and they fail after it (`Doc_lock_record`).
So being overtaken in the window is the only way the lock fails; a slow holder,
an acquirer that was suspended between `mkdir` and `stat`, a kill, an abandoned
lock and a nested call are not. `LoopInv` is about the calls of one process (who
keeps the event loop, what `pending` counts). `LockInv` is about the directory:
no two calls have the same one (`Distinct`), a call that has made one and is not
late finds that one and no successor's (`MakesIt`), who releases or undoes sees
its own (`KeepsDir`), and who removes an old one has found no living owner, nor
has any call just made it (`RemovesOld`).

### Operations

`PerformedOnceHolds`, `AnswersAgreeHolds`, `ReservedForCompletionHolds` and the
refinement `LogImplemented` (`ImplementsLog`). `IInv` adds who holds the write
lock (`LockHeld`), that a call in progress names its operation (`CallNamed`), and
that what a connection settled or learned is what is stored (`SettledFresh`,
`AnswerStored`, `AnswersStored`).

### The database file

`FilesTyped` (`TypeOK`), `UpgradesAreBacked`, `WritesAtOwnVersion`, `ToldAreKept`
and `PathIsWhole` (`UpgradesBacked`, `OwnVersion`, `ToldKept`, `PathWhole`), for
any number of sessions, upgrades and restores, with no assumption on who runs
beside whom. All but the first say what holds until `crossed`.

`FilesInv` holds always: a file in use has a content (`Filed`), a restore's copy
is nobody else's (`StagedBy`), and what each process has open and locked exists.
`Calm` holds until a crossing: whoever reads the database reads what is at the
path (`OnPath`), the log beside the path is its own (`LogInPlace`), a writer and
an upgrade know what the file they locked holds (`WritingBy`, `UpgradingBy`), and
while a restore swaps the database nobody else reads it or swaps it
(`SwappingBy`). That every way out of `Calm` is one of the three that set
`crossed` is what the proof shows: no crash, failed restore, damaged database or
racing session is another. `HeldAcrossSwap` is false (`Doc_restore_held`).

### The push

`SentOnceHolds`, `OneUnfinishedHolds`, `SettledReachedHolds`,
`ArrivalsInOrderHolds`, `NotPendingIsThereHolds`, `HistoryToldHolds` and
`TypeCorrect`. `IInv` is `RowsInv` (what the tables say of one another and of
the network) and `ProcessInv` (what a pusher has in hand). Order of arrival: a
request on the wire is unacknowledged, so its push is unsettled and therefore
selected, hence its artifact's latest, and its later calls were not sent.
`SourcesInv` adds that sources only grow and that a recorded success is a settled
push's (`SourcesGrow`, `Credited`), from which what is not pending is there: a
later push that arrived carries no older sources and no newer ones either.
`SessionInv` adds that a revision of the session is never selected twice, so an
acknowledgement that is applied is of the history it carried.

### Retention

`SelectedKeptHolds`, `RemovedOnlyRetiredHolds`, `TypeCorrect`, over any loss of
power. `IInv` is `RowsInv` (`Kept`, `CleanupsRetired`, `RemovalsRetired`) and
`ProcessInv(p)` for each process: where a command believes the ref is written out
it is (`WrittenOut`), and whatever a cleaner is about to remove was retired
(`OnRetired`), which is never undone.

### The artifact

`ClaimsAreDisjoint`, `MeaningIsKept`, `CompletedIsEvidenced`, `WorkIsEndedAtHome`,
`CompletionIsWhole`, `CompletedLossesAcknowledged`, `SummariesAreFinal`,
`TypeCorrect`. `ArtifactInv` is what holds of a history (`Grounded`,
`ClaimsDisjoint`, `MeaningKept`, `LossesKnown`), `CommandInv(a)` what a command
knows of the artifact it read: its decision is right for that artifact, and
settling asks whether it is still the artifact. `DoneIsEvidenced` follows from
`MeaningKept`, evidence being asked for by the opening's plan.

### What is only model-checked

Liveness, which the prover cannot treat: `RunEnds`, both `CallsEnd`, `Settles`,
`NothingLeaks`. They hold on the instances above, for the fairness above.

## What is not modelled

Durable files and file-era locks; OAuth's loopback server; knowledge records
(which revision stands, a fold over data); review data; the review engine (pure
functions); evaluators and providers (subprocess protocols without shared state
beyond what the worker's model uses); search, statistics, usage accounting;
seeding and conversion; command line, watch UI and agent activity, which present.
Of what is modelled in part, each section above says what it leaves out.

## What comes next

An abstract ledger of paid calls that the queue implements; an abstract delivery
log that the push implements; knowledge records as operators over bounded
histories; plan baselines and review data in `CaptureRetention`.
