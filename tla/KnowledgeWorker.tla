--------------------------- MODULE KnowledgeWorker ---------------------------
(***************************************************************************)
(* The background worker (apps/orcaops-cli/src/knowledge-worker/loop.ts)   *)
(* over the durable queue: runs of the worker process that take the lease, *)
(* recover what a lost run left, claim a job, decide whether it may be     *)
(* dispatched, call a provider process and settle what it did; the people  *)
(* who retry, reopen, confirm and pause; and crashes, lost leases and      *)
(* provider processes that outlive the run that spawned them.              *)
(*                                                                         *)
(* A run awaits between two transactions of the queue, so every await is   *)
(* a step boundary here.  Clocks agree (Skew = 0): all runs share one      *)
(* machine.                                                                *)
(*                                                                         *)
(* A comment that begins "Bug:" introduces a faulty variant of a           *)
(* definition below it, for checking that a property would notice.         *)
(***************************************************************************)
EXTENDS ProcessingQueue

CONSTANT PersonActs    \* what people do besides capturing work
ASSUME PersonAssumption == PersonActs \subseteq {"retry", "reopen", "confirm", "pause"}
ASSUME OneClock == Skew = 0
ASSUME SchedulesAreParked == "source_schedule_limit" \in ParkReasons

VARIABLES
  worker,       \* each run of the worker process: its place in loop.ts and its locals
  alive,        \* attempts whose provider process is running
  called,       \* attempts that ever spawned a provider process
  unconfirmed   \* attempts whose run reported that it did not see the provider stop

workerVars == <<worker, alive, called, unconfirmed>>
allVars == <<vars, workerVars>>

Places == {"off", "recover", "terminate", "recover_gone", "unpark", "claim",
           "dispatch", "complete", "spawn", "withdraw", "calling", "settle_call",
           "settle", "pause", "finish", "done"}
Results == {"none", "answered", "failed", "terminal", "no_tool_guarantee",
            "not_started", "lost"}

\* lost is #lostLease; found, the recorded processes recovery read; gone, those
\* it saw end; job, attempt and result, what the run is working on.
Idle == [pc |-> "off", gen |-> 0, lost |-> FALSE, found |-> {}, gone |-> {},
         job |-> None, attempt |-> 0, result |-> "none"]

Running(o) == worker[o].pc \notin {"off", "done"}
At(o, place) == worker[o].pc = place
Goto(o, place) == worker' = [worker EXCEPT ![o].pc = place]

\* On the way out, and gone: nothing in hand is looked at again.
Leave(o) == worker' = [worker EXCEPT ![o] =
                         [Idle EXCEPT !.pc = "finish", !.gen = worker[o].gen, !.lost = worker[o].lost]]
End(o) == worker' = [worker EXCEPT ![o] = [Idle EXCEPT !.pc = "done"]]

\* Back to the top of the loop, forgetting the job in hand.
NextJob(o) ==
  worker' = [worker EXCEPT ![o] = [@ EXCEPT !.pc = "claim", !.job = None,
                                            !.attempt = 0, !.result = "none"]]

Keep == UNCHANGED <<alive, called, unconfirmed>>

-----------------------------------------------------------------------------
(* Ownership.                                                              *)

Start(o) ==
  /\ At(o, "off")
  /\ \/ /\ TakeLease(o, now)
        /\ worker' = [worker EXCEPT ![o] = [@ EXCEPT !.pc = "recover",
                                                     !.gen = lease.generation + 1]]
     \/ /\ lease.owner # None /\ lease.expiresAt > now   \* held_by_other
        /\ End(o) /\ UNCHANGED vars
  /\ Keep

\* #renewLease, on its own timer.  Any failure of it, a refused generation or a
\* busy store, is read as a lost lease.
Heartbeat(o) ==
  /\ Running(o) /\ ~At(o, "finish") /\ ~worker[o].lost
  /\ \/ RenewLease(o, worker[o].gen, now) /\ UNCHANGED worker
     \/ worker' = [worker EXCEPT ![o].lost = TRUE] /\ UNCHANGED vars
  /\ Keep

\* finish: a run that believes it lost the lease does not release it.
Finish(o) ==
  /\ At(o, "finish")
  /\ \/ ~worker[o].lost /\ ReleaseLease(o, worker[o].gen)
     \/ UNCHANGED vars
  /\ End(o) /\ Keep

\* A refused or failed transaction ends the run, whatever it held: the error
\* reaches runKnowledgeWorker's finally or is reported as stopped.
Fail(o) ==
  /\ worker[o].pc \in {"recover", "recover_gone", "claim", "dispatch", "complete",
                       "spawn", "withdraw", "settle_call", "settle", "pause"}
  /\ Leave(o) /\ UNCHANGED vars /\ Keep

\* The process is killed, and its provider with its own process group is not.
Crash(o) == Running(o) /\ End(o) /\ UNCHANGED vars /\ Keep

-----------------------------------------------------------------------------
(* Recovery, once per run.                                                 *)

RecoverOnce(o) ==
  /\ At(o, "recover")
  /\ Recover(worker[o].gen, {}, now, now + RetryDelay)
  /\ worker' = [worker EXCEPT ![o] = [@ EXCEPT
       !.pc = "terminate",
       !.found = {r \in Rows : /\ IsOpen(Row(r)) /\ Row(r).gen # worker[o].gen
                               /\ Row(r).process}]]
  /\ Keep

\* Bug: a signalled process is taken for a stopped one.
TerminateUnseen(o) ==
  /\ At(o, "terminate")
  /\ \E gone \in SUBSET worker[o].found :
       /\ alive' = alive
       /\ worker' = [worker EXCEPT ![o] = [@ EXCEPT
            !.pc = IF \E r \in gone : IsOpen(Row(r)) THEN "recover_gone" ELSE "unpark",
            !.found = {}, !.gone = gone]]
  /\ UNCHANGED <<vars, called, unconfirmed>>

\* terminateRetainedProviderProcess, per recorded process: it is seen to be
\* gone, or it is not.  With none gone there is nothing more to recover.
Terminate(o) ==
  /\ At(o, "terminate")
  /\ \E gone \in SUBSET worker[o].found :
       /\ alive' = alive \ gone
       /\ worker' = [worker EXCEPT ![o] = [@ EXCEPT
            !.pc = IF \E r \in gone : IsOpen(Row(r)) THEN "recover_gone" ELSE "unpark",
            !.found = {}, !.gone = gone]]
  /\ UNCHANGED <<vars, called, unconfirmed>>

RecoverGone(o) ==
  /\ At(o, "recover_gone")
  /\ Recover(worker[o].gen, worker[o].gone, now, now + RetryDelay)
  /\ worker' = [worker EXCEPT ![o] = [@ EXCEPT !.pc = "unpark", !.gone = {}]]
  /\ Keep

\* #reexamineOriginBound: a failure here is only logged.
ReexamineOriginBound(o) ==
  /\ At(o, "unpark")
  /\ UnparkJobs(worker[o].gen, {"origin_bound"}) \/ UNCHANGED vars
  /\ worker' = [worker EXCEPT ![o] = [@ EXCEPT !.pc = "claim", !.gone = {}]]
  /\ Keep

-----------------------------------------------------------------------------
(* The claim loop.                                                         *)

Claim(o) ==
  /\ At(o, "claim") /\ ~worker[o].lost
  /\ \E j \in Jobs :
       /\ ClaimJob(worker[o].gen, j, now)
       /\ worker' = [worker EXCEPT ![o] = [@ EXCEPT !.pc = "dispatch", !.job = j]]
  /\ Keep

\* Stopped, lost, or idle for long enough with nothing claimable.
Exit(o) == At(o, "claim") /\ Leave(o) /\ UNCHANGED vars /\ Keep

\* decideDispatch and what processJob does with its refusals.  The decision
\* reads only what this run holds while it owns the job, so it is one step with
\* the transaction it leads to; configuration and consent may say anything.
Refuse(o) ==
  /\ At(o, "dispatch")
  /\ \/ /\ \E wait \in ParkReasons \ {"source_schedule_limit"} :
             ParkJob(worker[o].gen, worker[o].job, wait)
        /\ NextJob(o)
     \/ /\ paused /\ ParkJob(worker[o].gen, worker[o].job, None)
        /\ Leave(o)
  /\ Keep

FinishExhausted(o) ==
  /\ At(o, "dispatch")
  /\ \E configured \in AttemptLimits :
       SettleExhaustedJob(worker[o].gen, worker[o].job, configured)
  /\ NextJob(o) /\ Keep

UnitsLeft(j) == Units[j] - Cardinality(Receipts(j))

\* planJobAttempt: a job with more units than attempts left is parked unsent.
\* The units are judged against the attempts the configuration leaves now.
OverSchedule(o) ==
  /\ At(o, "dispatch")
  /\ LET j == worker[o].job IN
       /\ \E configured \in AttemptLimits :
            /\ ~Exhausted(j, configured)
            /\ UnitsLeft(j) > AttemptsAllowed(j, configured) - AttemptsMade(j)
       /\ ParkJob(worker[o].gen, j, "source_schedule_limit")
  /\ NextJob(o) /\ Keep

\* #startAttempt, and #startAttemptWithoutRequest for a job with nothing to
\* interpret.  A start the allowance or a window refuses goes on to the next job.
BeginAttempt(o) ==
  /\ At(o, "dispatch")
  /\ LET j == worker[o].job
         call == Units[j] > 0
         unit == IF call THEN Cardinality(Receipts(j)) ELSE None
     IN /\ \E configured \in AttemptLimits :
             /\ call => UnitsLeft(j) <= AttemptsAllowed(j, configured) - AttemptsMade(j)
             /\ StartAttempt(worker[o].gen, j, configured, jobs[j].confirmations, call, unit, now)
        /\ IF jobs'[j].state = "running"
           THEN worker' = [worker EXCEPT ![o] = [@ EXCEPT
                  !.pc = IF call THEN "spawn" ELSE "complete", !.attempt = Len(attempts'[j])]]
           ELSE NextJob(o)
  /\ Keep

CompleteWithoutCall(o) ==
  /\ At(o, "complete")
  /\ SettleSucceeded(worker[o].gen, worker[o].job, worker[o].attempt)
  /\ NextJob(o) /\ Keep

-----------------------------------------------------------------------------
(* The provider call.                                                      *)

InHand(o) == <<worker[o].job, worker[o].attempt>>

\* Authorization withdrawn between the attempt and the spawn: the hold is given
\* back in one transaction and the attempt settled in a second.
WithdrawBeforeSpawn(o) ==
  /\ At(o, "spawn")
  /\ SettleCall(worker[o].gen, worker[o].job, worker[o].attempt, "released", None)
  /\ Goto(o, "withdraw") /\ Keep

SettleWithdrawn(o) ==
  /\ At(o, "withdraw")
  /\ SettleRetryable(worker[o].gen, worker[o].job, worker[o].attempt,
                     "call_failed", now + RetryDelay)
  /\ NextJob(o) /\ Keep

\* A run that knows it lost the lease aborts before it spawns.  It is assumed not
\* to stall between starting an attempt and spawning its provider for the whole
\* call lifetime.
Spawn(o) ==
  /\ At(o, "spawn") /\ ~worker[o].lost /\ now < Row(InHand(o)).startedAt + CallLifetime
  /\ alive' = alive \cup {InHand(o)} /\ called' = called \cup {InHand(o)}
  /\ Goto(o, "calling")
  /\ UNCHANGED <<vars, unconfirmed>>

SpawnRefused(o) ==
  /\ At(o, "spawn")
  /\ worker' = [worker EXCEPT ![o] = [@ EXCEPT !.pc = "settle_call", !.result = "not_started"]]
  /\ UNCHANGED vars /\ Keep

\* onProviderProcess: the spawned process is recorded while the call runs.
RecordSpawned(o) ==
  /\ At(o, "calling")
  /\ RecordProcess(worker[o].gen, worker[o].job, worker[o].attempt)
  /\ UNCHANGED workerVars

\* The call returns once its process is recorded or recording it failed, and in
\* the second case never with an answer.  A lost result says nothing of the
\* process: it may still run.
CallEnds(o) ==
  /\ At(o, "calling")
  /\ \E result \in Results \ {"none", "not_started"} :
       /\ result = "answered" => Row(InHand(o)).process
       /\ alive' = IF result = "lost" THEN alive ELSE alive \ {InHand(o)}
       /\ unconfirmed' = IF result = "lost" THEN unconfirmed \cup {InHand(o)} ELSE unconfirmed
       /\ worker' = [worker EXCEPT ![o] = [@ EXCEPT !.pc = "settle_call", !.result = result]]
  /\ UNCHANGED <<vars, called>>

\* A run that knows it lost the lease leaves its attempt to recovery.
LeaveUnsettled(o) ==
  /\ At(o, "settle_call") /\ worker[o].lost
  /\ Leave(o) /\ UNCHANGED vars /\ Keep

\* Bug: a call without a result gives its hold back.
EndLostCallFree(o) ==
  /\ At(o, "settle_call") /\ ~worker[o].lost
  /\ LET end(state, cost) == SettleCall(worker[o].gen, worker[o].job, worker[o].attempt, state, cost)
     IN IF worker[o].result \in {"lost", "not_started"} THEN end("released", None)
        ELSE \E cost \in Maybe(ReportedCosts) : end("settled", cost)
  /\ Goto(o, "settle") /\ Keep

EndCall(o) ==
  /\ At(o, "settle_call") /\ ~worker[o].lost
  /\ LET end(state, cost) == SettleCall(worker[o].gen, worker[o].job, worker[o].attempt, state, cost)
     IN CASE worker[o].result = "lost"        -> end("unknown", None)
          [] worker[o].result = "not_started" -> end("released", None)
          [] OTHER -> \E cost \in Maybe(ReportedCosts) : end("settled", cost)
  /\ Goto(o, "settle") /\ Keep

\* Bug: retried after a backoff only.
SettleLostSoon(o) ==
  /\ At(o, "settle") /\ worker[o].result = "lost"
  /\ SettleUnknown(worker[o].gen, worker[o].job, worker[o].attempt, now + RetryDelay)
  /\ NextJob(o) /\ Keep

\* A lost call keeps its job unclaimable for the whole call lifetime.
SettleLost(o) ==
  /\ At(o, "settle") /\ worker[o].result = "lost"
  /\ SettleUnknown(worker[o].gen, worker[o].job, worker[o].attempt, now + CallLifetime)
  /\ NextJob(o) /\ Keep

\* Any other result: authorization withdrawn meanwhile, a failure worth another
\* attempt, or a publication that could not commit.  A broken no-tool guarantee,
\* and a local condition met often enough, pause the project.
SettleAgain(o) ==
  /\ At(o, "settle") /\ worker[o].result # "lost"
  /\ SettleRetryable(worker[o].gen, worker[o].job, worker[o].attempt,
                     "call_failed", now + RetryDelay)
  /\ \/ NextJob(o)
     \/ worker[o].result \in {"no_tool_guarantee", "not_started"} /\ Goto(o, "pause")
  /\ Keep

\* The same input would end the same way, or its answer was refused.
SettleGaveUp(o) ==
  /\ At(o, "settle") /\ worker[o].result \in {"terminal", "answered", "not_started"}
  /\ SettleTerminal(worker[o].gen, worker[o].job, worker[o].attempt)
  /\ NextJob(o) /\ Keep

\* Bug: the first unit completes the job.
PublishAndComplete(o) ==
  /\ At(o, "settle") /\ worker[o].result = "answered"
  /\ Settle(worker[o].gen, worker[o].job, worker[o].attempt, "succeeded", TRUE,
            Freed(jobs[worker[o].job], "completed", None, None))
  /\ NextJob(o) /\ Keep

Publish(o) ==
  /\ At(o, "settle") /\ worker[o].result = "answered"
  /\ PublishUnit(worker[o].gen, worker[o].job, worker[o].attempt, now)
  /\ NextJob(o) /\ Keep

PauseWorkload(o) ==
  /\ At(o, "pause")
  /\ PauseUnder(worker[o].gen)
  /\ Leave(o) /\ Keep

-----------------------------------------------------------------------------
(* Providers, people and time.                                             *)

ProviderEnds ==
  /\ \E r \in alive : alive' = alive \ {r}
  /\ UNCHANGED <<vars, worker, called, unconfirmed>>

Person ==
  /\ \/ \E j \in Jobs :
          \/ AdmitJob(j, now)
          \/ "retry" \in PersonActs /\ RetryJob(j, now)
          \/ /\ "reopen" \in PersonActs
             /\ \E approved \in AttemptLimits : ReopenJob(j, jobs[j].reopenings, approved)
          \/ "confirm" \in PersonActs /\ ConfirmModel(j, jobs[j].confirmations)
     \/ "pause" \in PersonActs /\ \E p \in BOOLEAN : SetPause(p)
  /\ UNCHANGED workerVars

\* CallLifetime is longer than any call may run, its termination included, so
\* no provider process is alive that long after its attempt started.
Time ==
  /\ Tick
  /\ \A r \in alive : now + 1 < Row(r).startedAt + CallLifetime
  /\ UNCHANGED workerVars

\* What the run itself does next.
Step(o) ==
  \/ Start(o) \/ Finish(o) \/ Fail(o)
  \/ RecoverOnce(o) \/ Terminate(o) \/ RecoverGone(o) \/ ReexamineOriginBound(o)
  \/ Claim(o) \/ Exit(o) \/ Refuse(o) \/ FinishExhausted(o) \/ OverSchedule(o)
  \/ BeginAttempt(o) \/ CompleteWithoutCall(o)
  \/ WithdrawBeforeSpawn(o) \/ SettleWithdrawn(o) \/ Spawn(o) \/ SpawnRefused(o)
  \/ CallEnds(o) \/ LeaveUnsettled(o) \/ EndCall(o)
  \/ SettleLost(o) \/ SettleAgain(o) \/ SettleGaveUp(o) \/ Publish(o) \/ PauseWorkload(o)

WorkerInit == /\ Init
              /\ worker = [o \in Owners |-> Idle]
              /\ alive = {} /\ called = {} /\ unconfirmed = {}

WorkerNext ==
  \/ \E o \in Owners : Step(o) \/ Heartbeat(o) \/ RecordSpawned(o) \/ Crash(o)
  \/ ProviderEnds \/ Person \/ Time

WorkerSpec == WorkerInit /\ [][WorkerNext]_allVars

\* Node runs a started run's continuations; nothing else is promised: people,
\* providers and the clock may stop.
FairWorkerSpec == WorkerSpec /\ \A o \in Owners : WF_allVars(Step(o))

-----------------------------------------------------------------------------
(* Properties.                                                             *)

WorkerTypeOK ==
  /\ TypeOK
  /\ \A o \in Owners :
       /\ worker[o].pc \in Places /\ worker[o].gen \in 0..MaxGeneration
       /\ worker[o].lost \in BOOLEAN /\ worker[o].result \in Results
       /\ worker[o].found \subseteq Rows /\ worker[o].gone \subseteq Rows
       /\ worker[o].job \in Maybe(Jobs) /\ worker[o].attempt \in 0..MaxAttempts
  /\ alive \subseteq called /\ unconfirmed \subseteq called /\ called \subseteq Rows

\* The composed system uses the queue only through its operations, so whatever
\* holds of ProcessingQueue holds of it.
ImplementsQueue == Spec

\* A hold given back to the windows never paid for a call: no interleaving of a
\* withdrawal, a refused spawn, a lost lease and recovery releases a reservation
\* whose provider process was spawned.
ReleasedNeverCalled ==
  \A r \in called : Row(r).usage # "released"

\* Recovery ends an attempt only once its provider process is gone, and none is
\* spawned afterwards: a live process belongs to an unsettled attempt, unless
\* its own run reported that it did not see the process stop.
LiveCallIsOpen ==
  \A r \in alive \ unconfirmed : IsOpen(Row(r))

\* Those calls aside, one provider call is alive at a time, across crashes,
\* takeovers and reclaimed jobs.
OneLiveCall == Cardinality(alive \ unconfirmed) <= 1

Due(j) == \/ jobs[j].state = "pending"
          \/ jobs[j].state = "retryable_failure" /\ jobs[j].retryAt <= now

\* The job of a call that may still be spending, reported lost or not, comes due
\* again only because a person asks: no backoff, recovery or restart makes way
\* for a replacement beside it.  What a person asked for may be put off by a
\* window and then comes due of itself.
ReplacedOnlyIfAsked ==
  [][\A r \in alive \cap alive' :
       LET j == r[1]
       IN /\ r[2] = Len(attempts[j]) /\ (IsOpen(Row(r)) \/ jobs[j].state = "retryable_failure")
          /\ ~Due(j) /\ Due(j)'
          => RetryJob(j, now) \/ jobs[j].wait \in WindowReasons]_allVars

\* A started run ends: it neither spins on jobs it refuses nor waits for ever,
\* provided its calls return.
RunEnds == \A o \in Owners : Running(o) ~> At(o, "done")

-----------------------------------------------------------------------------
(* What comments and documents say that the code does not do.              *)

\* loop.ts:77-78, apps/docs/content/configuration.md:186: one paid call at a
\* time for a project database.
OneCallAtATime == Cardinality(alive) <= 1

\* processing-schedule.ts:1-4: no job is attempted again while a call of an
\* earlier attempt of it may still be running.
NoReplacementWhileAlive ==
  \A r \in alive : r[2] = Len(attempts[r[1]])

\* processing-schedule.ts:1175-1178: recovery settles what a lost owner left
\* once the call's bounded lifetime has elapsed since it started.
ElapsedCallIsSettled ==
  [][\A o \in Owners : RecoverOnce(o) =>
       \A r \in Rows : now >= Row(r).startedAt + CallLifetime =>
         ~IsOpen(attempts'[r[1]][r[2]])]_allVars

\* apps/docs/content/configuration.md:181-184: a job parked because it needs
\* more calls than it has attempts left is taken again once the allowance is
\* raised, so some configured allowance, however large, lets it run.
ParkedScheduleCanRun ==
  \A j \in Jobs : jobs[j].wait = "source_schedule_limit" =>
    UnitsLeft(j) + AttemptsMade(j) <= AttemptsAllowed(j, UnitsLeft(j) + AttemptsMade(j))

=============================================================================
