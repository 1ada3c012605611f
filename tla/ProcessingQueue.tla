--------------------------- MODULE ProcessingQueue ---------------------------
(***************************************************************************)
(* The durable queue of knowledge-processing jobs of one project database: *)
(* the processing lease, the jobs, their attempts, the reservations those  *)
(* attempts hold against the call and spend windows, and the project-wide  *)
(* pause (packages/storage/src/history/database/processing-*.ts).          *)
(*                                                                         *)
(* Every operation runs as one BEGIN IMMEDIATE transaction, so each is one *)
(* action.  Who calls them, and in which order, is left open here: an      *)
(* operation may be invoked under any generation ever issued, by an owner  *)
(* that has been superseded, stopped or delayed.  KnowledgeWorker composes *)
(* these operations into the worker that really calls them.                *)
(***************************************************************************)
EXTENDS Integers, Sequences, FiniteSets, FiniteSetsExt

CONSTANTS
  Owners,           \* identities of worker processes
  Jobs,             \* job ids; their order is the order of the ids
  WithoutModel,     \* the jobs admitted under an invocation's no-model choice
  Units,            \* per job, the units its interpretation schedule holds
  None,             \* SQL NULL
  LeaseTerm,        \* how long a lease is taken or renewed for
  CallLifetime,     \* how long a provider call may outlive its start
  RetryDelay,       \* the delay a settlement asks for before the next attempt
  AttemptLimits,    \* the attempt allowances configuration may name
  CallSpan, CallLimit,              \* calls per CallSpan
  SpendSpan, Budget, Reservation,   \* spend per SpendSpan, held per call
  ReportedCosts,    \* costs a provider may report
  ParkReasons,      \* why a worker may park a job, by what frees it
  Skew              \* how far a caller's clock may be from `now`

CONSTANTS MaxTime, MaxGeneration, MaxAttempts, MaxReopenings, MaxConfirmations  \* bounds

ASSUME JobsAssumption ==
  /\ Jobs \subseteq Nat /\ WithoutModel \subseteq Jobs
  /\ Units \in [Jobs -> Nat]
  /\ None \notin Nat /\ None \notin Owners
ASSUME TimeAssumption ==
  /\ LeaseTerm \in Nat \ {0} /\ CallLifetime \in Nat \ {0}
  /\ RetryDelay \in Nat /\ Skew \in Nat /\ MaxTime \in Nat
ASSUME LimitAssumption ==
  /\ AttemptLimits \subseteq Nat \ {0}
  /\ CallSpan \in Nat \ {0} /\ SpendSpan \in Nat \ {0}
  /\ CallLimit \in Nat \ {0} /\ Budget \in Nat \cup {None}
  /\ Reservation \in Nat /\ ReportedCosts \subseteq Nat
  /\ Budget = None => Reservation = 0
  /\ Budget # None => Reservation \in 1..Budget
ASSUME ParkAssumption ==
  ParkReasons \subseteq {"origin_bound", "permanent", "source_schedule_limit",
                          "model_reconfirmation_required"}
ASSUME BoundAssumption ==
  /\ MaxGeneration \in Nat /\ MaxAttempts \in Nat /\ MaxReopenings \in Nat /\ MaxConfirmations \in Nat

VARIABLES
  now,       \* real time
  lease,     \* the processing_lease row
  jobs,      \* the processing_jobs rows, with each job's latest reopening
  attempts,  \* per job, its processing_attempts rows with their reservation
  paused     \* processing_control.paused

vars == <<now, lease, jobs, attempts, paused>>

-----------------------------------------------------------------------------
(* Rows.                                                                   *)

JobStates == {"absent", "pending", "running", "completed",
              "retryable_failure", "terminal_failure"}

\* Wait reasons, by what frees a job that carries them (wait-reasons.ts).
WindowReasons == {"calls_per_hour", "cost_per_day"}
FailureReasons == {"call_failed", "call_result_unknown", "source_unit_pending"}
WaitReasons == ParkReasons \cup WindowReasons \cup FailureReasons
ASSUME NoneAssumption == None \notin WaitReasons

Maybe(S) == S \cup {None}

Lease == [generation: Nat, owner: Maybe(Owners),
          acquiredAt: Maybe(Nat), expiresAt: Maybe(Nat)]

\* reopenings is the latest reopening's sequence number (0: never reopened);
\* before and allowed are that reopening's attempts_before and attempts_allowed.
Job == [state: JobStates, wait: Maybe(WaitReasons), retryAt: Maybe(Nat),
        claim: Maybe(Nat), admittedAt: Nat, confirmations: Nat,
        reopenings: Nat, before: Nat, allowed: Nat]

\* An attempt with its one reservation.  usage "none" is an attempt started
\* without a call; unit None is an attempt that interprets no unit; receipt says
\* that its unit was published and carries a completion receipt.
Attempt == [gen: Nat, startedAt: Nat, unit: Maybe(Nat),
            outcome: {"open", "succeeded", "failed", "unknown"},
            process: BOOLEAN, receipt: BOOLEAN, cost: Maybe(Nat),
            usage: {"none", "reserved", "settled", "unknown", "released"}]

AbsentJob == [state |-> "absent", wait |-> None, retryAt |-> None,
              claim |-> None, admittedAt |-> 0, confirmations |-> 0,
              reopenings |-> 0, before |-> 0, allowed |-> 0]

\* What a caller may read on its clock.
Clock == {t \in 0..(now + Skew) : t + Skew >= now}

-----------------------------------------------------------------------------
(* Reading the rows.                                                       *)

Rows == UNION {{j} \X DOMAIN attempts[j] : j \in Jobs}
Row(r) == attempts[r[1]][r[2]]

IsOpen(a) == a.outcome = "open"
HasOpenAttempt(j) == \E k \in DOMAIN attempts[j] : IsOpen(attempts[j][k])

\* assertProcessingLeaseGeneration: the lease is held under generation g.  Its
\* expiry is not read: an expired lease still stands until it is taken.
HoldsLease(g) == lease.owner # None /\ lease.generation = g

\* Bug: an open attempt of the job is not looked for.
HoldsAnyway(g, j) == HoldsLease(g) /\ jobs[j].state = "running" /\ jobs[j].claim = g

\* The owner of g runs job j and has no attempt of it open.
Holds(g, j) == /\ HoldsLease(g)
               /\ jobs[j].state = "running" /\ jobs[j].claim = g
               /\ ~HasOpenAttempt(j)

ModelAllowed(j) == j \in WithoutModel => jobs[j].confirmations > 0

Claimable(j, t) ==
  /\ ModelAllowed(j)
  /\ \/ jobs[j].state = "pending" /\ jobs[j].wait = None
     \/ /\ jobs[j].state = "retryable_failure"
        /\ jobs[j].retryAt # None /\ jobs[j].retryAt <= t

AdmittedBefore(i, j) ==
  \/ jobs[i].admittedAt < jobs[j].admittedAt
  \/ jobs[i].admittedAt = jobs[j].admittedAt /\ i < j

IsNext(j, t) == /\ Claimable(j, t)
                /\ \A i \in Jobs \ {j} : Claimable(i, t) => AdmittedBefore(j, i)

\* Bug: a reopening approves whatever is configured.
AttemptsConfigured(j, configured) == configured

\* processingJobAllowance: only attempts after the latest reopening count, and
\* the allowance that reopening approved caps the configured one.
AttemptsMade(j) == Len(attempts[j]) - jobs[j].before
AttemptsAllowed(j, configured) ==
  IF jobs[j].reopenings = 0 \/ configured <= jobs[j].allowed
  THEN configured ELSE jobs[j].allowed

\* The windows at reading t: released reservations count against neither, and
\* an ended call that reported no cost keeps its reservation.
InWindow(t, span) ==
  {r \in Rows : Row(r).usage \notin {"none", "released"} /\ Row(r).startedAt > t - span}
Charge(a) == IF a.cost = None THEN Reservation ELSE a.cost
Spent(t) == SumFunctionOnSet([r \in Rows |-> Charge(Row(r))], InWindow(t, SpendSpan))

\* Bug: the call asked for is not counted.
RefusalOffByOne(t) ==
  IF Cardinality(InWindow(t, CallSpan)) > CallLimit THEN "calls_per_hour"
  ELSE IF Budget # None /\ Spent(t) + Reservation > Budget THEN "cost_per_day"
  ELSE None

\* Bug: refused only once the budget is spent.
RefusalOnceSpent(t) ==
  IF Cardinality(InWindow(t, CallSpan)) + 1 > CallLimit THEN "calls_per_hour"
  ELSE IF Budget # None /\ Spent(t) >= Budget THEN "cost_per_day"
  ELSE None

\* decideProcessingCall: the window that refuses one more call, None if it fits.
Refusal(t) ==
  IF Cardinality(InWindow(t, CallSpan)) + 1 > CallLimit THEN "calls_per_hour"
  ELSE IF Budget # None /\ Spent(t) + Reservation > Budget THEN "cost_per_day"
  ELSE None

\* The refusing window next changes when its oldest row leaves it.
RefusingSpan(t) == IF Refusal(t) = "calls_per_hour" THEN CallSpan ELSE SpendSpan
Oldest(t, span) ==
  {r \in InWindow(t, span) : \A s \in InWindow(t, span) : Row(r).startedAt <= Row(s).startedAt}

\* The attempts of job j that published their unit.
Receipts(j) == {k \in DOMAIN attempts[j] : attempts[j][k].receipt}

\* A job handed back in state s: nothing claims it any more.
Freed(job, s, wait, retryAt) ==
  [job EXCEPT !.state = s, !.wait = wait, !.retryAt = retryAt, !.claim = None]

-----------------------------------------------------------------------------
(* The lease.                                                              *)

TakeLease(o, t) ==
  /\ lease.owner # None => lease.expiresAt <= t
  /\ lease.generation < MaxGeneration
  /\ lease' = [generation |-> lease.generation + 1, owner |-> o,
               acquiredAt |-> t, expiresAt |-> t + LeaseTerm]
  /\ UNCHANGED <<now, jobs, attempts, paused>>

RenewLease(o, g, t) ==
  /\ HoldsLease(g) /\ lease.owner = o
  /\ lease' = [lease EXCEPT !.expiresAt = t + LeaseTerm]
  /\ UNCHANGED <<now, jobs, attempts, paused>>

\* Bug: the generation is forgotten with its owner.
ReleaseWithGeneration(o, g) ==
  /\ HoldsLease(g) /\ lease.owner = o
  /\ lease' = [generation |-> None, owner |-> None, acquiredAt |-> None, expiresAt |-> None]
  /\ UNCHANGED <<now, jobs, attempts, paused>>

ReleaseLease(o, g) ==
  /\ HoldsLease(g) /\ lease.owner = o
  /\ lease' = [lease EXCEPT !.owner = None, !.acquiredAt = None, !.expiresAt = None]
  /\ UNCHANGED <<now, jobs, attempts, paused>>

-----------------------------------------------------------------------------
(* Scheduling, under the lease.                                            *)

\* Bug: a running job is not looked for.
ClaimBesideAnother(g, j, t) ==
  /\ HoldsLease(g) /\ ~paused
  /\ IsNext(j, t)
  /\ jobs' = [jobs EXCEPT ![j] = [@ EXCEPT !.state = "running", !.claim = g,
                                           !.wait = None, !.retryAt = None]]
  /\ UNCHANGED <<now, lease, attempts, paused>>

ClaimJob(g, j, t) ==
  /\ HoldsLease(g) /\ ~paused
  /\ \A i \in Jobs : jobs[i].state # "running"
  /\ IsNext(j, t)
  /\ jobs' = [jobs EXCEPT ![j] = [@ EXCEPT !.state = "running", !.claim = g,
                                           !.wait = None, !.retryAt = None]]
  /\ UNCHANGED <<now, lease, attempts, paused>>

\* Bug: the wait reason is dropped.
ParkUnmarked(g, j, wait) ==
  /\ Holds(g, j)
  /\ jobs' = [jobs EXCEPT ![j] = Freed(@, "pending", None, None)]
  /\ UNCHANGED <<now, lease, attempts, paused>>

ParkJob(g, j, wait) ==
  /\ Holds(g, j)
  /\ jobs' = [jobs EXCEPT ![j] = Freed(@, "pending", wait, None)]
  /\ UNCHANGED <<now, lease, attempts, paused>>

UnparkJobs(g, reasons) ==
  /\ HoldsLease(g)
  /\ jobs' = [j \in Jobs |->
                IF jobs[j].state = "pending" /\ jobs[j].wait \in reasons
                THEN [jobs[j] EXCEPT !.wait = None] ELSE jobs[j]]
  /\ UNCHANGED <<now, lease, attempts, paused>>

Exhausted(j, configured) == AttemptsMade(j) >= AttemptsAllowed(j, configured)

SettleExhaustedJob(g, j, configured) ==
  /\ Holds(g, j) /\ Exhausted(j, configured)
  /\ jobs' = [jobs EXCEPT ![j] = Freed(@, "terminal_failure", None, None)]
  /\ UNCHANGED <<now, lease, attempts, paused>>

NewAttempt(g, t, call, unit) ==
  [gen |-> g, startedAt |-> t, unit |-> unit, outcome |-> "open", process |-> FALSE,
   receipt |-> FALSE, cost |-> None, usage |-> IF call THEN "reserved" ELSE "none"]

\* startProcessingAttempt: the allowance is judged before the windows, and a
\* refusal, which throws on an empty window, writes no attempt.  A job admitted
\* without a model is attempted under its latest confirmation, any other under
\* none.
StartAttempt(g, j, configured, confirmation, call, unit, t) ==
  /\ Holds(g, j)
  /\ confirmation = jobs[j].confirmations /\ ModelAllowed(j)
  /\ \/ /\ Exhausted(j, configured)
        /\ jobs' = [jobs EXCEPT ![j] = Freed(@, "terminal_failure", None, None)]
        /\ UNCHANGED attempts
     \/ /\ ~Exhausted(j, configured) /\ call /\ Refusal(t) # None
        /\ \E r \in Oldest(t, RefusingSpan(t)) :
             jobs' = [jobs EXCEPT ![j] = Freed(@, "retryable_failure", Refusal(t),
                                               Row(r).startedAt + RefusingSpan(t))]
        /\ UNCHANGED attempts
     \/ /\ ~Exhausted(j, configured)
        /\ call => Refusal(t) = None
        /\ Len(attempts[j]) < MaxAttempts
        /\ attempts' = [attempts EXCEPT ![j] = Append(@, NewAttempt(g, t, call, unit))]
        /\ UNCHANGED jobs
  /\ UNCHANGED <<now, lease, paused>>

\* Bug: the lease is not asserted.
RecordUnfenced(g, j, k) ==
  /\ IsOpen(attempts[j][k]) /\ attempts[j][k].gen = g /\ ~attempts[j][k].process
  /\ attempts' = [attempts EXCEPT ![j][k].process = TRUE]
  /\ UNCHANGED <<now, lease, jobs, paused>>

RecordProcess(g, j, k) ==
  /\ HoldsLease(g)
  /\ IsOpen(attempts[j][k]) /\ attempts[j][k].gen = g /\ ~attempts[j][k].process
  /\ attempts' = [attempts EXCEPT ![j][k].process = TRUE]
  /\ UNCHANGED <<now, lease, jobs, paused>>

\* settleProcessingCall: only the owner of the attempt says how its call ended.
SettleCall(g, j, k, ended, cost) ==
  /\ HoldsLease(g)
  /\ attempts[j][k].gen = g /\ attempts[j][k].usage = "reserved"
  /\ attempts' = [attempts EXCEPT ![j][k] = [@ EXCEPT !.usage = ended, !.cost = cost]]
  /\ UNCHANGED <<now, lease, jobs, paused>>

\* Bug: a reservation may still be held.
SettleBeforeCall(g, j, k, outcome, receipt, freed) ==
  /\ HoldsLease(g)
  /\ IsOpen(attempts[j][k]) /\ attempts[j][k].gen = g
  /\ jobs[j].state = "running" /\ jobs[j].claim = g
  /\ attempts' = [attempts EXCEPT ![j][k] =
                    [@ EXCEPT !.outcome = outcome, !.receipt = receipt]]
  /\ jobs' = [jobs EXCEPT ![j] = freed]
  /\ UNCHANGED <<now, lease, paused>>

\* settleProcessingAttemptInTransaction: the attempt and its job together.
Settle(g, j, k, outcome, receipt, freed) ==
  /\ HoldsLease(g)
  /\ IsOpen(attempts[j][k]) /\ attempts[j][k].gen = g
  /\ jobs[j].state = "running" /\ jobs[j].claim = g
  /\ attempts[j][k].usage # "reserved"
  /\ attempts' = [attempts EXCEPT ![j][k] =
                    [@ EXCEPT !.outcome = outcome, !.receipt = receipt]]
  /\ jobs' = [jobs EXCEPT ![j] = freed]
  /\ UNCHANGED <<now, lease, paused>>

SettleSucceeded(g, j, k) ==
  Settle(g, j, k, "succeeded", FALSE, Freed(jobs[j], "completed", None, None))
SettleTerminal(g, j, k) ==
  Settle(g, j, k, "failed", FALSE, Freed(jobs[j], "terminal_failure", None, None))
SettleRetryable(g, j, k, wait, retryAt) ==
  Settle(g, j, k, "failed", FALSE, Freed(jobs[j], "retryable_failure", wait, retryAt))
SettleUnknown(g, j, k, retryAt) ==
  Settle(g, j, k, "unknown", FALSE,
         Freed(jobs[j], "retryable_failure", "call_result_unknown", retryAt))

\* Bug: a unit's place is compared with the number of units.
PublishOffByOne(g, j, k, t) ==
  /\ attempts[j][k].unit = Cardinality(Receipts(j))
  /\ IF attempts[j][k].unit = Units[j]
     THEN Settle(g, j, k, "succeeded", TRUE, Freed(jobs[j], "completed", None, None))
     ELSE Settle(g, j, k, "failed", TRUE,
                 Freed(jobs[j], "retryable_failure", "source_unit_pending", t))

\* publishInterpretedKnowledgeAndSettleAttempt: what the unit derived is
\* published in the transaction that settles its attempt.  Units settle once,
\* in schedule order; the last completes the job, and an earlier one leaves it
\* retryable at once, its attempt recorded as failed but with a receipt.
PublishUnit(g, j, k, t) ==
  /\ \A r \in Receipts(j) : attempts[j][r].unit # attempts[j][k].unit
  /\ attempts[j][k].unit = Cardinality(Receipts(j))
  /\ IF attempts[j][k].unit + 1 = Units[j]
     THEN Settle(g, j, k, "succeeded", TRUE, Freed(jobs[j], "completed", None, None))
     ELSE Settle(g, j, k, "failed", TRUE,
                 Freed(jobs[j], "retryable_failure", "source_unit_pending", t))

-----------------------------------------------------------------------------
(* Recovery.                                                               *)

\* A start the new owner's own clock does not believe is read as the moment it
\* took the lease.
CredibleStart(a) ==
  IF a.startedAt > lease.acquiredAt \/ a.startedAt < lease.acquiredAt - CallLifetime
  THEN lease.acquiredAt ELSE a.startedAt

\* Bug: the call's lifetime is not waited for.
SettlesAtOnce(g, j, k, gone, t) ==
  /\ IsOpen(attempts[j][k]) /\ attempts[j][k].gen # g

\* What recovery under g at t settles, told that the processes of `gone` ended.
Settles(g, j, k, gone, t) ==
  /\ IsOpen(attempts[j][k]) /\ attempts[j][k].gen # g
  /\ t >= CredibleStart(attempts[j][k]) + CallLifetime \/ <<j, k>> \in gone

\* Settled attempts end unknown with their reservation kept, and a claim with
\* no open attempt goes back to the queue.
Recover(g, gone, t, retryAt) ==
  LET settled(j) == {k \in DOMAIN attempts[j] : Settles(g, j, k, gone, t)}
      open(j) == {k \in DOMAIN attempts[j] : IsOpen(attempts[j][k])}
  IN /\ HoldsLease(g)
     /\ attempts' = [j \in Jobs |-> [k \in DOMAIN attempts[j] |->
          IF k \in settled(j)
          THEN [attempts[j][k] EXCEPT !.outcome = "unknown",
                  !.usage = IF @ = "reserved" THEN "unknown" ELSE @]
          ELSE attempts[j][k]]]
     /\ jobs' = [j \in Jobs |->
          IF settled(j) # {}
          THEN Freed(jobs[j], "retryable_failure", "call_result_unknown", retryAt)
          ELSE IF jobs[j].state = "running" /\ jobs[j].claim # g /\ open(j) = {}
          THEN Freed(jobs[j], "pending", None, None)
          ELSE jobs[j]]
     /\ UNCHANGED <<now, lease, paused>>

-----------------------------------------------------------------------------
(* What needs no lease: admission and a person's acts.                     *)

AdmitJob(j, t) ==
  /\ jobs[j].state = "absent"
  /\ jobs' = [jobs EXCEPT ![j] = [AbsentJob EXCEPT !.state = "pending", !.admittedAt = t]]
  /\ UNCHANGED <<now, lease, attempts, paused>>

RetryJob(j, t) ==
  /\ \/ /\ jobs[j].state = "pending"
        /\ jobs' = [jobs EXCEPT ![j] = [@ EXCEPT !.wait = None, !.retryAt = None]]
     \/ /\ jobs[j].state = "retryable_failure"
        /\ jobs' = [jobs EXCEPT ![j].retryAt = t]
  /\ UNCHANGED <<now, lease, attempts, paused>>

\* Bug: any finished job is reopened.
ReopenEnded(j, shown, approved) ==
  /\ jobs[j].state \in {"terminal_failure", "completed"} /\ jobs[j].reopenings = shown
  /\ shown < MaxReopenings
  /\ jobs' = [jobs EXCEPT ![j] = [@ EXCEPT
       !.state = "pending", !.wait = None, !.retryAt = None,
       !.reopenings = shown + 1, !.before = Len(attempts[j]), !.allowed = approved]]
  /\ UNCHANGED <<now, lease, attempts, paused>>

ReopenJob(j, shown, approved) ==
  /\ jobs[j].state = "terminal_failure" /\ jobs[j].reopenings = shown
  /\ shown < MaxReopenings
  /\ jobs' = [jobs EXCEPT ![j] = [@ EXCEPT
       !.state = "pending", !.wait = None, !.retryAt = None,
       !.reopenings = shown + 1, !.before = Len(attempts[j]), !.allowed = approved]]
  /\ UNCHANGED <<now, lease, attempts, paused>>

ConfirmModel(j, shown) ==
  /\ j \in WithoutModel /\ jobs[j].state \in {"pending", "retryable_failure"}
  /\ ~HasOpenAttempt(j) /\ jobs[j].confirmations = shown
  /\ shown < MaxConfirmations
  /\ jobs' = [jobs EXCEPT ![j] =
       IF @.wait = "model_reconfirmation_required"
       THEN [@ EXCEPT !.confirmations = shown + 1, !.wait = None, !.retryAt = None]
       ELSE [@ EXCEPT !.confirmations = shown + 1]]
  /\ UNCHANGED <<now, lease, attempts, paused>>

SetPause(p) ==
  /\ paused' = p
  /\ UNCHANGED <<now, lease, jobs, attempts>>

\* The worker's own pause names its generation.
PauseUnder(g) == HoldsLease(g) /\ SetPause(TRUE)

Tick == /\ now < MaxTime
        /\ now' = now + 1
        /\ UNCHANGED <<lease, jobs, attempts, paused>>

-----------------------------------------------------------------------------
(* The specification.                                                      *)

Init ==
  /\ now = 0
  /\ lease = [generation |-> 0, owner |-> None, acquiredAt |-> None, expiresAt |-> None]
  /\ jobs = [j \in Jobs |-> AbsentJob]
  /\ attempts = [j \in Jobs |-> <<>>]
  /\ paused = FALSE

LeaseStep(g, t) ==
  \E o \in Owners : RenewLease(o, g, t) \/ ReleaseLease(o, g)

\* A settlement's retry time is a backoff after the reading; that of a call
\* whose provider was not seen to stop is its whole lifetime after it.  Only an
\* attempt that made no call is settled as succeeded without publishing.
AttemptStep(g, j, k, t) ==
  \/ RecordProcess(g, j, k)
  \/ \E c \in Maybe(ReportedCosts) : SettleCall(g, j, k, "settled", c)
  \/ \E ended \in {"unknown", "released"} : SettleCall(g, j, k, ended, None)
  \/ attempts[j][k].unit = None /\ SettleSucceeded(g, j, k)
  \/ SettleTerminal(g, j, k)
  \/ SettleRetryable(g, j, k, "call_failed", t + RetryDelay)
  \/ SettleUnknown(g, j, k, t + CallLifetime)
  \/ PublishUnit(g, j, k, t)

\* Only a job with nothing to interpret is attempted without a call.
StartStep(g, j, t) ==
  \E configured \in AttemptLimits, c \in 0..MaxConfirmations :
    \/ Units[j] = 0 /\ StartAttempt(g, j, configured, c, FALSE, None, t)
    \/ \E unit \in 0..(Units[j] - 1) : StartAttempt(g, j, configured, c, TRUE, unit, t)

JobStep(g, j, t) ==
  \/ ClaimJob(g, j, t)
  \/ \E wait \in Maybe(ParkReasons) : ParkJob(g, j, wait)
  \/ \E configured \in AttemptLimits : SettleExhaustedJob(g, j, configured)
  \/ StartStep(g, j, t)
  \/ \E k \in DOMAIN attempts[j] : AttemptStep(g, j, k, t)

RecoverStep(g, t) ==
  \E gone \in SUBSET {r \in Rows : IsOpen(Row(r))} : Recover(g, gone, t, t + RetryDelay)

PersonStep(j, t) ==
  \/ AdmitJob(j, t)
  \/ RetryJob(j, t)
  \/ \E approved \in AttemptLimits : ReopenJob(j, jobs[j].reopenings, approved)
  \/ ConfirmModel(j, jobs[j].confirmations)

\* An operation may be invoked under any generation ever issued.
OwnerStep(g, t) ==
  \/ LeaseStep(g, t)
  \/ \E j \in Jobs : JobStep(g, j, t)
  \/ UnparkJobs(g, {"origin_bound"})
  \/ RecoverStep(g, t)
  \/ PauseUnder(g)

Next ==
  \/ \E t \in Clock :
       \/ \E o \in Owners : TakeLease(o, t)
       \/ \E g \in 1..lease.generation : OwnerStep(g, t)
       \/ \E j \in Jobs : PersonStep(j, t)
  \/ \E p \in BOOLEAN : SetPause(p)
  \/ Tick

Spec == Init /\ [][Next]_vars

-----------------------------------------------------------------------------
(* Properties.                                                             *)

\* Every row keeps the shape its table's columns and CHECKs give it.
TypeOK ==
  /\ now \in Nat /\ lease \in Lease /\ paused \in BOOLEAN
  /\ jobs \in [Jobs -> Job]
  /\ attempts \in [Jobs -> Seq(Attempt)]

\* One job runs at a time per project database (processing-schedule.ts:1-4),
\* and exactly the running job names the generation that claimed it
\* (knowledge-schema.ts:547).
OneRunning ==
  /\ \A i, j \in Jobs :
       jobs[i].state = "running" /\ jobs[j].state = "running" => i = j
  /\ \A j \in Jobs : (jobs[j].state = "running") <=> (jobs[j].claim # None)

\* An unsettled attempt is its job's latest, and its job is still running under
\* the generation that started it: nothing settles, parks, retries or reopens a
\* job behind an attempt whose call may still be alive.  Every recovery and
\* settlement that overwrites a job's state relies on it.
OpenAttemptHeld ==
  \A j \in Jobs : \A k \in DOMAIN attempts[j] : IsOpen(attempts[j][k]) =>
    /\ k = Len(attempts[j])
    /\ jobs[j].state = "running" /\ jobs[j].claim = attempts[j][k].gen

\* No hold is stranded: a reservation still counted as reserved belongs to an
\* unsettled attempt, which is all recovery looks at.
NoStrandedHold ==
  \A j \in Jobs : \A k \in DOMAIN attempts[j] :
    attempts[j][k].usage = "reserved" => IsOpen(attempts[j][k])

\* Reopening is the only thing that renews an allowance: however retries,
\* recoveries and reopenings interleave, the attempts since the latest
\* reopening stay within what that reopening approved, and within what some
\* configuration allowed.
AllowanceHeld ==
  \A j \in Jobs : AttemptsMade(j) > 0 =>
    /\ \E configured \in AttemptLimits : AttemptsMade(j) <= configured
    /\ jobs[j].reopenings > 0 => AttemptsMade(j) <= jobs[j].allowed

\* However attempts fail, are lost and are retried, each unit of a job is
\* published at most once and in schedule order, and a job with units is
\* completed exactly when all of them are published.
UnitsPublishedOnce ==
  \A j \in Jobs :
    /\ \A k, l \in Receipts(j) : k < l => attempts[j][k].unit < attempts[j][l].unit
    /\ Units[j] > 0 =>
         (jobs[j].state = "completed" <=> Cardinality(Receipts(j)) = Units[j])

\* At no instant do the calls of one window exceed the limit, whatever clocks
\* the owners that reserved them read.
CallWindowHeld ==
  \A w \in 0..(MaxTime + Skew) :
    Cardinality({r \in InWindow(w, CallSpan) : Row(r).startedAt <= w}) <= CallLimit

\* Nor does the spend of one window exceed the daily budget, each call counted
\* at what it cost or at what was held for it if it cost more.
SpendWindowHeld ==
  Budget # None =>
    \A w \in 0..(MaxTime + Skew) :
      SumFunctionOnSet([r \in Rows |-> Min({Charge(Row(r)), Reservation})],
                       {r \in InWindow(w, SpendSpan) : Row(r).startedAt <= w}) <= Budget

\* So no window ever holds more than it may, of calls or of spend, although
\* each reservation judges it at its own clock.
WindowsHeld == CallWindowHeld /\ SpendWindowHeld

\* Every write names the generation it acts under, so a superseded or released
\* owner changes nothing: attempts are added and settled only by the present
\* holder on its own behalf, and it ends an earlier owner's only as unknown.
SupersededChangesNothing ==
  [][\A j \in Jobs :
       /\ \A k \in DOMAIN attempts[j] :
            attempts'[j][k] # attempts[j][k] =>
              \/ HoldsLease(attempts[j][k].gen)
              \/ lease.owner # None /\ attempts'[j][k].outcome = "unknown"
       /\ Len(attempts'[j]) > Len(attempts[j]) => HoldsLease(attempts'[j][Len(attempts'[j])].gen)
       /\ jobs'[j].claim \notin {jobs[j].claim, None} => HoldsLease(jobs'[j].claim)]_vars

\* What has ended stays as it ended: a completed job, a settled attempt and an
\* ended reservation never change, and only a reopening revives a job that
\* gave up.
EndedForever ==
  [][\A j \in Jobs :
       /\ jobs[j].state = "completed" => jobs'[j] = jobs[j]
       /\ jobs[j].state = "terminal_failure" =>
            jobs'[j] = jobs[j] \/ jobs'[j].reopenings = jobs[j].reopenings + 1
       /\ \A k \in DOMAIN attempts[j] :
            /\ ~IsOpen(attempts[j][k]) => attempts'[j][k] = attempts[j][k]
            /\ attempts[j][k].usage # "reserved" =>
                 attempts'[j][k].usage = attempts[j][k].usage]_vars

=============================================================================
