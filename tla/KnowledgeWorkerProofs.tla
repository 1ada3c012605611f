------------------------ MODULE KnowledgeWorkerProofs ------------------------
(***************************************************************************)
(* The worker implements the queue, and its provider calls are safe, for   *)
(* any owners, jobs, limits and times.                                     *)
(*                                                                         *)
(* KnowInv says what a run knows of the attempt in its hands (RunInv),     *)
(* that no two runs were given one generation (OneRunEach), that what is   *)
(* spawned is young, recorded late and ended only once it is seen to be    *)
(* gone (CallInv), and that a lease is younger than what earlier owners    *)
(* started under theirs (LeaseInv).  With it every step of the worker is a *)
(* step of the queue, so that IInv and JobInv, which ProcessingQueueProofs *)
(* proves inductive for the queue, hold of the worker too.  WorkerInv adds *)
(* when the job of a live call comes due (Waits).                          *)
(***************************************************************************)
EXTENDS KnowledgeWorker, ProcessingQueueProofs

-----------------------------------------------------------------------------
(* The invariant.                                                          *)

RunRecord ==
  [pc: Places, gen: Nat, lost: BOOLEAN, found: SUBSET (Jobs \X Nat), gone: SUBSET (Jobs \X Nat),
   job: Maybe(Jobs), attempt: Nat, result: Results]

WorkerTyped ==
  /\ worker \in [Owners -> RunRecord]
  /\ \A o \in Owners : worker[o].gen <= lease.generation

\* Where a run has an attempt in its hands, and where that attempt's call is over.
Ending == {"complete", "withdraw", "settle_call", "settle"}
Handling == Ending \cup {"spawn", "calling"}

Young(r) == now < Row(r).startedAt + CallLifetime

RunInv(o) ==
  /\ worker[o].found \subseteq called /\ worker[o].gone \subseteq called \ alive
  /\ At(o, "dispatch") => worker[o].job \in Jobs
  /\ worker[o].pc \in Handling =>
       InHand(o) \in Rows /\ worker[o].gen # 0 /\ Row(InHand(o)).gen = worker[o].gen
  /\ At(o, "complete") => Row(InHand(o)).unit = None
  /\ At(o, "spawn") => /\ InHand(o) \notin called /\ Row(InHand(o)).usage # "released"
                       /\ Young(InHand(o)) => IsOpen(Row(InHand(o)))
  /\ At(o, "calling") => InHand(o) \in called
  /\ At(o, "settle_call") /\ worker[o].result = "not_started" => InHand(o) \notin called
  /\ At(o, "withdraw") => InHand(o) \notin called
  /\ worker[o].pc \in Ending /\ InHand(o) \in alive =>
       worker[o].result = "lost" /\ InHand(o) \in unconfirmed

OneRunEach ==
  \A o, p \in Owners : worker[o].gen = worker[p].gen /\ worker[o].gen # 0 => o = p

CallInv ==
  /\ called \subseteq Rows /\ alive \subseteq called
  /\ \A r \in Rows : Row(r).startedAt <= now /\ (Row(r).process => r \in called)
  /\ \A r \in called : Row(r).usage # "released"
  /\ \A r \in alive : Young(r)
  /\ \A r \in alive \ unconfirmed : IsOpen(Row(r))

LeaseInv ==
  lease.owner # None =>
    /\ lease.generation \in Nat \ {0} /\ lease.acquiredAt \in Nat
    /\ \A r \in Rows : Row(r).gen # lease.generation => Row(r).startedAt <= lease.acquiredAt

\* A job whose latest call may still run is due, or waits for that call's
\* lifetime, or for the window that put off what a person asked for.
Waits(r) ==
  r[2] = Len(attempts[r[1]]) /\ jobs[r[1]].state = "retryable_failure" =>
    \/ jobs[r[1]].retryAt <= now
    \/ jobs[r[1]].retryAt >= Row(r).startedAt + CallLifetime
    \/ jobs[r[1]].wait \in WindowReasons

KnowInv ==
  /\ WorkerTyped /\ OneRunEach /\ CallInv /\ LeaseInv
  /\ \A o \in Owners : RunInv(o)

WorkerInv == KnowInv /\ \A r \in alive : Waits(r)

-----------------------------------------------------------------------------
(* Every step of the worker is a step of the queue, or none.               *)

LEMMA NowIsRead == ASSUME TypeOK PROVE now \in Clock /\ now \in Nat
BY OneClock, TimeAssumption DEF TypeOK, Clock

LEMMA HolderIssued ==
  ASSUME TypeOK, LeaseInv, NEW g, HoldsLease(g) PROVE g \in 1..lease.generation
BY DEF HoldsLease, LeaseInv, TypeOK, Lease

LEMMA OwnerSteps ==
  ASSUME TypeOK, LeaseInv, NEW g, HoldsLease(g), OwnerStep(g, now) PROVE Next
BY NowIsRead, HolderIssued DEF Next

LEMMA JobSteps ==
  ASSUME TypeOK, LeaseInv, NEW g, HoldsLease(g), NEW j \in Jobs, JobStep(g, j, now) PROVE Next
BY OwnerSteps DEF OwnerStep

LEMMA AttemptSteps ==
  ASSUME TypeOK, LeaseInv, NEW g, HoldsLease(g), NEW j \in Jobs, NEW k \in DOMAIN attempts[j],
         AttemptStep(g, j, k, now)
  PROVE  Next
BY JobSteps DEF JobStep

\* Recovery looks at open attempts only, whatever else it is told of.
LEMMA RecoverSteps ==
  ASSUME TypeOK, LeaseInv, NEW g, NEW gone, Recover(g, gone, now, now + RetryDelay) PROVE Next
<1> DEFINE open == gone \cap {r \in Rows : IsOpen(Row(r))}
<1>1. \A j \in Jobs : \A k \in DOMAIN attempts[j] :
        Settles(g, j, k, gone, now) <=> Settles(g, j, k, open, now)
  <2> SUFFICES ASSUME NEW j \in Jobs, NEW k \in DOMAIN attempts[j], IsOpen(attempts[j][k])
               PROVE  <<j, k>> \in gone <=> <<j, k>> \in open
    BY DEF Settles
  <2>1. <<j, k>> \in Rows /\ Row(<<j, k>>) = attempts[j][k]
    BY RowsOf DEF Row
  <2> QED
    BY <2>1
<1>2. \A j \in Jobs : {k \in DOMAIN attempts[j] : Settles(g, j, k, gone, now)}
                      = {k \in DOMAIN attempts[j] : Settles(g, j, k, open, now)}
  BY <1>1
<1> HIDE DEF open
<1>3. Recover(g, open, now, now + RetryDelay)
  BY <1>1, <1>2 DEF Recover
<1>4. HoldsLease(g)
  BY DEF Recover
<1>5. RecoverStep(g, now)
  BY <1>3 DEF RecoverStep, open
<1> QED
  BY <1>4, <1>5, OwnerSteps DEF OwnerStep

\* What a run needs to know of the attempt it settles.
LEMMA HandsOn ==
  ASSUME NEW o \in Owners, RunInv(o), worker[o].pc \in Handling, TypeOK
  PROVE  /\ worker[o].job \in Jobs /\ worker[o].attempt \in DOMAIN attempts[worker[o].job]
         /\ Row(InHand(o)) = attempts[worker[o].job][worker[o].attempt]
         /\ InHand(o) \in Rows /\ Row(InHand(o)).gen = worker[o].gen
BY RowType DEF RunInv, InHand, Row

LEMMA BeginImplements ==
  ASSUME IInv, JobInv, LeaseInv, NEW o \in Owners, RunInv(o), BeginAttempt(o) PROVE Next
<1> PICK j \in Jobs : j = worker[o].job
  BY DEF BeginAttempt, RunInv
<1> DEFINE call == Units[j] > 0
           unit == IF call THEN Cardinality(Receipts(j)) ELSE None
<1>1. PICK configured \in AttemptLimits :
             StartAttempt(worker[o].gen, j, configured, jobs[j].confirmations, call, unit, now)
  BY DEF BeginAttempt
<1>2. /\ HoldsLease(worker[o].gen) /\ jobs[j].state = "running"
      /\ jobs[j] \in Job /\ TypeOK
  BY <1>1 DEF StartAttempt, Holds, IInv, TypeOK
<1>3. jobs[j].confirmations \in 0..MaxConfirmations
  BY <1>2, BoundAssumption DEF JobInv, Scheduled, Job
<1>4. CASE call
  <2>1. Cardinality(Receipts(j)) \in 0..(Units[j] - 1)
    <3>1. Cardinality(Receipts(j)) \in Nat /\ Units[j] \in Nat
      BY JobsAssumption, ReceiptsType DEF IInv
    <3>2. Cardinality(Receipts(j)) <= Units[j] /\ Cardinality(Receipts(j)) # Units[j]
      BY <1>2, <1>4 DEF JobInv, Ranked, Finished
    <3> QED
      BY <3>1, <3>2
  <2>2. StartAttempt(worker[o].gen, j, configured, jobs[j].confirmations, TRUE,
                     Cardinality(Receipts(j)), now)
    BY <1>1, <1>4
  <2>3. StartStep(worker[o].gen, j, now)
    BY <1>3, <2>1, <2>2 DEF StartStep
  <2> QED
    BY <1>2, <2>3, JobSteps DEF JobStep
<1>5. CASE ~call
  <2>1. Units[j] = 0
    BY <1>5, JobsAssumption
  <2>2. StartAttempt(worker[o].gen, j, configured, jobs[j].confirmations, FALSE, None, now)
    <3>1. call = FALSE /\ unit = None
      BY <1>5
    <3> HIDE DEF call, unit
    <3> QED
      BY <1>1, <3>1
  <2>3. StartStep(worker[o].gen, j, now)
    BY <1>3, <2>1, <2>2 DEF StartStep
  <2> QED
    BY <1>2, <2>3, JobSteps DEF JobStep
<1> QED
  BY <1>4, <1>5

\* A run that settles what it has in hand.
LEMMA SettlingImplements ==
  ASSUME IInv, LeaseInv, NEW o \in Owners, RunInv(o),
         \/ CompleteWithoutCall(o) \/ WithdrawBeforeSpawn(o) \/ SettleWithdrawn(o)
         \/ RecordSpawned(o) \/ EndCall(o) \/ SettleLost(o) \/ SettleAgain(o)
         \/ SettleGaveUp(o) \/ Publish(o)
  PROVE  Next
<1> DEFINE g == worker[o].gen
           j == worker[o].job
           k == worker[o].attempt
<1>1. worker[o].pc \in Handling
  BY DEF Handling, Ending, At, CompleteWithoutCall, WithdrawBeforeSpawn, SettleWithdrawn,
         RecordSpawned, EndCall, SettleLost, SettleAgain, SettleGaveUp, Publish
<1>2. j \in Jobs /\ k \in DOMAIN attempts[j] /\ TypeOK /\ Row(InHand(o)) = attempts[j][k]
  BY <1>1, HandsOn DEF IInv
<1>3. ASSUME AttemptStep(g, j, k, now), HoldsLease(g) PROVE Next
  BY <1>2, <1>3, AttemptSteps
<1>4. CASE CompleteWithoutCall(o)
  <2>1. SettleSucceeded(g, j, k) /\ attempts[j][k].unit = None
    BY <1>2, <1>4 DEF CompleteWithoutCall, RunInv
  <2>2. HoldsLease(g)
    BY <2>1 DEF SettleSucceeded, Settle
  <2> HIDE DEF g, j, k
  <2> QED
    BY <1>3, <2>1, <2>2 DEF AttemptStep
<1>5. CASE WithdrawBeforeSpawn(o)
  <2>1. SettleCall(g, j, k, "released", None) /\ HoldsLease(g)
    BY <1>5 DEF WithdrawBeforeSpawn, SettleCall
  <2> HIDE DEF g, j, k
  <2> QED
    BY <1>3, <2>1 DEF AttemptStep
<1>6. CASE SettleWithdrawn(o) \/ SettleAgain(o)
  <2>1. SettleRetryable(g, j, k, "call_failed", now + RetryDelay) /\ HoldsLease(g)
    BY <1>6 DEF SettleWithdrawn, SettleAgain, SettleRetryable, Settle
  <2> HIDE DEF g, j, k
  <2> QED
    BY <1>3, <2>1 DEF AttemptStep
<1>7. CASE RecordSpawned(o)
  <2>1. RecordProcess(g, j, k) /\ HoldsLease(g)
    BY <1>7 DEF RecordSpawned, RecordProcess
  <2> HIDE DEF g, j, k
  <2> QED
    BY <1>3, <2>1 DEF AttemptStep
<1>8. CASE EndCall(o)
  <2>1. /\ \/ SettleCall(g, j, k, "unknown", None) \/ SettleCall(g, j, k, "released", None)
           \/ \E c \in Maybe(ReportedCosts) : SettleCall(g, j, k, "settled", c)
        /\ HoldsLease(g)
    BY <1>8 DEF EndCall, SettleCall
  <2> HIDE DEF g, j, k
  <2> QED
    BY <1>3, <2>1 DEF AttemptStep
<1>9. CASE SettleLost(o)
  <2>1. SettleUnknown(g, j, k, now + CallLifetime) /\ HoldsLease(g)
    BY <1>9 DEF SettleLost, SettleUnknown, Settle
  <2> HIDE DEF g, j, k
  <2> QED
    BY <1>3, <2>1 DEF AttemptStep
<1>10. CASE SettleGaveUp(o)
  <2>1. SettleTerminal(g, j, k) /\ HoldsLease(g)
    BY <1>10 DEF SettleGaveUp, SettleTerminal, Settle
  <2> HIDE DEF g, j, k
  <2> QED
    BY <1>3, <2>1 DEF AttemptStep
<1>11. CASE Publish(o)
  <2>1. PublishUnit(g, j, k, now) /\ HoldsLease(g)
    BY <1>11 DEF Publish, PublishUnit, Settle
  <2> HIDE DEF g, j, k
  <2> QED
    BY <1>3, <2>1 DEF AttemptStep
<1> QED
  BY <1>4, <1>5, <1>6, <1>7, <1>8, <1>9, <1>10, <1>11

LEMMA StepImplements ==
  ASSUME IInv, JobInv, LeaseInv, NEW o \in Owners, RunInv(o),
         Step(o) \/ Heartbeat(o) \/ RecordSpawned(o) \/ Crash(o)
  PROVE  [Next]_vars
<1> DEFINE g == worker[o].gen
           j == worker[o].job
<1>1. TypeOK
  BY DEF IInv
<1>2. CASE Start(o)
  <2>1. CASE TakeLease(o, now)
    BY <1>1, <2>1, NowIsRead DEF Next
  <2> QED
    BY <1>2, <2>1 DEF Start
<1>3. CASE Finish(o) \/ Heartbeat(o)
  <2>1. CASE ReleaseLease(o, g) \/ RenewLease(o, g, now)
    <3>1. HoldsLease(g)
      BY <2>1 DEF ReleaseLease, RenewLease
    <3>2. OwnerStep(g, now)
      BY <2>1 DEF OwnerStep, LeaseStep
    <3> QED
      BY <1>1, <3>1, <3>2, OwnerSteps
  <2> QED
    BY <1>3, <2>1 DEF Finish, Heartbeat
<1>4. CASE RecoverOnce(o) \/ RecoverGone(o)
  BY <1>1, <1>4, RecoverSteps DEF RecoverOnce, RecoverGone
<1>5. CASE ReexamineOriginBound(o)
  <2>1. CASE UnparkJobs(g, {"origin_bound"})
    <3>1. HoldsLease(g) /\ OwnerStep(g, now)
      BY <2>1 DEF UnparkJobs, OwnerStep
    <3> QED
      BY <1>1, <3>1, OwnerSteps
  <2> QED
    BY <1>5, <2>1 DEF ReexamineOriginBound
<1>6. CASE Claim(o)
  <2>1. PICK i \in Jobs : ClaimJob(g, i, now)
    BY <1>6 DEF Claim
  <2>2. HoldsLease(g) /\ JobStep(g, i, now)
    BY <2>1 DEF ClaimJob, JobStep
  <2> QED
    BY <1>1, <2>2, JobSteps
<1>7. CASE Refuse(o) \/ OverSchedule(o)
  <2>1. j \in Jobs
    BY <1>7 DEF Refuse, OverSchedule, RunInv
  <2>2. PICK wait \in Maybe(ParkReasons) : ParkJob(g, j, wait)
    BY <1>7, SchedulesAreParked DEF Refuse, OverSchedule, Maybe
  <2>3. HoldsLease(g) /\ JobStep(g, j, now)
    BY <2>2 DEF ParkJob, Holds, JobStep
  <2> QED
    BY <1>1, <2>1, <2>3, JobSteps
<1>8. CASE FinishExhausted(o)
  <2>1. j \in Jobs /\ \E configured \in AttemptLimits : SettleExhaustedJob(g, j, configured)
    BY <1>8 DEF FinishExhausted, RunInv
  <2>2. HoldsLease(g) /\ JobStep(g, j, now)
    BY <2>1 DEF SettleExhaustedJob, Holds, JobStep
  <2> QED
    BY <1>1, <2>1, <2>2, JobSteps
<1>9. CASE BeginAttempt(o)
  BY <1>9, BeginImplements
<1>10. CASE \/ CompleteWithoutCall(o) \/ WithdrawBeforeSpawn(o) \/ SettleWithdrawn(o)
            \/ RecordSpawned(o) \/ EndCall(o) \/ SettleLost(o) \/ SettleAgain(o)
            \/ SettleGaveUp(o) \/ Publish(o)
  BY <1>10, SettlingImplements
<1>11. CASE PauseWorkload(o)
  <2>1. HoldsLease(g) /\ OwnerStep(g, now)
    BY <1>11 DEF PauseWorkload, PauseUnder, OwnerStep
  <2> QED
    BY <1>1, <2>1, OwnerSteps
<1>12. CASE \/ Fail(o) \/ Terminate(o) \/ Exit(o) \/ Spawn(o) \/ SpawnRefused(o)
            \/ CallEnds(o) \/ LeaveUnsettled(o) \/ Crash(o)
  BY <1>12 DEF Fail, Terminate, Exit, Spawn, SpawnRefused, CallEnds, LeaveUnsettled, Crash
<1> QED
  BY <1>2, <1>3, <1>4, <1>5, <1>6, <1>7, <1>8, <1>9, <1>10, <1>11, <1>12 DEF Step

LEMMA PeopleImplement ==
  ASSUME TypeOK, ProviderEnds \/ Person \/ Time PROVE [Next]_vars
<1>1. now \in Clock
  BY NowIsRead
<1>2. ASSUME NEW j \in Jobs, PersonStep(j, now) PROVE Next
  BY <1>1, <1>2 DEF Next
<1>3. CASE Person
  BY <1>2, <1>3 DEF Person, PersonStep, Next
<1> QED
  BY <1>3 DEF ProviderEnds, Time, Next

-----------------------------------------------------------------------------
(* What a step under generation g leaves, having spawned the calls of      *)
(* `fresh`.                                                                *)

SameStart(a, b) == b.gen = a.gen /\ b.unit = a.unit /\ b.startedAt = a.startedAt

\* What it may do to a row: ending it and releasing its reservation is the
\* holder's own, unless its process is gone or its lifetime over.
RowKept(g, r, b) ==
  /\ SameStart(Row(r), b)
  /\ b.process => Row(r).process \/ r \in called
  /\ b.usage = "released" => Row(r).usage = "released" \/ (Row(r).gen = g /\ r \notin called)
  /\ IsOpen(Row(r)) /\ ~IsOpen(b) => \/ Row(r).gen = g /\ r \notin alive \ unconfirmed
                                     \/ r \notin alive /\ (r \in called \/ ~Young(r))

Frame(g, fresh) ==
  /\ now' >= now
  /\ Rows \subseteq Rows'
  /\ \A r \in Rows : RowKept(g, r, attempts'[r[1]][r[2]])
  /\ \A r \in Rows' \ Rows : LET a == attempts'[r[1]][r[2]]
                             IN a.startedAt = now /\ ~a.process /\ a.gen = lease.generation
  /\ called' = called \cup fresh /\ alive' \subseteq alive \cup fresh
  /\ unconfirmed \subseteq unconfirmed'
  /\ fresh # {} => UNCHANGED <<attempts, now>>
  /\ \A r \in fresh : /\ r \in Rows \ called /\ Row(r).gen = g
                      /\ Row(r).usage # "released" /\ IsOpen(Row(r)) /\ Young(r)
  /\ \A r \in alive' \cap Rows : now' < Row(r).startedAt + CallLifetime

LEMMA FrameKeepsCalls ==
  ASSUME IInv, CallInv, NEW g, NEW fresh, Frame(g, fresh), now' \in Nat PROVE CallInv'
<1> DEFINE row(r) == attempts'[r[1]][r[2]]
<1>1. \A r \in Rows : Row(r).startedAt \in Nat /\ Row(r).startedAt <= now /\ now \in Nat
  BY RowType DEF CallInv, IInv, TypeOK
<1>2. called' \subseteq Rows' /\ alive' \subseteq called'
  BY DEF CallInv, Frame
<1>3. \A r \in Rows' : row(r).startedAt <= now' /\ (row(r).process => r \in called')
  <2> SUFFICES ASSUME NEW r \in Rows'
               PROVE  row(r).startedAt <= now' /\ (row(r).process => r \in called')
    OBVIOUS
  <2>1. CASE r \in Rows
    BY <1>1, <2>1 DEF Frame, RowKept, SameStart, CallInv
  <2>2. CASE r \notin Rows
    BY <2>2 DEF Frame, IInv, TypeOK
  <2> QED
    BY <2>1, <2>2
<1>4. \A r \in called' : row(r).usage # "released"
  <2> SUFFICES ASSUME NEW r \in called' PROVE row(r).usage # "released"
    OBVIOUS
  <2>1. CASE r \in called
    BY <2>1 DEF Frame, RowKept, CallInv
  <2>2. CASE r \in fresh
    BY <2>2 DEF Frame, Row
  <2> QED
    BY <2>1, <2>2 DEF Frame
<1>5. \A r \in alive' : r \in Rows /\ row(r).startedAt = Row(r).startedAt
  BY DEF Frame, RowKept, SameStart, CallInv
<1>6. \A r \in alive' : now' < row(r).startedAt + CallLifetime
  BY <1>5 DEF Frame
<1>7. \A r \in alive' \ unconfirmed' : IsOpen(row(r))
  <2> SUFFICES ASSUME NEW r \in alive' \ unconfirmed' PROVE IsOpen(row(r))
    OBVIOUS
  <2>1. CASE r \in alive
    <3>1. r \in Rows /\ IsOpen(Row(r)) /\ r \in alive \ unconfirmed
      BY <2>1 DEF Frame, CallInv
    <3> QED
      BY <2>1, <3>1 DEF Frame, RowKept
  <2>2. CASE r \in fresh
    BY <2>2 DEF Frame, Row
  <2> QED
    BY <2>1, <2>2 DEF Frame
<1> QED
  BY <1>2, <1>3, <1>4, <1>6, <1>7 DEF CallInv, Row, Young

\* A run that the step is not of knows what it knew.
LEMMA FrameKeepsRun ==
  ASSUME IInv, CallInv, NEW g, NEW fresh, Frame(g, fresh), now' \in Nat,
         NEW p \in Owners, RunInv(p), worker'[p] = worker[p],
         worker[p].pc \in Handling => worker[p].gen # g
  PROVE  RunInv(p)'
<1> DEFINE h == InHand(p)
           row(r) == attempts'[r[1]][r[2]]
<1>1. InHand(p)' = h
  BY DEF InHand
<1>2. worker[p].found \subseteq called' /\ worker[p].gone \subseteq called' \ alive'
  BY DEF RunInv, Frame
<1>3. ASSUME worker[p].pc \in Handling
      PROVE  /\ h \in Rows /\ h \in Rows' /\ worker[p].gen # 0 /\ Row(h).gen = worker[p].gen
             /\ RowKept(g, h, row(h)) /\ Row(h).gen # g /\ h \notin fresh
  BY <1>3 DEF RunInv, Frame
<1>4. worker[p].pc \in Handling => row(h).gen = worker[p].gen /\ row(h).unit = Row(h).unit
  BY <1>3 DEF RowKept, SameStart
<1>5. At(p, "spawn") =>
        /\ h \notin called' /\ row(h).usage # "released"
        /\ now' < row(h).startedAt + CallLifetime => IsOpen(row(h))
  <2> SUFFICES ASSUME At(p, "spawn")
               PROVE  /\ h \notin called' /\ row(h).usage # "released"
                      /\ now' < row(h).startedAt + CallLifetime => IsOpen(row(h))
    OBVIOUS
  <2>1. /\ h \in Rows /\ RowKept(g, h, row(h)) /\ Row(h).gen # g /\ h \notin fresh
        /\ h \notin called /\ Row(h).usage # "released" /\ (Young(h) => IsOpen(Row(h)))
    BY <1>3 DEF Handling, At, RunInv
  <2>2. h \notin called' /\ row(h).usage # "released"
    BY <2>1 DEF Frame, RowKept
  <2>3. ASSUME now' < row(h).startedAt + CallLifetime PROVE IsOpen(row(h))
    <3>1. row(h).startedAt = Row(h).startedAt /\ Row(h).startedAt \in Nat /\ now \in Nat /\ now' >= now
      BY <2>1, RowType DEF RowKept, SameStart, IInv, TypeOK, Frame
    <3>2. Young(h)
      BY <2>3, <3>1, TimeAssumption DEF Young
    <3> QED
      BY <2>1, <3>2 DEF RowKept
  <2> QED
    BY <2>2, <2>3
<1>6. At(p, "calling") => h \in called'
  BY DEF RunInv, Frame
<1>7. /\ At(p, "settle_call") /\ worker[p].result = "not_started" => h \notin called'
      /\ At(p, "withdraw") => h \notin called'
  BY <1>3 DEF RunInv, Frame, Handling, Ending, At
<1>8. worker[p].pc \in Ending /\ h \in alive' => worker[p].result = "lost" /\ h \in unconfirmed'
  BY <1>3 DEF RunInv, Frame, Handling
<1>9. At(p, "complete") => row(h).unit = None
  BY <1>4 DEF RunInv, Handling, Ending, At
<1> HIDE DEF h
<1>10. (At(p, "dispatch") => worker[p].job \in Jobs)
  BY DEF RunInv
<1> QED
  BY <1>1, <1>2, <1>3, <1>4, <1>5, <1>6, <1>7, <1>8, <1>9, <1>10 DEF RunInv, At, Row, Young

LEMMA FrameNone ==
  ASSUME IInv, CallInv, NEW g, UNCHANGED attempts, now' >= now, called' = called,
         alive' \subseteq alive, unconfirmed \subseteq unconfirmed',
         \A r \in alive' : now' < Row(r).startedAt + CallLifetime
  PROVE  Frame(g, {})
<1>1. Rows' = Rows
  BY DEF Rows
<1>2. \A r \in Rows : attempts'[r[1]][r[2]] = Row(r)
  BY DEF Row
<1>3. \A r \in Rows : RowKept(g, r, Row(r))
  BY DEF RowKept, SameStart, CallInv
<1> QED
  BY <1>1, <1>2, <1>3 DEF Frame

LEMMA FrameStill ==
  ASSUME IInv, CallInv, NEW g, UNCHANGED <<attempts, now, called>>,
         alive' \subseteq alive, unconfirmed \subseteq unconfirmed'
  PROVE  Frame(g, {})
<1>1. now' >= now
  BY DEF IInv, TypeOK
<1>2. \A r \in alive' : now' < Row(r).startedAt + CallLifetime
  BY DEF CallInv, Young
<1> QED
  BY <1>1, <1>2, FrameNone

LEMMA FrameSpawn ==
  ASSUME IInv, CallInv, NEW g, NEW r \in Rows, UNCHANGED <<attempts, now, unconfirmed>>,
         alive' = alive \cup {r}, called' = called \cup {r},
         r \notin called, Row(r).gen = g, Row(r).usage # "released", IsOpen(Row(r)), Young(r)
  PROVE  Frame(g, {r})
<1>1. Rows' = Rows /\ now' >= now
  BY DEF Rows, IInv, TypeOK
<1>2. \A q \in Rows : attempts'[q[1]][q[2]] = Row(q)
  BY DEF Row
<1>3. \A q \in Rows : RowKept(g, q, Row(q))
  BY DEF RowKept, SameStart, CallInv
<1>4. \A q \in alive' : now' < Row(q).startedAt + CallLifetime
  BY DEF CallInv, Young
<1> QED
  BY <1>1, <1>2, <1>3, <1>4 DEF Frame

\* One attempt rewritten.
Rewritten(j, k, a) == attempts' = [attempts EXCEPT ![j] = [@ EXCEPT ![k] = a]]

LEMMA OneRowChanges ==
  ASSUME IInv, NEW j \in Jobs, NEW k \in DOMAIN attempts[j], NEW a \in Attempt,
         Rewritten(j, k, a)
  PROVE  /\ Rows' = Rows /\ <<j, k>> \in Rows /\ attempts'[j][k] = a
         /\ \A r \in Rows : r # <<j, k>> => attempts'[r[1]][r[2]] = Row(r)
         /\ \A i \in Jobs : DOMAIN attempts'[i] = DOMAIN attempts[i]
<1>1. \A i \in Jobs : attempts'[i] = IF i = j THEN [attempts[j] EXCEPT ![k] = a] ELSE attempts[i]
  BY DEF IInv, TypeOK, Rewritten
<1>2. \A i \in Jobs : DOMAIN attempts'[i] = DOMAIN attempts[i]
  BY <1>1
<1>3. Rows' = Rows
  BY <1>2 DEF Rows
<1>4. attempts'[j][k] = a
  BY <1>1, AttemptsType DEF IInv
<1>5. ASSUME NEW r \in Rows, r # <<j, k>> PROVE attempts'[r[1]][r[2]] = Row(r)
  <2>1. r[1] \in Jobs /\ r[2] \in DOMAIN attempts[r[1]] /\ r = <<r[1], r[2]>>
    BY RowType DEF IInv
  <2>2. CASE r[1] # j
    BY <1>1, <2>1, <2>2 DEF Row
  <2>3. CASE r[1] = j
    <3>1. r[2] # k
      BY <1>5, <2>1, <2>3
    <3> QED
      BY <1>1, <2>1, <2>3, <3>1 DEF Row
  <2> QED
    BY <2>2, <2>3
<1> QED
  BY <1>2, <1>3, <1>4, <1>5, RowsOf

LEMMA FrameOne ==
  ASSUME IInv, CallInv, NEW g, NEW j \in Jobs, NEW k \in DOMAIN attempts[j], NEW a \in Attempt,
         Rewritten(j, k, a),
         RowKept(g, <<j, k>>, a), UNCHANGED <<now, called, alive, unconfirmed>>
  PROVE  Frame(g, {})
<1>1. /\ Rows' = Rows /\ <<j, k>> \in Rows /\ attempts'[j][k] = a
      /\ \A r \in Rows : r # <<j, k>> => attempts'[r[1]][r[2]] = Row(r)
  BY OneRowChanges
<1>2. now' >= now
  BY DEF IInv, TypeOK
<1>3. \A r \in Rows : RowKept(g, r, attempts'[r[1]][r[2]])
  <2> SUFFICES ASSUME NEW r \in Rows PROVE RowKept(g, r, attempts'[r[1]][r[2]])
    OBVIOUS
  <2>1. CASE r = <<j, k>>
    <3>1. attempts'[r[1]][r[2]] = a
      BY <1>1, <2>1
    <3> QED
      BY <2>1, <3>1
  <2>2. CASE r # <<j, k>>
    <3>1. attempts'[r[1]][r[2]] = Row(r)
      BY <1>1, <2>2
    <3>2. RowKept(g, r, Row(r))
      BY DEF RowKept, SameStart, CallInv
    <3> QED
      BY <3>1, <3>2
  <2> QED
    BY <2>1, <2>2
<1>4. \A r \in alive' : now' < Row(r).startedAt + CallLifetime
  BY DEF CallInv, Young
<1> QED
  BY <1>1, <1>2, <1>3, <1>4 DEF Frame

\* One attempt more.
Started(j, a) == attempts' = [attempts EXCEPT ![j] = Append(@, a)]

LEMMA FrameAppend ==
  ASSUME IInv, CallInv, NEW g, NEW j \in Jobs, NEW a \in Attempt, HoldsLease(g),
         Started(j, a), a.startedAt = now, ~a.process, a.gen = g,
         UNCHANGED <<now, called, alive, unconfirmed>>
  PROVE  /\ Frame(g, {}) /\ Len(attempts'[j]) = Len(attempts[j]) + 1
         /\ LET n == <<j, Len(attempts'[j])>>
            IN n \in Rows' \ Rows /\ attempts'[j][Len(attempts'[j])] = a
<1>1. attempts[j] \in Seq(Attempt) /\ Len(attempts[j]) \in Nat /\ DOMAIN attempts[j] = 1..Len(attempts[j])
  BY AttemptsType DEF IInv
<1>2. \A i \in Jobs : attempts'[i] = IF i = j THEN Append(attempts[j], a) ELSE attempts[i]
  BY DEF IInv, TypeOK, Started
<1>3. PICK l \in Nat : l = Len(attempts[j]) + 1
  BY <1>1
<1>0. /\ DOMAIN attempts'[j] = 1..(Len(attempts[j]) + 1) /\ Len(attempts'[j]) = Len(attempts[j]) + 1
      /\ \A k \in 1..Len(attempts[j]) : attempts'[j][k] = attempts[j][k]
      /\ attempts'[j][Len(attempts[j]) + 1] = a
  <2>1. attempts'[j] = Append(attempts[j], a)
    BY <1>2
  <2>2. DOMAIN attempts'[j] = 1..Len(attempts'[j])
    BY <1>1, <2>1, AppendProperties, LenProperties
  <2> QED
    BY <1>1, <2>1, <2>2, AppendProperties
<1>4. /\ Len(attempts'[j]) = l /\ DOMAIN attempts'[j] = DOMAIN attempts[j] \cup {l}
      /\ l \notin DOMAIN attempts[j] /\ attempts'[j][l] = a
      /\ \A k \in DOMAIN attempts[j] : attempts'[j][k] = attempts[j][k]
  BY <1>0, <1>1, <1>3
<1>5. \A i \in Jobs \ {j} : attempts'[i] = attempts[i]
  BY <1>2
<1>6. Rows' = Rows \cup {<<j, l>>}
  BY <1>4, <1>5 DEF Rows
<1>7. <<j, l>> \notin Rows
  BY <1>4, RowsOf
<1>8. \A r \in Rows : attempts'[r[1]][r[2]] = Row(r)
  <2> SUFFICES ASSUME NEW r \in Rows PROVE attempts'[r[1]][r[2]] = Row(r)
    OBVIOUS
  <2>1. r[1] \in Jobs /\ r[2] \in DOMAIN attempts[r[1]]
    BY RowType DEF IInv
  <2> QED
    BY <1>4, <1>5, <2>1 DEF Row
<1>9. \A r \in Rows : RowKept(g, r, Row(r))
  BY DEF RowKept, SameStart, CallInv
<1>10. now' >= now /\ \A r \in alive' : now' < Row(r).startedAt + CallLifetime
  BY DEF CallInv, Young, IInv, TypeOK
<1>11. \A r \in Rows' \ Rows : attempts'[r[1]][r[2]] = a
  BY <1>4, <1>6
<1>12. a.gen = lease.generation
  BY DEF HoldsLease
<1>13. Frame(g, {})
  BY <1>6, <1>8, <1>9, <1>10, <1>11, <1>12 DEF Frame
<1> QED
  BY <1>3, <1>4, <1>6, <1>7, <1>13

\* Recovery ends an attempt whose call is over: its lifetime has passed since
\* it was started, or its process was seen to be gone.
LEMMA FrameRecover ==
  ASSUME IInv, CallInv, LeaseInv, NEW g, NEW gone, gone \subseteq called \ alive,
         NEW retryAt, Recover(g, gone, now, retryAt), UNCHANGED <<called, alive, unconfirmed>>
  PROVE  /\ Frame(g, {}) /\ \A j \in Jobs : DOMAIN attempts'[j] = DOMAIN attempts[j]
         /\ \A j \in Jobs : \A k \in DOMAIN attempts[j] :
              Settles(g, j, k, gone, now) => <<j, k>> \notin alive
<1>1. HoldsLease(g) /\ UNCHANGED now /\ now \in Nat
  BY DEF Recover, IInv, TypeOK
<1>2. ASSUME NEW j \in Jobs, NEW k \in DOMAIN attempts[j], Settles(g, j, k, gone, now)
      PROVE  <<j, k>> \notin alive /\ (<<j, k>> \in called \/ ~Young(<<j, k>>))
  <2>1. PICK r \in Rows : r = <<j, k>> /\ Row(r) = attempts[j][k]
    <3>1. <<j, k>> \in Rows
      BY RowsOf
    <3> QED
      BY <3>1 DEF Row
  <2>2. CASE <<j, k>> \in gone
    BY <2>2
  <2>3. CASE now >= CredibleStart(Row(r)) + CallLifetime
    <3>1. /\ Row(r).startedAt \in Nat /\ Row(r).gen # lease.generation
          /\ lease.acquiredAt \in Nat /\ Row(r).startedAt <= lease.acquiredAt
      BY <1>1, <1>2, <2>1, RowType DEF LeaseInv, HoldsLease, Settles, IInv
    <3>2. CredibleStart(Row(r)) >= Row(r).startedAt /\ CredibleStart(Row(r)) \in Nat
      BY <3>1 DEF CredibleStart
    <3>3. ~Young(r)
      BY <1>1, <2>3, <3>1, <3>2, TimeAssumption DEF Young
    <3> QED
      BY <2>1, <3>3 DEF CallInv
  <2> QED
    BY <1>2, <2>1, <2>2, <2>3 DEF Settles
<1> DEFINE settled(j) == {k \in DOMAIN attempts[j] : Settles(g, j, k, gone, now)}
           over(j, k) == [attempts[j][k] EXCEPT !.outcome = "unknown",
                            !.usage = IF @ = "reserved" THEN "unknown" ELSE @]
<1>3. \A j \in Jobs : attempts'[j] = [k \in DOMAIN attempts[j] |->
                        IF k \in settled(j) THEN over(j, k) ELSE attempts[j][k]]
  BY DEF Recover
<1>4. /\ \A j \in Jobs : DOMAIN attempts'[j] = DOMAIN attempts[j]
      /\ \A j \in Jobs : \A k \in DOMAIN attempts[j] :
           attempts'[j][k] = IF Settles(g, j, k, gone, now) THEN over(j, k) ELSE attempts[j][k]
  BY <1>3
<1>5. Rows' = Rows
  BY <1>4 DEF Rows
<1>6. \A r \in Rows : RowKept(g, r, attempts'[r[1]][r[2]])
  <2> SUFFICES ASSUME NEW r \in Rows PROVE RowKept(g, r, attempts'[r[1]][r[2]])
    OBVIOUS
  <2>1. PICK j \in Jobs, k \in Nat : r = <<j, k>> /\ k \in DOMAIN attempts[j]
    <3>1. r[1] \in Jobs /\ r[2] \in DOMAIN attempts[r[1]] /\ r = <<r[1], r[2]>>
      BY RowType DEF IInv
    <3> QED
      BY <3>1, AttemptsType DEF IInv
  <2>2. Row(r) = attempts[j][k] /\ Row(r) \in Attempt
    BY <2>1, RowType DEF Row, IInv
  <2>3. CASE Settles(g, j, k, gone, now)
    <3>1. attempts'[j][k] = over(j, k)
      BY <1>4, <2>1, <2>3
    <3>2. /\ SameStart(Row(r), over(j, k)) /\ over(j, k).process = Row(r).process
          /\ over(j, k).usage = "released" => Row(r).usage = "released"
      BY <2>2 DEF SameStart, Attempt
    <3>3. r \notin alive /\ (r \in called \/ ~Young(r))
      BY <1>2, <2>1, <2>3
    <3> HIDE DEF over
    <3> QED
      BY <2>1, <3>1, <3>2, <3>3 DEF RowKept, CallInv
  <2>4. CASE ~Settles(g, j, k, gone, now)
    <3>1. attempts'[j][k] = Row(r)
      BY <1>4, <2>1, <2>2, <2>4
    <3> QED
      BY <2>1, <3>1 DEF RowKept, SameStart, CallInv
  <2> QED
    BY <2>3, <2>4
<1>7. now' >= now /\ \A r \in alive' : now' < Row(r).startedAt + CallLifetime
  BY <1>1 DEF CallInv, Young
<1> HIDE DEF over, settled
<1> QED
  BY <1>2, <1>4, <1>5, <1>6, <1>7, <1>1 DEF Frame

-----------------------------------------------------------------------------
(* What the runs know, kept by every step.                                 *)

\* A lease is left as it is, renewed or released.
LEMMA LeaseKept ==
  ASSUME IInv, LeaseInv, NEW g, NEW fresh, Frame(g, fresh), lease'.generation = lease.generation,
         lease'.owner = None \/ lease'.acquiredAt = lease.acquiredAt, lease'.owner # None => lease.owner # None
  PROVE  LeaseInv'
<1> SUFFICES ASSUME lease'.owner # None
             PROVE  /\ lease'.generation \in Nat \ {0} /\ lease'.acquiredAt \in Nat
                    /\ \A r \in Rows' : attempts'[r[1]][r[2]].gen # lease'.generation
                                        => attempts'[r[1]][r[2]].startedAt <= lease'.acquiredAt
  BY DEF LeaseInv, Row
<1>1. lease'.generation = lease.generation /\ lease'.acquiredAt = lease.acquiredAt /\ lease.owner # None
  OBVIOUS
<1>2. ASSUME NEW r \in Rows', attempts'[r[1]][r[2]].gen # lease.generation
      PROVE  attempts'[r[1]][r[2]].startedAt <= lease.acquiredAt
  <2>1. r \in Rows
    BY <1>2 DEF Frame
  <2> QED
    BY <1>1, <1>2, <2>1 DEF LeaseInv, Frame, RowKept, SameStart
<1> QED
  BY <1>1, <1>2 DEF LeaseInv

LEMMA LeaseTaken ==
  ASSUME IInv, CallInv, NEW o \in Owners, TakeLease(o, now) PROVE LeaseInv'
<1>1. /\ lease' = [generation |-> lease.generation + 1, owner |-> o,
                    acquiredAt |-> now, expiresAt |-> now + LeaseTerm]
      /\ UNCHANGED attempts /\ lease.generation \in Nat /\ now \in Nat
  BY DEF TakeLease, IInv, TypeOK, Lease
<1>2. lease'.generation \in Nat \ {0} /\ lease'.acquiredAt = now
  BY <1>1
<1>3. Rows' = Rows /\ \A r \in Rows : attempts'[r[1]][r[2]].startedAt <= now
  BY <1>1 DEF CallInv, Row, Rows
<1> QED
  BY <1>1, <1>2, <1>3 DEF LeaseInv, Row

\* One run moves, to w; the others know what they knew.
LEMMA OneRunMoves ==
  ASSUME IInv, KnowInv, NEW o \in Owners, NEW w \in RunRecord, worker' = [worker EXCEPT ![o] = w],
         NEW fresh, Frame(worker[o].gen, fresh), now' \in Nat,
         lease'.generation \in Nat, lease'.generation >= lease.generation, w.gen <= lease'.generation,
         \/ w.gen = 0 \/ w.gen = worker[o].gen \/ w.gen > lease.generation,
         RunInv(o)', LeaseInv'
  PROVE  KnowInv'
<1>1. /\ worker' \in [Owners -> RunRecord] /\ worker'[o] = w
      /\ \A p \in Owners : p # o => worker'[p] = worker[p]
      /\ \A p \in Owners : worker[p].gen \in Nat /\ worker[p].gen <= lease.generation
      /\ lease.generation \in Nat /\ w.gen \in Nat
  BY DEF KnowInv, WorkerTyped, RunRecord, IInv, TypeOK, Lease
<1>2. WorkerTyped'
  <2>1. \A p \in Owners : worker'[p].gen <= lease'.generation
    BY <1>1
  <2> QED
    BY <1>1, <2>1 DEF WorkerTyped
<1>3. OneRunEach'
  <2> SUFFICES ASSUME NEW p \in Owners, NEW q \in Owners,
                      worker'[p].gen = worker'[q].gen, worker'[p].gen # 0
               PROVE  p = q
    BY DEF OneRunEach
  <2> QED
    BY <1>1 DEF KnowInv, OneRunEach
<1>4. ASSUME NEW p \in Owners, p # o PROVE RunInv(p)'
  <2>1. worker[p].pc \in Handling => worker[p].gen # worker[o].gen
    BY <1>4 DEF KnowInv, OneRunEach, RunInv
  <2>2. RunInv(p) /\ CallInv /\ worker'[p] = worker[p]
    BY <1>1, <1>4 DEF KnowInv
  <2> QED
    BY <2>1, <2>2, FrameKeepsRun
<1>5. CallInv'
  BY FrameKeepsCalls DEF KnowInv
<1>6. \A p \in Owners : RunInv(p)'
  BY <1>4
<1> QED
  BY <1>2, <1>3, <1>5, <1>6 DEF KnowInv

\* No run moves.
LEMMA NoRunMoves ==
  ASSUME IInv, KnowInv, UNCHANGED <<worker, lease>>, Frame(0, {}), now' \in Nat PROVE KnowInv'
<1>1. \A p \in Owners : RunInv(p)'
  <2> SUFFICES ASSUME NEW p \in Owners PROVE RunInv(p)'
    OBVIOUS
  <2>1. worker[p].pc \in Handling => worker[p].gen # 0
    BY DEF KnowInv, RunInv
  <2>2. RunInv(p) /\ CallInv /\ worker'[p] = worker[p]
    BY DEF KnowInv
  <2> QED
    BY <2>1, <2>2, FrameKeepsRun
<1>2. CallInv'
  BY FrameKeepsCalls DEF KnowInv
<1>3. LeaseInv'
  BY LeaseKept DEF KnowInv
<1>4. WorkerTyped' /\ OneRunEach'
  BY DEF KnowInv, WorkerTyped, OneRunEach
<1> QED
  BY <1>1, <1>2, <1>3, <1>4 DEF KnowInv

\* A run with nothing in its hands has only its lists to know of.
LEMMA EmptyHands ==
  ASSUME NEW o \in Owners, worker'[o].pc \notin Handling, ~At(o, "dispatch")',
         worker'[o].found \subseteq called', worker'[o].gone \subseteq called' \ alive'
  PROVE  RunInv(o)'
BY DEF RunInv, Handling, Ending, At

\* A run that goes on to the next job, leaves or is gone.
LEMMA Forgets ==
  ASSUME IInv, KnowInv, NEW o \in Owners, NextJob(o) \/ Leave(o) \/ End(o),
         Frame(worker[o].gen, {}), now' \in Nat, lease'.generation = lease.generation, LeaseInv'
  PROVE  KnowInv'
<1>1. worker[o] \in RunRecord /\ lease.generation \in Nat /\ worker[o].gen <= lease.generation
  BY DEF KnowInv, WorkerTyped, IInv, TypeOK, Lease
<1>2. worker[o].found \subseteq called' /\ worker[o].gone \subseteq called' \ alive'
  BY DEF KnowInv, RunInv, Frame
<1>3. PICK w \in RunRecord : /\ worker' = [worker EXCEPT ![o] = w]
                             /\ w.pc \in {"claim", "finish", "done"} /\ w.gen \in {0, worker[o].gen}
                             /\ w.found \in {{}, worker[o].found} /\ w.gone \in {{}, worker[o].gone}
  <2>1. CASE NextJob(o)
    <3> DEFINE w == [worker[o] EXCEPT !.pc = "claim", !.job = None, !.attempt = 0, !.result = "none"]
    <3>1. w \in RunRecord
      BY <1>1 DEF RunRecord, Places, Maybe, Results
    <3>2. w.pc = "claim" /\ w.gen = worker[o].gen /\ w.found = worker[o].found /\ w.gone = worker[o].gone
      BY <1>1 DEF RunRecord
    <3>3. worker' = [worker EXCEPT ![o] = w]
      BY <2>1 DEF NextJob
    <3> HIDE DEF w
    <3> QED
      BY <3>1, <3>2, <3>3
  <2>2. CASE Leave(o)
    <3> DEFINE w == [Idle EXCEPT !.pc = "finish", !.gen = worker[o].gen, !.lost = worker[o].lost]
    <3>1. w \in RunRecord
      BY <1>1 DEF RunRecord, Places, Maybe, Results, Idle
    <3>2. w.pc = "finish" /\ w.gen = worker[o].gen /\ w.found = {} /\ w.gone = {}
      BY DEF Idle
    <3>3. worker' = [worker EXCEPT ![o] = w]
      BY <2>2 DEF Leave
    <3> HIDE DEF w
    <3> QED
      BY <3>1, <3>2, <3>3
  <2>3. CASE End(o)
    <3> DEFINE w == [Idle EXCEPT !.pc = "done"]
    <3>1. w \in RunRecord
      BY DEF RunRecord, Places, Maybe, Results, Idle
    <3>2. w.pc = "done" /\ w.gen = 0 /\ w.found = {} /\ w.gone = {}
      BY DEF Idle
    <3>3. worker' = [worker EXCEPT ![o] = w]
      BY <2>3 DEF End
    <3> HIDE DEF w
    <3> QED
      BY <3>1, <3>2, <3>3
  <2> QED
    BY <2>1, <2>2, <2>3
<1>4. worker'[o] = w
  BY <1>3 DEF KnowInv, WorkerTyped
<1>5. RunInv(o)'
  <2>1. worker'[o].pc \notin Handling /\ worker'[o].pc # "dispatch"
    BY <1>3, <1>4 DEF Handling, Ending
  <2> QED
    BY <1>2, <1>3, <1>4, <2>1, EmptyHands DEF At
<1>6. w.gen <= lease'.generation /\ (w.gen = 0 \/ w.gen = worker[o].gen) /\ lease'.generation >= lease.generation
  BY <1>1, <1>3
<1> QED
  BY <1>1, <1>3, <1>5, <1>6, OneRunMoves

-----------------------------------------------------------------------------
(* The same, action by action.                                             *)

\* A run that leaves the rows and the calls alone knows what it knew.
LEMMA SameHands ==
  ASSUME NEW o \in Owners, RunInv(o), UNCHANGED <<attempts, now, alive, called, unconfirmed>>,
         worker'[o].pc = worker[o].pc, worker'[o].gen = worker[o].gen, worker'[o].found = worker[o].found,
         worker'[o].gone = worker[o].gone, worker'[o].job = worker[o].job,
         worker'[o].attempt = worker[o].attempt, worker'[o].result = worker[o].result
  PROVE  RunInv(o)'
<1>1. InHand(o)' = InHand(o) /\ Rows' = Rows /\ \A r : Row(r)' = Row(r)
  BY DEF InHand, Rows, Row
<1>2. \A r : Young(r)' = Young(r)
  BY <1>1 DEF Young
<1> QED
  BY <1>1, <1>2 DEF RunInv, At

\* A run's own fields, as a step finds them.
LEMMA RunIsTyped ==
  ASSUME IInv, KnowInv, NEW o \in Owners
  PROVE  /\ worker[o] \in RunRecord /\ worker[o].pc \in Places /\ worker[o].gen \in Nat
         /\ worker[o].gen <= lease.generation /\ lease.generation \in Nat
         /\ worker[o].found \subseteq called /\ worker[o].gone \subseteq called \ alive
         /\ worker[o].found \in SUBSET (Jobs \X Nat) /\ worker[o].gone \in SUBSET (Jobs \X Nat)
         /\ \A w : worker' = [worker EXCEPT ![o] = w] => worker'[o] = w
<1>1. worker[o] \in RunRecord
  BY DEF KnowInv, WorkerTyped
<1>2. worker[o].found \subseteq called /\ worker[o].gone \subseteq called \ alive
  BY DEF KnowInv, RunInv
<1>3. \A w : worker' = [worker EXCEPT ![o] = w] => worker'[o] = w
  BY DEF KnowInv, WorkerTyped
<1>4. worker[o].gen <= lease.generation /\ lease.generation \in Nat
  BY DEF KnowInv, WorkerTyped, IInv, TypeOK, Lease
<1> QED
  BY <1>1, <1>2, <1>3, <1>4 DEF RunRecord

\* Letting go while the rows and the calls stay as they are.
LEMMA LettingGoKnows ==
  ASSUME IInv, KnowInv, NEW o \in Owners, NextJob(o) \/ Leave(o) \/ End(o),
         UNCHANGED <<now, attempts, alive, called, unconfirmed>>,
         UNCHANGED lease \/ ReleaseLease(o, worker[o].gen)
  PROVE  KnowInv'
<1>1. Frame(worker[o].gen, {})
  BY FrameStill DEF KnowInv
<1>2. lease'.generation = lease.generation /\ (lease'.owner # None => lease' = lease)
  BY DEF ReleaseLease, IInv, TypeOK, Lease
<1>3. LeaseInv'
  BY <1>1, <1>2, LeaseKept DEF KnowInv
<1> QED
  BY <1>1, <1>2, <1>3, Forgets DEF IInv, TypeOK

LEMMA LeavingKnows ==
  ASSUME IInv, KnowInv, NEW o \in Owners,
         \/ Finish(o) \/ Fail(o) \/ Exit(o) \/ Refuse(o) \/ FinishExhausted(o) \/ OverSchedule(o)
         \/ LeaveUnsettled(o) \/ PauseWorkload(o) \/ Crash(o)
  PROVE  KnowInv'
<1>1. UNCHANGED <<now, attempts, alive, called, unconfirmed>>
  BY DEF Finish, Fail, Exit, Refuse, FinishExhausted, OverSchedule, LeaveUnsettled, PauseWorkload, Crash,
         Keep, ReleaseLease, ParkJob, SettleExhaustedJob, PauseUnder, SetPause, vars
<1>2. UNCHANGED lease \/ ReleaseLease(o, worker[o].gen)
  BY DEF Finish, Fail, Exit, Refuse, FinishExhausted, OverSchedule, LeaveUnsettled, PauseWorkload, Crash,
         ParkJob, SettleExhaustedJob, PauseUnder, SetPause, vars
<1>3. NextJob(o) \/ Leave(o) \/ End(o)
  BY DEF Finish, Fail, Exit, Refuse, FinishExhausted, OverSchedule, LeaveUnsettled, PauseWorkload, Crash
<1> QED
  BY <1>1, <1>2, <1>3, LettingGoKnows

LEMMA StartKnows ==
  ASSUME IInv, KnowInv, NEW o \in Owners, Start(o) PROVE KnowInv'
<1>1. CASE TakeLease(o, now)
  <2> DEFINE w == [worker[o] EXCEPT !.pc = "recover", !.gen = lease.generation + 1]
  <2>1. worker' = [worker EXCEPT ![o] = w] \/ End(o)
    BY DEF Start
  <2>2. /\ UNCHANGED <<now, attempts, alive, called, unconfirmed>> /\ now \in Nat
        /\ lease'.generation = lease.generation + 1
    BY <1>1 DEF TakeLease, Start, Keep, IInv, TypeOK
  <2>7. Frame(worker[o].gen, {})
    BY <2>2, FrameStill DEF KnowInv
  <2>3. Frame(worker[o].gen, {}) /\ LeaseInv'
    BY <1>1, <2>7, LeaseTaken DEF KnowInv
  <2>4. w \in RunRecord /\ w.gen = lease.generation + 1 /\ w.pc = "recover"
        /\ w.found = worker[o].found /\ w.gone = worker[o].gone
    <3>1. worker[o] \in RunRecord /\ lease.generation + 1 \in Nat
      BY RunIsTyped
    <3> QED
      BY <3>1 DEF RunRecord, Places
  <2>5. CASE worker' = [worker EXCEPT ![o] = w]
    <3>1. worker'[o] = w
      BY <2>5, RunIsTyped
    <3>3. /\ worker'[o].pc = "recover" /\ worker'[o].found \subseteq called'
          /\ worker'[o].gone \subseteq called' \ alive'
      BY <2>2, <2>4, <3>1, RunIsTyped
    <3>2. RunInv(o)'
      BY <3>3, EmptyHands DEF At, Handling, Ending
    <3>4. /\ now' \in Nat /\ lease'.generation \in Nat /\ lease'.generation >= lease.generation
          /\ w.gen <= lease'.generation /\ w.gen > lease.generation
      BY <2>2, <2>4, RunIsTyped
    <3> HIDE DEF w
    <3> QED
      BY <2>3, <2>4, <2>5, <3>2, <3>4, OneRunMoves
  <2>6. CASE End(o) /\ ~(worker' = [worker EXCEPT ![o] = w])
    <3>1. UNCHANGED vars
      BY <2>6 DEF Start
    <3> QED
      BY <2>2, <2>6, <3>1, LettingGoKnows DEF vars
  <2> QED
    BY <2>1, <2>5, <2>6
<1>2. CASE ~TakeLease(o, now)
  <2>1. End(o) /\ UNCHANGED <<now, attempts, lease, alive, called, unconfirmed>>
    BY <1>2 DEF Start, Keep, vars
  <2> QED
    BY <2>1, LettingGoKnows
<1> QED
  BY <1>1, <1>2

LEMMA HeartbeatKnows ==
  ASSUME IInv, KnowInv, NEW o \in Owners, Heartbeat(o) PROVE KnowInv'
<1>1. UNCHANGED <<now, attempts, alive, called, unconfirmed>> /\ now \in Nat
  BY DEF Heartbeat, RenewLease, Keep, vars, IInv, TypeOK
<1>2. Frame(worker[o].gen, {}) /\ RunInv(o) /\ LeaseInv
  BY <1>1, FrameStill DEF KnowInv
<1>3. /\ lease'.generation = lease.generation /\ lease'.acquiredAt = lease.acquiredAt
      /\ lease'.owner = lease.owner
  <2>1. lease \in Lease
    BY DEF IInv, TypeOK
  <2>2. UNCHANGED lease \/ lease' = [lease EXCEPT !.expiresAt = now + LeaseTerm]
    BY DEF Heartbeat, RenewLease, vars
  <2> QED
    BY <2>1, <2>2 DEF Lease
<1>4. LeaseInv'
  BY <1>2, <1>3, LeaseKept
<1>5. PICK w \in RunRecord : /\ worker' = [worker EXCEPT ![o] = w]
                             /\ w = worker[o] \/ w = [worker[o] EXCEPT !.lost = TRUE]
  <2>1. worker[o] \in RunRecord /\ [worker[o] EXCEPT !.lost = TRUE] \in RunRecord
    BY RunIsTyped DEF RunRecord
  <2>2. UNCHANGED worker => worker' = [worker EXCEPT ![o] = worker[o]]
    BY DEF KnowInv, WorkerTyped
  <2>3. UNCHANGED worker \/ worker' = [worker EXCEPT ![o] = [worker[o] EXCEPT !.lost = TRUE]]
    BY DEF Heartbeat
  <2> QED
    BY <2>1, <2>2, <2>3
<1>6. worker'[o] = w
  BY <1>5, RunIsTyped
<1>7. /\ w.pc = worker[o].pc /\ w.gen = worker[o].gen /\ w.found = worker[o].found
      /\ w.gone = worker[o].gone /\ w.job = worker[o].job
      /\ w.attempt = worker[o].attempt /\ w.result = worker[o].result
  BY <1>5, RunIsTyped DEF RunRecord
<1>8. RunInv(o)'
  BY <1>1, <1>2, <1>6, <1>7, SameHands
<1>9. /\ now' \in Nat /\ lease'.generation \in Nat /\ lease'.generation >= lease.generation
      /\ w.gen <= lease'.generation /\ w.gen = worker[o].gen
  BY <1>1, <1>3, <1>7, RunIsTyped
<1> QED
  BY <1>2, <1>4, <1>5, <1>8, <1>9, OneRunMoves

\* One run moves under the lease it found.
LEMMA MovesOn ==
  ASSUME IInv, KnowInv, NEW o \in Owners, NEW w \in RunRecord, worker' = [worker EXCEPT ![o] = w],
         w.gen = worker[o].gen, NEW fresh, Frame(worker[o].gen, fresh), UNCHANGED <<lease, now>>,
         RunInv(o)'
  PROVE  KnowInv'
<1>1. LeaseInv'
  BY LeaseKept DEF KnowInv
<1>2. /\ now' \in Nat /\ lease'.generation \in Nat /\ lease'.generation >= lease.generation
      /\ w.gen <= lease'.generation
  BY RunIsTyped DEF IInv, TypeOK
<1> QED
  BY <1>1, <1>2, OneRunMoves

\* Likewise, to a place with nothing in its hands.
LEMMA MovesOnEmpty ==
  ASSUME IInv, KnowInv, NEW o \in Owners, NEW w \in RunRecord, worker' = [worker EXCEPT ![o] = w],
         w.gen = worker[o].gen, NEW fresh, Frame(worker[o].gen, fresh), UNCHANGED <<lease, now>>,
         w.pc \notin Handling, w.pc # "dispatch",
         w.found \subseteq called', w.gone \subseteq called' \ alive'
  PROVE  KnowInv'
<1>1. worker'[o] = w
  BY RunIsTyped
<1>2. RunInv(o)'
  BY <1>1, EmptyHands DEF At
<1> QED
  BY <1>2, MovesOn

LEMMA RecoverKnows ==
  ASSUME IInv, KnowInv, NEW o \in Owners, RecoverOnce(o) \/ RecoverGone(o) PROVE KnowInv'
<1> PICK g : g = worker[o].gen
  OBVIOUS
<1>0. worker[o] \in RunRecord /\ LeaseInv /\ CallInv
  BY RunIsTyped DEF KnowInv
<1>1. CASE RecoverOnce(o)
  <2> DEFINE found == {r \in Rows : IsOpen(Row(r)) /\ Row(r).gen # worker[o].gen /\ Row(r).process}
             w == [worker[o] EXCEPT !.pc = "terminate", !.found = found]
  <2>1. /\ Recover(worker[o].gen, {}, now, now + RetryDelay) /\ UNCHANGED <<alive, called, unconfirmed>>
        /\ worker' = [worker EXCEPT ![o] = w]
    BY <1>1 DEF RecoverOnce, Keep
  <2>2. Frame(worker[o].gen, {}) /\ UNCHANGED <<lease, now>>
    BY <1>0, <2>1, FrameRecover DEF Recover
  <2>3. found \subseteq called /\ found \in SUBSET (Jobs \X Nat)
    <3>1. Rows \subseteq Jobs \X Nat
      BY AttemptsType DEF Rows, IInv
    <3> QED
      BY <1>0, <3>1 DEF CallInv
  <2> HIDE DEF found
  <2>4. /\ w \in RunRecord /\ w.gen = worker[o].gen /\ w.pc = "terminate"
        /\ w.found = found /\ w.gone = worker[o].gone
    BY <1>0, <2>3 DEF RunRecord, Places
  <2>5. w.found \subseteq called' /\ w.gone \subseteq called' \ alive'
    BY <2>1, <2>3, <2>4, RunIsTyped
  <2>6. w.pc \notin Handling /\ w.pc # "dispatch"
    BY <2>4 DEF Handling, Ending
  <2> HIDE DEF w
  <2> QED
    BY <2>1, <2>2, <2>4, <2>5, <2>6, MovesOnEmpty
<1>2. CASE RecoverGone(o)
  <2> DEFINE w == [worker[o] EXCEPT !.pc = "unpark", !.gone = {}]
  <2>1. /\ Recover(worker[o].gen, worker[o].gone, now, now + RetryDelay)
        /\ UNCHANGED <<alive, called, unconfirmed>> /\ worker' = [worker EXCEPT ![o] = w]
    BY <1>2 DEF RecoverGone, Keep
  <2>2. worker[o].gone \subseteq called \ alive
    BY RunIsTyped
  <2>3. Frame(worker[o].gen, {}) /\ UNCHANGED <<lease, now>>
    BY <1>0, <2>1, <2>2, FrameRecover DEF Recover
  <2>4. /\ w \in RunRecord /\ w.gen = worker[o].gen /\ w.pc = "unpark"
        /\ w.found = worker[o].found /\ w.gone = {}
    BY <1>0 DEF RunRecord, Places
  <2>5. w.found \subseteq called' /\ w.gone \subseteq called' \ alive'
    BY <2>1, <2>4, RunIsTyped
  <2>6. w.pc \notin Handling /\ w.pc # "dispatch"
    BY <2>4 DEF Handling, Ending
  <2> HIDE DEF w
  <2> QED
    BY <2>1, <2>3, <2>4, <2>5, <2>6, MovesOnEmpty
<1> QED
  BY <1>1, <1>2

LEMMA TerminateKnows ==
  ASSUME IInv, KnowInv, NEW o \in Owners, Terminate(o) PROVE KnowInv'
<1>0. worker[o] \in RunRecord /\ CallInv
  BY RunIsTyped DEF KnowInv
<1>1. PICK gone \in SUBSET worker[o].found, pc \in {"recover_gone", "unpark"} :
        /\ alive' = alive \ gone
        /\ worker' = [worker EXCEPT ![o] = [@ EXCEPT !.pc = pc, !.found = {}, !.gone = gone]]
  BY DEF Terminate
<1> DEFINE w == [worker[o] EXCEPT !.pc = pc, !.found = {}, !.gone = gone]
<1>2. worker' = [worker EXCEPT ![o] = w] /\ UNCHANGED <<now, lease, attempts, called, unconfirmed>>
  BY <1>1 DEF Terminate, vars
<1>3. Frame(worker[o].gen, {})
  BY <1>0, <1>1, <1>2, FrameStill
<1>4. gone \subseteq called /\ gone \in SUBSET (Jobs \X Nat)
  BY RunIsTyped
<1>5. w \in RunRecord /\ w.gen = worker[o].gen /\ w.pc = pc /\ w.found = {} /\ w.gone = gone
  BY <1>0, <1>4 DEF RunRecord, Places
<1>6. w.found \subseteq called' /\ w.gone \subseteq called' \ alive'
  BY <1>1, <1>2, <1>4, <1>5
<1>7. w.pc \notin Handling /\ w.pc # "dispatch"
  BY <1>5 DEF Handling, Ending
<1> HIDE DEF w
<1> QED
  BY <1>2, <1>3, <1>5, <1>6, <1>7, MovesOnEmpty

LEMMA ReexamineKnows ==
  ASSUME IInv, KnowInv, NEW o \in Owners, ReexamineOriginBound(o) PROVE KnowInv'
<1>0. worker[o] \in RunRecord /\ CallInv
  BY RunIsTyped DEF KnowInv
<1> DEFINE w == [worker[o] EXCEPT !.pc = "claim", !.gone = {}]
<1>1. worker' = [worker EXCEPT ![o] = w] /\ UNCHANGED <<now, lease, attempts, alive, called, unconfirmed>>
  BY DEF ReexamineOriginBound, UnparkJobs, Keep, vars
<1>2. Frame(worker[o].gen, {})
  BY <1>0, <1>1, FrameStill
<1>3. w \in RunRecord /\ w.gen = worker[o].gen /\ w.pc = "claim" /\ w.found = worker[o].found /\ w.gone = {}
  BY <1>0 DEF RunRecord, Places
<1>4. w.found \subseteq called' /\ w.gone \subseteq called' \ alive'
  BY <1>1, <1>3, RunIsTyped
<1>5. w.pc \notin Handling /\ w.pc # "dispatch"
  BY <1>3 DEF Handling, Ending
<1> HIDE DEF w
<1> QED
  BY <1>1, <1>2, <1>3, <1>4, <1>5, MovesOnEmpty

LEMMA ClaimKnows ==
  ASSUME IInv, KnowInv, NEW o \in Owners, Claim(o) PROVE KnowInv'
<1>0. worker[o] \in RunRecord /\ CallInv
  BY RunIsTyped DEF KnowInv
<1>1. PICK j \in Jobs : /\ ClaimJob(worker[o].gen, j, now)
                        /\ worker' = [worker EXCEPT ![o] = [@ EXCEPT !.pc = "dispatch", !.job = j]]
  BY DEF Claim
<1> DEFINE w == [worker[o] EXCEPT !.pc = "dispatch", !.job = j]
<1>2. worker' = [worker EXCEPT ![o] = w] /\ UNCHANGED <<now, lease, attempts, alive, called, unconfirmed>>
  BY <1>1 DEF Claim, ClaimJob, Keep
<1>3. Frame(worker[o].gen, {})
  BY <1>0, <1>2, FrameStill
<1>4. /\ w \in RunRecord /\ w.gen = worker[o].gen /\ w.pc = "dispatch" /\ w.job = j
      /\ w.found = worker[o].found /\ w.gone = worker[o].gone
  BY <1>0 DEF RunRecord, Places, Maybe
<1>5. worker'[o] = w
  BY <1>2, RunIsTyped
<1>6. RunInv(o)'
  <2>1. worker'[o].found \subseteq called' /\ worker'[o].gone \subseteq called' \ alive'
    BY <1>2, <1>4, <1>5, RunIsTyped
  <2>2. worker'[o].pc = "dispatch" /\ worker'[o].job \in Jobs
    BY <1>4, <1>5
  <2> QED
    BY <2>1, <2>2 DEF RunInv, At, Handling, Ending
<1> HIDE DEF w
<1> QED
  BY <1>2, <1>3, <1>4, <1>6, MovesOn

LEMMA BeginKnows ==
  ASSUME IInv, KnowInv, NEW o \in Owners, BeginAttempt(o) PROVE KnowInv'
<1>0. worker[o] \in RunRecord /\ CallInv /\ LeaseInv
  BY RunIsTyped DEF KnowInv
<1> PICK j \in Jobs : j = worker[o].job
  BY DEF BeginAttempt, KnowInv, RunInv
<1> PICK g \in Nat : g = worker[o].gen
  BY RunIsTyped
<1> DEFINE call == Units[j] > 0
           unit == IF call THEN Cardinality(Receipts(j)) ELSE None
<1>1. PICK configured \in AttemptLimits :
             StartAttempt(g, j, configured, jobs[j].confirmations, call, unit, now)
  BY DEF BeginAttempt
<1>2. /\ HoldsLease(g) /\ jobs[j].state = "running" /\ jobs[j] \in Job
      /\ UNCHANGED <<now, lease, alive, called, unconfirmed>>
  BY <1>1 DEF StartAttempt, Holds, BeginAttempt, Keep, IInv, TypeOK
<1>3. g # 0
  BY <1>0, <1>2 DEF HoldsLease, LeaseInv
<1>4. CASE /\ attempts' = [attempts EXCEPT ![j] = Append(@, NewAttempt(g, now, call, unit))]
           /\ UNCHANGED jobs
  <2> PICK a : a = NewAttempt(g, now, call, unit)
    OBVIOUS
  <2> DEFINE place == IF call THEN "spawn" ELSE "complete"
             w == [worker[o] EXCEPT !.pc = place, !.attempt = Len(attempts'[j])]
  <2>1. /\ a \in Attempt /\ a.startedAt = now /\ ~a.process /\ a.gen = g /\ IsOpen(a)
        /\ a.usage # "released" /\ a.unit = unit
    <3>1. unit \in Maybe(Nat) /\ now \in Nat
      BY ReceiptsType DEF Maybe, IInv, TypeOK
    <3> HIDE DEF unit
    <3> QED
      BY <3>1 DEF NewAttempt, Attempt, Maybe, IsOpen
  <2> HIDE DEF unit
  <2>2. Started(j, a)
    BY <1>4 DEF Started
  <2>3. /\ Frame(g, {}) /\ Len(attempts'[j]) = Len(attempts[j]) + 1
        /\ <<j, Len(attempts'[j])>> \in Rows' \ Rows /\ attempts'[j][Len(attempts'[j])] = a
    BY <1>0, <1>2, <2>1, <2>2, FrameAppend
  <2>4. worker' = [worker EXCEPT ![o] = w]
    <3>1. jobs'[j].state = "running"
      BY <1>2, <1>4
    <3> QED
      BY <3>1 DEF BeginAttempt
  <2>5. Len(attempts'[j]) \in Nat
    BY <2>3, AttemptsType DEF IInv
  <2>6. /\ w \in RunRecord /\ w.gen = g /\ w.pc = place /\ w.attempt = Len(attempts'[j])
        /\ w.job = j /\ w.found = worker[o].found /\ w.gone = worker[o].gone
    BY <1>0, <2>5 DEF RunRecord, Places
  <2>7. worker'[o] = w
    BY <2>4, RunIsTyped
  <2>8. InHand(o)' = <<j, Len(attempts'[j])>>
    BY <2>6, <2>7 DEF InHand
  <2> PICK n : n = <<j, Len(attempts'[j])>>
    OBVIOUS
  <2>9. Row(n)' = a
    BY <2>3 DEF Row
  <2>10. n \in Rows' /\ n \notin called'
    BY <1>0, <1>2, <2>3 DEF CallInv
  <2>11. At(o, "complete")' => a.unit = None
    <3>1. CASE call
      BY <2>6, <2>7, <3>1 DEF At
    <3>2. CASE ~call
      BY <2>1, <3>2 DEF unit
    <3> QED
      BY <3>1, <3>2
  <2>12. worker'[o].pc \in {"spawn", "complete"} /\ worker'[o].gen = g
    BY <2>6, <2>7
  <2>13. worker'[o].found \subseteq called' /\ worker'[o].gone \subseteq called' \ alive'
    BY <1>2, <2>6, <2>7, RunIsTyped
  <2>14. n \notin alive'
    BY <1>0, <1>2, <2>10 DEF CallInv
  <2>15. RunInv(o)'
    <3>1. (worker[o].pc \in Handling)' => n \in Rows' /\ worker'[o].gen # 0 /\ a.gen = worker'[o].gen
      BY <1>3, <2>1, <2>10, <2>12
    <3>2. At(o, "spawn")' => n \notin called' /\ a.usage # "released" /\ IsOpen(a)
      BY <2>1, <2>10
    <3>3. ~At(o, "dispatch")' /\ ~At(o, "calling")' /\ ~At(o, "settle_call")' /\ ~At(o, "withdraw")'
      BY <2>12 DEF At
    <3> QED
      BY <2>8, <2>9, <2>11, <2>13, <2>14, <3>1, <3>2, <3>3 DEF RunInv
  <2> HIDE DEF w
  <2> QED
    BY <1>2, <2>3, <2>4, <2>6, <2>15, MovesOn
<1>5. CASE UNCHANGED attempts /\ jobs'[j].state # "running"
  <2>1. NextJob(o)
    BY <1>5 DEF BeginAttempt
  <2> QED
    BY <1>2, <1>5, <2>1, LettingGoKnows
<1>6. \/ attempts' = [attempts EXCEPT ![j] = Append(@, NewAttempt(g, now, call, unit))] /\ UNCHANGED jobs
      \/ UNCHANGED attempts /\ jobs'[j].state # "running"
  <2>1. ASSUME NEW s \in {"terminal_failure", "retryable_failure"}, NEW wait, NEW at,
               jobs' = [jobs EXCEPT ![j] = Freed(@, s, wait, at)]
        PROVE  jobs'[j].state # "running"
    <3>1. jobs'[j] = Freed(jobs[j], s, wait, at)
      BY <2>1 DEF IInv, TypeOK
    <3> QED
      BY <1>2, <3>1 DEF Freed, Job
  <2> HIDE DEF call, unit
  <2> QED
    BY <1>1, <2>1 DEF StartAttempt
<1> QED
  BY <1>4, <1>5, <1>6

LEMMA SpawnKnows ==
  ASSUME IInv, KnowInv, NEW o \in Owners, Spawn(o) PROVE KnowInv'
<1>0. worker[o] \in RunRecord /\ CallInv /\ RunInv(o)
  BY RunIsTyped DEF KnowInv
<1> PICK h : h = InHand(o)
  OBVIOUS
<1>1. /\ h \in Rows /\ h \notin called /\ Row(h).gen = worker[o].gen /\ worker[o].gen # 0
      /\ Row(h).usage # "released" /\ IsOpen(Row(h)) /\ Young(h)
  BY <1>0 DEF Spawn, RunInv, At, Handling, Young
<1>2. /\ alive' = alive \cup {h} /\ called' = called \cup {h}
      /\ UNCHANGED <<now, lease, attempts, unconfirmed>>
  BY DEF Spawn, vars
<1>3. Frame(worker[o].gen, {h})
  BY <1>0, <1>1, <1>2, FrameSpawn
<1> DEFINE w == [worker[o] EXCEPT !.pc = "calling"]
<1>4. worker' = [worker EXCEPT ![o] = w]
  BY DEF Spawn, Goto
<1>5. /\ w \in RunRecord /\ w.gen = worker[o].gen /\ w.pc = "calling" /\ w.job = worker[o].job
      /\ w.attempt = worker[o].attempt /\ w.found = worker[o].found /\ w.gone = worker[o].gone
  BY <1>0 DEF RunRecord, Places
<1>6. worker'[o] = w
  BY <1>4, RunIsTyped
<1>7. InHand(o)' = h /\ Rows' = Rows /\ Row(h)' = Row(h)
  BY <1>2, <1>5, <1>6 DEF InHand, Rows, Row
<1>8. worker'[o].found \subseteq called' /\ worker'[o].gone \subseteq called' \ alive'
  BY <1>1, <1>2, <1>5, <1>6, RunIsTyped
<1>9. RunInv(o)'
  BY <1>1, <1>2, <1>5, <1>6, <1>7, <1>8 DEF RunInv, At, Handling, Ending
<1> HIDE DEF w
<1> QED
  BY <1>2, <1>3, <1>4, <1>5, <1>9, MovesOn

LEMMA SpawnRefusedKnows ==
  ASSUME IInv, KnowInv, NEW o \in Owners, SpawnRefused(o) PROVE KnowInv'
<1>0. worker[o] \in RunRecord /\ CallInv /\ RunInv(o)
  BY RunIsTyped DEF KnowInv
<1> PICK h : h = InHand(o)
  OBVIOUS
<1>1. h \in Rows /\ h \notin called /\ h \notin alive /\ Row(h).gen = worker[o].gen /\ worker[o].gen # 0
  BY <1>0 DEF SpawnRefused, RunInv, At, Handling, CallInv
<1>2. UNCHANGED <<now, lease, attempts, alive, called, unconfirmed>>
  BY DEF SpawnRefused, Keep, vars
<1>3. Frame(worker[o].gen, {})
  BY <1>0, <1>2, FrameStill
<1> DEFINE w == [worker[o] EXCEPT !.pc = "settle_call", !.result = "not_started"]
<1>4. worker' = [worker EXCEPT ![o] = w]
  BY DEF SpawnRefused
<1>5. /\ w \in RunRecord /\ w.gen = worker[o].gen /\ w.pc = "settle_call" /\ w.job = worker[o].job
      /\ w.attempt = worker[o].attempt /\ w.found = worker[o].found /\ w.gone = worker[o].gone
  BY <1>0 DEF RunRecord, Places, Results
<1>6. worker'[o] = w
  BY <1>4, RunIsTyped
<1>7. InHand(o)' = h /\ Rows' = Rows /\ Row(h)' = Row(h)
  BY <1>2, <1>5, <1>6 DEF InHand, Rows, Row
<1>8. worker'[o].found \subseteq called' /\ worker'[o].gone \subseteq called' \ alive'
  BY <1>2, <1>5, <1>6, RunIsTyped
<1>9. RunInv(o)'
  BY <1>1, <1>2, <1>5, <1>6, <1>7, <1>8 DEF RunInv, At, Handling, Ending
<1> HIDE DEF w
<1> QED
  BY <1>2, <1>3, <1>4, <1>5, <1>9, MovesOn

LEMMA CallEndsKnows ==
  ASSUME IInv, KnowInv, NEW o \in Owners, CallEnds(o) PROVE KnowInv'
<1>0. worker[o] \in RunRecord /\ CallInv /\ RunInv(o)
  BY RunIsTyped DEF KnowInv
<1> PICK h : h = InHand(o)
  OBVIOUS
<1>1. h \in Rows /\ Row(h).gen = worker[o].gen /\ worker[o].gen # 0
  BY <1>0 DEF CallEnds, RunInv, At, Handling
<1>2. PICK result \in Results \ {"none", "not_started"} :
        /\ alive' = IF result = "lost" THEN alive ELSE alive \ {h}
        /\ unconfirmed' = IF result = "lost" THEN unconfirmed \cup {h} ELSE unconfirmed
        /\ worker' = [worker EXCEPT ![o] = [@ EXCEPT !.pc = "settle_call", !.result = result]]
  BY DEF CallEnds
<1>3. UNCHANGED <<now, lease, attempts, called>>
  BY DEF CallEnds, vars
<1>4. Frame(worker[o].gen, {})
  <2>1. alive' \subseteq alive /\ unconfirmed \subseteq unconfirmed'
    BY <1>2
  <2> QED
    BY <1>0, <1>3, <2>1, FrameStill
<1> DEFINE w == [worker[o] EXCEPT !.pc = "settle_call", !.result = result]
<1>5. worker' = [worker EXCEPT ![o] = w]
  BY <1>2
<1>6. /\ w \in RunRecord /\ w.gen = worker[o].gen /\ w.pc = "settle_call" /\ w.job = worker[o].job
      /\ w.attempt = worker[o].attempt /\ w.found = worker[o].found /\ w.gone = worker[o].gone
      /\ w.result = result
  BY <1>0 DEF RunRecord, Places, Results
<1>7. worker'[o] = w
  BY <1>5, RunIsTyped
<1>8. InHand(o)' = h /\ Rows' = Rows /\ Row(h)' = Row(h)
  BY <1>3, <1>6, <1>7 DEF InHand, Rows, Row
<1>9. worker'[o].found \subseteq called' /\ worker'[o].gone \subseteq called' \ alive'
  BY <1>2, <1>3, <1>6, <1>7, RunIsTyped
<1>10. h \in alive' => result = "lost" /\ h \in unconfirmed'
  BY <1>2
<1>11. RunInv(o)'
  BY <1>1, <1>3, <1>6, <1>7, <1>8, <1>9, <1>10 DEF RunInv, At, Handling, Ending
<1> HIDE DEF w
<1> QED
  BY <1>3, <1>4, <1>5, <1>6, <1>11, MovesOn

\* What a step on the attempt in a run's hands may assume of it.
LEMMA InHandRow ==
  ASSUME IInv, KnowInv, NEW o \in Owners, worker[o].pc \in Handling
  PROVE  /\ worker[o].job \in Jobs /\ worker[o].attempt \in DOMAIN attempts[worker[o].job]
         /\ Row(InHand(o)) = attempts[worker[o].job][worker[o].attempt]
         /\ InHand(o) = <<worker[o].job, worker[o].attempt>> /\ InHand(o) \in Rows
         /\ Row(InHand(o)) \in Attempt
         /\ Row(InHand(o)).gen = worker[o].gen /\ worker[o].gen # 0
         /\ worker[o].pc \in Ending /\ InHand(o) \in alive =>
              worker[o].result = "lost" /\ InHand(o) \in unconfirmed
<1>1. RunInv(o)
  BY DEF KnowInv
<1> QED
  BY <1>1, HandsOn, RowType DEF IInv, InHand, RunInv

\* Rewriting the attempt in its hands, a run keeps hold of it.
LEMMA StaysInHand ==
  ASSUME IInv, KnowInv, NEW o \in Owners, worker[o].pc \in Handling,
         NEW a \in Attempt, Rewritten(worker[o].job, worker[o].attempt, a), SameStart(Row(InHand(o)), a),
         UNCHANGED called,
         NEW w \in RunRecord, worker' = [worker EXCEPT ![o] = w], w.gen = worker[o].gen,
         w.job = worker[o].job, w.attempt = worker[o].attempt
  PROVE  /\ InHand(o)' = InHand(o) /\ InHand(o) \in Rows' /\ Row(InHand(o))' = a
         /\ a.gen = worker[o].gen /\ worker'[o] = w
<1> PICK j \in Jobs : j = worker[o].job
  BY InHandRow
<1> PICK k \in DOMAIN attempts[j] : k = worker[o].attempt
  BY InHandRow
<1>1. InHand(o) = <<j, k>>
  BY InHandRow
<1>2. Rows' = Rows /\ <<j, k>> \in Rows /\ attempts'[j][k] = a
  BY OneRowChanges
<1>3. worker'[o] = w
  BY RunIsTyped
<1>4. InHand(o)' = <<j, k>>
  BY <1>3 DEF InHand
<1>5. Row(<<j, k>>)' = a
  BY <1>2 DEF Row
<1>6. a.gen = worker[o].gen
  BY InHandRow DEF SameStart
<1> QED
  BY <1>1, <1>2, <1>3, <1>4, <1>5, <1>6

\* How a run may rewrite it.
LEMMA InHandFrame ==
  ASSUME IInv, KnowInv, NEW o \in Owners, worker[o].pc \in Handling,
         NEW a \in Attempt, Rewritten(worker[o].job, worker[o].attempt, a),
         RowKept(worker[o].gen, InHand(o), a), UNCHANGED <<now, called, alive, unconfirmed>>
  PROVE  Frame(worker[o].gen, {})
<1> PICK j \in Jobs : j = worker[o].job
  BY InHandRow
<1> PICK k \in DOMAIN attempts[j] : k = worker[o].attempt
  BY InHandRow
<1>1. InHand(o) = <<j, k>> /\ CallInv
  BY InHandRow DEF KnowInv
<1>2. RowKept(worker[o].gen, <<j, k>>, a)
  BY <1>1
<1> QED
  BY <1>1, <1>2, FrameOne

LEMMA RecordKnows ==
  ASSUME IInv, KnowInv, NEW o \in Owners, RecordSpawned(o) PROVE KnowInv'
<1>0. worker[o] \in RunRecord /\ CallInv /\ RunInv(o) /\ worker[o].pc = "calling" /\ worker[o].pc \in Handling
  BY RunIsTyped DEF KnowInv, RecordSpawned, At, Handling
<1> PICK h : h = InHand(o)
  OBVIOUS
<1> DEFINE a == [Row(h) EXCEPT !.process = TRUE]
<1>1. h \in called /\ Row(h) \in Attempt /\ worker[o].gen # 0
  BY <1>0, InHandRow DEF RunInv, At
<1>2. a \in Attempt /\ SameStart(Row(h), a) /\ a.usage = Row(h).usage /\ a.outcome = Row(h).outcome
  BY <1>1 DEF Attempt, SameStart
<1>3. Rewritten(worker[o].job, worker[o].attempt, a)
  <2>1. Row(h) = attempts[worker[o].job][worker[o].attempt]
    BY <1>0, InHandRow
  <2> QED
    BY <2>1 DEF RecordSpawned, RecordProcess, Rewritten
<1>4. UNCHANGED <<now, lease, worker, called, alive, unconfirmed>>
  BY DEF RecordSpawned, RecordProcess, workerVars
<1> HIDE DEF a
<1>5. RowKept(worker[o].gen, h, a)
  BY <1>1, <1>2 DEF RowKept, IsOpen, CallInv
<1>6. Frame(worker[o].gen, {})
  BY <1>0, <1>2, <1>3, <1>4, <1>5, InHandFrame
<1>7. worker' = [worker EXCEPT ![o] = worker[o]]
  BY <1>4 DEF KnowInv, WorkerTyped
<1>8. InHand(o)' = h /\ h \in Rows' /\ Row(h)' = a /\ a.gen = worker[o].gen
  BY <1>0, <1>2, <1>3, <1>4, <1>7, StaysInHand
<1>9. RunInv(o)'
  <2>1. worker'[o].found \subseteq called' /\ worker'[o].gone \subseteq called' \ alive'
    BY <1>4, RunIsTyped
  <2>2. worker'[o].pc = "calling" /\ worker'[o].gen = worker[o].gen /\ h \in called'
    BY <1>0, <1>1, <1>4
  <2> QED
    BY <1>1, <1>8, <2>1, <2>2 DEF RunInv, At, Handling, Ending
<1> QED
  BY <1>0, <1>4, <1>6, <1>7, <1>9, MovesOn

\* settleProcessingCall, from where the run stands to where it goes on.
LEMMA SettleCallKnows ==
  ASSUME IInv, KnowInv, NEW o \in Owners,
         NEW ended \in {"settled", "unknown", "released"}, NEW cost \in Maybe(Nat),
         SettleCall(worker[o].gen, worker[o].job, worker[o].attempt, ended, cost), Keep,
         \/ At(o, "spawn") /\ Goto(o, "withdraw")
         \/ At(o, "settle_call") /\ Goto(o, "settle"),
         ended = "released" => InHand(o) \notin called
  PROVE  KnowInv'
<1>0. worker[o] \in RunRecord /\ CallInv /\ RunInv(o) /\ worker[o].pc \in Handling
  BY RunIsTyped DEF KnowInv, At, Handling, Ending
<1> PICK h : h = InHand(o)
  OBVIOUS
<1> DEFINE a == [Row(h) EXCEPT !.usage = ended, !.cost = cost]
<1>1. h \in Rows /\ Row(h) \in Attempt /\ worker[o].gen # 0 /\ Row(h).gen = worker[o].gen
  BY <1>0, InHandRow
<1>2. /\ a \in Attempt /\ SameStart(Row(h), a) /\ a.usage = ended /\ a.outcome = Row(h).outcome
      /\ a.process = Row(h).process
  BY <1>1 DEF Attempt, SameStart, Maybe
<1>3. Rewritten(worker[o].job, worker[o].attempt, a)
  <2>1. Row(h) = attempts[worker[o].job][worker[o].attempt]
    BY <1>0, InHandRow
  <2> QED
    BY <2>1 DEF SettleCall, Rewritten
<1>4. UNCHANGED <<now, lease, called, alive, unconfirmed>>
  BY DEF SettleCall, Keep
<1> HIDE DEF a
<1>5. RowKept(worker[o].gen, h, a)
  BY <1>1, <1>2 DEF RowKept, IsOpen
<1>6. Frame(worker[o].gen, {})
  BY <1>0, <1>2, <1>3, <1>4, <1>5, InHandFrame
<1>7. PICK place \in {"withdraw", "settle"} : Goto(o, place) /\ (place = "withdraw" <=> At(o, "spawn"))
  BY DEF At
<1> DEFINE w == [worker[o] EXCEPT !.pc = place]
<1>8. worker' = [worker EXCEPT ![o] = w]
  BY <1>7 DEF Goto
<1>9. /\ w \in RunRecord /\ w.gen = worker[o].gen /\ w.pc = place /\ w.job = worker[o].job
      /\ w.attempt = worker[o].attempt /\ w.found = worker[o].found /\ w.gone = worker[o].gone
      /\ w.result = worker[o].result
  BY <1>0 DEF RunRecord, Places
<1> HIDE DEF w
<1>10. InHand(o)' = h /\ h \in Rows' /\ Row(h)' = a /\ a.gen = worker[o].gen /\ worker'[o] = w
  <2>1. worker[o].pc \in Handling /\ w \in RunRecord /\ a \in Attempt /\ UNCHANGED called
    BY <1>0, <1>2, <1>4, <1>9
  <2>2. w.gen = worker[o].gen /\ w.job = worker[o].job /\ w.attempt = worker[o].attempt
    BY <1>9
  <2>3. SameStart(Row(InHand(o)), a)
    BY <1>2
  <2> QED
    BY <1>3, <1>8, <2>1, <2>2, <2>3, StaysInHand
<1>11. h \in alive' => w.result = "lost" /\ h \in unconfirmed'
  BY <1>0, <1>4, <1>9 DEF RunInv, At, CallInv, Ending
<1>13. worker'[o].pc = "withdraw" => h \notin called'
  BY <1>0, <1>4, <1>7, <1>9, <1>10 DEF RunInv
<1>12. RunInv(o)'
  <2>1. worker'[o].found \subseteq called' /\ worker'[o].gone \subseteq called' \ alive'
    BY <1>4, <1>9, <1>10, RunIsTyped
  <2>2. worker'[o].pc \in {"withdraw", "settle"} /\ worker'[o].gen = worker[o].gen
    BY <1>9, <1>10
  <2> QED
    BY <1>1, <1>10, <1>11, <1>13, <2>1, <2>2 DEF RunInv, At, Handling, Ending
<1> QED
  BY <1>4, <1>6, <1>8, <1>9, <1>12, MovesOn

LEMMA CallSettledKnows ==
  ASSUME IInv, KnowInv, NEW o \in Owners, WithdrawBeforeSpawn(o) \/ EndCall(o) PROVE KnowInv'
<1>1. RunInv(o) /\ None \in Maybe(Nat) /\ Maybe(ReportedCosts) \subseteq Maybe(Nat)
  BY LimitAssumption DEF KnowInv, Maybe
<1>2. CASE WithdrawBeforeSpawn(o)
  BY <1>1, <1>2, SettleCallKnows DEF WithdrawBeforeSpawn, RunInv
<1>3. CASE EndCall(o)
  <2>1. PICK ended \in {"settled", "unknown", "released"}, cost \in Maybe(Nat) :
          /\ SettleCall(worker[o].gen, worker[o].job, worker[o].attempt, ended, cost)
          /\ ended = "released" => worker[o].result = "not_started"
    BY <1>1, <1>3 DEF EndCall
  <2>2. At(o, "settle_call") /\ Goto(o, "settle") /\ Keep
    BY <1>3 DEF EndCall
  <2> QED
    BY <1>1, <2>1, <2>2, SettleCallKnows DEF RunInv
<1> QED
  BY <1>2, <1>3

\* settleProcessingAttempt: the attempt is ended and the run has nothing in its
\* hands.
LEMMA SettleKnows ==
  ASSUME IInv, KnowInv, NEW o \in Owners, worker[o].pc \in Ending,
         NEW outcome \in {"succeeded", "failed", "unknown"}, NEW receipt \in BOOLEAN, NEW freed,
         Settle(worker[o].gen, worker[o].job, worker[o].attempt, outcome, receipt, freed), Keep,
         NextJob(o) \/ Goto(o, "pause")
  PROVE  KnowInv'
<1>0. worker[o] \in RunRecord /\ CallInv /\ RunInv(o) /\ worker[o].pc \in Handling
  BY RunIsTyped DEF KnowInv, Handling
<1> PICK h : h = InHand(o)
  OBVIOUS
<1> DEFINE a == [Row(h) EXCEPT !.outcome = outcome, !.receipt = receipt]
<1>1. /\ h \in Rows /\ Row(h) \in Attempt /\ Row(h).gen = worker[o].gen
      /\ h \in alive => h \in unconfirmed
  BY <1>0, InHandRow
<1>2. /\ a \in Attempt /\ SameStart(Row(h), a) /\ a.usage = Row(h).usage /\ a.process = Row(h).process
  BY <1>1 DEF Attempt, SameStart
<1>3. Rewritten(worker[o].job, worker[o].attempt, a)
  <2>1. Row(h) = attempts[worker[o].job][worker[o].attempt]
    BY <1>0, InHandRow
  <2> QED
    BY <2>1 DEF Settle, Rewritten
<1>4. UNCHANGED <<now, lease, called, alive, unconfirmed>>
  BY DEF Settle, Keep
<1> HIDE DEF a
<1>5. RowKept(worker[o].gen, h, a)
  BY <1>1, <1>2 DEF RowKept
<1>6. Frame(worker[o].gen, {})
  BY <1>0, <1>2, <1>3, <1>4, <1>5, InHandFrame
<1>7. CASE NextJob(o)
  <2>1. LeaseInv'
    BY <1>4, <1>6, LeaseKept DEF KnowInv
  <2>2. now' \in Nat
    BY <1>4 DEF IInv, TypeOK
  <2> QED
    BY <1>4, <1>6, <1>7, <2>1, <2>2, Forgets
<1>8. CASE Goto(o, "pause")
  <2> DEFINE w == [worker[o] EXCEPT !.pc = "pause"]
  <2>1. worker' = [worker EXCEPT ![o] = w]
    BY <1>8 DEF Goto
  <2>2. /\ w \in RunRecord /\ w.gen = worker[o].gen /\ w.pc = "pause"
        /\ w.found = worker[o].found /\ w.gone = worker[o].gone
    BY <1>0 DEF RunRecord, Places
  <2>3. w.found \subseteq called' /\ w.gone \subseteq called' \ alive'
    BY <1>4, <2>2, RunIsTyped
  <2>4. w.pc \notin Handling /\ w.pc # "dispatch"
    BY <2>2 DEF Handling, Ending
  <2> HIDE DEF w
  <2> QED
    BY <1>4, <1>6, <2>1, <2>2, <2>3, <2>4, MovesOnEmpty
<1> QED
  BY <1>7, <1>8

LEMMA AttemptSettledKnows ==
  ASSUME IInv, KnowInv, NEW o \in Owners,
         \/ CompleteWithoutCall(o) \/ SettleWithdrawn(o) \/ SettleLost(o)
         \/ SettleAgain(o) \/ SettleGaveUp(o) \/ Publish(o)
  PROVE  KnowInv'
<1>1. PICK outcome \in {"succeeded", "failed", "unknown"}, receipt \in BOOLEAN :
        \E freed : Settle(worker[o].gen, worker[o].job, worker[o].attempt, outcome, receipt, freed)
  BY DEF CompleteWithoutCall, SettleWithdrawn, SettleLost, SettleAgain, SettleGaveUp, Publish,
         SettleSucceeded, SettleRetryable, SettleUnknown, SettleTerminal, PublishUnit
<1>2. PICK freed : Settle(worker[o].gen, worker[o].job, worker[o].attempt, outcome, receipt, freed)
  BY <1>1
<1>3. worker[o].pc \in Ending /\ Keep /\ (NextJob(o) \/ Goto(o, "pause"))
  BY DEF CompleteWithoutCall, SettleWithdrawn, SettleLost, SettleAgain, SettleGaveUp, Publish, At, Ending
<1> QED
  BY <1>2, <1>3, SettleKnows

LEMMA WorldKnows ==
  ASSUME IInv, KnowInv, ProviderEnds \/ Person \/ Time PROVE KnowInv'
<1>0. CallInv /\ now \in Nat
  BY DEF KnowInv, IInv, TypeOK
<1>1. UNCHANGED <<worker, lease, attempts, called, unconfirmed>> /\ alive' \subseteq alive
  BY DEF ProviderEnds, Person, Time, Tick, AdmitJob, RetryJob, ReopenJob, ConfirmModel, SetPause,
         vars, workerVars
<1>2. CASE UNCHANGED now
  <2>1. Frame(0, {})
    BY <1>0, <1>1, <1>2, FrameStill
  <2> QED
    BY <1>0, <1>1, <1>2, <2>1, NoRunMoves
<1>3. CASE Time
  <2>1. now' = now + 1 /\ alive' = alive
    BY <1>3 DEF Time, Tick, workerVars
  <2>2. \A r \in alive' : now' < Row(r).startedAt + CallLifetime
    BY <1>3, <2>1 DEF Time
  <2>3. now' >= now /\ now' \in Nat
    BY <1>0, <2>1
  <2>4. Frame(0, {})
    BY <1>0, <1>1, <2>2, <2>3, FrameNone
  <2> QED
    BY <1>1, <2>3, <2>4, NoRunMoves
<1> QED
  BY <1>2, <1>3 DEF ProviderEnds, Person, AdmitJob, RetryJob, ReopenJob, ConfirmModel, SetPause, vars

LEMMA WorkerKnows ==
  ASSUME IInv, KnowInv, [WorkerNext]_allVars PROVE KnowInv'
<1>1. ASSUME NEW o \in Owners, Step(o) \/ Heartbeat(o) \/ RecordSpawned(o) \/ Crash(o)
      PROVE  KnowInv'
  BY <1>1, StartKnows, LeavingKnows, RecoverKnows, TerminateKnows, ReexamineKnows, ClaimKnows, BeginKnows,
     AttemptSettledKnows, CallSettledKnows, SpawnKnows, SpawnRefusedKnows, CallEndsKnows,
     HeartbeatKnows, RecordKnows DEF Step
<1>2. CASE UNCHANGED allVars
  <2>1. UNCHANGED <<worker, lease, attempts, now, alive, called, unconfirmed>> /\ now' \in Nat
    BY <1>2 DEF allVars, vars, workerVars, IInv, TypeOK
  <2>2. Frame(0, {})
    BY <2>1, FrameStill DEF KnowInv
  <2> QED
    BY <2>1, <2>2, NoRunMoves
<1> QED
  BY <1>1, <1>2, WorldKnows DEF WorkerNext

-----------------------------------------------------------------------------
(* The worker as a use of the queue, and its calls.                        *)

LEMMA WorkerImplements ==
  ASSUME IInv, JobInv, KnowInv, [WorkerNext]_allVars PROVE [Next]_vars
<1>1. ASSUME NEW o \in Owners, Step(o) \/ Heartbeat(o) \/ RecordSpawned(o) \/ Crash(o)
      PROVE  [Next]_vars
  BY <1>1, StepImplements DEF KnowInv
<1>2. CASE ProviderEnds \/ Person \/ Time
  BY <1>2, PeopleImplement DEF IInv
<1>3. CASE UNCHANGED allVars
  BY <1>3 DEF allVars
<1> QED
  BY <1>1, <1>2, <1>3 DEF WorkerNext

LEMMA InitKnows == WorkerInit => KnowInv
<1> SUFFICES ASSUME WorkerInit PROVE KnowInv
  OBVIOUS
<1>1. Rows = {} /\ worker = [o \in Owners |-> Idle] /\ alive = {} /\ called = {} /\ lease.owner = None
  BY DEF WorkerInit, Init, Rows
<1>2. Idle \in RunRecord
  BY DEF Idle, RunRecord, Places, Maybe, Results
<1>3. WorkerTyped
  BY <1>1, <1>2 DEF WorkerTyped, WorkerInit, Init, Idle
<1>4. OneRunEach
  BY <1>1 DEF OneRunEach, Idle
<1>5. CallInv /\ LeaseInv
  BY <1>1 DEF CallInv, LeaseInv
<1>6. \A o \in Owners : RunInv(o)
  BY <1>1 DEF RunInv, Idle, At, Handling, Ending
<1> QED
  BY <1>3, <1>4, <1>5, <1>6 DEF KnowInv

LEMMA WorkerHolds ==
  WorkerSpec => [](IInv /\ JobInv /\ KnowInv)
<1>1. WorkerInit => IInv /\ JobInv /\ KnowInv
  BY InitIInv, InitJobInv, InitKnows DEF WorkerInit
<1>2. IInv /\ JobInv /\ KnowInv /\ [WorkerNext]_allVars => (IInv /\ JobInv /\ KnowInv)'
  BY WorkerImplements, WorkerKnows, NextIInv, NextJobInv
<1> QED
  BY <1>1, <1>2, PTL DEF WorkerSpec

\* The worker uses the queue only through its operations: every behaviour of
\* its runs, of the people beside it and of the clock is one of the queue.
THEOREM WorkerImplementsQueue == WorkerSpec => ImplementsQueue
<1>1. WorkerInit => Init
  BY DEF WorkerInit
<1>2. IInv /\ JobInv /\ KnowInv /\ [WorkerNext]_allVars => [Next]_vars
  BY WorkerImplements
<1> QED
  BY <1>1, <1>2, WorkerHolds, PTL DEF WorkerSpec, ImplementsQueue, Spec

\* No hold is given back for a call whose provider was spawned, whatever
\* withdrawals, refused spawns, lost leases and recoveries do in between.
THEOREM ReleasedAreNeverCalled == WorkerSpec => []ReleasedNeverCalled
<1>1. KnowInv => ReleasedNeverCalled
  BY DEF KnowInv, CallInv, ReleasedNeverCalled
<1> QED
  BY <1>1, WorkerHolds, PTL

\* A provider process that runs belongs to an unsettled attempt, unless its own
\* run reported that it did not see the process stop.
THEOREM LiveCallsAreOpen == WorkerSpec => []LiveCallIsOpen
<1>1. KnowInv => LiveCallIsOpen
  BY DEF KnowInv, CallInv, LiveCallIsOpen
<1> QED
  BY <1>1, WorkerHolds, PTL

\* Those aside one provider call is alive at a time: its attempt is the latest
\* of the one job that runs.
THEOREM OneCallLives == WorkerSpec => []OneLiveCall
<1>1. ASSUME IInv, KnowInv PROVE OneLiveCall
  <2> DEFINE S == alive \ unconfirmed
  <2>1. ASSUME NEW r \in S, NEW q \in S PROVE r = q
    <3>1. /\ r[1] \in Jobs /\ r[2] \in DOMAIN attempts[r[1]] /\ r = <<r[1], r[2]>>
          /\ q[1] \in Jobs /\ q[2] \in DOMAIN attempts[q[1]] /\ q = <<q[1], q[2]>>
      BY <1>1, RowType DEF IInv, KnowInv, CallInv
    <3>2. IsOpen(attempts[r[1]][r[2]]) /\ IsOpen(attempts[q[1]][q[2]])
      BY <1>1 DEF KnowInv, CallInv, Row
    <3>3. /\ jobs[r[1]].state = "running" /\ r[2] = Len(attempts[r[1]])
          /\ jobs[q[1]].state = "running" /\ q[2] = Len(attempts[q[1]])
      BY <1>1, <3>1, <3>2 DEF IInv, OpenAttemptHeld
    <3>4. r[1] = q[1]
      BY <1>1, <3>1, <3>3 DEF IInv, OneRunning
    <3> QED
      BY <3>1, <3>3, <3>4
  <2>2. CASE S = {}
    <3>1. Cardinality(S) = 0
      BY <2>2, FS_EmptySet
    <3> QED
      BY <3>1 DEF OneLiveCall
  <2>3. CASE S # {}
    <3>1. PICK r \in S : S = {r}
      BY <2>1, <2>3
    <3>2. Cardinality(S) = 1
      BY <3>1, FS_Singleton
    <3> QED
      BY <3>2 DEF OneLiveCall
  <2> QED
    BY <2>2, <2>3
<1> QED
  BY <1>1, WorkerHolds, PTL

-----------------------------------------------------------------------------
(* When a job comes due.  What a step may do to one, by what it was.       *)

\* It becomes or stays a job that nothing can be claimed of yet.
Undated(j) ==
  \/ jobs'[j].state = "running"
  \/ jobs[j].state \notin {"running", "retryable_failure"} /\ jobs'[j].state # "retryable_failure"

SameDate(j) == /\ jobs'[j].state = jobs[j].state /\ jobs'[j].retryAt = jobs[j].retryAt
               /\ jobs'[j].wait = jobs[j].wait

\* It is handed back, nothing of it being open.
GivenBack(j) ==
  /\ jobs[j].state = "running" /\ ~HasOpenAttempt(j)
  /\ jobs'[j].state = "retryable_failure" => jobs'[j].wait \in WindowReasons

\* Its latest attempt is settled: the call is over, or its lifetime waited for.
SettledDate(j) ==
  /\ jobs[j].state = "running" /\ jobs'[j].state # "pending"
  /\ jobs'[j].state = "retryable_failure" =>
       \/ <<j, Len(attempts[j])>> \notin alive'
       \/ now' = now /\ jobs'[j].retryAt \in Nat /\ jobs'[j].retryAt >= now + CallLifetime

Dates(j) == RetryJob(j, now) \/ Undated(j) \/ SameDate(j) \/ GivenBack(j) \/ SettledDate(j)

LEMMA NoDates == ASSUME UNCHANGED jobs, NEW j \in Jobs PROVE Dates(j)
BY DEF Dates, SameDate

\* A step that touches one job.
LEMMA OthersDates ==
  ASSUME IInv, NEW i \in Jobs, NEW job, jobs' = [jobs EXCEPT ![i] = job], jobs'[i] = job => Dates(i)
  PROVE  \A j \in Jobs : Dates(j)
<1>1. \A j \in Jobs : jobs'[j] = IF j = i THEN job ELSE jobs[j]
  BY DEF IInv, TypeOK
<1>2. \A j \in Jobs \ {i} : Dates(j)
  BY <1>1 DEF Dates, SameDate
<1> QED
  BY <1>1, <1>2

\* A job freed while nothing of it is open.
LEMMA FreedDates ==
  ASSUME IInv, NEW i \in Jobs, jobs[i].state = "running", ~HasOpenAttempt(i),
         NEW s \in {"pending", "terminal_failure", "retryable_failure"}, NEW wait, NEW at,
         s = "retryable_failure" => wait \in WindowReasons,
         jobs' = [jobs EXCEPT ![i] = Freed(@, s, wait, at)]
  PROVE  \A j \in Jobs : Dates(j)
<1> PICK job : job = Freed(jobs[i], s, wait, at)
  OBVIOUS
<1>1. job.state = s /\ job.wait = wait
  <2>1. jobs[i] \in Job
    BY DEF IInv, TypeOK
  <2> QED
    BY <2>1 DEF Freed, Job
<1>2. jobs' = [jobs EXCEPT ![i] = job]
  OBVIOUS
<1>3. jobs'[i] = job => Dates(i)
  BY <1>1 DEF Dates, GivenBack
<1> QED
  BY <1>2, <1>3, OthersDates

LEMMA PersonDates ==
  ASSUME IInv, JobInv, Person PROVE \A j \in Jobs : Dates(j)
<1>1. CASE UNCHANGED jobs
  BY <1>1, NoDates
<1>2. ASSUME NEW i \in Jobs, AdmitJob(i, now) PROVE \A j \in Jobs : Dates(j)
  <2> DEFINE job == [AbsentJob EXCEPT !.state = "pending", !.admittedAt = now]
  <2>1. jobs' = [jobs EXCEPT ![i] = job] /\ jobs[i].state = "absent"
    BY <1>2 DEF AdmitJob
  <2>2. job.state = "pending"
    BY DEF AbsentJob
  <2> HIDE DEF job
  <2>3. jobs'[i] = job => Dates(i)
    BY <2>1, <2>2 DEF Dates, Undated
  <2> QED
    BY <2>1, <2>3, OthersDates
<1>3. ASSUME NEW i \in Jobs, RetryJob(i, now) PROVE \A j \in Jobs : Dates(j)
  <2>1. \E job : jobs' = [jobs EXCEPT ![i] = job]
    BY <1>3 DEF RetryJob
  <2>2. PICK job : jobs' = [jobs EXCEPT ![i] = job]
    BY <2>1
  <2>3. Dates(i)
    BY <1>3 DEF Dates
  <2> QED
    BY <2>2, <2>3, OthersDates
<1>4. ASSUME NEW i \in Jobs, NEW approved, ReopenJob(i, jobs[i].reopenings, approved)
      PROVE  \A j \in Jobs : Dates(j)
  <2> DEFINE job == [jobs[i] EXCEPT !.state = "pending", !.wait = None, !.retryAt = None,
                       !.reopenings = jobs[i].reopenings + 1, !.before = Len(attempts[i]), !.allowed = approved]
  <2>1. jobs' = [jobs EXCEPT ![i] = job] /\ jobs[i].state = "terminal_failure" /\ jobs[i] \in Job
    BY <1>4 DEF ReopenJob, IInv, TypeOK
  <2>2. job.state = "pending"
    BY <2>1 DEF Job
  <2> HIDE DEF job
  <2>3. jobs'[i] = job => Dates(i)
    BY <2>1, <2>2 DEF Dates, Undated
  <2> QED
    BY <2>1, <2>3, OthersDates
<1>5. ASSUME NEW i \in Jobs, ConfirmModel(i, jobs[i].confirmations)
      PROVE  \A j \in Jobs : Dates(j)
  <2>1. PICK job : /\ jobs' = [jobs EXCEPT ![i] = job] /\ job.state = jobs[i].state
                   /\ \/ job.retryAt = jobs[i].retryAt /\ job.wait = jobs[i].wait
                      \/ jobs[i].wait = "model_reconfirmation_required"
    <3> DEFINE once == [jobs[i] EXCEPT !.confirmations = jobs[i].confirmations + 1]
               freed == [jobs[i] EXCEPT !.confirmations = jobs[i].confirmations + 1,
                                        !.wait = None, !.retryAt = None]
    <3>1. jobs[i] \in Job
      BY DEF IInv, TypeOK
    <3>2. /\ once.state = jobs[i].state /\ once.retryAt = jobs[i].retryAt /\ once.wait = jobs[i].wait
          /\ freed.state = jobs[i].state
      BY <3>1 DEF Job
    <3>3. \/ jobs' = [jobs EXCEPT ![i] = once]
          \/ jobs' = [jobs EXCEPT ![i] = freed] /\ jobs[i].wait = "model_reconfirmation_required"
      BY <1>5 DEF ConfirmModel
    <3> HIDE DEF once, freed
    <3> QED
      BY <3>2, <3>3
  <2>2. jobs[i].state \in {"pending", "retryable_failure"} /\ Scheduled(jobs[i])
    BY <1>5 DEF ConfirmModel, JobInv
  <2>3. jobs'[i] = job => Dates(i)
    <3>1. CASE jobs[i].state = "pending"
      BY <2>1, <3>1 DEF Dates, Undated
    <3>2. CASE jobs[i].state = "retryable_failure"
      <4>1. jobs[i].wait # "model_reconfirmation_required"
        BY <2>2, <3>2 DEF Scheduled, WindowReasons, FailureReasons
      <4> QED
        BY <2>1, <4>1 DEF Dates, SameDate
    <3> QED
      BY <2>2, <3>1, <3>2
  <2> QED
    BY <2>1, <2>3, OthersDates
<1> QED
  BY <1>1, <1>2, <1>3, <1>4, <1>5 DEF Person, SetPause

LEMMA RecoverDates ==
  ASSUME IInv, KnowInv, NEW g, NEW gone, gone \subseteq called \ alive,
         Recover(g, gone, now, now + RetryDelay), UNCHANGED <<called, alive, unconfirmed>>
  PROVE  \A j \in Jobs : Dates(j)
<1> SUFFICES ASSUME NEW j \in Jobs PROVE Dates(j)
  OBVIOUS
<1> DEFINE settled == {k \in DOMAIN attempts[j] : Settles(g, j, k, gone, now)}
           open == {k \in DOMAIN attempts[j] : IsOpen(attempts[j][k])}
<1>1. jobs'[j] = IF settled # {}
                 THEN Freed(jobs[j], "retryable_failure", "call_result_unknown", now + RetryDelay)
                 ELSE IF jobs[j].state = "running" /\ jobs[j].claim # g /\ open = {}
                 THEN Freed(jobs[j], "pending", None, None) ELSE jobs[j]
  BY DEF Recover
<1>2. jobs[j] \in Job /\ CallInv /\ LeaseInv
  BY DEF IInv, TypeOK, KnowInv
<1>3. ASSUME NEW k \in settled PROVE SettledDate(j)
  <2>1. jobs[j].state = "running" /\ k = Len(attempts[j])
    BY DEF Settles, IInv, OpenAttemptHeld
  <2>2. <<j, k>> \notin alive
    BY <1>2, FrameRecover
  <2>3. jobs'[j].state = "retryable_failure"
    BY <1>1, <1>2, <1>3 DEF Freed, Job
  <2> QED
    BY <2>1, <2>2, <2>3 DEF SettledDate
<1>4. CASE settled = {} /\ jobs[j].state = "running" /\ jobs[j].claim # g /\ open = {}
  <2>1. jobs'[j].state = "pending"
    BY <1>1, <1>2, <1>4 DEF Freed, Job
  <2> QED
    BY <1>4, <2>1 DEF Dates, GivenBack, HasOpenAttempt
<1>5. CASE settled = {} /\ ~(jobs[j].state = "running" /\ jobs[j].claim # g /\ open = {})
  <2>1. jobs'[j] = jobs[j]
    BY <1>1, <1>5
  <2> QED
    BY <2>1 DEF Dates, SameDate
<1> QED
  BY <1>3, <1>4, <1>5 DEF Dates

LEMMA BeginDates ==
  ASSUME IInv, KnowInv, NEW o \in Owners, BeginAttempt(o) PROVE \A j \in Jobs : Dates(j)
<1> PICK i \in Jobs : i = worker[o].job
  BY DEF BeginAttempt, KnowInv, RunInv
<1> DEFINE call == Units[i] > 0
           unit == IF call THEN Cardinality(Receipts(i)) ELSE None
<1> PICK configured \in AttemptLimits :
           StartAttempt(worker[o].gen, i, configured, jobs[i].confirmations, call, unit, now)
  BY DEF BeginAttempt
<1> HIDE DEF call, unit
<1>1. jobs[i].state = "running" /\ ~HasOpenAttempt(i)
  BY DEF StartAttempt, Holds
<1>2. Refusal(now) # None => Refusal(now) \in WindowReasons
  BY DEF Refusal, WindowReasons
<1>3. CASE UNCHANGED jobs
  BY <1>3, NoDates
<1>4. CASE jobs' = [jobs EXCEPT ![i] = Freed(@, "terminal_failure", None, None)]
  BY <1>1, <1>4, FreedDates
<1>5. ASSUME NEW wait \in WindowReasons, NEW at,
             jobs' = [jobs EXCEPT ![i] = Freed(@, "retryable_failure", wait, at)]
      PROVE  \A j \in Jobs : Dates(j)
  BY <1>1, <1>5, FreedDates
<1>6. \/ UNCHANGED jobs
      \/ jobs' = [jobs EXCEPT ![i] = Freed(@, "terminal_failure", None, None)]
      \/ \E wait \in WindowReasons : \E at :
            jobs' = [jobs EXCEPT ![i] = Freed(@, "retryable_failure", wait, at)]
  BY <1>2 DEF StartAttempt
<1> QED
  BY <1>3, <1>4, <1>5, <1>6

\* A run settles the attempt in its hands, freeing the job in state s.
LEMMA SettleDates ==
  ASSUME IInv, KnowInv, NEW o \in Owners, worker[o].pc \in Ending, UNCHANGED <<now, alive>>,
         NEW outcome, NEW receipt, NEW s \in {"completed", "terminal_failure", "retryable_failure"},
         NEW wait, NEW at,
         Settle(worker[o].gen, worker[o].job, worker[o].attempt, outcome, receipt,
                Freed(jobs[worker[o].job], s, wait, at)),
         s = "retryable_failure" => InHand(o) \notin alive \/ at = now + CallLifetime
  PROVE  \A j \in Jobs : Dates(j)
<1>0. worker[o].pc \in Handling
  BY DEF Handling
<1> PICK i \in Jobs : i = worker[o].job
  BY <1>0, InHandRow
<1> PICK k \in DOMAIN attempts[i] : k = worker[o].attempt
  BY <1>0, InHandRow
<1> PICK job : job = Freed(jobs[i], s, wait, at)
  OBVIOUS
<1>1. jobs' = [jobs EXCEPT ![i] = job] /\ jobs[i].state = "running" /\ IsOpen(attempts[i][k])
  BY DEF Settle
<1>2. job.state = s /\ job.retryAt = at
  <2>1. jobs[i] \in Job
    BY DEF IInv, TypeOK
  <2> QED
    BY <2>1 DEF Freed, Job
<1>3. k = Len(attempts[i]) /\ InHand(o) = <<i, k>>
  BY <1>0, <1>1, InHandRow DEF IInv, OpenAttemptHeld
<1>4. now + CallLifetime \in Nat /\ now + CallLifetime >= now + CallLifetime
  BY TimeAssumption DEF IInv, TypeOK
<1>5. jobs'[i] = job => Dates(i)
  BY <1>1, <1>2, <1>3, <1>4 DEF Dates, SettledDate
<1> QED
  BY <1>1, <1>5, OthersDates

\* A call that is over, or that never was, is not alive.
LEMMA OverIsOver ==
  ASSUME KnowInv, NEW o \in Owners,
         At(o, "withdraw") \/ (worker[o].pc \in Ending /\ worker[o].result # "lost")
  PROVE  InHand(o) \notin alive
BY DEF KnowInv, RunInv, CallInv

LEMMA SettlementDates ==
  ASSUME IInv, KnowInv, NEW o \in Owners,
         \/ CompleteWithoutCall(o) \/ SettleWithdrawn(o) \/ SettleLost(o)
         \/ SettleAgain(o) \/ SettleGaveUp(o) \/ Publish(o)
  PROVE  \A j \in Jobs : Dates(j)
<1> DEFINE freed(s, wait, at) == Freed(jobs[worker[o].job], s, wait, at)
           settle(outcome, receipt, job) ==
             Settle(worker[o].gen, worker[o].job, worker[o].attempt, outcome, receipt, job)
<1>0. worker[o].pc \in Ending /\ UNCHANGED <<now, alive>>
  BY DEF CompleteWithoutCall, SettleWithdrawn, SettleLost, SettleAgain, SettleGaveUp, Publish, Keep,
         SettleSucceeded, SettleRetryable, SettleUnknown, SettleTerminal, PublishUnit, Settle, At, Ending
<1>1. CASE CompleteWithoutCall(o)
  <2>1. settle("succeeded", FALSE, freed("completed", None, None))
    BY <1>1 DEF CompleteWithoutCall, SettleSucceeded
  <2> QED
    BY <1>0, <2>1, SettleDates
<1>2. CASE SettleWithdrawn(o) \/ SettleAgain(o)
  <2>1. settle("failed", FALSE, freed("retryable_failure", "call_failed", now + RetryDelay))
    BY <1>2 DEF SettleWithdrawn, SettleAgain, SettleRetryable
  <2>2. InHand(o) \notin alive
    BY <1>0, <1>2, OverIsOver DEF SettleWithdrawn, SettleAgain
  <2> QED
    BY <1>0, <2>1, <2>2, SettleDates
<1>3. CASE SettleLost(o)
  <2>1. settle("unknown", FALSE, freed("retryable_failure", "call_result_unknown", now + CallLifetime))
    BY <1>3 DEF SettleLost, SettleUnknown
  <2> QED
    BY <1>0, <2>1, SettleDates
<1>4. CASE SettleGaveUp(o)
  <2>1. settle("failed", FALSE, freed("terminal_failure", None, None))
    BY <1>4 DEF SettleGaveUp, SettleTerminal
  <2> QED
    BY <1>0, <2>1, SettleDates
<1>5. CASE Publish(o)
  <2>1. \/ settle("succeeded", TRUE, freed("completed", None, None))
        \/ settle("failed", TRUE, freed("retryable_failure", "source_unit_pending", now))
    BY <1>5 DEF Publish, PublishUnit
  <2>2. InHand(o) \notin alive
    BY <1>0, <1>5, OverIsOver DEF Publish
  <2>3. CASE settle("succeeded", TRUE, freed("completed", None, None))
    BY <1>0, <2>3, SettleDates
  <2>4. CASE settle("failed", TRUE, freed("retryable_failure", "source_unit_pending", now))
    BY <1>0, <2>2, <2>4, SettleDates
  <2> QED
    BY <2>1, <2>3, <2>4
<1> QED
  BY <1>1, <1>2, <1>3, <1>4, <1>5

LEMMA WorkerDates ==
  ASSUME IInv, JobInv, KnowInv, [WorkerNext]_allVars PROVE \A j \in Jobs : Dates(j)
<1>1. ASSUME NEW o \in Owners, Step(o) \/ Heartbeat(o) \/ RecordSpawned(o) \/ Crash(o)
      PROVE  \A j \in Jobs : Dates(j)
  <2>1. CASE UNCHANGED jobs
    BY <2>1, NoDates
  <2>2. CASE RecoverOnce(o) \/ RecoverGone(o)
    <3>1. worker[o].gone \subseteq called \ alive
      BY RunIsTyped
    <3> QED
      BY <2>2, <3>1, RecoverDates DEF RecoverOnce, RecoverGone, Keep
  <2>3. CASE ReexamineOriginBound(o)
    <3>1. UNCHANGED jobs \/ UnparkJobs(worker[o].gen, {"origin_bound"})
      BY <2>3 DEF ReexamineOriginBound, vars
    <3>2. ASSUME UnparkJobs(worker[o].gen, {"origin_bound"}), NEW j \in Jobs PROVE Dates(j)
      <4>1. jobs[j] \in Job
        BY DEF IInv, TypeOK
      <4>2. jobs'[j] = IF jobs[j].state = "pending" /\ jobs[j].wait \in {"origin_bound"}
                       THEN [jobs[j] EXCEPT !.wait = None] ELSE jobs[j]
        BY <3>2 DEF UnparkJobs
      <4>3. jobs'[j] = jobs[j] \/ (jobs[j].state = "pending" /\ jobs'[j].state = "pending")
        BY <4>1, <4>2 DEF Job
      <4> QED
        BY <4>3 DEF Dates, SameDate, Undated
    <3> QED
      BY <3>1, <3>2, NoDates
  <2>4. CASE Claim(o)
    <3>1. PICK i \in Jobs : ClaimJob(worker[o].gen, i, now)
      BY <2>4 DEF Claim
    <3> DEFINE job == [jobs[i] EXCEPT !.state = "running", !.claim = worker[o].gen,
                                      !.wait = None, !.retryAt = None]
    <3>2. jobs' = [jobs EXCEPT ![i] = job] /\ jobs[i] \in Job
      BY <3>1 DEF ClaimJob, IInv, TypeOK
    <3>3. job.state = "running"
      BY <3>2 DEF Job
    <3> HIDE DEF job
    <3>4. jobs'[i] = job => Dates(i)
      BY <3>3 DEF Dates, Undated
    <3> QED
      BY <3>2, <3>4, OthersDates
  <2>5. CASE Refuse(o) \/ OverSchedule(o) \/ FinishExhausted(o)
    <3>1. PICK i \in Jobs, s \in {"pending", "terminal_failure"}, wait \in Maybe(ParkReasons) :
            /\ Holds(worker[o].gen, i) /\ jobs' = [jobs EXCEPT ![i] = Freed(@, s, wait, None)]
      <4>1. worker[o].job \in Jobs
        BY <2>5 DEF Refuse, OverSchedule, FinishExhausted, KnowInv, RunInv
      <4>2. CASE Refuse(o) \/ OverSchedule(o)
        <5>1. PICK wait \in Maybe(ParkReasons) : ParkJob(worker[o].gen, worker[o].job, wait)
          BY <4>2, SchedulesAreParked DEF Refuse, OverSchedule, Maybe
        <5> QED
          BY <4>1, <5>1 DEF ParkJob
      <4>3. CASE FinishExhausted(o)
        <5>1. \E configured \in AttemptLimits :
                SettleExhaustedJob(worker[o].gen, worker[o].job, configured)
          BY <4>3 DEF FinishExhausted
        <5> QED
          BY <4>1, <5>1 DEF SettleExhaustedJob, Maybe
      <4> QED
        BY <2>5, <4>2, <4>3
    <3>2. jobs[i].state = "running" /\ ~HasOpenAttempt(i)
      BY <3>1 DEF Holds
    <3> QED
      BY <3>1, <3>2, FreedDates
  <2>6. CASE BeginAttempt(o)
    BY <2>6, BeginDates
  <2>7. CASE \/ CompleteWithoutCall(o) \/ SettleWithdrawn(o) \/ SettleLost(o)
             \/ SettleAgain(o) \/ SettleGaveUp(o) \/ Publish(o)
    BY <2>7, SettlementDates
  <2>8. CASE \/ Start(o) \/ Finish(o) \/ Fail(o) \/ Terminate(o) \/ Exit(o) \/ Spawn(o) \/ SpawnRefused(o)
             \/ CallEnds(o) \/ LeaveUnsettled(o) \/ PauseWorkload(o) \/ Crash(o) \/ Heartbeat(o)
    <3>1. UNCHANGED jobs
      <4>1. CASE Start(o)
        BY <4>1 DEF Start, TakeLease, vars
      <4>2. CASE Finish(o)
        BY <4>2 DEF Finish, ReleaseLease, vars
      <4>3. CASE Fail(o) \/ Exit(o) \/ Crash(o)
        BY <4>3 DEF Fail, Exit, Crash, vars
      <4>4. CASE Terminate(o)
        BY <4>4 DEF Terminate, vars
      <4>5. CASE Spawn(o)
        BY <4>5 DEF Spawn, vars
      <4>6. CASE SpawnRefused(o) \/ LeaveUnsettled(o)
        BY <4>6 DEF SpawnRefused, LeaveUnsettled, vars
      <4>7. CASE CallEnds(o)
        BY <4>7 DEF CallEnds, vars
      <4>8. CASE PauseWorkload(o)
        BY <4>8 DEF PauseWorkload, PauseUnder, SetPause
      <4>9. CASE Heartbeat(o)
        BY <4>9 DEF Heartbeat, RenewLease, vars
      <4> QED
        BY <2>8, <4>1, <4>2, <4>3, <4>4, <4>5, <4>6, <4>7, <4>8, <4>9
    <3> QED
      BY <3>1, NoDates
  <2>9. CASE WithdrawBeforeSpawn(o) \/ EndCall(o) \/ RecordSpawned(o)
    <3>1. UNCHANGED jobs
      BY <2>9 DEF WithdrawBeforeSpawn, EndCall, SettleCall, RecordSpawned, RecordProcess
    <3> QED
      BY <3>1, NoDates
  <2> QED
    BY <1>1, <2>2, <2>3, <2>4, <2>5, <2>6, <2>7, <2>8, <2>9 DEF Step
<1>2. CASE ProviderEnds \/ Time \/ UNCHANGED allVars
  <2>1. UNCHANGED jobs
    BY <1>2 DEF ProviderEnds, Time, Tick, allVars, vars
  <2> QED
    BY <2>1, NoDates
<1> QED
  BY <1>1, <1>2, PersonDates DEF WorkerNext

\* A job that does not run, or is not run on, keeps its attempts.
LEMMA SameLength ==
  ASSUME IInv, NEW j \in Jobs, Moves(j), jobs[j].state # "running" \/ jobs'[j].state # "running"
  PROVE  Len(attempts'[j]) = Len(attempts[j])
<1>1. attempts[j] \in Seq(Attempt)
  BY AttemptsType DEF IInv
<1>2. CASE Publishes(j)
  <2>1. PICK k \in DOMAIN attempts[j] : \E a \in Attempt : attempts'[j] = [attempts[j] EXCEPT ![k] = a]
    BY <1>2 DEF Publishes
  <2>2. PICK a \in Attempt : attempts'[j] = [attempts[j] EXCEPT ![k] = a]
    BY <2>1
  <2> QED
    BY <1>1, <2>2, ExceptSeq
<1>3. CASE SameRows(j)
  BY <1>3 DEF SameRows
<1>4. ~Begins(j)
  BY DEF Begins
<1> QED
  BY <1>2, <1>3, <1>4 DEF Moves, Admits, Reopens

LEMMA TimeGoesOn == ASSUME IInv, [Next]_vars PROVE now \in Nat /\ now' \in Nat /\ now' >= now
<1>0. now \in Nat
  BY DEF IInv, TypeOK
<1>1. ASSUME NEW g, NEW j, NEW k, NEW t, AttemptStep(g, j, k, t) PROVE UNCHANGED now
  BY <1>1 DEF AttemptStep, RecordProcess, SettleCall, SettleSucceeded, SettleTerminal, SettleRetryable,
              SettleUnknown, PublishUnit, Settle
<1>2. ASSUME NEW g, NEW j, NEW t, JobStep(g, j, t) PROVE UNCHANGED now
  <2>1. CASE StartStep(g, j, t)
    BY <2>1 DEF StartStep, StartAttempt
  <2> QED
    BY <1>1, <1>2, <2>1 DEF JobStep, ClaimJob, ParkJob, SettleExhaustedJob
<1>3. ASSUME NEW g, NEW t, OwnerStep(g, t) PROVE UNCHANGED now
  BY <1>2, <1>3 DEF OwnerStep, LeaseStep, RenewLease, ReleaseLease, UnparkJobs, RecoverStep, Recover,
                    PauseUnder, SetPause
<1>4. ASSUME NEW j, NEW t, PersonStep(j, t) PROVE UNCHANGED now
  BY <1>4 DEF PersonStep, AdmitJob, RetryJob, ReopenJob, ConfirmModel
<1>5. UNCHANGED now \/ now' = now + 1
  BY <1>3, <1>4 DEF Next, TakeLease, SetPause, Tick, vars
<1> QED
  BY <1>0, <1>5

\* What a step knows of a call that is alive after it.
LEMMA LiveCall ==
  ASSUME IInv, JobInv, KnowInv, [WorkerNext]_allVars, NEW r \in alive'
  PROVE  /\ r \in Rows /\ r[1] \in Jobs /\ r[2] \in Nat /\ r = <<r[1], r[2]>> /\ Moves(r[1])
         /\ now \in Nat /\ now' \in Nat /\ now' >= now
         /\ Row(r)'.startedAt = Row(r).startedAt /\ Row(r).startedAt \in Nat
         /\ Row(r).startedAt <= now /\ now' < Row(r).startedAt + CallLifetime
         /\ r \notin alive => IsOpen(Row(r)) /\ UNCHANGED vars
<1>1. KnowInv' /\ [Next]_vars /\ IInv'
  BY WorkerKnows, WorkerImplements, NextIInv
<1>2. \A i \in Jobs : Moves(i)
  BY <1>1, StepMoves
<1>3. now \in Nat /\ now' \in Nat /\ now' >= now
  BY <1>1, TimeGoesOn
<1>5. r \notin alive => \E o \in Owners : Spawn(o) /\ r = InHand(o)
  BY DEF WorkerNext, Step, Start, Heartbeat, Finish, Fail, Crash, RecoverOnce, Terminate, RecoverGone,
     ReexamineOriginBound, Claim, Exit, Refuse, FinishExhausted, OverSchedule, BeginAttempt,
     CompleteWithoutCall, WithdrawBeforeSpawn, SettleWithdrawn, Spawn, SpawnRefused, RecordSpawned,
     CallEnds, LeaveUnsettled, EndCall, SettleLost, SettleAgain, SettleGaveUp, Publish, PauseWorkload,
     ProviderEnds, Person, Time, Keep, workerVars, allVars
<1>6. r \notin alive => r \in Rows /\ IsOpen(Row(r)) /\ UNCHANGED vars
  BY <1>5 DEF KnowInv, RunInv, Spawn, At, Handling, Young
<1>7. r \in Rows
  BY <1>6 DEF KnowInv, CallInv
<1>8. r[1] \in Jobs /\ r[2] \in DOMAIN attempts[r[1]] /\ r = <<r[1], r[2]>> /\ Row(r).startedAt \in Nat
  BY <1>7, RowType DEF IInv
<1>9. r[2] \in Nat
  BY <1>8, AttemptsType DEF IInv
<1>10. Row(r)'.startedAt = Row(r).startedAt
  <2>1. SameCall(Row(r), attempts'[r[1]][r[2]])
    BY <1>2, <1>7, RowsMove
  <2> QED
    BY <2>1 DEF SameCall, Row
<1>11. Row(r).startedAt <= now
  BY <1>7 DEF KnowInv, CallInv
<1>12. now' < Row(r).startedAt + CallLifetime
  BY <1>1, <1>10 DEF KnowInv, CallInv, Young
<1> QED
  BY <1>2, <1>3, <1>6, <1>7, <1>8, <1>9, <1>10, <1>11, <1>12

LEMMA WaitsKept ==
  ASSUME IInv, JobInv, KnowInv, \A r \in alive : Waits(r), [WorkerNext]_allVars, NEW r \in alive'
  PROVE  Waits(r)'
<1> PICK j \in Jobs : j = r[1]
  BY LiveCall
<1> PICK s \in Nat : s = Row(r).startedAt
  BY LiveCall
<1>1. Row(r)'.startedAt = s /\ s <= now /\ now \in Nat /\ now' \in Nat /\ now' >= now /\ CallLifetime \in Nat
  BY LiveCall, TimeAssumption
<1>2. SUFFICES ASSUME r[2] = Len(attempts'[j]), jobs'[j].state = "retryable_failure"
               PROVE  \/ jobs'[j].retryAt <= now' \/ jobs'[j].retryAt >= s + CallLifetime
                      \/ jobs'[j].wait \in WindowReasons
  BY <1>1 DEF Waits
<1>3. r[2] = Len(attempts[j])
  BY <1>2, LiveCall, SameLength
<1>4. r \in alive
  <2>1. ASSUME r \notin alive PROVE FALSE
    <3>1. IsOpen(Row(r)) /\ UNCHANGED jobs /\ r \in Rows
      BY <2>1, LiveCall DEF vars
    <3>2. jobs[j].state = "running"
      BY <3>1, RowType DEF IInv, OpenAttemptHeld, Row
    <3> QED
      BY <1>2, <3>1, <3>2
  <2> QED
    BY <2>1
<1>5. CASE RetryJob(j, now)
  <2>1. jobs[j].state = "retryable_failure" => jobs'[j].retryAt = now
    BY <1>5 DEF RetryJob, IInv, TypeOK, Job
  <2>2. jobs[j].state = "pending" => jobs'[j].state = "pending"
    <3>1. jobs[j] \in Job
      BY DEF IInv, TypeOK
    <3>2. jobs[j].state = "pending" => jobs'[j] = [jobs[j] EXCEPT !.wait = None, !.retryAt = None]
      BY <1>5 DEF RetryJob, IInv, TypeOK
    <3> QED
      BY <3>1, <3>2 DEF Job
  <2>3. jobs[j].state \in {"pending", "retryable_failure"}
    BY <1>5 DEF RetryJob
  <2> QED
    BY <1>1, <1>2, <2>1, <2>2, <2>3
<1>6. CASE SameDate(j)
  <2>1. jobs'[j].retryAt \in Nat
    BY <1>2, <1>6 DEF SameDate, JobInv, Scheduled
  <2>2. Waits(r)
    BY <1>4
  <2> QED
    BY <1>1, <1>2, <1>3, <1>6, <2>1, <2>2 DEF Waits, SameDate
<1>7. CASE GivenBack(j)
  BY <1>2, <1>7 DEF GivenBack
<1>8. CASE SettledDate(j)
  <2>1. r = <<j, Len(attempts[j])>>
    BY <1>3, LiveCall
  <2> QED
    BY <1>1, <1>2, <1>8, <2>1 DEF SettledDate
<1>9. ~Undated(j)
  BY <1>2 DEF Undated
<1> QED
  BY <1>5, <1>6, <1>7, <1>8, <1>9, WorkerDates DEF Dates

\* The job of a call that may still be spending comes due only because a person
\* asks: no backoff, recovery or restart makes way for a replacement beside it.
THEOREM ReplacedIfAsked == WorkerSpec => ReplacedOnlyIfAsked
<1> DEFINE Inv == IInv /\ JobInv /\ WorkerInv
<1>1. WorkerInit => Inv
  BY InitIInv, InitJobInv, InitKnows DEF WorkerInit, WorkerInv
<1>2. Inv /\ [WorkerNext]_allVars => Inv'
  BY WorkerImplements, WorkerKnows, NextIInv, NextJobInv, WaitsKept DEF WorkerInv
<1>3. ASSUME IInv, JobInv, WorkerInv, [WorkerNext]_allVars,
             NEW r \in alive \cap alive', NEW j \in Jobs, j = r[1], r[2] = Len(attempts[j]),
             IsOpen(Row(r)) \/ jobs[j].state = "retryable_failure", ~Due(j), Due(j)'
      PROVE  RetryJob(j, now) \/ jobs[j].wait \in WindowReasons
  <2> PICK s \in Nat : s = Row(r).startedAt
    BY <1>3, LiveCall DEF WorkerInv
  <2>1. /\ s <= now /\ now \in Nat /\ now' \in Nat /\ now' >= now /\ now' < s + CallLifetime
        /\ CallLifetime \in Nat \ {0} /\ r \in Rows /\ r = <<j, Len(attempts[j])>>
    BY <1>3, LiveCall, TimeAssumption DEF WorkerInv
  <2>2. IsOpen(Row(r)) => jobs[j].state = "running" /\ HasOpenAttempt(j)
    <3>1. r[2] \in DOMAIN attempts[j]
      BY <1>3, <2>1, RowType DEF IInv
    <3> QED
      BY <1>3, <3>1 DEF IInv, OpenAttemptHeld, HasOpenAttempt, Row
  <2>3. jobs'[j].state # "running"
    BY <1>3 DEF Due
  <2>4. CASE SameDate(j)
    <3>1. jobs[j].state = "retryable_failure" /\ Waits(r) /\ Scheduled(jobs[j])
      BY <1>3, <2>2, <2>3, <2>4 DEF SameDate, WorkerInv, JobInv
    <3>2. jobs[j].retryAt \in Nat /\ ~(jobs[j].retryAt <= now) /\ jobs[j].retryAt <= now'
      BY <1>3, <2>4, <3>1 DEF Due, SameDate, Scheduled
    <3> QED
      BY <1>3, <2>1, <3>1, <3>2 DEF Waits
  <2>5. CASE SettledDate(j)
    BY <1>3, <2>1, <2>5 DEF SettledDate, Due
  <2>6. ~GivenBack(j) /\ ~Undated(j)
    BY <1>3, <2>2, <2>3 DEF GivenBack, Undated
  <2> QED
    BY <1>3, <2>4, <2>5, <2>6, WorkerDates DEF Dates, WorkerInv
<1>4. Inv /\ [WorkerNext]_allVars =>
        [\A r \in alive \cap alive' :
           LET j == r[1]
           IN /\ r[2] = Len(attempts[j]) /\ (IsOpen(Row(r)) \/ jobs[j].state = "retryable_failure")
              /\ ~Due(j) /\ Due(j)'
              => RetryJob(j, now) \/ jobs[j].wait \in WindowReasons]_allVars
  <2> SUFFICES ASSUME IInv, JobInv, WorkerInv, [WorkerNext]_allVars, NEW r \in alive \cap alive'
               PROVE  /\ r[2] = Len(attempts[r[1]])
                      /\ IsOpen(Row(r)) \/ jobs[r[1]].state = "retryable_failure"
                      /\ ~Due(r[1]) /\ Due(r[1])'
                      => RetryJob(r[1], now) \/ jobs[r[1]].wait \in WindowReasons
    OBVIOUS
  <2>1. r[1] \in Jobs
    BY LiveCall DEF WorkerInv
  <2> QED
    BY <1>3, <2>1
<1> HIDE DEF Inv
<1> QED
  BY <1>1, <1>2, <1>4, PTL DEF WorkerSpec, ReplacedOnlyIfAsked
=============================================================================
