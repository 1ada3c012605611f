------------------------ MODULE ProcessingQueueProofs ------------------------
(***************************************************************************)
(* Theorems about ProcessingQueue, for every value of its constants.       *)
(*                                                                         *)
(* IInv is inductive by itself: types, that one job runs at a time, that   *)
(* an unsettled attempt keeps its job from everybody but its own           *)
(* generation, and that no reservation is stranded.  What a step may do to *)
(* one job (Moves) then gives what jobs keep of their allowances, units    *)
(* and dates (JobInv) and what a superseded owner can change; what it may  *)
(* do to the rows as a whole gives the two windows (WindowInv, SpendInv).  *)
(***************************************************************************)
EXTENDS ProcessingQueue, SequenceTheorems, FiniteSetTheorems, TLAPS

\* The invariant is inductive only as a whole: that an open attempt is its
\* job's latest, for one, is what makes settling it leave no other open.
IInv == TypeOK /\ OneRunning /\ OpenAttemptHeld /\ NoStrandedHold

-----------------------------------------------------------------------------
(* Rows and their types.                                                   *)

LEMMA AttemptsType ==
  ASSUME TypeOK, NEW j \in Jobs
  PROVE  /\ attempts[j] \in Seq(Attempt)
         /\ Len(attempts[j]) \in Nat
         /\ DOMAIN attempts[j] = 1..Len(attempts[j])
         /\ \A k \in DOMAIN attempts[j] : attempts[j][k] \in Attempt
<1>1. attempts[j] \in Seq(Attempt)
  BY DEF TypeOK
<1>2. Len(attempts[j]) \in Nat /\ DOMAIN attempts[j] = 1..Len(attempts[j])
  BY <1>1, LenProperties
<1>3. \A k \in DOMAIN attempts[j] : attempts[j][k] \in Attempt
  BY <1>1, <1>2, ElementOfSeq
<1> QED
  BY <1>1, <1>2, <1>3

LEMMA FreedType ==
  ASSUME NEW job \in Job, NEW s \in JobStates,
         NEW wait \in Maybe(WaitReasons), NEW retryAt \in Maybe(Nat)
  PROVE  /\ Freed(job, s, wait, retryAt) \in Job
         /\ Freed(job, s, wait, retryAt).state = s
         /\ Freed(job, s, wait, retryAt).claim = None
BY DEF Freed, Job, Maybe

\* Readings of a clock are natural numbers.
LEMMA ClockType ==
  ASSUME TypeOK PROVE Clock \subseteq Nat
BY TimeAssumption DEF TypeOK, Clock

LEMMA RefusalType ==
  ASSUME NEW t PROVE Refusal(t) \in Maybe(WaitReasons)
BY DEF Refusal, Maybe, WaitReasons, WindowReasons

-----------------------------------------------------------------------------
(* What steps of each shape preserve.                                      *)

\* A step that adds and changes no attempt, and hands back or leaves alone the
\* running job, keeps the invariant.
LEMMA JobsStep ==
  ASSUME IInv, UNCHANGED attempts,
         now' \in Nat, lease' \in Lease, paused' \in BOOLEAN,
         jobs' \in [Jobs -> Job],
         \A j \in Jobs :
           \/ jobs'[j].state = jobs[j].state /\ jobs'[j].claim = jobs[j].claim
           \/ /\ jobs'[j].state # "running" /\ jobs'[j].claim = None
              /\ ~HasOpenAttempt(j)
  PROVE  IInv'
<1>1. TypeOK'
  BY DEF IInv, TypeOK
<1>2. OneRunning'
  BY DEF IInv, OneRunning
<1>3. OpenAttemptHeld'
  BY DEF IInv, OpenAttemptHeld, HasOpenAttempt, IsOpen
<1>4. NoStrandedHold'
  BY DEF IInv, NoStrandedHold, IsOpen
<1> QED
  BY <1>1, <1>2, <1>3, <1>4 DEF IInv

\* So does one that rewrites an attempt without ending or reviving it.
LEMMA AttemptRewritten ==
  ASSUME IInv, UNCHANGED <<now, lease, jobs, paused>>,
         NEW j \in Jobs, NEW k \in DOMAIN attempts[j], NEW a \in Attempt,
         attempts' = [attempts EXCEPT ![j] = [@ EXCEPT ![k] = a]],
         a.outcome = attempts[j][k].outcome, a.gen = attempts[j][k].gen,
         a.usage = "reserved" => IsOpen(a)
  PROVE  IInv'
<1> USE DEF IInv
<1>1. /\ [attempts[j] EXCEPT ![k] = a] \in Seq(Attempt)
      /\ Len([attempts[j] EXCEPT ![k] = a]) = Len(attempts[j])
      /\ \A l \in 1..Len(attempts[j]) :
           [attempts[j] EXCEPT ![k] = a][l] = IF l = k THEN a ELSE attempts[j][l]
  BY AttemptsType, ExceptSeq
<1>2. attempts' \in [Jobs -> Seq(Attempt)]
  BY <1>1 DEF TypeOK
<1>3. TypeOK'
  BY <1>2 DEF TypeOK
<1>4. \A i \in Jobs :
        /\ DOMAIN attempts'[i] = DOMAIN attempts[i]
        /\ Len(attempts'[i]) = Len(attempts[i])
        /\ \A l \in DOMAIN attempts[i] :
             attempts'[i][l] = IF i = j /\ l = k THEN a ELSE attempts[i][l]
  BY <1>1, AttemptsType DEF TypeOK
<1>5. OneRunning'
  BY DEF OneRunning
<1>6. OpenAttemptHeld'
  BY <1>4 DEF OpenAttemptHeld, IsOpen
<1>7. NoStrandedHold'
  BY <1>4 DEF NoStrandedHold, IsOpen
<1> QED
  BY <1>3, <1>5, <1>6, <1>7

-----------------------------------------------------------------------------
(* The operations that add and change no attempt.                          *)

LEMMA LeaseOperations ==
  ASSUME IInv, NEW o \in Owners, NEW g \in Nat, NEW t \in Nat,
         TakeLease(o, t) \/ RenewLease(o, g, t) \/ ReleaseLease(o, g)
  PROVE  IInv'
<1>1. lease \in Lease /\ now \in Nat /\ paused \in BOOLEAN /\ jobs \in [Jobs -> Job]
  BY DEF IInv, TypeOK
<1>2. t + LeaseTerm \in Nat
  BY TimeAssumption
<1>3. lease' \in Lease
  <2>1. CASE TakeLease(o, t)
    BY <1>1, <1>2, <2>1 DEF TakeLease, Lease, Maybe
  <2>2. CASE RenewLease(o, g, t)
    BY <1>1, <1>2, <2>2 DEF RenewLease, Lease, Maybe
  <2>3. CASE ReleaseLease(o, g)
    BY <1>1, <2>3 DEF ReleaseLease, Lease, Maybe
  <2> QED
    BY <2>1, <2>2, <2>3
<1>4. UNCHANGED <<now, jobs, attempts, paused>>
  BY DEF TakeLease, RenewLease, ReleaseLease
<1> QED
  BY <1>1, <1>3, <1>4, JobsStep

\* A job handed back while no attempt of it is open.
LEMMA HandedBack ==
  ASSUME IInv, UNCHANGED <<now, lease, attempts, paused>>,
         NEW j \in Jobs, ~HasOpenAttempt(j),
         NEW s \in JobStates \ {"running"},
         NEW wait \in Maybe(WaitReasons), NEW retryAt \in Maybe(Nat),
         jobs' = [jobs EXCEPT ![j] = Freed(jobs[j], s, wait, retryAt)]
  PROVE  IInv'
<1>1. now \in Nat /\ lease \in Lease /\ paused \in BOOLEAN /\ jobs \in [Jobs -> Job]
  BY DEF IInv, TypeOK
<1>2. /\ Freed(jobs[j], s, wait, retryAt) \in Job
      /\ Freed(jobs[j], s, wait, retryAt).state = s
      /\ Freed(jobs[j], s, wait, retryAt).claim = None
  BY <1>1, FreedType
<1>3. jobs' \in [Jobs -> Job]
  BY <1>1, <1>2
<1>4. \A i \in Jobs : jobs'[i] = IF i = j THEN Freed(jobs[j], s, wait, retryAt) ELSE jobs[i]
  BY <1>1
<1> QED
  BY <1>1, <1>2, <1>3, <1>4, JobsStep

LEMMA ParkJobStep ==
  ASSUME IInv, NEW g \in Nat, NEW j \in Jobs, NEW wait \in Maybe(ParkReasons),
         ParkJob(g, j, wait)
  PROVE  IInv'
<1>1. wait \in Maybe(WaitReasons) /\ None \in Maybe(Nat) /\ "pending" \in JobStates \ {"running"}
  BY DEF Maybe, WaitReasons, JobStates
<1> QED
  BY <1>1, HandedBack DEF ParkJob, Holds

LEMMA SettleExhaustedJobStep ==
  ASSUME IInv, NEW g \in Nat, NEW j \in Jobs, NEW configured,
         SettleExhaustedJob(g, j, configured)
  PROVE  IInv'
<1>1. /\ None \in Maybe(WaitReasons) /\ None \in Maybe(Nat)
      /\ "terminal_failure" \in JobStates \ {"running"}
  BY DEF Maybe, JobStates
<1> QED
  BY <1>1, HandedBack DEF SettleExhaustedJob, Holds

LEMMA UnparkJobsStep ==
  ASSUME IInv, NEW g \in Nat, NEW reasons, UnparkJobs(g, reasons)
  PROVE  IInv'
<1>1. now \in Nat /\ lease \in Lease /\ paused \in BOOLEAN /\ jobs \in [Jobs -> Job]
  BY DEF IInv, TypeOK
<1>2. \A j \in Jobs :
        /\ [jobs[j] EXCEPT !.wait = None] \in Job
        /\ [jobs[j] EXCEPT !.wait = None].state = jobs[j].state
        /\ [jobs[j] EXCEPT !.wait = None].claim = jobs[j].claim
  BY <1>1 DEF Job, Maybe
<1>3. \A j \in Jobs : jobs'[j] = jobs[j] \/ jobs'[j] = [jobs[j] EXCEPT !.wait = None]
  BY DEF UnparkJobs
<1>4. jobs' \in [Jobs -> Job]
  BY <1>1, <1>2 DEF UnparkJobs
<1>5. UNCHANGED <<now, lease, attempts, paused>>
  BY DEF UnparkJobs
<1> QED
  BY <1>1, <1>2, <1>3, <1>4, <1>5, JobsStep

\* A person's act leaves alone what claims the job.
LEMMA PersonStepPreserves ==
  ASSUME IInv, NEW j \in Jobs, NEW t \in Nat, PersonStep(j, t)
  PROVE  IInv'
<1>1. /\ now \in Nat /\ lease \in Lease /\ paused \in BOOLEAN /\ jobs \in [Jobs -> Job]
      /\ jobs[j] \in Job /\ ((jobs[j].state = "running") <=> (jobs[j].claim # None))
  BY DEF IInv, TypeOK, OneRunning
<1>2. /\ UNCHANGED <<now, lease, attempts, paused>>
      /\ \E job \in Job : /\ jobs' = [jobs EXCEPT ![j] = job]
                          /\ job.claim = jobs[j].claim
                          /\ job.state # jobs[j].state =>
                               job.state # "running" /\ jobs[j].state # "running"
  <2>1. CASE AdmitJob(j, t)
    <3> DEFINE job == [AbsentJob EXCEPT !.state = "pending", !.admittedAt = t]
    <3>1. job \in Job /\ job.claim = None /\ job.state = "pending"
      BY DEF AbsentJob, Job, Maybe, JobStates
    <3>2. jobs[j].claim = None /\ jobs[j].state = "absent"
      BY <1>1, <2>1 DEF AdmitJob
    <3> QED
      BY <2>1, <3>1, <3>2 DEF AdmitJob
  <2>2. CASE RetryJob(j, t)
    <3>1. CASE jobs[j].state = "pending"
      <4> DEFINE job == [jobs[j] EXCEPT !.wait = None, !.retryAt = None]
      <4>1. job \in Job /\ job.claim = jobs[j].claim /\ job.state = jobs[j].state
        BY <1>1 DEF Job, Maybe
      <4> QED
        BY <2>2, <3>1, <4>1 DEF RetryJob
    <3>2. CASE jobs[j].state = "retryable_failure"
      <4> DEFINE job == [jobs[j] EXCEPT !.retryAt = t]
      <4>1. job \in Job /\ job.claim = jobs[j].claim /\ job.state = jobs[j].state
        BY <1>1 DEF Job, Maybe
      <4>2. jobs' = [jobs EXCEPT ![j] = job]
        BY <2>2, <3>2 DEF RetryJob
      <4> QED
        BY <2>2, <4>1, <4>2 DEF RetryJob
    <3> QED
      BY <2>2, <3>1, <3>2 DEF RetryJob
  <2>3. CASE \E approved \in AttemptLimits : ReopenJob(j, jobs[j].reopenings, approved)
    <3>1. PICK approved \in AttemptLimits : ReopenJob(j, jobs[j].reopenings, approved)
      BY <2>3
    <3> DEFINE job == [jobs[j] EXCEPT
                  !.state = "pending", !.wait = None, !.retryAt = None,
                  !.reopenings = jobs[j].reopenings + 1, !.before = Len(attempts[j]),
                  !.allowed = approved]
    <3>2. jobs[j].reopenings + 1 \in Nat /\ Len(attempts[j]) \in Nat /\ approved \in Nat
      BY <1>1, AttemptsType, LimitAssumption DEF IInv, Job
    <3>3. job \in Job /\ job.claim = jobs[j].claim /\ job.state = "pending"
      BY <1>1, <3>2 DEF Job, Maybe, JobStates
    <3> QED
      BY <3>1, <3>3 DEF ReopenJob
  <2>4. CASE ConfirmModel(j, jobs[j].confirmations)
    <3> DEFINE job == IF jobs[j].wait = "model_reconfirmation_required"
                      THEN [jobs[j] EXCEPT !.confirmations = jobs[j].confirmations + 1,
                                           !.wait = None, !.retryAt = None]
                      ELSE [jobs[j] EXCEPT !.confirmations = jobs[j].confirmations + 1]
    <3>1. jobs[j].confirmations + 1 \in Nat
      BY <1>1 DEF Job
    <3>2. job \in Job /\ job.claim = jobs[j].claim /\ job.state = jobs[j].state
      BY <1>1, <3>1 DEF Job, Maybe
    <3> QED
      BY <2>4, <3>2 DEF ConfirmModel
  <2> QED
    BY <2>1, <2>2, <2>3, <2>4 DEF PersonStep
<1>3. PICK job \in Job :
        /\ jobs' = [jobs EXCEPT ![j] = job]
        /\ job.claim = jobs[j].claim
        /\ job.state # jobs[j].state => job.state # "running" /\ jobs[j].state # "running"
  BY <1>2
<1>4. jobs' \in [Jobs -> Job] /\ \A i \in Jobs : jobs'[i] = IF i = j THEN job ELSE jobs[i]
  BY <1>1, <1>3
<1>5. jobs[j].state # "running" => ~HasOpenAttempt(j)
  BY DEF IInv, OpenAttemptHeld, HasOpenAttempt, IsOpen
<1> QED
  BY <1>1, <1>2, <1>3, <1>4, <1>5, JobsStep

-----------------------------------------------------------------------------
(* Claiming, and the operations on attempts.                               *)

LEMMA ClaimJobStep ==
  ASSUME IInv, NEW g \in Nat, NEW j \in Jobs, NEW t \in Nat, ClaimJob(g, j, t)
  PROVE  IInv'
<1>1. jobs \in [Jobs -> Job] /\ UNCHANGED <<now, lease, attempts, paused>>
  BY DEF IInv, TypeOK, ClaimJob
<1> DEFINE job == [jobs[j] EXCEPT !.state = "running", !.claim = g,
                                  !.wait = None, !.retryAt = None]
<1>2. job \in Job /\ job.state = "running" /\ job.claim = g /\ g # None
  <2>1. jobs[j] \in Job
    BY <1>1
  <2>2. job \in Job /\ job.state = "running" /\ job.claim = g
    BY <2>1 DEF Job, Maybe, JobStates
  <2> QED
    BY <2>2, JobsAssumption
<1>3. jobs' = [jobs EXCEPT ![j] = job]
  BY DEF ClaimJob
<1> HIDE DEF job
<1>4. jobs' \in [Jobs -> Job] /\ \A i \in Jobs : jobs'[i] = IF i = j THEN job ELSE jobs[i]
  BY <1>1, <1>2, <1>3
<1>5. TypeOK'
  BY <1>1, <1>4 DEF IInv, TypeOK
<1>6. OneRunning'
  BY <1>2, <1>4 DEF IInv, OneRunning, ClaimJob
<1>7. \A i \in Jobs : ~HasOpenAttempt(i)
  BY DEF IInv, OpenAttemptHeld, HasOpenAttempt, ClaimJob
<1>8. OpenAttemptHeld'
  BY <1>1, <1>7 DEF OpenAttemptHeld, HasOpenAttempt, IsOpen
<1>9. NoStrandedHold'
  BY <1>1 DEF IInv, NoStrandedHold, IsOpen
<1> QED
  BY <1>5, <1>6, <1>8, <1>9 DEF IInv

LEMMA NewAttemptType ==
  ASSUME NEW g \in Nat, NEW t \in Nat, NEW call \in BOOLEAN, NEW unit \in Maybe(Nat)
  PROVE  /\ NewAttempt(g, t, call, unit) \in Attempt
         /\ NewAttempt(g, t, call, unit).gen = g
BY DEF NewAttempt, Attempt, Maybe

LEMMA StartAttemptStep ==
  ASSUME IInv, NEW g \in Nat, NEW j \in Jobs, NEW configured, NEW c,
         NEW call \in BOOLEAN, NEW unit \in Maybe(Nat), NEW t \in Nat,
         StartAttempt(g, j, configured, c, call, unit, t)
  PROVE  IInv'
<1>1. /\ Holds(g, j) /\ ~HasOpenAttempt(j) /\ jobs[j].state = "running" /\ jobs[j].claim = g
      /\ UNCHANGED <<now, lease, paused>>
  BY DEF StartAttempt, Holds
<1>2. CASE /\ jobs' = [jobs EXCEPT ![j] = Freed(jobs[j], "terminal_failure", None, None)]
           /\ UNCHANGED attempts
  <2>1. /\ None \in Maybe(WaitReasons) /\ None \in Maybe(Nat)
        /\ "terminal_failure" \in JobStates \ {"running"}
    BY DEF Maybe, JobStates
  <2> QED
    BY <1>1, <1>2, <2>1, HandedBack
<1>3. CASE /\ \E r \in Oldest(t, RefusingSpan(t)) :
                jobs' = [jobs EXCEPT ![j] = Freed(jobs[j], "retryable_failure", Refusal(t),
                                                  Row(r).startedAt + RefusingSpan(t))]
           /\ UNCHANGED attempts
  <2>1. PICK r \in Oldest(t, RefusingSpan(t)) :
               jobs' = [jobs EXCEPT ![j] = Freed(jobs[j], "retryable_failure", Refusal(t),
                                                 Row(r).startedAt + RefusingSpan(t))]
    BY <1>3
  <2>2. r \in Rows
    BY DEF Oldest, InWindow
  <2>3. PICK i \in Jobs : r \in {i} \X DOMAIN attempts[i]
    BY <2>2 DEF Rows
  <2>4. Row(r) \in Attempt
    BY <2>3, AttemptsType DEF IInv, Row
  <2>5. Row(r).startedAt + RefusingSpan(t) \in Maybe(Nat)
    BY <2>4, LimitAssumption DEF RefusingSpan, Attempt, Maybe
  <2>6. Refusal(t) \in Maybe(WaitReasons) /\ "retryable_failure" \in JobStates \ {"running"}
    BY RefusalType DEF JobStates
  <2> QED
    BY <1>1, <1>3, <2>1, <2>5, <2>6, HandedBack
<1>4. CASE attempts' = [attempts EXCEPT ![j] = Append(@, NewAttempt(g, t, call, unit))]
           /\ UNCHANGED jobs
  <2> DEFINE a == NewAttempt(g, t, call, unit)
  <2>1. a \in Attempt /\ a.gen = g
    BY NewAttemptType
  <2>2. IsOpen(a)
    BY DEF NewAttempt, IsOpen
  <2> HIDE DEF a
  <2>3. /\ attempts[j] \in Seq(Attempt) /\ Len(attempts[j]) \in Nat
        /\ DOMAIN attempts[j] = 1..Len(attempts[j])
    BY AttemptsType DEF IInv
  <2>4. /\ Append(attempts[j], a) \in Seq(Attempt)
        /\ Len(Append(attempts[j], a)) = Len(attempts[j]) + 1
        /\ \A k \in 1..Len(attempts[j]) : Append(attempts[j], a)[k] = attempts[j][k]
        /\ Append(attempts[j], a)[Len(attempts[j]) + 1] = a
        /\ DOMAIN Append(attempts[j], a) = 1..(Len(attempts[j]) + 1)
    BY <2>1, <2>3, AppendProperties, LenProperties
  <2>5. attempts \in [Jobs -> Seq(Attempt)]
    BY DEF IInv, TypeOK
  <2>6. attempts' = [attempts EXCEPT ![j] = Append(attempts[j], a)]
    BY <1>4 DEF a
  <2>7. /\ attempts' \in [Jobs -> Seq(Attempt)]
        /\ attempts'[j] = Append(attempts[j], a)
        /\ \A i \in Jobs \ {j} : attempts'[i] = attempts[i]
    BY <2>4, <2>5, <2>6
  <2>8. TypeOK'
    BY <1>1, <1>4, <2>7 DEF IInv, TypeOK
  <2>9. OneRunning'
    BY <1>4 DEF IInv, OneRunning
  <2>10. OpenAttemptHeld'
    <3> SUFFICES ASSUME NEW i \in Jobs, NEW k \in DOMAIN attempts'[i], IsOpen(attempts'[i][k])
                 PROVE  /\ k = Len(attempts'[i])
                        /\ jobs[i].state = "running" /\ jobs[i].claim = attempts'[i][k].gen
      BY <1>4 DEF OpenAttemptHeld, IsOpen
    <3>1. CASE i # j
      BY <2>7, <3>1 DEF IInv, OpenAttemptHeld
    <3>2. CASE i = j
      <4>1. k \in 1..(Len(attempts[j]) + 1)
        BY <2>4, <2>7, <3>2
      <4>2. ~(k \in 1..Len(attempts[j]))
        BY <1>1, <2>3, <2>4, <2>7, <3>2 DEF HasOpenAttempt
      <4>3. k = Len(attempts[j]) + 1
        BY <2>3, <4>1, <4>2
      <4> QED
        BY <1>1, <2>1, <2>4, <2>7, <3>2, <4>3
    <3> QED
      BY <3>1, <3>2
  <2>11. NoStrandedHold'
    <3> SUFFICES ASSUME NEW i \in Jobs, NEW k \in DOMAIN attempts'[i],
                        attempts'[i][k].usage = "reserved"
                 PROVE  IsOpen(attempts'[i][k])
      BY DEF NoStrandedHold, IsOpen
    <3>1. CASE i # j
      BY <2>7, <3>1 DEF IInv, NoStrandedHold
    <3>2. CASE i = j /\ k \in 1..Len(attempts[j])
      BY <2>3, <2>4, <2>7, <3>2 DEF IInv, NoStrandedHold
    <3>3. CASE i = j /\ k = Len(attempts[j]) + 1
      BY <2>2, <2>4, <2>7, <3>3
    <3>4. i = j => k \in 1..Len(attempts[j]) \/ k = Len(attempts[j]) + 1
      BY <2>3, <2>4, <2>7
    <3> QED
      BY <3>1, <3>2, <3>3, <3>4
  <2> QED
    BY <2>8, <2>9, <2>10, <2>11 DEF IInv
<1> QED
  BY <1>2, <1>3, <1>4 DEF StartAttempt

LEMMA RecordProcessStep ==
  ASSUME IInv, NEW g \in Nat, NEW j \in Jobs, NEW k \in DOMAIN attempts[j],
         RecordProcess(g, j, k)
  PROVE  IInv'
<1> DEFINE a == [attempts[j][k] EXCEPT !.process = TRUE]
<1>1. attempts[j][k] \in Attempt
  BY AttemptsType DEF IInv
<1>2. /\ a \in Attempt /\ a.outcome = attempts[j][k].outcome
      /\ a.gen = attempts[j][k].gen /\ a.outcome = "open"
  BY <1>1 DEF Attempt, RecordProcess, IsOpen
<1>3. /\ attempts' = [attempts EXCEPT ![j] = [@ EXCEPT ![k] = a]]
      /\ UNCHANGED <<now, lease, jobs, paused>>
  BY DEF RecordProcess
<1>4. IsOpen(a)
  BY <1>2 DEF IsOpen
<1> HIDE DEF a
<1> QED
  BY <1>2, <1>3, <1>4, AttemptRewritten

LEMMA SettleCallStep ==
  ASSUME IInv, NEW g \in Nat, NEW j \in Jobs, NEW k \in DOMAIN attempts[j],
         NEW ended \in {"settled", "unknown", "released"}, NEW cost \in Maybe(Nat),
         SettleCall(g, j, k, ended, cost)
  PROVE  IInv'
<1> DEFINE a == [attempts[j][k] EXCEPT !.usage = ended, !.cost = cost]
<1>1. attempts[j][k] \in Attempt
  BY AttemptsType DEF IInv
<1>2. /\ a \in Attempt /\ a.outcome = attempts[j][k].outcome
      /\ a.gen = attempts[j][k].gen /\ a.usage # "reserved"
  BY <1>1 DEF Attempt
<1>3. /\ attempts' = [attempts EXCEPT ![j] = [@ EXCEPT ![k] = a]]
      /\ UNCHANGED <<now, lease, jobs, paused>>
  BY DEF SettleCall
<1> HIDE DEF a
<1> QED
  BY <1>2, <1>3, AttemptRewritten

\* An attempt that ends with its reservation ended is its job's only open one,
\* so its job can be handed back.
LEMMA SettleStep ==
  ASSUME IInv, NEW g \in Nat, NEW j \in Jobs, NEW k \in DOMAIN attempts[j],
         NEW outcome \in {"succeeded", "failed", "unknown"}, NEW receipt \in BOOLEAN,
         NEW s \in JobStates \ {"running"},
         NEW wait \in Maybe(WaitReasons), NEW retryAt \in Maybe(Nat),
         Settle(g, j, k, outcome, receipt, Freed(jobs[j], s, wait, retryAt))
  PROVE  IInv'
<1> DEFINE a == [attempts[j][k] EXCEPT !.outcome = outcome, !.receipt = receipt]
           job == Freed(jobs[j], s, wait, retryAt)
<1>1. /\ attempts[j][k] \in Attempt /\ jobs[j] \in Job /\ jobs \in [Jobs -> Job]
      /\ attempts \in [Jobs -> Seq(Attempt)]
  BY AttemptsType DEF IInv, TypeOK
<1>2. a \in Attempt /\ ~IsOpen(a) /\ a.usage = attempts[j][k].usage /\ a.usage # "reserved"
  BY <1>1 DEF Attempt, IsOpen, Settle
<1>3. job \in Job /\ job.state # "running" /\ job.claim = None
  BY <1>1, FreedType
<1>4. /\ attempts' = [attempts EXCEPT ![j] = [attempts[j] EXCEPT ![k] = a]]
      /\ jobs' = [jobs EXCEPT ![j] = job]
      /\ UNCHANGED <<now, lease, paused>>
      /\ IsOpen(attempts[j][k])
  BY DEF Settle
<1> HIDE DEF a, job
<1>5. /\ [attempts[j] EXCEPT ![k] = a] \in Seq(Attempt)
      /\ Len([attempts[j] EXCEPT ![k] = a]) = Len(attempts[j])
      /\ \A l \in 1..Len(attempts[j]) :
           [attempts[j] EXCEPT ![k] = a][l] = IF l = k THEN a ELSE attempts[j][l]
  BY <1>2, AttemptsType, ExceptSeq DEF IInv
<1>6. \A i \in Jobs :
        /\ jobs'[i] = IF i = j THEN job ELSE jobs[i]
        /\ DOMAIN attempts'[i] = DOMAIN attempts[i] /\ Len(attempts'[i]) = Len(attempts[i])
        /\ \A l \in DOMAIN attempts[i] :
             attempts'[i][l] = IF i = j /\ l = k THEN a ELSE attempts[i][l]
  BY <1>1, <1>4, <1>5, AttemptsType DEF IInv
<1>7. TypeOK'
  BY <1>1, <1>3, <1>4, <1>5 DEF IInv, TypeOK
<1>8. OneRunning'
  BY <1>3, <1>6 DEF IInv, OneRunning
<1>9. \A l \in DOMAIN attempts[j] : IsOpen(attempts[j][l]) => l = k
  BY <1>4 DEF IInv, OpenAttemptHeld
<1>10. OpenAttemptHeld'
  BY <1>2, <1>6, <1>9 DEF IInv, OpenAttemptHeld, IsOpen
<1>11. NoStrandedHold'
  BY <1>2, <1>6 DEF IInv, NoStrandedHold, IsOpen
<1> QED
  BY <1>7, <1>8, <1>10, <1>11 DEF IInv

LEMMA AttemptStepPreserves ==
  ASSUME IInv, NEW g \in Nat, NEW j \in Jobs, NEW k \in DOMAIN attempts[j], NEW t \in Nat,
         AttemptStep(g, j, k, t)
  PROVE  IInv'
<1> USE DEF Maybe
<1>1. /\ t + RetryDelay \in Nat /\ t + CallLifetime \in Nat /\ ReportedCosts \subseteq Nat
  BY TimeAssumption, LimitAssumption
<1>2. /\ "completed" \in JobStates \ {"running"}
      /\ "terminal_failure" \in JobStates \ {"running"}
      /\ "retryable_failure" \in JobStates \ {"running"}
  BY DEF JobStates
<1>3. {"call_failed", "call_result_unknown", "source_unit_pending"} \subseteq WaitReasons
  BY DEF WaitReasons, FailureReasons
<1>4. CASE RecordProcess(g, j, k)
  BY <1>4, RecordProcessStep
<1>5. CASE \E c \in Maybe(ReportedCosts) : SettleCall(g, j, k, "settled", c)
  BY <1>1, <1>5, SettleCallStep
<1>6. CASE \E ended \in {"unknown", "released"} : SettleCall(g, j, k, ended, None)
  BY <1>6, SettleCallStep
<1>7. CASE SettleSucceeded(g, j, k)
  BY <1>2, <1>7, SettleStep DEF SettleSucceeded
<1>8. CASE SettleTerminal(g, j, k)
  BY <1>2, <1>8, SettleStep DEF SettleTerminal
<1>9. CASE SettleRetryable(g, j, k, "call_failed", t + RetryDelay)
  BY <1>1, <1>2, <1>3, <1>9, SettleStep DEF SettleRetryable
<1>10. CASE SettleUnknown(g, j, k, t + CallLifetime)
  BY <1>1, <1>2, <1>3, <1>10, SettleStep DEF SettleUnknown
<1>11. CASE PublishUnit(g, j, k, t)
  <2>1. CASE Settle(g, j, k, "succeeded", TRUE, Freed(jobs[j], "completed", None, None))
    BY <1>2, <2>1, SettleStep
  <2>2. CASE Settle(g, j, k, "failed", TRUE,
                    Freed(jobs[j], "retryable_failure", "source_unit_pending", t))
    BY <1>2, <1>3, <2>2, SettleStep
  <2> QED
    BY <1>11, <2>1, <2>2 DEF PublishUnit
<1> QED
  BY <1>4, <1>5, <1>6, <1>7, <1>8, <1>9, <1>10, <1>11 DEF AttemptStep

-----------------------------------------------------------------------------
(* Recovery.                                                               *)

\* What recovery makes of a job whose attempt it settled, and of one it reclaims.
LEMMA RecoveredType ==
  ASSUME NEW job \in Job, NEW retryAt \in Nat
  PROVE  /\ Freed(job, "retryable_failure", "call_result_unknown", retryAt) \in Job
         /\ Freed(job, "retryable_failure", "call_result_unknown", retryAt).state
              = "retryable_failure"
         /\ Freed(job, "retryable_failure", "call_result_unknown", retryAt).claim = None
         /\ Freed(job, "pending", None, None) \in Job
         /\ Freed(job, "pending", None, None).state = "pending"
         /\ Freed(job, "pending", None, None).claim = None
<1>1. /\ "retryable_failure" \in JobStates /\ "pending" \in JobStates
      /\ None \in Maybe(WaitReasons) /\ None \in Maybe(Nat) /\ retryAt \in Maybe(Nat)
      /\ "call_result_unknown" \in Maybe(WaitReasons)
  BY DEF JobStates, Maybe, WaitReasons, FailureReasons
<1>2. /\ Freed(job, "retryable_failure", "call_result_unknown", retryAt) \in Job
      /\ Freed(job, "retryable_failure", "call_result_unknown", retryAt).state
           = "retryable_failure"
      /\ Freed(job, "retryable_failure", "call_result_unknown", retryAt).claim = None
  BY <1>1, FreedType
<1>3. /\ Freed(job, "pending", None, None) \in Job
      /\ Freed(job, "pending", None, None).state = "pending"
      /\ Freed(job, "pending", None, None).claim = None
  BY <1>1, FreedType
<1> QED
  BY <1>2, <1>3

LEMMA RecoverStepPreserves ==
  ASSUME IInv, NEW g \in Nat, NEW gone, NEW t \in Nat, NEW retryAt \in Nat,
         Recover(g, gone, t, retryAt)
  PROVE  IInv'
<1> DEFINE settled(j) == {k \in DOMAIN attempts[j] : Settles(g, j, k, gone, t)}
           over(j, k) == [attempts[j][k] EXCEPT !.outcome = "unknown",
                            !.usage = IF @ = "reserved" THEN "unknown" ELSE @]
<1>1. /\ now \in Nat /\ lease \in Lease /\ paused \in BOOLEAN
      /\ jobs \in [Jobs -> Job] /\ UNCHANGED <<now, lease, paused>>
  BY DEF IInv, TypeOK, Recover
<1>2. \A j \in Jobs : \A k \in 1..Len(attempts[j]) :
        /\ over(j, k) \in Attempt /\ ~IsOpen(over(j, k)) /\ over(j, k).usage # "reserved"
        /\ over(j, k).gen = attempts[j][k].gen
  <2> SUFFICES ASSUME NEW j \in Jobs, NEW k \in 1..Len(attempts[j])
               PROVE  /\ over(j, k) \in Attempt /\ ~IsOpen(over(j, k))
                      /\ over(j, k).usage # "reserved"
                      /\ over(j, k).gen = attempts[j][k].gen
    OBVIOUS
  <2>1. attempts[j][k] \in Attempt
    BY AttemptsType DEF IInv
  <2> QED
    BY <2>1 DEF Attempt, IsOpen
<1>3. /\ attempts' = [j \in Jobs |-> [k \in DOMAIN attempts[j] |->
                        IF k \in settled(j) THEN over(j, k) ELSE attempts[j][k]]]
      /\ \A j \in Jobs : jobs'[j] =
           IF settled(j) # {}
           THEN Freed(jobs[j], "retryable_failure", "call_result_unknown", retryAt)
           ELSE IF /\ jobs[j].state = "running" /\ jobs[j].claim # g
                   /\ {k \in DOMAIN attempts[j] : IsOpen(attempts[j][k])} = {}
           THEN Freed(jobs[j], "pending", None, None)
           ELSE jobs[j]
      /\ jobs' = [j \in Jobs |-> jobs'[j]]
  BY DEF Recover
<1> HIDE DEF over
<1>4. \A j \in Jobs :
        /\ DOMAIN attempts'[j] = DOMAIN attempts[j]
        /\ Len(attempts'[j]) = Len(attempts[j])
        /\ attempts'[j] \in Seq(Attempt)
        /\ \A k \in DOMAIN attempts[j] : attempts'[j][k] =
             IF k \in settled(j) THEN over(j, k) ELSE attempts[j][k]
  <2> SUFFICES ASSUME NEW j \in Jobs
               PROVE  /\ DOMAIN attempts'[j] = DOMAIN attempts[j]
                      /\ Len(attempts'[j]) = Len(attempts[j])
                      /\ attempts'[j] \in Seq(Attempt)
                      /\ \A k \in DOMAIN attempts[j] : attempts'[j][k] =
                           IF k \in settled(j) THEN over(j, k) ELSE attempts[j][k]
    OBVIOUS
  <2>1. /\ DOMAIN attempts[j] = 1..Len(attempts[j]) /\ Len(attempts[j]) \in Nat
        /\ \A k \in 1..Len(attempts[j]) : attempts[j][k] \in Attempt
    BY AttemptsType DEF IInv
  <2>2. /\ DOMAIN attempts'[j] = 1..Len(attempts[j])
        /\ \A k \in 1..Len(attempts[j]) : attempts'[j][k] =
             IF k \in settled(j) THEN over(j, k) ELSE attempts[j][k]
        /\ attempts'[j] = [k \in 1..Len(attempts[j]) |->
             IF k \in settled(j) THEN over(j, k) ELSE attempts[j][k]]
    BY <1>3, <2>1
  <2>3. attempts'[j] \in [1..Len(attempts[j]) -> Attempt]
    BY <1>2, <2>1, <2>2
  <2>4. attempts'[j] \in Seq(Attempt)
    BY <2>1, <2>3, SeqDef
  <2>5. Len(attempts'[j]) = Len(attempts[j])
    BY <2>1, <2>2, <2>4, LenProperties
  <2> QED
    BY <2>1, <2>2, <2>4, <2>5
<1>5. \A j \in Jobs :
        /\ jobs'[j] \in Job
        /\ jobs'[j] = jobs[j] \/ (jobs'[j].state # "running" /\ jobs'[j].claim = None)
  <2> SUFFICES ASSUME NEW j \in Jobs
               PROVE  /\ jobs'[j] \in Job
                      /\ jobs'[j] = jobs[j] \/ (jobs'[j].state # "running" /\ jobs'[j].claim = None)
    OBVIOUS
  <2>1. jobs[j] \in Job
    BY <1>1
  <2> QED
    BY <1>3, <2>1, RecoveredType
<1>6. TypeOK'
  <2>1. jobs' \in [Jobs -> Job]
    BY <1>3, <1>5
  <2>2. attempts' \in [Jobs -> Seq(Attempt)]
    BY <1>3, <1>4
  <2> QED
    BY <1>1, <2>1, <2>2 DEF TypeOK
<1>7. OneRunning'
  BY <1>5 DEF IInv, OneRunning
\* What stays open was open: its job is neither settled nor reclaimed.
<1>8. \A j \in Jobs : \A k \in DOMAIN attempts[j] : IsOpen(attempts'[j][k]) =>
        k \notin settled(j) /\ IsOpen(attempts[j][k]) /\ k = Len(attempts[j])
  BY <1>2, <1>4, AttemptsType DEF IInv, OpenAttemptHeld
<1>9. \A j \in Jobs : \A k \in DOMAIN attempts[j] :
        IsOpen(attempts'[j][k]) => settled(j) = {}
  <2> SUFFICES ASSUME NEW j \in Jobs, NEW k \in DOMAIN attempts[j],
                      IsOpen(attempts'[j][k]), NEW l \in settled(j)
               PROVE  FALSE
    OBVIOUS
  <2>1. k \notin settled(j) /\ k = Len(attempts[j])
    BY <1>8
  <2>2. l \in DOMAIN attempts[j] /\ IsOpen(attempts[j][l])
    BY DEF Settles
  <2>3. l = Len(attempts[j])
    BY <2>2 DEF IInv, OpenAttemptHeld
  <2> QED
    BY <2>1, <2>3
<1>10. OpenAttemptHeld'
  <2> SUFFICES ASSUME NEW j \in Jobs, NEW k \in DOMAIN attempts[j], IsOpen(attempts'[j][k])
               PROVE  /\ k = Len(attempts'[j]) /\ jobs'[j].state = "running"
                      /\ jobs'[j].claim = attempts'[j][k].gen
    BY <1>4 DEF OpenAttemptHeld, IsOpen
  <2>1. IsOpen(attempts[j][k]) /\ k = Len(attempts[j]) /\ settled(j) = {}
    BY <1>8, <1>9
  <2>2. jobs'[j] = jobs[j]
    BY <1>3, <2>1
  <2>3. attempts'[j][k] = attempts[j][k]
    BY <1>4, <2>1
  <2> QED
    BY <1>4, <2>1, <2>2, <2>3 DEF IInv, OpenAttemptHeld
<1>11. NoStrandedHold'
  BY <1>2, <1>4, AttemptsType DEF IInv, NoStrandedHold, IsOpen
<1> QED
  BY <1>6, <1>7, <1>10, <1>11 DEF IInv

-----------------------------------------------------------------------------
(* The invariant.                                                          *)

LEMMA InitIInv == Init => IInv
<1> SUFFICES ASSUME Init PROVE IInv
  OBVIOUS
<1>1. AbsentJob \in Job /\ AbsentJob.state = "absent" /\ AbsentJob.claim = None
  BY DEF AbsentJob, Job, Maybe, JobStates
<1>2. /\ <<>> \in Seq(Attempt) /\ DOMAIN <<>> = {}
  BY EmptySeq
<1>3. TypeOK
  BY <1>1, <1>2 DEF Init, TypeOK, Lease, Maybe
<1>4. OneRunning
  BY <1>1 DEF Init, OneRunning
<1>5. OpenAttemptHeld /\ NoStrandedHold
  BY <1>2 DEF Init, OpenAttemptHeld, NoStrandedHold
<1> QED
  BY <1>3, <1>4, <1>5 DEF IInv

LEMMA JobStepPreserves ==
  ASSUME IInv, NEW g \in Nat, NEW j \in Jobs, NEW t \in Nat, JobStep(g, j, t)
  PROVE  IInv'
<1>1. CASE ClaimJob(g, j, t)
  BY <1>1, ClaimJobStep
<1>2. CASE \E wait \in Maybe(ParkReasons) : ParkJob(g, j, wait)
  BY <1>2, ParkJobStep
<1>3. CASE \E configured \in AttemptLimits : SettleExhaustedJob(g, j, configured)
  BY <1>3, SettleExhaustedJobStep
<1>4. CASE StartStep(g, j, t)
  <2>1. PICK configured \in AttemptLimits, c \in 0..MaxConfirmations :
               \/ Units[j] = 0 /\ StartAttempt(g, j, configured, c, FALSE, None, t)
               \/ \E unit \in 0..(Units[j] - 1) :
                    StartAttempt(g, j, configured, c, TRUE, unit, t)
    BY <1>4 DEF StartStep
  <2>2. CASE StartAttempt(g, j, configured, c, FALSE, None, t)
    <3>1. None \in Maybe(Nat)
      BY DEF Maybe
    <3> QED
      BY <2>2, <3>1, StartAttemptStep
  <2>3. CASE \E unit \in 0..(Units[j] - 1) : StartAttempt(g, j, configured, c, TRUE, unit, t)
    <3>1. PICK unit \in 0..(Units[j] - 1) : StartAttempt(g, j, configured, c, TRUE, unit, t)
      BY <2>3
    <3>2. unit \in Maybe(Nat)
      BY JobsAssumption DEF Maybe
    <3> QED
      BY <3>1, <3>2, StartAttemptStep
  <2> QED
    BY <2>1, <2>2, <2>3
<1>5. CASE \E k \in DOMAIN attempts[j] : AttemptStep(g, j, k, t)
  BY <1>5, AttemptStepPreserves
<1> QED
  BY <1>1, <1>2, <1>3, <1>4, <1>5 DEF JobStep

LEMMA NextIInv == IInv /\ [Next]_vars => IInv'
<1> SUFFICES ASSUME IInv, [Next]_vars PROVE IInv'
  OBVIOUS
<1>1. now \in Nat /\ lease \in Lease /\ paused \in BOOLEAN /\ jobs \in [Jobs -> Job]
  BY DEF IInv, TypeOK
<1>2. ASSUME NEW t \in Clock, NEW o \in Owners, TakeLease(o, t)
      PROVE  IInv'
  BY <1>2, ClockType, LeaseOperations DEF IInv
<1>3. ASSUME NEW t \in Clock, NEW g \in 1..lease.generation, OwnerStep(g, t)
      PROVE  IInv'
  <2>1. t \in Nat /\ g \in Nat
    BY <1>1, ClockType DEF IInv, Lease
  <2>2. CASE LeaseStep(g, t)
    BY <2>1, <2>2, LeaseOperations DEF LeaseStep
  <2>3. CASE \E j \in Jobs : JobStep(g, j, t)
    BY <2>1, <2>3, JobStepPreserves
  <2>4. CASE UnparkJobs(g, {"origin_bound"})
    BY <2>1, <2>4, UnparkJobsStep
  <2>5. CASE RecoverStep(g, t)
    <3>1. t + RetryDelay \in Nat
      BY <2>1, TimeAssumption
    <3> QED
      BY <2>1, <2>5, <3>1, RecoverStepPreserves DEF RecoverStep
  <2>6. CASE PauseUnder(g)
    BY <1>1, <2>6, JobsStep DEF PauseUnder, SetPause
  <2> QED
    BY <1>3, <2>2, <2>3, <2>4, <2>5, <2>6 DEF OwnerStep
<1>4. ASSUME NEW t \in Clock, NEW j \in Jobs, PersonStep(j, t)
      PROVE  IInv'
  BY <1>4, ClockType, PersonStepPreserves DEF IInv
<1>5. ASSUME NEW p \in BOOLEAN, SetPause(p)
      PROVE  IInv'
  BY <1>1, <1>5, JobsStep DEF SetPause
<1>6. CASE Tick
  BY <1>1, <1>6, JobsStep DEF Tick
<1>7. CASE UNCHANGED vars
  BY <1>1, <1>7, JobsStep DEF vars
<1> QED
  BY <1>2, <1>3, <1>4, <1>5, <1>6, <1>7 DEF Next

\* Every row keeps its shape whatever the owners and people do.
THEOREM TypeCorrect == Spec => []TypeOK
<1>1. IInv => TypeOK
  BY DEF IInv
<1> QED
  BY <1>1, InitIInv, NextIInv, PTL DEF Spec

\* One job runs at a time per project database, under the one generation that
\* claimed it, for any number of owners, generations, jobs and attempts.
THEOREM OneRunningHolds == Spec => []OneRunning
<1>1. IInv => OneRunning
  BY DEF IInv
<1> QED
  BY <1>1, InitIInv, NextIInv, PTL DEF Spec

\* An unsettled attempt is its job's latest, and nothing takes the job from
\* under it.
THEOREM OpenAttemptHeldHolds == Spec => []OpenAttemptHeld
<1>1. IInv => OpenAttemptHeld
  BY DEF IInv
<1> QED
  BY <1>1, InitIInv, NextIInv, PTL DEF Spec

\* A reservation still held belongs to an unsettled attempt, which is all that
\* recovery looks at.
THEOREM NoStrandedHoldHolds == Spec => []NoStrandedHold
<1>1. IInv => NoStrandedHold
  BY DEF IInv
<1> QED
  BY <1>1, InitIInv, NextIInv, PTL DEF Spec

-----------------------------------------------------------------------------
(* Allowances and units.  Both follow from how a step may move one job.    *)

\* A job not yet admitted has never been reopened.
Begun(j) == jobs[j].state = "absent" => jobs[j].reopenings = 0 /\ jobs[j].before = 0

\* An attempt interprets a unit of its job, if its job has any.
Planned(j) == \A k \in DOMAIN attempts[j] :
                IF Units[j] = 0 THEN attempts[j][k].unit = None
                                ELSE attempts[j][k].unit \in 0..(Units[j] - 1)

\* Publishing ends the attempt that publishes.
Unpublished(j) == \A k \in DOMAIN attempts[j] :
                    attempts[j][k].receipt => ~IsOpen(attempts[j][k])

\* The published units are the first ones, one receipt each.
Ranked(j) ==
  /\ \A k \in Receipts(j) : attempts[j][k].unit \in 0..(Cardinality(Receipts(j)) - 1)
  /\ \A k, l \in Receipts(j) : k < l => attempts[j][k].unit < attempts[j][l].unit
  /\ Cardinality(Receipts(j)) <= Units[j]

Finished(j) ==
  Units[j] > 0 => (jobs[j].state = "completed" <=> Cardinality(Receipts(j)) = Units[j])

WithinAllowance(j) ==
  AttemptsMade(j) > 0 =>
    /\ \E configured \in AttemptLimits : AttemptsMade(j) <= configured
    /\ jobs[j].reopenings > 0 => AttemptsMade(j) <= jobs[j].allowed

\* A job that waits to be retried says until when, and never for a person's
\* confirmation, which is asked of pending jobs only.
Scheduled(job) ==
  /\ job.confirmations <= MaxConfirmations
  /\ job.state = "retryable_failure" =>
       job.retryAt \in Nat /\ job.wait \in WindowReasons \cup FailureReasons

Deferred(s, wait, retryAt) ==
  s = "retryable_failure" => retryAt \in Nat /\ wait \in WindowReasons \cup FailureReasons

JobInv == \A j \in Jobs : /\ Begun(j) /\ Planned(j) /\ Unpublished(j)
                          /\ Ranked(j) /\ Finished(j) /\ WithinAllowance(j)
                          /\ Scheduled(jobs[j])

\* What becomes of a call: only a reservation still held is ended and charged.
SameCall(a, b) ==
  /\ b.startedAt = a.startedAt
  /\ a.usage # "reserved" => b.usage = a.usage /\ b.cost = a.cost
  /\ b.usage = "reserved" => a.usage = "reserved" /\ b.cost = a.cost

\* What a step leaves of the rows of a job when it neither adds an attempt nor
\* publishes a unit: it rewrites an attempt only as the present holder.
SameRows(j) ==
  /\ Len(attempts'[j]) = Len(attempts[j]) /\ DOMAIN attempts'[j] = DOMAIN attempts[j]
  /\ \A k \in DOMAIN attempts[j] :
       /\ attempts'[j][k].unit = attempts[j][k].unit
       /\ attempts'[j][k].receipt = attempts[j][k].receipt
       /\ SameCall(attempts[j][k], attempts'[j][k])
       /\ IsOpen(attempts'[j][k]) => IsOpen(attempts[j][k])
       /\ attempts'[j][k] # attempts[j][k] =>
            \/ HoldsLease(attempts[j][k].gen)
            \/ lease.owner # None /\ attempts'[j][k].outcome = "unknown"

\* What it leaves of the job itself, which becomes `job`.
SameCourse(j, job) ==
  /\ job.reopenings = jobs[j].reopenings /\ job.before = jobs[j].before
  /\ job.allowed = jobs[j].allowed
  /\ Units[j] > 0 => (job.state = "completed" <=> jobs[j].state = "completed")
  /\ job.state = "absent" <=> jobs[j].state = "absent"
  /\ Scheduled(jobs[j]) => Scheduled(job)
  /\ job.claim \in {jobs[j].claim, None} \/ HoldsLease(job.claim)

Admits(j) ==
  /\ SameRows(j) /\ jobs[j].state = "absent" /\ jobs'[j].state = "pending"
  /\ jobs'[j].reopenings = 0 /\ jobs'[j].before = 0 /\ jobs'[j].claim = None
  /\ Scheduled(jobs'[j])

Reopens(j) ==
  /\ SameRows(j) /\ jobs[j].state = "terminal_failure" /\ jobs'[j].state = "pending"
  /\ jobs'[j].before = Len(attempts[j]) /\ jobs'[j].claim = jobs[j].claim
  /\ Scheduled(jobs[j]) => Scheduled(jobs'[j])

Begins(j) ==
  /\ jobs'[j] = jobs[j] /\ jobs[j].state = "running"
  /\ \E configured \in AttemptLimits : ~Exhausted(j, configured)
  /\ \E a \in Attempt :
       /\ attempts'[j] = Append(attempts[j], a)
       /\ HoldsLease(a.gen) /\ ~a.receipt /\ a.cost = None
       /\ a.usage = "none" \/ (a.usage = "reserved" /\ Refusal(a.startedAt) = None)
       /\ IF Units[j] = 0 THEN a.unit = None ELSE a.unit \in 0..(Units[j] - 1)

Publishes(j) ==
  \E k \in DOMAIN attempts[j] : \E a \in Attempt :
    /\ attempts'[j] = [attempts[j] EXCEPT ![k] = a]
    /\ IsOpen(attempts[j][k]) /\ ~IsOpen(a) /\ HoldsLease(attempts[j][k].gen)
    /\ a.receipt /\ a.unit = attempts[j][k].unit /\ a.unit = Cardinality(Receipts(j))
    /\ SameCall(attempts[j][k], a)
    /\ jobs[j].state = "running" /\ jobs'[j].claim = None
    /\ jobs'[j].state = IF a.unit + 1 = Units[j] THEN "completed" ELSE "retryable_failure"
    /\ jobs'[j].reopenings = jobs[j].reopenings /\ jobs'[j].before = jobs[j].before
    /\ jobs'[j].allowed = jobs[j].allowed
    /\ Scheduled(jobs[j]) => Scheduled(jobs'[j])

Moves(j) == \/ SameRows(j) /\ SameCourse(j, jobs'[j])
            \/ Admits(j) \/ Reopens(j) \/ Begins(j) \/ Publishes(j)

-----------------------------------------------------------------------------
(* How each operation moves the jobs.                                      *)

LEMMA RowType ==
  ASSUME TypeOK, NEW r \in Rows
  PROVE  /\ r[1] \in Jobs /\ r[2] \in DOMAIN attempts[r[1]] /\ r = <<r[1], r[2]>>
         /\ Row(r) \in Attempt /\ Row(r).startedAt \in Nat
<1>1. PICK j \in Jobs : r \in {j} \X DOMAIN attempts[j]
  BY DEF Rows
<1>2. r[1] = j /\ r[2] \in DOMAIN attempts[j] /\ r = <<r[1], r[2]>>
  BY <1>1
<1>3. Row(r) \in Attempt
  BY <1>2, AttemptsType DEF Row
<1> QED
  BY <1>2, <1>3 DEF Attempt

LEMMA FreedCourse ==
  ASSUME IInv, NEW j \in Jobs, jobs[j].state = "running",
         NEW s \in {"pending", "retryable_failure", "terminal_failure", "completed"},
         Units[j] > 0 => s # "completed", NEW wait, NEW retryAt, Deferred(s, wait, retryAt)
  PROVE  SameCourse(j, Freed(jobs[j], s, wait, retryAt))
<1>1. jobs[j] \in Job
  BY DEF IInv, TypeOK
<1> QED
  BY <1>1 DEF SameCourse, Freed, Job, Scheduled, Deferred

LEMMA OneJob ==
  ASSUME IInv, NEW j \in Jobs, NEW job, SameCourse(j, job),
         jobs' = [jobs EXCEPT ![j] = job]
  PROVE  \A i \in Jobs : SameCourse(i, jobs'[i])
<1>1. \A i \in Jobs : jobs'[i] = IF i = j THEN job ELSE jobs[i]
  BY DEF IInv, TypeOK
<1> QED
  BY <1>1 DEF SameCourse

LEMMA NoRow ==
  ASSUME UNCHANGED attempts PROVE \A i \in Jobs : SameRows(i)
BY DEF SameRows, SameCall, IsOpen

LEMMA NoJob ==
  ASSUME UNCHANGED jobs PROVE \A i \in Jobs : SameCourse(i, jobs'[i])
BY DEF SameCourse

LEMMA OneRow ==
  ASSUME IInv, NEW j \in Jobs, NEW k \in DOMAIN attempts[j], NEW a \in Attempt,
         attempts' = [attempts EXCEPT ![j] = [@ EXCEPT ![k] = a]],
         a.unit = attempts[j][k].unit, a.receipt = attempts[j][k].receipt,
         SameCall(attempts[j][k], a),
         IsOpen(a) => IsOpen(attempts[j][k]), HoldsLease(attempts[j][k].gen)
  PROVE  \A i \in Jobs : SameRows(i)
<1>1. /\ [attempts[j] EXCEPT ![k] = a] \in Seq(Attempt)
      /\ Len([attempts[j] EXCEPT ![k] = a]) = Len(attempts[j])
      /\ DOMAIN [attempts[j] EXCEPT ![k] = a] = DOMAIN attempts[j]
      /\ \A l \in DOMAIN attempts[j] :
           [attempts[j] EXCEPT ![k] = a][l] = IF l = k THEN a ELSE attempts[j][l]
  BY AttemptsType, ExceptSeq DEF IInv
<1>2. \A i \in Jobs : attempts'[i] = IF i = j THEN [attempts[j] EXCEPT ![k] = a] ELSE attempts[i]
  BY DEF IInv, TypeOK
<1>3. SameRows(j)
  BY <1>1, <1>2 DEF SameRows, SameCall, IsOpen
<1>4. \A i \in Jobs \ {j} : SameRows(i)
  BY <1>2 DEF SameRows, SameCall, IsOpen
<1> QED
  BY <1>3, <1>4
\* A job handed back, no attempt of any job rewritten.
LEMMA HandedBackMoves ==
  ASSUME IInv, UNCHANGED attempts, NEW j \in Jobs, jobs[j].state = "running",
         NEW s \in {"pending", "retryable_failure", "terminal_failure"},
         NEW wait, NEW retryAt, Deferred(s, wait, retryAt),
         jobs' = [jobs EXCEPT ![j] = Freed(jobs[j], s, wait, retryAt)]
  PROVE  \A i \in Jobs : Moves(i)
<1>1. SameCourse(j, Freed(jobs[j], s, wait, retryAt))
  BY FreedCourse
<1> HIDE DEF SameCourse
<1>2. \A i \in Jobs : SameCourse(i, jobs'[i])
  BY <1>1, OneJob
<1> QED
  BY <1>2, NoRow DEF Moves

LEMMA ClaimMoves ==
  ASSUME IInv, NEW g \in Nat, NEW j \in Jobs, NEW t \in Nat, ClaimJob(g, j, t)
  PROVE  \A i \in Jobs : Moves(i)
<1> DEFINE job == [jobs[j] EXCEPT !.state = "running", !.claim = g,
                                  !.wait = None, !.retryAt = None]
<1>1. jobs[j] \in Job /\ HoldsLease(g) /\ jobs[j].state \in {"pending", "retryable_failure"}
  BY DEF IInv, TypeOK, ClaimJob, IsNext, Claimable
<1>2. SameCourse(j, job)
  BY <1>1 DEF SameCourse, Job, Scheduled
<1>3. jobs' = [jobs EXCEPT ![j] = job] /\ UNCHANGED attempts
  BY DEF ClaimJob
<1> HIDE DEF job
<1>4. \A i \in Jobs : SameCourse(i, jobs'[i])
  BY <1>2, <1>3, OneJob
<1> QED
  BY <1>3, <1>4, NoRow DEF Moves

LEMMA UnparkMoves ==
  ASSUME IInv, NEW g \in Nat, NEW reasons, UnparkJobs(g, reasons)
  PROVE  \A i \in Jobs : Moves(i)
<1>1. \A i \in Jobs : jobs[i] \in Job
  BY DEF IInv, TypeOK
<1>2. \A i \in Jobs : \/ jobs'[i] = jobs[i]
                       \/ /\ jobs[i].state = "pending"
                          /\ jobs'[i] = [jobs[i] EXCEPT !.wait = None]
  BY DEF UnparkJobs
<1>3. \A i \in Jobs : SameCourse(i, jobs'[i])
  <2> SUFFICES ASSUME NEW i \in Jobs PROVE SameCourse(i, jobs'[i])
    OBVIOUS
  <2>1. CASE jobs'[i] = jobs[i]
    BY <2>1 DEF SameCourse
  <2>2. CASE jobs[i].state = "pending" /\ jobs'[i] = [jobs[i] EXCEPT !.wait = None]
    BY <1>1, <2>2 DEF SameCourse, Job, Scheduled
  <2> QED
    BY <1>2, <2>1, <2>2
<1>4. UNCHANGED attempts
  BY DEF UnparkJobs
<1> QED
  BY <1>3, <1>4, NoRow DEF Moves

LEMMA PersonMoves ==
  ASSUME IInv, NEW j \in Jobs, NEW t \in Nat, PersonStep(j, t)
  PROVE  \A i \in Jobs : Moves(i)
<1>1. jobs \in [Jobs -> Job] /\ jobs[j] \in Job
      /\ (jobs[j].state = "running" <=> jobs[j].claim # None)
  BY DEF IInv, TypeOK, OneRunning
<1>2. UNCHANGED attempts
  BY DEF PersonStep, AdmitJob, RetryJob, ReopenJob, ConfirmModel
<1>3. \A i \in Jobs : SameRows(i)
  BY <1>2, NoRow
<1>4. ASSUME NEW job, jobs' = [jobs EXCEPT ![j] = job]
      PROVE  jobs'[j] = job /\ \A i \in Jobs \ {j} : Moves(i)
  <2>1. jobs'[j] = job /\ \A i \in Jobs \ {j} : jobs'[i] = jobs[i]
    BY <1>1, <1>4
  <2> QED
    BY <1>3, <2>1 DEF Moves, SameCourse
<1>5. CASE AdmitJob(j, t)
  <2> DEFINE job == [AbsentJob EXCEPT !.state = "pending", !.admittedAt = t]
  <2>1. jobs' = [jobs EXCEPT ![j] = job] /\ jobs[j].state = "absent"
    BY <1>5 DEF AdmitJob
  <2>2. /\ job.state = "pending" /\ job.reopenings = 0 /\ job.before = 0 /\ job.claim = None
        /\ Scheduled(job)
    BY BoundAssumption DEF AbsentJob, Scheduled
  <2> HIDE DEF job
  <2>3. Admits(j)
    BY <1>3, <1>4, <2>1, <2>2 DEF Admits
  <2> QED
    BY <1>4, <2>1, <2>3 DEF Moves
<1>6. CASE RetryJob(j, t) \/ ConfirmModel(j, jobs[j].confirmations)
  <2>1. PICK job : jobs' = [jobs EXCEPT ![j] = job] /\ SameCourse(j, job)
    <3>1. CASE RetryJob(j, t) /\ jobs[j].state = "pending"
      <4>1. SameCourse(j, [jobs[j] EXCEPT !.wait = None, !.retryAt = None])
        BY <1>1, <3>1 DEF SameCourse, Job, Scheduled
      <4> QED
        BY <3>1, <4>1 DEF RetryJob
    <3>2. CASE RetryJob(j, t) /\ jobs[j].state = "retryable_failure"
      <4>1. SameCourse(j, [jobs[j] EXCEPT !.retryAt = t])
        BY <1>1 DEF SameCourse, Job, Scheduled
      <4>2. jobs' = [jobs EXCEPT ![j] = [jobs[j] EXCEPT !.retryAt = t]]
        BY <3>2 DEF RetryJob
      <4> QED
        BY <4>1, <4>2
    <3>3. CASE ConfirmModel(j, jobs[j].confirmations)
      <4> DEFINE c == jobs[j].confirmations + 1
      <4>0. c <= MaxConfirmations
        BY <1>1, <3>3, BoundAssumption DEF ConfirmModel, Job
      <4> HIDE DEF c
      <4>1. jobs[j].wait = "model_reconfirmation_required" =>
              SameCourse(j, [jobs[j] EXCEPT !.confirmations = c, !.wait = None, !.retryAt = None])
        BY <1>1, <4>0 DEF SameCourse, Job, Scheduled, WindowReasons, FailureReasons
      <4>2. SameCourse(j, [jobs[j] EXCEPT !.confirmations = c])
        BY <1>1, <4>0 DEF SameCourse, Job, Scheduled
      <4>3. \/ /\ jobs[j].wait = "model_reconfirmation_required"
               /\ jobs' = [jobs EXCEPT ![j] = [jobs[j] EXCEPT !.confirmations = c, !.wait = None,
                                                              !.retryAt = None]]
            \/ jobs' = [jobs EXCEPT ![j] = [jobs[j] EXCEPT !.confirmations = c]]
        BY <3>3 DEF ConfirmModel, c
      <4> QED
        BY <4>1, <4>2, <4>3
    <3> QED
      BY <1>6, <3>1, <3>2, <3>3 DEF RetryJob
  <2> QED
    BY <1>3, <2>1, OneJob DEF Moves
<1>7. CASE \E approved \in AttemptLimits : ReopenJob(j, jobs[j].reopenings, approved)
  <2>1. PICK approved \in AttemptLimits : ReopenJob(j, jobs[j].reopenings, approved)
    BY <1>7
  <2> DEFINE job == [jobs[j] EXCEPT
                !.state = "pending", !.wait = None, !.retryAt = None,
                !.reopenings = jobs[j].reopenings + 1, !.before = Len(attempts[j]),
                !.allowed = approved]
  <2>2. jobs' = [jobs EXCEPT ![j] = job] /\ jobs[j].state = "terminal_failure"
    BY <2>1 DEF ReopenJob
  <2>3. /\ job.state = "pending" /\ job.before = Len(attempts[j]) /\ job.claim = jobs[j].claim
        /\ Scheduled(jobs[j]) => Scheduled(job)
    BY <1>1 DEF Job, Scheduled
  <2> HIDE DEF job
  <2>4. Reopens(j)
    BY <1>3, <1>4, <2>2, <2>3 DEF Reopens
  <2> QED
    BY <1>4, <2>2, <2>4 DEF Moves
<1> QED
  BY <1>5, <1>6, <1>7 DEF PersonStep

LEMMA StartMoves ==
  ASSUME IInv, NEW g \in Nat, NEW j \in Jobs, NEW configured \in AttemptLimits, NEW c,
         NEW call \in BOOLEAN, NEW unit \in Maybe(Nat), NEW t \in Nat,
         IF Units[j] = 0 THEN unit = None ELSE unit \in 0..(Units[j] - 1),
         StartAttempt(g, j, configured, c, call, unit, t)
  PROVE  \A i \in Jobs : Moves(i)
<1>1. HoldsLease(g) /\ jobs[j].state = "running" /\ jobs \in [Jobs -> Job]
      /\ attempts \in [Jobs -> Seq(Attempt)]
  BY DEF StartAttempt, Holds, IInv, TypeOK
<1>2. CASE /\ jobs' = [jobs EXCEPT ![j] = Freed(jobs[j], "terminal_failure", None, None)]
           /\ UNCHANGED attempts
  BY <1>1, <1>2, HandedBackMoves DEF Deferred
<1>3. CASE /\ Refusal(t) # None
           /\ \E r \in Oldest(t, RefusingSpan(t)) :
                jobs' = [jobs EXCEPT ![j] = Freed(jobs[j], "retryable_failure", Refusal(t),
                                                  Row(r).startedAt + RefusingSpan(t))]
           /\ UNCHANGED attempts
  <2>1. PICK r \in Oldest(t, RefusingSpan(t)) :
               jobs' = [jobs EXCEPT ![j] = Freed(jobs[j], "retryable_failure", Refusal(t),
                                                 Row(r).startedAt + RefusingSpan(t))]
    BY <1>3
  <2>2. Row(r).startedAt \in Nat /\ RefusingSpan(t) \in Nat
    BY RowType, LimitAssumption DEF Oldest, InWindow, RefusingSpan, IInv
  <2>3. Refusal(t) \in WindowReasons
    BY <1>3 DEF Refusal, WindowReasons
  <2>4. Deferred("retryable_failure", Refusal(t), Row(r).startedAt + RefusingSpan(t))
    BY <2>2, <2>3 DEF Deferred
  <2> QED
    BY <1>1, <1>3, <2>1, <2>4, HandedBackMoves
<1>4. CASE /\ ~Exhausted(j, configured) /\ (call => Refusal(t) = None)
           /\ attempts' = [attempts EXCEPT ![j] = Append(@, NewAttempt(g, t, call, unit))]
           /\ UNCHANGED jobs
  <2> DEFINE a == NewAttempt(g, t, call, unit)
  <2>1. a \in Attempt /\ a.gen = g
    BY NewAttemptType
  <2>2. /\ ~a.receipt /\ a.unit = unit /\ a.cost = None /\ a.startedAt = t
        /\ a.usage = IF call THEN "reserved" ELSE "none"
    BY DEF NewAttempt
  <2>3. attempts' = [attempts EXCEPT ![j] = Append(attempts[j], a)]
    BY <1>4
  <2> HIDE DEF a
  <2>4. /\ attempts'[j] = Append(attempts[j], a)
        /\ \A i \in Jobs \ {j} : attempts'[i] = attempts[i]
    BY <1>1, <2>3
  <2>5. Begins(j)
    <3>1. a.usage = "none" \/ (a.usage = "reserved" /\ Refusal(a.startedAt) = None)
      <4>1. CASE call
        BY <1>4, <2>2, <4>1
      <4>2. CASE ~call
        BY <2>2, <4>2
      <4> QED
        BY <4>1, <4>2
    <3> QED
      BY <1>1, <1>4, <2>1, <2>2, <2>4, <3>1 DEF Begins
  <2>6. \A i \in Jobs \ {j} : SameRows(i) /\ SameCourse(i, jobs'[i])
    BY <1>4, <2>4 DEF SameRows, SameCall, SameCourse, IsOpen
  <2> QED
    BY <2>5, <2>6 DEF Moves
<1> QED
  BY <1>2, <1>3, <1>4 DEF StartAttempt
LEMMA RecordProcessMoves ==
  ASSUME IInv, NEW g \in Nat, NEW j \in Jobs, NEW k \in DOMAIN attempts[j],
         RecordProcess(g, j, k)
  PROVE  \A i \in Jobs : Moves(i)
<1> DEFINE a == [attempts[j][k] EXCEPT !.process = TRUE]
<1>1. attempts[j][k] \in Attempt
  BY AttemptsType DEF IInv
<1>2. /\ a \in Attempt /\ a.unit = attempts[j][k].unit /\ a.receipt = attempts[j][k].receipt
      /\ SameCall(attempts[j][k], a)
      /\ IsOpen(attempts[j][k]) /\ HoldsLease(attempts[j][k].gen)
  BY <1>1 DEF Attempt, RecordProcess, SameCall
<1>3. attempts' = [attempts EXCEPT ![j] = [@ EXCEPT ![k] = a]] /\ UNCHANGED jobs
  BY DEF RecordProcess
<1> HIDE DEF a
<1> QED
  BY <1>2, <1>3, OneRow, NoJob DEF Moves

LEMMA SettleCallMoves ==
  ASSUME IInv, NEW g \in Nat, NEW j \in Jobs, NEW k \in DOMAIN attempts[j],
         NEW ended \in {"settled", "unknown", "released"}, NEW cost \in Maybe(Nat),
         SettleCall(g, j, k, ended, cost)
  PROVE  \A i \in Jobs : Moves(i)
<1> DEFINE a == [attempts[j][k] EXCEPT !.usage = ended, !.cost = cost]
<1>1. attempts[j][k] \in Attempt
  BY AttemptsType DEF IInv
<1>2. /\ a \in Attempt /\ a.unit = attempts[j][k].unit /\ a.receipt = attempts[j][k].receipt
      /\ SameCall(attempts[j][k], a)
      /\ a.outcome = attempts[j][k].outcome /\ HoldsLease(attempts[j][k].gen)
  BY <1>1 DEF Attempt, SettleCall, SameCall
<1>3. attempts' = [attempts EXCEPT ![j] = [@ EXCEPT ![k] = a]] /\ UNCHANGED jobs
  BY DEF SettleCall
<1>4. IsOpen(a) => IsOpen(attempts[j][k])
  BY <1>2 DEF IsOpen
<1> HIDE DEF a
<1> QED
  BY <1>2, <1>3, <1>4, OneRow, NoJob DEF Moves

\* A settlement that publishes nothing: an open attempt had published nothing
\* either.
LEMMA SettleMoves ==
  ASSUME IInv, JobInv, NEW g \in Nat, NEW j \in Jobs, NEW k \in DOMAIN attempts[j],
         NEW outcome \in {"succeeded", "failed", "unknown"},
         NEW s \in {"pending", "retryable_failure", "terminal_failure", "completed"},
         Units[j] > 0 => s # "completed", NEW wait, NEW retryAt, Deferred(s, wait, retryAt),
         Settle(g, j, k, outcome, FALSE, Freed(jobs[j], s, wait, retryAt))
  PROVE  \A i \in Jobs : Moves(i)
<1> DEFINE a == [attempts[j][k] EXCEPT !.outcome = outcome, !.receipt = FALSE]
<1>1. attempts[j][k] \in Attempt
  BY AttemptsType DEF IInv
<1>2. IsOpen(attempts[j][k]) /\ ~attempts[j][k].receipt /\ attempts[j][k].receipt \in BOOLEAN
  BY <1>1 DEF Settle, JobInv, Unpublished, Attempt
<1>3. /\ a \in Attempt /\ a.unit = attempts[j][k].unit /\ a.receipt = FALSE
      /\ SameCall(attempts[j][k], a)
      /\ HoldsLease(attempts[j][k].gen) /\ jobs[j].state = "running"
  BY <1>1 DEF Attempt, Settle, SameCall
<1>4. attempts' = [attempts EXCEPT ![j] = [@ EXCEPT ![k] = a]]
  BY DEF Settle
<1>5. jobs' = [jobs EXCEPT ![j] = Freed(jobs[j], s, wait, retryAt)]
  BY DEF Settle
<1>6. SameCourse(j, Freed(jobs[j], s, wait, retryAt))
  BY <1>3, FreedCourse
<1> HIDE DEF a
<1>7. \A i \in Jobs : SameRows(i)
  BY <1>2, <1>3, <1>4, OneRow
<1>8. \A i \in Jobs : SameCourse(i, jobs'[i])
  BY <1>5, <1>6, OneJob
<1> QED
  BY <1>7, <1>8 DEF Moves

\* One that publishes its unit.
LEMMA PublishMoves ==
  ASSUME IInv, NEW g \in Nat, NEW j \in Jobs, NEW k \in DOMAIN attempts[j], NEW t \in Nat,
         PublishUnit(g, j, k, t)
  PROVE  \A i \in Jobs : Moves(i)
<1>1. attempts[j][k] \in Attempt /\ jobs[j] \in Job /\ jobs \in [Jobs -> Job]
      /\ attempts \in [Jobs -> Seq(Attempt)]
  BY AttemptsType DEF IInv, TypeOK
<1> DEFINE last == attempts[j][k].unit + 1 = Units[j]
           s == IF last THEN "completed" ELSE "retryable_failure"
<1>2. \E outcome \in {"succeeded", "failed"} : \E wait, retryAt :
        /\ Deferred(s, wait, retryAt)
        /\ Settle(g, j, k, outcome, TRUE, Freed(jobs[j], s, wait, retryAt))
  <2>1. CASE last
    <3>1. Settle(g, j, k, "succeeded", TRUE, Freed(jobs[j], "completed", None, None))
      BY <2>1 DEF PublishUnit
    <3>2. Deferred(s, None, None)
      BY <2>1 DEF Deferred
    <3> QED
      BY <2>1, <3>1, <3>2
  <2>2. CASE ~last
    <3>1. Settle(g, j, k, "failed", TRUE,
                 Freed(jobs[j], "retryable_failure", "source_unit_pending", t))
      BY <2>2 DEF PublishUnit
    <3>2. Deferred(s, "source_unit_pending", t)
      BY DEF Deferred, FailureReasons
    <3> QED
      BY <2>2, <3>1, <3>2
  <2> QED
    BY <2>1, <2>2
<1> PICK outcome \in {"succeeded", "failed"} : \E wait, retryAt :
           /\ Deferred(s, wait, retryAt)
           /\ Settle(g, j, k, outcome, TRUE, Freed(jobs[j], s, wait, retryAt))
  BY <1>2
<1> PICK wait, retryAt : /\ Deferred(s, wait, retryAt)
                         /\ Settle(g, j, k, outcome, TRUE, Freed(jobs[j], s, wait, retryAt))
  OBVIOUS
<1> DEFINE a == [attempts[j][k] EXCEPT !.outcome = outcome, !.receipt = TRUE]
           job == Freed(jobs[j], s, wait, retryAt)
<1>3. /\ a \in Attempt /\ ~IsOpen(a) /\ a.receipt /\ a.unit = attempts[j][k].unit
      /\ SameCall(attempts[j][k], a)
  BY <1>1 DEF Attempt, IsOpen, SameCall
<1>4. /\ job.state = s /\ job.claim = None /\ job.reopenings = jobs[j].reopenings
      /\ job.before = jobs[j].before /\ job.allowed = jobs[j].allowed
      /\ Scheduled(jobs[j]) => Scheduled(job)
  BY <1>1 DEF Freed, Job, Scheduled, Deferred
<1>5. /\ attempts' = [attempts EXCEPT ![j] = [attempts[j] EXCEPT ![k] = a]]
      /\ jobs' = [jobs EXCEPT ![j] = job]
      /\ IsOpen(attempts[j][k]) /\ HoldsLease(attempts[j][k].gen) /\ jobs[j].state = "running"
  BY DEF Settle
<1>6. attempts[j][k].unit = Cardinality(Receipts(j))
  BY DEF PublishUnit
<1> HIDE DEF a, job
<1>7. /\ attempts'[j] = [attempts[j] EXCEPT ![k] = a] /\ jobs'[j] = job
      /\ \A i \in Jobs \ {j} : attempts'[i] = attempts[i] /\ jobs'[i] = jobs[i]
  BY <1>1, <1>5
<1>8. Publishes(j)
  <2>1. jobs'[j].state = IF a.unit + 1 = Units[j] THEN "completed" ELSE "retryable_failure"
    BY <1>3, <1>4, <1>7
  <2>2. /\ jobs'[j].claim = None /\ jobs'[j].reopenings = jobs[j].reopenings
        /\ jobs'[j].before = jobs[j].before /\ jobs'[j].allowed = jobs[j].allowed
        /\ Scheduled(jobs[j]) => Scheduled(jobs'[j])
    BY <1>4, <1>7
  <2>3. a.unit = Cardinality(Receipts(j)) /\ attempts'[j] = [attempts[j] EXCEPT ![k] = a]
    BY <1>3, <1>6, <1>7
  <2> QED
    BY <1>3, <1>5, <2>1, <2>2, <2>3, Zenon DEF Publishes
<1>9. \A i \in Jobs \ {j} : SameRows(i) /\ SameCourse(i, jobs'[i])
  BY <1>7 DEF SameRows, SameCall, SameCourse, IsOpen
<1> QED
  BY <1>8, <1>9 DEF Moves

LEMMA AttemptMoves ==
  ASSUME IInv, JobInv, NEW g \in Nat, NEW j \in Jobs, NEW k \in DOMAIN attempts[j],
         NEW t \in Nat, AttemptStep(g, j, k, t)
  PROVE  \A i \in Jobs : Moves(i)
<1>1. ReportedCosts \subseteq Nat
  BY LimitAssumption
<1>2. CASE RecordProcess(g, j, k)
  BY <1>2, RecordProcessMoves
<1>3. CASE \E c \in Maybe(ReportedCosts) : SettleCall(g, j, k, "settled", c)
  BY <1>1, <1>3, SettleCallMoves DEF Maybe
<1>4. CASE \E ended \in {"unknown", "released"} : SettleCall(g, j, k, ended, None)
  BY <1>4, SettleCallMoves DEF Maybe
<1>5. CASE attempts[j][k].unit = None /\ SettleSucceeded(g, j, k)
  <2>1. Units[j] \in Nat /\ ~(Units[j] > 0)
    BY <1>5, JobsAssumption DEF JobInv, Planned
  <2> QED
    BY <1>5, <2>1, SettleMoves DEF SettleSucceeded, Deferred
<1>6. CASE SettleTerminal(g, j, k)
  BY <1>6, SettleMoves DEF SettleTerminal, Deferred
<1>7. CASE SettleRetryable(g, j, k, "call_failed", t + RetryDelay)
  <2>1. Deferred("retryable_failure", "call_failed", t + RetryDelay)
    BY TimeAssumption DEF Deferred, FailureReasons
  <2> QED
    BY <1>7, <2>1, SettleMoves DEF SettleRetryable
<1>8. CASE SettleUnknown(g, j, k, t + CallLifetime)
  <2>1. Deferred("retryable_failure", "call_result_unknown", t + CallLifetime)
    BY TimeAssumption DEF Deferred, FailureReasons
  <2> QED
    BY <1>8, <2>1, SettleMoves DEF SettleUnknown
<1>9. CASE PublishUnit(g, j, k, t)
  BY <1>9, PublishMoves
<1> QED
  BY <1>2, <1>3, <1>4, <1>5, <1>6, <1>7, <1>8, <1>9 DEF AttemptStep
LEMMA RecoverMoves ==
  ASSUME IInv, NEW g \in Nat, NEW gone, NEW t \in Nat, NEW retryAt \in Nat,
         Recover(g, gone, t, retryAt)
  PROVE  \A i \in Jobs : Moves(i)
<1> DEFINE settled(j) == {k \in DOMAIN attempts[j] : Settles(g, j, k, gone, t)}
           over(j, k) == [attempts[j][k] EXCEPT !.outcome = "unknown",
                            !.usage = IF @ = "reserved" THEN "unknown" ELSE @]
<1> SUFFICES ASSUME NEW j \in Jobs PROVE SameRows(j) /\ SameCourse(j, jobs'[j])
  BY DEF Moves
<1>1. /\ DOMAIN attempts[j] = 1..Len(attempts[j]) /\ Len(attempts[j]) \in Nat
      /\ \A k \in DOMAIN attempts[j] : attempts[j][k] \in Attempt
      /\ jobs[j] \in Job /\ lease.owner # None
  BY AttemptsType DEF IInv, TypeOK, Recover, HoldsLease
<1>2. /\ attempts'[j] = [k \in DOMAIN attempts[j] |->
                           IF k \in settled(j) THEN over(j, k) ELSE attempts[j][k]]
      /\ jobs'[j] =
           IF settled(j) # {}
           THEN Freed(jobs[j], "retryable_failure", "call_result_unknown", retryAt)
           ELSE IF /\ jobs[j].state = "running" /\ jobs[j].claim # g
                   /\ {k \in DOMAIN attempts[j] : IsOpen(attempts[j][k])} = {}
           THEN Freed(jobs[j], "pending", None, None)
           ELSE jobs[j]
  BY DEF Recover
<1>3. \A k \in DOMAIN attempts[j] :
        /\ over(j, k) \in Attempt /\ over(j, k).unit = attempts[j][k].unit
        /\ over(j, k).receipt = attempts[j][k].receipt /\ over(j, k).outcome = "unknown"
        /\ SameCall(attempts[j][k], over(j, k)) /\ SameCall(attempts[j][k], attempts[j][k])
  BY <1>1 DEF Attempt, SameCall
<1>4. settled(j) # {} => jobs[j].state = "running"
  BY DEF IInv, OpenAttemptHeld, Settles
<1> HIDE DEF over
<1>5. SameRows(j)
  <2>1. attempts'[j] \in Seq(Attempt)
    <3>1. attempts'[j] \in [1..Len(attempts[j]) -> Attempt]
      BY <1>1, <1>2, <1>3
    <3> QED
      BY <1>1, <3>1, SeqDef
  <2>2. DOMAIN attempts'[j] = 1..Len(attempts[j])
    BY <1>1, <1>2
  <2>3. Len(attempts'[j]) = Len(attempts[j])
    BY <1>1, <2>1, <2>2, LenProperties
  <2> HIDE DEF settled
  <2>4. \A k \in DOMAIN attempts[j] :
          attempts'[j][k] = attempts[j][k] \/ attempts'[j][k] = over(j, k)
    BY <1>2
  <2> QED
    BY <1>1, <1>3, <2>2, <2>3, <2>4 DEF SameRows, IsOpen
<1>6. SameCourse(j, jobs'[j])
  <2>1. CASE settled(j) # {}
    <3>1. Deferred("retryable_failure", "call_result_unknown", retryAt)
      BY DEF Deferred, FailureReasons
    <3> QED
      BY <1>2, <1>4, <2>1, <3>1, FreedCourse
  <2>2. CASE jobs[j].state = "running" /\ jobs'[j] = Freed(jobs[j], "pending", None, None)
    BY <2>2, FreedCourse DEF Deferred
  <2>3. CASE jobs'[j] = jobs[j]
    BY <2>3 DEF SameCourse
  <2> QED
    BY <1>2, <2>1, <2>2, <2>3
<1> QED
  BY <1>5, <1>6

LEMMA NoMoves ==
  ASSUME UNCHANGED <<jobs, attempts>> PROVE \A i \in Jobs : Moves(i)
BY NoRow, NoJob DEF Moves

LEMMA StepMoves ==
  ASSUME IInv, JobInv, [Next]_vars PROVE \A i \in Jobs : Moves(i)
<1>1. ASSUME NEW t \in Clock, NEW o \in Owners, TakeLease(o, t)
      PROVE  \A i \in Jobs : Moves(i)
  BY <1>1, NoMoves DEF TakeLease
<1>2. ASSUME NEW t \in Clock, NEW g \in 1..lease.generation, OwnerStep(g, t)
      PROVE  \A i \in Jobs : Moves(i)
  <2>1. t \in Nat /\ g \in Nat
    BY ClockType DEF IInv, TypeOK, Lease
  <2>2. CASE LeaseStep(g, t)
    BY <2>2, NoMoves DEF LeaseStep, RenewLease, ReleaseLease
  <2>3. ASSUME NEW j \in Jobs, JobStep(g, j, t)
        PROVE  \A i \in Jobs : Moves(i)
    <3>1. CASE ClaimJob(g, j, t)
      BY <2>1, <3>1, ClaimMoves
    <3>2. CASE \E wait \in Maybe(ParkReasons) : ParkJob(g, j, wait)
      BY <3>2, HandedBackMoves DEF ParkJob, Holds, Deferred
    <3>3. CASE \E configured \in AttemptLimits : SettleExhaustedJob(g, j, configured)
      BY <3>3, HandedBackMoves DEF SettleExhaustedJob, Holds, Deferred
    <3>4. CASE StartStep(g, j, t)
      <4>1. PICK configured \in AttemptLimits, c \in 0..MaxConfirmations :
                   \/ Units[j] = 0 /\ StartAttempt(g, j, configured, c, FALSE, None, t)
                   \/ \E unit \in 0..(Units[j] - 1) :
                        StartAttempt(g, j, configured, c, TRUE, unit, t)
        BY <3>4 DEF StartStep
      <4>2. CASE Units[j] = 0 /\ StartAttempt(g, j, configured, c, FALSE, None, t)
        BY <2>1, <4>2, StartMoves DEF Maybe
      <4>3. CASE \E unit \in 0..(Units[j] - 1) : StartAttempt(g, j, configured, c, TRUE, unit, t)
        <5>1. PICK unit \in 0..(Units[j] - 1) : StartAttempt(g, j, configured, c, TRUE, unit, t)
          BY <4>3
        <5>2. unit \in Maybe(Nat) /\ Units[j] # 0
          BY JobsAssumption DEF Maybe
        <5> QED
          BY <2>1, <5>1, <5>2, StartMoves
      <4> QED
        BY <4>1, <4>2, <4>3
    <3>5. CASE \E k \in DOMAIN attempts[j] : AttemptStep(g, j, k, t)
      BY <2>1, <3>5, AttemptMoves
    <3> QED
      BY <2>3, <3>1, <3>2, <3>3, <3>4, <3>5 DEF JobStep
  <2>4. CASE UnparkJobs(g, {"origin_bound"})
    BY <2>1, <2>4, UnparkMoves
  <2>5. CASE RecoverStep(g, t)
    <3>1. t + RetryDelay \in Nat
      BY <2>1, TimeAssumption
    <3> QED
      BY <2>1, <2>5, <3>1, RecoverMoves DEF RecoverStep
  <2>6. CASE PauseUnder(g)
    BY <2>6, NoMoves DEF PauseUnder, SetPause
  <2> QED
    BY <1>2, <2>2, <2>3, <2>4, <2>5, <2>6 DEF OwnerStep
<1>3. ASSUME NEW t \in Clock, NEW j \in Jobs, PersonStep(j, t)
      PROVE  \A i \in Jobs : Moves(i)
  BY <1>3, ClockType, PersonMoves DEF IInv
<1>4. CASE (\E p \in BOOLEAN : SetPause(p)) \/ Tick \/ UNCHANGED vars
  BY <1>4, NoMoves DEF SetPause, Tick, vars
<1> QED
  BY <1>1, <1>2, <1>3, <1>4 DEF Next
-----------------------------------------------------------------------------
(* What the moves preserve.                                                *)

LEMMA ReceiptsType ==
  ASSUME TypeOK, NEW j \in Jobs
  PROVE  IsFiniteSet(Receipts(j)) /\ Cardinality(Receipts(j)) \in Nat
<1>1. DOMAIN attempts[j] = 1..Len(attempts[j]) /\ Len(attempts[j]) \in Nat
  BY AttemptsType
<1>2. IsFiniteSet(1..Len(attempts[j]))
  BY <1>1, FS_Interval
<1>3. Receipts(j) \subseteq 1..Len(attempts[j])
  BY <1>1 DEF Receipts
<1>4. IsFiniteSet(Receipts(j))
  BY <1>2, <1>3, FS_Subset
<1> QED
  BY <1>4, FS_CardinalityType

LEMMA SameRowsKeep ==
  ASSUME IInv, JobInv, NEW j \in Jobs, SameRows(j)
  PROVE  /\ Receipts(j)' = Receipts(j)
         /\ Planned(j)' /\ Unpublished(j)' /\ Ranked(j)'
<1>1. Receipts(j)' = Receipts(j)
  BY DEF SameRows, Receipts
<1>2. \A k \in Receipts(j) : k \in DOMAIN attempts[j]
  BY DEF Receipts
<1>3. Planned(j)' /\ Unpublished(j)'
  BY DEF JobInv, SameRows, Planned, Unpublished
<1>4. Ranked(j)'
  BY <1>1, <1>2 DEF JobInv, SameRows, Ranked
<1> QED
  BY <1>1, <1>3, <1>4

LEMMA SameCourseKeeps ==
  ASSUME IInv, JobInv, NEW j \in Jobs, SameRows(j), SameCourse(j, jobs'[j])
  PROVE  Begun(j)' /\ Finished(j)' /\ WithinAllowance(j)'
<1>1. Receipts(j)' = Receipts(j)
  BY SameRowsKeep
<1>2. Begun(j)'
  BY DEF JobInv, SameCourse, Begun
<1>3. Finished(j)'
  BY <1>1 DEF JobInv, SameCourse, Finished
<1>4. AttemptsMade(j)' = AttemptsMade(j)
  BY DEF AttemptsMade, SameRows, SameCourse
<1>5. WithinAllowance(j)'
  BY <1>4 DEF JobInv, SameCourse, WithinAllowance
<1> QED
  BY <1>2, <1>3, <1>5

LEMMA AdmitsKeeps ==
  ASSUME IInv, JobInv, NEW j \in Jobs, Admits(j)
  PROVE  Begun(j)' /\ Finished(j)' /\ WithinAllowance(j)'
<1>1. Receipts(j)' = Receipts(j) /\ Len(attempts'[j]) = Len(attempts[j])
  BY SameRowsKeep DEF Admits, SameRows
<1>2. Begun(j)'
  BY DEF Admits, Begun
<1>3. Finished(j)'
  BY <1>1 DEF JobInv, Admits, Finished
<1>4. AttemptsMade(j)' = AttemptsMade(j)
  BY <1>1 DEF AttemptsMade, Admits, JobInv, Begun
<1>5. jobs'[j].reopenings = 0
  BY DEF Admits
<1>6. WithinAllowance(j)'
  BY <1>4, <1>5 DEF JobInv, WithinAllowance
<1> QED
  BY <1>2, <1>3, <1>6

LEMMA ReopensKeeps ==
  ASSUME IInv, JobInv, NEW j \in Jobs, Reopens(j)
  PROVE  Begun(j)' /\ Finished(j)' /\ WithinAllowance(j)'
<1>1. Receipts(j)' = Receipts(j) /\ Len(attempts'[j]) = Len(attempts[j])
  BY SameRowsKeep DEF Reopens, SameRows
<1>2. Begun(j)'
  BY DEF Reopens, Begun
<1>3. Finished(j)'
  BY <1>1 DEF JobInv, Reopens, Finished
<1>4. Len(attempts[j]) \in Nat
  BY AttemptsType DEF IInv
<1>5. AttemptsMade(j)' = 0
  BY <1>1, <1>4 DEF AttemptsMade, Reopens
<1>6. WithinAllowance(j)'
  BY <1>5 DEF WithinAllowance
<1> QED
  BY <1>2, <1>3, <1>6

LEMMA BeginsKeeps ==
  ASSUME IInv, JobInv, NEW j \in Jobs, Begins(j)
  PROVE  /\ Begun(j)' /\ Planned(j)' /\ Unpublished(j)'
         /\ Ranked(j)' /\ Finished(j)' /\ WithinAllowance(j)'
<1>1. /\ attempts[j] \in Seq(Attempt) /\ Len(attempts[j]) \in Nat
      /\ DOMAIN attempts[j] = 1..Len(attempts[j]) /\ jobs[j] \in Job
  BY AttemptsType DEF IInv, TypeOK
<1>2. PICK a \in Attempt :
        /\ attempts'[j] = Append(attempts[j], a)
        /\ HoldsLease(a.gen) /\ ~a.receipt
        /\ IF Units[j] = 0 THEN a.unit = None ELSE a.unit \in 0..(Units[j] - 1)
  BY DEF Begins
<1>3. /\ Len(attempts'[j]) = Len(attempts[j]) + 1
      /\ DOMAIN attempts'[j] = 1..(Len(attempts[j]) + 1)
      /\ \A k \in 1..Len(attempts[j]) : attempts'[j][k] = attempts[j][k]
      /\ attempts'[j][Len(attempts[j]) + 1] = a
  BY <1>1, <1>2, AppendProperties, LenProperties
<1>4. \A k \in 1..(Len(attempts[j]) + 1) :
        k \in 1..Len(attempts[j]) \/ k = Len(attempts[j]) + 1
  BY <1>1
<1>5. Receipts(j)' = Receipts(j)
  BY <1>1, <1>2, <1>3, <1>4 DEF Receipts
<1>6. \A k \in Receipts(j) : attempts'[j][k] = attempts[j][k]
  BY <1>1, <1>3 DEF Receipts
<1>7. jobs'[j] = jobs[j]
  BY DEF Begins
<1>8. Planned(j)' /\ Unpublished(j)'
  BY <1>1, <1>2, <1>3, <1>4 DEF JobInv, Planned, Unpublished, IsOpen
<1>9. Ranked(j)'
  BY <1>5, <1>6 DEF JobInv, Ranked
<1>10. Begun(j)' /\ Finished(j)'
  BY <1>5, <1>7 DEF JobInv, Begun, Finished
<1>11. PICK configured \in AttemptLimits : ~Exhausted(j, configured)
  BY DEF Begins
<1>12. AttemptsMade(j)' = AttemptsMade(j) + 1 /\ AttemptsMade(j) \in Int
  BY <1>1, <1>3, <1>7 DEF AttemptsMade, Job
<1>13. /\ AttemptsMade(j) + 1 <= configured
       /\ jobs[j].reopenings > 0 => AttemptsMade(j) + 1 <= jobs[j].allowed
  <2>1. configured \in Nat /\ jobs[j].allowed \in Nat /\ jobs[j].reopenings \in Nat
    BY <1>1, LimitAssumption DEF Job
  <2> QED
    BY <1>11, <1>12, <2>1 DEF Exhausted, AttemptsAllowed
<1>14. WithinAllowance(j)'
  BY <1>7, <1>12, <1>13 DEF WithinAllowance
<1> QED
  BY <1>8, <1>9, <1>10, <1>14

LEMMA PublishesKeeps ==
  ASSUME IInv, JobInv, NEW j \in Jobs, Publishes(j)
  PROVE  /\ Begun(j)' /\ Planned(j)' /\ Unpublished(j)'
         /\ Ranked(j)' /\ Finished(j)' /\ WithinAllowance(j)'
<1>1. PICK k \in DOMAIN attempts[j] : \E a \in Attempt :
        /\ attempts'[j] = [attempts[j] EXCEPT ![k] = a]
        /\ IsOpen(attempts[j][k]) /\ ~IsOpen(a) /\ HoldsLease(attempts[j][k].gen)
        /\ a.receipt /\ a.unit = attempts[j][k].unit /\ a.unit = Cardinality(Receipts(j))
        /\ jobs[j].state = "running" /\ jobs'[j].claim = None
        /\ jobs'[j].state = IF a.unit + 1 = Units[j] THEN "completed" ELSE "retryable_failure"
        /\ jobs'[j].reopenings = jobs[j].reopenings /\ jobs'[j].before = jobs[j].before
        /\ jobs'[j].allowed = jobs[j].allowed
  BY DEF Publishes
<1>2. PICK a \in Attempt :
        /\ attempts'[j] = [attempts[j] EXCEPT ![k] = a]
        /\ IsOpen(attempts[j][k]) /\ ~IsOpen(a) /\ HoldsLease(attempts[j][k].gen)
        /\ a.receipt /\ a.unit = attempts[j][k].unit /\ a.unit = Cardinality(Receipts(j))
        /\ jobs[j].state = "running" /\ jobs'[j].claim = None
        /\ jobs'[j].state = IF a.unit + 1 = Units[j] THEN "completed" ELSE "retryable_failure"
        /\ jobs'[j].reopenings = jobs[j].reopenings /\ jobs'[j].before = jobs[j].before
        /\ jobs'[j].allowed = jobs[j].allowed
  BY <1>1
<1> PICK n \in Nat : n = Cardinality(Receipts(j))
  BY ReceiptsType DEF IInv
<1>3. /\ attempts[j] \in Seq(Attempt) /\ Len(attempts[j]) \in Nat
      /\ DOMAIN attempts[j] = 1..Len(attempts[j])
      /\ IsFiniteSet(Receipts(j)) /\ Units[j] \in Nat
  BY AttemptsType, ReceiptsType, JobsAssumption DEF IInv
<1>4. /\ Len(attempts'[j]) = Len(attempts[j]) /\ DOMAIN attempts'[j] = DOMAIN attempts[j]
      /\ \A l \in DOMAIN attempts[j] :
           attempts'[j][l] = IF l = k THEN a ELSE attempts[j][l]
  BY <1>2, <1>3, ExceptSeq
<1>5. k \notin Receipts(j) /\ k = Len(attempts[j])
  BY <1>2 DEF JobInv, Unpublished, Receipts, IInv, OpenAttemptHeld
<1>6. Receipts(j)' = Receipts(j) \cup {k}
  BY <1>2, <1>4 DEF Receipts
<1>7. Cardinality(Receipts(j) \cup {k}) = n + 1
  BY <1>3, <1>5, FS_AddElement
<1>8. \A l \in Receipts(j) :
        /\ l \in DOMAIN attempts[j] /\ l # k /\ l < k
        /\ attempts'[j][l] = attempts[j][l] /\ attempts[j][l].unit \in 0..(n - 1)
  <2>1. \A l \in Receipts(j) : l \in DOMAIN attempts[j]
    BY DEF Receipts
  <2>2. \A l \in Receipts(j) : l # k /\ l < k /\ attempts'[j][l] = attempts[j][l]
    BY <1>3, <1>4, <1>5, <2>1
  <2>3. \A l \in Receipts(j) : attempts[j][l].unit \in 0..(n - 1)
    BY DEF JobInv, Ranked
  <2> QED
    BY <2>1, <2>2, <2>3
<1>9. attempts'[j][k] = a /\ a.unit = n
  BY <1>2, <1>4
\* The unit is one of the job's, so the job has units left to publish.
<1>10. Units[j] > 0 /\ n + 1 <= Units[j]
  <2>1. Planned(j) /\ attempts[j][k].unit = n /\ n # None
    BY <1>2, JobsAssumption DEF JobInv
  <2>2. Units[j] # 0 /\ n \in 0..(Units[j] - 1)
    BY <2>1 DEF Planned
  <2> QED
    BY <1>3, <2>2
<1>11. Planned(j)' /\ Unpublished(j)'
  <2>1. Planned(j) /\ Unpublished(j)
    BY DEF JobInv
  <2>2. ~(a.outcome = "open") /\ a.unit = attempts[j][k].unit
    BY <1>2 DEF IsOpen
  <2>3. Planned(j)'
    BY <1>4, <2>1, <2>2 DEF Planned
  <2>4. Unpublished(j)'
    BY <1>4, <2>1, <2>2 DEF Unpublished, IsOpen
  <2> QED
    BY <2>3, <2>4
<1>12. Ranked(j)'
  <2>1. \A l \in Receipts(j)' : attempts'[j][l].unit \in 0..n
    BY <1>3, <1>6, <1>8, <1>9
  <2>2. \A l, m \in Receipts(j)' : l < m => attempts'[j][l].unit < attempts'[j][m].unit
    <3> SUFFICES ASSUME NEW l \in Receipts(j)', NEW m \in Receipts(j)', l < m
                 PROVE  attempts'[j][l].unit < attempts'[j][m].unit
      OBVIOUS
    <3>1. k \in Int /\ l \in Int /\ m \in Int
      BY <1>3, <1>6, <1>8
    <3>2. l # k
      BY <1>6, <1>8, <3>1
    <3>3. l \in Receipts(j)
      BY <1>6, <3>2
    <3>4. CASE m = k
      BY <1>3, <1>8, <1>9, <3>3, <3>4
    <3>5. CASE m # k
      <4>1. m \in Receipts(j)
        BY <1>6, <3>5
      <4>2. attempts[j][l].unit < attempts[j][m].unit
        BY <3>3, <4>1 DEF JobInv, Ranked
      <4> QED
        BY <1>8, <3>3, <4>1, <4>2
    <3> QED
      BY <3>4, <3>5
  <2>3. Cardinality(Receipts(j)') = n + 1
    BY <1>6, <1>7
  <2>4. \A l \in Receipts(j)' : attempts'[j][l].unit \in 0..(Cardinality(Receipts(j)') - 1)
    BY <2>1, <2>3
  <2>5. Cardinality(Receipts(j)') <= Units[j]
    BY <1>10, <2>3
  <2> QED
    BY <2>2, <2>4, <2>5, Zenon DEF Ranked
<1>13. Finished(j)'
  BY <1>2, <1>3, <1>6, <1>7, <1>9 DEF Finished
<1>14. Begun(j)'
  BY <1>2 DEF Begun
<1>15. AttemptsMade(j)' = AttemptsMade(j)
  BY <1>2, <1>4 DEF AttemptsMade
<1>16. WithinAllowance(j)'
  BY <1>2, <1>15 DEF JobInv, WithinAllowance
<1> QED
  BY <1>11, <1>12, <1>13, <1>14, <1>16

LEMMA NextJobInv == IInv /\ JobInv /\ [Next]_vars => JobInv'
<1> SUFFICES ASSUME IInv, JobInv, [Next]_vars, NEW j \in Jobs
             PROVE  /\ Begun(j)' /\ Planned(j)' /\ Unpublished(j)'
                    /\ Ranked(j)' /\ Finished(j)' /\ WithinAllowance(j)'
                    /\ Scheduled(jobs'[j])
  BY DEF JobInv
<1>1. Moves(j)
  BY StepMoves
<1>7. Scheduled(jobs'[j])
  BY <1>1 DEF Moves, SameCourse, Admits, Reopens, Begins, Publishes, JobInv
<1>2. CASE SameRows(j) /\ SameCourse(j, jobs'[j])
  BY <1>2, <1>7, SameRowsKeep, SameCourseKeeps
<1>3. CASE Admits(j)
  BY <1>3, <1>7, SameRowsKeep, AdmitsKeeps DEF Admits
<1>4. CASE Reopens(j)
  BY <1>4, <1>7, SameRowsKeep, ReopensKeeps DEF Reopens
<1>5. CASE Begins(j)
  BY <1>5, <1>7, BeginsKeeps
<1>6. CASE Publishes(j)
  BY <1>6, <1>7, PublishesKeeps
<1> QED
  BY <1>1, <1>2, <1>3, <1>4, <1>5, <1>6, <1>7 DEF Moves

LEMMA InitJobInv == Init => JobInv
<1> SUFFICES ASSUME Init, NEW j \in Jobs
             PROVE  /\ Begun(j) /\ Planned(j) /\ Unpublished(j)
                    /\ Ranked(j) /\ Finished(j) /\ WithinAllowance(j)
                    /\ Scheduled(jobs[j])
  BY DEF JobInv
<1>1. /\ jobs[j] = AbsentJob /\ attempts[j] = <<>> /\ DOMAIN attempts[j] = {}
      /\ Len(attempts[j]) = 0 /\ Units[j] \in Nat
  BY JobsAssumption DEF Init
<1>2. Receipts(j) = {} /\ Cardinality(Receipts(j)) = 0
  BY <1>1, FS_EmptySet DEF Receipts
<1>3. Planned(j) /\ Unpublished(j) /\ Begun(j)
  BY <1>1 DEF Planned, Unpublished, Begun, AbsentJob
<1>4. Ranked(j)
  BY <1>1, <1>2 DEF Ranked
<1>5. Finished(j)
  BY <1>1, <1>2 DEF Finished, AbsentJob
<1>6. WithinAllowance(j)
  BY <1>1 DEF WithinAllowance, AttemptsMade, AbsentJob
<1>7. Scheduled(jobs[j])
  BY <1>1, BoundAssumption DEF Scheduled, AbsentJob
<1> QED
  BY <1>3, <1>4, <1>5, <1>6, <1>7

LEMMA JobInvHolds == Spec => [](IInv /\ JobInv)
<1>1. IInv /\ JobInv /\ [Next]_vars => (IInv /\ JobInv)'
  BY NextIInv, NextJobInv
<1> QED
  BY <1>1, InitIInv, InitJobInv, PTL DEF Spec

\* The attempts a job makes after its latest reopening stay within what that
\* reopening approved and within some configured allowance, however retries,
\* recoveries, reopenings and changes of configuration interleave.
THEOREM AllowanceIsHeld == Spec => []AllowanceHeld
<1>1. JobInv => AllowanceHeld
  BY DEF JobInv, WithinAllowance, AllowanceHeld
<1> QED
  BY <1>1, JobInvHolds, PTL

\* Each unit is published at most once and in schedule order, and a job with
\* units is completed exactly when all of them are, for any schedules.
THEOREM UnitsArePublishedOnce == Spec => []UnitsPublishedOnce
<1>1. JobInv => UnitsPublishedOnce
  BY DEF JobInv, Ranked, Finished, UnitsPublishedOnce
<1> QED
  BY <1>1, JobInvHolds, PTL
\* What one step changes of one job, the present holder changes; the rest is
\* recovery, which ends another generation's attempt only as unknown.
LEMMA MovesUnderLease ==
  ASSUME IInv, NEW j \in Jobs, Moves(j)
  PROVE  /\ \A k \in DOMAIN attempts[j] :
              attempts'[j][k] # attempts[j][k] =>
                \/ HoldsLease(attempts[j][k].gen)
                \/ lease.owner # None /\ attempts'[j][k].outcome = "unknown"
         /\ Len(attempts'[j]) > Len(attempts[j]) =>
              HoldsLease(attempts'[j][Len(attempts'[j])].gen)
         /\ jobs'[j].claim \notin {jobs[j].claim, None} => HoldsLease(jobs'[j].claim)
<1>1. /\ attempts[j] \in Seq(Attempt) /\ Len(attempts[j]) \in Nat
      /\ DOMAIN attempts[j] = 1..Len(attempts[j])
  BY AttemptsType DEF IInv
<1>2. CASE SameRows(j) /\ jobs'[j].claim \in {jobs[j].claim, None}
  BY <1>1, <1>2 DEF SameRows
<1>3. CASE SameRows(j) /\ SameCourse(j, jobs'[j])
  BY <1>1, <1>3 DEF SameRows, SameCourse
<1>4. CASE Admits(j)
  BY <1>2, <1>4 DEF Admits
<1>5. CASE Reopens(j)
  BY <1>2, <1>5 DEF Reopens
<1>6. CASE Begins(j)
  <2>1. PICK a \in Attempt : attempts'[j] = Append(attempts[j], a) /\ HoldsLease(a.gen)
    BY <1>6 DEF Begins
  <2>2. /\ Len(attempts'[j]) = Len(attempts[j]) + 1
        /\ \A k \in 1..Len(attempts[j]) : attempts'[j][k] = attempts[j][k]
        /\ attempts'[j][Len(attempts[j]) + 1] = a
    BY <1>1, <2>1, AppendProperties
  <2>3. jobs'[j] = jobs[j]
    BY <1>6 DEF Begins
  <2> QED
    BY <1>1, <2>1, <2>2, <2>3
<1>7. CASE Publishes(j)
  <2>1. PICK k \in DOMAIN attempts[j] :
               /\ \E a \in Attempt : attempts'[j] = [attempts[j] EXCEPT ![k] = a]
               /\ HoldsLease(attempts[j][k].gen) /\ jobs'[j].claim = None
    BY <1>7 DEF Publishes
  <2>2. PICK a \in Attempt : attempts'[j] = [attempts[j] EXCEPT ![k] = a]
    BY <2>1
  <2>3. /\ Len(attempts'[j]) = Len(attempts[j])
        /\ \A l \in 1..Len(attempts[j]) : l # k => attempts'[j][l] = attempts[j][l]
    BY <1>1, <2>2, ExceptSeq
  <2> QED
    BY <1>1, <2>1, <2>3
<1> QED
  BY <1>3, <1>4, <1>5, <1>6, <1>7 DEF Moves

\* A superseded or released owner changes nothing: whatever it still calls, it
\* neither adds, settles nor claims.
THEOREM SupersededChangeNothing == Spec => SupersededChangesNothing
<1>1. IInv /\ JobInv /\ [Next]_vars =>
        [\A j \in Jobs :
           /\ \A k \in DOMAIN attempts[j] :
                attempts'[j][k] # attempts[j][k] =>
                  \/ HoldsLease(attempts[j][k].gen)
                  \/ lease.owner # None /\ attempts'[j][k].outcome = "unknown"
           /\ Len(attempts'[j]) > Len(attempts[j]) =>
                HoldsLease(attempts'[j][Len(attempts'[j])].gen)
           /\ jobs'[j].claim \notin {jobs[j].claim, None} => HoldsLease(jobs'[j].claim)]_vars
  BY StepMoves, MovesUnderLease
<1> QED
  BY <1>1, JobInvHolds, PTL DEF Spec, SupersededChangesNothing
-----------------------------------------------------------------------------
(* Sums over finite sets, by least counterexample.                         *)

\* Induction over finite sets, as the existence of a least counterexample.
LEMMA LeastSet ==
  ASSUME NEW S, IsFiniteSet(S), NEW D \in SUBSET (SUBSET S), D # {}
  PROVE  \E s \in D : \A u \in SUBSET s : u # s => u \notin D
<1>1. IsWellFoundedOn(StrictSubsetOrdering(S), FiniteSubsetsOf(S))
  BY FS_StrictSubsetOrderingWellFounded
<1>2. D \subseteq FiniteSubsetsOf(S)
  BY FS_FiniteSubsetsOfFinite
<1>3. PICK s \in D : \A u \in D : ~ (<<u, s>> \in StrictSubsetOrdering(S))
  BY <1>1, <1>2, WFMin
<1>4. \A u \in SUBSET s : u # s /\ u \in D => <<u, s>> \in StrictSubsetOrdering(S)
  BY DEF StrictSubsetOrdering
<1> SUFFICES ASSUME NEW u \in SUBSET s, u # s, u \in D PROVE FALSE
  BY <1>3
<1>5. <<u, s>> \in StrictSubsetOrdering(S)
  BY <1>4
<1> HIDE DEF StrictSubsetOrdering
<1> QED
  BY <1>3, <1>5

\* The library sums over a finite set by picking its elements one by one.
Pick(s) == CHOOSE x \in s : TRUE

IsSum(g, T, f) ==
  g = [s \in SUBSET T |-> IF s = {} THEN 0 ELSE f[Pick(s)] + g[s \ {Pick(s)}]]

LEMMA PickIn == ASSUME NEW s, s # {} PROVE Pick(s) \in s /\ s \ {Pick(s)} # s
BY DEF Pick

LEMMA SumAt ==
  ASSUME NEW T, NEW f, NEW g, IsSum(g, T, f), NEW s \in SUBSET T
  PROVE  g[s] = IF s = {} THEN 0 ELSE f[Pick(s)] + g[s \ {Pick(s)}]
<1> DEFINE e(t) == IF t = {} THEN 0 ELSE f[Pick(t)] + g[t \ {Pick(t)}]
<1>1. g = [t \in SUBSET T |-> e(t)]
  BY DEF IsSum
<1> HIDE DEF e
<1>2. g[s] = e(s)
  BY <1>1
<1> QED
  BY <1>2 DEF e

\* Two sums agree wherever both are defined.
LEMMA SumUnique ==
  ASSUME NEW T, NEW U, IsFiniteSet(T), NEW f, NEW g, NEW h,
         IsSum(g, T, f), IsSum(h, U, f)
  PROVE  \A s \in SUBSET T : s \in SUBSET U => g[s] = h[s]
<1> DEFINE D == {s \in SUBSET T : s \in SUBSET U /\ g[s] # h[s]}
<1> SUFFICES ASSUME D # {} PROVE FALSE
  OBVIOUS
<1>1. PICK s \in D : \A u \in SUBSET s : u # s => u \notin D
  <2>1. D \in SUBSET (SUBSET T)
    OBVIOUS
  <2> HIDE DEF D
  <2> QED
    BY <2>1, LeastSet
<1>2. s \in SUBSET T /\ s \in SUBSET U /\ g[s] # h[s]
  OBVIOUS
<1>3. g[s] = IF s = {} THEN 0 ELSE f[Pick(s)] + g[s \ {Pick(s)}]
  BY <1>2, SumAt
<1>4. h[s] = IF s = {} THEN 0 ELSE f[Pick(s)] + h[s \ {Pick(s)}]
  BY <1>2, SumAt
<1>5. s # {}
  BY <1>2, <1>3, <1>4
<1>6. s \ {Pick(s)} \notin D
  BY <1>1, <1>5, PickIn
<1>7. g[s \ {Pick(s)}] = h[s \ {Pick(s)}]
  BY <1>2, <1>6
<1> QED
  BY <1>2, <1>3, <1>4, <1>5, <1>7

LEMMA SumExists ==
  ASSUME NEW T, IsFiniteSet(T), NEW f PROVE \E g : IsSum(g, T, f)
<1> DEFINE D == {s \in SUBSET T : ~ \E g : IsSum(g, s, f)}
<1> SUFFICES ASSUME D # {} PROVE FALSE
  BY FS_Subset
<1>1. PICK s \in D : \A u \in SUBSET s : u # s => u \notin D
  <2>1. D \in SUBSET (SUBSET T)
    OBVIOUS
  <2> HIDE DEF D
  <2> QED
    BY <2>1, LeastSet
<1>2. s \in SUBSET T /\ ~ \E g : IsSum(g, s, f)
  OBVIOUS
<1>3. \A u \in SUBSET s : u # s => \E g : IsSum(g, u, f)
  BY <1>1, <1>2
<1> HIDE DEF D
<1> DEFINE G(u) == CHOOSE g : IsSum(g, u, f)
           below(t) == t \ {Pick(t)}
           e(t) == IF t = {} THEN 0 ELSE f[Pick(t)] + G(below(t))[below(t)]
           h == [t \in SUBSET s |-> e(t)]
<1>4. \A u \in SUBSET s : u # s => IsSum(G(u), u, f)
  <2> SUFFICES ASSUME NEW u \in SUBSET s, u # s PROVE IsSum(G(u), u, f)
    OBVIOUS
  <2>1. \E g : IsSum(g, u, f)
    BY <1>3
  <2> HIDE DEF IsSum
  <2> QED
    BY <2>1
<1>5. \A t \in SUBSET s : t # {} => below(t) \in SUBSET s /\ below(t) # s /\ below(t) \in SUBSET t
  BY PickIn
\* What a smaller sum says of one of its subsets, that subset's own sum says too.
<1>6. \A u \in SUBSET s : u # s => \A v \in SUBSET u : G(u)[v] = G(v)[v]
  <2> SUFFICES ASSUME NEW u \in SUBSET s, u # s, NEW v \in SUBSET u PROVE G(u)[v] = G(v)[v]
    OBVIOUS
  <2>1. v \in SUBSET s /\ v # s /\ IsFiniteSet(u)
    BY <1>2, FS_Subset
  <2>2. IsSum(G(u), u, f) /\ IsSum(G(v), v, f)
    BY <1>4, <2>1
  <2> HIDE DEF G, IsSum
  <2> QED
    BY <2>1, <2>2, SumUnique
<1>7. \A t \in SUBSET s : t # s => h[t] = G(t)[t]
  <2> SUFFICES ASSUME NEW t \in SUBSET s, t # s PROVE e(t) = G(t)[t]
    OBVIOUS
  <2>1. IsSum(G(t), t, f)
    BY <1>4
  <2>2. G(t)[t] = IF t = {} THEN 0 ELSE f[Pick(t)] + G(t)[below(t)]
    <3> HIDE DEF G
    <3> QED
      BY <2>1, SumAt
  <2>3. t # {} => G(t)[below(t)] = G(below(t))[below(t)]
    <3> HIDE DEF G
    <3> QED
      BY <1>5, <1>6
  <2> HIDE DEF G, below
  <2> QED
    BY <2>2, <2>3
<1>8. \A t \in SUBSET s : e(t) = IF t = {} THEN 0 ELSE f[Pick(t)] + h[below(t)]
  <2> SUFFICES ASSUME NEW t \in SUBSET s
               PROVE  e(t) = IF t = {} THEN 0 ELSE f[Pick(t)] + h[below(t)]
    OBVIOUS
  <2>1. t # {} => below(t) \in SUBSET s /\ below(t) # s
    BY <1>5
  <2>2. t # {} => h[below(t)] = G(below(t))[below(t)]
    <3> HIDE DEF G, below, h
    <3> QED
      BY <1>7, <2>1
  <2>3. e(t) = IF t = {} THEN 0 ELSE f[Pick(t)] + G(below(t))[below(t)]
    OBVIOUS
  <2> HIDE DEF G, below, h, e
  <2> QED
    BY <2>2, <2>3
<1>9. IsSum(h, s, f)
  <2>1. h = [t \in SUBSET s |-> IF t = {} THEN 0 ELSE f[Pick(t)] + h[below(t)]]
    <3>1. h = [t \in SUBSET s |-> e(t)]
      OBVIOUS
    <3> HIDE DEF h, e, below
    <3> QED
      BY <1>8, <3>1
  <2> HIDE DEF h
  <2> QED
    BY <2>1 DEF IsSum
<1> QED
  BY <1>2, <1>9

LEMMA SumDef ==
  ASSUME NEW f, NEW S
  PROVE  SumFunctionOnSet(f, S) = (CHOOSE g : IsSum(g, S, f))[S]
BY DEF SumFunctionOnSet, FoldFunctionOnSet, MapThenFoldSet, IsSum, Pick

\* The sum over a finite set, one picked element at a time.
LEMMA SumStep ==
  ASSUME NEW f, NEW S, IsFiniteSet(S)
  PROVE  SumFunctionOnSet(f, S) =
           IF S = {} THEN 0 ELSE f[Pick(S)] + SumFunctionOnSet(f, S \ {Pick(S)})
<1> DEFINE G(u) == CHOOSE g : IsSum(g, u, f)
<1>1. \A u \in SUBSET S : IsSum(G(u), u, f) /\ SumFunctionOnSet(f, u) = G(u)[u]
  <2> SUFFICES ASSUME NEW u \in SUBSET S PROVE IsSum(G(u), u, f) /\ SumFunctionOnSet(f, u) = G(u)[u]
    OBVIOUS
  <2>1. \E g : IsSum(g, u, f)
    BY FS_Subset, SumExists
  <2>2. SumFunctionOnSet(f, u) = G(u)[u]
    BY SumDef
  <2> HIDE DEF IsSum
  <2> QED
    BY <2>1, <2>2
<1> HIDE DEF G
<1>2. G(S)[S] = IF S = {} THEN 0 ELSE f[Pick(S)] + G(S)[S \ {Pick(S)}]
  BY <1>1, SumAt
<1>3. S # {} => G(S)[S \ {Pick(S)}] = G(S \ {Pick(S)})[S \ {Pick(S)}]
  <2> DEFINE u == S \ {Pick(S)}
  <2>1. u \in SUBSET S /\ u \in SUBSET u /\ IsSum(G(S), S, f) /\ IsSum(G(u), u, f)
    BY <1>1
  <2> HIDE DEF u
  <2> QED
    <3>1. G(S)[u] = G(u)[u]
      BY <2>1, SumUnique
    <3> QED
      BY <3>1 DEF u
<1> QED
  BY <1>1, <1>2, <1>3

LEMMA SumRemove ==
  ASSUME NEW f, NEW S, IsFiniteSet(S), \A r \in S : f[r] \in Nat
  PROVE  /\ SumFunctionOnSet(f, S) \in Nat
         /\ \A r \in S : SumFunctionOnSet(f, S) = f[r] + SumFunctionOnSet(f, S \ {r})
<1> DEFINE Good(s) == /\ SumFunctionOnSet(f, s) \in Nat
                      /\ \A r \in s : SumFunctionOnSet(f, s) = f[r] + SumFunctionOnSet(f, s \ {r})
           D == {s \in SUBSET S : ~Good(s)}
<1> SUFFICES ASSUME D # {} PROVE FALSE
  OBVIOUS
<1>1. PICK s \in D : \A u \in SUBSET s : u # s => u \notin D
  <2>1. D \in SUBSET (SUBSET S)
    OBVIOUS
  <2> HIDE DEF D
  <2> QED
    BY <2>1, LeastSet
<1>2. s \in SUBSET S /\ ~Good(s) /\ IsFiniteSet(s)
  BY FS_Subset
<1>3. \A u \in SUBSET s : u # s => Good(u)
  BY <1>1, <1>2
<1> HIDE DEF D
<1> DEFINE p == Pick(s)
<1>4. SumFunctionOnSet(f, s) = IF s = {} THEN 0 ELSE f[p] + SumFunctionOnSet(f, s \ {p})
  BY <1>2, SumStep
<1>5. s # {}
  BY <1>2, <1>4
<1>6. p \in s /\ s \ {p} # s /\ f[p] \in Nat
  BY <1>2, <1>5, PickIn
<1> HIDE DEF p
<1>7. Good(s \ {p})
  BY <1>3, <1>6
<1>8. SumFunctionOnSet(f, s) = f[p] + SumFunctionOnSet(f, s \ {p}) /\ SumFunctionOnSet(f, s) \in Nat
  BY <1>4, <1>5, <1>6, <1>7
<1>9. ASSUME NEW r \in s, r # p PROVE SumFunctionOnSet(f, s) = f[r] + SumFunctionOnSet(f, s \ {r})
  <2>1. Good(s \ {r}) /\ Good((s \ {r}) \ {p}) /\ f[r] \in Nat
    BY <1>2, <1>3, <1>6, <1>9
  <2>2. (s \ {r}) \ {p} = (s \ {p}) \ {r}
    OBVIOUS
  <2>3. r \in s \ {p} /\ p \in s \ {r}
    BY <1>6, <1>9
  <2>4. SumFunctionOnSet(f, s \ {p}) = f[r] + SumFunctionOnSet(f, (s \ {p}) \ {r})
    BY <1>7, <2>3
  <2>5. SumFunctionOnSet(f, s \ {r}) = f[p] + SumFunctionOnSet(f, (s \ {p}) \ {r})
    BY <2>1, <2>2, <2>3
  <2>6. PICK m \in Nat : m = SumFunctionOnSet(f, (s \ {p}) \ {r})
    BY <2>1, <2>2
  <2> QED
    BY <1>6, <1>8, <2>1, <2>4, <2>5, <2>6
<1> QED
  BY <1>2, <1>8, <1>9

\* More is summed up over more elements and larger values.
LEMMA SumCompare ==
  ASSUME NEW S, NEW T \in SUBSET S, IsFiniteSet(S), NEW f, NEW g,
         \A r \in S : g[r] \in Nat,
         \A r \in T : f[r] \in Nat /\ f[r] <= g[r]
  PROVE  /\ SumFunctionOnSet(f, T) \in Nat /\ SumFunctionOnSet(g, S) \in Nat
         /\ SumFunctionOnSet(f, T) <= SumFunctionOnSet(g, S)
<1> DEFINE D == {s \in SUBSET S : ~(SumFunctionOnSet(f, T \cap s) <= SumFunctionOnSet(g, s))}
<1>1. \A s \in SUBSET S : SumFunctionOnSet(g, s) \in Nat /\ SumFunctionOnSet(f, T \cap s) \in Nat
  <2> SUFFICES ASSUME NEW s \in SUBSET S
               PROVE  SumFunctionOnSet(g, s) \in Nat /\ SumFunctionOnSet(f, T \cap s) \in Nat
    OBVIOUS
  <2>1. IsFiniteSet(s) /\ IsFiniteSet(T \cap s)
    BY FS_Subset
  <2> QED
    BY <2>1, SumRemove
<1>2. D = {}
  <2> SUFFICES ASSUME D # {} PROVE FALSE
    OBVIOUS
  <2>1. PICK s \in D : \A u \in SUBSET s : u # s => u \notin D
    <3>1. D \in SUBSET (SUBSET S)
      OBVIOUS
    <3> HIDE DEF D
    <3> QED
      BY <3>1, LeastSet
  <2>2. /\ s \in SUBSET S /\ IsFiniteSet(s)
        /\ ~(SumFunctionOnSet(f, T \cap s) <= SumFunctionOnSet(g, s))
    BY FS_Subset
  <2>3. \A u \in SUBSET s : u # s => SumFunctionOnSet(f, T \cap u) <= SumFunctionOnSet(g, u)
    BY <2>1, <2>2
  <2> HIDE DEF D
  <2>4. s # {}
    <3> SUFFICES ASSUME s = {} PROVE FALSE
      OBVIOUS
    <3>1. T \cap s = {}
      OBVIOUS
    <3>2. SumFunctionOnSet(f, {}) = 0 /\ SumFunctionOnSet(g, {}) = 0
      BY FS_EmptySet, SumStep
    <3> QED
      BY <2>2, <3>1, <3>2
  <2>5. PICK p \in s : TRUE
    BY <2>4
  <2> DEFINE u == s \ {p}
  <2>6. SumFunctionOnSet(g, s) = g[p] + SumFunctionOnSet(g, u) /\ g[p] \in Nat
    BY <2>2, SumRemove
  <2>7. SumFunctionOnSet(f, T \cap u) <= SumFunctionOnSet(g, u) /\ u \in SUBSET S
    BY <2>2, <2>3
  <2>8. CASE p \in T
    <3>1. IsFiniteSet(T \cap s) /\ p \in T \cap s /\ \A r \in T \cap s : f[r] \in Nat
      BY <2>2, <2>8, FS_Subset
    <3>2. (T \cap s) \ {p} = T \cap u
      OBVIOUS
    <3>3. SumFunctionOnSet(f, T \cap s) = f[p] + SumFunctionOnSet(f, T \cap u)
      BY <3>1, <3>2, SumRemove
    <3>4. f[p] \in Nat /\ f[p] <= g[p]
      BY <2>8
    <3> HIDE DEF u
    <3> QED
      BY <1>1, <2>2, <2>6, <2>7, <3>3, <3>4
  <2>9. CASE p \notin T
    <3>1. T \cap s = T \cap u
      BY <2>9
    <3> HIDE DEF u
    <3>2. SumFunctionOnSet(f, T \cap s) = SumFunctionOnSet(f, T \cap u)
      BY <3>1
    <3>3. SumFunctionOnSet(g, u) \in Nat /\ SumFunctionOnSet(f, T \cap u) \in Nat
      BY <1>1, <2>7
    <3> QED
      BY <2>2, <2>6, <2>7, <3>2, <3>3
  <2> QED
    BY <2>8, <2>9
<1>3. T \cap S = T /\ S \in SUBSET S
  OBVIOUS
<1> QED
  BY <1>1, <1>2, <1>3

-----------------------------------------------------------------------------
(* The windows.  No reading w of any clock sees more calls than the limit: *)
(* a call is added only if it fits the window that ends at its own start,  *)
(* which holds all the earlier ones of any window that holds the new one.  *)

CallsAt(w) == {r \in InWindow(w, CallSpan) : Row(r).startedAt <= w}

WindowInv == IsFiniteSet(Rows) /\ \A w \in Int : Cardinality(CallsAt(w)) <= CallLimit

LEMMA RowsOf ==
  ASSUME NEW j \in Jobs, NEW k PROVE <<j, k>> \in Rows <=> k \in DOMAIN attempts[j]
BY DEF Rows

\* A job that does not begin an attempt keeps its rows and their calls.
LEMMA CallsKept ==
  ASSUME IInv, NEW j \in Jobs, Moves(j), ~Begins(j)
  PROVE  /\ DOMAIN attempts'[j] = DOMAIN attempts[j]
         /\ \A k \in DOMAIN attempts[j] : SameCall(attempts[j][k], attempts'[j][k])
<1>1. /\ attempts[j] \in Seq(Attempt) /\ Len(attempts[j]) \in Nat
      /\ DOMAIN attempts[j] = 1..Len(attempts[j])
  BY AttemptsType DEF IInv
<1>2. CASE SameRows(j)
  BY <1>2 DEF SameRows
<1>3. CASE Publishes(j)
  <2>1. PICK k \in DOMAIN attempts[j] : \E a \in Attempt :
               attempts'[j] = [attempts[j] EXCEPT ![k] = a] /\ SameCall(attempts[j][k], a)
    BY <1>3 DEF Publishes
  <2>2. PICK a \in Attempt :
               attempts'[j] = [attempts[j] EXCEPT ![k] = a] /\ SameCall(attempts[j][k], a)
    BY <2>1
  <2>3. /\ DOMAIN attempts'[j] = DOMAIN attempts[j]
        /\ \A l \in DOMAIN attempts[j] :
             attempts'[j][l] = IF l = k THEN a ELSE attempts[j][l]
    BY <1>1, <2>2, ExceptSeq
  <2> QED
    BY <2>2, <2>3 DEF SameCall
<1> QED
  BY <1>2, <1>3 DEF Moves, Admits, Reopens

\* At most one row is added, for the one job that runs.
LEMMA RowsMove ==
  ASSUME IInv, \A i \in Jobs : Moves(i)
  PROVE  /\ \A r \in Rows : SameCall(Row(r), attempts'[r[1]][r[2]])
         /\ \/ Rows' = Rows
            \/ \E n : /\ n \notin Rows /\ Rows' = Rows \cup {n}
                      /\ \/ attempts'[n[1]][n[2]].usage = "none"
                         \/ /\ attempts'[n[1]][n[2]].startedAt \in Nat
                            /\ Refusal(attempts'[n[1]][n[2]].startedAt) = None
                      /\ attempts'[n[1]][n[2]].cost = None
<1>1. \A r \in Rows : r[1] \in Jobs /\ r[2] \in DOMAIN attempts[r[1]] /\ r = <<r[1], r[2]>>
  BY RowType DEF IInv
<1>2. CASE \A j \in Jobs : ~Begins(j)
  <2>1. \A j \in Jobs :
          /\ DOMAIN attempts'[j] = DOMAIN attempts[j]
          /\ \A k \in DOMAIN attempts[j] : SameCall(attempts[j][k], attempts'[j][k])
    BY <1>2, CallsKept
  <2>2. Rows' = Rows
    BY <2>1 DEF Rows
  <2> QED
    BY <1>1, <2>1, <2>2 DEF Row
<1>3. ASSUME NEW j \in Jobs, Begins(j)
      PROVE  /\ \A r \in Rows : SameCall(Row(r), attempts'[r[1]][r[2]])
             /\ \E n : /\ n \notin Rows /\ Rows' = Rows \cup {n}
                       /\ \/ attempts'[n[1]][n[2]].usage = "none"
                          \/ /\ attempts'[n[1]][n[2]].startedAt \in Nat
                             /\ Refusal(attempts'[n[1]][n[2]].startedAt) = None
                       /\ attempts'[n[1]][n[2]].cost = None
  <2>1. \A i \in Jobs \ {j} : ~Begins(i)
    BY <1>3 DEF Begins, IInv, OneRunning
  <2>2. \A i \in Jobs \ {j} :
          /\ DOMAIN attempts'[i] = DOMAIN attempts[i]
          /\ \A k \in DOMAIN attempts[i] : SameCall(attempts[i][k], attempts'[i][k])
    BY <2>1, CallsKept
  <2>3. PICK a \in Attempt :
          /\ attempts'[j] = Append(attempts[j], a)
          /\ a.cost = None
          /\ a.usage = "none" \/ (a.usage = "reserved" /\ Refusal(a.startedAt) = None)
    BY <1>3 DEF Begins
  <2>4. /\ attempts[j] \in Seq(Attempt) /\ Len(attempts[j]) \in Nat
        /\ DOMAIN attempts[j] = 1..Len(attempts[j])
    BY AttemptsType DEF IInv
  <2>5. /\ DOMAIN attempts'[j] = 1..(Len(attempts[j]) + 1)
        /\ \A k \in 1..Len(attempts[j]) : attempts'[j][k] = attempts[j][k]
        /\ attempts'[j][Len(attempts[j]) + 1] = a
    BY <2>3, <2>4, AppendProperties, LenProperties
  <2>6. PICK l \in Nat : l = Len(attempts[j]) + 1
    BY <2>4
  <2>7. DOMAIN attempts'[j] = DOMAIN attempts[j] \cup {l} /\ l \notin DOMAIN attempts[j]
    BY <2>4, <2>5, <2>6
  <2> DEFINE n == <<j, l>>
  <2>8. n \notin Rows
    BY <2>7, RowsOf
  <2>9. Rows' = Rows \cup {n}
    BY <2>2, <2>7 DEF Rows
  <2>10. \A r \in Rows : SameCall(Row(r), attempts'[r[1]][r[2]])
    <3> SUFFICES ASSUME NEW r \in Rows PROVE SameCall(Row(r), attempts'[r[1]][r[2]])
      OBVIOUS
    <3>1. CASE r[1] = j
      <4>1. attempts'[r[1]][r[2]] = Row(r)
        BY <1>1, <2>4, <2>5, <3>1 DEF Row
      <4> QED
        BY <4>1 DEF SameCall
    <3>2. CASE r[1] # j
      BY <1>1, <2>2, <3>2 DEF Row
    <3> QED
      BY <3>1, <3>2
  <2>11. attempts'[n[1]][n[2]] = a /\ a.startedAt \in Nat
    BY <2>5, <2>6 DEF Attempt
  <2> QED
    BY <2>3, <2>8, <2>9, <2>10, <2>11
<1> QED
  BY <1>2, <1>3

LEMMA NextWindowInv ==
  IInv /\ IInv' /\ WindowInv /\ (\A i \in Jobs : Moves(i)) => WindowInv'
<1> SUFFICES ASSUME IInv, IInv', WindowInv, \A i \in Jobs : Moves(i) PROVE WindowInv'
  OBVIOUS
<1>1. \A r \in Rows : SameCall(Row(r), attempts'[r[1]][r[2]])
  BY RowsMove
<1>2. IsFiniteSet(Rows)'
  <2>1. CASE Rows' = Rows
    BY <2>1 DEF WindowInv
  <2>2. CASE \E n : Rows' = Rows \cup {n}
    BY <2>2, FS_AddElement DEF WindowInv
  <2> QED
    BY <2>1, <2>2, RowsMove
<1>3. ASSUME NEW w \in Int PROVE (Cardinality(CallsAt(w)) <= CallLimit)'
  <2> DEFINE counted(r) == /\ attempts'[r[1]][r[2]].usage \notin {"none", "released"}
                           /\ attempts'[r[1]][r[2]].startedAt > w - CallSpan
                           /\ attempts'[r[1]][r[2]].startedAt <= w
  <2>1. CallsAt(w)' = {r \in Rows' : counted(r)}
    BY DEF CallsAt, InWindow, Row
  <2>2. CallsAt(w) = {r \in Rows : /\ Row(r).usage \notin {"none", "released"}
                                   /\ Row(r).startedAt > w - CallSpan
                                   /\ Row(r).startedAt <= w}
    BY DEF CallsAt, InWindow
  <2>3. \A r \in Rows : counted(r) => r \in CallsAt(w)
    BY <1>1, <2>2 DEF SameCall
  <2>4. /\ IsFiniteSet(CallsAt(w)) /\ Cardinality(CallsAt(w)) \in Nat
        /\ Cardinality(CallsAt(w)) <= CallLimit /\ CallLimit \in Nat
    <3>1. CallsAt(w) \subseteq Rows
      BY <2>2
    <3> QED
      BY <3>1, FS_Subset, FS_CardinalityType, LimitAssumption DEF WindowInv
  <2>5. ASSUME CallsAt(w)' \subseteq CallsAt(w)
        PROVE  Cardinality(CallsAt(w)') <= CallLimit
    <3>1. /\ IsFiniteSet(CallsAt(w)') /\ Cardinality(CallsAt(w)') <= Cardinality(CallsAt(w))
      BY <2>4, <2>5, FS_Subset
    <3>2. Cardinality(CallsAt(w)') \in Nat
      BY <3>1, FS_CardinalityType
    <3> QED
      BY <2>4, <3>1, <3>2
  <2>6. CASE Rows' = Rows
    BY <2>1, <2>3, <2>5, <2>6
  <2>7. ASSUME NEW n, n \notin Rows, Rows' = Rows \cup {n},
               \/ attempts'[n[1]][n[2]].usage = "none"
               \/ /\ attempts'[n[1]][n[2]].startedAt \in Nat
                  /\ Refusal(attempts'[n[1]][n[2]].startedAt) = None
        PROVE  Cardinality(CallsAt(w)') <= CallLimit
    <3>1. CallsAt(w)' \subseteq CallsAt(w) \cup {n}
      BY <2>1, <2>3, <2>7
    <3>2. CASE ~counted(n)
      <4>1. CallsAt(w)' \subseteq CallsAt(w)
        BY <2>1, <2>3, <2>7, <3>2
      <4> QED
        BY <2>5, <4>1
    <3>3. CASE counted(n)
      <4>1. PICK t \in Nat : t = attempts'[n[1]][n[2]].startedAt /\ Refusal(t) = None
        BY <2>7, <3>3
      <4>2. t <= w /\ t > w - CallSpan /\ CallSpan \in Nat
        BY <3>3, <4>1, LimitAssumption
      <4>3. CallsAt(w) \subseteq InWindow(t, CallSpan)
        <5>1. \A r \in Rows : Row(r).startedAt \in Nat
          BY RowType DEF IInv
        <5> QED
          BY <2>2, <4>2, <5>1 DEF InWindow
      <4>4. /\ IsFiniteSet(InWindow(t, CallSpan))
            /\ Cardinality(InWindow(t, CallSpan)) \in Nat
        <5>1. InWindow(t, CallSpan) \subseteq Rows
          BY DEF InWindow
        <5> QED
          BY <5>1, FS_Subset, FS_CardinalityType DEF WindowInv
      <4>5. Cardinality(InWindow(t, CallSpan)) + 1 <= CallLimit
        <5>1. "calls_per_hour" # None
          BY NoneAssumption DEF WaitReasons, WindowReasons
        <5> QED
          BY <2>4, <4>1, <4>4, <5>1 DEF Refusal
      <4>6. Cardinality(CallsAt(w)) <= Cardinality(InWindow(t, CallSpan))
        BY <4>3, <4>4, FS_Subset
      <4>7. /\ IsFiniteSet(CallsAt(w) \cup {n})
            /\ Cardinality(CallsAt(w) \cup {n}) <= Cardinality(CallsAt(w)) + 1
        BY <2>4, FS_AddElement
      <4>8. /\ IsFiniteSet(CallsAt(w)')
            /\ Cardinality(CallsAt(w)') <= Cardinality(CallsAt(w) \cup {n})
        BY <3>1, <4>7, FS_Subset
      <4>9. Cardinality(CallsAt(w)') \in Nat /\ Cardinality(CallsAt(w) \cup {n}) \in Nat
        BY <4>7, <4>8, FS_CardinalityType
      <4> QED
        BY <2>4, <4>4, <4>5, <4>6, <4>7, <4>8, <4>9
    <3> QED
      BY <3>2, <3>3
  <2> QED
    BY <2>6, <2>7, RowsMove
<1> QED
  BY <1>2, <1>3 DEF WindowInv

\* The spend of a window is kept in the same way.  What a row counts, capped at
\* what was held for it, only falls: while its call is open it counts the whole
\* reservation.  A call is added only if it fits, at the reservation, beside
\* what the rows before it really cost.
SpendAt(w) == {r \in InWindow(w, SpendSpan) : Row(r).startedAt <= w}
Charged == [r \in Rows |-> Charge(Row(r))]
Capped == [r \in Rows |-> Min({Charge(Row(r)), Reservation})]

SpendInv ==
  /\ \A r \in Rows : Row(r).usage = "reserved" => Row(r).cost = None
  /\ Budget # None => \A w \in Int : SumFunctionOnSet(Capped, SpendAt(w)) <= Budget

LEMMA MinOfTwo ==
  ASSUME NEW a \in Nat, NEW b \in Nat
  PROVE  /\ Min({a, b}) \in Nat /\ Min({a, b}) <= a /\ Min({a, b}) <= b
         /\ a = b => Min({a, b}) = a
<1>1. CASE a <= b
  <2>1. a \in {a, b} /\ \A y \in {a, b} : a <= y
    BY <1>1
  <2>2. \A x \in {a, b} : (\A y \in {a, b} : x <= y) => x = a
    BY <1>1
  <2>3. Min({a, b}) = a
    BY <2>1, <2>2 DEF Min
  <2> QED
    BY <1>1, <2>3
<1>2. CASE b < a
  <2>1. b \in {a, b} /\ \A y \in {a, b} : b <= y
    BY <1>2
  <2>2. \A x \in {a, b} : (\A y \in {a, b} : x <= y) => x = b
    BY <1>2
  <2>3. Min({a, b}) = b
    BY <2>1, <2>2 DEF Min
  <2> QED
    BY <1>2, <2>3
<1> QED
  BY <1>1, <1>2

LEMMA ChargeType ==
  ASSUME NEW a \in Attempt
  PROVE  /\ Charge(a) \in Nat /\ Reservation \in Nat
         /\ Min({Charge(a), Reservation}) \in Nat
         /\ Min({Charge(a), Reservation}) <= Charge(a)
         /\ Min({Charge(a), Reservation}) <= Reservation
         /\ a.cost = None => Min({Charge(a), Reservation}) = Reservation
<1>1. Reservation \in Nat
  BY LimitAssumption
<1>2. a.cost \in Nat \cup {None}
  BY DEF Attempt, Maybe
<1>3. Charge(a) \in Nat /\ (a.cost = None => Charge(a) = Reservation)
  BY <1>1, <1>2 DEF Charge
<1> HIDE DEF Charge
<1> QED
  BY <1>1, <1>3, MinOfTwo

LEMMA InitSpendInv == Init => WindowInv /\ SpendInv
<1> SUFFICES ASSUME Init PROVE WindowInv /\ SpendInv
  OBVIOUS
<1>1. Rows = {}
  BY DEF Init, Rows
<1>2. WindowInv
  <2>1. \A w \in Int : CallsAt(w) = {}
    BY <1>1 DEF CallsAt, InWindow
  <2>2. Cardinality({}) = 0 /\ IsFiniteSet({})
    BY FS_EmptySet
  <2> QED
    BY <1>1, <2>1, <2>2, LimitAssumption DEF WindowInv
<1>3. SpendInv
  <2>1. \A w \in Int : SpendAt(w) = {}
    BY <1>1 DEF SpendAt, InWindow
  <2>2. SumFunctionOnSet(Capped, {}) = 0
    BY FS_EmptySet, SumStep
  <2> QED
    BY <1>1, <2>1, <2>2, LimitAssumption DEF SpendInv
<1> QED
  BY <1>2, <1>3

LEMMA RowsTyped == TypeOK => \A r \in Rows : Row(r) \in Attempt
BY RowType

LEMMA NextSpendInv ==
  IInv /\ IInv' /\ WindowInv /\ WindowInv' /\ SpendInv /\ (\A i \in Jobs : Moves(i)) => SpendInv'
<1> SUFFICES ASSUME IInv, IInv', WindowInv, WindowInv', SpendInv, \A i \in Jobs : Moves(i)
             PROVE  SpendInv'
  OBVIOUS
<1> DEFINE row(r) == attempts'[r[1]][r[2]]
           capped(r) == Min({Charge(row(r)), Reservation})
<1>1. \A r \in Rows : SameCall(Row(r), row(r))
  BY RowsMove
<1>2. Rows \subseteq Rows' /\ \A r \in Rows' \ Rows : row(r).cost = None
  BY RowsMove
<1>3. /\ \A r \in Rows : Row(r) \in Attempt
      /\ \A r \in Rows' : row(r) \in Attempt
  <2>1. TypeOK /\ TypeOK'
    BY DEF IInv
  <2>2. \A r \in Rows : Row(r) \in Attempt
    BY <2>1, RowType
  <2>3. \A r \in Rows' : Row(r)' \in Attempt
    <3>1. (TypeOK => \A r \in Rows : Row(r) \in Attempt)'
      BY RowsTyped, PTL
    <3> QED
      BY <2>1, <3>1
  <2> QED
    BY <2>2, <2>3 DEF Row
<1>4. \A r \in Rows' : row(r).usage = "reserved" => row(r).cost = None
  BY <1>1, <1>2 DEF SameCall, SpendInv
<1>5. /\ Capped' = [r \in Rows' |-> capped(r)]
      /\ \A r \in Rows' : Capped'[r] = capped(r) /\ capped(r) \in Nat /\ capped(r) <= Reservation
  <2>1. Capped' = [r \in Rows' |-> capped(r)]
    BY DEF Capped, Row, Charge
  <2>2. \A r \in Rows' : capped(r) \in Nat /\ capped(r) <= Reservation
    BY <1>3, ChargeType
  <2> HIDE DEF capped
  <2> QED
    BY <2>1, <2>2
<1>6. \A r \in Rows : /\ Capped[r] \in Nat /\ Charged[r] \in Nat /\ Capped[r] <= Charged[r]
                       /\ Capped[r] = Min({Charge(Row(r)), Reservation})
  BY <1>3, ChargeType DEF Capped, Charged
<1>7. \A r \in Rows : Capped'[r] <= Capped[r]
  <2> SUFFICES ASSUME NEW r \in Rows PROVE capped(r) <= Min({Charge(Row(r)), Reservation})
    BY <1>2, <1>5, <1>6
  <2>1. CASE Row(r).usage = "reserved"
    <3>1. Min({Charge(Row(r)), Reservation}) = Reservation
      BY <1>3, <2>1, ChargeType DEF SpendInv
    <3> QED
      BY <1>2, <1>5, <3>1
  <2>2. CASE Row(r).usage # "reserved"
    <3>1. row(r).cost = Row(r).cost
      BY <1>1, <2>2 DEF SameCall
    <3>2. capped(r) = Min({Charge(Row(r)), Reservation}) /\ capped(r) \in Nat
      BY <1>2, <1>5, <3>1 DEF Charge
    <3> HIDE DEF capped
    <3> QED
      BY <3>2
  <2> QED
    BY <2>1, <2>2
<1> HIDE DEF capped
<1>8. ASSUME Budget # None, NEW w \in Int
      PROVE  SumFunctionOnSet(Capped', SpendAt(w)') <= Budget
  <2>1. Budget \in Nat /\ Reservation \in Nat /\ SpendSpan \in Nat
    BY <1>8, LimitAssumption
  <2>2. /\ SumFunctionOnSet(Capped, SpendAt(w)) <= Budget
        /\ SpendAt(w) \subseteq Rows /\ IsFiniteSet(SpendAt(w))
        /\ SpendAt(w)' \subseteq Rows' /\ IsFiniteSet(SpendAt(w)')
    <3>1. SpendAt(w) \subseteq Rows /\ SpendAt(w)' \subseteq Rows'
      BY DEF SpendAt, InWindow
    <3> QED
      BY <1>8, <3>1, FS_Subset DEF SpendInv, WindowInv
  <2> DEFINE counted(r) == /\ row(r).usage \notin {"none", "released"}
                           /\ row(r).startedAt > w - SpendSpan
                           /\ row(r).startedAt <= w
  <2>3. SpendAt(w)' = {r \in Rows' : counted(r)}
    BY DEF SpendAt, InWindow, Row
  <2>4. SpendAt(w) = {r \in Rows : /\ Row(r).usage \notin {"none", "released"}
                                   /\ Row(r).startedAt > w - SpendSpan
                                   /\ Row(r).startedAt <= w}
    BY DEF SpendAt, InWindow
  <2>5. \A r \in Rows : counted(r) => r \in SpendAt(w)
    BY <1>1, <2>4 DEF SameCall
  <2>6. ASSUME SpendAt(w)' \subseteq SpendAt(w) PROVE SumFunctionOnSet(Capped', SpendAt(w)') <= Budget
    <3>1. /\ SumFunctionOnSet(Capped', SpendAt(w)') \in Nat
          /\ SumFunctionOnSet(Capped, SpendAt(w)) \in Nat
          /\ SumFunctionOnSet(Capped', SpendAt(w)') <= SumFunctionOnSet(Capped, SpendAt(w))
      <4>1. \A r \in SpendAt(w)' : Capped'[r] \in Nat /\ Capped'[r] <= Capped[r]
        BY <1>2, <1>5, <1>7, <2>2, <2>6
      <4>2. \A r \in SpendAt(w) : Capped[r] \in Nat
        BY <1>6, <2>2
      <4> QED
        BY <2>2, <2>6, <4>1, <4>2, SumCompare
    <3> QED
      BY <2>1, <2>2, <3>1
  <2>7. CASE Rows' = Rows
    BY <2>3, <2>5, <2>6, <2>7
  <2>8. ASSUME NEW n, n \notin Rows, Rows' = Rows \cup {n},
               \/ row(n).usage = "none"
               \/ row(n).startedAt \in Nat /\ Refusal(row(n).startedAt) = None
        PROVE  SumFunctionOnSet(Capped', SpendAt(w)') <= Budget
    <3>1. SpendAt(w)' \subseteq SpendAt(w) \cup {n}
      BY <2>3, <2>5, <2>8
    <3>2. CASE ~counted(n)
      <4>1. SpendAt(w)' \subseteq SpendAt(w)
        BY <2>3, <2>5, <2>8, <3>2
      <4> QED
        BY <2>6, <4>1
    <3>3. CASE counted(n)
      <4>1. PICK t \in Nat : t = row(n).startedAt /\ Refusal(t) = None
        BY <2>8, <3>3
      <4>2. t <= w /\ t > w - SpendSpan
        BY <3>3, <4>1
      <4> DEFINE before == InWindow(t, SpendSpan)
                 others == SpendAt(w)' \ {n}
      <4>3. before \subseteq Rows /\ IsFiniteSet(before)
        <5>1. before \subseteq Rows
          BY DEF InWindow
        <5> QED
          BY <5>1, FS_Subset DEF WindowInv
      <4>4. SpendAt(w) \subseteq before
        <5>1. \A r \in Rows : Row(r).startedAt \in Nat
          BY RowType DEF IInv
        <5> QED
          BY <2>1, <2>4, <4>2, <5>1 DEF InWindow
      <4>5. others \subseteq before /\ others \subseteq Rows
        BY <3>1, <4>3, <4>4
      <4>6. n \in SpendAt(w)'
        BY <2>3, <2>8, <3>3
      <4>7. SumFunctionOnSet(Charged, before) + Reservation <= Budget
        <5>1. "calls_per_hour" # None /\ "cost_per_day" # None
          BY NoneAssumption DEF WaitReasons, WindowReasons
        <5>2. Spent(t) = SumFunctionOnSet(Charged, before)
          BY DEF Spent, Charged
        <5>3. ~(Spent(t) + Reservation > Budget)
          BY <1>8, <4>1, <5>1 DEF Refusal
        <5>4. SumFunctionOnSet(Charged, before) \in Nat
          BY <1>6, <4>3, SumRemove
        <5> HIDE DEF before
        <5> QED
          BY <2>1, <5>2, <5>3, <5>4
      <4> HIDE DEF before, counted
      <4>8. /\ SumFunctionOnSet(Capped', others) \in Nat
            /\ SumFunctionOnSet(Charged, before) \in Nat
            /\ SumFunctionOnSet(Capped', others) <= SumFunctionOnSet(Charged, before)
        <5>1. \A r \in others : Capped'[r] \in Nat /\ Capped'[r] <= Charged[r]
          <6> SUFFICES ASSUME NEW r \in others PROVE Capped'[r] \in Nat /\ Capped'[r] <= Charged[r]
            OBVIOUS
          <6>1. r \in Rows /\ r \in Rows'
            BY <1>2, <4>5
          <6>2. /\ Capped'[r] \in Nat /\ Capped'[r] <= Capped[r]
                /\ Capped[r] \in Nat /\ Charged[r] \in Nat /\ Capped[r] <= Charged[r]
            BY <1>5, <1>6, <1>7, <6>1
          <6> QED
            BY <6>2
        <5>2. \A r \in before : Charged[r] \in Nat
          BY <1>6, <4>3
        <5> HIDE DEF others
        <5> QED
          BY <4>3, <4>5, <5>1, <5>2, SumCompare
      <4>9. /\ Capped'[n] \in Nat /\ Capped'[n] <= Reservation
            /\ SumFunctionOnSet(Capped', SpendAt(w)') = Capped'[n] + SumFunctionOnSet(Capped', others)
        <5>1. n \in Rows' /\ \A r \in SpendAt(w)' : Capped'[r] \in Nat
          BY <1>5, <2>2, <2>8
        <5>2. SumFunctionOnSet(Capped', SpendAt(w)') = Capped'[n] + SumFunctionOnSet(Capped', others)
          BY <2>2, <4>6, <5>1, SumRemove
        <5> QED
          BY <1>5, <5>1, <5>2
      <4> HIDE DEF others
      <4> QED
        BY <2>1, <4>7, <4>8, <4>9
    <3> QED
      BY <3>2, <3>3
  <2> QED
    BY <2>7, <2>8, RowsMove
<1> QED
  BY <1>4, <1>8 DEF SpendInv, Row

\* Whatever clocks the owners read, no window of calls or of spend ever holds
\* more than its limit: startProcessingAttempt judges each new call at its own
\* start, and what ends, loses or releases a call later (settleProcessingCall,
\* recoverProcessingAttempts) only lowers what a window counts.
THEOREM WindowsAreHeld == Spec => []WindowsHeld
<1>1. Init => WindowInv /\ SpendInv
  BY InitSpendInv
<1>2. IInv /\ IInv' /\ JobInv /\ WindowInv /\ SpendInv /\ [Next]_vars
        => WindowInv' /\ SpendInv'
  BY StepMoves, NextWindowInv, NextSpendInv
<1>3. WindowInv /\ SpendInv => WindowsHeld
  <2> SUFFICES ASSUME WindowInv, SpendInv PROVE WindowsHeld
    OBVIOUS
  <2>1. 0..(MaxTime + Skew) \subseteq Int
    BY TimeAssumption
  <2>2. CallWindowHeld
    BY <2>1 DEF WindowInv, CallWindowHeld, CallsAt
  <2>3. SpendWindowHeld
    BY <2>1 DEF SpendInv, SpendWindowHeld, SpendAt, Capped
  <2> QED
    BY <2>2, <2>3 DEF WindowsHeld
<1> QED
  BY <1>1, <1>2, <1>3, JobInvHolds, PTL DEF Spec
=============================================================================
