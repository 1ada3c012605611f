---------------------- MODULE ArtifactLifecycleProofs ----------------------
(***************************************************************************)
(* Theorems about ArtifactLifecycle, for any agents, worktrees, plans and  *)
(* bounds.                                                                 *)
(***************************************************************************)
EXTENDS ArtifactLifecycle, SequenceTheorems, TLAPS

(* What a checkpoint says of the plan it was opened against. *)
Grounded(n) ==
  /\ checkpoints[n].opening \in DOMAIN plans
  /\ checkpoints[n].declared \subseteq DOMAIN plans[checkpoints[n].opening].steps
  /\ checkpoints[n].done \subseteq checkpoints[n].declared
  /\ checkpoints[n].status = "closed" =>
       checkpoints[n].evidence = RequiredEvidence(n, checkpoints[n].done)

(* What is in hand or completed lost nothing unacknowledged. *)
LossKnown(n, i) ==
  \A s \in Claims(n) \cap DOMAIN plans[i - 1].steps :
    IF s \in DOMAIN plans[i].steps
    THEN Rubric(plans[i - 1].steps, s) \ Rubric(plans[i].steps, s) \subseteq plans[i].acked
    ELSE s \in plans[i].acked
LossesKnown ==
  \A n \in Numbers : \A i \in checkpoints[n].opening + 1 .. Len(plans) : LossKnown(n, i)

ArtifactInv ==
  (\A n \in Numbers : Grounded(n)) /\ ClaimsDisjoint /\ MeaningKept /\ LossesKnown

(* Unless a recovery is outstanding, open work was opened by the owner. *)
OpenAtHome ==
  recovery = {} => \A n \in Open : SameContext(checkpoints[n].openedAt, Owner)

(* What an event asks of the artifact it is settled in. *)
Sanctioned(plan) ==
  /\ Carries(plan.steps) /\ KeepsOpen(plan.steps) /\ KeepsMeaning(plan.steps)
  /\ DropsKnown(plan.steps, plan.acked) /\ NarrowsKnown(plan.steps, plan.acked)
Sound(e) ==
  /\ e.type = "revised" => Sanctioned(e.plan)
  /\ e.type = "opened" =>
       /\ e.opening = Len(plans) /\ e.declared \subseteq DOMAIN Plan
       /\ e.declared \cap Protected = {}
  /\ e.type = "closed" =>
       /\ e.n \in Open /\ e.done \subseteq checkpoints[e.n].declared
       /\ e.evidence = RequiredEvidence(e.n, e.done)
  /\ e.type = "abandoned" => e.n \in Open
  /\ e.type = "summarised" => Open = {} /\ (summaries # <<>> => e.head = Last(summaries))
  /\ e.type = "checkout" => e.open = Open

(* What agent a has decided is sound until the artifact moves on. *)
CommandInv(a) ==
  /\ pc[a] # "idle" => context[a] \in Contexts
  /\ pc[a] = "decided" =>
       /\ event[a] \in Events /\ seen[a] \in [revision : Nat, version : Nat]
       /\ seen[a].revision <= revision /\ seen[a].version <= version
       /\ Unmoved(a) => \A e \in Events : e = event[a] => Sound(e)
       /\ event[a].type = "checkout" /\ SameExecution(a) => Active

IInv ==
  /\ TypeOK /\ ArtifactInv /\ OpenAtHome /\ WorkStaysHome /\ CompletedIsWhole
  /\ \A a \in Agents : CommandInv(a)
-----------------------------------------------------------------------------
(* Sequences and events *)

LEMMA Appended ==
  ASSUME NEW S, NEW s \in Seq(S), NEW e \in S
  PROVE  /\ Append(s, e) \in Seq(S) /\ Append(s, e) # <<>> /\ Len(Append(s, e)) = Len(s) + 1
         /\ DOMAIN Append(s, e) = 1 .. Len(s) + 1
         /\ DOMAIN s = 1 .. Len(s) /\ Len(s) \in Nat
         /\ Last(Append(s, e)) = e /\ Append(s, e)[Len(s) + 1] = e
         /\ \A i \in DOMAIN s : Append(s, e)[i] = s[i]
  BY AppendProperties DEF Last

LEMMA LastIn ==
  ASSUME NEW S, NEW s \in Seq(S), s # <<>>
  PROVE  Last(s) \in S /\ Len(s) \in DOMAIN s /\ Len(s) \in Nat \ {0} /\ DOMAIN s = 1 .. Len(s)
  BY DEF Last

LEMMA EventShape ==
  ASSUME NEW e \in Events
  PROVE  /\ e.type = "revised" => e.plan \in Revisions
         /\ e.type = "opened" => e.declared \subseteq Steps /\ e.opening \in Nat \ {0}
         /\ e.type = "closed" => /\ e.n \in Nat \ {0} /\ e.done \subseteq Steps
                                 /\ e.evidence \subseteq Criteria
         /\ e.type = "abandoned" => e.n \in Nat \ {0}
         /\ e.type = "summarised" => e.amends \in BOOLEAN /\ e.head \in 0 .. MaxHead
         /\ e.type = "checkout" => e.open \subseteq Nat \ {0}
<1>1. CASE e \in [type : {"revised"}, plan : Revisions]
  BY <1>1
<1>2. CASE e \in [type : {"opened"}, declared : SUBSET Steps, opening : Nat \ {0}]
  BY <1>2
<1>3. CASE e \in [type : {"closed"}, n : Nat \ {0}, done : SUBSET Steps,
                  evidence : SUBSET Criteria]
  BY <1>3
<1>4. CASE e \in [type : {"abandoned"}, n : Nat \ {0}]
  BY <1>4
<1>5. CASE e \in [type : {"summarised"}, amends : BOOLEAN, head : 0 .. MaxHead]
  BY <1>5
<1>6. CASE e \in [type : {"checkout"}, open : SUBSET (Nat \ {0}),
                  action : {"context_changed", "handoff", "orphan_recovered"}]
  BY <1>6
<1>. QED BY <1>1, <1>2, <1>3, <1>4, <1>5, <1>6 DEF Events

LEMMA NoneIsNoContext == None \notin Contexts
  BY LifecycleAssumption

LEMMA PlanType ==
  ASSUME TypeOK
  PROVE  /\ Last(plans) \in Revisions /\ Plan \in Plans /\ DOMAIN Plan \subseteq Steps
         /\ Len(plans) \in DOMAIN plans /\ DOMAIN plans = 1 .. Len(plans)
         /\ Len(plans) \in Nat \ {0} /\ Plan = plans[Len(plans)].steps
<1>1. plans \in Seq(Revisions) /\ plans # <<>>
  BY DEF TypeOK
<1>2. Last(plans) \in Revisions
  BY <1>1, LastIn
<1>3. Plan \in Plans
  BY <1>2 DEF Plan, Revisions
<1>4. Len(plans) \in DOMAIN plans /\ Len(plans) \in Nat \ {0} /\ DOMAIN plans = 1 .. Len(plans)
  BY <1>1, LastIn
<1>5. DOMAIN Plan \subseteq Steps
  BY <1>3, LifecycleAssumption
<1>6. Plan = plans[Len(plans)].steps
  BY DEF Plan, Last
<1>. QED BY <1>2, <1>3, <1>4, <1>5, <1>6

LEMMA RowType ==
  ASSUME TypeOK, NEW n \in Numbers
  PROVE  /\ checkpoints[n] \in CheckpointRows /\ n \in Nat \ {0}
         /\ checkpoints[n].status \in {"open", "closed", "abandoned"}
         /\ checkpoints[n].declared \subseteq Steps /\ checkpoints[n].done \subseteq Steps
         /\ checkpoints[n].opening \in Nat \ {0}
<1>1. checkpoints \in Seq(CheckpointRows)
  BY DEF TypeOK
<1>2. checkpoints[n] \in CheckpointRows /\ n \in Nat \ {0}
  BY <1>1 DEF Numbers
<1>. QED BY <1>2 DEF CheckpointRows

LEMMA ClaimsWithin ==
  ASSUME TypeOK, NEW n \in Numbers, Grounded(n)
  PROVE  /\ Claims(n) \subseteq checkpoints[n].declared /\ Claims(n) \subseteq Protected
         /\ Claims(n) \subseteq DOMAIN plans[checkpoints[n].opening].steps
         /\ Claims(n) \subseteq UsedSteps
         /\ n \in Open => Claims(n) \subseteq OpenDeclared
         /\ n \notin Open => Claims(n) \subseteq Completed
<1>1. checkpoints[n].status \in {"open", "closed", "abandoned"}
  BY RowType
<1>2. CASE n \in Open
  <2>1. Claims(n) = checkpoints[n].declared
    BY <1>2 DEF Claims, Open
  <2>2. Claims(n) \subseteq OpenDeclared
    BY <1>2, <2>1 DEF OpenDeclared
  <2>. QED BY <1>2, <2>1, <2>2 DEF Grounded, Protected, UsedSteps
<1>3. CASE n \in Closed
  <2>1. Claims(n) = checkpoints[n].done /\ n \notin Open
    BY <1>3 DEF Claims, Open, Closed
  <2>2. Claims(n) \subseteq Completed
    BY <1>3, <2>1 DEF Completed
  <2>. QED BY <2>1, <2>2 DEF Grounded, Protected, UsedSteps
<1>4. CASE n \notin Open \cup Closed
  BY <1>1, <1>4 DEF Claims, Open, Closed
<1>. QED BY <1>2, <1>3, <1>4
-----------------------------------------------------------------------------
(* What does not depend on what a step changes *)

LEMMA SameArtifact ==
  ASSUME plans' = plans, checkpoints' = checkpoints
  PROVE  /\ Plan' = Plan /\ Numbers' = Numbers /\ Open' = Open /\ Closed' = Closed
         /\ OpenDeclared' = OpenDeclared /\ Completed' = Completed /\ Protected' = Protected
         /\ UsedSteps' = UsedSteps /\ UsedCriteria' = UsedCriteria
<1>1. Plan' = Plan /\ Numbers' = Numbers
  BY DEF Plan, Numbers, Last
<1>2. Open' = Open /\ Closed' = Closed
  BY <1>1 DEF Open, Closed
<1>3. OpenDeclared' = OpenDeclared /\ Completed' = Completed
  BY <1>2 DEF OpenDeclared, Completed
<1>4. UsedSteps' = UsedSteps /\ UsedCriteria' = UsedCriteria
  BY DEF UsedSteps, UsedCriteria
<1>. QED BY <1>1, <1>2, <1>3, <1>4 DEF Protected

LEMMA SameSanction ==
  ASSUME plans' = plans, checkpoints' = checkpoints, NEW plan, Sanctioned(plan)
  PROVE  Sanctioned(plan)'
<1>. USE SameArtifact
<1>1. Carries(plan.steps)'
  BY DEF Sanctioned, Carries
<1>2. Dropped(plan.steps)' = Dropped(plan.steps) /\ Kept(plan.steps)' = Kept(plan.steps)
  BY DEF Dropped, Kept
<1>3. KeepsOpen(plan.steps)' /\ DropsKnown(plan.steps, plan.acked)'
  BY <1>2 DEF Sanctioned, KeepsOpen, DropsKnown
<1>4. KeepsMeaning(plan.steps)'
  BY <1>2 DEF Sanctioned, KeepsMeaning
<1>5. Removed(plan.steps, Protected)' = Removed(plan.steps, Protected)
  BY <1>2 DEF Removed
<1>6. NarrowsKnown(plan.steps, plan.acked)'
  BY <1>5 DEF Sanctioned, NarrowsKnown
<1>. QED BY <1>1, <1>3, <1>4, <1>6 DEF Sanctioned

LEMMA SameSound ==
  ASSUME UNCHANGED artifact, NEW e, Sound(e)
  PROVE  Sound(e)'
<1>0. plans' = plans /\ checkpoints' = checkpoints /\ summaries' = summaries
  BY DEF artifact
<1>. USE SameArtifact, <1>0
<1>1. e.type = "revised" => Sanctioned(e.plan)'
  BY SameSanction DEF Sound
<1>2. RequiredEvidence(e.n, e.done)' = RequiredEvidence(e.n, e.done)
  BY <1>0 DEF RequiredEvidence
<1>3. Last(summaries)' = Last(summaries)
  BY <1>0
<1>. QED BY <1>0, <1>1, <1>2, <1>3 DEF Sound

LEMMA SameClaims ==
  ASSUME UNCHANGED checkpoints, NEW n
  PROVE  Claims(n)' = Claims(n)
  BY DEF Claims

LEMMA SameArtifactInv ==
  ASSUME ArtifactInv, plans' = plans, checkpoints' = checkpoints
  PROVE  ArtifactInv'
<1>. USE SameArtifact, SameClaims
<1>1. \A n \in Numbers : Grounded(n)'
  BY DEF ArtifactInv, Grounded, RequiredEvidence
<1>2. ClaimsDisjoint'
  BY DEF ArtifactInv, ClaimsDisjoint
<1>3. MeaningKept'
  BY DEF ArtifactInv, MeaningKept
<1>4. LossesKnown'
  BY DEF ArtifactInv, LossesKnown, LossKnown
<1>. QED BY <1>1, <1>2, <1>3, <1>4 DEF ArtifactInv

LEMMA SameOwnership ==
  ASSUME OpenAtHome, WorkStaysHome, CompletedIsWhole,
         UNCHANGED <<checkpoints, summaries, execution>>
  PROVE  OpenAtHome' /\ WorkStaysHome' /\ CompletedIsWhole'
<1>0. /\ checkpoints' = checkpoints /\ summaries' = summaries
      /\ bindings' = bindings /\ recovery' = recovery /\ Owner' = Owner /\ Active' = Active
  BY DEF execution, Owner, Active, Last
<1>1. Numbers' = Numbers /\ Open' = Open
  BY <1>0 DEF Numbers, Open
<1>2. OpenAtHome'
  BY <1>0, <1>1 DEF OpenAtHome, SameContext
<1>3. WorkStaysHome'
  BY <1>0, <1>1 DEF WorkStaysHome, SameContext
<1>4. CompletedIsWhole'
  BY <1>0, <1>1 DEF CompletedIsWhole
<1>. QED BY <1>2, <1>3, <1>4

(* A step of one command leaves what the others know alone, or moves what   *)
(* they decided on.                                                        *)
Moved == UNCHANGED artifact \/ revision' = revision + 1
MovedExecution == UNCHANGED <<bindings, version>> \/ version' = version + 1
Others(a) ==
  \A b \in Agents \ {a} : /\ pc'[b] = pc[b] /\ context'[b] = context[b]
                          /\ seen'[b] = seen[b] /\ event'[b] = event[b]

LEMMA OtherCommand ==
  ASSUME NEW b \in Agents, CommandInv(b), revision \in Nat, version \in Nat,
         Moved, MovedExecution,
         pc'[b] = pc[b], context'[b] = context[b], seen'[b] = seen[b], event'[b] = event[b]
  PROVE  CommandInv(b)'
<1>1. Contexts' = Contexts /\ Events' = Events
  BY DEF Events
<1>2. pc[b] # "idle" => context[b] \in Contexts
  BY DEF CommandInv
<1>3. SUFFICES ASSUME pc[b] = "decided"
               PROVE  /\ event[b] \in Events /\ seen[b] \in [revision : Nat, version : Nat]
                      /\ seen[b].revision <= revision' /\ seen[b].version <= version'
                      /\ Unmoved(b)' => \A e \in Events : e = event[b] => Sound(e)'
                      /\ event[b].type = "checkout" /\ SameExecution(b)' => Active'
  BY <1>1, <1>2 DEF CommandInv
<1>4. /\ event[b] \in Events /\ seen[b] \in [revision : Nat, version : Nat]
      /\ seen[b].revision \in Nat /\ seen[b].version \in Nat
      /\ seen[b].revision <= revision /\ seen[b].version <= version
  BY <1>3 DEF CommandInv
<1>5. revision <= revision' /\ version <= version' /\ revision' \in Nat /\ version' \in Nat
  BY DEF Moved, MovedExecution, artifact
<1>6. seen[b].revision <= revision' /\ seen[b].version <= version'
  BY <1>4, <1>5
<1>7. Unmoved(b)' => \A e \in Events : e = event[b] => Sound(e)'
  <2>1. CASE UNCHANGED artifact
    <3>1. \A e \in Events : Sound(e) => Sound(e)'
      BY <2>1, SameSound
    <3>2. Unmoved(b)' => Unmoved(b)
      BY <2>1 DEF Unmoved, artifact
    <3>. QED BY <1>3, <3>1, <3>2 DEF CommandInv
  <2>2. CASE revision' = revision + 1
    BY <1>4, <2>2 DEF Unmoved
  <2>. QED BY <2>1, <2>2 DEF Moved
<1>8. event[b].type = "checkout" /\ SameExecution(b)' => Active'
  <2>1. CASE UNCHANGED <<bindings, version>>
    <3>1. Active' = Active
      BY <2>1 DEF Active, Owner, Last
    <3>2. SameExecution(b)' => SameExecution(b)
      BY <2>1 DEF SameExecution
    <3>. QED BY <1>3, <3>1, <3>2 DEF CommandInv
  <2>2. CASE version' = version + 1
    BY <1>4, <2>2 DEF SameExecution
  <2>. QED BY <2>1, <2>2 DEF MovedExecution
<1>. QED BY <1>4, <1>6, <1>7, <1>8

LEMMA Finished ==
  ASSUME IInv, NEW a \in Agents, Done(a)
  PROVE  /\ pc' \in [Agents -> {"idle", "begun", "decided"}] /\ pc'[a] = "idle"
         /\ context' \in [Agents -> Contexts \cup {None}]
         /\ seen' \in [Agents -> [revision : Nat, version : Nat] \cup {None}]
         /\ event' \in [Agents -> Events \cup {None}] /\ Others(a)
  BY DEF IInv, TypeOK, Done, Others

(* Steps of a command that settle nothing. *)
LEMMA Quiet ==
  ASSUME IInv, NEW a \in Agents, UNCHANGED <<artifact, execution, trees>>,
         pc' \in [Agents -> {"idle", "begun", "decided"}],
         context' \in [Agents -> Contexts \cup {None}],
         seen' \in [Agents -> [revision : Nat, version : Nat] \cup {None}],
         event' \in [Agents -> Events \cup {None}],
         Others(a), CommandInv(a)'
  PROVE  IInv'
<1>1. TypeOK'
  BY DEF IInv, TypeOK, artifact, execution, Numbers
<1>2. ArtifactInv' /\ OpenAtHome' /\ WorkStaysHome' /\ CompletedIsWhole'
  BY SameArtifactInv, SameOwnership DEF IInv, artifact
<1>3. ASSUME NEW b \in Agents \ {a} PROVE CommandInv(b)'
  BY <1>3, OtherCommand DEF IInv, TypeOK, Others, Moved, MovedExecution, execution
<1>. QED BY <1>1, <1>2, <1>3 DEF IInv

LEMMA Deciding ==
  ASSUME IInv, NEW a \in Agents, NEW e \in Events, Decide(a, e), Sound(e),
         e.type = "checkout" => Active
  PROVE  IInv'
<1>. DEFINE s == [revision |-> revision, version |-> version]
<1>1. /\ pc[a] = "begun" /\ context' = context
      /\ pc' = [pc EXCEPT ![a] = "decided"] /\ event' = [event EXCEPT ![a] = e]
      /\ seen' = [seen EXCEPT ![a] = s] /\ UNCHANGED <<artifact, execution, trees>>
  BY DEF Decide
<1>2. s \in [revision : Nat, version : Nat] /\ s.revision = revision /\ s.version = version
  BY DEF IInv, TypeOK
<1>. HIDE DEF s
<1>3. /\ pc' \in [Agents -> {"idle", "begun", "decided"}] /\ pc'[a] = "decided"
      /\ context' \in [Agents -> Contexts \cup {None}]
      /\ seen' \in [Agents -> [revision : Nat, version : Nat] \cup {None}] /\ seen'[a] = s
      /\ event' \in [Agents -> Events \cup {None}] /\ event'[a] = e /\ Others(a)
  BY <1>1, <1>2 DEF IInv, TypeOK, Others
<1>4. context'[a] \in Contexts
  BY <1>1 DEF IInv, CommandInv
<1>5. revision' = revision /\ version' = version /\ Active' = Active
  BY <1>1 DEF artifact, execution, Active, Owner, Last
<1>6. Sound(e)'
  BY <1>1, SameSound
<1>7. revision \in Nat /\ version \in Nat
  BY DEF IInv, TypeOK
<1>8. CommandInv(a)'
  BY <1>2, <1>3, <1>4, <1>5, <1>6, <1>7 DEF CommandInv
<1>. QED BY <1>1, <1>3, <1>8, Quiet
-----------------------------------------------------------------------------
(* Reading and deciding *)

LEMMA BeginStep ==
  ASSUME IInv, NEW a \in Agents, Begin(a)
  PROVE  IInv'
<1>1. PICK w \in present : context' = [context EXCEPT ![a] = At(w)]
  BY DEF Begin
<1>2. At(w) \in Contexts
  <2>1. w \in Worktrees /\ trees[w] \in [branch : Branches, head : 0 .. MaxHead]
    BY <1>1 DEF IInv, TypeOK, present
  <2>. QED BY <2>1 DEF At, Contexts
<1>3. /\ pc' = [pc EXCEPT ![a] = "begun"] /\ seen' = seen /\ event' = event
      /\ UNCHANGED <<artifact, execution, trees>>
  BY DEF Begin
<1>4. /\ pc' \in [Agents -> {"idle", "begun", "decided"}] /\ pc'[a] = "begun"
      /\ context' \in [Agents -> Contexts \cup {None}] /\ context'[a] \in Contexts
      /\ seen' \in [Agents -> [revision : Nat, version : Nat] \cup {None}]
      /\ event' \in [Agents -> Events \cup {None}] /\ Others(a)
  BY <1>1, <1>2, <1>3 DEF IInv, TypeOK, Others
<1>5. CommandInv(a)'
  BY <1>4 DEF CommandInv
<1>. QED BY <1>3, <1>4, <1>5, Quiet

LEMMA WithdrawStep ==
  ASSUME IInv, NEW a \in Agents, Withdraw(a)
  PROVE  IInv'
<1>1. Done(a) /\ UNCHANGED <<artifact, execution, trees>>
  BY DEF Withdraw
<1>2. CommandInv(a)'
  BY <1>1, Finished DEF CommandInv
<1>. QED BY <1>1, <1>2, Finished, Quiet

LEMMA ReviseStep ==
  ASSUME IInv, NEW a \in Agents, Revise(a)
  PROVE  IInv'
<1>0. PICK p \in Plans : \E acked \in {{}, Dropped(p) \cup Removed(p, Steps)} :
        /\ Carries(p) /\ KeepsOpen(p) /\ DropsKnown(p, acked) /\ KeepsMeaning(p)
        /\ NarrowsKnown(p, acked)
        /\ Decide(a, [type |-> "revised", plan |-> [steps |-> p, acked |-> acked]])
  BY DEF Revise
<1>1. PICK acked \in {{}, Dropped(p) \cup Removed(p, Steps)} :
        /\ Carries(p) /\ KeepsOpen(p) /\ DropsKnown(p, acked) /\ KeepsMeaning(p)
        /\ NarrowsKnown(p, acked)
        /\ Decide(a, [type |-> "revised", plan |-> [steps |-> p, acked |-> acked]])
  BY <1>0
<1>. DEFINE plan == [steps |-> p, acked |-> acked]
            e == [type |-> "revised", plan |-> plan]
<1>2. Plan \in Plans /\ DOMAIN Plan \subseteq Steps
  BY PlanType DEF IInv
<1>3. Dropped(p) \subseteq Steps
  BY <1>2 DEF Dropped
<1>4. Removed(p, Steps) \subseteq Criteria
  BY <1>2, LifecycleAssumption DEF Removed, Rubric, Kept
<1>5. plan \in Revisions
  BY <1>1, <1>3, <1>4 DEF Revisions
<1>6. Sanctioned(plan)
  BY <1>1 DEF Sanctioned
<1>. HIDE DEF plan
<1>7. e \in Events /\ e.type = "revised" /\ e.plan = plan
  BY <1>5 DEF Events
<1>8. Decide(a, e)
  BY <1>1 DEF plan
<1>. HIDE DEF e
<1>9. Sound(e)
  BY <1>6, <1>7 DEF Sound
<1>. QED BY <1>7, <1>8, <1>9, Deciding

LEMMA OpenStep ==
  ASSUME IInv, NEW a \in Agents, OpenCheckpoint(a)
  PROVE  IInv'
<1>1. PICK declared \in SUBSET DOMAIN Plan :
        /\ declared \cap Protected = {}
        /\ Decide(a, [type |-> "opened", declared |-> declared, opening |-> Len(plans)])
  BY DEF OpenCheckpoint
<1>. DEFINE e == [type |-> "opened", declared |-> declared, opening |-> Len(plans)]
<1>2. DOMAIN Plan \subseteq Steps /\ Len(plans) \in Nat \ {0}
  BY PlanType DEF IInv
<1>3. e \in Events
  BY <1>1, <1>2 DEF Events
<1>4. Sound(e)
  BY <1>1 DEF Sound
<1>5. Decide(a, e) /\ e.type = "opened"
  BY <1>1
<1>. HIDE DEF e
<1>. QED BY <1>3, <1>4, <1>5, Deciding

LEMMA CloseStep ==
  ASSUME IInv, NEW a \in Agents, CloseCheckpoint(a)
  PROVE  IInv'
<1>0. PICK n \in Open : \E done \in SUBSET checkpoints[n].declared :
        Decide(a, [type |-> "closed", n |-> n, done |-> done,
                   evidence |-> RequiredEvidence(n, done)])
  BY DEF CloseCheckpoint
<1>1. PICK done \in SUBSET checkpoints[n].declared :
        Decide(a, [type |-> "closed", n |-> n, done |-> done,
                   evidence |-> RequiredEvidence(n, done)])
  BY <1>0
<1>. DEFINE e == [type |-> "closed", n |-> n, done |-> done,
                  evidence |-> RequiredEvidence(n, done)]
<1>2. n \in Numbers /\ n \in Nat \ {0} /\ checkpoints[n].declared \subseteq Steps
  BY <1>1, RowType DEF IInv, Open
<1>3. RequiredEvidence(n, done) \subseteq Criteria
  <2>. DEFINE p == plans[checkpoints[n].opening].steps
  <2>1. checkpoints[n].opening \in DOMAIN plans
    BY <1>2 DEF IInv, ArtifactInv, Grounded
  <2>2. plans \in Seq(Revisions)
    BY DEF IInv, TypeOK
  <2>3. plans[checkpoints[n].opening] \in Revisions
    BY <2>1, <2>2
  <2>4. p \in Plans
    BY <2>3 DEF Revisions
  <2>5. RequiredEvidence(n, done) = CriteriaOf(p, done)
    BY DEF RequiredEvidence
  <2>. HIDE DEF p
  <2>. QED BY <2>4, <2>5, LifecycleAssumption DEF CriteriaOf, Rubric
<1>4. e \in Events
  BY <1>1, <1>2, <1>3 DEF Events
<1>5. Sound(e)
  BY <1>1 DEF Sound
<1>6. Decide(a, e) /\ e.type = "closed"
  BY <1>1
<1>. HIDE DEF e
<1>. QED BY <1>4, <1>5, <1>6, Deciding

LEMMA AbandonStep ==
  ASSUME IInv, NEW a \in Agents, AbandonCheckpoint(a)
  PROVE  IInv'
<1>1. PICK n \in Open : Decide(a, [type |-> "abandoned", n |-> n])
  BY DEF AbandonCheckpoint
<1>. DEFINE e == [type |-> "abandoned", n |-> n]
<1>2. n \in Nat \ {0}
  BY <1>1, RowType DEF IInv, Open
<1>3. e \in Events
  BY <1>2 DEF Events
<1>4. Sound(e)
  BY <1>1 DEF Sound
<1>5. Decide(a, e) /\ e.type = "abandoned"
  BY <1>1
<1>. HIDE DEF e
<1>. QED BY <1>3, <1>4, <1>5, Deciding

LEMMA SummariseStep ==
  ASSUME IInv, NEW a \in Agents, Summarise(a)
  PROVE  IInv'
<1>. DEFINE head == IF summaries = <<>> THEN context[a].head ELSE Last(summaries)
            e == [type |-> "summarised", amends |-> ~Active, head |-> head]
<1>1. pc[a] = "begun" /\ Open = {} /\ Decide(a, e)
  BY DEF Summarise
<1>2. context[a] \in Contexts
  BY <1>1 DEF IInv, CommandInv
<1>3. summaries \in Seq(0 .. MaxHead)
  BY DEF IInv, TypeOK
<1>4. context[a].head \in 0 .. MaxHead
  BY <1>2 DEF Contexts
<1>5. head \in 0 .. MaxHead
  BY <1>3, <1>4, LastIn
<1>6. summaries # <<>> => head = Last(summaries)
  OBVIOUS
<1>. HIDE DEF head
<1>7. e \in Events /\ e.type = "summarised" /\ e.head = head
  BY <1>5 DEF Events, Active
<1>. HIDE DEF e
<1>8. Sound(e)
  BY <1>1, <1>6, <1>7 DEF Sound
<1>. QED BY <1>1, <1>7, <1>8, Deciding

LEMMA CheckoutStep ==
  ASSUME IInv, NEW a \in Agents, ChangeContext(a) \/ HandOver(a) \/ RecoverOrphaned(a)
  PROVE  IInv'
<1>1. PICK action \in {"context_changed", "handoff", "orphan_recovered"} :
        Active /\ Decide(a, [type |-> "checkout", action |-> action, open |-> Open])
  BY DEF ChangeContext, HandOver, RecoverOrphaned, MayMove, Checkout
<1>. DEFINE e == [type |-> "checkout", action |-> action, open |-> Open]
<1>2. Open \subseteq Nat \ {0}
  BY RowType DEF IInv, Open
<1>3. e \in Events
  BY <1>2 DEF Events
<1>4. Sound(e)
  BY DEF Sound
<1>5. Decide(a, e)
  BY <1>1
<1>. HIDE DEF e
<1>. QED BY <1>1, <1>3, <1>4, <1>5, Deciding
-----------------------------------------------------------------------------
(* Settling *)

LEMMA Deciders ==
  ASSUME IInv, NEW a \in Agents, NEW type, Settling(a, type)
  PROVE  /\ context[a] \in Contexts /\ Done(a) /\ UNCHANGED trees
         /\ \E e \in Events : e = event[a] /\ e.type = type /\ Sound(e)
         /\ type = "checkout" => Active
<1>1. pc[a] = "decided" /\ event[a].type = type /\ Unmoved(a) /\ SameExecution(a)
  BY DEF Settling
<1>2. CommandInv(a) /\ event[a] \in Events
  BY <1>1 DEF IInv, CommandInv
<1>3. \A e \in Events : e = event[a] => Sound(e)
  BY <1>1, <1>2 DEF CommandInv
<1>. QED BY <1>1, <1>2, <1>3 DEF CommandInv, Settling

LEMMA Settled ==
  ASSUME IInv, NEW a \in Agents, Done(a), UNCHANGED trees, Moved, MovedExecution,
         plans' \in Seq(Revisions), plans' # <<>>, checkpoints' \in Seq(CheckpointRows),
         summaries' \in Seq(0 .. MaxHead), bindings' \in Seq(Contexts \cup {None}),
         bindings' # <<>>, recovery' \subseteq Numbers',
         ArtifactInv', OpenAtHome', WorkStaysHome', CompletedIsWhole'
  PROVE  IInv'
<1>1. revision' \in Nat /\ version' \in Nat
  BY DEF IInv, TypeOK, Moved, MovedExecution, artifact
<1>2. TypeOK'
  BY <1>1, Finished DEF IInv, TypeOK
<1>3. CommandInv(a)'
  BY Finished DEF CommandInv
<1>4. ASSUME NEW b \in Agents \ {a} PROVE CommandInv(b)'
  BY <1>4, Finished, OtherCommand DEF IInv, TypeOK, Others
<1>. QED BY <1>2, <1>3, <1>4 DEF IInv

(* An eligible command finds the work in progress. *)
LEMMA EligibleOpen ==
  ASSUME IInv, NEW a \in Agents, Eligible(a)
  PROVE  /\ Active /\ summaries = <<>> /\ recovery = {} /\ Owner \in Contexts
         /\ SameContext(context[a], Owner)
         /\ \A n \in Open : SameContext(checkpoints[n].openedAt, Owner)
<1>1. Active /\ recovery = {} /\ SameContext(context[a], Owner)
  BY DEF Eligible
<1>2. bindings \in Seq(Contexts \cup {None}) /\ bindings # <<>>
  BY DEF IInv, TypeOK
<1>3. Owner \in Contexts
  BY <1>1, <1>2, LastIn DEF Owner, Active
<1>. QED BY <1>1, <1>3 DEF IInv, OpenAtHome, CompletedIsWhole

LEMMA SettleRevisionStep ==
  ASSUME IInv, NEW a \in Agents, SettleRevision(a)
  PROVE  IInv'
<1>1. PICK e \in Events : e = event[a] /\ e.type = "revised" /\ Sound(e)
  BY Deciders DEF SettleRevision
<1>. DEFINE q == e.plan
            p == q.steps
<1>2. q \in Revisions /\ Sanctioned(q)
  BY <1>1, EventShape DEF Sound
<1>. HIDE DEF q
<1>3. /\ plans' = Append(plans, q) /\ revision' = revision + 1
      /\ UNCHANGED <<checkpoints, summaries, execution>> /\ checkpoints' = checkpoints
      /\ Done(a) /\ UNCHANGED trees
  BY <1>1, Deciders DEF SettleRevision, q
<1>4. /\ plans \in Seq(Revisions) /\ Len(plans) \in Nat \ {0}
      /\ DOMAIN plans = 1 .. Len(plans) /\ Plan = plans[Len(plans)].steps
  BY PlanType DEF IInv, TypeOK
<1>5. /\ plans' \in Seq(Revisions) /\ plans' # <<>> /\ Len(plans)' = Len(plans) + 1
      /\ DOMAIN plans' = 1 .. Len(plans) + 1 /\ Plan' = p
      /\ plans'[Len(plans) + 1] = q /\ \A i \in DOMAIN plans : plans'[i] = plans[i]
  <2>1. /\ plans' \in Seq(Revisions) /\ plans' # <<>> /\ Len(plans') = Len(plans) + 1
        /\ DOMAIN plans' = 1 .. Len(plans) + 1 /\ Last(plans') = q
        /\ plans'[Len(plans) + 1] = q /\ \A i \in DOMAIN plans : plans'[i] = plans[i]
    <3>1. plans \in Seq(Revisions) /\ q \in Revisions /\ plans' = Append(plans, q)
      BY <1>2, <1>3, <1>4
    <3>. QED BY <3>1, Appended
  <2>2. Plan' = p
    BY <2>1 DEF Plan
  <2>. QED BY <2>1, <2>2
<1>6. /\ Numbers' = Numbers /\ Open' = Open /\ OpenDeclared' = OpenDeclared
      /\ \A n \in Numbers : Claims(n)' = Claims(n)
  BY <1>3, SameClaims DEF Numbers, Open, OpenDeclared
<1>7. \A n \in Numbers : Grounded(n)
  BY DEF IInv, ArtifactInv
<1>8. \A n \in Numbers : Grounded(n)'
  <2>1. SUFFICES ASSUME NEW n \in Numbers PROVE Grounded(n)'
    OBVIOUS
  <2>2. checkpoints[n].opening \in DOMAIN plans
    BY <1>7 DEF Grounded
  <2>3. plans'[checkpoints[n].opening] = plans[checkpoints[n].opening]
    BY <1>5, <2>2
  <2>4. checkpoints[n].opening \in DOMAIN plans'
    BY <1>4, <1>5, <2>2
  <2>. QED BY <1>3, <1>7, <2>3, <2>4 DEF Grounded, RequiredEvidence
<1>9. ClaimsDisjoint'
  BY <1>6 DEF IInv, ArtifactInv, ClaimsDisjoint
(* What is claimed and still planned was planned before. *)
<1>10. ASSUME NEW n \in Numbers, NEW s \in Claims(n), s \in DOMAIN p
       PROVE  s \in Protected \cap Kept(p)
  <2>1. s \in UsedSteps /\ s \in Protected
    BY <1>7, <1>10, ClaimsWithin DEF IInv
  <2>2. s \in DOMAIN Plan
    BY <1>2, <1>10, <2>1 DEF Sanctioned, Carries
  <2>. QED BY <1>10, <2>1, <2>2 DEF Kept
<1>11. MeaningKept'
  <2>1. OpenDeclared \subseteq DOMAIN p
    BY <1>2 DEF Sanctioned, KeepsOpen, Dropped, IInv, ArtifactInv, MeaningKept
  <2>2. ASSUME NEW n \in Numbers, NEW s \in Claims(n), s \in DOMAIN p
        PROVE  MeansAtMost(p, plans[checkpoints[n].opening].steps, s)
    <3>1. s \in Protected \cap Kept(p)
      BY <1>10, <2>2
    <3>2. MeansAtMost(p, Plan, s)
      BY <1>2, <3>1 DEF Sanctioned, KeepsMeaning
    <3>3. s \in Claims(n) \cap DOMAIN Plan
      BY <2>2, <3>1 DEF Kept
    <3>4. MeansAtMost(Plan, plans[checkpoints[n].opening].steps, s)
      BY <3>3 DEF IInv, ArtifactInv, MeaningKept
    <3>. QED BY <3>2, <3>4 DEF MeansAtMost
  <2>3. \A n \in Numbers : plans'[checkpoints[n].opening] = plans[checkpoints[n].opening]
    BY <1>5, <1>7 DEF Grounded
  <2>. QED BY <1>3, <1>5, <1>6, <2>1, <2>2, <2>3 DEF MeaningKept
<1>12. LossesKnown'
  <2>1. SUFFICES ASSUME NEW n \in Numbers,
                        NEW i \in checkpoints[n].opening + 1 .. Len(plans) + 1
                 PROVE  LossKnown(n, i)'
    BY <1>3, <1>5, <1>6 DEF LossesKnown
  <2>2. checkpoints[n].opening \in 1 .. Len(plans)
    BY <1>4, <1>7 DEF Grounded
  <2>3. i \in Nat /\ i - 1 \in DOMAIN plans /\ plans'[i - 1] = plans[i - 1]
    BY <1>4, <1>5, <2>1, <2>2
  <2>4. CASE i \in DOMAIN plans
    <3>1. LossKnown(n, i)
      BY <1>4, <2>1, <2>2, <2>4 DEF IInv, ArtifactInv, LossesKnown
    <3>. QED BY <1>5, <1>6, <2>3, <2>4, <3>1 DEF LossKnown
  <2>5. CASE i = Len(plans) + 1
    <3>1. plans'[i] = q /\ plans'[i - 1].steps = Plan
      BY <1>4, <1>5, <2>3, <2>5
    <3>2. ASSUME NEW s \in Claims(n), s \in DOMAIN Plan, s \in DOMAIN p
          PROVE  Rubric(Plan, s) \ Rubric(p, s) \subseteq q.acked
      <4>1. s \in Protected \cap Kept(p)
        BY <1>10, <3>2
      <4>2. Rubric(Plan, s) \ Rubric(p, s) \subseteq Removed(p, Protected)
        BY <4>1 DEF Removed
      <4>. QED BY <1>2, <4>2 DEF Sanctioned, NarrowsKnown
    <3>3. ASSUME NEW s \in Claims(n), s \in DOMAIN Plan, s \notin DOMAIN p
          PROVE  s \in q.acked
      <4>1. s \in Dropped(p)
        BY <3>3 DEF Dropped
      <4>2. s \notin OpenDeclared
        BY <1>2, <4>1 DEF Sanctioned, KeepsOpen
      <4>3. s \in Protected
        BY <1>7, <3>3, ClaimsWithin DEF IInv
      <4>. QED BY <1>2, <4>1, <4>2, <4>3 DEF Protected, Sanctioned, DropsKnown
    <3>. QED BY <1>6, <3>1, <3>2, <3>3 DEF LossKnown
  <2>. QED BY <1>4, <2>1, <2>2, <2>4, <2>5
<1>13. OpenAtHome' /\ WorkStaysHome' /\ CompletedIsWhole'
  BY <1>3, SameOwnership DEF IInv
<1>14. Moved /\ MovedExecution
  BY <1>3 DEF Moved, MovedExecution, execution
<1>15. /\ checkpoints' \in Seq(CheckpointRows) /\ summaries' \in Seq(0 .. MaxHead)
       /\ bindings' \in Seq(Contexts \cup {None}) /\ bindings' # <<>>
       /\ recovery' \subseteq Numbers'
  BY <1>3, <1>6 DEF IInv, TypeOK, execution
<1>16. ArtifactInv'
  BY <1>6, <1>8, <1>9, <1>11, <1>12 DEF ArtifactInv
<1>. QED BY <1>3, <1>5, <1>13, <1>14, <1>15, <1>16, Settled

LEMMA SettleOpenStep ==
  ASSUME IInv, NEW a \in Agents, SettleOpen(a)
  PROVE  IInv'
<1>1. PICK e \in Events : e = event[a] /\ e.type = "opened" /\ Sound(e)
  BY Deciders DEF SettleOpen
<1>0. PICK N : N = Len(checkpoints) + 1
  OBVIOUS
<1>. DEFINE k == [status |-> "open", declared |-> e.declared, opening |-> e.opening,
                  done |-> {}, evidence |-> {}, generation |-> Generation,
                  openedAt |-> context[a], endedAt |-> None]
<1>2. /\ checkpoints' = Append(checkpoints, k) /\ plans' = plans /\ Plan' = Plan
      /\ bindings' = bindings /\ recovery' = recovery /\ summaries' = summaries
      /\ Owner' = Owner /\ Active' = Active
      /\ Moved /\ MovedExecution /\ Eligible(a)
  BY <1>1 DEF SettleOpen, Moved, MovedExecution, Plan, Last, Owner, Active
<1>3. context[a] \in Contexts /\ Done(a) /\ UNCHANGED trees
  BY Deciders DEF SettleOpen
<1>4. /\ bindings \in Seq(Contexts \cup {None}) /\ Generation \in Nat \ {0}
      /\ Generation \in DOMAIN bindings /\ bindings[Generation] = Owner
  BY LastIn DEF IInv, TypeOK, Generation, Owner, Last
<1>5. /\ e.opening = Len(plans) /\ e.declared \subseteq DOMAIN Plan
      /\ e.declared \cap Protected = {} /\ e.declared \subseteq Steps
      /\ Len(plans) \in DOMAIN plans /\ Len(plans) \in Nat \ {0}
      /\ Plan = plans[Len(plans)].steps
  BY <1>1, EventShape, PlanType DEF Sound, IInv
<1>6. /\ k \in CheckpointRows /\ k.status = "open" /\ k.declared = e.declared
      /\ k.opening = Len(plans) /\ k.done = {} /\ k.generation = Generation
      /\ k.openedAt = context[a]
  BY <1>3, <1>4, <1>5 DEF CheckpointRows
<1>. HIDE DEF k
<1>7. /\ checkpoints' \in Seq(CheckpointRows) /\ Numbers' = Numbers \cup {N}
      /\ N \notin Numbers /\ checkpoints'[N] = k
      /\ \A n \in Numbers : checkpoints'[n] = checkpoints[n]
  <2>1. checkpoints \in Seq(CheckpointRows)
    BY DEF IInv, TypeOK
  <2>2. /\ Append(checkpoints, k) \in Seq(CheckpointRows) /\ Len(checkpoints) \in Nat
        /\ DOMAIN Append(checkpoints, k) = 1 .. N /\ DOMAIN checkpoints = 1 .. Len(checkpoints)
        /\ Append(checkpoints, k)[N] = k
        /\ \A n \in DOMAIN checkpoints : Append(checkpoints, k)[n] = checkpoints[n]
    BY <1>0, <1>6, <2>1, Appended
  <2>. QED BY <1>0, <1>2, <2>2 DEF Numbers
<1>8. /\ Open' = Open \cup {N} /\ OpenDeclared' = OpenDeclared \cup e.declared
      /\ Claims(N)' = e.declared /\ \A n \in Numbers : Claims(n)' = Claims(n)
  <2>1. Open' = Open \cup {N}
    BY <1>6, <1>7 DEF Open
  <2>2. \A n \in Open : checkpoints'[n].declared = checkpoints[n].declared
    BY <1>7 DEF Open
  <2>3. OpenDeclared' = OpenDeclared \cup e.declared
    BY <1>6, <1>7, <2>1, <2>2 DEF OpenDeclared
  <2>. QED BY <1>6, <1>7, <2>1, <2>3 DEF Claims
<1>9. \A n \in Numbers : Grounded(n)
  BY DEF IInv, ArtifactInv
<1>10. \A n \in Numbers' : Grounded(n)'
  <2>1. ASSUME NEW n \in Numbers PROVE Grounded(n)'
    BY <1>2, <1>7, <1>9 DEF Grounded, RequiredEvidence
  <2>2. Grounded(N)'
    BY <1>2, <1>5, <1>6, <1>7 DEF Grounded
  <2>. QED BY <1>7, <2>1, <2>2
<1>11. ClaimsDisjoint'
  <2>1. ASSUME NEW n \in Numbers PROVE Claims(n) \cap e.declared = {}
    BY <1>5, <1>9, <2>1, ClaimsWithin DEF IInv
  <2>. QED BY <1>7, <1>8, <2>1 DEF IInv, ArtifactInv, ClaimsDisjoint
<1>12. MeaningKept'
  <2>1. OpenDeclared' \subseteq DOMAIN Plan
    BY <1>5, <1>8 DEF IInv, ArtifactInv, MeaningKept
  <2>2. \A s \in e.declared : MeansAtMost(Plan, Plan, s)
    BY <1>5 DEF MeansAtMost
  <2>3. ASSUME NEW n \in Numbers', NEW s \in Claims(n)' \cap DOMAIN Plan
        PROVE  MeansAtMost(Plan, plans[checkpoints'[n].opening].steps, s)
    <3>1. CASE n = N
      BY <1>5, <1>6, <1>7, <1>8, <2>2, <2>3, <3>1
    <3>2. CASE n \in Numbers
      BY <1>7, <1>8, <2>3, <3>2 DEF IInv, ArtifactInv, MeaningKept
    <3>. QED BY <1>7, <3>1, <3>2
  <2>. QED BY <1>2, <2>1, <2>3 DEF MeaningKept
<1>13. LossesKnown'
  <2>1. SUFFICES ASSUME NEW n \in Numbers', NEW i \in checkpoints'[n].opening + 1 .. Len(plans)
                 PROVE  LossKnown(n, i)'
    BY <1>2 DEF LossesKnown
  <2>2. CASE n = N
    BY <1>5, <1>6, <1>7, <2>1, <2>2
  <2>3. CASE n \in Numbers
    <3>1. LossKnown(n, i)
      BY <1>7, <2>1, <2>3 DEF IInv, ArtifactInv, LossesKnown
    <3>. QED BY <1>2, <1>8, <2>3, <3>1 DEF LossKnown
  <2>. QED BY <1>7, <2>2, <2>3
<1>14. /\ Active /\ recovery = {} /\ summaries = <<>> /\ Owner \in Contexts
       /\ SameContext(context[a], Owner)
       /\ \A n \in Open : SameContext(checkpoints[n].openedAt, Owner)
  BY <1>2, EligibleOpen
<1>15. OpenAtHome'
  <2>1. SameContext(checkpoints'[N].openedAt, Owner)
    BY <1>6, <1>7, <1>14
  <2>2. \A n \in Open : SameContext(checkpoints'[n].openedAt, Owner)
    BY <1>7, <1>14 DEF Open
  <2>. QED BY <1>2, <1>8, <2>1, <2>2 DEF OpenAtHome, SameContext
<1>16. WorkStaysHome'
  <2>1. SUFFICES ASSUME NEW n \in Numbers'
                 PROVE  LET r == checkpoints'[n]
                        IN  /\ r.generation \in DOMAIN bindings
                            /\ bindings[r.generation] # None
                            /\ SameContext(r.openedAt, bindings[r.generation])
                            /\ r.status # "open" => SameContext(r.endedAt, r.openedAt)
    BY <1>2 DEF WorkStaysHome, SameContext
  <2>2. CASE n = N
    BY <1>4, <1>6, <1>7, <1>14, <2>2, NoneIsNoContext
  <2>3. CASE n \in Numbers
    BY <1>7, <2>3 DEF IInv, WorkStaysHome
  <2>. QED BY <1>7, <2>2, <2>3
<1>17. CompletedIsWhole'
  BY <1>2, <1>14 DEF CompletedIsWhole
<1>18. ArtifactInv'
  BY <1>10, <1>11, <1>12, <1>13 DEF ArtifactInv
<1>19. /\ plans' \in Seq(Revisions) /\ plans' # <<>> /\ summaries' \in Seq(0 .. MaxHead)
       /\ bindings' \in Seq(Contexts \cup {None}) /\ bindings' # <<>>
       /\ recovery' \subseteq Numbers'
  BY <1>2, <1>7 DEF IInv, TypeOK
<1>. QED BY <1>2, <1>3, <1>7, <1>15, <1>16, <1>17, <1>18, <1>19, Settled

(* An open checkpoint is closed or abandoned. *)
LEMMA Ending ==
  ASSUME IInv, NEW a \in Agents, Eligible(a), context[a] \in Contexts,
         NEW m \in Open, NEW k \in CheckpointRows,
         checkpoints' = [checkpoints EXCEPT ![m] = k],
         UNCHANGED <<plans, summaries, execution>>,
         k.status \in {"closed", "abandoned"}, k.declared = checkpoints[m].declared,
         k.opening = checkpoints[m].opening, k.generation = checkpoints[m].generation,
         k.openedAt = checkpoints[m].openedAt, k.done \subseteq k.declared,
         k.status = "closed" => k.evidence = RequiredEvidence(m, k.done),
         k.endedAt = context[a]
  PROVE  /\ checkpoints' \in Seq(CheckpointRows) /\ Numbers' = Numbers
         /\ ArtifactInv' /\ OpenAtHome' /\ WorkStaysHome' /\ CompletedIsWhole'
<1>1. /\ plans' = plans /\ Plan' = Plan /\ summaries' = summaries /\ bindings' = bindings
      /\ recovery' = recovery /\ Owner' = Owner /\ Active' = Active
  BY DEF execution, Plan, Last, Owner, Active
<1>2. m \in Numbers /\ checkpoints[m].status = "open"
  BY DEF Open
<1>3. /\ checkpoints' \in Seq(CheckpointRows) /\ Numbers' = Numbers /\ checkpoints'[m] = k
      /\ \A n \in Numbers : n # m => checkpoints'[n] = checkpoints[n]
  <2>1. checkpoints \in Seq(CheckpointRows) /\ m \in 1 .. Len(checkpoints)
    BY <1>2 DEF IInv, TypeOK, Numbers
  <2>2. checkpoints' \in Seq(CheckpointRows)
    BY <2>1, ExceptSeq
  <2>. QED BY <1>2, <2>1, <2>2 DEF Numbers
<1>4. \A n \in Numbers : Grounded(n)
  BY DEF IInv, ArtifactInv
<1>5. /\ Open' = Open \ {m} /\ OpenDeclared' \subseteq OpenDeclared
      /\ \A n \in Numbers : n # m => Claims(n)' = Claims(n)
      /\ Claims(m)' \subseteq Claims(m)
  <2>1. Open' = Open \ {m}
    BY <1>2, <1>3 DEF Open
  <2>2. \A n \in Open' : n \in Open /\ checkpoints'[n].declared = checkpoints[n].declared
    BY <1>3, <2>1 DEF Open
  <2>3. OpenDeclared' \subseteq OpenDeclared
    BY <2>2 DEF OpenDeclared
  <2>. QED BY <1>2, <1>3, <2>1, <2>3 DEF Claims
<1>6. \A n \in Numbers : Claims(n)' \subseteq Claims(n)
  BY <1>5
<1>7. \A n \in Numbers : checkpoints'[n].opening = checkpoints[n].opening
  BY <1>3
<1>8. \A n \in Numbers' : Grounded(n)'
  <2>1. ASSUME NEW n \in Numbers, n # m PROVE Grounded(n)'
    BY <1>1, <1>3, <1>4, <2>1 DEF Grounded, RequiredEvidence
  <2>2. Grounded(m)'
    BY <1>1, <1>2, <1>3, <1>4 DEF Grounded, RequiredEvidence
  <2>. QED BY <1>3, <2>1, <2>2
<1>9. ClaimsDisjoint'
  BY <1>3, <1>6 DEF IInv, ArtifactInv, ClaimsDisjoint
<1>10. MeaningKept'
  BY <1>1, <1>3, <1>5, <1>6, <1>7 DEF IInv, ArtifactInv, MeaningKept
<1>11. LossesKnown'
  <2>1. SUFFICES ASSUME NEW n \in Numbers, NEW i \in checkpoints[n].opening + 1 .. Len(plans)
                 PROVE  LossKnown(n, i)'
    BY <1>1, <1>3, <1>7 DEF LossesKnown
  <2>2. LossKnown(n, i)
    BY <2>1 DEF IInv, ArtifactInv, LossesKnown
  <2>. QED BY <1>1, <1>6, <2>2 DEF LossKnown
<1>12. SameContext(context[a], checkpoints[m].openedAt)
  BY EligibleOpen DEF SameContext
<1>13. OpenAtHome'
  <2>1. \A n \in Open \ {m} : SameContext(checkpoints'[n].openedAt, Owner)
    BY <1>3, EligibleOpen DEF Open
  <2>. QED BY <1>1, <1>5, <2>1 DEF OpenAtHome, SameContext
<1>14. WorkStaysHome'
  <2>1. SUFFICES ASSUME NEW n \in Numbers
                 PROVE  LET r == checkpoints'[n]
                        IN  /\ r.generation \in DOMAIN bindings
                            /\ bindings[r.generation] # None
                            /\ SameContext(r.openedAt, bindings[r.generation])
                            /\ r.status # "open" => SameContext(r.endedAt, r.openedAt)
    BY <1>1, <1>3 DEF WorkStaysHome, SameContext
  <2>2. CASE n = m
    BY <1>2, <1>3, <1>12, <2>2 DEF IInv, WorkStaysHome
  <2>3. CASE n # m
    BY <1>3, <2>3 DEF IInv, WorkStaysHome
  <2>. QED BY <2>2, <2>3
<1>15. CompletedIsWhole'
  BY <1>1, <1>5 DEF IInv, CompletedIsWhole
<1>. QED BY <1>3, <1>8, <1>9, <1>10, <1>11, <1>13, <1>14, <1>15 DEF ArtifactInv

LEMMA SettleCloseStep ==
  ASSUME IInv, NEW a \in Agents, SettleClose(a)
  PROVE  IInv'
<1>1. PICK e \in Events : e = event[a] /\ e.type = "closed" /\ Sound(e)
  BY Deciders DEF SettleClose
<1>2. PICK m : m = e.n
  OBVIOUS
<1>. DEFINE k == [checkpoints[m] EXCEPT !.status = "closed", !.done = e.done,
                                        !.evidence = e.evidence, !.endedAt = context[a]]
<1>3. context[a] \in Contexts /\ Done(a) /\ UNCHANGED trees
  BY Deciders DEF SettleClose
<1>4. /\ m \in Open /\ e.done \subseteq checkpoints[m].declared
      /\ e.evidence = RequiredEvidence(m, e.done)
      /\ e.done \subseteq Steps /\ e.evidence \subseteq Criteria
  BY <1>1, <1>2, EventShape DEF Sound
<1>5. checkpoints \in Seq(CheckpointRows) /\ m \in DOMAIN checkpoints
      /\ checkpoints[m] \in CheckpointRows
  BY <1>4, RowType DEF IInv, TypeOK, Open, Numbers
<1>6. /\ k \in CheckpointRows /\ k.status = "closed" /\ k.done = e.done
      /\ k.evidence = e.evidence /\ k.endedAt = context[a]
      /\ k.declared = checkpoints[m].declared /\ k.opening = checkpoints[m].opening
      /\ k.generation = checkpoints[m].generation /\ k.openedAt = checkpoints[m].openedAt
  BY <1>3, <1>4, <1>5 DEF CheckpointRows
<1>7. checkpoints' = [checkpoints EXCEPT ![m] = k]
  BY <1>1, <1>2, <1>5 DEF SettleClose, CheckpointRows
<1>8. /\ UNCHANGED <<plans, summaries, execution>> /\ Moved /\ MovedExecution /\ Eligible(a)
  BY DEF SettleClose, Moved, MovedExecution, execution
<1>. HIDE DEF k
<1>9. /\ checkpoints' \in Seq(CheckpointRows) /\ Numbers' = Numbers
      /\ ArtifactInv' /\ OpenAtHome' /\ WorkStaysHome' /\ CompletedIsWhole'
  BY <1>3, <1>4, <1>6, <1>7, <1>8, Ending
<1>10. /\ plans' \in Seq(Revisions) /\ plans' # <<>> /\ summaries' \in Seq(0 .. MaxHead)
       /\ bindings' \in Seq(Contexts \cup {None}) /\ bindings' # <<>>
       /\ recovery' \subseteq Numbers'
  BY <1>8, <1>9 DEF IInv, TypeOK, execution
<1>. QED BY <1>3, <1>8, <1>9, <1>10, Settled

LEMMA SettleAbandonStep ==
  ASSUME IInv, NEW a \in Agents, SettleAbandon(a)
  PROVE  IInv'
<1>1. PICK e \in Events : e = event[a] /\ e.type = "abandoned" /\ Sound(e)
  BY Deciders DEF SettleAbandon
<1>2. PICK m : m = e.n
  OBVIOUS
<1>. DEFINE k == [checkpoints[m] EXCEPT !.status = "abandoned", !.endedAt = context[a]]
<1>3. context[a] \in Contexts /\ Done(a) /\ UNCHANGED trees
  BY Deciders DEF SettleAbandon
<1>4. m \in Open
  BY <1>1, <1>2 DEF Sound
<1>5. checkpoints \in Seq(CheckpointRows) /\ m \in DOMAIN checkpoints
      /\ checkpoints[m] \in CheckpointRows
      /\ checkpoints[m].done \subseteq checkpoints[m].declared
  BY <1>4, RowType DEF IInv, TypeOK, Open, Numbers, ArtifactInv, Grounded
<1>6. /\ k \in CheckpointRows /\ k.status = "abandoned" /\ k.done \subseteq k.declared
      /\ k.endedAt = context[a]
      /\ k.declared = checkpoints[m].declared /\ k.opening = checkpoints[m].opening
      /\ k.generation = checkpoints[m].generation /\ k.openedAt = checkpoints[m].openedAt
  BY <1>3, <1>5 DEF CheckpointRows
<1>7. checkpoints' = [checkpoints EXCEPT ![m] = k]
  BY <1>1, <1>2, <1>5 DEF SettleAbandon, CheckpointRows
<1>8. /\ UNCHANGED <<plans, summaries, execution>> /\ Moved /\ MovedExecution /\ Eligible(a)
  BY DEF SettleAbandon, Moved, MovedExecution, execution
<1>. HIDE DEF k
<1>9. /\ checkpoints' \in Seq(CheckpointRows) /\ Numbers' = Numbers
      /\ ArtifactInv' /\ OpenAtHome' /\ WorkStaysHome' /\ CompletedIsWhole'
  BY <1>3, <1>4, <1>6, <1>7, <1>8, Ending
<1>10. /\ plans' \in Seq(Revisions) /\ plans' # <<>> /\ summaries' \in Seq(0 .. MaxHead)
       /\ bindings' \in Seq(Contexts \cup {None}) /\ bindings' # <<>>
       /\ recovery' \subseteq Numbers'
  BY <1>8, <1>9 DEF IInv, TypeOK, execution
<1>. QED BY <1>3, <1>8, <1>9, <1>10, Settled

LEMMA SettleSummaryStep ==
  ASSUME IInv, NEW a \in Agents, SettleSummary(a)
  PROVE  IInv'
<1>1. PICK e \in Events : e = event[a] /\ e.type = "summarised" /\ Sound(e)
  BY Deciders DEF SettleSummary
<1>2. /\ summaries' = Append(summaries, e.head) /\ bindings' = Append(bindings, None)
      /\ plans' = plans /\ checkpoints' = checkpoints /\ recovery' = recovery
      /\ Open = {} /\ Eligible(a) /\ Moved /\ MovedExecution
      /\ Done(a) /\ UNCHANGED trees
  BY <1>1, Deciders DEF SettleSummary, Moved, MovedExecution
<1>3. summaries \in Seq(0 .. MaxHead) /\ e.head \in 0 .. MaxHead /\ summaries = <<>>
  BY <1>1, <1>2, EventShape, EligibleOpen DEF IInv, TypeOK
<1>4. summaries' \in Seq(0 .. MaxHead) /\ summaries' # <<>> /\ DOMAIN summaries' = 1 .. 1
  <2>1. /\ Append(summaries, e.head) \in Seq(0 .. MaxHead) /\ Append(summaries, e.head) # <<>>
        /\ DOMAIN Append(summaries, e.head) = 1 .. Len(summaries) + 1
    BY <1>3, Appended
  <2>. QED BY <1>2, <1>3, <2>1
<1>5. /\ bindings \in Seq(Contexts \cup {None}) /\ bindings' \in Seq(Contexts \cup {None})
      /\ bindings' # <<>> /\ Last(bindings') = None /\ DOMAIN bindings \subseteq DOMAIN bindings'
      /\ \A i \in DOMAIN bindings : bindings'[i] = bindings[i]
  <2>1. bindings \in Seq(Contexts \cup {None}) /\ None \in Contexts \cup {None}
    BY DEF IInv, TypeOK
  <2>2. /\ Append(bindings, None) \in Seq(Contexts \cup {None}) /\ Append(bindings, None) # <<>>
        /\ Last(Append(bindings, None)) = None /\ Len(bindings) \in Nat
        /\ DOMAIN bindings = 1 .. Len(bindings)
        /\ DOMAIN Append(bindings, None) = 1 .. Len(bindings) + 1
        /\ \A i \in DOMAIN bindings : Append(bindings, None)[i] = bindings[i]
    BY <2>1, Appended
  <2>. QED BY <1>2, <2>1, <2>2
<1>6. ~Active' /\ Numbers' = Numbers /\ Open' = {} /\ recovery = {}
  BY <1>2, <1>5, SameArtifact, EligibleOpen DEF Active, Owner
<1>7. OpenAtHome'
  BY <1>6 DEF OpenAtHome
<1>8. WorkStaysHome'
  BY <1>2, <1>5, <1>6 DEF IInv, WorkStaysHome, SameContext
<1>9. CompletedIsWhole'
  <2>1. \A i, j \in DOMAIN summaries' : summaries'[i] = summaries'[j]
    BY <1>4
  <2>. QED BY <1>2, <1>4, <1>6, <2>1 DEF CompletedIsWhole
<1>10. ArtifactInv'
  BY <1>2, SameArtifactInv DEF IInv
<1>11. /\ plans' \in Seq(Revisions) /\ plans' # <<>> /\ checkpoints' \in Seq(CheckpointRows)
       /\ recovery' \subseteq Numbers'
  BY <1>2, <1>6 DEF IInv, TypeOK
<1>. QED BY <1>2, <1>4, <1>5, <1>7, <1>8, <1>9, <1>10, <1>11, Settled

LEMMA SettleAmendmentStep ==
  ASSUME IInv, NEW a \in Agents, SettleAmendment(a)
  PROVE  IInv'
<1>1. PICK e \in Events : e = event[a] /\ e.type = "summarised" /\ Sound(e)
  BY Deciders DEF SettleAmendment
<1>2. /\ summaries' = Append(summaries, e.head) /\ plans' = plans /\ checkpoints' = checkpoints
      /\ recovery' = recovery /\ bindings' = bindings /\ Active' = Active /\ Owner' = Owner
      /\ ~Active /\ Moved /\ MovedExecution /\ Done(a) /\ UNCHANGED trees
  BY <1>1, Deciders
    DEF SettleAmendment, Moved, MovedExecution, execution, Active, Owner, Last
<1>3. /\ summaries \in Seq(0 .. MaxHead) /\ e.head \in 0 .. MaxHead /\ summaries # <<>>
      /\ e.head = Last(summaries) /\ recovery = {} /\ Open = {}
  BY <1>1, <1>2, EventShape DEF IInv, TypeOK, CompletedIsWhole, Sound
<1>4. /\ summaries' \in Seq(0 .. MaxHead) /\ summaries' # <<>>
      /\ DOMAIN summaries' = DOMAIN summaries \cup {Len(summaries) + 1}
      /\ summaries'[Len(summaries) + 1] = Last(summaries)
      /\ \A i \in DOMAIN summaries : summaries'[i] = summaries[i]
  <2>1. /\ Append(summaries, e.head) \in Seq(0 .. MaxHead) /\ Append(summaries, e.head) # <<>>
        /\ DOMAIN Append(summaries, e.head) = 1 .. Len(summaries) + 1
        /\ DOMAIN summaries = 1 .. Len(summaries) /\ Len(summaries) \in Nat
        /\ Append(summaries, e.head)[Len(summaries) + 1] = e.head
        /\ \A i \in DOMAIN summaries : Append(summaries, e.head)[i] = summaries[i]
    BY <1>3, Appended
  <2>. QED BY <1>2, <1>3, <2>1
<1>5. Len(summaries) \in DOMAIN summaries /\ Last(summaries) = summaries[Len(summaries)]
  BY <1>3, LastIn DEF Last
<1>6. Numbers' = Numbers /\ Open' = Open
  BY <1>2, SameArtifact
<1>7. OpenAtHome'
  BY <1>3, <1>6 DEF OpenAtHome
<1>8. WorkStaysHome'
  BY <1>2, <1>6 DEF IInv, WorkStaysHome, SameContext
<1>9. CompletedIsWhole'
  <2>1. \A i \in DOMAIN summaries : summaries[i] = Last(summaries)
    BY <1>5 DEF IInv, CompletedIsWhole
  <2>2. \A i \in DOMAIN summaries' : summaries'[i] = Last(summaries)
    BY <1>4, <2>1
  <2>. QED BY <1>2, <1>3, <1>4, <1>6, <2>2 DEF CompletedIsWhole
<1>10. ArtifactInv'
  BY <1>2, SameArtifactInv DEF IInv
<1>11. /\ plans' \in Seq(Revisions) /\ plans' # <<>> /\ checkpoints' \in Seq(CheckpointRows)
       /\ recovery' \subseteq Numbers'
       /\ bindings' \in Seq(Contexts \cup {None}) /\ bindings' # <<>>
  BY <1>2, <1>6 DEF IInv, TypeOK
<1>. QED BY <1>2, <1>4, <1>7, <1>8, <1>9, <1>10, <1>11, Settled

LEMMA PublishCheckoutStep ==
  ASSUME IInv, NEW a \in Agents, PublishCheckout(a)
  PROVE  IInv'
<1>1. PICK e \in Events : e = event[a] /\ e.type = "checkout" /\ Sound(e)
  BY Deciders DEF PublishCheckout
<1>2. /\ bindings' = Append(bindings, context[a]) /\ recovery' = e.open
      /\ plans' = plans /\ checkpoints' = checkpoints /\ summaries' = summaries
      /\ Moved /\ MovedExecution /\ Done(a) /\ UNCHANGED trees
      /\ context[a] \in Contexts /\ Active
  BY <1>1, Deciders DEF PublishCheckout, Moved, MovedExecution, artifact
<1>3. recovery' = Open
  BY <1>1, <1>2 DEF Sound
<1>4. /\ bindings' \in Seq(Contexts \cup {None}) /\ bindings' # <<>>
      /\ Last(bindings') = context[a] /\ DOMAIN bindings \subseteq DOMAIN bindings'
      /\ \A i \in DOMAIN bindings : bindings'[i] = bindings[i]
  <2>. DEFINE t == Append(bindings, context[a])
  <2>1. bindings \in Seq(Contexts \cup {None}) /\ context[a] \in Contexts \cup {None}
    BY <1>2 DEF IInv, TypeOK
  <2>2. /\ t \in Seq(Contexts \cup {None}) /\ t # <<>> /\ Last(t) = context[a]
        /\ Len(bindings) \in Nat /\ DOMAIN bindings = 1 .. Len(bindings)
        /\ DOMAIN t = 1 .. Len(bindings) + 1 /\ \A i \in DOMAIN bindings : t[i] = bindings[i]
    BY <2>1, Appended
  <2>. QED BY <1>2, <2>1, <2>2
<1>5. Active' /\ Numbers' = Numbers /\ Open' = Open
  BY <1>2, <1>4, SameArtifact, NoneIsNoContext DEF Active, Owner
<1>6. OpenAtHome'
  BY <1>3, <1>5 DEF OpenAtHome
<1>7. WorkStaysHome'
  BY <1>2, <1>4, <1>5 DEF IInv, WorkStaysHome, SameContext
<1>8. CompletedIsWhole'
  BY <1>2, <1>5 DEF IInv, CompletedIsWhole
<1>9. ArtifactInv'
  BY <1>2, SameArtifactInv DEF IInv
<1>10. /\ plans' \in Seq(Revisions) /\ plans' # <<>> /\ checkpoints' \in Seq(CheckpointRows)
       /\ summaries' \in Seq(0 .. MaxHead) /\ recovery' \subseteq Numbers'
  BY <1>2, <1>3, <1>5 DEF IInv, TypeOK, Open
<1>. QED BY <1>2, <1>4, <1>6, <1>7, <1>8, <1>9, <1>10, Settled

-----------------------------------------------------------------------------
(* The repository, and everything *)

LEMMA RepositoryStep ==
  ASSUME IInv, NEW w \in Worktrees, Move(w) \/ Remove(w)
  PROVE  IInv'
<1>1. UNCHANGED <<artifact, execution, command>>
  BY DEF Move, Remove
<1>2. trees' \in [Worktrees -> [branch : Branches, head : 0 .. MaxHead] \cup {None}]
  <2>1. CASE Move(w)
    BY <2>1 DEF IInv, TypeOK, Move
  <2>2. CASE Remove(w)
    BY <2>2 DEF IInv, TypeOK, Remove
  <2>. QED BY <2>1, <2>2
<1>4. TypeOK'
  BY <1>1, <1>2 DEF IInv, TypeOK, artifact, execution, command, Numbers
<1>5. ArtifactInv' /\ OpenAtHome' /\ WorkStaysHome' /\ CompletedIsWhole'
  BY <1>1, SameArtifactInv, SameOwnership DEF IInv, artifact
<1>6. ASSUME NEW a \in Agents PROVE CommandInv(a)'
  BY <1>1, <1>6, OtherCommand
    DEF IInv, TypeOK, Moved, MovedExecution, artifact, execution, command
<1>. QED BY <1>4, <1>5, <1>6 DEF IInv

LEMMA Idles ==
  ASSUME IInv, UNCHANGED vars
  PROVE  IInv'
<1>1. TypeOK'
  BY DEF IInv, TypeOK, vars, artifact, execution, command, Numbers
<1>2. ArtifactInv' /\ OpenAtHome' /\ WorkStaysHome' /\ CompletedIsWhole'
  BY SameArtifactInv, SameOwnership DEF IInv, artifact, vars
<1>3. ASSUME NEW a \in Agents PROVE CommandInv(a)'
  BY <1>3, OtherCommand
    DEF IInv, TypeOK, Moved, MovedExecution, vars, artifact, execution, command
<1>. QED BY <1>1, <1>2, <1>3 DEF IInv

LEMMA Initially == Init => IInv
<1>. SUFFICES ASSUME Init PROVE IInv
  OBVIOUS
<1>1. PICK p \in Plans : plans = <<[steps |-> p, acked |-> {}]>>
  BY LifecycleAssumption DEF Init
<1>2. PICK w \in Worktrees : bindings = <<At(w)>>
  BY DEF Init
<1>3. /\ checkpoints = <<>> /\ summaries = <<>> /\ revision = 1 /\ recovery = {}
      /\ version = 1 /\ pc = [a \in Agents |-> "idle"]
  BY DEF Init
<1>4. MaxHead \in Nat
  BY LifecycleAssumption
<1>5. trees \in [Worktrees -> [branch : Branches, head : 0 .. MaxHead]]
  BY <1>4 DEF Init
<1>6. At(w) \in Contexts
  BY <1>5 DEF At, Contexts
<1>7. [steps |-> p, acked |-> {}] \in Revisions
  BY DEF Revisions
<1>8. plans \in Seq(Revisions) /\ plans # <<>>
  BY <1>1, <1>7
<1>9. bindings \in Seq(Contexts \cup {None}) /\ bindings # <<>> /\ Owner = At(w)
  BY <1>2, <1>6 DEF Owner, Last
<1>10. Active
  BY <1>6, <1>9, NoneIsNoContext DEF Active
<1>11. Numbers = {} /\ Open = {} /\ Closed = {} /\ OpenDeclared = {}
  BY <1>3 DEF Numbers, Open, Closed, OpenDeclared
<1>12. TypeOK
  BY <1>3, <1>5, <1>8, <1>9 DEF TypeOK, Init
<1>13. ArtifactInv
  BY <1>11 DEF ArtifactInv, ClaimsDisjoint, MeaningKept, LossesKnown
<1>14. OpenAtHome /\ WorkStaysHome /\ CompletedIsWhole
  BY <1>3, <1>10, <1>11 DEF OpenAtHome, WorkStaysHome, CompletedIsWhole
<1>15. \A a \in Agents : CommandInv(a)
  BY <1>3 DEF CommandInv
<1>. QED BY <1>12, <1>13, <1>14, <1>15 DEF IInv

LEMMA Inductive == IInv /\ [Next]_vars => IInv'
<1>. SUFFICES ASSUME IInv, [Next]_vars PROVE IInv'
  OBVIOUS
<1>1. CASE UNCHANGED vars
  BY <1>1, Idles
<1>2. ASSUME NEW a \in Agents,
             Begin(a) \/ Revise(a) \/ OpenCheckpoint(a) \/ CloseCheckpoint(a)
               \/ AbandonCheckpoint(a) \/ Summarise(a) \/ Withdraw(a)
      PROVE  IInv'
  BY <1>2, BeginStep, ReviseStep, OpenStep, CloseStep, AbandonStep, SummariseStep, WithdrawStep
<1>3. ASSUME NEW a \in Agents, ChangeContext(a) \/ HandOver(a) \/ RecoverOrphaned(a)
      PROVE  IInv'
  BY <1>3, CheckoutStep
<1>4. ASSUME NEW a \in Agents, Settle(a) PROVE IInv'
  BY <1>4, SettleRevisionStep, SettleOpenStep, SettleCloseStep, SettleAbandonStep,
     SettleSummaryStep, SettleAmendmentStep, PublishCheckoutStep DEF Settle
<1>5. ASSUME NEW w \in Worktrees, Move(w) \/ Remove(w) PROVE IInv'
  BY <1>5, RepositoryStep
<1>. QED BY <1>1, <1>2, <1>3, <1>4, <1>5 DEF Next

LEMMA Invariant == Spec => []IInv
<1>. QED BY Initially, Inductive, PTL DEF Spec

-----------------------------------------------------------------------------
(* Theorems *)

(* Every variable keeps its shape. *)
THEOREM TypeCorrect == Spec => []TypeOK
<1>1. IInv => TypeOK
  BY DEF IInv
<1>. QED BY <1>1, Invariant, PTL

(* No step is claimed by two checkpoints: what writeCheckpointOpened decides *)
(* on what it read holds when the event is settled.                          *)
THEOREM ClaimsAreDisjoint == Spec => []ClaimsDisjoint
<1>1. IInv => ClaimsDisjoint
  BY DEF IInv, ArtifactInv
<1>. QED BY <1>1, Invariant, PTL

(* A revision of the plan leaves what is in hand or completed its meaning, *)
(* whichever checkpoints were opened and closed beside it.                 *)
THEOREM MeaningIsKept == Spec => []MeaningKept
<1>1. IInv => MeaningKept
  BY DEF IInv, ArtifactInv
<1>. QED BY <1>1, Invariant, PTL

(* Evidence given against the plan of the opening covers the rubric the *)
(* latest plan shows on a completed step.                               *)
THEOREM CompletedIsEvidenced == Spec => []DoneIsEvidenced
<1>1. ASSUME IInv PROVE DoneIsEvidenced
  <2>1. SUFFICES ASSUME NEW n \in Closed, NEW c \in CriteriaOf(Plan, checkpoints[n].done)
                 PROVE  c \in checkpoints[n].evidence
    BY DEF DoneIsEvidenced
  <2>2. PICK s \in checkpoints[n].done \cap DOMAIN Plan : c \in Rubric(Plan, s)
    BY <2>1 DEF CriteriaOf
  <2>3. n \in Numbers /\ Claims(n) = checkpoints[n].done /\ checkpoints[n].status = "closed"
    BY DEF Closed, Claims
  <2>4. MeansAtMost(Plan, plans[checkpoints[n].opening].steps, s)
    BY <1>1, <2>2, <2>3 DEF IInv, ArtifactInv, MeaningKept
  <2>5. c \in RequiredEvidence(n, checkpoints[n].done)
    BY <2>2, <2>4 DEF MeansAtMost, RequiredEvidence, CriteriaOf
  <2>. QED BY <1>1, <2>3, <2>5 DEF IInv, ArtifactInv, Grounded
<1>. QED BY <1>1, Invariant, PTL

(* What completed work loses is acknowledged by the revision that takes it. *)
THEOREM CompletedLossesAcknowledged == Spec => []LossesAcknowledged
<1>1. ASSUME IInv PROVE LossesAcknowledged
  <2>1. SUFFICES ASSUME NEW n \in Closed, NEW i \in checkpoints[n].opening + 1 .. Len(plans),
                        NEW s \in checkpoints[n].done \cap DOMAIN plans[i - 1].steps
                 PROVE  IF s \in DOMAIN plans[i].steps
                        THEN Rubric(plans[i - 1].steps, s) \ Rubric(plans[i].steps, s)
                               \subseteq plans[i].acked
                        ELSE s \in plans[i].acked
    BY DEF LossesAcknowledged
  <2>2. n \in Numbers /\ Claims(n) = checkpoints[n].done
    BY DEF Closed, Claims
  <2>3. LossKnown(n, i)
    BY <1>1, <2>1, <2>2 DEF IInv, ArtifactInv, LossesKnown
  <2>. QED BY <2>2, <2>3 DEF LossKnown
<1>. QED BY <1>1, Invariant, PTL

(* Whatever takeovers and branch switches come between, a checkpoint is ended *)
(* in the context it was opened in.                                           *)
THEOREM WorkIsEndedAtHome == Spec => []WorkStaysHome
<1>1. IInv => WorkStaysHome
  BY DEF IInv
<1>. QED BY <1>1, Invariant, PTL

(* An artifact has a summary when and only when its execution is completed, *)
(* and nothing is in hand then.                                             *)
THEOREM CompletionIsWhole == Spec => []CompletedIsWhole
<1>1. IInv => CompletedIsWhole
  BY DEF IInv
<1>. QED BY <1>1, Invariant, PTL

(* No command, however stale, changes what a summary concluded. *)
THEOREM SummariesAreFinal == Spec => SummaryIsFinal
<1>1. ASSUME IInv, [Next]_vars
      PROVE  [summaries # <<>> => UNCHANGED <<plans, checkpoints, bindings>>]_vars
  <2>. SUFFICES ASSUME Next, summaries # <<>> PROVE UNCHANGED <<plans, checkpoints, bindings>>
    BY <1>1
  <2>1. ~Active
    BY <1>1 DEF IInv, CompletedIsWhole
  <2>2. ASSUME NEW a \in Agents, Settle(a) PROVE UNCHANGED <<plans, checkpoints, bindings>>
    <3>1. ~Eligible(a)
      BY <2>1 DEF Eligible
    <3>2. ~PublishCheckout(a)
      BY <1>1, <2>1, Deciders DEF PublishCheckout
    <3>3. SettleAmendment(a)
      BY <2>2, <3>1, <3>2
        DEF Settle, SettleRevision, SettleOpen, SettleClose, SettleAbandon, SettleSummary
    <3>. QED BY <3>3 DEF SettleAmendment, execution
  <2>3. CASE UNCHANGED <<artifact, execution>>
    BY <2>3 DEF artifact, execution
  <2>4. ASSUME NEW a \in Agents,
               \/ Begin(a) \/ Revise(a) \/ OpenCheckpoint(a) \/ CloseCheckpoint(a)
               \/ AbandonCheckpoint(a) \/ Summarise(a) \/ Withdraw(a)
               \/ ChangeContext(a) \/ HandOver(a) \/ RecoverOrphaned(a)
        PROVE  UNCHANGED <<artifact, execution>>
    BY <2>4 DEF Begin, Revise, OpenCheckpoint, CloseCheckpoint, AbandonCheckpoint, Summarise,
                Withdraw, ChangeContext, HandOver, RecoverOrphaned, Checkout, Decide
  <2>5. ASSUME NEW w \in Worktrees, Move(w) \/ Remove(w) PROVE UNCHANGED <<artifact, execution>>
    BY <2>5 DEF Move, Remove
  <2>. QED BY <2>2, <2>3, <2>4, <2>5 DEF Next
<1>. QED BY <1>1, Invariant, PTL DEF Spec, SummaryIsFinal
=============================================================================
