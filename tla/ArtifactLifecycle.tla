-------------------------- MODULE ArtifactLifecycle --------------------------
(***************************************************************************)
(* The life of one artifact: its plan and the plan's revisions, the        *)
(* checkpoints opened and closed against them, its summary, and the        *)
(* worktree that owns its execution.                                       *)
(*                                                                         *)
(* A command reads its worktree's Git context, reads the artifact, decides *)
(* in memory on what it read, and settles the event it made in one         *)
(* transaction that first asks whether the artifact or its execution has   *)
(* moved on.  Between those steps anybody may act.                         *)
(*                                                                         *)
(* A plan is a function from step IDs to their text and rubric, a rubric   *)
(* one from criterion IDs to their text.  Revisions, checkpoints and       *)
(* summaries are named by their place in the artifact's history, and a     *)
(* binding's place is its generation.                                      *)
(***************************************************************************)
EXTENDS Integers, Sequences, FiniteSets

CONSTANTS
  Agents, Worktrees, Branches,
  Detached,   \* the branch of a detached HEAD
  None,
  Steps, Criteria,
  Plans,      \* the contents agents write
  First,      \* those they begin with
  MaxEvents, MaxBindings, MaxHead  \* bounds

Contexts == [tree : Worktrees, branch : Branches, head : 0 .. MaxHead]

ASSUME LifecycleAssumption ==
  /\ None \notin Contexts
  /\ First \subseteq Plans
  /\ \A p \in Plans : /\ DOMAIN p \subseteq Steps /\ DOMAIN p # {}
                      /\ \A s \in DOMAIN p : DOMAIN p[s].rubric \subseteq Criteria
  /\ {MaxEvents, MaxBindings, MaxHead} \subseteq Nat

VARIABLES
  plans,        \* the plan's revisions, with what each acknowledged removing
  checkpoints,
  summaries,    \* the HEAD each summary records
  revision,     \* of the artifact's events
  bindings,     \* owners of the execution; None once it is completed
  recovery,     \* checkpoints whose recovery is outstanding
  version,      \* of the execution
  pc,           \* pc[a], where agent a's command stands
  context,      \* context[a], the Git context it read
  seen,         \* seen[a], the revision and version it decided on
  event,        \* event[a], what it is about to settle
  trees         \* trees[w], what worktree w has checked out, or None: it is removed

artifact == <<plans, checkpoints, summaries, revision>>
execution == <<bindings, recovery, version>>
command == <<pc, context, seen, event>>
vars == <<artifact, execution, command, trees>>

-----------------------------------------------------------------------------
(* The artifact, as the fold of its events gives it *)

Last(s) == s[Len(s)]
Plan == Last(plans).steps
Numbers == DOMAIN checkpoints
Open == {n \in Numbers : checkpoints[n].status = "open"}
Closed == {n \in Numbers : checkpoints[n].status = "closed"}
OpenDeclared == UNION {checkpoints[n].declared : n \in Open}
Completed == UNION {checkpoints[n].done : n \in Closed}
Protected == OpenDeclared \cup Completed

Rubric(p, s) == DOMAIN p[s].rubric
CriteriaOf(p, S) == UNION {Rubric(p, s) : s \in S \cap DOMAIN p}
HasRubrics(p) == \A s \in DOMAIN p : Rubric(p, s) # {}

\* No later plan may use an ID of an earlier one that it does not carry.
UsedSteps == UNION {DOMAIN plans[i].steps : i \in DOMAIN plans}
UsedCriteria == UNION {CriteriaOf(plans[i].steps, Steps) : i \in DOMAIN plans}

-----------------------------------------------------------------------------
(* The execution *)

Owner == Last(bindings)
Generation == Len(bindings)
Active == Owner # None

\* A branch is one context wherever it points; a detached HEAD is its commit.
SameContext(x, y) ==
  x.tree = y.tree /\ x.branch = y.branch /\ (x.branch = Detached => x.head = y.head)

\* Bug: the commands of the worktree that lost the execution go on.
EligibleAnywhere(a) == Active /\ recovery = {}

\* Whether agent a's command may change the work in progress.
Eligible(a) == Active /\ SameContext(context[a], Owner) /\ recovery = {}

-----------------------------------------------------------------------------
present == {w \in Worktrees : trees[w] # None}
At(w) == [tree |-> w, branch |-> trees[w].branch, head |-> trees[w].head]

\* The plan is captured in the worktree that becomes its owner.
Init ==
  /\ trees \in [Worktrees -> [branch : Branches, head : {0}]]
  /\ \E p \in {q \in First : HasRubrics(q)} : plans = <<[steps |-> p, acked |-> {}]>>
  /\ \E w \in Worktrees : bindings = <<At(w)>>
  /\ checkpoints = <<>> /\ summaries = <<>> /\ revision = 1
  /\ recovery = {} /\ version = 1
  /\ pc = [a \in Agents |-> "idle"] /\ context = [a \in Agents |-> None]
  /\ seen = [a \in Agents |-> None] /\ event = [a \in Agents |-> None]

\* A command begins: it reads the worktree it runs in.
Begin(a) ==
  /\ pc[a] = "idle"
  /\ \E w \in present : context' = [context EXCEPT ![a] = At(w)]
  /\ pc' = [pc EXCEPT ![a] = "begun"]
  /\ UNCHANGED <<artifact, execution, trees, seen, event>>

\* It reads the artifact, and what it decides on it is event e.
Decide(a, e) ==
  /\ pc[a] = "begun"
  /\ event' = [event EXCEPT ![a] = e]
  /\ seen' = [seen EXCEPT ![a] = [revision |-> revision, version |-> version]]
  /\ pc' = [pc EXCEPT ![a] = "decided"]
  /\ UNCHANGED <<artifact, execution, trees, context>>

-----------------------------------------------------------------------------
(* Revising the plan *)

\* A step or criterion without an ID is minted one, unless a criterion of
\* that step has its very text and is not otherwise kept: then it is carried.
Carries(p) ==
  \A s \in DOMAIN p :
    IF s \in DOMAIN Plan
    THEN \A c \in Rubric(p, s) \ Rubric(Plan, s) :
           /\ c \notin UsedCriteria
           /\ \A d \in Rubric(Plan, s) \ Rubric(p, s) :
                Plan[s].rubric[d] # p[s].rubric[c]
    ELSE s \notin UsedSteps /\ Rubric(p, s) \cap UsedCriteria = {}

Dropped(p) == DOMAIN Plan \ DOMAIN p
Kept(p) == DOMAIN Plan \cap DOMAIN p
Removed(p, S) == UNION {Rubric(Plan, s) \ Rubric(p, s) : s \in S \cap Kept(p)}

\* Open work keeps its steps.
KeepsOpen(p) == Dropped(p) \cap OpenDeclared = {}

\* Completed work leaves the plan only if that is acknowledged.
DropsKnown(p, acked) == Dropped(p) \cap Completed \subseteq acked

\* Bug: criteria may be added.
KeepsText(p) ==
  \A s \in Protected \cap Kept(p) :
    /\ p[s].text = Plan[s].text
    /\ \A c \in Rubric(p, s) \cap Rubric(Plan, s) : p[s].rubric[c] = Plan[s].rubric[c]

\* In plan p step s means what it means in plan q, or less.
MeansAtMost(p, q, s) ==
  /\ s \in DOMAIN q /\ p[s].text = q[s].text
  /\ \A c \in Rubric(p, s) : c \in Rubric(q, s) /\ p[s].rubric[c] = q[s].rubric[c]

\* What open or completed work means is neither rewritten nor extended.
KeepsMeaning(p) == \A s \in Protected \cap Kept(p) : MeansAtMost(p, Plan, s)

\* It is narrowed only if that is acknowledged.
NarrowsKnown(p, acked) == Removed(p, Protected) \subseteq acked

\* Agents acknowledge all they remove or nothing.
Revise(a) ==
  /\ summaries = <<>> /\ revision < MaxEvents
  /\ \E p \in Plans : \E acked \in {{}, Dropped(p) \cup Removed(p, Steps)} :
       /\ Carries(p) /\ KeepsOpen(p) /\ DropsKnown(p, acked) /\ KeepsMeaning(p)
       /\ HasRubrics(p) /\ NarrowsKnown(p, acked)
       /\ Decide(a, [type |-> "revised", plan |-> [steps |-> p, acked |-> acked]])

-----------------------------------------------------------------------------
(* Checkpoints *)

\* Bug: what is completed may be declared again.
OpenOverDone(a) ==
  /\ revision < MaxEvents
  /\ \E declared \in SUBSET DOMAIN Plan :
       /\ declared # {} /\ declared \cap OpenDeclared = {}
       /\ Decide(a, [type |-> "opened", declared |-> declared, opening |-> Len(plans)])

\* A checkpoint declares steps of the latest plan nobody else has in hand or
\* has completed, and remembers the plan it was opened against.
OpenCheckpoint(a) ==
  /\ revision < MaxEvents
  /\ \E declared \in SUBSET DOMAIN Plan :
       /\ declared # {} /\ declared \cap Protected = {}
       /\ Decide(a, [type |-> "opened", declared |-> declared, opening |-> Len(plans)])

\* Evidence covers the rubric of what is completed, as it was at the opening,
\* and nothing else.
RequiredEvidence(n, done) == CriteriaOf(plans[checkpoints[n].opening].steps, done)

CloseCheckpoint(a) ==
  /\ revision < MaxEvents
  /\ \E n \in Open : \E done \in SUBSET checkpoints[n].declared :
       Decide(a, [type |-> "closed", n |-> n, done |-> done,
                  evidence |-> RequiredEvidence(n, done)])

AbandonCheckpoint(a) ==
  /\ revision < MaxEvents
  /\ \E n \in Open : Decide(a, [type |-> "abandoned", n |-> n])

\* Bug: an amendment records the HEAD it is made at.
SummariseHere(a) ==
  /\ pc[a] = "begun" /\ Open = {} /\ revision < MaxEvents
  /\ Decide(a, [type |-> "summarised", amends |-> ~Active, head |-> context[a].head])

\* A second summary amends the first, naming the one it replaces, and takes
\* over the HEAD that one records.
Summarise(a) ==
  /\ pc[a] = "begun" /\ Open = {} /\ revision < MaxEvents
  /\ Decide(a, [type |-> "summarised", amends |-> ~Active,
       head |-> IF summaries = <<>> THEN context[a].head ELSE Last(summaries)])

-----------------------------------------------------------------------------
(* Settling a command's event *)

\* Bug: the artifact may have moved on.
UnmovedUnasked(a) == seen[a] # None

Unmoved(a) == seen[a].revision = revision
SameExecution(a) == seen[a].version = version

\* The command ends.
Done(a) ==
  /\ pc' = [pc EXCEPT ![a] = "idle"]
  /\ context' = [context EXCEPT ![a] = None]
  /\ seen' = [seen EXCEPT ![a] = None]
  /\ event' = [event EXCEPT ![a] = None]

Settling(a, type) ==
  /\ pc[a] = "decided" /\ event[a].type = type
  /\ Unmoved(a) /\ SameExecution(a)
  /\ Done(a) /\ UNCHANGED trees

SettleRevision(a) ==
  /\ Settling(a, "revised") /\ Eligible(a)
  /\ plans' = Append(plans, event[a].plan) /\ revision' = revision + 1
  /\ UNCHANGED <<checkpoints, summaries, execution>>

\* The execution retains the generation the checkpoint was opened under.
SettleOpen(a) ==
  /\ Settling(a, "opened") /\ Eligible(a)
  /\ checkpoints' = Append(checkpoints,
       [status |-> "open", declared |-> event[a].declared, opening |-> event[a].opening,
        done |-> {}, evidence |-> {}, generation |-> Generation,
        openedAt |-> context[a], endedAt |-> None])
  /\ revision' = revision + 1 /\ version' = version + 1
  /\ UNCHANGED <<plans, summaries, bindings, recovery>>

SettleClose(a) ==
  /\ Settling(a, "closed") /\ Eligible(a)
  /\ checkpoints' = [checkpoints EXCEPT ![event[a].n].status = "closed",
       ![event[a].n].done = event[a].done, ![event[a].n].evidence = event[a].evidence,
       ![event[a].n].endedAt = context[a]]
  /\ revision' = revision + 1
  /\ UNCHANGED <<plans, summaries, execution>>

SettleAbandon(a) ==
  /\ Settling(a, "abandoned") /\ Eligible(a)
  /\ checkpoints' = [checkpoints EXCEPT ![event[a].n].status = "abandoned",
       ![event[a].n].endedAt = context[a]]
  /\ revision' = revision + 1
  /\ UNCHANGED <<plans, summaries, execution>>

\* The first summary completes the execution, which then has no owner.
SettleSummary(a) ==
  /\ Settling(a, "summarised") /\ ~event[a].amends /\ Eligible(a) /\ Open = {}
  /\ summaries' = Append(summaries, event[a].head) /\ revision' = revision + 1
  /\ bindings' = Append(bindings, None) /\ version' = version + 1
  /\ UNCHANGED <<plans, checkpoints, recovery>>

\* An amendment may come from any worktree.
SettleAmendment(a) ==
  /\ Settling(a, "summarised") /\ event[a].amends /\ ~Active
  /\ summaries' = Append(summaries, event[a].head) /\ revision' = revision + 1
  /\ UNCHANGED <<plans, checkpoints, execution>>

-----------------------------------------------------------------------------
(* Moving the execution to another context *)

MayMove(a) == pc[a] = "begun" /\ Active /\ Len(bindings) < MaxBindings
Checkout(a, action) ==
  Decide(a, [type |-> "checkout", action |-> action, open |-> Open])

\* In the owner's own worktree the binding follows a changed context.
ChangeContext(a) ==
  /\ MayMove(a) /\ context[a].tree = Owner.tree /\ ~SameContext(context[a], Owner)
  /\ recovery = {} /\ Open = {}
  /\ Checkout(a, "context_changed")

\* From another one, the owner is asked to hand over
HandOver(a) ==
  /\ MayMove(a) /\ context[a].tree # Owner.tree
  /\ recovery = {} /\ Open = {}
  /\ Checkout(a, "handoff")

\* or is found to be gone.
RecoverOrphaned(a) ==
  /\ MayMove(a) /\ context[a].tree # Owner.tree /\ Owner.tree \notin present
  /\ recovery \in {{}, Open}
  /\ Checkout(a, "orphan_recovered")

\* Bug: a takeover forgets the checkpoints that are open.
PublishForgetful(a) ==
  /\ Settling(a, "checkout")
  /\ event[a].action = "orphan_recovered" => Owner.tree \notin present
  /\ bindings' = Append(bindings, context[a]) /\ version' = version + 1
  /\ UNCHANGED <<artifact, recovery>>

\* Checkpoints open at a takeover await recovery.
PublishCheckout(a) ==
  /\ Settling(a, "checkout")
  /\ event[a].action = "orphan_recovered" => Owner.tree \notin present
  /\ bindings' = Append(bindings, context[a]) /\ version' = version + 1
  /\ recovery' = event[a].open
  /\ UNCHANGED artifact

-----------------------------------------------------------------------------
(* The command is refused, fails or is killed. *)
Withdraw(a) ==
  /\ pc[a] # "idle" /\ Done(a)
  /\ UNCHANGED <<artifact, execution, trees>>

\* People commit and switch branches in a worktree, and remove worktrees.
Move(w) ==
  /\ w \in present
  /\ \E b \in Branches, h \in 0 .. MaxHead :
       trees' = [trees EXCEPT ![w] = [branch |-> b, head |-> h]]
  /\ UNCHANGED <<artifact, execution, command>>

Remove(w) ==
  /\ w \in present /\ present # {w}
  /\ trees' = [trees EXCEPT ![w] = None]
  /\ UNCHANGED <<artifact, execution, command>>

Settle(a) ==
  \/ SettleRevision(a) \/ SettleOpen(a) \/ SettleClose(a) \/ SettleAbandon(a)
  \/ SettleSummary(a) \/ SettleAmendment(a) \/ PublishCheckout(a)

Next ==
  \/ \E a \in Agents :
       \/ Begin(a) \/ Revise(a) \/ OpenCheckpoint(a) \/ CloseCheckpoint(a)
       \/ AbandonCheckpoint(a) \/ Summarise(a)
       \/ ChangeContext(a) \/ HandOver(a) \/ RecoverOrphaned(a)
       \/ Settle(a) \/ Withdraw(a)
  \/ \E w \in Worktrees : Move(w) \/ Remove(w)

Spec == Init /\ [][Next]_vars

-----------------------------------------------------------------------------
(* Properties *)

Revisions == [steps : Plans, acked : SUBSET (Steps \cup Criteria)]
CheckpointRows == [status : {"open", "closed", "abandoned"},
  declared : SUBSET Steps, opening : Nat \ {0}, done : SUBSET Steps,
  evidence : SUBSET Criteria, generation : Nat \ {0},
  openedAt : Contexts, endedAt : Contexts \cup {None}]
Events ==
  [type : {"revised"}, plan : Revisions]
    \cup [type : {"opened"}, declared : SUBSET Steps, opening : Nat \ {0}]
    \cup [type : {"closed"}, n : Nat \ {0}, done : SUBSET Steps, evidence : SUBSET Criteria]
    \cup [type : {"abandoned"}, n : Nat \ {0}]
    \cup [type : {"summarised"}, amends : BOOLEAN, head : 0 .. MaxHead]
    \cup [type : {"checkout"}, open : SUBSET (Nat \ {0}),
         action : {"context_changed", "handoff", "orphan_recovered"}]

\* Every variable keeps its shape.
TypeOK ==
  /\ plans \in Seq(Revisions) /\ plans # <<>>
  /\ checkpoints \in Seq(CheckpointRows)
  /\ summaries \in Seq(0 .. MaxHead) /\ revision \in Nat /\ version \in Nat
  /\ bindings \in Seq(Contexts \cup {None}) /\ bindings # <<>>
  /\ recovery \subseteq Numbers
  /\ pc \in [Agents -> {"idle", "begun", "decided"}]
  /\ context \in [Agents -> Contexts \cup {None}]
  /\ seen \in [Agents -> [revision : Nat, version : Nat] \cup {None}]
  /\ event \in [Agents -> Events \cup {None}]
  /\ trees \in [Worktrees -> [branch : Branches, head : 0 .. MaxHead] \cup {None}]

\* No step is in the hands of two open checkpoints, completed by two closed
\* ones, or in hand and completed.  The fold refuses an artifact of which
\* this is not true, and nobody could read it again
\* (assertCheckpointStepClaimsDisjoint).
Claims(n) ==
  CASE checkpoints[n].status = "open" -> checkpoints[n].declared
    [] checkpoints[n].status = "closed" -> checkpoints[n].done
    [] OTHER -> {}
ClaimsDisjoint ==
  \A m, n \in Numbers : m # n => Claims(m) \cap Claims(n) = {}

\* However the plan is revised beside it, a step that is in hand stays in the
\* plan, and one in hand or completed means what it meant when its checkpoint
\* was opened, or less: the same text, and criteria it had then (GATES 5, 6b).
MeaningKept ==
  /\ OpenDeclared \subseteq DOMAIN Plan
  /\ \A n \in Numbers : \A s \in Claims(n) \cap DOMAIN Plan :
       MeansAtMost(Plan, plans[checkpoints[n].opening].steps, s)

\* A step the plan shows as completed has evidence for every criterion the
\* plan shows on it, whatever was revised since it was opened or closed.
DoneIsEvidenced ==
  \A n \in Closed :
    CriteriaOf(Plan, checkpoints[n].done) \subseteq checkpoints[n].evidence

\* Whatever completed work lost since its checkpoint was opened, the step
\* itself or a criterion, the revision that removed it says so (GATE 6, and
\* the acknowledgement after GATE 6c).
LossesAcknowledged ==
  \A n \in Closed : \A i \in checkpoints[n].opening + 1 .. Len(plans) :
    \A s \in checkpoints[n].done \cap DOMAIN plans[i - 1].steps :
      IF s \in DOMAIN plans[i].steps
      THEN Rubric(plans[i - 1].steps, s) \ Rubric(plans[i].steps, s)
             \subseteq plans[i].acked
      ELSE s \in plans[i].acked

\* A checkpoint is attributed to the owner it was opened by, and ended in the
\* context it was opened in: takeovers and branch switches in between may
\* leave it open, but nobody ends another's work.  The execution's schema
\* refuses a history whose attributions differ from its bindings.
WorkStaysHome ==
  \A n \in Numbers :
    LET k == checkpoints[n]
    IN  /\ k.generation \in DOMAIN bindings /\ bindings[k.generation] # None
        /\ SameContext(k.openedAt, bindings[k.generation])
        /\ k.status # "open" => SameContext(k.endedAt, k.openedAt)

\* An artifact is completed when and only when it has a summary; then nothing
\* is in hand and no recovery outstanding, and all its summaries record one
\* HEAD.
CompletedIsWhole ==
  /\ Active <=> summaries = <<>>
  /\ ~Active => Open = {} /\ recovery = {}
  /\ \A i, j \in DOMAIN summaries : summaries[i] = summaries[j]

\* From its summary on, what was planned and done stays.
SummaryIsFinal == [][summaries # <<>> => UNCHANGED <<plans, checkpoints, bindings>>]_vars

=============================================================================
