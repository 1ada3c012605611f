-------------------------- MODULE CaptureRetention --------------------------
(***************************************************************************)
(* How a checkpoint capture publishes its boundary, and how a boundary     *)
(* nobody selected is reclaimed.                                           *)
(*                                                                         *)
(* The commit of a boundary is kept alive by a Git ref, the capture itself *)
(* is a row of the project database, and no transaction spans the two.  So *)
(* a capture is admitted in one transaction, its ref is created and        *)
(* written out, and a second transaction selects it, appending its events. *)
(* A capture whose artifact moved on is retired instead, and `gc` removes  *)
(* the refs of retired captures: it admits a cleanup, removes the ref,     *)
(* writes the removal out and records what it found.                       *)
(*                                                                         *)
(* Agents run capture commands, cleaners run `gc --apply`.  Between any    *)
(* two steps a process may fail or be killed, or the machine may lose its  *)
(* power; what Git was told to commit it may still commit.                 *)
(***************************************************************************)
EXTENDS Naturals, Sequences, FiniteSets

CONSTANTS
  Captures,     \* checkpoint captures of one artifact, each under a key of its own
  Agents,       \* processes that capture
  Cleaners,     \* processes that reclaim
  None,
  MaxRevision, MaxCleanups, MaxStops, MaxLosses   \* bounds

Processes == Agents \cup Cleaners

\* A Git transaction on a ref, prepared by a process and told to commit or not yet.
Transactions == [by : Processes, action : {"create", "remove"}, sent : BOOLEAN]

ASSUME RetentionAssumption ==
  /\ Agents \cap Cleaners = {} /\ None \notin Transactions
  /\ {MaxRevision, MaxCleanups, MaxStops, MaxLosses} \subseteq Nat

VARIABLES
  revision,    \* the artifact's revision
  retention,   \* per capture: its transition and the revision it was prepared for
  refused,     \* captures whose refusal is retained
  cleanup,     \* the cleanups admitted, in order
  ref,         \* per capture: whether its ref exists
  disk,        \* per capture: what of that a loss of power may leave
  txn,         \* per capture: the Git transaction that holds the ref's lock
  proc,        \* per process: its place and what it has read
  stops, losses

vars == <<revision, retention, refused, cleanup, ref, disk, txn, proc, stops, losses>>
db == <<revision, retention, refused, cleanup>>
git == <<ref, disk, txn>>
faults == <<stops, losses>>

-----------------------------------------------------------------------------
States == {"none", "prepared", "selected", "retired"}
Outcomes == {"removed", "absent"}
Places == {"idle", "draft", "begin", "resume", "publish", "create", "flush", "verify", "settle",
           "retain", "retire", "refuse", "pending", "admit", "reclaim", "remove", "commit", "ack",
           "gone", "sweep", "confirm", "record"}

Idle == [pc |-> "idle", on |-> None, base |-> 0, resumed |-> FALSE,
         cleanup |-> 0, outcome |-> "absent", todo |-> {}, left |-> {}]
Minds == [pc : Places, on : Captures \cup {None}, base : Nat, resumed : BOOLEAN,
          cleanup : Nat, outcome : Outcomes, todo : SUBSET Nat, left : SUBSET Captures]

At(p, place) == proc[p].pc = place
On(p) == proc[p].on
State(c) == retention[c].state

Move(p, place) == proc' = [proc EXCEPT ![p].pc = place]
End(p) == proc' = [proc EXCEPT ![p] = Idle]

\* Only the capture's own transition moves it, and a selected or retired one is
\* never prepared again.
Advance(c, state) == retention' = [retention EXCEPT ![c].state = state]

-----------------------------------------------------------------------------
(* A capture command.                                                      *)

\* withCheckpointCapture: a retained refusal is the answer; an admission that is
\* still prepared is finished before anything else.
Start(p, c) ==
  /\ p \in Agents /\ At(p, "idle")
  /\ c \notin refused /\ State(c) # "selected"
  /\ proc' = [proc EXCEPT ![p] =
       [Idle EXCEPT !.on = c, !.resumed = State(c) = "prepared",
                    !.pc = IF State(c) = "prepared" THEN "resume" ELSE "draft"]]
  /\ UNCHANGED <<db, git, faults>>

\* The events are drafted on the artifact as it is read now; a capture committed
\* meanwhile drafts none.
Draft(p) ==
  /\ At(p, "draft")
  /\ IF State(On(p)) = "selected" THEN End(p)
     ELSE proc' = [proc EXCEPT ![p].pc = "begin", ![p].base = revision]
  /\ UNCHANGED <<db, git, faults>>

\* A refused precondition: the command retires its admission and retains the
\* refusal, except where it was only finishing an earlier command's.
Stale(p) == IF proc[p].resumed THEN End(p) ELSE Move(p, "retain")

\* beginProjectCaptureRetention.  A second admission under the key is a conflict.
Begin(p) ==
  /\ At(p, "begin")
  /\ \/ /\ State(On(p)) = "none" /\ revision = proc[p].base
        /\ retention' = [retention EXCEPT ![On(p)] = [state |-> "prepared", expected |-> revision]]
        /\ Move(p, "resume")
     \/ State(On(p)) = "none" /\ revision # proc[p].base /\ Stale(p) /\ UNCHANGED retention
     \/ State(On(p)) # "none" /\ End(p) /\ UNCHANGED retention
  /\ UNCHANGED <<revision, refused, cleanup, git, faults>>

\* resumeRetention up to the publication.
Resume(p) ==
  /\ At(p, "resume")
  /\ \/ State(On(p)) = "selected" /\ End(p)
     \/ State(On(p)) = "retired" /\ Stale(p)
     \/ State(On(p)) = "prepared" /\ Move(p, "publish")
  /\ UNCHANGED <<db, git, faults>>

\* publishDatabaseGitRef: a ref that is there already is only written out.
Publish(p) ==
  /\ At(p, "publish")
  /\ Move(p, IF ref[On(p)] THEN "flush" ELSE "create")
  /\ UNCHANGED <<db, git, faults>>

\* `update-ref` takes the ref's lock and compares it with what is expected; an
\* attempt that waits too long for the lock fails.
TakeLock(p, action) ==
  /\ txn' = [txn EXCEPT ![On(p)] = [by |-> p, action |-> action, sent |-> FALSE]]
  /\ Move(p, "commit")

Create(p) ==
  /\ At(p, "create") /\ txn[On(p)] = None
  /\ IF ref[On(p)] THEN Move(p, "flush") /\ UNCHANGED txn ELSE TakeLock(p, "create")
  /\ UNCHANGED <<db, ref, disk, faults>>

\* The prepared ref is checked under its lock, then `commit` is sent.
Commit(p) ==
  /\ At(p, "commit")
  /\ txn' = [txn EXCEPT ![On(p)].sent = TRUE]
  /\ Move(p, "ack")
  /\ UNCHANGED <<db, ref, disk, faults>>

\* Git does what it was told, whether or not anyone waits for it.
GitCommit(c) ==
  /\ txn[c] # None /\ txn[c].sent
  /\ ref' = [ref EXCEPT ![c] = txn[c].action = "create"]
  /\ disk' = [disk EXCEPT ![c] = @ \cup {ref'[c]}]
  /\ txn' = [txn EXCEPT ![c] = None]
  /\ UNCHANGED <<db, proc, faults>>

Holds(p) == txn[On(p)] # None /\ txn[On(p)].by = p

Ack(p) ==
  /\ At(p, "ack") /\ ~Holds(p)
  /\ Move(p, IF p \in Agents THEN "flush" ELSE "gone")
  /\ UNCHANGED <<db, git, faults>>

\* Bug: the ref is believed as soon as it is seen.
FlushNothing(p) ==
  /\ At(p, "flush")
  /\ IF ref[On(p)] THEN Move(p, "verify") ELSE End(p)
  /\ UNCHANGED <<db, git, faults>>

\* The ref and the directories above it are written out, whoever created it.
Flush(p) ==
  /\ At(p, "flush")
  /\ IF ref[On(p)] THEN disk' = [disk EXCEPT ![On(p)] = {TRUE}] /\ Move(p, "verify")
     ELSE End(p) /\ UNCHANGED disk
  /\ UNCHANGED <<db, ref, txn, faults>>

Verify(p) ==
  /\ At(p, "verify")
  /\ IF ref[On(p)] THEN Move(p, "settle") ELSE End(p)
  /\ UNCHANGED <<db, git, faults>>

\* settleProjectCaptureRetention: the events are appended and the publication is
\* selected in one transaction; a capture another command settled is replayed.
Settle(p) ==
  /\ At(p, "settle")
  /\ LET c == On(p)
         settles == State(c) = "prepared" /\ revision = retention[c].expected IN
     \/ settles /\ Advance(c, "selected") /\ revision' = revision + 1 /\ End(p)
     \/ State(c) = "selected" /\ End(p) /\ UNCHANGED <<revision, retention>>
     \/ State(c) # "selected" /\ ~settles /\ Stale(p) /\ UNCHANGED <<revision, retention>>
  /\ UNCHANGED <<refused, cleanup, git, faults>>

\* retainStaleCaptureRefusal, whose own failures are swallowed: the admission is
\* retired, then the artifact is read and the refusal recorded at its revision.
Retain(p) ==
  /\ At(p, "retain")
  /\ IF State(On(p)) = "prepared" THEN Move(p, "retire")
     ELSE proc' = [proc EXCEPT ![p].pc = "refuse", ![p].base = revision]
  /\ UNCHANGED <<db, git, faults>>

Retire(p) ==
  /\ At(p, "retire")
  /\ IF State(On(p)) = "prepared" THEN Advance(On(p), "retired") /\ Move(p, "retain")
     ELSE End(p) /\ UNCHANGED retention
  /\ UNCHANGED <<revision, refused, cleanup, git, faults>>

\* An artifact that moved once more takes no refusal.
Refuse(p) ==
  /\ At(p, "refuse")
  /\ refused' = IF revision = proc[p].base THEN refused \cup {On(p)} ELSE refused
  /\ End(p)
  /\ UNCHANGED <<revision, retention, cleanup, git, faults>>

\* Any other capture of the artifact.
CaptureElsewhere ==
  /\ revision < MaxRevision
  /\ revision' = revision + 1
  /\ UNCHANGED <<retention, refused, cleanup, git, proc, faults>>

-----------------------------------------------------------------------------
(* Reclamation.                                                            *)

CleanupsOf(c) == {k \in DOMAIN cleanup : cleanup[k].on = c}
Pending(c) == {k \in CleanupsOf(c) : cleanup[k].outcome = None}

\* Bug: a boundary that nobody selected is nobody's.
EligibleUnselected(c) == State(c) \notin {"none", "selected"}

\* The preview of a publication: once selected, or while it may still be, it is
\* protected.
Eligible(c) == State(c) = "retired"

\* Bug: what was cleaned up once is not looked at again.
ReclaimedOnce(c) == CleanupsOf(c) # {} /\ Pending(c) = {}

\* inspectDatabaseMaintenance: a publication is reclaimed once a cleanup of it
\* settled, until its ref is seen again.
Reclaimed(c) == ~ref[c] /\ CleanupsOf(c) # {} /\ Pending(c) = {}
Reclaimable == {c \in Captures : Eligible(c) /\ ~Reclaimed(c)}

\* gc inspects, finishes the cleanups it found pending, inspects again and then
\* admits one for every publication it found, each in turn; the first that fails
\* ends the run.
Gc(p) ==
  /\ p \in Cleaners /\ At(p, "idle") /\ Reclaimable # {}
  /\ proc' = [proc EXCEPT ![p] =
       [Idle EXCEPT !.pc = "pending", !.resumed = TRUE,
                    !.todo = UNION {Pending(c) : c \in Reclaimable}]]
  /\ UNCHANGED <<db, git, faults>>

Admissions == Len(cleanup) + Cardinality({q \in Cleaners : At(q, "admit")})

ResumeCleanup(p) ==
  /\ At(p, "pending")
  /\ IF proc[p].todo = {}
     THEN /\ Admissions < MaxCleanups
          /\ proc' = [proc EXCEPT ![p].pc = "admit", ![p].resumed = FALSE,
                                  ![p].left = Reclaimable]
     ELSE \E k \in proc[p].todo :
            proc' = [proc EXCEPT ![p].pc = "reclaim", ![p].on = cleanup[k].on,
                                 ![p].cleanup = k, ![p].todo = @ \ {k}]
  /\ UNCHANGED <<db, git, faults>>

\* The run goes on with the next cleanup, or fails unless somebody else settled
\* this one.
Back(p) == Move(p, IF proc[p].resumed THEN "pending" ELSE "admit")
Fail(p) == IF cleanup[proc[p].cleanup].outcome # None THEN Back(p) ELSE End(p)

\* beginProjectGitReclamation.
Admit(p) ==
  /\ At(p, "admit")
  /\ IF proc[p].left = {} THEN End(p) /\ UNCHANGED cleanup
     ELSE \E c \in proc[p].left :
            IF Eligible(c)
            THEN /\ Len(cleanup) < MaxCleanups
                 /\ cleanup' = Append(cleanup, [on |-> c, outcome |-> None])
                 /\ proc' = [proc EXCEPT ![p].pc = "reclaim", ![p].on = c, ![p].left = @ \ {c},
                                         ![p].cleanup = Len(cleanup')]
            ELSE End(p) /\ UNCHANGED cleanup
  /\ UNCHANGED <<revision, retention, refused, git, faults>>

\* resumeDatabaseGitReclamation up to the removal: what another run settled is
\* replayed, and a ref that is gone already is found absent.
Reclaim(p) ==
  /\ At(p, "reclaim")
  /\ IF cleanup[proc[p].cleanup].outcome # None THEN Back(p)
     ELSE IF ~Eligible(On(p)) THEN End(p)
     ELSE proc' = [proc EXCEPT ![p].pc = IF ref[On(p)] THEN "remove" ELSE "sweep",
                               ![p].outcome = IF ref[On(p)] THEN "removed" ELSE "absent"]
  /\ UNCHANGED <<db, git, faults>>

Remove(p) ==
  /\ At(p, "remove") /\ txn[On(p)] = None
  /\ IF ref[On(p)] THEN TakeLock(p, "remove") ELSE Fail(p) /\ UNCHANGED txn
  /\ UNCHANGED <<db, ref, disk, faults>>

\* A ref that came back is left to a later run.
Gone(p) ==
  /\ At(p, "gone")
  /\ IF ref[On(p)] THEN Fail(p) ELSE Move(p, "sweep")
  /\ UNCHANGED <<db, git, faults>>

\* The directories the ref was in are written out as they are by now.
Sweep(p) ==
  /\ At(p, "sweep")
  /\ disk' = [disk EXCEPT ![On(p)] = {ref[On(p)]}]
  /\ Move(p, "confirm")
  /\ UNCHANGED <<db, ref, txn, faults>>

Confirm(p) ==
  /\ At(p, "confirm")
  /\ IF ref[On(p)] THEN Fail(p) ELSE Move(p, "record")
  /\ UNCHANGED <<db, git, faults>>

\* settleProjectGitReclamation.
Record(p) ==
  /\ At(p, "record")
  /\ LET k == proc[p].cleanup IN
     cleanup' = IF cleanup[k].outcome = None
                THEN [cleanup EXCEPT ![k].outcome = proc[p].outcome] ELSE cleanup
  /\ Back(p)
  /\ UNCHANGED <<revision, retention, refused, git, faults>>

-----------------------------------------------------------------------------
(* Failures.                                                               *)

\* A process fails, is cancelled or is killed.  Git gives a transaction up when
\* its input ends before `commit`, and may when it is told to stop.
Stop(p) ==
  /\ ~At(p, "idle") /\ stops < MaxStops
  /\ stops' = stops + 1
  /\ \/ At(p, "commit") /\ txn' = [txn EXCEPT ![On(p)] = None]
     \/ At(p, "ack") /\ Holds(p) /\ txn' = [txn EXCEPT ![On(p)] = None]
     \/ ~At(p, "commit") /\ UNCHANGED txn
  /\ End(p)
  /\ UNCHANGED <<db, ref, disk, losses>>

\* The machine loses its power: what was not written out may or may not be there.
LosePower ==
  /\ losses < MaxLosses
  /\ losses' = losses + 1
  /\ ref' \in [Captures -> BOOLEAN] /\ \A c \in Captures : ref'[c] \in disk[c]
  /\ disk' = [c \in Captures |-> {ref'[c]}]
  /\ txn' = [c \in Captures |-> None]
  /\ proc' = [p \in Processes |-> Idle]
  /\ UNCHANGED <<db, stops>>

-----------------------------------------------------------------------------
Init ==
  /\ revision = 0
  /\ retention = [c \in Captures |-> [state |-> "none", expected |-> 0]]
  /\ refused = {} /\ cleanup = <<>>
  /\ ref = [c \in Captures |-> FALSE] /\ disk = [c \in Captures |-> {FALSE}]
  /\ txn = [c \in Captures |-> None]
  /\ proc = [p \in Processes |-> Idle]
  /\ stops = 0 /\ losses = 0

Proceed(p) ==
  \/ Draft(p) \/ Begin(p) \/ Resume(p) \/ Publish(p) \/ Create(p) \/ Commit(p) \/ Ack(p)
  \/ Flush(p) \/ Verify(p) \/ Settle(p) \/ Retain(p) \/ Retire(p) \/ Refuse(p)
  \/ ResumeCleanup(p) \/ Admit(p) \/ Reclaim(p) \/ Remove(p) \/ Gone(p) \/ Sweep(p) \/ Confirm(p) \/ Record(p)

Run(p) == Gc(p) \/ \E c \in Captures : Start(p, c)

Next ==
  \/ \E p \in Processes : Run(p) \/ Proceed(p) \/ Stop(p)
  \/ \E c \in Captures : GitCommit(c)
  \/ CaptureElsewhere \/ LosePower

Spec == Init /\ [][Next]_vars

\* A process goes on, Git does what it was told, an agent repeats a command it
\* has no answer to, and gc is run again.
FairSpec ==
  /\ Spec
  /\ \A p \in Processes : WF_vars(Proceed(p)) /\ WF_vars(Run(p))
  /\ \A c \in Captures : WF_vars(GitCommit(c))

-----------------------------------------------------------------------------
(* Properties.                                                             *)

TypeOK ==
  /\ revision \in Nat
  /\ retention \in [Captures -> [state : States, expected : Nat]]
  /\ refused \subseteq Captures
  /\ cleanup \in Seq([on : Captures, outcome : Outcomes \cup {None}])
  /\ ref \in [Captures -> BOOLEAN] /\ disk \in [Captures -> SUBSET BOOLEAN]
  /\ txn \in [Captures -> {None} \cup Transactions]
  /\ proc \in [Processes -> Minds]
  /\ stops \in 0..MaxStops /\ losses \in 0..MaxLosses

\* What history names is there: the ref of a selected capture exists and is on
\* the disk, whoever created it, whatever cleanups ran and whenever the power went.
SelectedKept ==
  \A c \in Captures : State(c) = "selected" => ref[c] /\ disk[c] = {TRUE}

\* Nothing but a loss of power takes away the ref of a capture that may still be
\* selected, however long ago the run of gc that removes it looked.
RemovedOnlyRetired ==
  [][\A c \in Captures :
       ref[c] /\ ~ref'[c] /\ losses' = losses => State(c) = "retired"]_vars

\* What gc recorded as gone may come back by the hand of a command that was under
\* way, and is then found again: in the end no retired capture has a ref and no
\* cleanup is pending.
NothingLeaks ==
  <>[](\A c \in Captures : State(c) = "retired" => ~ref[c] /\ Pending(c) = {})

-----------------------------------------------------------------------------
(* What comments and tests say.                                            *)

\* "a capture prepared against a revision another writer has since advanced can
\* never finish that way: its admission is retired" (checkpoint.ts:92).
StaleIsRetired ==
  \A c \in Captures :
    State(c) = "prepared" /\ revision # retention[c].expected ~> State(c) = "retired"

\* A retained refusal says that "nothing was written" (database-capture-refusal.ts:20).
RefusedNotWritten == \A c \in refused : State(c) # "selected"
=============================================================================
