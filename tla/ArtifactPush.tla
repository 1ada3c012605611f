---------------------------- MODULE ArtifactPush ----------------------------
(***************************************************************************)
(* Pushing captured artifacts to one cloud account.                        *)
(*                                                                         *)
(* Any number of processes (a capture's eager sync, `push`, `resync`, the  *)
(* drain after login) push the same artifacts over one project database.   *)
(* A push is admitted in one transaction that copies what it will send,    *)
(* its calls are sent one after another, each with an attempt recorded     *)
(* before it and an outcome after it, and it is settled in one transaction *)
(* under an operation id fixed at admission.  Between any two of these     *)
(* transactions the process may be cancelled or killed, another process    *)
(* may dispatch the same push, and the artifact, the project's usage, the  *)
(* session's branch and the cloud record may move.                         *)
(*                                                                         *)
(* A call is a number: its place in the order `callsForSnapshot` gives.    *)
(* The first is captureThread.start, which carries the branch history.     *)
(***************************************************************************)
EXTENDS Integers, Sequences, FiniteSets

CONSTANTS
  Artifacts, Pushers,
  Drains,        \* the pushers that are drains after login
  Branches,      \* names a worktree's branch may take
  PlanBranch,    \* [Artifacts -> Branches], the branch an artifact was planned on
  Faults,        \* which of "loss", "error", "cancel", "kill" happen
  Forced,         \* whether pushers may be told to push what is not pending
  Calls,         \* calls of one push
  MaxPush, MaxSources, MaxClock, MaxSession, MaxCloud, MaxStops  \* bounds

ASSUME PushAssumption ==
  /\ Drains \subseteq Pushers /\ PlanBranch \in [Artifacts -> Branches]
  /\ Faults \subseteq {"loss", "error", "cancel", "kill"} /\ Forced \in BOOLEAN
  /\ Artifacts # {} /\ Branches # {} /\ Calls \in Nat \ {0}
  /\ {MaxPush, MaxSources, MaxClock, MaxSession, MaxCloud, MaxStops} \subseteq Nat

VARIABLES
  generation,  \* generation[a], of the artifact's retained events
  usage,       \* generation of the project's usage
  cloud,       \* cloud[a], the selected cloud record and what it derives
  push,        \* the pushes admitted, in order; a push is named by its place
  call,        \* call[n][c], what is retained of call c of push n
  terminal,    \* terminal[n], the result push n was settled with
  current,     \* current[a], the selected push, 0 before the first
  session,     \* the selected session-branch revision
  git,         \* the worktree's branch and the branches that exist
  at,          \* at[p], the place of a process
  on,          \* on[p], the push it dispatches
  seen,        \* seen[p][c], the progress of its calls it restored
  mind,        \* mind[p], what else it has read
  wire,        \* requests sent that neither arrived nor got lost
  sent,        \* sent[n][c], how often call c of push n was sent
  got,         \* requests the server received
  now, stops

vars == <<generation, usage, cloud, push, call, terminal, current, session, git,
          at, on, seen, mind, wire, sent, got, now, stops>>
db == <<cloud, push, call, terminal, current, session>>
process == <<at, on, seen, mind>>
world == <<generation, usage, git>>
net == <<wire, sent, got>>

-----------------------------------------------------------------------------
Never == 0
CallStates == {"none", "attempted", "unknown", "acknowledged"}
Open == [settled |-> FALSE, cloudApplied |-> FALSE, sessionApplied |-> FALSE]
Sources(a) == [artifact |-> generation[a], usage |-> usage]
Unfinished(n) == n # 0 /\ ~terminal[n].settled

\* Bug: what moved since the last success is not pending.
PendingUnlessFailed(a) == cloud[a].success.at = Never \/ cloud[a].failures > 0

\* What `resync`, `push-status` and a capture's report call pending.
Pending(a) ==
  \/ cloud[a].success.at = Never
  \/ cloud[a].failures > 0
  \/ cloud[a].success.sources # Sources(a)

Places == {"idle", "observe", "read", "look", "sources", "prepare", "begin", "restore",
           "dispatch", "sending", "answered", "thrown", "complete", "settle", "failed"}
NoCalls == [c \in 1..Calls |-> "none"]
Idle == [artifact |-> CHOOSE a \in Artifacts : TRUE, started |-> Never,
         sources |-> [artifact |-> 0, usage |-> 0], branch |-> CHOOSE b \in Branches : TRUE,
         previous |-> 0, cloud |-> 0, session |-> 0, history |-> {}, ackAt |-> Never]
Me(p) == mind[p]
Goto(p, place) == at' = [at EXCEPT ![p] = place] /\ UNCHANGED <<on, seen, mind>>
Think(p, place, m) == at' = [at EXCEPT ![p] = place] /\ mind' = [mind EXCEPT ![p] = m] /\ UNCHANGED <<on, seen>>
Take(p, n) == at' = [at EXCEPT ![p] = "restore"] /\ on' = [on EXCEPT ![p] = n] /\ UNCHANGED <<seen, mind>>
See(p, place, calls) == at' = [at EXCEPT ![p] = place] /\ seen' = [seen EXCEPT ![p] = calls] /\ UNCHANGED <<on, mind>>
Finish(p) ==
  /\ at' = [at EXCEPT ![p] = "idle"] /\ on' = [on EXCEPT ![p] = 0]
  /\ seen' = [seen EXCEPT ![p] = NoCalls] /\ mind' = [mind EXCEPT ![p] = Idle]

-----------------------------------------------------------------------------
(* The world the pushers run in. *)

AppendEvents(a) ==
  /\ generation[a] + usage < MaxSources
  /\ generation' = [generation EXCEPT ![a] = @ + 1]
  /\ UNCHANGED <<usage, git, db, process, net, now, stops>>

AppendUsage ==
  /\ \A a \in Artifacts : generation[a] + usage < MaxSources
  /\ usage' = usage + 1
  /\ UNCHANGED <<generation, git, db, process, net, now, stops>>

\* `git branch -m` removes the old name, `git switch -c` keeps it.
ChangeBranch(b, renamed) ==
  /\ b # git.branch /\ session.version < MaxSession
  /\ renamed => b \notin git.refs
  /\ git' = [branch |-> b, refs |-> (git.refs \cup {b}) \ (IF renamed THEN {git.branch} ELSE {})]
  /\ UNCHANGED <<generation, usage, db, process, net, now, stops>>

Tick == now < MaxClock /\ now' = now + 1 /\ UNCHANGED <<world, db, process, net, stops>>

Deliver(r) ==
  /\ wire' = wire \ {r} /\ got' = got \cup {r}
  /\ UNCHANGED <<sent, world, db, process, now, stops>>

Lose(r) ==
  /\ "loss" \in Faults
  /\ wire' = wire \ {r}
  /\ UNCHANGED <<sent, got, world, db, process, now, stops>>

-----------------------------------------------------------------------------
(* Opening a cloud session observes the worktree's branch. *)

Start(p, a) ==
  /\ at[p] = "idle"
  /\ Think(p, "observe", [Idle EXCEPT !.artifact = a, !.started = now,
                                      !.branch = git.branch, !.session = session.version])
  /\ UNCHANGED <<world, db, net, now, stops>>

\* The branch seen before the Git probe must still be checked out, and the
\* revision read before it still selected.
Observed(p) ==
  LET prior == session.branch IN
  IF Me(p).branch = prior THEN session
  ELSE IF prior \in git.refs
    THEN [version |-> session.version + 1, branch |-> Me(p).branch, history |-> {}, acked |-> Never]
    ELSE [version |-> session.version + 1, branch |-> Me(p).branch,
          history |-> (session.history \cup {prior}) \ {Me(p).branch}, acked |-> session.acked]

Observe(p) ==
  /\ at[p] = "observe"
  /\ \/ /\ session.version = Me(p).session /\ git.branch = Me(p).branch
        /\ session' = Observed(p)
        /\ Goto(p, "read")
     \/ /\ session.version # Me(p).session \/ git.branch # Me(p).branch
        /\ UNCHANGED session
        /\ Finish(p)
  /\ UNCHANGED <<world, cloud, push, call, terminal, current, net, now, stops>>

-----------------------------------------------------------------------------
(* pushDatabaseArtifact: recover the unfinished push, skip, or prepare one. *)

ReadArtifact(p) ==
  /\ at[p] = "read"
  /\ Think(p, "look", [Me(p) EXCEPT !.sources = [artifact |-> generation[Me(p).artifact], usage |-> 0]])
  /\ UNCHANGED <<world, db, net, now, stops>>

\* Bug: an unfinished push is left to whoever admitted it.
LookAway(p) ==
  /\ at[p] = "look"
  /\ Think(p, "sources", [Me(p) EXCEPT !.sources = [artifact |-> Me(p).sources.artifact, usage |-> usage]])
  /\ UNCHANGED <<world, db, net, now, stops>>

Look(p) ==
  LET n == current[Me(p).artifact] IN
  /\ at[p] = "look"
  /\ IF Unfinished(n)
       THEN Take(p, n)
       ELSE Think(p, "sources", [Me(p) EXCEPT !.sources = [artifact |-> Me(p).sources.artifact, usage |-> usage]])
  /\ UNCHANGED <<world, db, net, now, stops>>

\* Nothing is sent for an artifact whose last success is of what was read.
Skip(p) ==
  LET a == Me(p).artifact IN
  /\ at[p] = "sources"
  /\ ~Pending(a) /\ Sources(a) = Me(p).sources
  /\ Finish(p)
  /\ UNCHANGED <<world, db, net, now, stops>>

Needed(p) ==
  LET a == Me(p).artifact IN
  /\ at[p] = "sources"
  /\ Pending(a) \/ Sources(a) # Me(p).sources \/ Forced
  /\ Goto(p, "prepare")
  /\ UNCHANGED <<world, db, net, now, stops>>

\* An artifact planned on a branch the session no longer knows is historical:
\* its push takes no session.
Historical(a) == session.branch # PlanBranch[a] /\ PlanBranch[a] \notin session.history

Prepare(p) ==
  LET a == Me(p).artifact IN
  /\ at[p] = "prepare"
  /\ Think(p, "begin", [Me(p) EXCEPT
       !.previous = current[a], !.cloud = cloud[a].version,
       !.session = IF Historical(a) THEN 0 ELSE session.version,
       !.branch = IF Historical(a) THEN PlanBranch[a] ELSE session.branch,
       !.history = IF Historical(a) THEN {} ELSE session.history])
  /\ UNCHANGED <<world, db, net, now, stops>>

-----------------------------------------------------------------------------
(* beginProjectArtifactPush: one transaction that admits the push. *)

\* Bug: what is admitted is compared with its sources alone.
AdmissibleSources(p) == Sources(Me(p).artifact) = Me(p).sources

Admissible(p) ==
  LET a == Me(p).artifact IN
  /\ Sources(a) = Me(p).sources
  /\ current[a] = Me(p).previous
  /\ ~Unfinished(current[a])
  /\ cloud[a].version = Me(p).cloud
  /\ Me(p).session \in {0, session.version}

\* Bug: the push after the one admitted is selected.
BeginPast(p) ==
  LET a == Me(p).artifact
      n == Len(push) + 1 IN
  /\ at[p] = "begin"
  /\ Admissible(p) /\ n <= MaxPush
  /\ push' = Append(push, [artifact |-> a, sources |-> Me(p).sources, cloud |-> Me(p).cloud,
                           session |-> Me(p).session, branch |-> Me(p).branch, history |-> Me(p).history,
                           acked |-> session.acked])
  /\ current' = [current EXCEPT ![a] = n + 1]
  /\ Take(p, n)
  /\ UNCHANGED <<cloud, call, terminal, session, world, net, now, stops>>

Begin(p) ==
  LET a == Me(p).artifact
      n == Len(push) + 1 IN
  /\ at[p] = "begin"
  /\ Admissible(p) /\ n <= MaxPush
  /\ push' = Append(push, [artifact |-> a, sources |-> Me(p).sources, cloud |-> Me(p).cloud,
                           session |-> Me(p).session, branch |-> Me(p).branch, history |-> Me(p).history,
                           acked |-> session.acked])
  /\ current' = [current EXCEPT ![a] = n]
  /\ Take(p, n)
  /\ UNCHANGED <<cloud, call, terminal, session, world, net, now, stops>>

BeginStale(p) ==
  /\ at[p] = "begin" /\ ~Admissible(p)
  /\ Goto(p, "failed")
  /\ UNCHANGED <<world, db, net, now, stops>>

-----------------------------------------------------------------------------
(* dispatchProjectArtifactPush *)

\* The calls' progress is read once, before the first of them is attempted.
Restore(p) ==
  LET n == on[p] IN
  /\ at[p] = "restore"
  /\ IF terminal[n].settled
       THEN Finish(p)
       ELSE See(p, "dispatch", call[n])
  /\ UNCHANGED <<world, db, net, now, stops>>

\* The first call the snapshot does not show acknowledged.
Due(p, c) ==
  /\ \A d \in 1..c - 1 : seen[p][d] = "acknowledged"
  /\ seen[p][c] # "acknowledged"

CallState(n, c, value) == call' = [call EXCEPT ![n] = [call[n] EXCEPT ![c] = value]]

\* Bug: a call whose delivery is unknown is sent again.
AdmitAgain(p, c) ==
  LET n == on[p] IN
  /\ at[p] = "dispatch" /\ Due(p, c)
  /\ seen[p][c] \in {"none", "unknown"} /\ call[n][c] \in {"none", "unknown"}
  /\ CallState(n, c, "attempted")
  /\ sent' = [sent EXCEPT ![n] = [sent[n] EXCEPT ![c] = sent[n][c] + 1]]
  /\ wire' = wire \cup {<<n, c>>}
  /\ Goto(p, "sending")
  /\ UNCHANGED <<cloud, push, terminal, current, session, got, world, now, stops>>

\* admitProjectRemoteAttempt: the request must still be as the snapshot shows.
Admit(p, c) ==
  LET n == on[p] IN
  /\ at[p] = "dispatch" /\ Due(p, c)
  /\ seen[p][c] = "none" /\ call[n][c] = "none"
  /\ CallState(n, c, "attempted")
  /\ sent' = [sent EXCEPT ![n] = [sent[n] EXCEPT ![c] = sent[n][c] + 1]]
  /\ wire' = wire \cup {<<n, c>>}
  /\ Goto(p, "sending")
  /\ UNCHANGED <<cloud, push, terminal, current, session, got, world, now, stops>>

\* An attempt without an outcome, or an unknown one, is never resent; an
\* attempt another process admitted since the snapshot is refused as stale.
Unresolved(p, c) ==
  /\ at[p] = "dispatch" /\ Due(p, c)
  /\ seen[p][c] # "none" \/ call[on[p]][c] # "none"
  /\ Goto(p, "failed")
  /\ UNCHANGED <<world, db, net, now, stops>>

Answer(p, c) ==
  /\ at[p] = "sending" /\ Due(p, c) /\ <<on[p], c>> \in got
  /\ Goto(p, "answered")
  /\ UNCHANGED <<world, db, net, now, stops>>

Throw(p) ==
  /\ at[p] = "sending" /\ "error" \in Faults
  /\ Goto(p, "thrown")
  /\ UNCHANGED <<world, db, net, now, stops>>

\* recordProjectRemoteOutcome
Acknowledge(p, c) ==
  /\ at[p] = "answered" /\ Due(p, c)
  /\ CallState(on[p], c, "acknowledged")
  /\ See(p, "dispatch", [seen[p] EXCEPT ![c] = "acknowledged"])
  /\ UNCHANGED <<cloud, push, terminal, current, session, world, net, now, stops>>

\* Bug: an error is retained as an acknowledgement.
RecordAnswered(p, c) ==
  /\ at[p] = "thrown" /\ Due(p, c)
  /\ CallState(on[p], c, "acknowledged")
  /\ Goto(p, "failed")
  /\ UNCHANGED <<cloud, push, terminal, current, session, world, net, now, stops>>

RecordUnknown(p, c) ==
  /\ at[p] = "thrown" /\ Due(p, c)
  /\ CallState(on[p], c, "unknown")
  /\ Goto(p, "failed")
  /\ UNCHANGED <<cloud, push, terminal, current, session, world, net, now, stops>>

-----------------------------------------------------------------------------
(* completeProjectArtifactPush *)

Acknowledged(n) == \A c \in 1..Calls : call[n][c] = "acknowledged"

\* The time of the acknowledgement is taken before the transaction.
Complete(p) ==
  LET n == on[p] IN
  /\ at[p] = "dispatch" /\ \A c \in 1..Calls : seen[p][c] = "acknowledged"
  /\ IF terminal[n].settled THEN Finish(p)
     ELSE IF Acknowledged(n) THEN Think(p, "settle", [Me(p) EXCEPT !.ackAt = now])
     ELSE Goto(p, "failed")
  /\ UNCHANGED <<world, db, net, now, stops>>

CloudApplies(n, time) ==
  LET a == push[n].artifact IN
  /\ cloud[a].version = push[n].cloud
  /\ Sources(a) = push[n].sources
  /\ cloud[a].success.at = Never \/ time > cloud[a].success.at

\* Bug: whatever revision is selected is acknowledged.
SessionAppliesAny(n, time) == push[n].session # 0

SessionApplies(n, time) ==
  /\ push[n].session # 0 /\ session.version = push[n].session
  /\ push[n].acked = Never \/ time > push[n].acked

\* Bug: the sources selected now are credited to the push.
SettleCurrent(p) ==
  LET n == on[p]
      a == push[n].artifact
      time == Me(p).ackAt IN
  /\ at[p] = "settle"
  /\ ~terminal[n].settled
  /\ terminal' = [terminal EXCEPT ![n] = [settled |-> TRUE, cloudApplied |-> TRUE, sessionApplied |-> FALSE]]
  /\ cloud' = [cloud EXCEPT ![a] = [version |-> @.version + 1, failures |-> 0,
                                    success |-> [at |-> time, sources |-> Sources(a)]]]
  /\ Finish(p)
  /\ UNCHANGED <<push, call, session, current, world, net, now, stops>>

Settle(p) ==
  LET n == on[p]
      a == push[n].artifact
      time == Me(p).ackAt IN
  /\ at[p] = "settle"
  /\ ~terminal[n].settled
  /\ terminal' = [terminal EXCEPT ![n] = [settled |-> TRUE, cloudApplied |-> CloudApplies(n, time),
                                          sessionApplied |-> SessionApplies(n, time)]]
  /\ cloud' = IF CloudApplies(n, time)
                THEN [cloud EXCEPT ![a] = [version |-> @.version + 1, failures |-> 0,
                                           success |-> [at |-> time, sources |-> push[n].sources]]]
                ELSE cloud
  /\ session' = IF SessionApplies(n, time)
                  THEN [session EXCEPT !.version = @ + 1, !.history = {}, !.acked = time]
                  ELSE session
  /\ Finish(p)
  /\ UNCHANGED <<push, call, current, world, net, now, stops>>

\* The terminal operation replays its receipt.
SettleReplayed(p) ==
  /\ at[p] = "settle" /\ terminal[on[p]].settled
  /\ Finish(p)
  /\ UNCHANGED <<world, db, net, now, stops>>

-----------------------------------------------------------------------------
(* Failing, being cancelled, being killed *)

\* A drain records its failure, unless an acknowledgement is as new.
RecordFailure(p) ==
  LET a == Me(p).artifact IN
  /\ at[p] = "failed" /\ p \in Drains /\ cloud[a].version < MaxCloud
  /\ cloud' = IF cloud[a].success.at = Never \/ Me(p).started > cloud[a].success.at
                THEN [cloud EXCEPT ![a].version = @ + 1, ![a].failures = @ + 1]
                ELSE cloud
  /\ Finish(p)
  /\ UNCHANGED <<push, call, terminal, current, session, world, net, now, stops>>

\* Another pusher reports its failure; a drain's bookkeeping may fail too.
GiveUp(p) ==
  /\ at[p] = "failed"
  /\ Finish(p)
  /\ UNCHANGED <<world, db, net, now, stops>>

Stop == stops < MaxStops /\ stops' = stops + 1

Cancel(p) ==
  /\ "cancel" \in Faults /\ at[p] \notin {"idle", "observe", "failed"}
  /\ Stop /\ Goto(p, "failed")
  /\ UNCHANGED <<world, db, net, now>>

Kill(p) ==
  /\ "kill" \in Faults /\ at[p] # "idle"
  /\ Stop /\ Finish(p)
  /\ UNCHANGED <<world, db, net, now>>

-----------------------------------------------------------------------------
Init ==
  /\ generation = [a \in Artifacts |-> 1] /\ usage = 0
  /\ cloud = [a \in Artifacts |-> [version |-> 0, failures |-> 0,
                success |-> [at |-> Never, sources |-> [artifact |-> 0, usage |-> 0]]]]
  /\ push = <<>> /\ current = [a \in Artifacts |-> 0]
  /\ \E b \in Branches :
       /\ session = [version |-> 1, branch |-> b, history |-> {}, acked |-> Never]
       /\ git = [branch |-> b, refs |-> {b}]
  /\ call = [n \in 1..MaxPush |-> NoCalls] /\ terminal = [n \in 1..MaxPush |-> Open]
  /\ at = [p \in Pushers |-> "idle"] /\ on = [p \in Pushers |-> 0]
  /\ seen = [p \in Pushers |-> NoCalls] /\ mind = [p \in Pushers |-> Idle]
  /\ wire = {} /\ got = {} /\ sent = [n \in 1..MaxPush |-> [c \in 1..Calls |-> 0]]
  /\ now = 1 /\ stops = 0

Proceed(p) ==
  \/ \E a \in Artifacts : Start(p, a)
  \/ Observe(p) \/ ReadArtifact(p) \/ Look(p) \/ Skip(p) \/ Needed(p) \/ Prepare(p)
  \/ Begin(p) \/ BeginStale(p) \/ Restore(p)
  \/ \E c \in 1..Calls :
       Admit(p, c) \/ Unresolved(p, c) \/ Answer(p, c) \/ Acknowledge(p, c) \/ RecordUnknown(p, c)
  \/ Complete(p) \/ Settle(p) \/ SettleReplayed(p) \/ RecordFailure(p) \/ GiveUp(p)

Next ==
  \/ \E a \in Artifacts : AppendEvents(a)
  \/ AppendUsage \/ Tick
  \/ \E b \in Branches, renamed \in BOOLEAN : ChangeBranch(b, renamed)
  \/ \E r \in wire : Deliver(r) \/ Lose(r)
  \/ \E p \in Pushers : Proceed(p) \/ Throw(p) \/ Cancel(p) \/ Kill(p)

Spec == Init /\ [][Next]_vars

\* A pusher that is running goes on, one that is idle pushes again, and a
\* request that was sent is delivered unless it is lost.
Fairness ==
  /\ \A p \in Pushers : WF_vars(Proceed(p))
  /\ \A n \in 1..MaxPush, c \in 1..Calls : WF_vars(<<n, c>> \in wire /\ Deliver(<<n, c>>))
FairSpec == Spec /\ Fairness
-----------------------------------------------------------------------------
SourcesType == [artifact : Nat, usage : Nat]
CloudType == [version : Nat, failures : Nat, success : [at : Nat, sources : SourcesType]]
PushType == [artifact : Artifacts, sources : SourcesType, cloud : Nat, session : Nat,
             branch : Branches, history : SUBSET Branches, acked : Nat]
TerminalType == [settled : BOOLEAN, cloudApplied : BOOLEAN, sessionApplied : BOOLEAN]
MindType == [artifact : Artifacts, started : Nat, sources : SourcesType, branch : Branches, previous : Nat,
             cloud : Nat, session : Nat, history : SUBSET Branches, ackAt : Nat]
Pushes == 1..Len(push)
Requests == (1..MaxPush) \X (1..Calls)

TypeOK ==
  /\ generation \in [Artifacts -> Nat] /\ usage \in Nat
  /\ cloud \in [Artifacts -> CloudType]
  /\ push \in Seq(PushType) /\ Len(push) <= MaxPush
  /\ call \in [1..MaxPush -> [1..Calls -> CallStates]] /\ terminal \in [1..MaxPush -> TerminalType]
  /\ current \in [Artifacts -> 0..MaxPush] /\ \A a \in Artifacts : current[a] <= Len(push)
  /\ session \in [version : Nat, branch : Branches, history : SUBSET Branches, acked : Nat]
  /\ git \in [branch : Branches, refs : SUBSET Branches]
  /\ at \in [Pushers -> Places] /\ on \in [Pushers -> 0..MaxPush]
  /\ \A p \in Pushers : on[p] <= Len(push)
  /\ seen \in [Pushers -> [1..Calls -> CallStates]] /\ mind \in [Pushers -> MindType]
  /\ wire \subseteq Requests /\ got \subseteq Requests
  /\ sent \in [1..MaxPush -> [1..Calls -> Nat]]
  /\ now \in Nat /\ stops \in Nat

\* No call is sent twice: not by two dispatchers of one push, not by a later
\* one after a crash, not after an error that may have hidden its delivery.
SentOnce == \A n \in 1..MaxPush, c \in 1..Calls : sent[n][c] <= 1

\* One push at a time is unfinished for an artifact, whoever admitted it.
OneUnfinished ==
  \A n \in Pushes : ~terminal[n].settled => current[push[n].artifact] = n

\* A settled push reached the server whole, whatever was lost on the way.
SettledReached ==
  \A n \in Pushes : terminal[n].settled => \A c \in 1..Calls : <<n, c>> \in got

\* The push whose call c of artifact a the server received last.
LastOf(a, c) ==
  LET of == {n \in Pushes : push[n].artifact = a /\ <<n, c>> \in got} IN
  IF of = {} THEN 0 ELSE CHOOSE n \in of : \A m \in of : m <= n

\* An artifact no command calls pending is on the server as it is here, so
\* nothing is missing when a push of it is skipped or when it is reported synced.
NotPendingIsThere ==
  \A a \in Artifacts : ~Pending(a) =>
    \A c \in 1..Calls : LET n == LastOf(a, c) IN n # 0 /\ push[n].sources = Sources(a)

\* The server receives an artifact's calls in the order they were prepared: one
\* delayed on the network never arrives after a call of a later push, nor after
\* a later call of its own, to put older content in its place.
ArrivalsInOrder ==
  [][\A r \in got' \ got, q \in got :
       push[r[1]].artifact = push[q[1]].artifact =>
         q[1] < r[1] \/ (q[1] = r[1] /\ q[2] < r[2])]_vars

\* Branch names are forgotten as acknowledged only when the server was told them
\* all: a name learnt while a push was under way is not lost with it.
HistoryTold ==
  [][session'.acked \notin {session.acked, Never} =>
       \E n \in Pushes : /\ <<n, 1>> \in got
                          /\ push[n].branch = session.branch
                          /\ session.history \subseteq push[n].history]_vars

Settled(n) == n \in Pushes /\ terminal[n].settled

\* A call whose delivery nobody can tell any more.
Undecided(n) == n \in Pushes /\
  \E c \in 1..Calls :
    \/ call[n][c] = "unknown"
    \/ /\ call[n][c] = "attempted"
       /\ \A p \in Pushers : on[p] = n => at[p] \notin {"sending", "answered", "thrown"}

\* An admitted push is settled, by whoever runs, unless a call's delivery is unknown.
Settles ==
  \A n \in 1..MaxPush : (n \in Pushes) ~> (Settled(n) \/ Undecided(n))

\* `resync` "Retry any artifacts whose last eager push may have failed (offline,
\* network, etc.)": however often it runs, a push that failed is retried until it
\* is through.
Retried == \A n \in 1..MaxPush : (n \in Pushes) ~> Settled(n)

\* A push that settles without being credited found "The artifact changed during
\* synchronization."
UncreditedChanged ==
  [][\A n \in Pushes :
       terminal'[n].settled /\ ~terminal[n].settled /\ ~terminal'[n].cloudApplied
         => Sources(push[n].artifact) # push[n].sources]_vars
=============================================================================
