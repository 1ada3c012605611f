------------------------- MODULE ArtifactPushProofs -------------------------
(***************************************************************************)
(* Theorems about ArtifactPush, for any artifacts, pushers, calls, faults  *)
(* and bounds.                                                             *)
(***************************************************************************)
EXTENDS ArtifactPush, FiniteSetTheorems, WellFoundedInduction, TLAPS

Calling == {"sending", "answered", "thrown"}
Early == {"idle", "observe", "read", "look", "sources", "prepare", "begin", "restore"}
Dispatching == {"restore", "dispatch", "settle"} \cup Calling

(* What the rows of a push say of each other and of the network. *)
SentAsRetained ==
  \A n \in 1..MaxPush, c \in 1..Calls : sent[n][c] = IF call[n][c] = "none" THEN 0 ELSE 1
NothingAhead ==
  \A n \in 1..MaxPush : n > Len(push) =>
    ~terminal[n].settled /\ \A c \in 1..Calls : call[n][c] = "none"
InOrder ==
  \A n \in 1..MaxPush, c \in 1..Calls, d \in 1..Calls :
    d < c /\ call[n][c] # "none" => call[n][d] = "acknowledged"
AcknowledgedGot ==
  \A n \in 1..MaxPush, c \in 1..Calls : call[n][c] = "acknowledged" => <<n, c>> \in got
OnNetwork ==
  /\ wire \cap got = {}
  /\ \A n \in 1..MaxPush, c \in 1..Calls : <<n, c>> \in wire \cup got => call[n][c] # "none"
SettledWhole ==
  \A n \in 1..MaxPush : terminal[n].settled => \A c \in 1..Calls : call[n][c] = "acknowledged"
Selected ==
  \A n \in Pushes :
    /\ n <= current[push[n].artifact]
    /\ ~terminal[n].settled => current[push[n].artifact] = n

(* What a process knows of the push it dispatches. *)
OnPush == \A p \in Pushers : at[p] \in Dispatching => on[p] # 0
Fresh == \A p \in Pushers : at[p] \in Early => seen[p] = NoCalls
SeenTrue ==
  \A p \in Pushers, c \in 1..Calls : seen[p][c] = "acknowledged" =>
    on[p] # 0 /\ call[on[p]][c] = "acknowledged"
UnderWay ==
  \A p \in Pushers, c \in 1..Calls : at[p] \in Calling /\ Due(p, c) => call[on[p]][c] = "attempted"
OneCaller ==
  \A p \in Pushers, q \in Pushers, c \in 1..Calls :
    at[p] \in Calling /\ at[q] \in Calling /\ on[p] = on[q] /\ Due(p, c) /\ Due(q, c) => p = q
AnsweredGot ==
  \A p \in Pushers, c \in 1..Calls : at[p] = "answered" /\ Due(p, c) => <<on[p], c>> \in got
SettleReady ==
  \A p \in Pushers : at[p] = "settle" => \A c \in 1..Calls : call[on[p]][c] = "acknowledged"

RowsInv == SentAsRetained /\ NothingAhead /\ InOrder /\ AcknowledgedGot /\ OnNetwork /\ SettledWhole /\ Selected
ProcessInv == OnPush /\ Fresh /\ SeenTrue /\ UnderWay /\ OneCaller /\ AnsweredGot /\ SettleReady
IInv == TypeOK /\ RowsInv /\ ProcessInv
-----------------------------------------------------------------------------
(* Types *)

LEMMA Bounds == MaxPush \in Nat /\ Calls \in Nat
  BY PushAssumption

LEMMA IdleType == Idle \in MindType /\ NoCalls \in [1..Calls -> CallStates]
  BY PushAssumption DEF Idle, MindType, SourcesType, NoCalls, CallStates, Never

LEMMA DueOnce ==
  ASSUME NEW p \in Pushers, NEW c \in 1..Calls, NEW d \in 1..Calls, Due(p, c), Due(p, d)
  PROVE  c = d
  BY PushAssumption DEF Due

LEMMA InitIInv == Init => IInv
  <1> SUFFICES ASSUME Init PROVE IInv
    OBVIOUS
  <1> USE PushAssumption
  <1>1. TypeOK
    <2>1. session \in [version : Nat, branch : Branches, history : SUBSET Branches, acked : Nat]
          /\ git \in [branch : Branches, refs : SUBSET Branches]
      BY DEF Init, Never
    <2>2. cloud \in [Artifacts -> CloudType]
      BY DEF Init, CloudType, SourcesType, Never
    <2>3. push \in Seq(PushType) /\ Len(push) = 0
      BY DEF Init
    <2>4. terminal \in [1..MaxPush -> TerminalType]
      BY DEF Init, TerminalType, Open
    <2>5. call \in [1..MaxPush -> [1..Calls -> CallStates]] /\ seen \in [Pushers -> [1..Calls -> CallStates]]
          /\ mind \in [Pushers -> MindType]
      BY IdleType DEF Init
    <2>6. /\ generation \in [Artifacts -> Nat] /\ usage \in Nat
          /\ current \in [Artifacts -> 0..MaxPush] /\ \A a \in Artifacts : current[a] <= Len(push)
          /\ at \in [Pushers -> Places] /\ on \in [Pushers -> 0..MaxPush]
          /\ \A p \in Pushers : on[p] <= Len(push)
          /\ wire \subseteq Requests /\ got \subseteq Requests
          /\ sent \in [1..MaxPush -> [1..Calls -> Nat]] /\ now \in Nat /\ stops \in Nat
      BY <2>3 DEF Init, Places
    <2> QED
      BY <2>1, <2>2, <2>3, <2>4, <2>5, <2>6 DEF TypeOK
  <1>2. RowsInv
    <2>1. Len(push) = 0 /\ Pushes = {}
      BY DEF Init, Pushes
    <2> QED
      BY <2>1 DEF Init, NoCalls, Open, RowsInv, SentAsRetained, NothingAhead, InOrder, AcknowledgedGot,
         OnNetwork, SettledWhole, Selected
  <1>3. ProcessInv
    BY DEF Init, NoCalls, ProcessInv, OnPush, Fresh, SeenTrue, UnderWay, OneCaller, AnsweredGot,
       SettleReady, Dispatching, Calling
  <1> QED
    BY <1>1, <1>2, <1>3 DEF IInv

-----------------------------------------------------------------------------
(* Steps that leave the rows of every push and the network alone. *)

LEMMA RowsKept ==
  ASSUME RowsInv, UNCHANGED <<push, call, terminal, current, net>>
  PROVE  RowsInv'
  BY DEF RowsInv, net, SentAsRetained, NothingAhead, InOrder, AcknowledgedGot, OnNetwork, SettledWhole,
     Selected, Pushes

\* One process moves: to a call only by being answered or failed in it.
LEMMA OneMoves ==
  ASSUME TypeOK, ProcessInv, NEW p \in Pushers, NEW place, NEW n, NEW s,
         at' = [at EXCEPT ![p] = place], on' = [on EXCEPT ![p] = n], seen' = [seen EXCEPT ![p] = s],
         call' = call, got' = got,
         place \in Dispatching => n # 0,
         place \in Early => s = NoCalls,
         \A c \in 1..Calls : s[c] = "acknowledged" => n # 0 /\ call[n][c] = "acknowledged",
         place \in Calling => at[p] = "sending" /\ n = on[p] /\ s = seen[p],
         place = "answered" => \A c \in 1..Calls : Due(p, c) => <<n, c>> \in got,
         place = "settle" => \A c \in 1..Calls : call[n][c] = "acknowledged"
  PROVE  ProcessInv'
  <1>1. at'[p] = place /\ on'[p] = n /\ seen'[p] = s
    BY DEF TypeOK
  <1>2. \A q \in Pushers : q # p => at'[q] = at[q] /\ on'[q] = on[q] /\ seen'[q] = seen[q]
    BY DEF TypeOK
  <1>3. \A q \in Pushers, c \in 1..Calls : at'[q] \in Calling => (Due(q, c)' <=> Due(q, c))
    BY <1>1, <1>2 DEF Due
  <1>4. \A q \in Pushers : at'[q] \in Calling => at[q] \in Calling /\ on'[q] = on[q]
    BY <1>1, <1>2 DEF Calling
  <1>5. OnPush' /\ Fresh'
    BY <1>1, <1>2 DEF ProcessInv, OnPush, Fresh
  <1>6. SeenTrue'
    BY <1>1, <1>2 DEF ProcessInv, SeenTrue
  <1>7. UnderWay'
    BY <1>3, <1>4 DEF ProcessInv, UnderWay
  <1>8. OneCaller'
    BY <1>3, <1>4 DEF ProcessInv, OneCaller
  <1>9. AnsweredGot'
    <2> SUFFICES ASSUME NEW q \in Pushers, NEW c \in 1..Calls, at'[q] = "answered", Due(q, c)'
                 PROVE  <<on'[q], c>> \in got
      BY DEF AnsweredGot
    <2>1. Due(q, c)
      BY <1>3 DEF Calling
    <2> QED
      BY <2>1, <1>1, <1>2 DEF ProcessInv, AnsweredGot
  <1>10. SettleReady'
    BY <1>1, <1>2 DEF ProcessInv, SettleReady
  <1> QED
    BY <1>5, <1>6, <1>7, <1>8, <1>9, <1>10 DEF ProcessInv

(* Process types and the rest, as the steps change them. *)
ProcessType ==
  /\ at \in [Pushers -> Places] /\ on \in [Pushers -> 0..MaxPush] /\ \A p \in Pushers : on[p] <= Len(push)
  /\ seen \in [Pushers -> [1..Calls -> CallStates]] /\ mind \in [Pushers -> MindType]
RowType ==
  /\ push \in Seq(PushType) /\ Len(push) <= MaxPush
  /\ call \in [1..MaxPush -> [1..Calls -> CallStates]] /\ terminal \in [1..MaxPush -> TerminalType]
  /\ current \in [Artifacts -> 0..MaxPush] /\ \A a \in Artifacts : current[a] <= Len(push)
NetType ==
  /\ wire \subseteq Requests /\ got \subseteq Requests /\ sent \in [1..MaxPush -> [1..Calls -> Nat]]
CloudSessionType ==
  /\ cloud \in [Artifacts -> CloudType]
  /\ session \in [version : Nat, branch : Branches, history : SUBSET Branches, acked : Nat]
WorldType ==
  /\ generation \in [Artifacts -> Nat] /\ usage \in Nat
  /\ git \in [branch : Branches, refs : SUBSET Branches] /\ now \in Nat /\ stops \in Nat

LEMMA Types == TypeOK <=> ProcessType /\ RowType /\ NetType /\ CloudSessionType /\ WorldType
  BY DEF TypeOK, ProcessType, RowType, NetType, CloudSessionType, WorldType

LEMMA TypesNext ==
  ASSUME ProcessType', RowType', NetType', CloudSessionType', WorldType'
  PROVE  TypeOK'
  BY DEF TypeOK, ProcessType, RowType, NetType, CloudSessionType, WorldType

LEMMA RowTypeKept == ASSUME RowType, UNCHANGED <<push, call, terminal, current>> PROVE RowType'
  BY DEF RowType

LEMMA NetTypeKept == ASSUME NetType, UNCHANGED net PROVE NetType'
  BY DEF NetType, net, Requests

LEMMA CloudKept == ASSUME CloudSessionType, UNCHANGED <<cloud, session>> PROVE CloudSessionType'
  BY DEF CloudSessionType, CloudType, SourcesType

LEMMA WorldKept ==
  ASSUME WorldType, UNCHANGED <<world, now>>, stops' = stops \/ Stop PROVE WorldType'
  <1>1. stops' \in Nat
    BY DEF WorldType, Stop
  <1> QED
    BY <1>1 DEF WorldType, world

-----------------------------------------------------------------------------
(* The ways a process moves. *)

LEMMA GotoMoves ==
  ASSUME TypeOK, ProcessInv, NEW p \in Pushers, NEW place \in Places, Goto(p, place),
         call' = call, got' = got, push' = push,
         place \in Dispatching => on[p] # 0,
         place \in Early => at[p] \in Early,
         place \in Calling => at[p] = "sending",
         place = "answered" => \A c \in 1..Calls : Due(p, c) => <<on[p], c>> \in got,
         place = "settle" => \A c \in 1..Calls : call[on[p]][c] = "acknowledged"
  PROVE  ProcessInv' /\ ProcessType'
  <1>1. on' = [on EXCEPT ![p] = on[p]] /\ seen' = [seen EXCEPT ![p] = seen[p]]
    BY DEF Goto, TypeOK
  <1>2. at' = [at EXCEPT ![p] = place]
    BY DEF Goto
  <1>3. \A c \in 1..Calls : seen[p][c] = "acknowledged" => on[p] # 0 /\ call[on[p]][c] = "acknowledged"
    BY DEF ProcessInv, SeenTrue
  <1>4. place \in Early => seen[p] = NoCalls
    BY DEF ProcessInv, Fresh
  <1>5. ProcessInv'
    BY <1>1, <1>2, <1>3, <1>4, OneMoves
  <1>6. ProcessType'
    BY DEF Goto, TypeOK, ProcessType
  <1> QED
    BY <1>5, <1>6

LEMMA ThinkMoves ==
  ASSUME TypeOK, ProcessInv, NEW p \in Pushers, NEW place \in Places, NEW m \in MindType,
         Think(p, place, m), call' = call, got' = got, push' = push,
         place \in Dispatching => on[p] # 0,
         place \in Early => at[p] \in Early,
         place \notin Calling,
         place = "settle" => \A c \in 1..Calls : call[on[p]][c] = "acknowledged"
  PROVE  ProcessInv' /\ ProcessType'
  <1>1. on' = [on EXCEPT ![p] = on[p]] /\ seen' = [seen EXCEPT ![p] = seen[p]]
    BY DEF Think, TypeOK
  <1>2. at' = [at EXCEPT ![p] = place]
    BY DEF Think
  <1>3. \A c \in 1..Calls : seen[p][c] = "acknowledged" => on[p] # 0 /\ call[on[p]][c] = "acknowledged"
    BY DEF ProcessInv, SeenTrue
  <1>4. place \in Early => seen[p] = NoCalls
    BY DEF ProcessInv, Fresh
  <1>5. place # "answered"
    BY DEF Calling
  <1>6. ProcessInv'
    BY <1>1, <1>2, <1>3, <1>4, <1>5, OneMoves
  <1>7. ProcessType'
    BY DEF Think, TypeOK, ProcessType
  <1> QED
    BY <1>6, <1>7

LEMMA FinishMoves ==
  ASSUME TypeOK, ProcessInv, NEW p \in Pushers, Finish(p), call' = call, got' = got, push' = push
  PROVE  ProcessInv' /\ ProcessType'
  <1>1. \A c \in 1..Calls : NoCalls[c] # "acknowledged"
    BY DEF NoCalls
  <1>2. "idle" \notin Dispatching /\ "idle" \notin Calling
    BY DEF Dispatching, Calling
  <1>3. at' = [at EXCEPT ![p] = "idle"] /\ on' = [on EXCEPT ![p] = 0] /\ seen' = [seen EXCEPT ![p] = NoCalls]
    BY DEF Finish
  <1>4. ProcessInv'
    BY <1>1, <1>2, <1>3, OneMoves
  <1>5. ProcessType'
    BY PushAssumption, IdleType DEF Finish, TypeOK, ProcessType, Places
  <1> QED
    BY <1>4, <1>5

\* Taking a push that exists, with nothing of it seen yet.
LEMMA TakeMoves ==
  ASSUME TypeOK, ProcessInv, NEW p \in Pushers, NEW n \in 1..MaxPush, Take(p, n), at[p] \in Early,
         call' = call, got' = got, Len(push') \in Nat, Len(push) <= Len(push'), n <= Len(push')
  PROVE  ProcessInv' /\ ProcessType'
  <1>1. seen[p] = NoCalls /\ \A c \in 1..Calls : seen[p][c] # "acknowledged"
    BY DEF ProcessInv, Fresh, NoCalls
  <1>2. "restore" \notin Calling
    BY DEF Calling
  <1>3. at' = [at EXCEPT ![p] = "restore"] /\ on' = [on EXCEPT ![p] = n] /\ seen' = [seen EXCEPT ![p] = seen[p]]
    BY DEF Take, TypeOK
  <1>4. n # 0
    OBVIOUS
  <1>5. ProcessInv'
    BY <1>1, <1>2, <1>3, <1>4, OneMoves
  <1>6. /\ at' \in [Pushers -> Places] /\ on' \in [Pushers -> 0..MaxPush]
        /\ seen' \in [Pushers -> [1..Calls -> CallStates]] /\ mind' \in [Pushers -> MindType]
    BY PushAssumption DEF Take, TypeOK, Places
  <1>7. \A q \in Pushers : on'[q] <= Len(push')
    <2> SUFFICES ASSUME NEW q \in Pushers PROVE on'[q] <= Len(push')
      OBVIOUS
    <2>1. on[q] <= Len(push) /\ on[q] \in Nat /\ Len(push) \in Nat
      BY PushAssumption DEF TypeOK
    <2>2. on'[q] = IF q = p THEN n ELSE on[q]
      BY DEF Take, TypeOK
    <2> QED
      BY <2>1, <2>2
  <1> QED
    BY <1>5, <1>6, <1>7 DEF ProcessType

LEMMA StillStep ==
  ASSUME IInv, ProcessInv' /\ ProcessType', CloudSessionType', stops' = stops \/ Stop,
         UNCHANGED <<world, push, call, terminal, current, net, now>>
  PROVE  IInv'
  <1>1. RowsInv /\ ProcessType /\ RowType /\ NetType /\ CloudSessionType /\ WorldType
    BY Types DEF IInv
  <1>2. RowsInv'
    BY <1>1, RowsKept
  <1>3. RowType' /\ NetType' /\ WorldType'
    BY <1>1, RowTypeKept, NetTypeKept, WorldKept
  <1>4. TypeOK'
    BY <1>3, TypesNext
  <1> QED
    BY <1>2, <1>4 DEF IInv

\* Steps of a process that change nothing outside it.
LEMMA PrivateStep ==
  ASSUME IInv, ProcessInv' /\ ProcessType', stops' = stops \/ Stop, UNCHANGED <<world, db, net, now>>
  PROVE  IInv'
  <1>1. CloudSessionType
    BY Types DEF IInv
  <1>2. CloudSessionType'
    BY <1>1, CloudKept DEF db
  <1> QED
    BY <1>2, StillStep DEF db

LEMMA ReadingSteps ==
  ASSUME IInv, NEW p \in Pushers,
         \/ \E a \in Artifacts : Start(p, a)
         \/ ReadArtifact(p) \/ Look(p) \/ Skip(p) \/ Needed(p) \/ Prepare(p) \/ BeginStale(p)
  PROVE  IInv'
  <1> USE DEF Early, Dispatching, Calling, Places
  <1>0. TypeOK /\ ProcessInv /\ mind[p] \in MindType
    BY DEF IInv, TypeOK
  <1>1. CASE \E a \in Artifacts : Start(p, a)
    <2> PICK a \in Artifacts : Start(p, a)
      BY <1>1
    <2> DEFINE m == [Idle EXCEPT !.artifact = a, !.started = now, !.branch = git.branch, !.session = session.version]
    <2>1. m \in MindType
      BY <1>0, IdleType DEF MindType, TypeOK
    <2>2. Think(p, "observe", m) /\ UNCHANGED <<world, db, net, now, stops>> /\ at[p] = "idle"
      BY DEF Start
    <2> HIDE DEF m
    <2>3. ProcessInv' /\ ProcessType'
      BY <1>0, <2>1, <2>2, ThinkMoves DEF db, net
    <2> QED
      BY <2>2, <2>3, PrivateStep
  <1>2. CASE ReadArtifact(p)
    <2> DEFINE m == [Me(p) EXCEPT !.sources = [artifact |-> generation[Me(p).artifact], usage |-> 0]]
    <2>1. m \in MindType
      BY <1>0 DEF MindType, TypeOK, Me, SourcesType
    <2>2. Think(p, "look", m) /\ UNCHANGED <<world, db, net, now, stops>> /\ at[p] = "read"
      BY <1>2 DEF ReadArtifact
    <2> HIDE DEF m
    <2>3. ProcessInv' /\ ProcessType'
      BY <1>0, <2>1, <2>2, ThinkMoves DEF db, net
    <2> QED
      BY <2>2, <2>3, PrivateStep
  <1>3. CASE Look(p)
    <2> DEFINE n == current[Me(p).artifact]
               m == [Me(p) EXCEPT !.sources = [artifact |-> Me(p).sources.artifact, usage |-> usage]]
    <2>1. m \in MindType
      BY <1>0 DEF MindType, TypeOK, Me, SourcesType
    <2>2. /\ UNCHANGED <<world, db, net, now, stops>> /\ at[p] = "look"
          /\ (Unfinished(n) /\ Take(p, n)) \/ Think(p, "sources", m)
      BY <1>3 DEF Look
    <2>3. CASE Unfinished(n) /\ Take(p, n)
      <3>1. n \in 1..MaxPush /\ n <= Len(push) /\ Len(push) \in Nat
        <4>1. Me(p).artifact \in Artifacts
          BY <1>0 DEF Me, MindType
        <4>2. n \in 0..MaxPush /\ n <= Len(push) /\ Len(push) \in Nat
          BY <1>0, <4>1 DEF TypeOK
        <4> QED
          BY <2>3, <4>2, Bounds DEF Unfinished
      <3>2. push' = push /\ call' = call /\ got' = got /\ Take(p, n)
        BY <2>2, <2>3 DEF db, net
      <3> HIDE DEF n
      <3>3. ProcessInv' /\ ProcessType'
        BY <1>0, <2>2, <3>1, <3>2, TakeMoves
      <3> QED
        BY <2>2, <3>3, PrivateStep
    <2>4. CASE Think(p, "sources", m)
      <3> HIDE DEF m
      <3>1. ProcessInv' /\ ProcessType'
        BY <1>0, <2>1, <2>2, <2>4, ThinkMoves DEF db, net
      <3> QED
        BY <2>2, <3>1, PrivateStep
    <2> QED
      BY <2>2, <2>3, <2>4
  <1>4. CASE Skip(p)
    <2>1. Finish(p) /\ UNCHANGED <<world, db, net, now, stops>>
      BY <1>4 DEF Skip
    <2>2. ProcessInv' /\ ProcessType'
      BY <1>0, <2>1, FinishMoves DEF db, net
    <2> QED
      BY <2>1, <2>2, PrivateStep
  <1>5. CASE Needed(p)
    <2>1. Goto(p, "prepare") /\ UNCHANGED <<world, db, net, now, stops>> /\ at[p] = "sources"
      BY <1>5 DEF Needed
    <2>2. ProcessInv' /\ ProcessType'
      BY <1>0, <2>1, GotoMoves DEF db, net
    <2> QED
      BY <2>1, <2>2, PrivateStep
  <1>6. CASE Prepare(p)
    <2> DEFINE a == Me(p).artifact
               m == [Me(p) EXCEPT
                 !.previous = current[a], !.cloud = cloud[a].version,
                 !.session = IF Historical(a) THEN 0 ELSE session.version,
                 !.branch = IF Historical(a) THEN PlanBranch[a] ELSE session.branch,
                 !.history = IF Historical(a) THEN {} ELSE session.history]
    <2> HIDE DEF m
    <2>1. /\ a \in Artifacts /\ PlanBranch[a] \in Branches /\ current[a] \in Nat /\ cloud[a].version \in Nat
          /\ session.version \in Nat /\ session.branch \in Branches /\ session.history \in SUBSET Branches
      <3>1. a \in Artifacts
        BY <1>0 DEF Me, MindType
      <3>2. cloud[a] \in CloudType /\ current[a] \in 0..MaxPush
        BY <1>0, <3>1 DEF TypeOK
      <3>3. cloud[a].version \in Nat
        BY <3>2 DEF CloudType
      <3>4. session.version \in Nat /\ session.branch \in Branches /\ session.history \in SUBSET Branches
        BY <1>0 DEF TypeOK
      <3> QED
        BY <3>1, <3>2, <3>3, <3>4, PushAssumption, Bounds
    <2>2. m \in MindType
      BY <1>0, <2>1 DEF MindType, Me, m
    <2>3. Think(p, "begin", m) /\ UNCHANGED <<world, db, net, now, stops>> /\ at[p] = "prepare"
      BY <1>6 DEF Prepare, m
    <2>4. ProcessInv' /\ ProcessType'
      BY <1>0, <2>2, <2>3, ThinkMoves DEF db, net
    <2> QED
      BY <2>3, <2>4, PrivateStep
  <1>7. CASE BeginStale(p)
    <2>1. Goto(p, "failed") /\ UNCHANGED <<world, db, net, now, stops>>
      BY <1>7 DEF BeginStale
    <2>2. ProcessInv' /\ ProcessType'
      BY <1>0, <2>1, GotoMoves DEF db, net
    <2> QED
      BY <2>1, <2>2, PrivateStep
  <1> QED
    BY <1>1, <1>2, <1>3, <1>4, <1>5, <1>6, <1>7

LEMMA DispatchSteps ==
  ASSUME IInv, NEW p \in Pushers,
         \/ Restore(p) \/ \E c \in 1..Calls : Unresolved(p, c) \/ Answer(p, c)
         \/ Throw(p) \/ Complete(p) \/ SettleReplayed(p) \/ GiveUp(p) \/ Cancel(p) \/ Kill(p)
  PROVE  IInv'
  <1> USE DEF Early, Dispatching, Calling, Places
  <1>0. TypeOK /\ ProcessInv /\ mind[p] \in MindType /\ on[p] \in 0..MaxPush
    BY DEF IInv, TypeOK
  <1>1. at[p] \in Dispatching => on[p] # 0
    BY <1>0 DEF ProcessInv, OnPush
  <1>2. CASE Restore(p)
    <2>1. /\ UNCHANGED <<world, db, net, now, stops>> /\ at[p] = "restore"
          /\ Finish(p) \/ See(p, "dispatch", call[on[p]])
      BY <1>2 DEF Restore
    <2>2. CASE Finish(p)
      <3>1. ProcessInv' /\ ProcessType'
        BY <1>0, <2>1, <2>2, FinishMoves DEF db, net
      <3> QED
        BY <2>1, <3>1, PrivateStep
    <2>3. CASE See(p, "dispatch", call[on[p]])
      <3>1. /\ at' = [at EXCEPT ![p] = "dispatch"] /\ on' = [on EXCEPT ![p] = on[p]]
            /\ seen' = [seen EXCEPT ![p] = call[on[p]]] /\ call' = call /\ got' = got
        BY <1>0, <2>1, <2>3 DEF See, TypeOK, db, net
      <3>2. on[p] # 0 /\ on[p] \in 1..MaxPush
        BY <1>0, <1>1, <2>1, PushAssumption
      <3>3. ProcessInv'
        BY <1>0, <3>1, <3>2, OneMoves
      <3>4. ProcessType'
        BY <1>0, <2>1, <2>3, <3>2 DEF See, TypeOK, ProcessType, db
      <3> QED
        BY <2>1, <3>3, <3>4, PrivateStep
    <2> QED
      BY <2>1, <2>2, <2>3
  <1>3. ASSUME NEW c \in 1..Calls, Unresolved(p, c) PROVE IInv'
    <2>1. Goto(p, "failed") /\ UNCHANGED <<world, db, net, now, stops>>
      BY <1>3 DEF Unresolved
    <2>2. ProcessInv' /\ ProcessType'
      BY <1>0, <2>1, GotoMoves DEF db, net
    <2> QED
      BY <2>1, <2>2, PrivateStep
  <1>4. ASSUME NEW c \in 1..Calls, Answer(p, c) PROVE IInv'
    <2>1. /\ Goto(p, "answered") /\ UNCHANGED <<world, db, net, now, stops>> /\ at[p] = "sending"
          /\ Due(p, c) /\ <<on[p], c>> \in got
      BY <1>4 DEF Answer
    <2>2. \A d \in 1..Calls : Due(p, d) => <<on[p], d>> \in got
      BY <2>1, DueOnce
    <2>3. ProcessInv' /\ ProcessType'
      BY <1>0, <1>1, <2>1, <2>2, GotoMoves DEF db, net
    <2> QED
      BY <2>1, <2>3, PrivateStep
  <1>5. CASE Throw(p)
    <2>1. Goto(p, "thrown") /\ UNCHANGED <<world, db, net, now, stops>> /\ at[p] = "sending"
      BY <1>5 DEF Throw
    <2>2. ProcessInv' /\ ProcessType'
      BY <1>0, <1>1, <2>1, GotoMoves DEF db, net
    <2> QED
      BY <2>1, <2>2, PrivateStep
  <1>6. CASE Complete(p)
    <2> DEFINE m == [Me(p) EXCEPT !.ackAt = now]
    <2>1. /\ UNCHANGED <<world, db, net, now, stops>> /\ at[p] = "dispatch"
          /\ Finish(p) \/ Goto(p, "failed") \/ (Acknowledged(on[p]) /\ Think(p, "settle", m))
      <3>1. /\ UNCHANGED <<world, db, net, now, stops>> /\ at[p] = "dispatch"
            /\ IF terminal[on[p]].settled THEN Finish(p)
               ELSE IF Acknowledged(on[p]) THEN Think(p, "settle", m) ELSE Goto(p, "failed")
        BY <1>6 DEF Complete
      <3> HIDE DEF m
      <3> QED
        BY <3>1
    <2>2. m \in MindType
      BY <1>0 DEF MindType, Me, TypeOK
    <2> HIDE DEF m
    <2>3. ProcessInv' /\ ProcessType'
      <3>1. CASE Finish(p)
        BY <1>0, <2>1, <3>1, FinishMoves DEF db, net
      <3>2. CASE Goto(p, "failed")
        BY <1>0, <2>1, <3>2, GotoMoves DEF db, net
      <3>3. CASE Acknowledged(on[p]) /\ Think(p, "settle", m)
        <4>1. on[p] # 0 /\ \A c \in 1..Calls : call[on[p]][c] = "acknowledged"
          BY <1>1, <2>1, <3>3 DEF Acknowledged
        <4> QED
          BY <1>0, <2>1, <2>2, <3>3, <4>1, ThinkMoves DEF db, net
      <3> QED
        BY <2>1, <3>1, <3>2, <3>3
    <2> QED
      BY <2>1, <2>3, PrivateStep
  <1>7. CASE SettleReplayed(p) \/ GiveUp(p) \/ Kill(p)
    <2>1. Finish(p) /\ UNCHANGED <<world, db, net, now>> /\ (stops' = stops \/ Stop)
      BY <1>7 DEF SettleReplayed, GiveUp, Kill
    <2>2. ProcessInv' /\ ProcessType'
      BY <1>0, <2>1, FinishMoves DEF db, net
    <2> QED
      BY <2>1, <2>2, PrivateStep
  <1>8. CASE Cancel(p)
    <2>1. Goto(p, "failed") /\ UNCHANGED <<world, db, net, now>> /\ Stop
      BY <1>8 DEF Cancel
    <2>2. ProcessInv' /\ ProcessType'
      BY <1>0, <2>1, GotoMoves DEF db, net
    <2> QED
      BY <2>1, <2>2, PrivateStep
  <1> QED
    BY <1>2, <1>3, <1>4, <1>5, <1>6, <1>7, <1>8

\* Steps that also select a session revision or a cloud record.
LEMMA SelectingSteps ==
  ASSUME IInv, NEW p \in Pushers, Observe(p) \/ RecordFailure(p)
  PROVE  IInv'
  <1> USE DEF Early, Dispatching, Calling, Places
  <1>0. TypeOK /\ ProcessInv /\ mind[p] \in MindType /\ CloudSessionType
    BY Types DEF IInv, TypeOK
  <1>1. CASE Observe(p)
    <2>1. /\ UNCHANGED <<world, cloud, push, call, terminal, current, net, now, stops>> /\ at[p] = "observe"
          /\ \/ session' = Observed(p) /\ Goto(p, "read")
             \/ session' = session /\ Finish(p)
      BY <1>1 DEF Observe
    <2>2. Observed(p) \in [version : Nat, branch : Branches, history : SUBSET Branches, acked : Nat]
      BY <1>0 DEF Observed, Me, MindType, CloudSessionType, Never
    <2>3. CloudSessionType'
      <3>1. session' \in [version : Nat, branch : Branches, history : SUBSET Branches, acked : Nat]
        BY <1>0, <2>1, <2>2 DEF CloudSessionType
      <3> QED
        BY <1>0, <2>1, <3>1 DEF CloudSessionType, CloudType, SourcesType
    <2>4. ProcessInv' /\ ProcessType'
      <3>1. CASE Goto(p, "read")
        BY <1>0, <2>1, <3>1, GotoMoves DEF net
      <3>2. CASE Finish(p)
        BY <1>0, <2>1, <3>2, FinishMoves DEF net
      <3> QED
        BY <2>1, <3>1, <3>2
    <2> QED
      BY <2>1, <2>3, <2>4, StillStep
  <1>2. CASE RecordFailure(p)
    <2> DEFINE a == Me(p).artifact
    <2>1. /\ Finish(p) /\ UNCHANGED <<push, call, terminal, current, session, world, net, now, stops>>
          /\ cloud' = cloud \/ cloud' = [cloud EXCEPT ![a].version = @ + 1, ![a].failures = @ + 1]
      BY <1>2 DEF RecordFailure
    <2>2. a \in Artifacts
      BY <1>0 DEF Me, MindType
    <2>3. cloud' \in [Artifacts -> CloudType]
      BY <1>0, <2>1, <2>2 DEF CloudSessionType, CloudType
    <2>4. CloudSessionType'
      BY <1>0, <2>1, <2>3 DEF CloudSessionType, CloudType, SourcesType
    <2>5. ProcessInv' /\ ProcessType'
      BY <1>0, <2>1, FinishMoves DEF net
    <2> QED
      BY <2>1, <2>4, <2>5, StillStep
  <1> QED
    BY <1>1, <1>2

-----------------------------------------------------------------------------
(* Steps that change what is retained of a call. *)

LEMMA CallChanges ==
  ASSUME TypeOK, NEW n \in 1..MaxPush, NEW c \in 1..Calls, NEW value \in CallStates, CallState(n, c, value)
  PROVE  /\ call' \in [1..MaxPush -> [1..Calls -> CallStates]]
         /\ \A m \in 1..MaxPush, d \in 1..Calls :
              call'[m][d] = IF m = n /\ d = c THEN value ELSE call[m][d]
  BY DEF TypeOK, CallState

LEMMA RowTypeCall ==
  ASSUME RowType, call' \in [1..MaxPush -> [1..Calls -> CallStates]], UNCHANGED <<push, terminal, current>>
  PROVE  RowType'
  BY DEF RowType

LEMMA AdmitStep ==
  ASSUME IInv, NEW p \in Pushers, NEW c \in 1..Calls, Admit(p, c)
  PROVE  IInv'
  <1> DEFINE n == on[p]
  <1> USE DEF Early, Dispatching, Calling, Places
  <1>0. TypeOK /\ RowsInv /\ ProcessInv /\ ProcessType /\ RowType /\ NetType /\ CloudSessionType /\ WorldType
    BY Types DEF IInv
  <1>1. /\ at[p] = "dispatch" /\ Due(p, c) /\ call[n][c] = "none" /\ CallState(n, c, "attempted")
        /\ sent' = [sent EXCEPT ![n] = [sent[n] EXCEPT ![c] = sent[n][c] + 1]]
        /\ wire' = wire \cup {<<n, c>>} /\ Goto(p, "sending") /\ got' = got
        /\ UNCHANGED <<cloud, push, terminal, current, session, world, now, stops>>
    BY DEF Admit
  <1>2. n \in 1..MaxPush /\ n <= Len(push)
    BY <1>0, <1>1, PushAssumption DEF TypeOK, ProcessInv, OnPush
  <1>3. /\ call' \in [1..MaxPush -> [1..Calls -> CallStates]]
        /\ \A m \in 1..MaxPush, d \in 1..Calls :
             call'[m][d] = IF m = n /\ d = c THEN "attempted" ELSE call[m][d]
    <2>1. "attempted" \in CallStates
      BY DEF CallStates
    <2> QED
      BY <1>0, <1>1, <1>2, <2>1, CallChanges
  <1>4. \A m \in 1..MaxPush, d \in 1..Calls :
          sent'[m][d] = IF m = n /\ d = c THEN sent[m][d] + 1 ELSE sent[m][d]
    BY <1>0, <1>1, <1>2 DEF TypeOK
  <1>5. \A d \in 1..Calls : d < c => call[n][d] = "acknowledged"
    BY <1>0, <1>1, PushAssumption DEF Due, ProcessInv, SeenTrue
  <1>6. TypeOK'
    <2>1. NetType'
      <3>1. sent' \in [1..MaxPush -> [1..Calls -> Nat]]
        <4>1. [sent[n] EXCEPT ![c] = sent[n][c] + 1] \in [1..Calls -> Nat]
          <5>1. sent[n] \in [1..Calls -> Nat]
            BY <1>0, <1>2 DEF NetType
          <5>2. sent[n][c] \in Nat
            BY <5>1
          <5> HIDE DEF n
          <5>3. sent[n][c] + 1 \in Nat
            BY <5>2
          <5> QED
            BY <5>1, <5>3
        <4> QED
          BY <1>0, <1>1, <1>2, <4>1 DEF NetType
      <3> QED
        BY <1>0, <1>1, <1>2, <3>1 DEF NetType, Requests
    <2>2. ProcessType'
      BY <1>0, <1>1 DEF Goto, ProcessType
    <2> QED
      BY <1>0, <1>1, <1>3, <2>1, <2>2, RowTypeCall, CloudKept, WorldKept, TypesNext
  <1>7. RowsInv'
    <2>1. SentAsRetained'
      BY <1>0, <1>1, <1>2, <1>3, <1>4 DEF RowsInv, SentAsRetained
    <2>2. NothingAhead'
      <3>1. Len(push) \in Nat
        BY <1>0 DEF RowType
      <3> QED
        BY <1>0, <1>1, <1>2, <1>3, <3>1, Bounds DEF RowsInv, NothingAhead
    <2>3. InOrder'
      <3> SUFFICES ASSUME NEW m \in 1..MaxPush, NEW e \in 1..Calls, NEW d \in 1..Calls,
                          d < e, call'[m][e] # "none"
                   PROVE  call'[m][d] = "acknowledged"
        BY DEF InOrder
      <3>1. CASE m = n /\ e = c
        BY <1>3, <1>5, <3>1, Bounds
      <3>2. CASE ~(m = n /\ e = c)
        <4>1. call[m][e] # "none"
          BY <1>3, <3>2
        <4>2. call[m][d] = "acknowledged"
          BY <1>0, <4>1 DEF RowsInv, InOrder
        <4> QED
          BY <1>1, <1>3, <4>2
      <3> QED
        BY <3>1, <3>2
    <2>4. AcknowledgedGot'
      BY <1>0, <1>1, <1>2, <1>3 DEF RowsInv, AcknowledgedGot
    <2>5. OnNetwork'
      <3>1. <<n, c>> \notin got
        BY <1>0, <1>1, <1>2 DEF RowsInv, OnNetwork
      <3>2. \A m \in 1..MaxPush, d \in 1..Calls : <<m, d>> \in wire' \cup got' => call'[m][d] # "none"
        BY <1>0, <1>1, <1>2, <1>3 DEF RowsInv, OnNetwork
      <3> QED
        BY <1>0, <1>1, <3>1, <3>2 DEF RowsInv, OnNetwork
    <2>6. SettledWhole'
      BY <1>0, <1>1, <1>2, <1>3 DEF RowsInv, SettledWhole
    <2>7. Selected'
      BY <1>0, <1>1 DEF RowsInv, Selected, Pushes
    <2> QED
      BY <2>1, <2>2, <2>3, <2>4, <2>5, <2>6, <2>7 DEF RowsInv
  <1>8. ProcessInv'
    <2>1. /\ at'[p] = "sending" /\ on' = on /\ seen' = seen
          /\ \A q \in Pushers : q # p => at'[q] = at[q]
      BY <1>0, <1>1 DEF Goto, TypeOK
    <2>2. \A q \in Pushers, d \in 1..Calls : Due(q, d)' <=> Due(q, d)
      BY <2>1 DEF Due
    <2>3. \A q \in Pushers : at'[q] \in Dispatching => on[q] \in 1..MaxPush
      BY <1>0, <1>2, <2>1, PushAssumption DEF TypeOK, ProcessInv, OnPush
    <2>4. OnPush' /\ Fresh'
      BY <1>0, <1>1, <1>2, <2>1 DEF ProcessInv, OnPush, Fresh
    <2>5. SeenTrue'
      <3> SUFFICES ASSUME NEW q \in Pushers, NEW d \in 1..Calls, seen[q][d] = "acknowledged"
                   PROVE  on[q] # 0 /\ call'[on[q]][d] = "acknowledged"
        BY <2>1 DEF SeenTrue
      <3>1. on[q] # 0 /\ call[on[q]][d] = "acknowledged" /\ on[q] \in 1..MaxPush
        BY <1>0, Bounds DEF ProcessInv, SeenTrue, ProcessType
      <3> QED
        BY <1>1, <1>3, <3>1
    <2>6. UnderWay'
      <3> SUFFICES ASSUME NEW q \in Pushers, NEW d \in 1..Calls, at'[q] \in Calling, Due(q, d)
                   PROVE  call'[on[q]][d] = "attempted"
        BY <2>1, <2>2 DEF UnderWay
      <3>1. CASE q = p
        BY <1>1, <1>2, <1>3, <3>1, DueOnce
      <3>2. CASE q # p
        BY <1>0, <1>3, <2>1, <2>3, <3>2 DEF ProcessInv, UnderWay
      <3> QED
        BY <3>1, <3>2
    <2>7. \A q \in Pushers : q # p /\ at[q] \in Calling /\ on[q] = n => ~Due(q, c)
      BY <1>0, <1>1 DEF ProcessInv, UnderWay
    <2>8. OneCaller'
      <3> SUFFICES ASSUME NEW q \in Pushers, NEW r \in Pushers, NEW d \in 1..Calls,
                          at'[q] \in Calling, at'[r] \in Calling, on[q] = on[r], Due(q, d), Due(r, d)
                   PROVE  q = r
        BY <2>1, <2>2 DEF OneCaller
      <3>1. CASE q = p
        BY <1>1, <2>1, <2>7, <3>1, DueOnce
      <3>2. CASE r = p
        BY <1>1, <2>1, <2>7, <3>2, DueOnce
      <3>3. CASE q # p /\ r # p
        BY <1>0, <2>1, <3>3 DEF ProcessInv, OneCaller
      <3> QED
        BY <3>1, <3>2, <3>3
    <2>9. AnsweredGot'
      BY <1>0, <1>1, <2>1, <2>2 DEF ProcessInv, AnsweredGot
    <2>10. SettleReady'
      BY <1>0, <1>1, <1>2, <1>3, <2>1, <2>3 DEF ProcessInv, SettleReady
    <2> QED
      BY <2>4, <2>5, <2>6, <2>8, <2>9, <2>10 DEF ProcessInv
  <1> QED
    BY <1>6, <1>7, <1>8 DEF IInv

\* An outcome, of the one call its process has under way.
LEMMA OutcomeStep ==
  ASSUME IInv, NEW p \in Pushers, NEW c \in 1..Calls, Acknowledge(p, c) \/ RecordUnknown(p, c)
  PROVE  IInv'
  <1> DEFINE n == on[p]
             value == IF Acknowledge(p, c) THEN "acknowledged" ELSE "unknown"
  <1> USE DEF Early, Dispatching, Calling, Places
  <1>0. TypeOK /\ RowsInv /\ ProcessInv /\ ProcessType /\ RowType /\ NetType /\ CloudSessionType /\ WorldType
    BY Types DEF IInv
  <1>1. /\ at[p] \in {"answered", "thrown"} /\ Due(p, c) /\ CallState(n, c, value)
        /\ UNCHANGED <<cloud, push, terminal, current, session, world, net, now, stops>>
    BY DEF Acknowledge, RecordUnknown
  <1>2. n \in 1..MaxPush /\ n <= Len(push) /\ call[n][c] = "attempted"
    BY <1>0, <1>1, PushAssumption DEF TypeOK, ProcessInv, OnPush, UnderWay
  <1>3. value \in CallStates /\ value \in {"acknowledged", "unknown"}
    BY DEF CallStates
  <1>4. /\ call' \in [1..MaxPush -> [1..Calls -> CallStates]]
        /\ \A m \in 1..MaxPush, d \in 1..Calls :
             call'[m][d] = IF m = n /\ d = c THEN value ELSE call[m][d]
    <2> HIDE DEF value
    <2> QED
      BY <1>0, <1>1, <1>2, <1>3, CallChanges
  <1>5. value = "acknowledged" => <<n, c>> \in got
    BY <1>0 DEF Acknowledge, ProcessInv, AnsweredGot
  <1>6. /\ on' = on /\ at'[p] \in {"dispatch", "failed"}
        /\ seen'[p] = (IF value = "acknowledged" THEN [seen[p] EXCEPT ![c] = "acknowledged"] ELSE seen[p])
        /\ \A q \in Pushers : q # p => at'[q] = at[q] /\ seen'[q] = seen[q]
        /\ ProcessType'
    <2>1. CASE Acknowledge(p, c)
      BY <1>0, <1>1, <2>1 DEF Acknowledge, See, ProcessType, CallStates
    <2>2. CASE ~Acknowledge(p, c)
      BY <1>0, <1>1, <2>2 DEF RecordUnknown, Goto, ProcessType
    <2> QED
      BY <2>1, <2>2
  <1> HIDE DEF value
  <1>7. TypeOK'
    BY <1>0, <1>1, <1>4, <1>6, RowTypeCall, NetTypeKept, CloudKept, WorldKept, TypesNext
  <1>8. RowsInv'
    <2>1. SentAsRetained'
      BY <1>0, <1>1, <1>2, <1>3, <1>4 DEF RowsInv, SentAsRetained, net
    <2>2. NothingAhead'
      BY <1>0, <1>1, <1>2, <1>4 DEF RowsInv, NothingAhead, TypeOK
    <2>3. InOrder'
      <3> SUFFICES ASSUME NEW m \in 1..MaxPush, NEW e \in 1..Calls, NEW d \in 1..Calls,
                          d < e, call'[m][e] # "none"
                   PROVE  call'[m][d] = "acknowledged"
        BY DEF InOrder
      <3>1. call[m][e] # "none"
        BY <1>2, <1>4
      <3>2. call[m][d] = "acknowledged"
        BY <1>0, <3>1 DEF RowsInv, InOrder
      <3> QED
        BY <1>2, <1>4, <3>2
    <2>4. AcknowledgedGot'
      BY <1>0, <1>1, <1>2, <1>4, <1>5 DEF RowsInv, AcknowledgedGot, net
    <2>5. OnNetwork'
      BY <1>0, <1>1, <1>2, <1>3, <1>4 DEF RowsInv, OnNetwork, net
    <2>6. SettledWhole'
      BY <1>0, <1>1, <1>2, <1>4 DEF RowsInv, SettledWhole
    <2>7. Selected'
      BY <1>0, <1>1 DEF RowsInv, Selected, Pushes
    <2> QED
      BY <2>1, <2>2, <2>3, <2>4, <2>5, <2>6, <2>7 DEF RowsInv
  <1>9. ProcessInv'
    <2>1. \A q \in Pushers, d \in 1..Calls : q # p => (Due(q, d)' <=> Due(q, d))
      BY <1>6 DEF Due
    <2>2. \A q \in Pushers : at'[q] \in Calling => q # p /\ at[q] \in Calling
      BY <1>6
    <2>3. \A q \in Pushers : q # p /\ at[q] \in Calling /\ on[q] = n => ~Due(q, c)
      BY <1>0, <1>1 DEF ProcessInv, OneCaller
    <2>4. \A q \in Pushers : at'[q] \in Dispatching => on[q] \in 1..MaxPush
      BY <1>0, <1>2, <1>6, PushAssumption DEF TypeOK, ProcessInv, OnPush
    <2>5. OnPush' /\ Fresh'
      BY <1>0, <1>2, <1>6 DEF ProcessInv, OnPush, Fresh
    <2>6. SeenTrue'
      <3> SUFFICES ASSUME NEW q \in Pushers, NEW d \in 1..Calls, seen'[q][d] = "acknowledged"
                   PROVE  on[q] # 0 /\ call'[on[q]][d] = "acknowledged"
        BY <1>6 DEF SeenTrue
      <3>1. CASE seen[q][d] = "acknowledged"
        <4>1. on[q] # 0 /\ call[on[q]][d] = "acknowledged" /\ on[q] \in 1..MaxPush
          BY <1>0, <3>1, Bounds DEF ProcessInv, SeenTrue, ProcessType
        <4> QED
          BY <1>2, <1>4, <4>1
      <3>2. CASE seen[q][d] # "acknowledged"
        <4>1. q = p /\ d = c /\ value = "acknowledged"
          BY <1>0, <1>6, <3>2 DEF TypeOK
        <4> QED
          BY <1>2, <1>4, <4>1
      <3> QED
        BY <3>1, <3>2
    <2>7. UnderWay'
      <3> SUFFICES ASSUME NEW q \in Pushers, NEW d \in 1..Calls, at'[q] \in Calling, Due(q, d)'
                   PROVE  call'[on[q]][d] = "attempted"
        BY <1>6 DEF UnderWay
      <3>1. q # p /\ at[q] \in Calling /\ Due(q, d) /\ on[q] \in 1..MaxPush
        BY <2>1, <2>2, <2>4
      <3>2. call[on[q]][d] = "attempted"
        BY <1>0, <3>1 DEF ProcessInv, UnderWay
      <3> QED
        BY <1>4, <2>3, <3>1, <3>2
    <2>8. OneCaller'
      BY <1>0, <1>6, <2>1, <2>2 DEF ProcessInv, OneCaller
    <2>9. AnsweredGot'
      BY <1>0, <1>1, <1>6, <2>1 DEF ProcessInv, AnsweredGot, net
    <2>10. SettleReady'
      BY <1>0, <1>2, <1>4, <1>6, <2>4 DEF ProcessInv, SettleReady
    <2> QED
      BY <2>5, <2>6, <2>7, <2>8, <2>9, <2>10 DEF ProcessInv
  <1> QED
    BY <1>7, <1>8, <1>9 DEF IInv

-----------------------------------------------------------------------------
(* The network, admission and settlement. *)

LEMMA NetworkStep ==
  ASSUME IInv, NEW r \in wire, Deliver(r) \/ Lose(r)
  PROVE  IInv'
  <1>0. TypeOK /\ RowsInv /\ ProcessInv /\ ProcessType /\ RowType /\ NetType /\ CloudSessionType /\ WorldType
    BY Types DEF IInv
  <1>1. /\ wire' = wire \ {r} /\ got \subseteq got' /\ got' \subseteq got \cup {r} /\ sent' = sent
        /\ UNCHANGED <<world, db, process, now, stops>>
    BY DEF Deliver, Lose
  <1>2. TypeOK'
    <2>1. NetType'
      BY <1>0, <1>1 DEF NetType, Requests
    <2>2. ProcessType'
      BY <1>0, <1>1 DEF ProcessType, process, db
    <2> QED
      BY <1>0, <1>1, <2>1, <2>2, RowTypeKept, CloudKept, WorldKept, TypesNext DEF db
  <1>3. RowsInv'
    BY <1>0, <1>1 DEF db, RowsInv, SentAsRetained, NothingAhead, InOrder, AcknowledgedGot, OnNetwork,
       SettledWhole, Selected, Pushes
  <1>4. ProcessInv'
    BY <1>0, <1>1 DEF db, process, ProcessInv, OnPush, Fresh, SeenTrue, UnderWay, OneCaller, AnsweredGot,
       SettleReady, Due
  <1> QED
    BY <1>2, <1>3, <1>4 DEF IInv

LEMMA WorldStep ==
  ASSUME IInv, \/ \E a \in Artifacts : AppendEvents(a)
               \/ AppendUsage \/ Tick
               \/ \E b \in Branches, renamed \in BOOLEAN : ChangeBranch(b, renamed)
               \/ UNCHANGED vars
  PROVE  IInv'
  <1>0. TypeOK /\ RowsInv /\ ProcessInv /\ ProcessType /\ RowType /\ NetType /\ CloudSessionType /\ WorldType
    BY Types DEF IInv
  <1>1. UNCHANGED <<db, process, net>>
    BY DEF AppendEvents, AppendUsage, Tick, ChangeBranch, vars, db, process, net
  <1>2. WorldType'
    <2>1. ASSUME NEW a \in Artifacts, AppendEvents(a) PROVE WorldType'
      BY <1>0, <2>1 DEF AppendEvents, WorldType
    <2>2. CASE AppendUsage
      BY <1>0, <2>2 DEF AppendUsage, WorldType
    <2>3. CASE Tick
      BY <1>0, <2>3 DEF Tick, WorldType, world
    <2>4. ASSUME NEW b \in Branches, NEW renamed \in BOOLEAN, ChangeBranch(b, renamed) PROVE WorldType'
      <3>1. git' \in [branch : Branches, refs : SUBSET Branches]
        BY <1>0, <2>4 DEF ChangeBranch, WorldType
      <3> QED
        BY <1>0, <2>4, <3>1 DEF ChangeBranch, WorldType
    <2>5. CASE UNCHANGED vars
      BY <1>0, <2>5 DEF vars, WorldType
    <2> QED
      BY <2>1, <2>2, <2>3, <2>4, <2>5
  <1>3. ProcessType'
    BY <1>0, <1>1 DEF ProcessType, process, db
  <1>4. TypeOK'
    BY <1>0, <1>1, <1>2, <1>3, RowTypeKept, NetTypeKept, CloudKept, TypesNext DEF db
  <1>5. RowsInv'
    BY <1>0, <1>1, RowsKept DEF db
  <1>6. ProcessInv'
    BY <1>0, <1>1 DEF db, net, process, ProcessInv, OnPush, Fresh, SeenTrue, UnderWay, OneCaller, AnsweredGot,
       SettleReady, Due
  <1> QED
    BY <1>4, <1>5, <1>6 DEF IInv

LEMMA BeginStep ==
  ASSUME IInv, NEW p \in Pushers, Begin(p)
  PROVE  IInv'
  <1> DEFINE a == Me(p).artifact
             n == Len(push) + 1
             row == [artifact |-> a, sources |-> Me(p).sources, cloud |-> Me(p).cloud,
                     session |-> Me(p).session, branch |-> Me(p).branch, history |-> Me(p).history,
                     acked |-> session.acked]
  <1>0. TypeOK /\ RowsInv /\ ProcessInv /\ ProcessType /\ RowType /\ NetType /\ CloudSessionType /\ WorldType
    BY Types DEF IInv
  <1>1. /\ at[p] = "begin" /\ n <= MaxPush /\ push' = Append(push, row)
        /\ current' = [current EXCEPT ![a] = n] /\ Take(p, n) /\ ~Unfinished(current[a])
        /\ UNCHANGED <<cloud, call, terminal, session, world, net, now, stops>>
    BY DEF Begin, Admissible
  <1>2. a \in Artifacts /\ row \in PushType
    BY <1>0 DEF Me, ProcessType, MindType, PushType, CloudSessionType
  <1>3. row.artifact = a /\ Len(push) \in Nat
    BY <1>0 DEF RowType
  <1> HIDE DEF row
  <1>4. push' \in Seq(PushType) /\ Len(push') = n /\ push'[n].artifact = a
        /\ \A m \in Pushes : push'[m] = push[m]
    BY <1>0, <1>1, <1>2, <1>3 DEF RowType, Pushes
  <1>5. n \in 1..MaxPush /\ MaxPush \in Nat
    BY <1>1, <1>3, PushAssumption
  <1>6. RowType'
    <2>1. current' \in [Artifacts -> 0..MaxPush] /\ \A b \in Artifacts : current'[b] <= n
      BY <1>0, <1>1, <1>2, <1>3, <1>5 DEF RowType
    <2> QED
      BY <1>0, <1>1, <1>4, <2>1 DEF RowType
  <1>7. ProcessInv' /\ ProcessType'
    <2>1. at[p] \in Early /\ call' = call /\ got' = got /\ n <= Len(push') /\ Len(push') \in Nat
          /\ Len(push) <= Len(push')
      BY <1>1, <1>3, <1>4 DEF Early, net
    <2> HIDE DEF n
    <2> QED
      BY <1>0, <1>1, <1>5, <2>1, TakeMoves
  <1>8. TypeOK'
    BY <1>0, <1>1, <1>6, <1>7, NetTypeKept, CloudKept, WorldKept, TypesNext
  <1>9. RowsInv'
    <2>1. NothingAhead'
      BY <1>0, <1>1, <1>3, <1>4 DEF RowsInv, NothingAhead
    <2>2. Selected'
      <3> SUFFICES ASSUME NEW m \in Pushes'
                   PROVE  /\ m <= current'[push'[m].artifact]
                          /\ ~terminal[m].settled => current'[push'[m].artifact] = m
        BY <1>1 DEF Selected
      <3>1. m \in Pushes \/ m = n
        BY <1>3, <1>4 DEF Pushes
      <3>2. CASE m = n
        BY <1>0, <1>1, <1>2, <1>3, <1>4, <3>2 DEF RowType
      <3>3. CASE m \in Pushes
        <4>0. push[m] \in PushType
          BY <1>0, <1>3, <3>3 DEF Pushes, RowType
        <4>1. push'[m] = push[m] /\ m <= Len(push) /\ m # 0 /\ m \in Nat /\ push[m].artifact \in Artifacts
          BY <1>3, <1>4, <3>3, <4>0 DEF Pushes, PushType
        <4>2. /\ m <= current[push[m].artifact]
              /\ ~terminal[m].settled => current[push[m].artifact] = m
          BY <1>0, <3>3 DEF RowsInv, Selected
        <4>3. CASE push[m].artifact = a
          BY <1>0, <1>1, <1>2, <1>3, <4>1, <4>2, <4>3 DEF RowType, Unfinished
        <4>4. CASE push[m].artifact # a
          BY <1>0, <1>1, <4>1, <4>2, <4>4 DEF RowType
        <4> QED
          BY <4>3, <4>4
      <3> QED
        BY <3>1, <3>2, <3>3
    <2>3. (SentAsRetained /\ InOrder /\ AcknowledgedGot /\ OnNetwork /\ SettledWhole)'
      BY <1>0, <1>1 DEF net, RowsInv, SentAsRetained, InOrder, AcknowledgedGot, OnNetwork, SettledWhole
    <2> QED
      BY <2>1, <2>2, <2>3 DEF RowsInv
  <1> QED
    BY <1>7, <1>8, <1>9 DEF IInv

LEMMA SettleStep ==
  ASSUME IInv, NEW p \in Pushers, Settle(p)
  PROVE  IInv'
  <1> DEFINE n == on[p]
             a == push[n].artifact
             time == Me(p).ackAt
             result == [settled |-> TRUE, cloudApplied |-> CloudApplies(n, time),
                        sessionApplied |-> SessionApplies(n, time)]
  <1>0. TypeOK /\ RowsInv /\ ProcessInv /\ ProcessType /\ RowType /\ NetType /\ CloudSessionType /\ WorldType
    BY Types DEF IInv
  <1>1. /\ at[p] = "settle" /\ terminal' = [terminal EXCEPT ![n] = result] /\ Finish(p)
        /\ cloud' = IF CloudApplies(n, time)
                      THEN [cloud EXCEPT ![a] = [version |-> @.version + 1, failures |-> 0,
                                                 success |-> [at |-> time, sources |-> push[n].sources]]]
                      ELSE cloud
        /\ session' = IF SessionApplies(n, time)
                        THEN [session EXCEPT !.version = @ + 1, !.history = {}, !.acked = time]
                        ELSE session
        /\ UNCHANGED <<push, call, current, world, net, now, stops>>
    BY DEF Settle
  <1>2. n \in 1..MaxPush /\ n \in Pushes
    BY <1>0, <1>1, PushAssumption DEF ProcessType, ProcessInv, OnPush, Dispatching, Pushes, RowType
  <1>3. \A c \in 1..Calls : call[n][c] = "acknowledged"
    BY <1>0, <1>1 DEF ProcessInv, SettleReady
  <1>4. result \in TerminalType /\ result.settled
    <2>1. CloudApplies(n, time) \in BOOLEAN /\ SessionApplies(n, time) \in BOOLEAN
      BY DEF CloudApplies, SessionApplies
    <2> HIDE DEF n, time
    <2> QED
      BY <2>1 DEF TerminalType
  <1> HIDE DEF result
  <1>5. RowType'
    BY <1>0, <1>1, <1>2, <1>4 DEF RowType
  <1>6. time \in Nat /\ push[n].sources \in SourcesType /\ a \in Artifacts
    <2>1. mind[p] \in MindType /\ push[n] \in PushType
      BY <1>0, <1>2 DEF ProcessType, RowType, Pushes
    <2> QED
      BY <2>1 DEF MindType, Me, PushType
  <1>7. CloudSessionType'
    <2>1. cloud' \in [Artifacts -> CloudType]
      <3>1. cloud[a].version + 1 \in Nat
        BY <1>0, <1>6 DEF CloudSessionType, CloudType
      <3>2. [version |-> cloud[a].version + 1, failures |-> 0,
             success |-> [at |-> time, sources |-> push[n].sources]] \in CloudType
        BY <1>6, <3>1 DEF CloudType
      <3> QED
        BY <1>0, <1>1, <3>2 DEF CloudSessionType
    <2>2. session' \in [version : Nat, branch : Branches, history : SUBSET Branches, acked : Nat]
      <3>1. session.version + 1 \in Nat /\ {} \in SUBSET Branches
        BY <1>0 DEF CloudSessionType
      <3> QED
        BY <1>0, <1>1, <1>6, <3>1 DEF CloudSessionType
    <2> QED
      BY <2>1, <2>2 DEF CloudSessionType, CloudType, SourcesType
  <1>8. ProcessInv' /\ ProcessType'
    BY <1>0, <1>1, FinishMoves DEF net
  <1>9. TypeOK'
    BY <1>0, <1>1, <1>5, <1>7, <1>8, NetTypeKept, WorldKept, TypesNext
  <1>10. RowsInv'
    <2>1. \A m \in 1..MaxPush : terminal'[m] = IF m = n THEN result ELSE terminal[m]
      BY <1>0, <1>1, <1>2 DEF RowType
    <2>2. NothingAhead'
      BY <1>0, <1>1, <1>2, <2>1 DEF RowsInv, NothingAhead, RowType, Pushes
    <2>3. SettledWhole'
      BY <1>0, <1>1, <1>3, <2>1 DEF RowsInv, SettledWhole
    <2>4. Selected'
      <3>1. \A m \in Pushes : m \in 1..MaxPush
        BY <1>0, PushAssumption DEF RowType, Pushes
      <3> QED
        BY <1>0, <1>1, <1>4, <2>1, <3>1 DEF RowsInv, Selected, Pushes
    <2>5. (SentAsRetained /\ InOrder /\ AcknowledgedGot /\ OnNetwork)'
      BY <1>0, <1>1 DEF net, RowsInv, SentAsRetained, InOrder, AcknowledgedGot, OnNetwork
    <2> QED
      BY <2>2, <2>3, <2>4, <2>5 DEF RowsInv
  <1> QED
    BY <1>8, <1>9, <1>10 DEF IInv

LEMMA NextIInv == IInv /\ [Next]_vars => IInv'
  <1> SUFFICES ASSUME IInv, [Next]_vars PROVE IInv'
    OBVIOUS
  <1>1. CASE \E p \in Pushers : Proceed(p) \/ Throw(p) \/ Cancel(p) \/ Kill(p)
    BY <1>1, ReadingSteps, DispatchSteps, SelectingSteps, AdmitStep, OutcomeStep, BeginStep, SettleStep DEF Proceed
  <1>2. CASE \E r \in wire : Deliver(r) \/ Lose(r)
    BY <1>2, NetworkStep
  <1>3. CASE \/ \E a \in Artifacts : AppendEvents(a)
             \/ AppendUsage \/ Tick
             \/ \E b \in Branches, renamed \in BOOLEAN : ChangeBranch(b, renamed)
             \/ UNCHANGED vars
    BY <1>3, WorldStep
  <1> QED
    BY <1>1, <1>2, <1>3 DEF Next

LEMMA Inductive == Spec => []IInv
  BY InitIInv, NextIInv, PTL DEF Spec

-----------------------------------------------------------------------------
\* The variables keep their types.
THEOREM TypeCorrect == Spec => []TypeOK
  <1>1. IInv => TypeOK
    BY DEF IInv
  <1> QED
    BY <1>1, Inductive, PTL

\* No call is sent twice, however many processes dispatch its push, whatever
\* fails or is killed (admitProjectRemoteAttempt).
THEOREM SentOnceHolds == Spec => []SentOnce
  <1>1. IInv => SentOnce
    BY DEF IInv, RowsInv, SentAsRetained, SentOnce
  <1> QED
    BY <1>1, Inductive, PTL

\* An artifact has one unfinished push, the selected one (beginProjectArtifactPush).
THEOREM OneUnfinishedHolds == Spec => []OneUnfinished
  <1>1. IInv => OneUnfinished
    BY DEF IInv, RowsInv, Selected, OneUnfinished
  <1> QED
    BY <1>1, Inductive, PTL

\* A push settles only when the server received all its calls
\* (completeProjectArtifactPush).
THEOREM SettledReachedHolds == Spec => []SettledReached
  <1>1. IInv => SettledReached
    <2> SUFFICES ASSUME IInv, NEW n \in Pushes, terminal[n].settled, NEW c \in 1..Calls
                 PROVE  <<n, c>> \in got
      BY DEF SettledReached
    <2>1. n \in 1..MaxPush
      BY PushAssumption DEF IInv, TypeOK, Pushes
    <2> QED
      BY <2>1 DEF IInv, RowsInv, SettledWhole, AcknowledgedGot
  <1> QED
    BY <1>1, Inductive, PTL

\* The server receives an artifact's calls in the order they were prepared,
\* because a call is sent only when every earlier one was acknowledged.
THEOREM ArrivalsInOrderHolds == Spec => ArrivalsInOrder
  <1> DEFINE InThisOrder == \A r \in got' \ got, q \in got :
               push[r[1]].artifact = push[q[1]].artifact =>
                 q[1] < r[1] \/ (q[1] = r[1] /\ q[2] < r[2])
  <1>1. IInv /\ [Next]_vars => InThisOrder \/ UNCHANGED vars
    <2> SUFFICES ASSUME IInv, Next, NEW r \in got', r \notin got, NEW q \in got,
                        push[r[1]].artifact = push[q[1]].artifact
                 PROVE  q[1] < r[1] \/ (q[1] = r[1] /\ q[2] < r[2])
      OBVIOUS
    <2>1. r \in wire
      <3>1. ASSUME NEW s \in wire, Deliver(s) \/ Lose(s) PROVE r \in wire
        BY <3>1 DEF Deliver, Lose
      <3>2. CASE \/ \E a \in Artifacts : AppendEvents(a)
                 \/ AppendUsage \/ Tick
                 \/ \E b \in Branches, renamed \in BOOLEAN : ChangeBranch(b, renamed)
        BY <3>2 DEF AppendEvents, AppendUsage, Tick, ChangeBranch, net
      <3>3. CASE \E p \in Pushers : Proceed(p) \/ Throw(p) \/ Cancel(p) \/ Kill(p)
        <4>1. PICK p \in Pushers : Proceed(p) \/ Throw(p) \/ Cancel(p) \/ Kill(p)
          BY <3>3
        <4>2. got' = got
          BY <4>1 DEF Proceed, Start, Observe, ReadArtifact, Look, Skip, Needed, Prepare, Begin, BeginStale, Restore,
           Admit, Unresolved, Answer, Acknowledge, RecordUnknown, Complete, Settle, SettleReplayed,
             RecordFailure, GiveUp, Throw, Cancel, Kill, net
        <4> QED
          BY <4>2
      <3> QED
        BY <3>1, <3>2, <3>3 DEF Next
    <2>2. TypeOK /\ RowsInv
      BY DEF IInv
    <2> DEFINE n == r[1]
               c == r[2]
               m == q[1]
               d == q[2]
    <2>3. /\ n \in 1..MaxPush /\ c \in 1..Calls /\ r = <<n, c>>
          /\ m \in 1..MaxPush /\ d \in 1..Calls /\ q = <<m, d>>
      BY <2>1, <2>2 DEF TypeOK, Requests
    <2>4. call[n][c] # "none" /\ call[m][d] # "none" /\ <<n, c>> \notin got
      BY <2>1, <2>2, <2>3 DEF RowsInv, OnNetwork
    <2>5. call[n][c] # "acknowledged"
      BY <2>2, <2>3, <2>4 DEF RowsInv, AcknowledgedGot
    <2>6. n \in Pushes /\ m \in Pushes
      <3>1. Len(push) \in Nat
        BY <2>2 DEF TypeOK
      <3> QED
        BY <2>2, <2>3, <2>4, <3>1, Bounds DEF RowsInv, NothingAhead, Pushes
    <2>7. current[push[n].artifact] = n
      BY <2>2, <2>3, <2>5, <2>6 DEF RowsInv, SettledWhole, Selected
    <2>8. m <= n
      BY <2>2, <2>6, <2>7 DEF RowsInv, Selected
    <2>9. m = n => d < c
      <3> SUFFICES ASSUME m = n PROVE d < c
        OBVIOUS
      <3>1. ~(c < d)
        BY <2>2, <2>3, <2>4, <2>5 DEF RowsInv, InOrder
      <3>2. c # d
        BY <2>3, <2>4
      <3> QED
        BY <2>3, <3>1, <3>2, PushAssumption
    <2> QED
      BY <2>3, <2>8, <2>9, PushAssumption
  <1>2. IInv /\ [Next]_vars => [InThisOrder]_vars
    BY <1>1
  <1> QED
    BY <1>2, Inductive, PTL DEF Spec, ArrivalsInOrder
-----------------------------------------------------------------------------
(* What was pushed, and what moved meanwhile. *)

NotNewer(x, y) == x.artifact <= y.artifact /\ x.usage <= y.usage

\* Sources only grow, so what is now as a push found it was so at every push since.
SourcesGrow ==
  /\ \A n \in Pushes : NotNewer(push[n].sources, Sources(push[n].artifact))
  /\ \A m \in Pushes, n \in Pushes :
       m <= n /\ push[m].artifact = push[n].artifact => NotNewer(push[m].sources, push[n].sources)
\* A success is one of a settled push, with the sources of that push.
Credited ==
  \A a \in Artifacts : cloud[a].success.at # Never =>
    \E n \in Pushes :
      push[n].artifact = a /\ terminal[n].settled /\ push[n].sources = cloud[a].success.sources
SourcesInv == SourcesGrow /\ Credited

\* What a push, or a process about to admit one, holds of the session is what
\* the revision it names holds.
Known(m) ==
  /\ m.session <= session.version
  /\ m.session = session.version => m.branch = session.branch /\ m.history = session.history
SessionInv ==
  /\ session.version >= 1
  /\ \A n \in Pushes : Known(push[n])
  /\ \A p \in Pushers : at[p] = "begin" => Known(mind[p])

Work(p) == Proceed(p) \/ Throw(p) \/ Cancel(p) \/ Kill(p)

LEMMA SourcesType1 ==
  ASSUME TypeOK
  PROVE  /\ \A n \in Pushes : push[n] \in PushType /\ push[n].artifact \in Artifacts
                              /\ push[n].sources.artifact \in Nat /\ push[n].sources.usage \in Nat
         /\ \A a \in Artifacts : Sources(a).artifact \in Nat /\ Sources(a).usage \in Nat
         /\ Len(push) \in Nat
  <1>1. push \in Seq(PushType) /\ Len(push) \in Nat
    BY DEF TypeOK
  <1>2. \A n \in Pushes : push[n] \in PushType
    BY <1>1 DEF Pushes
  <1>3. \A r \in PushType : r.artifact \in Artifacts /\ r.sources.artifact \in Nat /\ r.sources.usage \in Nat
    BY DEF PushType, SourcesType
  <1>4. \A a \in Artifacts : Sources(a).artifact \in Nat /\ Sources(a).usage \in Nat
    BY DEF TypeOK, Sources
  <1> QED
    BY <1>1, <1>2, <1>3, <1>4

LEMMA WorkOnSources ==
  ASSUME NEW p \in Pushers, Work(p)
  PROVE  \/ UNCHANGED <<push, terminal, cloud, generation, usage>>
         \/ Begin(p) \/ Settle(p) \/ RecordFailure(p)
  BY DEF Work, Proceed, Start, Observe, ReadArtifact, Look, Skip, Needed, Prepare, BeginStale, Restore,
     Admit, Unresolved, Answer, Acknowledge, RecordUnknown, Complete, SettleReplayed, GiveUp, Throw, Cancel,
     Kill, world, db

LEMMA SourcesKept ==
  ASSUME SourcesInv, UNCHANGED <<push, terminal, cloud, generation, usage>>
  PROVE  SourcesInv'
  BY DEF SourcesInv, SourcesGrow, Credited, Pushes, Sources

LEMMA SourcesInit == Init => SourcesInv
  BY DEF Init, SourcesInv, SourcesGrow, Credited, Pushes, Never

LEMMA SourcesBegin ==
  ASSUME IInv, SourcesInv, NEW p \in Pushers, Begin(p)
  PROVE  SourcesInv'
  <1> DEFINE a == Me(p).artifact
             n == Len(push) + 1
             row == [artifact |-> a, sources |-> Me(p).sources, cloud |-> Me(p).cloud,
                     session |-> Me(p).session, branch |-> Me(p).branch, history |-> Me(p).history,
                     acked |-> session.acked]
  <1>1. /\ push' = Append(push, row) /\ Sources(a) = Me(p).sources
        /\ UNCHANGED <<cloud, terminal, generation, usage>>
    BY DEF Begin, Admissible, world
  <1>2. TypeOK /\ a \in Artifacts /\ row \in PushType
    BY DEF IInv, TypeOK, Me, MindType, PushType
  <1>3. row.artifact = a /\ row.sources = Sources(a)
    BY <1>1
  <1> HIDE DEF row, a
  <1>4. Len(push) \in Nat /\ push \in Seq(PushType)
    BY <1>2 DEF TypeOK
  <1>5. Pushes' = Pushes \cup {n} /\ push'[n] = row /\ n \notin Pushes
        /\ \A m \in Pushes : push'[m] = push[m] /\ m \in Nat /\ m < n
    BY <1>1, <1>2, <1>4 DEF Pushes
  <1>6. \A b \in Artifacts : Sources(b)' = Sources(b)
    BY <1>1 DEF Sources
  <1>7. /\ NotNewer(Sources(a), Sources(a))
        /\ \A m \in Pushes : push[m].artifact = a => NotNewer(push[m].sources, Sources(a))
    BY <1>2, SourcesType1 DEF NotNewer, SourcesInv, SourcesGrow
  <1>8. \A m \in Pushes : push[m].artifact \in Artifacts
    BY <1>2, SourcesType1
  <1> HIDE DEF n
  <1>9. n \in Nat /\ ~(\E m \in Pushes : n <= m)
    BY <1>4, <1>5 DEF n
  <1>10. SourcesGrow'
    <2>1. \A m \in Pushes' : NotNewer(push'[m].sources, Sources(push'[m].artifact))
      BY <1>2, <1>3, <1>5, <1>6, <1>7, <1>8 DEF SourcesInv, SourcesGrow
    <2>2. ASSUME NEW m \in Pushes', NEW k \in Pushes', m <= k, push'[m].artifact = push'[k].artifact
          PROVE  NotNewer(push'[m].sources, push'[k].sources)
      <3>1. CASE k \in Pushes
        BY <1>5, <1>9, <2>2, <3>1 DEF SourcesInv, SourcesGrow
      <3>2. CASE k = n
        BY <1>3, <1>5, <1>7, <2>2, <3>2
      <3> QED
        BY <1>5, <3>1, <3>2
    <2>3. \A m \in Pushes' : (Sources(push[m].artifact))' = Sources(push'[m].artifact)
      BY <1>1 DEF Sources
    <2> QED
      BY <2>1, <2>2, <2>3 DEF SourcesGrow, NotNewer
  <1>11. Credited'
    <2> SUFFICES ASSUME NEW b \in Artifacts, cloud[b].success.at # Never
                 PROVE  \E m \in Pushes' : push'[m].artifact = b /\ terminal[m].settled
                                             /\ push'[m].sources = cloud[b].success.sources
      BY <1>1 DEF Credited
    <2>1. PICK m \in Pushes : push[m].artifact = b /\ terminal[m].settled
                             /\ push[m].sources = cloud[b].success.sources
      BY DEF SourcesInv, Credited
    <2> QED
      BY <1>5, <2>1
  <1> QED
    BY <1>10, <1>11 DEF SourcesInv

LEMMA SourcesSettle ==
  ASSUME IInv, SourcesInv, NEW p \in Pushers, Settle(p)
  PROVE  SourcesInv'
  <1> DEFINE n == on[p]
             a == push[n].artifact
             time == Me(p).ackAt
  <1>1. /\ at[p] = "settle"
        /\ terminal' = [terminal EXCEPT ![n] = [settled |-> TRUE, cloudApplied |-> CloudApplies(n, time),
                                                sessionApplied |-> SessionApplies(n, time)]]
        /\ \/ cloud' = cloud
           \/ cloud' = [cloud EXCEPT ![a] = [version |-> @.version + 1, failures |-> 0,
                                             success |-> [at |-> time, sources |-> push[n].sources]]]
        /\ UNCHANGED <<push, generation, usage>>
    BY DEF Settle, world
  <1>2. TypeOK /\ n \in Pushes
    <2>1. TypeOK /\ n # 0
      BY <1>1 DEF IInv, ProcessInv, OnPush, Dispatching
    <2>2. n \in 0..MaxPush /\ n <= Len(push) /\ push \in Seq(PushType)
      BY <2>1 DEF TypeOK
    <2> HIDE DEF n
    <2> QED
      BY <2>1, <2>2, Bounds DEF Pushes
  <1>3. \A m \in Pushes : m \in 1..MaxPush
    BY <1>2, Bounds, SourcesType1 DEF TypeOK, Pushes
  <1>4. \A m \in Pushes : terminal'[m].settled <=> m = n \/ terminal[m].settled
    BY <1>1, <1>2, <1>3 DEF TypeOK
  <1>5. SourcesGrow'
    BY <1>1 DEF SourcesInv, SourcesGrow, Pushes, Sources
  <1> HIDE DEF n, a, time
  <1>6. Credited'
    <2> SUFFICES ASSUME NEW b \in Artifacts, cloud'[b].success.at # Never
                 PROVE  \E m \in Pushes : push[m].artifact = b /\ terminal'[m].settled
                                            /\ push[m].sources = cloud'[b].success.sources
      BY <1>1 DEF Credited, Pushes
    <2>1. CASE cloud'[b] = cloud[b]
      BY <1>4, <2>1 DEF SourcesInv, Credited
    <2>2. CASE cloud'[b] # cloud[b]
      <3>1. b = a /\ cloud'[b].success.sources = push[n].sources
        BY <1>1, <1>2, <2>2 DEF TypeOK
      <3> QED
        BY <1>2, <1>4, <3>1 DEF a
    <2> QED
      BY <2>1, <2>2
  <1> QED
    BY <1>5, <1>6 DEF SourcesInv

LEMMA SourcesFailure ==
  ASSUME IInv, SourcesInv, NEW p \in Pushers, RecordFailure(p)
  PROVE  SourcesInv'
  <1>1. UNCHANGED <<push, terminal, generation, usage>>
    BY DEF RecordFailure, world
  <1>2. \A a \in Artifacts : cloud'[a].success = cloud[a].success
    <2>1. cloud \in [Artifacts -> CloudType] /\ Me(p).artifact \in Artifacts
      BY DEF IInv, TypeOK, Me, MindType
    <2> QED
      BY <2>1 DEF RecordFailure, CloudType
  <1> QED
    BY <1>1, <1>2 DEF SourcesInv, SourcesGrow, Credited, Pushes, Sources

LEMMA SourcesGrown ==
  ASSUME IInv, SourcesInv, AppendUsage \/ \E a \in Artifacts : AppendEvents(a)
  PROVE  SourcesInv'
  <1>1. UNCHANGED <<push, terminal, cloud>>
    BY DEF AppendUsage, AppendEvents, db
  <1>2. TypeOK
    BY DEF IInv
  <1>3. /\ \A a \in Artifacts : generation[a] \in Nat /\ generation'[a] \in Nat /\ generation[a] <= generation'[a]
        /\ usage \in Nat /\ usage' \in Nat /\ usage <= usage'
    <2>1. generation \in [Artifacts -> Nat] /\ usage \in Nat
      BY <1>2 DEF TypeOK
    <2>2. CASE AppendUsage
      BY <2>1, <2>2 DEF AppendUsage
    <2>3. ASSUME NEW a \in Artifacts, AppendEvents(a)
          PROVE  usage' = usage /\ \A b \in Artifacts : generation'[b] \in Nat /\ generation[b] <= generation'[b]
      BY <2>1, <2>3 DEF AppendEvents
    <2> QED
      BY <2>1, <2>2, <2>3
  <1>4. \A n \in Pushes : NotNewer(push[n].sources, [artifact |-> generation'[push[n].artifact], usage |-> usage'])
    <2> SUFFICES ASSUME NEW n \in Pushes
                 PROVE  /\ push[n].sources.artifact <= generation'[push[n].artifact]
                        /\ push[n].sources.usage <= usage'
      BY DEF NotNewer
    <2>1. push[n].artifact \in Artifacts /\ push[n].sources.artifact \in Nat /\ push[n].sources.usage \in Nat
      BY <1>2, SourcesType1
    <2>2. push[n].sources.artifact <= generation[push[n].artifact] /\ push[n].sources.usage <= usage
      BY DEF SourcesInv, SourcesGrow, NotNewer, Sources
    <2> QED
      BY <1>3, <2>1, <2>2
  <1>5. SourcesGrow'
    <2>1. (\A n \in Pushes : NotNewer(push[n].sources, Sources(push[n].artifact)))'
      BY <1>1, <1>4 DEF Pushes, Sources, NotNewer
    <2>2. (\A m \in Pushes, n \in Pushes :
             m <= n /\ push[m].artifact = push[n].artifact => NotNewer(push[m].sources, push[n].sources))'
      BY <1>1 DEF SourcesInv, SourcesGrow, Pushes, NotNewer
    <2> QED
      BY <2>1, <2>2 DEF SourcesGrow
  <1> QED
    BY <1>1, <1>5 DEF SourcesInv, Credited, Pushes

LEMMA SourcesNext == IInv /\ SourcesInv /\ [Next]_vars => SourcesInv'
  <1> SUFFICES ASSUME IInv, SourcesInv, [Next]_vars PROVE SourcesInv'
    OBVIOUS
  <1>1. ASSUME NEW p \in Pushers, Work(p) PROVE SourcesInv'
    BY <1>1, WorkOnSources, SourcesKept, SourcesBegin, SourcesSettle, SourcesFailure
  <1>2. CASE AppendUsage \/ \E a \in Artifacts : AppendEvents(a)
    BY <1>2, SourcesGrown
  <1>3. CASE \/ Tick \/ UNCHANGED vars
             \/ \E b \in Branches, renamed \in BOOLEAN : ChangeBranch(b, renamed)
             \/ \E r \in wire : Deliver(r) \/ Lose(r)
    <2>1. UNCHANGED <<push, terminal, cloud, generation, usage>>
      BY <1>3 DEF Tick, ChangeBranch, Deliver, Lose, vars, db, world
    <2> QED
      BY <2>1, SourcesKept
  <1> QED
    BY <1>1, <1>2, <1>3 DEF Next, Work

\* A nonempty set of pushes has a last one.
LEMMA LastPush ==
  ASSUME NEW L \in Nat, NEW S \in SUBSET (1..L), S # {}
  PROVE  \E n \in S : \A m \in S : m <= n
  <1> DEFINE D == {T \in SUBSET S : T # {} /\ ~ \E n \in T : \A m \in T : m <= n}
  <1> SUFFICES ASSUME D # {} PROVE FALSE
    OBVIOUS
  <1>1. IsFiniteSet(S)
    <2>1. IsFiniteSet(1..L)
      BY FS_Interval
    <2> QED
      BY <2>1, FS_Subset
  <1> HIDE DEF D
  <1>2. PICK T \in D : \A U \in SUBSET T : U # T => U \notin D
    <2>1. D \in SUBSET (SUBSET S)
      BY DEF D
    <2>2. IsWellFoundedOn(StrictSubsetOrdering(S), FiniteSubsetsOf(S))
      BY <1>1, FS_StrictSubsetOrderingWellFounded
    <2>3. D \subseteq FiniteSubsetsOf(S)
      BY <1>1, <2>1, FS_FiniteSubsetsOfFinite
    <2>4. PICK T \in D : \A U \in D : ~ (<<U, T>> \in StrictSubsetOrdering(S))
      BY <2>2, <2>3, WFMin
    <2>5. \A U \in SUBSET T : U # T /\ U \in D => <<U, T>> \in StrictSubsetOrdering(S)
      BY <2>1 DEF StrictSubsetOrdering
    <2> SUFFICES ASSUME NEW U \in SUBSET T, U # T, U \in D PROVE FALSE
      BY <2>4
    <2>6. <<U, T>> \in StrictSubsetOrdering(S)
      BY <2>5
    <2> HIDE DEF StrictSubsetOrdering
    <2> QED
      BY <2>4, <2>6
  <1>3. T \in SUBSET S /\ T # {} /\ ~ \E n \in T : \A m \in T : m <= n
    BY DEF D
  <1>4. PICK x \in T : TRUE
    BY <1>3
  <1>5. T \ {x} # {}
    BY <1>3, <1>4
  <1>6. T \ {x} \notin D
    BY <1>2, <1>4
  <1>7. PICK y \in T \ {x} : \A m \in T \ {x} : m <= y
    BY <1>3, <1>5, <1>6 DEF D
  <1>8. \A m \in T : m \in Nat
    BY <1>3
  <1>9. CASE x <= y
    BY <1>3, <1>7, <1>9
  <1>10. CASE ~(x <= y)
    <2>1. \A m \in T : m <= x
      BY <1>4, <1>7, <1>8, <1>10
    <2> QED
      BY <1>3, <1>4, <2>1
  <1> QED
    BY <1>9, <1>10

\* An artifact no command calls pending is on the server as it is here: the
\* push its success is of found what is here now, and so did every later one.
THEOREM NotPendingIsThereHolds == Spec => []NotPendingIsThere
  <1>1. IInv /\ SourcesInv => NotPendingIsThere
    <2> SUFFICES ASSUME IInv, SourcesInv, NEW a \in Artifacts, ~Pending(a), NEW c \in 1..Calls
                 PROVE  LastOf(a, c) # 0 /\ push[LastOf(a, c)].sources = Sources(a)
      BY DEF NotPendingIsThere
    <2> DEFINE S == {n \in Pushes : push[n].artifact = a /\ <<n, c>> \in got}
    <2>1. TypeOK /\ Len(push) \in Nat
      BY SourcesType1 DEF IInv
    <2>2. PICK n \in Pushes : push[n].artifact = a /\ terminal[n].settled /\ push[n].sources = Sources(a)
      BY DEF Pending, SourcesInv, Credited
    <2>3. n \in S
      <3>1. n \in 1..MaxPush
        BY <2>1, <2>2, Bounds DEF TypeOK, Pushes
      <3> QED
        BY <2>2, <3>1 DEF IInv, RowsInv, SettledWhole, AcknowledgedGot
    <2>4. S \in SUBSET (1..Len(push))
      BY DEF Pushes
    <2> HIDE DEF S
    <2>5. \E k \in S : \A m \in S : m <= k
      BY <2>1, <2>3, <2>4, LastPush
    <2>6. LastOf(a, c) = CHOOSE k \in S : \A m \in S : m <= k
      BY <2>3 DEF LastOf, S
    <2>7. LastOf(a, c) \in S /\ \A m \in S : m <= LastOf(a, c)
      BY <2>5, <2>6
    <2> DEFINE k == LastOf(a, c)
    <2>8. k \in Pushes /\ push[k].artifact = a /\ n <= k
      BY <2>3, <2>7 DEF S
    <2> HIDE DEF k
    <2>9. NotNewer(push[n].sources, push[k].sources) /\ NotNewer(push[k].sources, Sources(a))
      BY <2>2, <2>8 DEF SourcesInv, SourcesGrow
    <2>10. push[k].sources \in SourcesType /\ Sources(a) \in SourcesType
      <3>1. push[k] \in PushType
        BY <2>1, <2>8, SourcesType1
      <3> QED
        BY <2>1, <3>1 DEF PushType, TypeOK, SourcesType, Sources
    <2>11. push[k].sources = Sources(a)
      BY <2>2, <2>9, <2>10 DEF NotNewer, SourcesType
    <2> QED
      BY <2>8, <2>11 DEF k, Pushes
  <1> QED
    BY <1>1, Inductive, SourcesInit, SourcesNext, PTL DEF Spec

-----------------------------------------------------------------------------
(* The session's branches. *)

LEMMA KnownStays ==
  ASSUME NEW m, Known(m), m.session \in Nat, session.version \in Nat,
         session' = session \/ session'.version = session.version + 1
  PROVE  /\ m.session <= session'.version
         /\ m.session = session'.version => m.branch = session'.branch /\ m.history = session'.history
  BY DEF Known

LEMMA WorkOnSession ==
  ASSUME NEW p \in Pushers, Work(p)
  PROVE  \/ UNCHANGED <<session, push>> \/ Observe(p) \/ Begin(p) \/ Settle(p)
  BY DEF Work, Proceed, Start, ReadArtifact, Look, Skip, Needed, Prepare, BeginStale, Restore,
     Admit, Unresolved, Answer, Acknowledge, RecordUnknown, Complete, SettleReplayed, RecordFailure, GiveUp,
     Throw, Cancel, Kill, db

\* Only Prepare takes a process to where it admits a push.
LEMMA AtBegin ==
  ASSUME TypeOK, NEW p \in Pushers, Work(p), NEW q \in Pushers, at'[q] = "begin"
  PROVE  (at[q] = "begin" /\ mind'[q] = mind[q]) \/ (q = p /\ Prepare(p))
  <1>1. CASE q # p
    <2>1. \E place, m : at' = [at EXCEPT ![p] = place] /\ mind' = [mind EXCEPT ![p] = m]
      <3>1. mind = [mind EXCEPT ![p] = mind[p]]
        BY DEF TypeOK
      <3>2. \A place : Goto(p, place) => \E m : at' = [at EXCEPT ![p] = place] /\ mind' = [mind EXCEPT ![p] = m]
        BY <3>1 DEF Goto
      <3>3. \A n : Take(p, n) => \E m : at' = [at EXCEPT ![p] = "restore"] /\ mind' = [mind EXCEPT ![p] = m]
        BY <3>1 DEF Take
      <3>4. \A place, s : See(p, place, s) => \E m : at' = [at EXCEPT ![p] = place] /\ mind' = [mind EXCEPT ![p] = m]
        BY <3>1 DEF See
      <3>5. \/ \E place : Goto(p, place)
            \/ \E place, m : Think(p, place, m)
            \/ \E n : Take(p, n)
            \/ \E place, s : See(p, place, s)
            \/ Finish(p)
        BY DEF Work, Proceed, Start, Observe, ReadArtifact, Look, Skip, Needed, Prepare, Begin, BeginStale, Restore,
           Admit, Unresolved, Answer, Acknowledge, RecordUnknown, Complete, Settle, SettleReplayed,
           RecordFailure, GiveUp, Throw, Cancel, Kill
      <3> QED
        BY <3>2, <3>3, <3>4, <3>5 DEF Think, Finish
    <2> QED
      BY <1>1, <2>1 DEF TypeOK
  <1>2. CASE q = p
    <2>1. \A place : Goto(p, place) => at'[p] = place
      BY DEF Goto, TypeOK
    <2>2. \A place, m : Think(p, place, m) => at'[p] = place
      BY DEF Think, TypeOK
    <2>3. \A n : Take(p, n) => at'[p] = "restore"
      BY DEF Take, TypeOK
    <2>4. \A place, s : See(p, place, s) => at'[p] = place
      BY DEF See, TypeOK
    <2>5. Finish(p) => at'[p] = "idle"
      BY DEF Finish, TypeOK
    <2>6. at'[p] = "begin" => Prepare(p)
      BY <2>1, <2>2, <2>3, <2>4, <2>5 DEF Work, Proceed, Start, Observe, ReadArtifact, Look, Skip, Needed,
         Begin, BeginStale, Restore, Admit, Unresolved, Answer, Acknowledge, RecordUnknown, Complete, Settle,
         SettleReplayed, RecordFailure, GiveUp, Throw, Cancel, Kill
    <2> QED
      BY <1>2, <2>6
  <1> QED
    BY <1>1, <1>2

LEMMA SessionType ==
  ASSUME TypeOK
  PROVE  /\ session.version \in Nat /\ Len(push) \in Nat
         /\ \A n \in Pushes : push[n].session \in Nat
         /\ \A p \in Pushers : mind[p].session \in Nat
  <1>1. session.version \in Nat /\ push \in Seq(PushType) /\ Len(push) \in Nat
    BY DEF TypeOK
  <1>2. \A n \in Pushes : push[n] \in PushType
    BY <1>1 DEF Pushes
  <1>3. \A p \in Pushers : mind[p] \in MindType
    BY DEF TypeOK
  <1> QED
    BY <1>1, <1>2, <1>3 DEF PushType, MindType

\* However the session moves, what is known of it stays known: a revision is
\* never selected twice.
LEMMA SessionMoves ==
  ASSUME IInv, SessionInv, NEW p \in Pushers, Work(p),
         session' = session \/ session'.version = session.version + 1
  PROVE  /\ session'.version >= 1
         /\ \A n \in Pushes : Known(push[n])' \/ push'[n] # push[n]
         /\ \A q \in Pushers : at'[q] = "begin" /\ ~Prepare(p) => Known(mind[q])'
  <1>1. TypeOK
    BY DEF IInv
  <1>2. session'.version >= 1
    BY <1>1, SessionType DEF SessionInv
  <1>3. ASSUME NEW n \in Pushes, push'[n] = push[n] PROVE Known(push[n])'
    <2> DEFINE m == push[n]
    <2>1. Known(m) /\ m.session \in Nat /\ session.version \in Nat
      BY <1>1, SessionType DEF SessionInv
    <2> HIDE DEF m
    <2>2. /\ m.session <= session'.version
          /\ m.session = session'.version => m.branch = session'.branch /\ m.history = session'.history
      BY <2>1, KnownStays
    <2> QED
      BY <1>3, <2>2 DEF Known, m
  <1>4. ASSUME NEW q \in Pushers, at'[q] = "begin", ~Prepare(p) PROVE Known(mind[q])'
    <2> DEFINE m == mind[q]
    <2>1. at[q] = "begin" /\ mind'[q] = m
      BY <1>1, <1>4, AtBegin
    <2>2. Known(m) /\ m.session \in Nat /\ session.version \in Nat
      BY <1>1, <2>1, SessionType DEF SessionInv
    <2> HIDE DEF m
    <2>3. /\ m.session <= session'.version
          /\ m.session = session'.version => m.branch = session'.branch /\ m.history = session'.history
      BY <2>2, KnownStays
    <2> QED
      BY <2>1, <2>3 DEF Known
  <1> QED
    BY <1>2, <1>3, <1>4

LEMMA SessionWork ==
  ASSUME IInv, SessionInv, NEW p \in Pushers, Work(p)
  PROVE  SessionInv'
  <1>1. TypeOK
    BY DEF IInv
  <1>2. session' = session \/ session'.version = session.version + 1
    <2>1. CASE UNCHANGED <<session, push>> \/ Begin(p)
      BY <2>1 DEF Begin
    <2>2. CASE Observe(p)
      BY <2>2 DEF Observe, Observed
    <2>3. CASE Settle(p)
      <3>1. session \in [version : Nat, branch : Branches, history : SUBSET Branches, acked : Nat]
        BY <1>1 DEF TypeOK
      <3> QED
        BY <2>3, <3>1 DEF Settle
    <2> QED
      BY <2>1, <2>2, <2>3, WorkOnSession
  <1>3. /\ session'.version >= 1
        /\ \A n \in Pushes : Known(push[n])' \/ push'[n] # push[n]
        /\ \A q \in Pushers : at'[q] = "begin" /\ ~Prepare(p) => Known(mind[q])'
    BY <1>2, SessionMoves
  <1>4. \A n \in Pushes' : Known(push[n])'
    <2>1. CASE push' = push
      BY <1>3, <2>1 DEF Pushes
    <2>2. CASE Begin(p)
      <3>0. PICK n : n = Len(push) + 1
        OBVIOUS
      <3>1. /\ push' = Append(push, [artifact |-> Me(p).artifact, sources |-> Me(p).sources, cloud |-> Me(p).cloud,
                     session |-> Me(p).session, branch |-> Me(p).branch, history |-> Me(p).history,
                     acked |-> session.acked])
            /\ session' = session /\ at[p] = "begin"
        BY <2>2 DEF Begin
      <3>2. push \in Seq(PushType) /\ Len(push) \in Nat
        BY <1>1 DEF TypeOK
      <3>3. /\ Pushes' = Pushes \cup {n} /\ \A k \in Pushes : push'[k] = push[k]
            /\ push'[n].session = Me(p).session /\ push'[n].branch = Me(p).branch
            /\ push'[n].history = Me(p).history
        BY <3>0, <3>1, <3>2 DEF Pushes
      <3>4. Known(mind[p])
        BY <3>1 DEF SessionInv
      <3>5. Known(push[n])'
        BY <3>1, <3>3, <3>4 DEF Known, Me
      <3> QED
        BY <1>3, <3>3, <3>5
    <2>3. CASE Observe(p) \/ Settle(p)
      <3>1. push' = push
        BY <2>3 DEF Observe, Settle
      <3> QED
        BY <2>1, <3>1
    <2> QED
      BY <2>1, <2>2, <2>3, WorkOnSession
  <1>5. \A q \in Pushers : at'[q] = "begin" => Known(mind[q])'
    <2>1. CASE Prepare(p)
      <3>1. session' = session
        BY <2>1 DEF Prepare, db
      <3>2. Known(mind[p])'
        <4> DEFINE a == Me(p).artifact
                   m == [Me(p) EXCEPT
                          !.previous = current[a], !.cloud = cloud[a].version,
                          !.session = IF Historical(a) THEN 0 ELSE session.version,
                          !.branch = IF Historical(a) THEN PlanBranch[a] ELSE session.branch,
                          !.history = IF Historical(a) THEN {} ELSE session.history]
        <4>1. mind'[p] = m /\ Me(p) \in MindType
          BY <1>1, <2>1 DEF Prepare, Think, TypeOK, Me
        <4>2. \/ m.session = 0
              \/ m.session = session.version /\ m.branch = session.branch /\ m.history = session.history
          BY <4>1 DEF MindType
        <4> HIDE DEF m
        <4>3. session.version \in Nat /\ session.version >= 1
          BY <1>1, SessionType DEF SessionInv
        <4> QED
          BY <3>1, <4>1, <4>2, <4>3 DEF Known
      <3>3. \A q \in Pushers : q # p /\ at'[q] = "begin" => Known(mind[q])'
        <4> SUFFICES ASSUME NEW q \in Pushers, q # p, at'[q] = "begin" PROVE Known(mind[q])'
          OBVIOUS
        <4>1. at[q] = "begin" /\ mind'[q] = mind[q]
          BY <1>1, AtBegin
        <4> QED
          BY <3>1, <4>1 DEF SessionInv, Known
      <3> QED
        BY <3>2, <3>3
    <2>2. CASE ~Prepare(p)
      BY <1>3, <2>2
    <2> QED
      BY <2>1, <2>2
  <1> QED
    BY <1>3, <1>4, <1>5 DEF SessionInv

LEMMA SessionNext == IInv /\ SessionInv /\ [Next]_vars => SessionInv'
  <1> SUFFICES ASSUME IInv, SessionInv, [Next]_vars PROVE SessionInv'
    OBVIOUS
  <1>1. ASSUME NEW p \in Pushers, Work(p) PROVE SessionInv'
    BY <1>1, SessionWork
  <1>2. CASE \/ AppendUsage \/ Tick \/ UNCHANGED vars
             \/ \E a \in Artifacts : AppendEvents(a)
             \/ \E b \in Branches, renamed \in BOOLEAN : ChangeBranch(b, renamed)
             \/ \E r \in wire : Deliver(r) \/ Lose(r)
    <2>1. UNCHANGED <<push, session, at, mind>>
      BY <1>2 DEF AppendUsage, AppendEvents, Tick, ChangeBranch, Deliver, Lose, vars, db, process
    <2> QED
      BY <2>1 DEF SessionInv, Known, Pushes
  <1> QED
    BY <1>1, <1>2 DEF Next, Work

LEMMA SessionInit == Init => SessionInv
  BY DEF Init, SessionInv, Pushes

\* Branch names are forgotten as acknowledged only when a push that held them
\* all reached the server whole: it settles against the revision it named.
THEOREM HistoryToldHolds == Spec => HistoryTold
  <1> DEFINE Told == session'.acked \notin {session.acked, Never} =>
               \E n \in Pushes : /\ <<n, 1>> \in got
                                  /\ push[n].branch = session.branch
                                  /\ session.history \subseteq push[n].history
  <1>1. IInv /\ SessionInv /\ [Next]_vars => [Told]_vars
    <2> SUFFICES ASSUME IInv, SessionInv, Next, session'.acked \notin {session.acked, Never}
                 PROVE  \E n \in Pushes : /\ <<n, 1>> \in got
                                           /\ push[n].branch = session.branch
                                           /\ session.history \subseteq push[n].history
      OBVIOUS
    <2>1. PICK p \in Pushers : Work(p)
      BY DEF Next, Work, AppendUsage, AppendEvents, Tick, ChangeBranch, Deliver, Lose, db
    <2>2. ~Observe(p)
      BY DEF Observe, Observed
    <2>3. Settle(p)
      BY <2>1, <2>2, WorkOnSession DEF Begin
    <2> DEFINE n == on[p]
    <2>4. TypeOK /\ at[p] = "settle"
      BY <2>3 DEF IInv, Settle
    <2>5. n \in Pushes /\ n \in 1..MaxPush
      BY <2>4, Bounds DEF IInv, TypeOK, ProcessInv, OnPush, Dispatching, Pushes
    <2>6. <<n, 1>> \in got
      <3>1. 1 \in 1..Calls
        BY PushAssumption
      <3> QED
        BY <2>4, <2>5, <3>1 DEF IInv, ProcessInv, SettleReady, RowsInv, AcknowledgedGot
    <2>7. SessionApplies(n, Me(p).ackAt)
      BY <2>3 DEF Settle
    <2>8. Known(push[n]) /\ push[n].session = session.version
      BY <2>5, <2>7 DEF SessionInv, SessionApplies
    <2> QED
      BY <2>5, <2>6, <2>8 DEF Known
  <1> QED
    BY <1>1, Inductive, SessionInit, SessionNext, PTL DEF Spec, HistoryTold
=============================================================================
