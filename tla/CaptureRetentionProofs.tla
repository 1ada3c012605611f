----------------------- MODULE CaptureRetentionProofs -----------------------
(***************************************************************************)
(* Theorems about CaptureRetention, for any captures, agents, cleaners,    *)
(* faults and bounds.                                                      *)
(***************************************************************************)
EXTENDS CaptureRetention, TLAPS

AgentPlaces == {"draft", "begin", "resume", "publish", "create", "flush", "verify", "settle",
                "retain", "retire", "refuse", "commit", "ack"}
CleanerPlaces == {"pending", "admit", "reclaim", "remove", "commit", "ack", "gone", "sweep",
                  "confirm", "record"}
Resting == {"idle", "pending", "admit"}

(* What the rows say of each other and of Git. *)
CleanupsRetired == \A k \in DOMAIN cleanup : State(cleanup[k].on) = "retired"
RemovalsRetired ==
  \A c \in Captures : txn[c] # None /\ txn[c].action = "remove" => State(c) = "retired"

(* What a process knows of its capture. *)
InPlace(p) ==
  \/ At(p, "idle")
  \/ p \in Agents /\ proc[p].pc \in AgentPlaces
  \/ p \in Cleaners /\ proc[p].pc \in CleanerPlaces
OnCapture(p) == proc[p].pc \notin Resting => On(p) \in Captures
WrittenOut(p) ==
  p \in Agents /\ proc[p].pc \in {"verify", "settle"} /\ State(On(p)) # "retired" =>
    ref[On(p)] = TRUE /\ disk[On(p)] = {TRUE}
OnRetired(p) == p \in Cleaners /\ proc[p].pc \notin Resting => State(On(p)) = "retired"
TodoThere(p) == proc[p].todo \subseteq DOMAIN cleanup
Holding(p) ==
  At(p, "commit") => txn[On(p)] # None /\ txn[On(p)].by = p /\ txn[On(p)].sent = FALSE

ProcessInv(p) ==
  InPlace(p) /\ OnCapture(p) /\ WrittenOut(p) /\ OnRetired(p) /\ TodoThere(p) /\ Holding(p)
Kept == \A c \in Captures : State(c) = "selected" => ref[c] = TRUE /\ disk[c] = {TRUE}
RowsInv == Kept /\ CleanupsRetired /\ RemovalsRetired
IInv == TypeOK /\ RowsInv /\ \A p \in Processes : ProcessInv(p)
-----------------------------------------------------------------------------
(* Steps that move one process and nothing else.                           *)

LEMMA IdleType == Idle \in Minds
  BY DEF Idle, Minds, Places, Outcomes

LEMMA Moves ==
  ASSUME TypeOK, NEW p \in Processes, NEW place \in Places, Move(p, place)
  PROVE  /\ proc' \in [Processes -> Minds]
         /\ proc'[p].pc = place /\ On(p)' = On(p) /\ proc'[p].todo = proc[p].todo
         /\ \A q \in Processes \ {p} : proc'[q] = proc[q]
<1>1. proc \in [Processes -> Minds] /\ proc[p] \in Minds
  BY DEF TypeOK
<1>2. [proc[p] EXCEPT !.pc = place] \in Minds
  BY <1>1 DEF Minds
<1>3. proc' = [proc EXCEPT ![p] = [proc[p] EXCEPT !.pc = place]]
  BY DEF Move
<1>4. proc' \in [Processes -> Minds] /\ \A q \in Processes \ {p} : proc'[q] = proc[q]
  BY <1>1, <1>2, <1>3
<1>5. proc'[p] = [proc[p] EXCEPT !.pc = place]
  BY <1>1, <1>3
<1>6. proc'[p].pc = place /\ proc'[p].on = proc[p].on /\ proc'[p].todo = proc[p].todo
  BY <1>1, <1>5 DEF Minds
<1>. QED BY <1>4, <1>6 DEF On

LEMMA Becomes ==
  ASSUME TypeOK, NEW p \in Processes, NEW m \in Minds, proc' = [proc EXCEPT ![p] = m]
  PROVE  /\ proc' \in [Processes -> Minds] /\ proc'[p] = m
         /\ \A q \in Processes \ {p} : proc'[q] = proc[q]
  BY DEF TypeOK

LEMMA Ends ==
  ASSUME TypeOK, NEW p \in Processes, End(p)
  PROVE  /\ proc' \in [Processes -> Minds] /\ proc'[p] = Idle
         /\ \A q \in Processes \ {p} : proc'[q] = proc[q]
  BY IdleType DEF TypeOK, End

LEMMA OneMoves ==
  ASSUME IInv, NEW p \in Processes, UNCHANGED <<db, git>>,
         proc' \in [Processes -> Minds], ProcessInv(p)',
         \A q \in Processes \ {p} : proc'[q] = proc[q],
         stops' \in 0..MaxStops, losses' \in 0..MaxLosses
  PROVE  IInv'
<1>1. TypeOK'
  BY DEF IInv, TypeOK, db, git
<1>2. RowsInv'
  BY DEF IInv, RowsInv, Kept, CleanupsRetired, RemovalsRetired, State, db, git
<1>3. ASSUME NEW q \in Processes PROVE ProcessInv(q)'
  <2>1. CASE q = p
    BY <2>1
  <2>2. CASE q # p
    <3>1. proc'[q] = proc[q] /\ ProcessInv(q)
      BY <2>2 DEF IInv
    <3>2. UNCHANGED <<retention, cleanup, ref, disk, txn>>
      BY DEF db, git
    <3>3. InPlace(q)' /\ OnCapture(q)' /\ OnRetired(q)' /\ TodoThere(q)'
      BY <3>1, <3>2 DEF ProcessInv, InPlace, OnCapture, OnRetired, TodoThere, At, On, State
    <3>4. WrittenOut(q)' /\ Holding(q)'
      BY <3>1, <3>2 DEF ProcessInv, WrittenOut, Holding, At, On, State
    <3>. QED BY <3>3, <3>4 DEF ProcessInv
  <2>. QED BY <2>1, <2>2
<1>. QED BY <1>1, <1>2, <1>3 DEF IInv

LEMMA EndsKeep ==
  ASSUME IInv, NEW p \in Processes, UNCHANGED <<db, git, faults>>, End(p)
  PROVE  IInv'
<1>1. proc'[p].pc = "idle" /\ proc'[p].todo = {}
  BY Ends DEF IInv, Idle
<1>2. ProcessInv(p)'
  BY <1>1 DEF ProcessInv, InPlace, OnCapture, WrittenOut, OnRetired, TodoThere, Holding, At, Resting
<1>. QED BY <1>2, Ends, OneMoves DEF IInv, TypeOK, faults

LEMMA GoesOn ==
  ASSUME IInv, NEW p \in Processes, UNCHANGED <<db, git, faults>>,
         NEW place \in Places,
         proc' \in [Processes -> Minds], \A q \in Processes \ {p} : proc'[q] = proc[q],
         proc'[p].pc = place, On(p)' = On(p), proc'[p].todo = proc[p].todo,
         proc[p].pc \notin Resting /\ place \notin Resting /\ place # "commit",
         p \in Agents => place \in AgentPlaces,
         p \in Cleaners => place \in CleanerPlaces,
         p \in Agents /\ place \in {"verify", "settle"} => proc[p].pc \in {"verify", "settle"}
  PROVE  IInv'
<1>2. UNCHANGED <<retention, cleanup, ref, disk, txn>> /\ ProcessInv(p)
  BY DEF db, git, IInv
<1>3. InPlace(p)' /\ OnCapture(p)' /\ TodoThere(p)'
  BY <1>2 DEF ProcessInv, InPlace, OnCapture, TodoThere, At, Processes
<1>4. OnRetired(p)'
  BY <1>2 DEF ProcessInv, OnRetired, State
<1>5. WrittenOut(p)' /\ Holding(p)'
  BY <1>2 DEF ProcessInv, WrittenOut, Holding, At, State
<1>6. ProcessInv(p)'
  BY <1>3, <1>4, <1>5 DEF ProcessInv
<1>. QED BY <1>6, OneMoves DEF IInv, TypeOK, faults

LEMMA MovesKeep ==
  ASSUME IInv, NEW p \in Processes, UNCHANGED <<db, git, faults>>,
         NEW place \in Places, Move(p, place),
         proc[p].pc \notin Resting /\ place \notin Resting /\ place # "commit",
         p \in Agents => place \in AgentPlaces,
         p \in Cleaners => place \in CleanerPlaces,
         p \in Agents /\ place \in {"verify", "settle"} => proc[p].pc \in {"verify", "settle"}
  PROVE  IInv'
  BY Moves, GoesOn DEF IInv

(* Who is at a place. *)
LEMMA Kinds ==
  ASSUME IInv, NEW p \in Processes
  PROVE  /\ proc[p].pc \in AgentPlaces \ {"commit", "ack"} => p \in Agents /\ p \notin Cleaners
         /\ proc[p].pc \in CleanerPlaces \ {"commit", "ack"} => p \in Cleaners /\ p \notin Agents
         /\ proc[p].pc \notin Resting => On(p) \in Captures
  BY RetentionAssumption
     DEF IInv, ProcessInv, InPlace, OnCapture, At, AgentPlaces, CleanerPlaces, Processes
-----------------------------------------------------------------------------
(* Steps of a command that only read.                                      *)

LEMMA StartStep ==
  ASSUME IInv, NEW p \in Processes, NEW c \in Captures, Start(p, c)
  PROVE  IInv'
<1>1. PICK m : m = [Idle EXCEPT !.on = c, !.resumed = State(c) = "prepared",
                               !.pc = IF State(c) = "prepared" THEN "resume" ELSE "draft"]
  OBVIOUS
<1>2. m \in Minds /\ m.pc \in {"resume", "draft"} /\ m.on = c /\ m.todo = {}
  BY <1>1 DEF Idle, Minds, Places, Outcomes
<1>3. proc' = [proc EXCEPT ![p] = m]
  BY <1>1 DEF Start
<1>4. proc' \in [Processes -> Minds] /\ proc'[p] = m /\ \A q \in Processes \ {p} : proc'[q] = proc[q]
  BY <1>2, <1>3 DEF IInv, TypeOK
<1>5. p \in Agents /\ p \notin Cleaners
  BY RetentionAssumption DEF Start
<1>6. ProcessInv(p)'
  BY <1>2, <1>4, <1>5
     DEF ProcessInv, InPlace, OnCapture, WrittenOut, OnRetired, TodoThere, Holding, At, On,
         AgentPlaces, Resting
<1>. QED BY <1>4, <1>6, OneMoves DEF Start, IInv, TypeOK, faults

LEMMA DraftStep ==
  ASSUME IInv, NEW p \in Processes, Draft(p)
  PROVE  IInv'
<1>1. CASE End(p)
  BY <1>1, EndsKeep DEF Draft
<1>2. CASE proc' = [proc EXCEPT ![p].pc = "begin", ![p].base = revision]
  <2>. DEFINE m == [proc[p] EXCEPT !.pc = "begin", !.base = revision]
  <2>1. proc[p] \in Minds /\ revision \in Nat
    BY DEF IInv, TypeOK
  <2>2. m \in Minds /\ m.pc = "begin" /\ m.on = proc[p].on /\ m.todo = proc[p].todo
    BY <2>1 DEF Minds, Places
  <2>3. proc' = [proc EXCEPT ![p] = m]
    BY <1>2
  <2>. HIDE DEF m
  <2>4. proc' \in [Processes -> Minds] /\ proc'[p] = m /\ \A q \in Processes \ {p} : proc'[q] = proc[q]
    BY <2>2, <2>3, Becomes DEF IInv
  <2>. QED BY <2>2, <2>4, GoesOn, Kinds DEF On, Draft, At, Places, AgentPlaces, Resting
<1>. QED BY <1>1, <1>2 DEF Draft

LEMMA StaleKeeps ==
  ASSUME IInv, NEW p \in Processes, Stale(p), UNCHANGED <<db, git, faults>>,
         proc[p].pc \in AgentPlaces \ {"commit", "ack"}
  PROVE  IInv'
<1>1. CASE End(p)
  BY <1>1, EndsKeep
<1>2. CASE Move(p, "retain")
  BY <1>2, MovesKeep, Kinds DEF Places, AgentPlaces, Resting
<1>. QED BY <1>1, <1>2 DEF Stale

LEMMA ResumeStep ==
  ASSUME IInv, NEW p \in Processes, Resume(p)
  PROVE  IInv'
<1>1. CASE End(p)
  BY <1>1, EndsKeep DEF Resume
<1>2. CASE Stale(p)
  BY <1>2, StaleKeeps DEF Resume, At, AgentPlaces
<1>3. CASE Move(p, "publish")
  BY <1>3, MovesKeep, Kinds DEF Resume, At, Places, AgentPlaces, Resting
<1>. QED BY <1>1, <1>2, <1>3 DEF Resume

LEMMA PublishStep ==
  ASSUME IInv, NEW p \in Processes, Publish(p)
  PROVE  IInv'
<1>1. PICK place \in {"flush", "create"} : Move(p, place)
  BY DEF Publish
<1>. QED BY <1>1, MovesKeep, Kinds DEF Publish, At, Places, AgentPlaces, Resting

LEMMA AckStep ==
  ASSUME IInv, NEW p \in Processes, Ack(p)
  PROVE  IInv'
<1>1. CASE p \in Agents
  BY <1>1, MovesKeep, RetentionAssumption DEF Ack, At, Places, AgentPlaces, Resting
<1>2. CASE p \notin Agents
  BY <1>2, MovesKeep DEF Ack, At, Places, CleanerPlaces, Resting, Processes
<1>. QED BY <1>1, <1>2

LEMMA VerifyStep ==
  ASSUME IInv, NEW p \in Processes, Verify(p)
  PROVE  IInv'
<1>1. CASE End(p)
  BY <1>1, EndsKeep DEF Verify
<1>2. CASE Move(p, "settle")
  BY <1>2, MovesKeep, Kinds DEF Verify, At, Places, AgentPlaces, Resting
<1>. QED BY <1>1, <1>2 DEF Verify

LEMMA RetainStep ==
  ASSUME IInv, NEW p \in Processes, Retain(p)
  PROVE  IInv'
<1>1. CASE Move(p, "retire")
  BY <1>1, MovesKeep, Kinds DEF Retain, At, Places, AgentPlaces, Resting
<1>2. CASE proc' = [proc EXCEPT ![p].pc = "refuse", ![p].base = revision]
  <2>. DEFINE m == [proc[p] EXCEPT !.pc = "refuse", !.base = revision]
  <2>1. proc[p] \in Minds /\ revision \in Nat
    BY DEF IInv, TypeOK
  <2>2. m \in Minds /\ m.pc = "refuse" /\ m.on = proc[p].on /\ m.todo = proc[p].todo
    BY <2>1 DEF Minds, Places
  <2>3. proc' = [proc EXCEPT ![p] = m]
    BY <1>2
  <2>. HIDE DEF m
  <2>4. proc' \in [Processes -> Minds] /\ proc'[p] = m /\ \A q \in Processes \ {p} : proc'[q] = proc[q]
    BY <2>2, <2>3, Becomes DEF IInv
  <2>. QED BY <2>2, <2>4, GoesOn, Kinds DEF On, Retain, At, Places, AgentPlaces, Resting
<1>. QED BY <1>1, <1>2 DEF Retain
-----------------------------------------------------------------------------
(* Steps of a run of gc that only read.                                    *)

LEMMA Cleanups ==
  ASSUME TypeOK
  PROVE  /\ DOMAIN cleanup \subseteq Nat
         /\ \A k \in DOMAIN cleanup : cleanup[k] \in [on : Captures, outcome : Outcomes \cup {None}]
<1>. DEFINE Rows == [on : Captures, outcome : Outcomes \cup {None}]
<1>1. cleanup \in Seq(Rows)
  BY DEF TypeOK
<1>. HIDE DEF Rows
<1>2. Len(cleanup) \in Nat /\ DOMAIN cleanup = 1..Len(cleanup) /\ \A k \in 1..Len(cleanup) : cleanup[k] \in Rows
  BY <1>1
<1>. QED BY <1>2 DEF Rows

LEMMA RestsKeep ==
  ASSUME IInv, NEW p \in Cleaners, UNCHANGED <<db, git, faults>>,
         proc' \in [Processes -> Minds], \A q \in Processes \ {p} : proc'[q] = proc[q],
         proc'[p].pc \in {"pending", "admit"}, proc'[p].todo \subseteq DOMAIN cleanup
  PROVE  IInv'
<1>1. cleanup' = cleanup /\ p \in Processes /\ p \notin Agents
  BY RetentionAssumption DEF db, Processes
<1>2. ProcessInv(p)'
  BY <1>1 DEF ProcessInv, InPlace, OnCapture, WrittenOut, OnRetired, TodoThere, Holding, At,
       CleanerPlaces, Resting
<1>. QED BY <1>1, <1>2, OneMoves DEF IInv, TypeOK, faults

LEMMA BackKeeps ==
  ASSUME IInv, NEW p \in Cleaners, UNCHANGED <<db, git, faults>>, Back(p)
  PROVE  IInv'
<1>1. p \in Processes
  BY DEF Processes
<1>2. PICK place \in {"pending", "admit"} : Move(p, place)
  BY DEF Back
<1>3. TodoThere(p) /\ TypeOK
  BY <1>1 DEF IInv, ProcessInv
<1>. QED BY <1>1, <1>2, <1>3, Moves, RestsKeep DEF TodoThere, Places

LEMMA FailKeeps ==
  ASSUME IInv, NEW p \in Cleaners, UNCHANGED <<db, git, faults>>, Fail(p)
  PROVE  IInv'
  BY BackKeeps, EndsKeep DEF Fail, Processes

LEMMA GcStep ==
  ASSUME IInv, NEW p \in Processes, Gc(p)
  PROVE  IInv'
<1>1. PICK m : m = [Idle EXCEPT !.pc = "pending", !.resumed = TRUE,
                               !.todo = UNION {Pending(c) : c \in Reclaimable}]
  OBVIOUS
<1>2. UNION {Pending(c) : c \in Reclaimable} \subseteq DOMAIN cleanup
  BY DEF Pending, CleanupsOf
<1>3. m \in Minds /\ m.pc = "pending" /\ m.todo \subseteq DOMAIN cleanup
  BY <1>1, <1>2, Cleanups DEF IInv, Idle, Minds, Places, Outcomes
<1>4. proc' = [proc EXCEPT ![p] = m] /\ p \in Cleaners
  BY <1>1 DEF Gc
<1>5. proc' \in [Processes -> Minds] /\ proc'[p] = m /\ \A q \in Processes \ {p} : proc'[q] = proc[q]
  BY <1>3, <1>4, Becomes DEF IInv
<1>. QED BY <1>3, <1>4, <1>5, RestsKeep DEF Gc

LEMMA ResumeCleanupStep ==
  ASSUME IInv, NEW p \in Processes, ResumeCleanup(p)
  PROVE  IInv'
<1>1. p \in Cleaners /\ p \notin Agents
  BY Kinds DEF ResumeCleanup, At, CleanerPlaces
<1>2. proc[p] \in Minds /\ proc[p].todo \subseteq DOMAIN cleanup
  BY DEF IInv, TypeOK, ProcessInv, TodoThere
<1>3. CASE proc' = [proc EXCEPT ![p].pc = "admit", ![p].resumed = FALSE, ![p].left = Reclaimable]
  <2>. DEFINE m == [proc[p] EXCEPT !.pc = "admit", !.resumed = FALSE, !.left = Reclaimable]
  <2>1. Reclaimable \subseteq Captures
    BY DEF Reclaimable
  <2>2. m \in Minds /\ m.pc = "admit" /\ m.todo = proc[p].todo
    BY <1>2, <2>1 DEF Minds, Places
  <2>3. proc' = [proc EXCEPT ![p] = m]
    BY <1>3
  <2>. HIDE DEF m
  <2>4. proc' \in [Processes -> Minds] /\ proc'[p] = m /\ \A q \in Processes \ {p} : proc'[q] = proc[q]
    BY <2>2, <2>3, Becomes DEF IInv
  <2>. QED BY <1>1, <1>2, <2>2, <2>4, RestsKeep DEF ResumeCleanup
<1>4. CASE \E k \in proc[p].todo :
             proc' = [proc EXCEPT ![p].pc = "reclaim", ![p].on = cleanup[k].on,
                                  ![p].cleanup = k, ![p].todo = @ \ {k}]
  <2>1. PICK k \in proc[p].todo :
          proc' = [proc EXCEPT ![p].pc = "reclaim", ![p].on = cleanup[k].on,
                               ![p].cleanup = k, ![p].todo = @ \ {k}]
    BY <1>4
  <2>. DEFINE m == [proc[p] EXCEPT !.pc = "reclaim", !.on = cleanup[k].on,
                                   !.cleanup = k, !.todo = @ \ {k}]
  <2>2. k \in DOMAIN cleanup /\ k \in Nat /\ cleanup[k].on \in Captures
    BY <1>2, Cleanups DEF IInv
  <2>3. State(cleanup[k].on) = "retired"
    BY <2>2 DEF IInv, RowsInv, CleanupsRetired
  <2>4. m \in Minds /\ m.pc = "reclaim" /\ m.todo \subseteq DOMAIN cleanup /\ m.on = cleanup[k].on
    BY <1>2, <2>2 DEF Minds, Places
  <2>5. proc' = [proc EXCEPT ![p] = m]
    BY <2>1
  <2>. HIDE DEF m
  <2>6. proc' \in [Processes -> Minds] /\ proc'[p] = m /\ \A q \in Processes \ {p} : proc'[q] = proc[q]
    BY <2>4, <2>5, Becomes DEF IInv
  <2>7. UNCHANGED <<retention, cleanup>>
    BY DEF ResumeCleanup, db
  <2>8. ProcessInv(p)'
    BY <1>1, <2>2, <2>3, <2>4, <2>6, <2>7
       DEF ProcessInv, InPlace, OnCapture, WrittenOut, OnRetired, TodoThere, Holding, At, On,
           State, CleanerPlaces, Resting
  <2>. QED BY <2>6, <2>8, OneMoves DEF ResumeCleanup, IInv, TypeOK, faults
<1>. QED BY <1>3, <1>4 DEF ResumeCleanup

LEMMA ReclaimStep ==
  ASSUME IInv, NEW p \in Processes, Reclaim(p)
  PROVE  IInv'
<1>1. p \in Cleaners /\ p \notin Agents
  BY Kinds DEF Reclaim, At, CleanerPlaces
<1>2. CASE Back(p)
  BY <1>1, <1>2, BackKeeps DEF Reclaim
<1>3. CASE End(p)
  BY <1>3, EndsKeep DEF Reclaim
<1>4. ASSUME NEW place \in {"remove", "sweep"}, NEW outcome \in Outcomes,
             proc' = [proc EXCEPT ![p].pc = place, ![p].outcome = outcome]
      PROVE  IInv'
  <2>. DEFINE m == [proc[p] EXCEPT !.pc = place, !.outcome = outcome]
  <2>1. proc[p] \in Minds
    BY DEF IInv, TypeOK
  <2>2. m \in Minds /\ m.pc = place /\ m.on = proc[p].on /\ m.todo = proc[p].todo
    BY <2>1 DEF Minds, Places
  <2>3. proc' = [proc EXCEPT ![p] = m]
    BY <1>4
  <2>. HIDE DEF m
  <2>4. proc' \in [Processes -> Minds] /\ proc'[p] = m /\ \A q \in Processes \ {p} : proc'[q] = proc[q]
    BY <2>2, <2>3, Becomes DEF IInv
  <2>. QED BY <1>1, <2>2, <2>4, GoesOn DEF Reclaim, At, On, Places, CleanerPlaces, Resting
<1>. QED BY <1>2, <1>3, <1>4 DEF Reclaim, Outcomes

LEMMA GoneStep ==
  ASSUME IInv, NEW p \in Processes, Gone(p)
  PROVE  IInv'
<1>1. p \in Cleaners /\ p \notin Agents
  BY Kinds DEF Gone, At, CleanerPlaces
<1>2. CASE Fail(p)
  BY <1>1, <1>2, FailKeeps DEF Gone
<1>3. CASE Move(p, "sweep")
  BY <1>1, <1>3, MovesKeep DEF Gone, At, Places, CleanerPlaces, Resting
<1>. QED BY <1>2, <1>3 DEF Gone

LEMMA ConfirmStep ==
  ASSUME IInv, NEW p \in Processes, Confirm(p)
  PROVE  IInv'
<1>1. p \in Cleaners /\ p \notin Agents
  BY Kinds DEF Confirm, At, CleanerPlaces
<1>2. CASE Fail(p)
  BY <1>1, <1>2, FailKeeps DEF Confirm
<1>3. CASE Move(p, "record")
  BY <1>1, <1>3, MovesKeep DEF Confirm, At, Places, CleanerPlaces, Resting
<1>. QED BY <1>2, <1>3 DEF Confirm
-----------------------------------------------------------------------------
(* Steps that change a row, a ref or a transaction.                        *)

\* What a step of one process must leave to every other.
LEMMA OthersKeep ==
  ASSUME IInv, NEW q \in Processes, proc'[q] = proc[q],
         DOMAIN cleanup \subseteq DOMAIN cleanup',
         \A c \in Captures : State(c) = "retired" => State(c)' = "retired",
         \A c \in Captures : State(c) # "retired" /\ ref[c] = TRUE /\ disk[c] = {TRUE} =>
           ref'[c] = TRUE /\ disk'[c] = {TRUE},
         \A c \in Captures : txn[c] # None /\ txn[c].by = q /\ txn[c].sent = FALSE => txn'[c] = txn[c]
  PROVE  ProcessInv(q)'
<1>1. ProcessInv(q) /\ On(q)' = On(q)
  BY DEF IInv, On
<1>2. proc[q].pc \notin Resting => On(q) \in Captures
  BY <1>1 DEF ProcessInv, OnCapture
<1>3. InPlace(q)' /\ OnCapture(q)' /\ TodoThere(q)'
  BY <1>1 DEF ProcessInv, InPlace, OnCapture, TodoThere, At
<1>4. OnRetired(q)'
  BY <1>1, <1>2 DEF ProcessInv, OnRetired, State
<1>5. WrittenOut(q)'
  BY <1>1, <1>2 DEF ProcessInv, WrittenOut, State, Resting
<1>6. Holding(q)'
  BY <1>1, <1>2 DEF ProcessInv, Holding, At, Resting
<1>. QED BY <1>3, <1>4, <1>5, <1>6 DEF ProcessInv

LEMMA StepKeeps ==
  ASSUME IInv, NEW p \in Processes, TypeOK', RowsInv', ProcessInv(p)',
         \A q \in Processes \ {p} : proc'[q] = proc[q],
         DOMAIN cleanup \subseteq DOMAIN cleanup',
         \A c \in Captures : State(c) = "retired" => State(c)' = "retired",
         \A c \in Captures : State(c) # "retired" /\ ref[c] = TRUE /\ disk[c] = {TRUE} =>
           ref'[c] = TRUE /\ disk'[c] = {TRUE},
         \A c \in Captures : txn[c] # None /\ txn[c].by # p /\ txn[c].sent = FALSE => txn'[c] = txn[c]
  PROVE  IInv'
<1>1. ASSUME NEW q \in Processes, q # p PROVE ProcessInv(q)'
  <2>1. \A c \in Captures : txn[c] # None /\ txn[c].by = q /\ txn[c].sent = FALSE => txn'[c] = txn[c]
    BY <1>1
  <2>2. proc'[q] = proc[q]
    BY <1>1
  <2>. QED BY <2>1, <2>2, OthersKeep
<1>. QED BY <1>1 DEF IInv

LEMMA LockKeeps ==
  ASSUME IInv, NEW p \in Processes, NEW action \in {"create", "remove"},
         TakeLock(p, action), UNCHANGED <<db, ref, disk, faults>>,
         On(p) \in Captures, txn[On(p)] = None, proc[p].pc \notin Resting,
         action = "remove" => State(On(p)) = "retired"
  PROVE  IInv'
<1>. DEFINE t == [by |-> p, action |-> action, sent |-> FALSE]
<1>0. t \in Transactions /\ t.by = p /\ t.action = action /\ t.sent = FALSE
  BY DEF Transactions
<1>. HIDE DEF t
<1>1. t # None
  BY <1>0, RetentionAssumption
<1>2. TypeOK /\ ProcessInv(p) /\ RowsInv
  BY DEF IInv
<1>3. UNCHANGED <<revision, retention, refused, cleanup, ref, disk, stops, losses>>
  BY DEF db, faults
<1>4. /\ proc' \in [Processes -> Minds] /\ proc'[p].pc = "commit" /\ On(p)' = On(p)
      /\ proc'[p].todo = proc[p].todo /\ \A q \in Processes \ {p} : proc'[q] = proc[q]
  BY <1>2, Moves DEF TakeLock, Places
<1>5. /\ txn' \in [Captures -> {None} \cup Transactions] /\ txn'[On(p)] = t
      /\ \A c \in Captures \ {On(p)} : txn'[c] = txn[c]
  <2>1. txn' = [txn EXCEPT ![On(p)] = t]
    BY DEF TakeLock, t
  <2>. QED BY <1>0, <1>2, <2>1 DEF TypeOK
<1>6. TypeOK'
  BY <1>2, <1>3, <1>4, <1>5 DEF TypeOK
<1>7. RowsInv'
  <2>1. Kept' /\ CleanupsRetired'
    BY <1>2, <1>3 DEF RowsInv, Kept, CleanupsRetired, State
  <2>2. RemovalsRetired'
    BY <1>0, <1>2, <1>3, <1>5 DEF RowsInv, RemovalsRetired, State
  <2>. QED BY <2>1, <2>2 DEF RowsInv
<1>8. InPlace(p)' /\ OnCapture(p)' /\ TodoThere(p)' /\ OnRetired(p)'
  BY <1>2, <1>3, <1>4
     DEF ProcessInv, InPlace, OnCapture, TodoThere, OnRetired, At, State, AgentPlaces, CleanerPlaces,
         Processes
<1>9. WrittenOut(p)' /\ Holding(p)'
  BY <1>0, <1>1, <1>4, <1>5 DEF WrittenOut, Holding, At
<1>. QED BY <1>3, <1>4, <1>5, <1>6, <1>7, <1>8, <1>9, StepKeeps DEF ProcessInv, State

LEMMA CreateStep ==
  ASSUME IInv, NEW p \in Processes, Create(p)
  PROVE  IInv'
<1>1. CASE Move(p, "flush") /\ UNCHANGED txn
  BY <1>1, MovesKeep, Kinds DEF Create, At, Places, AgentPlaces, Resting, git, db
<1>2. CASE TakeLock(p, "create")
  BY <1>2, LockKeeps, Kinds DEF Create, At, AgentPlaces, Resting
<1>. QED BY <1>1, <1>2 DEF Create

LEMMA RemoveStep ==
  ASSUME IInv, NEW p \in Processes, Remove(p)
  PROVE  IInv'
<1>1. p \in Cleaners /\ On(p) \in Captures /\ State(On(p)) = "retired" /\ proc[p].pc \notin Resting
  BY Kinds DEF Remove, At, CleanerPlaces, Resting, IInv, ProcessInv, OnRetired
<1>2. CASE Fail(p) /\ UNCHANGED txn
  BY <1>1, <1>2, FailKeeps DEF Remove, git, db
<1>3. CASE TakeLock(p, "remove")
  BY <1>1, <1>3, LockKeeps DEF Remove
<1>. QED BY <1>2, <1>3 DEF Remove

LEMMA CommitStep ==
  ASSUME IInv, NEW p \in Processes, Commit(p)
  PROVE  IInv'
<1>1. TypeOK /\ ProcessInv(p) /\ RowsInv /\ proc[p].pc = "commit" /\ On(p) \in Captures
  BY Kinds DEF IInv, Commit, At, Resting
<1>2. UNCHANGED <<revision, retention, refused, cleanup, ref, disk, stops, losses>>
  BY DEF Commit, db, faults
<1>3. /\ proc' \in [Processes -> Minds] /\ proc'[p].pc = "ack" /\ On(p)' = On(p)
      /\ proc'[p].todo = proc[p].todo /\ \A q \in Processes \ {p} : proc'[q] = proc[q]
  BY <1>1, Moves DEF Commit, Places
<1>. DEFINE t == [txn[On(p)] EXCEPT !.sent = TRUE]
<1>4. txn[On(p)] \in Transactions /\ txn[On(p)].by = p
  BY <1>1 DEF TypeOK, ProcessInv, Holding, At
<1>5. t \in Transactions /\ t.action = txn[On(p)].action
  BY <1>4 DEF Transactions
<1>6. txn' = [txn EXCEPT ![On(p)] = t]
  BY DEF Commit
<1>. HIDE DEF t
<1>7. /\ txn' \in [Captures -> {None} \cup Transactions] /\ txn'[On(p)] = t
      /\ \A c \in Captures \ {On(p)} : txn'[c] = txn[c]
  BY <1>1, <1>5, <1>6 DEF TypeOK
<1>8. TypeOK'
  BY <1>1, <1>2, <1>3, <1>7 DEF TypeOK
<1>9. RowsInv'
  <2>1. Kept' /\ CleanupsRetired'
    BY <1>1, <1>2 DEF RowsInv, Kept, CleanupsRetired, State
  <2>2. txn[On(p)] # None
    BY <1>4, RetentionAssumption
  <2>3. RemovalsRetired'
    BY <1>1, <1>2, <1>5, <1>7, <2>2 DEF RowsInv, RemovalsRetired, State
  <2>. QED BY <2>1, <2>3 DEF RowsInv
<1>10. ProcessInv(p)'
  BY <1>1, <1>2, <1>3
     DEF ProcessInv, InPlace, OnCapture, TodoThere, OnRetired, WrittenOut, Holding, At, State,
         AgentPlaces, CleanerPlaces, Resting, Processes
<1>. QED BY <1>2, <1>3, <1>4, <1>7, <1>8, <1>9, <1>10, StepKeeps DEF State

LEMMA FlushStep ==
  ASSUME IInv, NEW p \in Processes, Flush(p)
  PROVE  IInv'
<1>1. TypeOK /\ ProcessInv(p) /\ RowsInv /\ p \in Agents /\ p \notin Cleaners /\ On(p) \in Captures
  BY Kinds DEF IInv, Flush, At, AgentPlaces, Resting
<1>2. CASE End(p) /\ UNCHANGED disk
  BY <1>2, EndsKeep DEF Flush, git, db
<1>3. CASE ref[On(p)] /\ disk' = [disk EXCEPT ![On(p)] = {TRUE}] /\ Move(p, "verify")
  <2>1. UNCHANGED <<revision, retention, refused, cleanup, ref, txn, stops, losses>>
    BY DEF Flush, db, faults
  <2>2. /\ proc' \in [Processes -> Minds] /\ proc'[p].pc = "verify" /\ On(p)' = On(p)
        /\ proc'[p].todo = proc[p].todo /\ \A q \in Processes \ {p} : proc'[q] = proc[q]
    BY <1>1, <1>3, Moves DEF Places
  <2>3. ref[On(p)] = TRUE
    BY <1>1, <1>3 DEF TypeOK
  <2>4. /\ disk' \in [Captures -> SUBSET BOOLEAN] /\ disk'[On(p)] = {TRUE}
        /\ \A c \in Captures \ {On(p)} : disk'[c] = disk[c]
    BY <1>1, <1>3 DEF TypeOK
  <2>5. TypeOK'
    BY <1>1, <2>1, <2>2, <2>4 DEF TypeOK
  <2>6. RowsInv'
    BY <1>1, <2>1, <2>3, <2>4 DEF RowsInv, Kept, CleanupsRetired, RemovalsRetired, State
  <2>7. InPlace(p)' /\ OnCapture(p)' /\ TodoThere(p)' /\ OnRetired(p)'
    BY <1>1, <2>1, <2>2 DEF ProcessInv, InPlace, OnCapture, TodoThere, OnRetired, AgentPlaces
  <2>8. WrittenOut(p)' /\ Holding(p)'
    BY <2>1, <2>2, <2>3, <2>4 DEF WrittenOut, Holding, At
  <2>. QED BY <2>1, <2>2, <2>4, <2>5, <2>6, <2>7, <2>8, StepKeeps DEF ProcessInv, State
<1>. QED BY <1>2, <1>3 DEF Flush

LEMMA SweepStep ==
  ASSUME IInv, NEW p \in Processes, Sweep(p)
  PROVE  IInv'
<1>1. TypeOK /\ ProcessInv(p) /\ RowsInv /\ p \in Cleaners /\ p \notin Agents /\ On(p) \in Captures
  BY Kinds DEF IInv, Sweep, At, CleanerPlaces, Resting
<1>2. State(On(p)) = "retired"
  BY <1>1 DEF ProcessInv, OnRetired, Sweep, At, Resting
<1>3. UNCHANGED <<revision, retention, refused, cleanup, ref, txn, stops, losses>>
  BY DEF Sweep, db, faults
<1>4. /\ proc' \in [Processes -> Minds] /\ proc'[p].pc = "confirm" /\ On(p)' = On(p)
      /\ proc'[p].todo = proc[p].todo /\ \A q \in Processes \ {p} : proc'[q] = proc[q]
  BY <1>1, Moves DEF Sweep, Places
<1>5. ref[On(p)] \in BOOLEAN
  BY <1>1 DEF TypeOK
<1>6. /\ disk' \in [Captures -> SUBSET BOOLEAN]
      /\ \A c \in Captures \ {On(p)} : disk'[c] = disk[c]
  BY <1>1, <1>5 DEF TypeOK, Sweep
<1>7. TypeOK'
  BY <1>1, <1>3, <1>4, <1>6 DEF TypeOK
<1>8. RowsInv'
  BY <1>1, <1>2, <1>3, <1>6 DEF RowsInv, Kept, CleanupsRetired, RemovalsRetired, State
<1>9. ProcessInv(p)'
  BY <1>1, <1>2, <1>3, <1>4
     DEF ProcessInv, InPlace, OnCapture, TodoThere, OnRetired, WrittenOut, Holding, At, State,
         CleanerPlaces
<1>. QED BY <1>2, <1>3, <1>4, <1>6, <1>7, <1>8, <1>9, StepKeeps DEF State

LEMMA GitCommitStep ==
  ASSUME IInv, NEW c \in Captures, GitCommit(c)
  PROVE  IInv'
<1>1. TypeOK /\ RowsInv
  BY DEF IInv
<1>2. UNCHANGED <<revision, retention, refused, cleanup, proc, stops, losses>>
  BY DEF GitCommit, db, faults
<1>3. txn[c] \in Transactions /\ txn[c].sent = TRUE
  BY <1>1 DEF GitCommit, TypeOK, Transactions
<1>4. PICK there \in BOOLEAN : there = (txn[c].action = "create")
  OBVIOUS
<1>5. /\ ref' = [ref EXCEPT ![c] = there] /\ disk' = [disk EXCEPT ![c] = @ \cup {ref'[c]}]
      /\ txn' = [txn EXCEPT ![c] = None]
  BY <1>4 DEF GitCommit
<1>6. ref' \in [Captures -> BOOLEAN] /\ ref'[c] = there /\ \A d \in Captures \ {c} : ref'[d] = ref[d]
  BY <1>1, <1>5 DEF TypeOK
<1>7. disk[c] \cup {there} \in SUBSET BOOLEAN
  BY <1>1 DEF TypeOK
<1>8. /\ disk' \in [Captures -> SUBSET BOOLEAN] /\ disk'[c] = disk[c] \cup {there}
      /\ \A d \in Captures \ {c} : disk'[d] = disk[d]
  BY <1>1, <1>5, <1>6, <1>7 DEF TypeOK
<1>9. /\ txn' \in [Captures -> {None} \cup Transactions] /\ txn'[c] = None
      /\ \A d \in Captures \ {c} : txn'[d] = txn[d]
  BY <1>1, <1>5 DEF TypeOK
<1>10. TypeOK'
  BY <1>1, <1>2, <1>6, <1>8, <1>9 DEF TypeOK
<1>11. State(c) # "retired" => there = TRUE
  <2>1. txn[c] # None
    BY DEF GitCommit
  <2>2. txn[c].action \in {"create", "remove"}
    BY <1>3 DEF Transactions
  <2>. QED BY <1>1, <1>4, <2>1, <2>2 DEF RowsInv, RemovalsRetired
<1>12. \A d \in Captures : State(d) # "retired" /\ ref[d] = TRUE /\ disk[d] = {TRUE} =>
         ref'[d] = TRUE /\ disk'[d] = {TRUE}
  BY <1>6, <1>8, <1>11
<1>13. RowsInv'
  BY <1>1, <1>2, <1>9, <1>12 DEF RowsInv, Kept, CleanupsRetired, RemovalsRetired, State
<1>14. ASSUME NEW q \in Processes PROVE ProcessInv(q)'
  <2>1. \A d \in Captures : txn[d] # None /\ txn[d].by = q /\ txn[d].sent = FALSE => txn'[d] = txn[d]
    BY <1>3, <1>9
  <2>. QED BY <1>2, <1>12, <2>1, OthersKeep DEF State
<1>. QED BY <1>10, <1>13, <1>14 DEF IInv

LEMMA Advances ==
  ASSUME TypeOK, NEW c \in Captures, NEW state \in States, Advance(c, state)
  PROVE  /\ retention' \in [Captures -> [state : States, expected : Nat]]
         /\ State(c)' = state /\ \A d \in Captures \ {c} : State(d)' = State(d)
<1>. DEFINE r == [retention[c] EXCEPT !.state = state]
<1>1. retention[c] \in [state : States, expected : Nat]
  BY DEF TypeOK
<1>2. r \in [state : States, expected : Nat] /\ r.state = state
  BY <1>1
<1>3. retention' = [retention EXCEPT ![c] = r]
  BY DEF Advance
<1>. HIDE DEF r
<1>. QED BY <1>2, <1>3 DEF TypeOK, State

\* What a step that only settles the transition of p's capture must respect.
LEMMA TransitionKeeps ==
  ASSUME IInv, NEW p \in Processes, NEW place \in {"idle", "resume", "retain"},
         retention' \in [Captures -> [state : States, expected : Nat]],
         NEW c \in Captures, c = On(p), p \in Agents, p \notin Cleaners,
         \A d \in Captures \ {c} : State(d)' = State(d),
         State(c) # "retired", State(c)' = "selected" => ref[c] = TRUE /\ disk[c] = {TRUE},
         revision' \in Nat, UNCHANGED <<refused, cleanup, git, faults>>,
         proc' \in [Processes -> Minds], \A q \in Processes \ {p} : proc'[q] = proc[q],
         proc'[p].pc = place, place # "idle" => On(p)' = On(p), proc'[p].todo \subseteq DOMAIN cleanup
  PROVE  IInv'
<1>1. TypeOK /\ RowsInv
  BY DEF IInv
<1>2. UNCHANGED <<refused, cleanup, ref, disk, txn, stops, losses>>
  BY DEF git, faults
<1>3. TypeOK'
  BY <1>1, <1>2 DEF TypeOK
<1>4. \A d \in Captures : State(d) = "retired" => State(d)' = "retired"
  OBVIOUS
<1>5. CleanupsRetired' /\ RemovalsRetired'
  <2>1. \A k \in DOMAIN cleanup : cleanup[k].on \in Captures
    BY <1>1, Cleanups
  <2>. QED BY <1>1, <1>2, <1>4, <2>1 DEF RowsInv, CleanupsRetired, RemovalsRetired, State
<1>6. Kept'
  <2>1. \A d \in Captures : State(d)' = "selected" => ref[d] = TRUE /\ disk[d] = {TRUE}
    BY <1>1 DEF RowsInv, Kept
  <2>. QED BY <1>2, <2>1 DEF Kept
<1>7. ProcessInv(p)'
  BY <1>2 DEF ProcessInv, InPlace, OnCapture, WrittenOut, OnRetired, TodoThere, Holding, At,
       AgentPlaces, Resting
<1>. QED BY <1>2, <1>3, <1>4, <1>5, <1>6, <1>7, StepKeeps DEF RowsInv

LEMMA BeginStep ==
  ASSUME IInv, NEW p \in Processes, Begin(p)
  PROVE  IInv'
<1>1. TypeOK /\ ProcessInv(p) /\ p \in Agents /\ p \notin Cleaners /\ On(p) \in Captures
  BY Kinds DEF IInv, Begin, At, AgentPlaces, Resting
<1>c. PICK c \in Captures : c = On(p)
  BY <1>1
<1>2. CASE /\ State(c) = "none"
           /\ retention' = [retention EXCEPT ![c] = [state |-> "prepared", expected |-> revision]]
           /\ Move(p, "resume")
  <2>. DEFINE r == [state |-> "prepared", expected |-> revision]
  <2>1. r \in [state : States, expected : Nat] /\ r.state = "prepared"
    BY <1>1 DEF TypeOK, States
  <2>2. retention' = [retention EXCEPT ![c] = r]
    BY <1>2
  <2>. HIDE DEF r
  <2>3. /\ retention' \in [Captures -> [state : States, expected : Nat]]
        /\ State(c)' = "prepared" /\ \A d \in Captures \ {c} : State(d)' = State(d)
    BY <1>1, <2>1, <2>2 DEF TypeOK, State
  <2>4. /\ proc' \in [Processes -> Minds] /\ proc'[p].pc = "resume" /\ On(p)' = On(p)
        /\ proc'[p].todo = proc[p].todo /\ \A q \in Processes \ {p} : proc'[q] = proc[q]
    BY <1>1, <1>2, Moves DEF Places
  <2>5. proc'[p].todo \subseteq DOMAIN cleanup /\ revision' \in Nat
    BY <1>1, <2>4 DEF ProcessInv, TodoThere, TypeOK, Begin
  <2>6. UNCHANGED <<refused, cleanup, git, faults>> /\ State(c) # "retired" /\ State(c)' # "selected"
    BY <1>2, <2>3 DEF Begin
  <2>. QED BY <1>c, <1>1, <2>3, <2>4, <2>5, <2>6, TransitionKeeps
<1>3. CASE Stale(p) /\ UNCHANGED retention
  BY <1>3, StaleKeeps DEF Begin, At, AgentPlaces, db
<1>4. CASE End(p) /\ UNCHANGED retention
  BY <1>4, EndsKeep DEF Begin, db
<1>. QED BY <1>c, <1>2, <1>3, <1>4 DEF Begin

LEMMA SettleStep ==
  ASSUME IInv, NEW p \in Processes, Settle(p)
  PROVE  IInv'
<1>1. /\ TypeOK /\ ProcessInv(p) /\ p \in Agents /\ p \notin Cleaners /\ On(p) \in Captures
      /\ proc[p].pc = "settle"
  BY Kinds DEF IInv, Settle, At, AgentPlaces, Resting
<1>c. PICK c \in Captures : c = On(p)
  BY <1>1
<1>2. State(c) # "retired" => ref[c] = TRUE /\ disk[c] = {TRUE}
  BY <1>c, <1>1 DEF ProcessInv, WrittenOut
<1>3. CASE State(c) = "prepared" /\ Advance(c, "selected") /\ revision' = revision + 1 /\ End(p)
  <2>1. /\ retention' \in [Captures -> [state : States, expected : Nat]]
        /\ State(c)' = "selected" /\ \A d \in Captures \ {c} : State(d)' = State(d)
    BY <1>1, <1>3, Advances DEF States
  <2>2. /\ proc' \in [Processes -> Minds] /\ proc'[p].pc = "idle" /\ proc'[p].todo = {}
        /\ \A q \in Processes \ {p} : proc'[q] = proc[q]
    BY <1>1, <1>3, Ends DEF Idle
  <2>3. revision' \in Nat
    BY <1>1, <1>3 DEF TypeOK
  <2>4. UNCHANGED <<refused, cleanup, git, faults>> /\ State(c) # "retired"
    BY <1>3 DEF Settle
  <2>. QED BY <1>c, <1>1, <1>2, <2>1, <2>2, <2>3, <2>4, TransitionKeeps
<1>4. CASE Stale(p) /\ UNCHANGED <<revision, retention>>
  BY <1>1, <1>4, StaleKeeps DEF Settle, AgentPlaces, db
<1>5. CASE End(p) /\ UNCHANGED <<revision, retention>>
  BY <1>5, EndsKeep DEF Settle, db
<1>. QED BY <1>c, <1>3, <1>4, <1>5 DEF Settle

LEMMA RetireStep ==
  ASSUME IInv, NEW p \in Processes, Retire(p)
  PROVE  IInv'
<1>1. TypeOK /\ ProcessInv(p) /\ p \in Agents /\ p \notin Cleaners /\ On(p) \in Captures
  BY Kinds DEF IInv, Retire, At, AgentPlaces, Resting
<1>c. PICK c \in Captures : c = On(p)
  BY <1>1
<1>2. CASE State(c) = "prepared" /\ Advance(c, "retired") /\ Move(p, "retain")
  <2>1. /\ retention' \in [Captures -> [state : States, expected : Nat]]
        /\ State(c)' = "retired" /\ \A d \in Captures \ {c} : State(d)' = State(d)
    BY <1>1, <1>2, Advances DEF States
  <2>2. /\ proc' \in [Processes -> Minds] /\ proc'[p].pc = "retain" /\ On(p)' = On(p)
        /\ proc'[p].todo = proc[p].todo /\ \A q \in Processes \ {p} : proc'[q] = proc[q]
    BY <1>1, <1>2, Moves DEF Places
  <2>3. revision' \in Nat /\ proc'[p].todo \subseteq DOMAIN cleanup
    BY <1>1, <2>2 DEF TypeOK, Retire, ProcessInv, TodoThere
  <2>4. UNCHANGED <<refused, cleanup, git, faults>> /\ State(c) # "retired"
        /\ State(c)' # "selected"
    BY <1>2, <2>1 DEF Retire
  <2>. QED BY <1>c, <1>1, <2>1, <2>2, <2>3, <2>4, TransitionKeeps
<1>3. CASE End(p) /\ UNCHANGED retention
  BY <1>3, EndsKeep DEF Retire, db
<1>. QED BY <1>c, <1>2, <1>3 DEF Retire

LEMMA RefuseStep ==
  ASSUME IInv, NEW p \in Processes, Refuse(p)
  PROVE  IInv'
<1>1. TypeOK /\ RowsInv /\ On(p) \in Captures
  BY Kinds DEF IInv, Refuse, At, AgentPlaces, Resting
<1>2. UNCHANGED <<revision, retention, cleanup, ref, disk, txn, stops, losses>>
  BY DEF Refuse, git, faults
<1>3. /\ proc' \in [Processes -> Minds] /\ proc'[p].pc = "idle" /\ proc'[p].todo = {}
      /\ \A q \in Processes \ {p} : proc'[q] = proc[q]
  BY <1>1, Ends DEF Refuse, Idle
<1>4. refused' \subseteq Captures
  BY <1>1 DEF Refuse, TypeOK
<1>5. TypeOK'
  BY <1>1, <1>2, <1>3, <1>4 DEF TypeOK
<1>6. RowsInv'
  BY <1>1, <1>2 DEF RowsInv, Kept, CleanupsRetired, RemovalsRetired, State
<1>7. ProcessInv(p)'
  BY <1>3 DEF ProcessInv, InPlace, OnCapture, WrittenOut, OnRetired, TodoThere, Holding, At, Resting
<1>. QED BY <1>2, <1>3, <1>5, <1>6, <1>7, StepKeeps DEF State

LEMMA AdmitStep ==
  ASSUME IInv, NEW p \in Processes, Admit(p)
  PROVE  IInv'
<1>1. TypeOK /\ RowsInv /\ ProcessInv(p) /\ p \in Cleaners /\ p \notin Agents /\ proc[p] \in Minds
  BY Kinds DEF IInv, TypeOK, Admit, At, CleanerPlaces
<1>2. CASE End(p) /\ UNCHANGED cleanup
  BY <1>2, EndsKeep DEF Admit, db
<1>3. ASSUME NEW c \in Captures, Eligible(c),
             cleanup' = Append(cleanup, [on |-> c, outcome |-> None]),
             proc' = [proc EXCEPT ![p].pc = "reclaim", ![p].on = c, ![p].left = @ \ {c},
                                  ![p].cleanup = Len(cleanup')]
      PROVE  IInv'
  <2>. DEFINE Rows == [on : Captures, outcome : Outcomes \cup {None}]
              row == [on |-> c, outcome |-> None]
              m == [proc[p] EXCEPT !.pc = "reclaim", !.on = c, !.left = @ \ {c}, !.cleanup = Len(cleanup')]
  <2>1. cleanup \in Seq(Rows) /\ row \in Rows /\ row.on = c
    BY <1>1 DEF TypeOK
  <2>2. cleanup' = Append(cleanup, row) /\ proc' = [proc EXCEPT ![p] = m]
    BY <1>3
  <2>. HIDE DEF Rows, row
  <2>3. /\ cleanup' \in Seq(Rows) /\ Len(cleanup') \in Nat
        /\ DOMAIN cleanup = 1..Len(cleanup) /\ DOMAIN cleanup' = 1..(Len(cleanup) + 1)
        /\ \A k \in DOMAIN cleanup : cleanup'[k] = cleanup[k]
        /\ cleanup'[Len(cleanup) + 1] = row
    BY <2>1, <2>2
  <2>4. Len(cleanup) \in Nat
    BY <2>1
  <2>5. DOMAIN cleanup \subseteq DOMAIN cleanup'
    BY <2>3, <2>4
  <2>6. m \in Minds /\ m.pc = "reclaim" /\ m.on = c /\ m.todo = proc[p].todo
    BY <1>1, <2>3 DEF Minds, Places
  <2>. HIDE DEF m
  <2>7. proc' \in [Processes -> Minds] /\ proc'[p] = m /\ \A q \in Processes \ {p} : proc'[q] = proc[q]
    BY <1>1, <2>2, <2>6, Becomes
  <2>8. UNCHANGED <<revision, retention, refused, ref, disk, txn, stops, losses>>
    BY DEF Admit, git, faults
  <2>9. TypeOK'
    BY <1>1, <2>3, <2>7, <2>8 DEF TypeOK, Rows
  <2>10. CleanupsRetired'
    <3>1. ASSUME NEW k \in DOMAIN cleanup' PROVE State(cleanup'[k].on) = "retired"
      <4>1. CASE k \in DOMAIN cleanup
        BY <1>1, <2>3, <4>1 DEF RowsInv, CleanupsRetired
      <4>2. CASE k = Len(cleanup) + 1
        BY <1>3, <2>1, <2>3, <4>2 DEF Eligible
      <4>. QED BY <2>3, <2>4, <3>1, <4>1, <4>2
    <3>. QED BY <2>8, <3>1 DEF CleanupsRetired, State
  <2>11. RowsInv'
    BY <1>1, <2>8, <2>10 DEF RowsInv, Kept, RemovalsRetired, State
  <2>12. ProcessInv(p)'
    BY <1>1, <1>3, <2>5, <2>6, <2>7, <2>8
       DEF ProcessInv, InPlace, OnCapture, WrittenOut, OnRetired, TodoThere, Holding, At, On,
           State, Eligible, CleanerPlaces, Resting
  <2>. QED BY <2>5, <2>7, <2>8, <2>9, <2>11, <2>12, StepKeeps DEF State
<1>. QED BY <1>1, <1>2, <1>3 DEF Admit, TypeOK, Minds

LEMMA RowSet ==
  ASSUME NEW S, NEW s \in Seq(S), NEW i, NEW r, i \in DOMAIN s => r \in S,
         NEW t, t = [s EXCEPT ![i] = r]
  PROVE  /\ t \in Seq(S) /\ DOMAIN t = DOMAIN s
         /\ \A j \in DOMAIN s : t[j] = IF j = i THEN r ELSE s[j]
<1>1. Len(s) \in Nat /\ DOMAIN s = 1..Len(s) /\ \A j \in 1..Len(s) : s[j] \in S
  OBVIOUS
<1>2. DOMAIN t = 1..Len(s) /\ \A j \in DOMAIN s : t[j] = IF j = i THEN r ELSE s[j]
  BY <1>1
<1>3. t \in [1..Len(s) -> S]
  BY <1>1, <1>2
<1>. QED BY <1>1, <1>2, <1>3

LEMMA RecordStep ==
  ASSUME IInv, NEW p \in Processes, Record(p)
  PROVE  IInv'
<1>1. TypeOK /\ RowsInv /\ ProcessInv(p) /\ p \in Cleaners /\ p \notin Agents /\ proc[p] \in Minds
  BY Kinds DEF IInv, TypeOK, Record, At, CleanerPlaces
<1>2. UNCHANGED <<revision, retention, refused, ref, disk, txn, stops, losses>>
  BY DEF Record, git, faults
<1>3. PICK place \in {"pending", "admit"} : Move(p, place)
  BY DEF Record, Back
<1>4. /\ proc' \in [Processes -> Minds] /\ proc'[p].pc = place
      /\ proc'[p].todo = proc[p].todo /\ \A q \in Processes \ {p} : proc'[q] = proc[q]
  BY <1>1, <1>3, Moves DEF Places
<1>. DEFINE Rows == [on : Captures, outcome : Outcomes \cup {None}]
            k == proc[p].cleanup
            row == [cleanup[k] EXCEPT !.outcome = proc[p].outcome]
<1>5. cleanup \in Seq(Rows) /\ proc[p].outcome \in Outcomes
  BY <1>1 DEF TypeOK, Minds
<1>6. /\ cleanup' \in Seq(Rows) /\ DOMAIN cleanup' = DOMAIN cleanup
      /\ \A i \in DOMAIN cleanup : cleanup'[i].on = cleanup[i].on
  <2>1. CASE cleanup' = cleanup
    BY <1>5, <2>1
  <2>2. CASE cleanup' = [cleanup EXCEPT ![k] = row]
    <3>1. \A i \in DOMAIN cleanup : cleanup[i] \in Rows
      BY <1>1, Cleanups
    <3>2. k \in DOMAIN cleanup => row \in Rows /\ row.on = cleanup[k].on
      BY <1>5, <3>1
    <3>. HIDE DEF Rows, row, k
    <3>3. /\ cleanup' \in Seq(Rows) /\ DOMAIN cleanup' = DOMAIN cleanup
          /\ \A i \in DOMAIN cleanup : cleanup'[i] = IF i = k THEN row ELSE cleanup[i]
      BY <1>5, <2>2, <3>2, RowSet
    <3>. QED BY <3>2, <3>3
  <2>. QED BY <2>1, <2>2 DEF Record
<1>. HIDE DEF Rows
<1>7. TypeOK'
  BY <1>1, <1>2, <1>4, <1>6 DEF TypeOK, Rows
<1>8. RowsInv'
  BY <1>1, <1>2, <1>6 DEF RowsInv, Kept, CleanupsRetired, RemovalsRetired, State
<1>9. ProcessInv(p)'
  BY <1>1, <1>4, <1>6
     DEF ProcessInv, InPlace, OnCapture, WrittenOut, OnRetired, TodoThere, Holding, At,
         CleanerPlaces, Resting
<1>. QED BY <1>2, <1>4, <1>6, <1>7, <1>8, <1>9, StepKeeps DEF State
-----------------------------------------------------------------------------
(* Failures, and what happens elsewhere.                                   *)

LEMMA StopStep ==
  ASSUME IInv, NEW p \in Processes, Stop(p)
  PROVE  IInv'
<1>1. TypeOK /\ RowsInv /\ ProcessInv(p)
  BY DEF IInv
<1>2. UNCHANGED <<revision, retention, refused, cleanup, ref, disk, losses>>
  BY DEF Stop, db
<1>3. /\ proc' \in [Processes -> Minds] /\ proc'[p].pc = "idle" /\ proc'[p].todo = {}
      /\ \A q \in Processes \ {p} : proc'[q] = proc[q]
  BY <1>1, Ends DEF Stop, Idle
<1>4. stops' \in 0..MaxStops
  BY <1>1, RetentionAssumption DEF TypeOK, Stop
<1>5. \/ txn' = txn
      \/ txn' = [txn EXCEPT ![On(p)] = None] /\ (On(p) \in Captures => txn[On(p)].by = p)
  BY <1>1 DEF Stop, ProcessInv, Holding, Holds
<1>6. /\ txn' \in [Captures -> {None} \cup Transactions]
      /\ \A c \in Captures : txn'[c] = txn[c] \/ txn'[c] = None
      /\ \A c \in Captures : txn[c] # None /\ txn[c].by # p => txn'[c] = txn[c]
  BY <1>1, <1>5 DEF TypeOK
<1>7. TypeOK'
  BY <1>1, <1>2, <1>3, <1>4, <1>6 DEF TypeOK
<1>8. RowsInv'
  BY <1>1, <1>2, <1>6 DEF RowsInv, Kept, CleanupsRetired, RemovalsRetired, State
<1>9. ProcessInv(p)'
  BY <1>3 DEF ProcessInv, InPlace, OnCapture, WrittenOut, OnRetired, TodoThere, Holding, At, Resting
<1>. QED BY <1>2, <1>3, <1>6, <1>7, <1>8, <1>9, StepKeeps DEF State

LEMMA ElsewhereStep ==
  ASSUME IInv, CaptureElsewhere
  PROVE  IInv'
<1>1. UNCHANGED <<retention, refused, cleanup, ref, disk, txn, proc, stops, losses>>
  BY DEF CaptureElsewhere, git, faults
<1>2. TypeOK'
  BY <1>1 DEF IInv, TypeOK, CaptureElsewhere
<1>3. RowsInv'
  BY <1>1 DEF IInv, RowsInv, Kept, CleanupsRetired, RemovalsRetired, State
<1>4. ASSUME NEW q \in Processes PROVE ProcessInv(q)'
  BY <1>1, OthersKeep DEF State
<1>. QED BY <1>2, <1>3, <1>4 DEF IInv

LEMMA LosePowerStep ==
  ASSUME IInv, LosePower
  PROVE  IInv'
<1>1. TypeOK /\ RowsInv
  BY DEF IInv
<1>2. UNCHANGED <<revision, retention, refused, cleanup, stops>>
  BY DEF LosePower, db
<1>3. losses' \in 0..MaxLosses
  BY <1>1, RetentionAssumption DEF TypeOK, LosePower
<1>4. proc' \in [Processes -> Minds] /\ \A q \in Processes : proc'[q].pc = "idle" /\ proc'[q].todo = {}
  BY IdleType DEF LosePower, Idle
<1>5. /\ ref' \in [Captures -> BOOLEAN] /\ \A c \in Captures : ref'[c] \in disk[c]
      /\ disk' = [c \in Captures |-> {ref'[c]}] /\ txn' = [c \in Captures |-> None]
  BY DEF LosePower
<1>6. disk' \in [Captures -> SUBSET BOOLEAN] /\ txn' \in [Captures -> {None} \cup Transactions]
  BY <1>5
<1>7. TypeOK'
  BY <1>1, <1>2, <1>3, <1>4, <1>5, <1>6 DEF TypeOK
<1>8. RowsInv'
  <2>1. Kept'
    <3>1. \A c \in Captures : disk[c] = {TRUE} => ref'[c] = TRUE /\ disk'[c] = {TRUE}
      BY <1>5
    <3>. QED BY <1>1, <1>2, <3>1 DEF RowsInv, Kept, State
  <2>2. CleanupsRetired' /\ RemovalsRetired'
    BY <1>1, <1>2, <1>5 DEF RowsInv, CleanupsRetired, RemovalsRetired, State
  <2>. QED BY <2>1, <2>2 DEF RowsInv
<1>9. ASSUME NEW q \in Processes PROVE ProcessInv(q)'
  BY <1>4 DEF ProcessInv, InPlace, OnCapture, WrittenOut, OnRetired, TodoThere, Holding, At, Resting
<1>. QED BY <1>7, <1>8, <1>9 DEF IInv
-----------------------------------------------------------------------------
LEMMA Initially ==
  ASSUME Init
  PROVE  IInv
<1>1. cleanup \in Seq([on : Captures, outcome : Outcomes \cup {None}]) /\ DOMAIN cleanup = {}
  BY DEF Init
<1>2. TypeOK
  BY <1>1, IdleType, RetentionAssumption DEF Init, TypeOK, States
<1>3. RowsInv
  BY <1>1 DEF Init, RowsInv, Kept, CleanupsRetired, RemovalsRetired, State
<1>4. ASSUME NEW p \in Processes PROVE ProcessInv(p)
  BY DEF Init, Idle, ProcessInv, InPlace, OnCapture, WrittenOut, OnRetired, TodoThere, Holding, At,
         Resting
<1>. QED BY <1>2, <1>3, <1>4 DEF IInv

LEMMA Steps ==
  ASSUME IInv, [Next]_vars
  PROVE  IInv'
<1>1. ASSUME NEW p \in Processes, Proceed(p) PROVE IInv'
  <2>1. CASE Draft(p) \/ Begin(p) \/ Resume(p) \/ Publish(p) \/ Create(p) \/ Commit(p) \/ Ack(p)
    BY <2>1, DraftStep, BeginStep, ResumeStep, PublishStep, CreateStep, CommitStep, AckStep
  <2>2. CASE Flush(p) \/ Verify(p) \/ Settle(p) \/ Retain(p) \/ Retire(p) \/ Refuse(p)
    BY <2>2, FlushStep, VerifyStep, SettleStep, RetainStep, RetireStep, RefuseStep
  <2>3. CASE ResumeCleanup(p) \/ Admit(p) \/ Reclaim(p) \/ Remove(p) \/ Gone(p)
    BY <2>3, ResumeCleanupStep, AdmitStep, ReclaimStep, RemoveStep, GoneStep
  <2>4. CASE Sweep(p) \/ Confirm(p) \/ Record(p)
    BY <2>4, SweepStep, ConfirmStep, RecordStep
  <2>. QED BY <1>1, <2>1, <2>2, <2>3, <2>4 DEF Proceed
<1>2. ASSUME NEW p \in Processes, Run(p) PROVE IInv'
  BY <1>2, GcStep, StartStep DEF Run
<1>3. CASE UNCHANGED vars
  <2>1. UNCHANGED <<revision, retention, refused, cleanup, ref, disk, txn, proc, stops, losses>>
    BY <1>3 DEF vars
  <2>2. TypeOK' /\ RowsInv'
    BY <2>1 DEF IInv, TypeOK, RowsInv, Kept, CleanupsRetired, RemovalsRetired, State
  <2>3. ASSUME NEW q \in Processes PROVE ProcessInv(q)'
    BY <2>1, OthersKeep DEF State
  <2>. QED BY <2>2, <2>3 DEF IInv
<1>. QED BY <1>1, <1>2, <1>3, StopStep, GitCommitStep, ElsewhereStep, LosePowerStep DEF Next

LEMMA Inductive == Spec => []IInv
<1>1. Init => IInv
  BY Initially
<1>2. IInv /\ [Next]_vars => IInv'
  BY Steps
<1>. QED BY <1>1, <1>2, PTL DEF Spec
-----------------------------------------------------------------------------
\* The variables keep their types.
THEOREM TypeCorrect == Spec => []TypeOK
<1>1. IInv => TypeOK
  BY DEF IInv
<1>. QED BY <1>1, Inductive, PTL

\* The ref of a selected capture exists and is on the disk, however many commands
\* create it and cleanups run, whatever fails and whenever the power goes
\* (settleProjectCaptureRetention, publishDatabaseGitRef).
THEOREM SelectedKeptHolds == Spec => []SelectedKept
<1>1. IInv => SelectedKept
  BY DEF IInv, RowsInv, Kept, SelectedKept
<1>. QED BY <1>1, Inductive, PTL

\* Short of a loss of power only retired captures lose their refs
\* (resumeDatabaseGitReclamation, previewProjectGitReclamation).
THEOREM RemovedOnlyRetiredHolds == Spec => RemovedOnlyRetired
<1>. DEFINE Removed == \A c \in Captures :
              ref[c] /\ ~ref'[c] /\ losses' = losses => State(c) = "retired"
<1>1. IInv /\ [Next]_vars => [Removed]_vars
  <2>. SUFFICES ASSUME IInv, Next PROVE Removed
    OBVIOUS
  <2>1. CASE \E p \in Processes : Run(p) \/ Proceed(p) \/ Stop(p)
    <3>1. PICK p \in Processes : Run(p) \/ Proceed(p) \/ Stop(p)
      BY <2>1
    <3>2. ref' = ref
      <4>1. CASE Run(p) \/ Stop(p)
        BY <4>1 DEF Run, Gc, Start, Stop, git
      <4>2. CASE Draft(p) \/ Begin(p) \/ Resume(p) \/ Publish(p) \/ Create(p) \/ Commit(p) \/ Ack(p)
        BY <4>2 DEF Draft, Begin, Resume, Publish, Create, Commit, Ack, git
      <4>3. CASE Flush(p) \/ Verify(p) \/ Settle(p) \/ Retain(p) \/ Retire(p) \/ Refuse(p)
        BY <4>3 DEF Flush, Verify, Settle, Retain, Retire, Refuse, git
      <4>4. CASE ResumeCleanup(p) \/ Admit(p) \/ Reclaim(p) \/ Remove(p) \/ Gone(p)
        BY <4>4 DEF ResumeCleanup, Admit, Reclaim, Remove, Gone, git
      <4>5. CASE Sweep(p) \/ Confirm(p) \/ Record(p)
        BY <4>5 DEF Sweep, Confirm, Record, git
      <4>. QED BY <3>1, <4>1, <4>2, <4>3, <4>4, <4>5 DEF Proceed
    <3>. QED BY <3>2
  <2>2. CASE \E c \in Captures : GitCommit(c)
    <3>1. PICK c \in Captures : GitCommit(c)
      BY <2>2
    <3>2. /\ txn[c] \in Transactions /\ ref \in [Captures -> BOOLEAN]
          /\ txn[c] # None /\ ref' = [ref EXCEPT ![c] = txn[c].action = "create"]
      BY <3>1 DEF GitCommit, IInv, TypeOK
    <3>3. PICK there \in BOOLEAN : there = (txn[c].action = "create")
      OBVIOUS
    <3>4. ref'[c] = there /\ \A d \in Captures \ {c} : ref'[d] = ref[d]
      BY <3>2, <3>3
    <3>5. State(c) # "retired" => there = TRUE
      BY <3>2, <3>3 DEF IInv, RowsInv, RemovalsRetired, Transactions
    <3>. QED BY <3>4, <3>5
  <2>3. CASE CaptureElsewhere
    BY <2>3 DEF CaptureElsewhere, git
  <2>4. CASE LosePower
    BY <2>4 DEF LosePower, IInv, TypeOK
  <2>. QED BY <2>1, <2>2, <2>3, <2>4 DEF Next
<1>. QED BY <1>1, Inductive, PTL DEF Spec, RemovedOnlyRetired
=============================================================================
