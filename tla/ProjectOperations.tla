-------------------------- MODULE ProjectOperations --------------------------
(***************************************************************************)
(* Writing a project database: runProjectOperation                         *)
(* (packages/storage/src/history/database/transactions.ts) over            *)
(* connections of several processes (connection.ts).                       *)
(*                                                                         *)
(* A caller names its operation by an ID it keeps.  Under SQLite's only    *)
(* write lock the operation's receipt is looked up; without one its rows   *)
(* are written, the counters advance and its receipt is stored, in one     *)
(* transaction.  A call may be refused, cancelled, fail, or be answered    *)
(* with nothing because its process died, and is then made again, by       *)
(* anyone, with the same ID and perhaps with another content.              *)
(***************************************************************************)
EXTENDS Naturals, FiniteSets, Sequences

CONSTANTS
  Connections,
  OpIds, Contents,
  Intents,     \* contents whose operations declare an intent change
  Reserves,    \* the operation ID a content retains for its completion, or None
  Completion,  \* for each operation ID, the content that may complete it
  Attempts,    \* transactions one call tries: 3
  Capacity,    \* Number.MAX_SAFE_INTEGER
  MaxCalls,    \* bound: how often a connection is called
  None

ASSUME OperationsAssumption ==
  /\ Intents \subseteq Contents
  /\ Reserves \in [Contents -> OpIds \cup {None}]
  /\ Completion \in [OpIds -> Contents]
  /\ Attempts \in Nat \ {0} /\ Capacity \in Nat \ {0} /\ MaxCalls \in Nat
  /\ None \notin OpIds \cup Contents \cup Connections
  /\ None \notin [content : Contents, write : Nat, intent : Nat]

VARIABLES
  operations,  \* the operations table: a receipt for each ID, or None
  reserved,    \* IDs a pending push or publication retains for its completion
  rows,        \* whose domain rows were written, in order
  counters,    \* project_counters
  writer,      \* the connection that holds the write lock, or None
  conn,        \* each connection and the call it runs
  calls,       \* how many calls were made on it
  answers      \* what callers were told

vars == <<operations, reserved, rows, counters, writer, conn, calls, answers>>
stored == <<operations, reserved, rows, counters>>

Receipts == [content : Contents, write : Nat, intent : Nat]
Places == {"free", "admission", "inside", "settled", "answer", "poisoned"}
Empty(place) == [pc |-> place, op |-> None, content |-> None, try |-> 0, receipt |-> None]
FreeConnection == Empty("free")
ClosedConnection == Empty("poisoned")

At(h, place) == conn[h].pc = place
Holds(h) == writer = h
Counted(c) == IF c \in Intents THEN 1 ELSE 0

\* The connection's record as its call goes on.
Now(h, place, try, receipt) ==
  [pc |-> place, op |-> conn[h].op, content |-> conn[h].content, try |-> try, receipt |-> receipt]
Moves(h, place, receipt) ==
  conn' = [conn EXCEPT ![h] = Now(h, place, conn[h].try, receipt)]

\* The transaction is over and so is the call.
Release == writer' = None
EndCall(h) == conn' = [conn EXCEPT ![h] = FreeConnection]

-----------------------------------------------------------------------------
Call(h, o, c) ==
  /\ At(h, "free") /\ calls[h] < MaxCalls
  /\ conn' = [conn EXCEPT ![h] = [pc |-> "admission", op |-> o, content |-> c,
                                  try |-> 1, receipt |-> None]]
  /\ calls' = [calls EXCEPT ![h] = @ + 1]
  /\ UNCHANGED <<stored, writer, answers>>

\* BEGIN IMMEDIATE is tried again until no other connection holds the lock.
Admit(h) ==
  /\ At(h, "admission") /\ writer = None
  /\ writer' = h
  /\ Moves(h, "inside", None)
  /\ UNCHANGED <<stored, calls, answers>>

\* Bug: only the ID is compared.
ReplayAny(h) ==
  /\ At(h, "inside") /\ operations[conn[h].op] # None
  /\ Moves(h, "answer", operations[conn[h].op])
  /\ Release
  /\ UNCHANGED <<stored, calls, answers>>

\* The operation was performed before: its stored result is the answer.
Replay(h) ==
  /\ At(h, "inside") /\ operations[conn[h].op] # None
  /\ operations[conn[h].op].content = conn[h].content
  /\ Moves(h, "answer", operations[conn[h].op])
  /\ Release
  /\ UNCHANGED <<stored, calls, answers>>

\* Another content was performed under this ID.
Conflicts(o, c) == operations[o] # None /\ operations[o].content # c

\* Bug: an ID is only looked for among those already performed.
RetainedUnseen(o, c) == FALSE

\* The ID is retained for a completion, and this is not it.
Retained(o, c) == reserved[o] /\ c # Completion[o]

\* Bug: an ID that was performed already may be retained.
ReserveAnyway(o, c) == Reserves[c] # None => ~reserved[Reserves[c]]

\* assertOriginalIdentities: an ID to be retained is in no use.
CanReserve(o, c) ==
  Reserves[c] # None =>
    Reserves[c] # o /\ operations[Reserves[c]] = None /\ ~reserved[Reserves[c]]

\* Bug: off by one.
AtCapacityLate(c) == counters.write > Capacity

AtCapacity(c) == counters.write = Capacity \/ (c \in Intents /\ counters.intent = Capacity)

\* Bug: the receipt is looked up only where a caller says it retries.
SettleUnlooked(h) ==
  /\ At(h, "inside") /\ ~AtCapacity(conn[h].content)
  /\ ~Retained(conn[h].op, conn[h].content) /\ CanReserve(conn[h].op, conn[h].content)
  /\ Moves(h, "settled", [content |-> conn[h].content, write |-> counters.write + 1,
                          intent |-> counters.intent + Counted(conn[h].content)])
  /\ UNCHANGED <<stored, writer, calls, answers>>

NextCounters(c) == [write |-> counters.write + 1, intent |-> counters.intent + Counted(c)]

Settle(h) ==
  LET o == conn[h].op
      c == conn[h].content
  IN /\ At(h, "inside") /\ operations[o] = None
     /\ ~Retained(o, c) /\ CanReserve(o, c) /\ ~AtCapacity(c)
     /\ Moves(h, "settled", [content |-> c, write |-> NextCounters(c).write,
                             intent |-> NextCounters(c).intent])
     /\ UNCHANGED <<stored, writer, calls, answers>>

\* Bug: the counters are left to a later write.
WrittenUncounted(h) ==
  /\ operations' = [operations EXCEPT ![conn[h].op] = conn[h].receipt]
  /\ reserved' = IF Reserves[conn[h].content] = None THEN reserved
                 ELSE [reserved EXCEPT ![Reserves[conn[h].content]] = TRUE]
  /\ rows' = Append(rows, conn[h].op)
  /\ UNCHANGED counters

\* What a transaction commits, all of it or nothing.
Written(h) ==
  /\ operations' = [operations EXCEPT ![conn[h].op] = conn[h].receipt]
  /\ reserved' = IF Reserves[conn[h].content] = None THEN reserved
                 ELSE [reserved EXCEPT ![Reserves[conn[h].content]] = TRUE]
  /\ rows' = Append(rows, conn[h].op)
  /\ counters' = NextCounters(conn[h].content)

Commit(h) ==
  /\ At(h, "settled") /\ Written(h) /\ Release
  /\ Moves(h, "answer", conn[h].receipt)
  /\ UNCHANGED <<calls, answers>>

\* COMMIT reports an error although it took effect; the call fails.
CommitUnreported(h) ==
  /\ At(h, "settled") /\ Written(h) /\ Release
  /\ EndCall(h)
  /\ UNCHANGED <<calls, answers>>

Return(h) ==
  /\ At(h, "answer")
  /\ answers' = answers \cup {[op |-> conn[h].op, content |-> conn[h].content,
                               receipt |-> conn[h].receipt]}
  /\ EndCall(h)
  /\ UNCHANGED <<stored, writer, calls>>

-----------------------------------------------------------------------------
InTransaction(h) == conn[h].pc \in {"inside", "settled"}

\* A refusal: the transaction is rolled back and the call fails.
Refuse(h) ==
  LET o == conn[h].op
      c == conn[h].content
  IN /\ At(h, "inside")
     /\ \/ Conflicts(o, c)
        \/ operations[o] = None /\ (Retained(o, c) \/ ~CanReserve(o, c) \/ AtCapacity(c))
     /\ Release /\ EndCall(h)
     /\ UNCHANGED <<stored, calls, answers>>

\* Bug: there is no last attempt.
RetryForEver(h) ==
  /\ InTransaction(h)
  /\ Release
  /\ conn' = [conn EXCEPT ![h] = Now(h, "admission", conn[h].try + 1, None)]
  /\ UNCHANGED <<stored, calls, answers>>

\* Contention within the transaction: it is rolled back and tried again.
Retry(h) ==
  /\ InTransaction(h)
  /\ Release
  /\ IF conn[h].try = Attempts THEN EndCall(h)
     ELSE conn' = [conn EXCEPT ![h] = Now(h, "admission", conn[h].try + 1, None)]
  /\ UNCHANGED <<stored, calls, answers>>

\* The call is cancelled, the caller's settlement throws, or the database
\* fails: nothing of it remains.
Fail(h) ==
  /\ At(h, "admission") \/ InTransaction(h)
  /\ writer' = IF Holds(h) THEN None ELSE writer
  /\ EndCall(h)
  /\ UNCHANGED <<stored, calls, answers>>

\* Bug: the connection is left open, and with it the transaction.
PoisonOpen(h) ==
  /\ InTransaction(h)
  /\ conn' = [conn EXCEPT ![h] = ClosedConnection]
  /\ UNCHANGED <<stored, writer, calls, answers>>

\* The rollback fails: the connection is closed and takes no call any more.
Poison(h) ==
  /\ InTransaction(h)
  /\ Release
  /\ conn' = [conn EXCEPT ![h] = ClosedConnection]
  /\ UNCHANGED <<stored, calls, answers>>

\* The process dies, at any moment; another opens the database.
Crash(h) ==
  /\ ~At(h, "free")
  /\ writer' = IF Holds(h) THEN None ELSE writer
  /\ EndCall(h)
  /\ UNCHANGED <<stored, calls, answers>>

Init ==
  /\ operations = [o \in OpIds |-> None] /\ reserved = [o \in OpIds |-> FALSE]
  /\ rows = <<>> /\ counters = [write |-> 1, intent |-> 0]
  /\ writer = None
  /\ conn = [h \in Connections |-> FreeConnection]
  /\ calls = [h \in Connections |-> 0]
  /\ answers = {}

Step(h) ==
  \/ Admit(h) \/ Replay(h) \/ Settle(h) \/ Commit(h) \/ CommitUnreported(h) \/ Return(h)
  \/ Refuse(h) \/ Retry(h) \/ Fail(h) \/ Poison(h)

Next ==
  \E h \in Connections :
    \/ \E o \in OpIds, c \in Contents : Call(h, o, c)
    \/ Step(h) \/ Crash(h)

Spec == Init /\ [][Next]_vars

-----------------------------------------------------------------------------
TypeOK ==
  /\ operations \in [OpIds -> Receipts \cup {None}]
  /\ reserved \in [OpIds -> BOOLEAN]
  /\ rows \in Seq(OpIds)
  /\ counters \in [write : Nat, intent : Nat]
  /\ writer \in Connections \cup {None}
  /\ calls \in [Connections -> Nat]
  /\ conn \in [Connections -> [pc : Places, op : OpIds \cup {None}, content : Contents \cup {None},
                               try : 0..Attempts, receipt : Receipts \cup {None}]]
  /\ answers \subseteq [op : OpIds, content : Contents, receipt : Receipts]

\* However often an operation is called, by whomever and after whatever
\* failure, its rows are written once, and exactly when its receipt is.
PerformedOnce ==
  /\ \A i, j \in 1..Len(rows) : rows[i] = rows[j] => i = j
  /\ {rows[i] : i \in 1..Len(rows)} = {o \in OpIds : operations[o] # None}

\* Whoever is told the result of an operation had asked for that operation,
\* and is told what everyone else is told.
AnswersAgree ==
  \A a \in answers : a.content = a.receipt.content /\ operations[a.op] = a.receipt

\* The receipts number the writes without a gap, in the order they were
\* committed, and count the intent changes among them.
ReceiptsCountWrites ==
  /\ counters.write = Len(rows) + 1 /\ counters.write <= Capacity
  /\ \A i \in 1..Len(rows) :
       /\ operations[rows[i]].write = i + 1
       /\ operations[rows[i]].intent =
            Cardinality({j \in 1..i : operations[rows[j]].content \in Intents})

\* An ID retained for a pending completion is never taken by anything else.
ReservedForCompletion ==
  \A o \in OpIds : reserved[o] /\ operations[o] # None => operations[o].content = Completion[o]

\* Whoever is neither cancelled nor failed goes on, admission included.
Proceed(h) == Admit(h) \/ Replay(h) \/ Settle(h) \/ Commit(h) \/ Return(h) \/ Refuse(h)
FairSpec == Spec /\ \A h \in Connections : WF_vars(Proceed(h))

\* Every call ends, although admission is tried without limit: whatever
\* happens to the connection that holds the write lock, it gives the lock back.
CallsEnd == \A h \in Connections : At(h, "admission") ~> conn[h].pc \in {"free", "poisoned"}

\* Every call is a performance of the abstract log or leaves it alone.
Log == INSTANCE OperationLog WITH done <- operations, writes <- counters, learned <- answers
ImplementsLog == Log!LogSpec
=============================================================================
