----------------------- MODULE ProjectOperationsProofs -----------------------
(***************************************************************************)
(* Theorems about ProjectOperations, for any connections, operations,      *)
(* contents and limits that satisfy OperationsAssumption.                  *)
(***************************************************************************)
EXTENDS ProjectOperations, TLAPS

\* The write lock is held by the connection that is in a transaction.
LockHeld == \A h \in Connections : InTransaction(h) <=> writer = h

Busy(h) == conn[h].pc \in {"admission", "inside", "settled", "answer"}

\* A call that runs names an operation and a content.
CallNamed == \A h \in Connections : Busy(h) => conn[h].op \in OpIds /\ conn[h].content \in Contents

\* What a connection decided to write is still what may be written, because
\* it holds the lock until it commits.
SettledFresh ==
  \A h \in Connections :
    At(h, "settled") =>
      LET o == conn[h].op
          c == conn[h].content
      IN /\ operations[o] = None /\ ~Retained(o, c) /\ CanReserve(o, c)
         /\ conn[h].receipt = [content |-> c, write |-> NextCounters(c).write,
                               intent |-> NextCounters(c).intent]

\* An answer about to be given is the stored receipt of what was asked.
AnswerStored ==
  \A h \in Connections :
    At(h, "answer") => /\ conn[h].receipt # None
                       /\ operations[conn[h].op] = conn[h].receipt
                       /\ conn[h].receipt.content = conn[h].content

\* Learned answers are of operations that were performed.
AnswersStored == \A a \in answers : a.receipt # None

IInv ==
  /\ TypeOK /\ LockHeld /\ CallNamed /\ SettledFresh /\ AnswerStored
  /\ AnswersStored /\ AnswersAgree /\ PerformedOnce /\ ReservedForCompletion

\* Where nothing is stored and no answer given, the log's properties stay.
LEMMA Unstored ==
  ASSUME AnswersStored, AnswersAgree, PerformedOnce, ReservedForCompletion,
         UNCHANGED <<stored, answers>>
  PROVE  (AnswersStored /\ AnswersAgree /\ PerformedOnce /\ ReservedForCompletion)'
  BY DEF stored, AnswersStored, AnswersAgree, PerformedOnce, ReservedForCompletion

LEMMA InitIInv == Init => IInv
  <1> SUFFICES ASSUME Init PROVE IInv
    OBVIOUS
  <1> USE OperationsAssumption DEF Init, FreeConnection, Empty, Places, Receipts
  <1>1. TypeOK
    BY DEF TypeOK
  <1>2. LockHeld /\ CallNamed /\ SettledFresh /\ AnswerStored
    BY DEF LockHeld, InTransaction, CallNamed, Busy, SettledFresh, AnswerStored, At
  <1>3. AnswersStored /\ AnswersAgree /\ ReservedForCompletion
    BY DEF AnswersStored, AnswersAgree, ReservedForCompletion
  <1>4. PerformedOnce
    BY DEF PerformedOnce
  <1> QED
    BY <1>1, <1>2, <1>3, <1>4 DEF IInv

\* What a commit does to the stored state, whoever reports it.
LEMMA CommitWrites ==
  ASSUME IInv, NEW h \in Connections, At(h, "settled"), Written(h)
  PROVE  LET o == conn[h].op
             c == conn[h].content
         IN /\ o \in OpIds /\ c \in Contents /\ conn[h].receipt \in Receipts
            /\ conn[h].receipt # None /\ conn[h].receipt.content = c
            /\ operations[o] = None
            /\ operations' = [operations EXCEPT ![o] = conn[h].receipt]
            /\ operations' \in [OpIds -> Receipts \cup {None}]
            /\ reserved' \in [OpIds -> BOOLEAN] /\ rows' \in Seq(OpIds)
            /\ counters' = [write |-> conn[h].receipt.write, intent |-> conn[h].receipt.intent]
            /\ counters' \in [write : Nat, intent : Nat]
            /\ PerformedOnce' /\ ReservedForCompletion'
  <1> DEFINE o == conn[h].op
             c == conn[h].content
             r == conn[h].receipt
  <1>1. o \in OpIds /\ c \in Contents
    BY DEF IInv, CallNamed, Busy, At
  <1>2. /\ operations[o] = None /\ ~Retained(o, c) /\ CanReserve(o, c)
        /\ r = [content |-> c, write |-> NextCounters(c).write, intent |-> NextCounters(c).intent]
    BY DEF IInv, SettledFresh
  <1>3. counters \in [write : Nat, intent : Nat]
    BY DEF IInv, TypeOK
  <1>4. NextCounters(c) \in [write : Nat, intent : Nat]
    BY <1>3 DEF NextCounters, Counted
  <1>5. r \in Receipts /\ r # None /\ r.content = c
    BY <1>1, <1>2, <1>4, OperationsAssumption DEF Receipts
  <1>6. operations' = [operations EXCEPT ![o] = r] /\ rows' = Append(rows, o)
    BY DEF Written
  <1>7. /\ operations \in [OpIds -> Receipts \cup {None}]
        /\ reserved \in [OpIds -> BOOLEAN] /\ rows \in Seq(OpIds)
    BY DEF IInv, TypeOK
  <1>8. operations' \in [OpIds -> Receipts \cup {None}] /\ rows' \in Seq(OpIds)
    BY <1>1, <1>5, <1>6, <1>7
  <1>9. reserved' \in [OpIds -> BOOLEAN]
    BY <1>1, <1>7, OperationsAssumption DEF Written
  <1>10. counters' = [write |-> r.write, intent |-> r.intent] /\ counters' \in [write : Nat, intent : Nat]
    BY <1>2, <1>4 DEF Written, NextCounters
  <1>11. PerformedOnce'
    <2>1. Len(rows') = Len(rows) + 1 /\ rows'[Len(rows) + 1] = o
          /\ \A i \in 1..Len(rows) : rows'[i] = rows[i]
      BY <1>1, <1>6, <1>7
    <2>2. Len(rows) \in Nat
      BY <1>7
    <2>3. \A i \in 1..Len(rows) : rows[i] \in OpIds /\ operations[rows[i]] # None
      BY <1>7 DEF IInv, PerformedOnce
    <2>4. \A i \in 1..Len(rows) : rows[i] # o
      BY <1>2, <2>3
    <2>5. \A i, j \in 1..Len(rows') : rows'[i] = rows'[j] => i = j
      BY <2>1, <2>2, <2>4 DEF IInv, PerformedOnce
    <2>6. \A p \in OpIds : operations'[p] # None <=> p = o \/ operations[p] # None
      BY <1>1, <1>5, <1>6, <1>7
    <2>7. \A p \in OpIds : operations[p] # None => \E i \in 1..Len(rows) : rows[i] = p
      BY DEF IInv, PerformedOnce
    <2>8. \A p \in OpIds : operations'[p] # None => \E i \in 1..Len(rows') : rows'[i] = p
      <3> SUFFICES ASSUME NEW p \in OpIds, operations'[p] # None
                   PROVE  \E i \in 1..Len(rows') : rows'[i] = p
        OBVIOUS
      <3>1. CASE p = o
        BY <2>1, <2>2, <3>1
      <3>2. CASE p # o
        <4>1. PICK i \in 1..Len(rows) : rows[i] = p
          BY <2>6, <2>7, <3>2
        <4> QED
          BY <2>1, <2>2, <4>1
      <3> QED
        BY <3>1, <3>2
    <2>9. \A i \in 1..Len(rows') : rows'[i] \in OpIds /\ operations'[rows'[i]] # None
      BY <1>1, <2>1, <2>2, <2>3, <2>6
    <2> QED
      BY <2>5, <2>8, <2>9 DEF PerformedOnce
  <1>12. ReservedForCompletion'
    <2> SUFFICES ASSUME NEW p \in OpIds, reserved'[p], operations'[p] # None
                 PROVE  operations'[p].content = Completion[p]
      BY DEF ReservedForCompletion
    <2>1. CASE p = o
      <3>1. reserved[o]
        BY <1>1, <1>2, <1>7, <2>1, OperationsAssumption DEF Written, CanReserve
      <3>2. c = Completion[o]
        BY <1>2, <3>1 DEF Retained
      <3> QED
        BY <1>1, <1>5, <1>6, <1>7, <2>1, <3>2
    <2>2. CASE p # o
      <3>1. operations'[p] = operations[p]
        BY <1>1, <1>6, <1>7, <2>2
      <3>2. reserved[p]
        BY <1>2, <1>7, <3>1, OperationsAssumption DEF Written, CanReserve
      <3> QED
        BY <3>1, <3>2 DEF IInv, ReservedForCompletion
    <2> QED
      BY <2>1, <2>2
  <1> QED
    BY <1>1, <1>2, <1>5, <1>6, <1>8, <1>9, <1>10, <1>11, <1>12

\* Steps that store nothing: what a connection may do to its own place.
LEMMA PlaceOnly ==
  ASSUME IInv, NEW h \in Connections, NEW v, conn' = [conn EXCEPT ![h] = v],
         UNCHANGED <<stored, answers>>, TypeOK',
         v.pc \notin {"settled", "answer"}, v.pc = "inside" <=> writer' = h,
         \A g \in Connections \ {h} : writer' = g <=> writer = g,
         v.pc \in {"admission", "inside"} => v.op \in OpIds /\ v.content \in Contents
  PROVE  IInv'
  <1>1. conn'[h] = v /\ \A g \in Connections : g # h => conn'[g] = conn[g]
    BY DEF IInv, TypeOK
  <1>2. LockHeld'
    BY <1>1 DEF IInv, LockHeld, InTransaction
  <1>3. CallNamed'
    BY <1>1 DEF IInv, CallNamed, Busy
  <1>4. SettledFresh'
    BY <1>1 DEF IInv, SettledFresh, At, stored, Retained, CanReserve, NextCounters, Counted
  <1>5. AnswerStored'
    BY <1>1 DEF IInv, AnswerStored, At, stored
  <1> QED
    BY <1>2, <1>3, <1>4, <1>5, Unstored DEF IInv

LEMMA CallIInv ==
  ASSUME IInv, NEW h \in Connections, NEW o \in OpIds, NEW c \in Contents, Call(h, o, c)
  PROVE  IInv'
  <1>1. TypeOK'
    BY OperationsAssumption DEF IInv, TypeOK, Call, Places, stored
  <1>2. writer' = writer /\ writer # h
    BY DEF IInv, LockHeld, InTransaction, Call, At
  <1> DEFINE v == [pc |-> "admission", op |-> o, content |-> c, try |-> 1, receipt |-> None]
  <1>3. conn' = [conn EXCEPT ![h] = v] /\ UNCHANGED <<stored, answers>>
    BY DEF Call
  <1>4. v.pc = "admission" /\ v.op = o /\ v.content = c
    OBVIOUS
  <1> HIDE DEF v
  <1> QED
    BY <1>1, <1>2, <1>3, <1>4, PlaceOnly

LEMMA AdmitIInv ==
  ASSUME IInv, NEW h \in Connections, Admit(h)
  PROVE  IInv'
  <1>1. TypeOK'
    BY OperationsAssumption DEF IInv, TypeOK, Admit, Moves, Now, Places, stored
  <1> DEFINE v == Now(h, "inside", conn[h].try, None)
  <1>2. conn' = [conn EXCEPT ![h] = v] /\ UNCHANGED <<stored, answers>>
        /\ v.pc = "inside" /\ v.op = conn[h].op /\ v.content = conn[h].content
    BY DEF Admit, Moves, Now
  <1>3. writer' = h /\ \A g \in Connections : writer # g
    BY OperationsAssumption DEF Admit
  <1>4. conn[h].op \in OpIds /\ conn[h].content \in Contents
    BY DEF IInv, CallNamed, Busy, Admit, At
  <1> HIDE DEF v
  <1> QED
    BY <1>1, <1>2, <1>3, <1>4, PlaceOnly

\* A call that ends, with or without a transaction of its own.
LEMMA Ended ==
  ASSUME IInv, NEW h \in Connections, EndCall(h), UNCHANGED <<stored, calls, answers>>,
         writer' \in Connections \cup {None}, writer' # h,
         \A g \in Connections \ {h} : writer' = g <=> writer = g
  PROVE  IInv'
  <1>1. conn' = [conn EXCEPT ![h] = FreeConnection] /\ conn'[h] = FreeConnection
    BY DEF IInv, TypeOK, EndCall
  <1>2. TypeOK'
    BY <1>1, OperationsAssumption DEF IInv, TypeOK, FreeConnection, Empty, Places, stored
  <1>3. FreeConnection.pc = "free"
    BY DEF FreeConnection, Empty
  <1> QED
    BY <1>1, <1>2, <1>3, PlaceOnly

LEMMA Released ==
  ASSUME IInv, NEW h \in Connections, InTransaction(h), Release
  PROVE  /\ writer' \in Connections \cup {None} /\ writer' # h
         /\ \A g \in Connections \ {h} : writer' = g <=> writer = g
  BY OperationsAssumption DEF IInv, LockHeld, Release

LEMMA RefuseIInv ==
  ASSUME IInv, NEW h \in Connections, Refuse(h)
  PROVE  IInv'
  <1>1. InTransaction(h) /\ Release /\ EndCall(h) /\ UNCHANGED <<stored, calls, answers>>
    BY DEF Refuse, InTransaction, At
  <1> QED
    BY <1>1, Released, Ended

LEMMA FailIInv ==
  ASSUME IInv, NEW h \in Connections, Fail(h) \/ Crash(h)
  PROVE  IInv'
  <1>1. EndCall(h) /\ UNCHANGED <<stored, calls, answers>>
        /\ writer' = IF Holds(h) THEN None ELSE writer
    BY DEF Fail, Crash
  <1>2. writer \in Connections \cup {None}
    BY DEF IInv, TypeOK
  <1>3. /\ writer' \in Connections \cup {None} /\ writer' # h
        /\ \A g \in Connections \ {h} : writer' = g <=> writer = g
    BY <1>1, <1>2, OperationsAssumption DEF Holds
  <1> QED
    BY <1>1, <1>3, Ended

LEMMA RetryIInv ==
  ASSUME IInv, NEW h \in Connections, Retry(h)
  PROVE  IInv'
  <1>1. InTransaction(h) /\ Release /\ UNCHANGED <<stored, calls, answers>>
    BY DEF Retry
  <1>2. CASE conn[h].try = Attempts
    <2>1. EndCall(h)
      BY <1>2 DEF Retry
    <2> QED
      BY <1>1, <2>1, Released, Ended
  <1>3. CASE conn[h].try # Attempts
    <2> DEFINE v == Now(h, "admission", conn[h].try + 1, None)
    <2>1. conn' = [conn EXCEPT ![h] = v]
      BY <1>3 DEF Retry
    <2>2. v.pc = "admission" /\ v.op = conn[h].op /\ v.content = conn[h].content
      BY DEF Now
    <2>3. conn[h].try + 1 \in 0..Attempts
      BY <1>3, OperationsAssumption DEF IInv, TypeOK
    <2>4. TypeOK'
      BY <1>1, <2>1, <2>3, OperationsAssumption DEF IInv, TypeOK, Places, Release, stored, Now
    <2>5. conn[h].op \in OpIds /\ conn[h].content \in Contents
      BY <1>1 DEF IInv, CallNamed, Busy, InTransaction
    <2>6. writer' # h /\ \A g \in Connections \ {h} : writer' = g <=> writer = g
      BY <1>1, Released
    <2> HIDE DEF v
    <2> QED
      BY <1>1, <2>1, <2>2, <2>4, <2>5, <2>6, PlaceOnly
  <1> QED
    BY <1>2, <1>3

LEMMA PoisonIInv ==
  ASSUME IInv, NEW h \in Connections, Poison(h)
  PROVE  IInv'
  <1>1. InTransaction(h) /\ Release /\ UNCHANGED <<stored, calls, answers>>
    BY DEF Poison
  <1> DEFINE v == ClosedConnection
  <1>2. conn' = [conn EXCEPT ![h] = v] /\ v.pc = "poisoned"
    BY DEF Poison, ClosedConnection, Empty
  <1>3. TypeOK'
    BY <1>1, <1>2, OperationsAssumption DEF IInv, TypeOK, ClosedConnection, Empty, Places, Release, stored
  <1>4. writer' # h /\ \A g \in Connections \ {h} : writer' = g <=> writer = g
    BY <1>1, Released
  <1> HIDE DEF v
  <1> QED
    BY <1>1, <1>2, <1>3, <1>4, PlaceOnly

\* A place that is not free: the call goes on under the lock it holds.
LEMMA ReplayIInv ==
  ASSUME IInv, NEW h \in Connections, Replay(h)
  PROVE  IInv'
  <1> DEFINE v == Now(h, "answer", conn[h].try, operations[conn[h].op])
  <1>1. InTransaction(h) /\ Release /\ conn' = [conn EXCEPT ![h] = v]
        /\ UNCHANGED <<stored, calls, answers>>
    BY DEF Replay, InTransaction, At, Moves
  <1>2. /\ v.pc = "answer" /\ v.op = conn[h].op /\ v.content = conn[h].content
        /\ v.receipt = operations[conn[h].op]
    BY DEF Now
  <1>3. conn[h].op \in OpIds /\ conn[h].content \in Contents
    BY <1>1 DEF IInv, CallNamed, Busy, InTransaction
  <1>4. /\ operations[conn[h].op] # None
        /\ operations[conn[h].op].content = conn[h].content
    BY DEF Replay
  <1>5. TypeOK'
    BY <1>1, <1>3, <1>4, OperationsAssumption DEF IInv, TypeOK, Now, Places, Release, stored
  <1>6. conn'[h] = v /\ \A g \in Connections : g # h => conn'[g] = conn[g]
    BY <1>1 DEF IInv, TypeOK
  <1>7. writer' # h /\ \A g \in Connections \ {h} : writer' = g <=> writer = g
    BY <1>1, Released
  <1> HIDE DEF v
  <1>8. LockHeld'
    BY <1>2, <1>6, <1>7 DEF IInv, LockHeld, InTransaction
  <1>9. CallNamed'
    BY <1>2, <1>3, <1>6 DEF IInv, CallNamed, Busy
  <1>10. SettledFresh'
    BY <1>1, <1>2, <1>6 DEF IInv, SettledFresh, At, stored, Retained, CanReserve, NextCounters, Counted
  <1>11. AnswerStored'
    BY <1>1, <1>2, <1>4, <1>6 DEF IInv, AnswerStored, At, stored
  <1> QED
    BY <1>1, <1>5, <1>8, <1>9, <1>10, <1>11, Unstored DEF IInv

LEMMA SettleIInv ==
  ASSUME IInv, NEW h \in Connections, Settle(h)
  PROVE  IInv'
  <1> DEFINE o == conn[h].op
             c == conn[h].content
             r == [content |-> c, write |-> NextCounters(c).write, intent |-> NextCounters(c).intent]
             v == Now(h, "settled", conn[h].try, r)
  <1>1. conn' = [conn EXCEPT ![h] = v] /\ UNCHANGED <<stored, writer, calls, answers>>
    BY DEF Settle, Moves
  <1>2. v.pc = "settled" /\ v.op = o /\ v.content = c /\ v.receipt = r
    BY DEF Now
  <1>3. o \in OpIds /\ c \in Contents /\ writer = h
    BY DEF IInv, CallNamed, Busy, LockHeld, InTransaction, Settle, At
  <1>4. operations[o] = None /\ ~Retained(o, c) /\ CanReserve(o, c)
    BY DEF Settle
  <1>5. NextCounters(c) \in [write : Nat, intent : Nat]
    BY DEF IInv, TypeOK, NextCounters, Counted
  <1>6. r \in Receipts
    BY <1>3, <1>5 DEF Receipts
  <1>7. TypeOK'
    BY <1>1, <1>3, <1>6, OperationsAssumption DEF IInv, TypeOK, Now, Places, stored
  <1>8. conn'[h] = v /\ \A g \in Connections : g # h => conn'[g] = conn[g]
    BY <1>1 DEF IInv, TypeOK
  <1> HIDE DEF v
  <1>9. LockHeld'
    BY <1>1, <1>2, <1>3, <1>8 DEF IInv, LockHeld, InTransaction
  <1>10. CallNamed'
    BY <1>2, <1>3, <1>8 DEF IInv, CallNamed, Busy
  <1>11. SettledFresh'
    BY <1>1, <1>2, <1>4, <1>8 DEF IInv, SettledFresh, At, stored, Retained, CanReserve, NextCounters, Counted
  <1>12. AnswerStored'
    BY <1>1, <1>2, <1>8 DEF IInv, AnswerStored, At, stored
  <1> QED
    BY <1>1, <1>7, <1>9, <1>10, <1>11, <1>12, Unstored DEF IInv

\* A commit, whose call v goes on to answer or has failed unknowingly.
LEMMA CommittedIInv ==
  ASSUME IInv, NEW h \in Connections, At(h, "settled"), Written(h), Release,
         UNCHANGED <<calls, answers>>, NEW v, conn' = [conn EXCEPT ![h] = v],
         \/ v = Now(h, "answer", conn[h].try, conn[h].receipt)
         \/ v = FreeConnection
  PROVE  IInv'
  <1> DEFINE o == conn[h].op
             c == conn[h].content
             r == conn[h].receipt
  <1>1. /\ o \in OpIds /\ c \in Contents /\ r \in Receipts
        /\ r # None /\ r.content = c
        /\ operations[o] = None
        /\ operations' = [operations EXCEPT ![o] = r]
        /\ operations' \in [OpIds -> Receipts \cup {None}]
        /\ reserved' \in [OpIds -> BOOLEAN] /\ rows' \in Seq(OpIds)
        /\ counters' \in [write : Nat, intent : Nat]
        /\ PerformedOnce' /\ ReservedForCompletion'
    BY CommitWrites
  <1>2. operations'[o] = r /\ \A p \in OpIds : p # o => operations'[p] = operations[p]
    BY <1>1 DEF IInv, TypeOK
  <1>3. \/ v.pc = "free"
        \/ v.pc = "answer" /\ v.op = o /\ v.content = c /\ v.receipt = r
    BY DEF Now, FreeConnection, Empty
  <1>4. TypeOK'
    BY <1>1, OperationsAssumption DEF IInv, TypeOK, Now, FreeConnection, Empty, Places, Release
  <1>5. conn'[h] = v /\ \A g \in Connections : g # h => conn'[g] = conn[g]
    BY DEF IInv, TypeOK
  <1>6. writer = h /\ writer' = None
    BY DEF IInv, LockHeld, InTransaction, At, Release
  <1>7. \A g \in Connections : g # h => ~InTransaction(g)
    BY <1>6 DEF IInv, LockHeld
  <1>8. LockHeld'
    BY <1>3, <1>5, <1>6, <1>7, OperationsAssumption DEF LockHeld, InTransaction
  <1>9. CallNamed'
    BY <1>1, <1>3, <1>5 DEF IInv, CallNamed, Busy
  <1>10. SettledFresh'
    BY <1>3, <1>5, <1>7 DEF SettledFresh, At, InTransaction
  <1>11. AnswerStored'
    <2> SUFFICES ASSUME NEW g \in Connections, conn'[g].pc = "answer"
                 PROVE  /\ conn'[g].receipt # None
                        /\ operations'[conn'[g].op] = conn'[g].receipt
                        /\ conn'[g].receipt.content = conn'[g].content
      BY DEF AnswerStored, At
    <2>1. CASE g = h
      BY <1>1, <1>2, <1>3, <1>5, <2>1
    <2>2. CASE g # h
      <3>1. /\ conn[g].receipt # None /\ operations[conn[g].op] = conn[g].receipt
            /\ conn[g].receipt.content = conn[g].content /\ conn[g].op \in OpIds
        BY <1>5, <2>2 DEF IInv, AnswerStored, CallNamed, Busy, At
      <3> QED
        BY <1>1, <1>2, <1>5, <2>2, <3>1
    <2> QED
      BY <2>1, <2>2
  <1>12. AnswersStored' /\ AnswersAgree'
    <2> SUFFICES ASSUME NEW a \in answers
                 PROVE  /\ a.receipt # None /\ a.content = a.receipt.content
                        /\ operations'[a.op] = a.receipt
      BY DEF AnswersStored, AnswersAgree
    <2>1. a.op \in OpIds /\ a.receipt # None /\ a.content = a.receipt.content
          /\ operations[a.op] = a.receipt
      BY DEF IInv, TypeOK, AnswersStored, AnswersAgree
    <2> QED
      BY <1>1, <1>2, <2>1
  <1> QED
    BY <1>1, <1>4, <1>8, <1>9, <1>10, <1>11, <1>12 DEF IInv

LEMMA CommitIInv ==
  ASSUME IInv, NEW h \in Connections, Commit(h) \/ CommitUnreported(h)
  PROVE  IInv'
  <1>1. CASE Commit(h)
    BY <1>1, CommittedIInv DEF Commit, Moves
  <1>2. CASE CommitUnreported(h)
    BY <1>2, CommittedIInv DEF CommitUnreported, EndCall
  <1> QED
    BY <1>1, <1>2

LEMMA ReturnIInv ==
  ASSUME IInv, NEW h \in Connections, Return(h)
  PROVE  IInv'
  <1> DEFINE a == [op |-> conn[h].op, content |-> conn[h].content, receipt |-> conn[h].receipt]
  <1>1. /\ answers' = answers \cup {a} /\ UNCHANGED <<stored, writer, calls>>
        /\ conn' = [conn EXCEPT ![h] = FreeConnection]
    BY DEF Return, EndCall
  <1>2. /\ conn[h].receipt # None /\ operations[conn[h].op] = conn[h].receipt
        /\ conn[h].receipt.content = conn[h].content
        /\ conn[h].op \in OpIds /\ conn[h].content \in Contents
    BY DEF IInv, AnswerStored, CallNamed, Busy, Return, At
  <1>3. a \in [op : OpIds, content : Contents, receipt : Receipts]
    BY <1>2 DEF IInv, TypeOK
  <1>4. TypeOK'
    BY <1>1, <1>3, OperationsAssumption DEF IInv, TypeOK, FreeConnection, Empty, Places, stored
  <1>5. /\ conn'[h].pc = "free" /\ conn[h].pc = "answer"
        /\ \A g \in Connections : g # h => conn'[g] = conn[g]
    BY <1>1 DEF IInv, TypeOK, FreeConnection, Empty, Return, At
  <1>6. LockHeld'
    BY <1>1, <1>5 DEF IInv, LockHeld, InTransaction
  <1>7. CallNamed'
    BY <1>5 DEF IInv, CallNamed, Busy
  <1>8. SettledFresh'
    BY <1>1, <1>5 DEF IInv, SettledFresh, At, stored, Retained, CanReserve, NextCounters, Counted
  <1>9. AnswerStored'
    BY <1>1, <1>5 DEF IInv, AnswerStored, At, stored
  <1>10. AnswersStored' /\ AnswersAgree'
    BY <1>1, <1>2 DEF IInv, AnswersStored, AnswersAgree, stored
  <1>11. PerformedOnce' /\ ReservedForCompletion'
    BY <1>1 DEF IInv, PerformedOnce, ReservedForCompletion, stored
  <1> QED
    BY <1>4, <1>6, <1>7, <1>8, <1>9, <1>10, <1>11 DEF IInv

LEMMA NextIInv == IInv /\ [Next]_vars => IInv'
  <1> SUFFICES ASSUME IInv, [Next]_vars PROVE IInv'
    OBVIOUS
  <1>1. ASSUME NEW h \in Connections, NEW o \in OpIds, NEW c \in Contents, Call(h, o, c)
        PROVE  IInv'
    BY <1>1, CallIInv
  <1>2. ASSUME NEW h \in Connections, Step(h)
        PROVE  IInv'
    BY <1>2, AdmitIInv, ReplayIInv, SettleIInv, CommitIInv, ReturnIInv, RefuseIInv,
       RetryIInv, FailIInv, PoisonIInv DEF Step
  <1>3. ASSUME NEW h \in Connections, Crash(h)
        PROVE  IInv'
    BY <1>3, FailIInv
  <1>4. CASE UNCHANGED vars
    <2>1. UNCHANGED <<operations, reserved, rows, counters, writer, conn, calls, answers>>
      BY <1>4 DEF vars
    <2>2. TypeOK'
      BY <2>1 DEF IInv, TypeOK
    <2>3. LockHeld' /\ CallNamed' /\ AnswerStored'
      BY <2>1 DEF IInv, LockHeld, CallNamed, AnswerStored, InTransaction, Busy, At
    <2>4. SettledFresh'
      BY <2>1 DEF IInv, SettledFresh, At, Retained, CanReserve, NextCounters, Counted
    <2> QED
      BY <2>1, <2>2, <2>3, <2>4, Unstored DEF IInv, stored
  <1> QED
    BY <1>1, <1>2, <1>3, <1>4 DEF Next

\* Connections, tables and answers keep their shape.
THEOREM TypeCorrect == Spec => []TypeOK
  <1>1. IInv => TypeOK
    BY DEF IInv
  <1> QED
    BY <1>1, InitIInv, NextIInv, PTL DEF Spec

\* However often an operation is called, by whomever and after whatever
\* failure, its rows are written once, and exactly when its receipt is.
THEOREM PerformedOnceHolds == Spec => []PerformedOnce
  <1>1. IInv => PerformedOnce
    BY DEF IInv
  <1> QED
    BY <1>1, InitIInv, NextIInv, PTL DEF Spec

\* Whoever is told the result of an operation had asked for that operation,
\* and is told what everyone else is told.
THEOREM AnswersAgreeHolds == Spec => []AnswersAgree
  <1>1. IInv => AnswersAgree
    BY DEF IInv
  <1> QED
    BY <1>1, InitIInv, NextIInv, PTL DEF Spec

\* An ID retained for a pending completion is never taken by anything else.
THEOREM ReservedForCompletionHolds == Spec => []ReservedForCompletion
  <1>1. IInv => ReservedForCompletion
    BY DEF IInv
  <1> QED
    BY <1>1, InitIInv, NextIInv, PTL DEF Spec

-----------------------------------------------------------------------------
\* The refinement: a commit performs the operation, an answer learns of it,
\* and every other step leaves the log alone.
LEMMA InitLog == Init => Log!LogInit
  BY DEF Init, Log!LogInit

LEMMA CommitPerforms ==
  ASSUME IInv, NEW h \in Connections, Commit(h) \/ CommitUnreported(h)
  PROVE  Log!LogNext
  <1> DEFINE o == conn[h].op
             c == conn[h].content
  <1>1. At(h, "settled") /\ Written(h) /\ UNCHANGED answers
    BY DEF Commit, CommitUnreported
  <1>2. o \in OpIds /\ c \in Contents
    BY <1>1 DEF IInv, CallNamed, Busy, At
  <1>3. /\ operations[o] = None
        /\ conn[h].receipt = [content |-> c, write |-> NextCounters(c).write,
                              intent |-> NextCounters(c).intent]
    BY <1>1 DEF IInv, SettledFresh
  <1>4. Log!Counted(c) = Counted(c)
    BY DEF Log!Counted, Counted
  <1>5. counters' = [write |-> counters.write + 1, intent |-> counters.intent + Log!Counted(c)]
    BY <1>1, <1>4 DEF Written, NextCounters
  <1>6. operations' = [operations EXCEPT ![o] =
                         [content |-> c, write |-> counters.write + 1,
                          intent |-> counters.intent + Log!Counted(c)]]
    BY <1>1, <1>3, <1>4 DEF Written, NextCounters
  <1>7. Log!Perform(o, c)
    BY <1>1, <1>3, <1>5, <1>6 DEF Log!Perform
  <1> QED
    BY <1>2, <1>7 DEF Log!LogNext

LEMMA ReturnLearns ==
  ASSUME IInv, NEW h \in Connections, Return(h)
  PROVE  Log!LogNext
  <1> DEFINE o == conn[h].op
  <1>1. /\ conn[h].receipt # None /\ operations[o] = conn[h].receipt
        /\ conn[h].receipt.content = conn[h].content /\ o \in OpIds
    BY DEF IInv, AnswerStored, CallNamed, Busy, Return, At
  <1>2. answers' = answers \cup {[op |-> o, content |-> operations[o].content,
                                  receipt |-> operations[o]]}
    BY <1>1 DEF Return
  <1>3. UNCHANGED <<operations, counters>>
    BY DEF Return, stored
  <1> QED
    BY <1>1, <1>2, <1>3 DEF Log!LogNext, Log!Learn

LEMMA NextLog == IInv /\ [Next]_vars => [Log!LogNext]_Log!logVars
  <1> SUFFICES ASSUME IInv, [Next]_vars PROVE Log!LogNext \/ UNCHANGED Log!logVars
    OBVIOUS
  <1> USE DEF stored, Log!logVars
  <1>1. ASSUME NEW h \in Connections, NEW o \in OpIds, NEW c \in Contents, Call(h, o, c)
        PROVE  UNCHANGED Log!logVars
    BY <1>1 DEF Call
  <1>2. ASSUME NEW h \in Connections, Step(h)
        PROVE  Log!LogNext \/ UNCHANGED Log!logVars
    <2>1. CASE Commit(h) \/ CommitUnreported(h)
      BY <2>1, CommitPerforms
    <2>2. CASE Return(h)
      BY <2>2, ReturnLearns
    <2>3. CASE Admit(h) \/ Replay(h) \/ Settle(h)
      BY <2>3 DEF Admit, Replay, Settle
    <2>4. CASE Refuse(h) \/ Retry(h) \/ Fail(h) \/ Poison(h)
      BY <2>4 DEF Refuse, Retry, Fail, Poison
    <2> QED
      BY <1>2, <2>1, <2>2, <2>3, <2>4 DEF Step
  <1>3. ASSUME NEW h \in Connections, Crash(h)
        PROVE  UNCHANGED Log!logVars
    BY <1>3 DEF Crash
  <1>4. CASE UNCHANGED vars
    BY <1>4 DEF vars
  <1> QED
    BY <1>1, <1>2, <1>3, <1>4 DEF Next

\* Transactions over one write lock, with their retries, lost answers and
\* crashes, are the abstract log of operations.
THEOREM LogImplemented == Spec => ImplementsLog
  <1> QED
    BY InitIInv, NextIInv, InitLog, NextLog, PTL DEF Spec, ImplementsLog, Log!LogSpec
=============================================================================
