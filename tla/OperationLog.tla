---------------------------- MODULE OperationLog ----------------------------
(***************************************************************************)
(* What runProjectOperation (packages/storage/src/history/database/        *)
(* transactions.ts) promises its callers: an operation, named by its       *)
(* original ID, is performed at most once, and whoever learns its result   *)
(* learns the one it was performed with, however often it is asked for.    *)
(***************************************************************************)
EXTENDS Naturals

CONSTANTS
  OpIds, Contents,  \* operation IDs, and what an operation says and is about
  Intents,          \* the contents that change what people intend
  None              \* no receipt

VARIABLES
  done,     \* the receipt of each operation that was performed
  writes,   \* how many were performed, and how many of them changed intent
  learned   \* the receipts callers were given, each with what they had asked for

logVars == <<done, writes, learned>>

Counted(c) == IF c \in Intents THEN 1 ELSE 0

LogInit ==
  /\ done = [o \in OpIds |-> None]
  /\ writes = [write |-> 1, intent |-> 0]
  /\ learned = {}

Perform(o, c) ==
  /\ done[o] = None
  /\ writes' = [write |-> writes.write + 1, intent |-> writes.intent + Counted(c)]
  /\ done' = [done EXCEPT ![o] = [content |-> c, write |-> writes.write + 1,
                                intent |-> writes.intent + Counted(c)]]
  /\ UNCHANGED learned

Learn(o) ==
  /\ done[o] # None
  /\ learned' = learned \cup {[op |-> o, content |-> done[o].content, receipt |-> done[o]]}
  /\ UNCHANGED <<done, writes>>

LogNext == \E o \in OpIds : Learn(o) \/ \E c \in Contents : Perform(o, c)

LogSpec == LogInit /\ [][LogNext]_logVars
=============================================================================
