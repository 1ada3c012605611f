-------------------------- MODULE MCKnowledgeWorker --------------------------
(***************************************************************************)
(* Small instances of KnowledgeWorker for TLC.                             *)
(***************************************************************************)
EXTENDS KnowledgeWorker, TLC

MCOneUnit == [j \in Jobs |-> 1]
MCTwoUnits == [j \in Jobs |-> 2]
\* Job 1 has two units to interpret, any other nothing.
MCMixedUnits == [j \in Jobs |-> IF j = 1 THEN 2 ELSE 0]

OwnerSymmetry == Permutations(Owners)
=============================================================================
