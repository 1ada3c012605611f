-------------------------- MODULE MCProcessingQueue --------------------------
(***************************************************************************)
(* Small instances of ProcessingQueue for TLC.                             *)
(***************************************************************************)
EXTENDS ProcessingQueue, TLC

MCOneUnit == [j \in Jobs |-> 1]
MCTwoUnits == [j \in Jobs |-> 2]
\* Job 1 has one unit to interpret, any other nothing.
MCMixedUnits == [j \in Jobs |-> IF j = 1 THEN 1 ELSE 0]

OwnerSymmetry == Permutations(Owners)

\* Every job was admitted at once, before anything else happened.
AdmittedInit ==
  /\ now = 0 /\ paused = FALSE
  /\ lease = [generation |-> 0, owner |-> None, acquiredAt |-> None, expiresAt |-> None]
  /\ jobs = [j \in Jobs |-> [AbsentJob EXCEPT !.state = "pending"]]
  /\ attempts = [j \in Jobs |-> <<>>]

AdmittedSpec == AdmittedInit /\ [][Next]_vars

\* Once an attempt was started the real time stands still and clocks that
\* disagree stand for its passing: one reads 1 after another read 0.
TimePassesBefore == now > 0 => Rows = {}
=============================================================================
