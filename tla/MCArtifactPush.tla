--------------------------- MODULE MCArtifactPush ---------------------------
(***************************************************************************)
(* Instances of ArtifactPush for TLC.                                      *)
(***************************************************************************)
EXTENDS ArtifactPush, TLC

CONSTANTS a1, a2, p1, p2, b1, b2

MCPlanBranch == [a \in Artifacts |-> b1]
Symmetric == Permutations({p1, p2})
=============================================================================
