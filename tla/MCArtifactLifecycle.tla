------------------------ MODULE MCArtifactLifecycle ------------------------
(***************************************************************************)
(* Instances of ArtifactLifecycle for TLC.                                 *)
(***************************************************************************)
EXTENDS ArtifactLifecycle, TLC

CONSTANTS a1, a2, w1, w2

Step(text, rubric) == [text |-> text, rubric |-> rubric]
Second == "s2" :> Step("x", "c3" :> "x")

\* Two steps; then the first with a criterion less, with one rewritten, with a
\* new text and one more, and not at all.
MCPlans ==
  {"s1" :> Step("x", r) @@ Second : r \in
     {"c1" :> "x" @@ "c2" :> "x", "c1" :> "x", "c1" :> "y" @@ "c2" :> "x"}}
  \cup {"s1" :> Step("y", "c1" :> "x" @@ "c2" :> "x" @@ "c4" :> "y") @@ Second, Second}
MCFirst == {"s1" :> Step("x", "c1" :> "x" @@ "c2" :> "x") @@ Second}

\* One step that may be given a second criterion, and have it taken away.
MCGrowingFirst == {"s1" :> Step("x", "c1" :> "x")}
MCGrowing == MCGrowingFirst \cup {"s1" :> Step("x", "c1" :> "x" @@ "c2" :> "x")}

MCSymmetry == Permutations(Agents) \cup Permutations(Worktrees)
=============================================================================
