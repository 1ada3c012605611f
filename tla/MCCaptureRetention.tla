------------------------ MODULE MCCaptureRetention ------------------------
(* CaptureRetention on small sets of captures and processes.               *)
EXTENDS CaptureRetention, TLC

CONSTANTS c1, c2, a1, a2, g1, g2

MCCaptures == {c1, c2}
OneCapture == {c1}
MCAgents == {a1, a2}
OneAgent == {a1}
MCCleaners == {g1, g2}
OneCleaner == {g1}
Symmetry == Permutations(MCAgents) \cup Permutations(MCCleaners)
============================================================================
