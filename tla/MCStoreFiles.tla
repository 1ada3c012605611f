---------------------------- MODULE MCStoreFiles ----------------------------
(***************************************************************************)
(* Instances of StoreFiles for TLC.                                        *)
(***************************************************************************)
EXTENDS StoreFiles, TLC

CONSTANTS s1, s2, u1, u2, r1, r2

\* s1 is of the build before the upgrade, s2 of the current one.
MCBuild == [s \in Sessions |-> IF s = s1 THEN "released" ELSE "current"]
\* Nothing is claimed once two that replace or upgrade the file have crossed
\* (StoreFiles.crossed): TLC need not go further.
Uncrossed == ~crossed
Symmetric == Permutations({u1, u2}) \cup Permutations({r1, r2})
=============================================================================
