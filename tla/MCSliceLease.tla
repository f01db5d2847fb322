---------------------------- MODULE MCSliceLease ----------------------------
(* Instances of SliceLease: who runs on which host.                        *)
EXTENDS SliceLease, TLC

CONSTANTS r1, r2, r3

OneHost == [r \in Run |-> "h"]
TwoHosts == [r \in Run |-> IF r = r1 THEN "remote" ELSE "h"]

\* Runs that differ in nothing: same host, and all killable or none.
SameRuns == Permutations({r1, r2, r3})
SameSurvivors == Permutations({r2, r3})
=============================================================================
