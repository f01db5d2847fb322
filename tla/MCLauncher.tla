----------------------------- MODULE MCLauncher -----------------------------
(* Instances of Launcher.                                                  *)
EXTENDS Launcher, TLC

CONSTANTS r1, r2, r3

SameRuns == Permutations(Run)
=============================================================================
