--------------------------- MODULE MCAnchorLedger ---------------------------
(* Instances of AnchorLedger.                                              *)
EXTENDS AnchorLedger, TLC

CONSTANTS r1, r2, r3

SameRuns == Permutations(Run)
=============================================================================
