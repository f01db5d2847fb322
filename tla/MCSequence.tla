----------------------------- MODULE MCSequence -----------------------------
(* An instance of Sequence: two runs, one of them also for a direct launch. *)
EXTENDS Sequence

CONSTANTS r1, r2
=============================================================================
