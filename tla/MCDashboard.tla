---------------------------- MODULE MCDashboard -----------------------------
(* An instance of Dashboard and, in it, of Rollup. *)
EXTENDS Dashboard
=============================================================================
