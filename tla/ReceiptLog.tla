----------------------------- MODULE ReceiptLog -----------------------------
(***************************************************************************)
(* What RS-001 promises of the commit it makes: a chain that only grows,   *)
(* and an archive whose every receipt the chain names.  A rollup is one    *)
(* step here; Rollup has its commands.                                     *)
(***************************************************************************)
EXTENDS Naturals, Sequences

VARIABLES
  log,       \* the receipts the committed chain names, oldest first
  archived   \* the receipts the commit has in the archive

logVars == <<log, archived>>

LogInit == log = <<>> /\ archived = {}

Extends(longer, shorter) ==
  /\ Len(shorter) <= Len(longer)
  /\ SubSeq(longer, 1, Len(shorter)) = shorter

\* A receipt may be named again, and none is archived that is not named.
Commit ==
  /\ Extends(log', log)
  /\ archived \subseteq archived'
  /\ archived' \subseteq {log'[i] : i \in DOMAIN log'}

LogSpec == LogInit /\ [][Commit]_logVars
=============================================================================
