---------------------------- MODULE LedgerPromise ----------------------------
(***************************************************************************)
(* What scripts/conformance_anchor.sh promises the launcher: an append-    *)
(* only ledger that takes each run's declaration once and then its stream  *)
(* once, names the predecessor it was appended to in every entry, and      *)
(* answers with the entry that carries the depositor's own digest.  A      *)
(* deposit is one atomic step here; AnchorLedger has the script's steps.   *)
(***************************************************************************)
EXTENDS Naturals, Sequences

CONSTANTS
  Run,        \* the launcher runs that share one ledger repository
  NoEntry     \* no entry id was answered

ASSUME NoEntryAssumption == NoEntry \notin Nat

VARIABLES
  chain,      \* refs/observations/ledger, oldest entry first
  entry       \* the entry answered for each deposit, as a place in the chain

ledgerVars == <<chain, entry>>

Role == {"declaration", "stream"}

\* An entry's statement: whose digest it anchors and where it was appended.
\* A run has one digest per role, so run and role stand for the manifest.
Statement == [run : Run, role : Role, pred : Nat]

StatementOf(r, role, head) == [run |-> r, role |-> role, pred |-> Len(head)]

LedgerInit ==
  /\ chain = <<>>
  /\ entry = [r \in Run |-> [role \in Role |-> NoEntry]]

\* A run deposits its declaration when it starts, its stream when it closes.
MayDeposit(r, role) ==
  /\ entry[r][role] = NoEntry
  /\ \A i \in DOMAIN chain : ~(chain[i].run = r /\ chain[i].role = role)
  /\ role = "stream" => entry[r]["declaration"] # NoEntry

Deposit(r, role) ==
  /\ MayDeposit(r, role)
  /\ chain' = Append(chain, StatementOf(r, role, chain))
  /\ entry' = [entry EXCEPT ![r][role] = Len(chain) + 1]

\* The depositor died before it could be told.
DepositUnheard(r, role) ==
  /\ MayDeposit(r, role)
  /\ chain' = Append(chain, StatementOf(r, role, chain))
  /\ UNCHANGED entry

LedgerNext == \E r \in Run, role \in Role : Deposit(r, role) \/ DepositUnheard(r, role)

LedgerSpec == LedgerInit /\ [][LedgerNext]_ledgerVars
=============================================================================
