----------------------------- MODULE Dashboard ------------------------------
(***************************************************************************)
(* scripts/harness_stats.py over the receipts directory while a rollup     *)
(* works in it: it reads the index, then lists the loose receipts, then    *)
(* merges the two, then has the chain verified in the working tree and at  *)
(* HEAD, then runs the co-indexing gate.  It takes no lease.               *)
(***************************************************************************)
EXTENDS Rollup

CONSTANT Unreadable   \* the row of an index line that does not parse

VARIABLE report

dashVars == <<rollVars, report>>

Blank == [pc |-> "off", rows |-> <<>>, loose |-> {}, before |-> {},
          tree |-> "none", anchored |-> "none",
          agreement |-> "none", mishap |-> FALSE]

DashInit == RollInit /\ report = Blank

-----------------------------------------------------------------------------
\* load_index: a row for each line, an unreadable one for a line that is torn.
RowsOf(file) ==
  [i \in DOMAIN Lines(file) |->
     IF Parses(Lines(file)[i]) THEN Lines(file)[i][1] ELSE Unreadable]

Named(rows) == {rows[i].name : i \in {j \in DOMAIN rows : rows[j] # Unreadable}}

\* collect: the index is read first, the loose receipts listed after it.
LoadIndex ==
  /\ report.pc = "off" /\ acts < MaxActs
  /\ report' = [Blank EXCEPT !.pc = "list", !.rows = RowsOf(index),
                             !.before = Loose \cup (Archive \cap Named(RowsOf(index)))]
  /\ acts' = acts + 1
  /\ UNCHANGED <<receipt, chain, index, head, roll, mishap>>

\* list_loose_receipts and merge_runs: the index's rows, and a row for each
\* loose receipt the index does not name.
ListLoose ==
  /\ report.pc = "list"
  /\ report' = [report EXCEPT !.pc = "merged", !.loose = Loose]
  /\ UNCHANGED rollVars

\* How many rows of the merged table are the run of receipt f.  Mutant: the
\* loose receipts are added without the join.
TailRow_NoJoin(f) == IF f \in report.loose THEN 1 ELSE 0
TailRow(f) == IF f \in report.loose \ Named(report.rows) THEN 1 ELSE 0

IndexRows(f) == Cardinality({i \in DOMAIN report.rows :
                  report.rows[i] # Unreadable /\ report.rows[i].name = f})
Shown(f) == IndexRows(f) + TailRow(f)

\* chain_status: the working tree's chain, then the blob at HEAD.  The table is
\* made by then, and nothing below reads it.
Verdict(file) == IF ~file.there THEN "none"
                 ELSE IF Verifies(file) THEN "VALID" ELSE "INVALID"

ChainStatus ==
  /\ report.pc = "merged"
  /\ report' = [Blank EXCEPT !.pc = "gate",
                  !.tree = Verdict(chain),
                  !.anchored = IF chain.there THEN Verdict(head.chain) ELSE "none"]
  /\ UNCHANGED rollVars

\* co_index_status
CoIndexStatus ==
  /\ report.pc = "gate"
  /\ report' = [report EXCEPT !.pc = "done",
       !.agreement = IF ~(chain.there /\ index.there) THEN "none"
                     ELSE IF Gate(index, chain) THEN "VALID" ELSE "DRIFT",
       !.mishap = mishap \/ ~AtRest]
  /\ UNCHANGED rollVars

\* It is written out, and the process is gone.
WriteOut ==
  /\ report.pc = "done"
  /\ report' = Blank
  /\ UNCHANGED rollVars

DashStep ==
  LoadIndex \/ ListLoose \/ ChainStatus \/ CoIndexStatus \/ WriteOut

DashNext == DashStep \/ (RollNext /\ UNCHANGED report)

DashSpec == DashInit /\ [][DashNext]_dashVars

\* Mutant: a chain without an anchor at HEAD counts as broken.
Rail_NoAnchor ==
  IF report.tree = "none" THEN "grey"
  ELSE IF report.tree = "INVALID" \/ report.anchored # "VALID" THEN "hot"
  ELSE IF report.agreement = "DRIFT" THEN "amber"
  ELSE "green"

\* _rail, the chain's cell.
Rail ==
  IF report.tree = "none" THEN "grey"
  ELSE IF "INVALID" \in {report.tree, report.anchored} THEN "hot"
  ELSE IF report.agreement = "DRIFT" THEN "amber"
  ELSE "green"

-----------------------------------------------------------------------------
\* merge_runs promises the "union of receipts-index.jsonl and loose receipts"
\* joined by source_filename (harness_stats.py:145-148): a run in one of them when
\* the report begins is shown, unless a rollup moves it meanwhile, and it is
\* shown twice only where a mishap made the index name it twice.
UnionIsJoined ==
  report.pc = "merged" =>
    /\ \A f \in report.before : Shown(f) = 0 => f \in Archive
    /\ \A f \in Receipt : Shown(f) > 1 => IndexRows(f) = Shown(f) /\ mishap

\* A red or amber chain cell means that something was cut short or stopped, or
\* that a rollup was at work when the gate ran.
AlarmIsEarned ==
  report.pc = "done" /\ Rail \in {"hot", "amber"} => report.mishap
=============================================================================
