----------------------------- MODULE RunRecords -----------------------------
(***************************************************************************)
(* What is written of a run once its executor has closed: the tail of a    *)
(* launch in scripts/launch_worker.sh (690-903), the receipt of            *)
(* write_receipt.py, the Statement of write_statement.py, and the          *)
(* publication boundary, statement_lint.py, that reads the Statement.      *)
(***************************************************************************)
EXTENDS Naturals, Sequences, FiniteSets

CONSTANTS
  Criterion,    \* the slice's declared criteria
  NoRecord      \* a file that is not there, or does not parse

ASSUME RecordsAssumption == IsFiniteSet(Criterion) /\ Criterion # {}

VARIABLE run    \* the launch, what it measured, and its two files

-----------------------------------------------------------------------------
\* measure_criteria: each criterion's verdict, or none when verity gave no
\* report.
ClaimVerdict == {"PASS", "FAIL", "ABSENT"}
Overall(claims) ==
  IF \E k \in Criterion : claims[k] = "ABSENT" THEN "STOP"
  ELSE IF \E k \in Criterion : claims[k] = "FAIL" THEN "FAIL" ELSE "PASS"

Measured(claims) == [verdict |-> Overall(claims), claims |-> claims]
NoClaims == [k \in {} |-> "PASS"]
NoVerdict == [verdict |-> "NO-VERDICT", claims |-> NoClaims]
Measurements == {NoVerdict} \cup {Measured(f) : f \in [Criterion -> ClaimVerdict]}

\* The manifest's verifier_id: a URI, one that holds a path of this machine,
\* some other word, or none.
VerifierId == {"uri", "file uri", "word", "none"}

\* What a launch knows from before its executor, the baseline and the
\* verifier_id, is chosen at the step that reads it first.
RecordsInit ==
  run = [pc |-> "running", exit |-> 0, baseline |-> NoVerdict, gate |-> NoVerdict,
         verifierId |-> "none", output |-> NoRecord, digest |-> FALSE,
         claimsDigest |-> FALSE, receipt |-> NoRecord, statement |-> NoRecord, code |-> 0]

-----------------------------------------------------------------------------
\* The executor is gone: its exit status and its result object, which may be
\* missing or not parse.
Closed(exit, result) ==
  /\ run.pc = "running"
  /\ \E output \in {result, NoRecord} :
       run' = [run EXCEPT !.pc = "digest", !.exit = exit, !.output = output]

\* OUT_SHA256; empty is a decided state: the transcript cannot be read.
TakeDigest ==
  /\ run.pc = "digest"
  /\ \E readable \in BOOLEAN :
       /\ run.output # NoRecord => readable
       /\ run' = [run EXCEPT !.pc = "gate", !.digest = readable]

\* Only a child that exited 0 is gated, and only then is the digest of the
\* claims manifest taken, if it can be read.
TakeGate ==
  /\ run.pc = "gate"
  /\ \E t0 \in Measurements \ {NoVerdict} :
       IF run.exit # 0 THEN run' = [run EXCEPT !.pc = "receipt", !.baseline = t0]
       ELSE \E t1 \in Measurements, readable \in BOOLEAN :
              run' = [run EXCEPT !.pc = "receipt", !.baseline = t0, !.gate = t1,
                                 !.claimsDigest = readable]

\* compose: the delta is what moved from FAIL or ABSENT to PASS.
Moved(t0, t1) ==
  {k \in DOMAIN t0.claims : t0.claims[k] \in {"FAIL", "ABSENT"}
                             /\ k \in DOMAIN t1.claims /\ t1.claims[k] = "PASS"}
Lost(t0, t1) ==
  {k \in DOMAIN t0.claims : t0.claims[k] = "PASS"
                             /\ ~(k \in DOMAIN t1.claims /\ t1.claims[k] = "PASS")}

GateSummary(exit, gate) == IF exit # 0 THEN "not-run" ELSE gate.verdict

HasVerdict(verdict) == verdict \in {"PASS", "FAIL", "STOP"}

Receipt(exit, output, t0, t1) ==
  LET verdict == GateSummary(exit, t1)
      delta == IF HasVerdict(verdict) THEN Moved(t0, t1) ELSE {}
  IN [verdict |-> verdict,
      delta |-> delta,
      regressions |-> IF HasVerdict(verdict) THEN Lost(t0, t1) ELSE {},
      contribution |-> IF ~HasVerdict(verdict) THEN "NOT_EVALUATED"
                       ELSE IF delta # {} THEN "CONTRIBUTED" ELSE "NO_OP",
      \* an output that does not parse has no permission_denials
      refusals |-> IF output = NoRecord THEN [count |-> 0, tools |-> {}]
                   ELSE [count |-> Len(output), tools |-> {output[i] : i \in DOMAIN output}]]

WriteReceipt ==
  /\ run.pc = "receipt"
  /\ run' = [run EXCEPT !.pc = "statement",
       !.receipt = Receipt(run.exit, run.output, run.baseline, run.gate)]

-----------------------------------------------------------------------------
\* _properties: literals, chosen by the receipt.  Mutant: one for each
\* contribution.
Properties_Each(receipt) ==
  {"HARNESS_MODE_B", "HARNESS_CONSTITUTION_PINNED", "HARNESS_REFUSALS_RECORDED"}
    \cup (IF receipt.verdict = "PASS" THEN {"HARNESS_GATE_PASS"} ELSE {})
    \cup {CASE receipt.contribution = "CONTRIBUTED" -> "HARNESS_CONTRIBUTION_CONTRIBUTED"
            [] receipt.contribution = "NO_OP" -> "HARNESS_CONTRIBUTION_NO_OP"
            [] OTHER -> "HARNESS_CONTRIBUTION_NOT_EVALUATED"}
Properties(receipt) ==
  {"HARNESS_MODE_B", "HARNESS_CONSTITUTION_PINNED", "HARNESS_REFUSALS_RECORDED"}
    \cup (IF receipt.verdict = "PASS" THEN {"HARNESS_GATE_PASS"} ELSE {})
    \cup (IF receipt.contribution = "CONTRIBUTED"
          THEN {"HARNESS_CONTRIBUTION_CONTRIBUTED"} ELSE {})
    \cup (IF receipt.contribution = "NO_OP" THEN {"HARNESS_CONTRIBUTION_NO_OP"} ELSE {})

\* No transcript digest, no Statement; no verifier_id, a refusal; policies
\* hold the claims manifest's digest or nothing.
WriteStatement ==
  /\ run.pc = "statement"
  /\ \E id \in VerifierId :
       run' = [run EXCEPT !.pc = "outcome", !.verifierId = id,
         !.statement = IF ~run.digest \/ id = "none" THEN NoRecord
           ELSE [id |-> id, policies |-> run.claimsDigest,
                 properties |-> Properties(run.receipt)]]

\* "CC failure dominates and is returned as-is. Otherwise the gate decides".
Outcome ==
  /\ run.pc = "outcome"
  /\ run' = [run EXCEPT !.pc = "over",
       !.code = IF run.exit # 0 THEN run.exit
                ELSE IF run.gate.verdict = "PASS" THEN 0 ELSE 1]

KillLaunch ==
  /\ run.pc \notin {"running", "over", "killed"}
  /\ run' = [run EXCEPT !.pc = "killed"]

Records == TakeDigest \/ TakeGate \/ WriteReceipt \/ WriteStatement \/ Outcome \/ KillLaunch

-----------------------------------------------------------------------------
\* check_structure and check_literals, as far as a Statement of this writer
\* can differ from the allowlist.
Vocabulary ==
  {"HARNESS_MODE_B", "HARNESS_CONSTITUTION_PINNED", "HARNESS_GATE_PASS",
   "HARNESS_CONTRIBUTION_CONTRIBUTED", "HARNESS_CONTRIBUTION_NO_OP",
   "HARNESS_REFUSALS_RECORDED"}
StructureHolds(statement) ==
  statement.id \in {"uri", "file uri"} /\ statement.properties \subseteq Vocabulary
LiteralsHold(statement) == statement.id # "file uri"
LintAccepts(statement) == StructureHolds(statement) /\ LiteralsHold(statement)

\* "Two lists in two files" (statement_lint.py:46-49) that must agree: a
\* Statement of this writer's is refused at the boundary only for the
\* verifier_id, whose form the writer leaves unchecked, and says of its run what
\* the launcher's exit and the receipt say.
StatementTellsTheRun ==
  run.statement # NoRecord =>
    LET said == run.statement.properties
        before == {k \in Criterion : run.baseline.claims[k] = "PASS"}
        after == IF run.gate = NoVerdict THEN {} ELSE {k \in Criterion : run.gate.claims[k] = "PASS"}
    IN /\ run.verifierId = "uri" => LintAccepts(run.statement)
       /\ run.pc = "over" => (run.code = 0 <=> "HARNESS_GATE_PASS" \in said)
       /\ "HARNESS_CONTRIBUTION_CONTRIBUTED" \in said <=> ~(after \subseteq before)
       /\ "HARNESS_CONTRIBUTION_NO_OP" \in said <=>
            after \subseteq before /\ run.gate # NoVerdict
       /\ run.statement.policies => run.exit = 0
=============================================================================
