---------------------------- MODULE WorkerProofs ----------------------------
(***************************************************************************)
(* What the guard lets through, what a run's receipt and Statement say,    *)
(* and what the reader shows of its session, for any calls, directories,   *)
(* scopes, criteria and lines.  The guard and the records have an          *)
(* invariant each, and every step of Worker leaves one of them alone; they *)
(* meet in the executor's end, which hands the refused calls over to the   *)
(* records, and in the session, whose lines tell of calls that are over.   *)
(***************************************************************************)
EXTENDS Worker, DataInduction

-----------------------------------------------------------------------------
\* A call is a record of six fields, and what a call under way said of itself.
Shaped(x) == x = [pc |-> x.pc, tool |-> x.tool, cwd |-> x.cwd, file |-> x.file,
                  destructive |-> x.destructive, halted |-> x.halted]

LetThrough(c) ==
  /\ ~calls[c].halted
  /\ ~calls[c].destructive
  /\ calls[c].tool = "write" =>
       \E prefix \in Scope : IsPrefix(RepoRoot(calls[c].cwd) \o prefix, calls[c].file)

\* HALT stays where it stands, so a call asked for under it is decided under it.
GuardInv ==
  /\ calls = [c \in Call |-> calls[c]]
  /\ \A c \in Call :
       /\ Shaped(calls[c])
       /\ At(c, "asked") => /\ calls[c].halted => Project \in halts
                            /\ calls[c].destructive => calls[c].tool = "bash"
       /\ At(c, "allowed") => LetThrough(c)

\* Looking upwards from the project one sees the project.
LEMMA ProjectIsClimbed == Project \in Climb(Project)
  <1>1. Project \in Seq(STRING) /\ Project \in Repo
    BY GuardAssumption
  <1>2. Len(Project) \in Nat /\ SubSeq(Project, 1, Len(Project)) = Project
    BY <1>1
  <1>3. Len(Project) \in ReposAbove(Project)
    <2>1. Len(Project) \in 0 .. Len(Project)
      BY <1>2
    <2>2. SubSeq(Project, 1, Len(Project)) \in Repo
      BY <1>1, <1>2
    <2> QED BY <2>1, <2>2, Zenon DEF ReposAbove
  <1>4. ReposAbove(Project) \subseteq 0 .. Len(Project)
    BY DEF ReposAbove
  <1>5. Max(ReposAbove(Project)) \in ReposAbove(Project)
    <2>1. \E x \in ReposAbove(Project) : \A y \in ReposAbove(Project) : x >= y
      BY <1>2, <1>3, <1>4
    <2> QED BY <2>1 DEF Max
  <1>6. Max(ReposAbove(Project)) <= Len(Project) /\ Max(ReposAbove(Project)) \in Nat
    BY <1>2, <1>4, <1>5
  <1>7. Len(Project) \in Max(ReposAbove(Project)) .. Len(Project)
    BY <1>2, <1>6
  <1>8. ReposAbove(Project) # {}
    BY <1>3
  <1> QED BY <1>2, <1>7, <1>8, Zenon DEF Climb

\* A call that is let through was not asked for under HALT.
LEMMA DecisionLets ==
  ASSUME GuardInv, NEW c \in Call, At(c, "asked"), ~Refuses(c)
  PROVE  LetThrough(c)
  <1>1. ~calls[c].halted
    <2>1. SUFFICES ASSUME Project \in halts PROVE FALSE
      BY DEF GuardInv
    <2>2. Project \in Candidates(c)
      BY GuardAssumption DEF Candidates
    <2> QED BY <2>1, <2>2, ProjectIsClimbed DEF Refuses, HaltEngaged
  <1>2. ~calls[c].destructive
    BY DEF GuardInv, Refuses
  <1>3. ASSUME calls[c].tool = "write"
        PROVE  \E prefix \in Scope : IsPrefix(RepoRoot(calls[c].cwd) \o prefix, calls[c].file)
    BY <1>3 DEF Refuses, InScope
  <1> QED BY <1>1, <1>2, <1>3 DEF LetThrough

LEMMA GuardStarts == GuardInit => GuardInv
  <1> SUFFICES ASSUME GuardInit PROVE GuardInv
    OBVIOUS
  <1>1. calls = [c \in Call |-> Known("new", "other")]
    BY DEF GuardInit
  <1>2. \A c \in Call : calls[c] = Known("new", "other")
    BY <1>1
  <1>3. \A c \in Call : Shaped(calls[c]) /\ ~At(c, "asked") /\ ~At(c, "allowed")
    BY <1>2 DEF Known, Shaped, At
  <1> QED BY <1>1, <1>3 DEF GuardInv

LEMMA GuardKept == GuardInv /\ UNCHANGED guardVars => GuardInv'
  BY DEF GuardInv, guardVars, Shaped, At, LetThrough

LEMMA AskKept ==
  ASSUME GuardInv, NEW c \in Call, Ask(c)
  PROVE  GuardInv'
  <1>0. PICK cwd \in Cwd \cup {NoDir} : \E call \in Proposals(cwd) :
          calls' = [calls EXCEPT ![c] =
            [pc |-> "asked", tool |-> call.tool, cwd |-> cwd, file |-> call.file,
             destructive |-> call.destructive, halted |-> Project \in halts]]
    BY DEF Ask
  <1>1. PICK call \in Proposals(cwd) :
          calls' = [calls EXCEPT ![c] =
            [pc |-> "asked", tool |-> call.tool, cwd |-> cwd, file |-> call.file,
             destructive |-> call.destructive, halted |-> Project \in halts]]
    BY <1>0
  <1>2. call.destructive => call.tool = "bash"
    BY DEF Proposals
  <1>3. halts' = halts
    BY DEF Ask
  <1>4. \A d \in Call \ {c} : calls'[d] = calls[d]
    BY <1>1 DEF GuardInv
  <1>5. calls'[c] = [pc |-> "asked", tool |-> call.tool, cwd |-> cwd, file |-> call.file,
                     destructive |-> call.destructive, halted |-> Project \in halts]
    BY <1>1 DEF GuardInv
  <1>6. calls' = [d \in Call |-> calls'[d]]
    BY <1>1 DEF GuardInv
  <1>7. \A d \in Call \ {c} : /\ (LetThrough(d) => LetThrough(d)') /\ (At(d, "asked") <=> At(d, "asked")')
                               /\ (At(d, "allowed") <=> At(d, "allowed")')
    BY <1>4 DEF LetThrough, At
  <1>8. /\ Shaped(calls'[c]) /\ ~At(c, "allowed")'
        /\ calls'[c].halted = (Project \in halts)
        /\ calls'[c].destructive = call.destructive /\ calls'[c].tool = call.tool
    BY <1>5 DEF Shaped, At
  <1> QED BY <1>2, <1>3, <1>4, <1>6, <1>7, <1>8 DEF GuardInv

\* A call that is over, whose record says no more than that.
LEMMA OverKept ==
  ASSUME GuardInv, NEW c \in Call, NEW pc, NEW tool, pc \notin {"asked", "allowed"},
         calls' = [calls EXCEPT ![c] = Known(pc, tool)], halts' = halts
  PROVE  GuardInv'
  <1>1. \A d \in Call \ {c} : calls'[d] = calls[d]
    BY DEF GuardInv
  <1>2. calls'[c] = Known(pc, tool) /\ calls' = [d \in Call |-> calls'[d]]
    BY DEF GuardInv
  <1>3. \A d \in Call \ {c} : /\ (LetThrough(d) => LetThrough(d)') /\ (At(d, "asked") <=> At(d, "asked")')
                               /\ (At(d, "allowed") <=> At(d, "allowed")')
    BY <1>1 DEF LetThrough, At
  <1>4. Shaped(calls'[c]) /\ ~At(c, "asked")' /\ ~At(c, "allowed")'
    BY <1>2 DEF Known, Shaped, At
  <1> QED BY <1>1, <1>2, <1>3, <1>4 DEF GuardInv

LEMMA DecideKept ==
  ASSUME GuardInv, NEW c \in Call, Decide(c)
  PROVE  GuardInv'
  <1>1. CASE Refuses(c)
    <2>1. calls' = [calls EXCEPT ![c] = Known("refused", calls[c].tool)] /\ halts' = halts
      BY <1>1 DEF Decide
    <2>2. "refused" \notin {"asked", "allowed"}
      OBVIOUS
    <2> QED BY <2>1, <2>2, OverKept, Zenon
  <1>2. CASE ~Refuses(c)
    <2>1. LetThrough(c)
      BY <1>2, DecisionLets DEF Decide
    <2>2. calls' = [calls EXCEPT ![c].pc = "allowed"] /\ halts' = halts
      BY <1>2 DEF Decide
    <2>3. \A d \in Call \ {c} : calls'[d] = calls[d]
      BY <2>2 DEF GuardInv
    <2>4. calls'[c] = [calls[c] EXCEPT !.pc = "allowed"] /\ calls' = [d \in Call |-> calls'[d]]
      BY <2>2 DEF GuardInv
    <2>5. calls'[c] = [pc |-> "allowed", tool |-> calls[c].tool, cwd |-> calls[c].cwd,
                       file |-> calls[c].file, destructive |-> calls[c].destructive,
                       halted |-> calls[c].halted]
      BY <2>4 DEF GuardInv, Shaped
    <2>6. LetThrough(c)'
      BY <2>1, <2>5 DEF LetThrough
    <2>7. Shaped(calls'[c]) /\ ~At(c, "asked")'
      BY <2>5 DEF Shaped, At
    <2>8. \A d \in Call \ {c} : (LetThrough(d) => LetThrough(d)') /\ (At(d, "asked") <=> At(d, "asked")')
                                 /\ (At(d, "allowed") <=> At(d, "allowed")')
      BY <2>3 DEF LetThrough, At
    <2> QED BY <2>2, <2>3, <2>4, <2>6, <2>7, <2>8 DEF GuardInv
  <1> QED BY <1>1, <1>2

LEMMA RunKept ==
  ASSUME GuardInv, NEW c \in Call, Run(c)
  PROVE  GuardInv'
  BY OverKept DEF Run

LEMMA HaltKept == GuardInv /\ PlaceHalt => GuardInv'
  BY DEF GuardInv, PlaceHalt, Shaped, At, LetThrough

LEMMA EndKept == GuardInv /\ ExecutorEnds => GuardInv'
  <1> SUFFICES ASSUME GuardInv, ExecutorEnds PROVE GuardInv'
    OBVIOUS
  <1>1. calls' = [c \in Call |-> Known(IF Past(c) THEN calls[c].pc ELSE "cut", calls[c].tool)]
    BY DEF ExecutorEnds
  <1>2. \A c \in Call : ~At(c, "asked")' /\ ~At(c, "allowed")' /\ Shaped(calls'[c])
    BY <1>1 DEF Past, At, Known, Shaped
  <1> QED BY <1>1, <1>2 DEF GuardInv

\* Every step of Worker that touches a call.
LEMMA GuardInvariant == Spec => []GuardInv
  <1>1. Init => GuardInv
    BY GuardStarts DEF Init
  <1>2. GuardInv /\ [Next]_vars => GuardInv'
    <2> SUFFICES ASSUME GuardInv, [Next]_vars PROVE GuardInv'
      OBVIOUS
    <2>1. CASE Executor
      BY <2>1, AskKept, DecideKept, RunKept DEF Executor
    <2>2. CASE PlaceHalt
      BY <2>2, HaltKept
    <2>3. CASE ExecutorEnds
      BY <2>3, EndKept
    <2>4. CASE UNCHANGED guardVars
      BY <2>4, GuardKept
    <2>5. Executor \/ PlaceHalt \/ ExecutorEnds \/ UNCHANGED guardVars
      BY DEF Next, WriteLine, ResumeLine, EndLine, EndLast, vars
    <2> QED BY <2>1, <2>2, <2>3, <2>4, <2>5
  <1> QED BY <1>1, <1>2, PTL DEF Spec

\* "A worker cannot escape the kill-switch by working from a subdirectory": for
\* every tree of directories, HALT and scope, nothing the hook lets through was
\* asked for under the project's HALT or is destructive, and what it lets a write
\* tool write is below a declared prefix of the repository it was asked from: the
\* project's own where that is the nearest above the directory or no directory was
\* said, and otherwise of that other repository or directory only.
THEOREM NothingRunsUnderHalt == Spec => []RanWasAllowed
  <1>1. GuardInv => RanWasAllowed
    BY DEF GuardInv, RanWasAllowed, LetThrough
  <1> QED BY <1>1, GuardInvariant, PTL

-----------------------------------------------------------------------------
\* What a Statement must say of a run whose two gates gave t0 and t1.
Passed(t) == {k \in Criterion : t.claims[k] = "PASS"}
After(t) == IF t = NoVerdict THEN {} ELSE Passed(t)

\* A gate that gave a verdict measured every criterion.
LEMMA MeasuredClaims ==
  ASSUME NEW t \in Measurements \ {NoVerdict}
  PROVE  /\ DOMAIN t.claims = Criterion
         /\ \A k \in Criterion : t.claims[k] \in {"PASS", "FAIL", "ABSENT"}
         /\ HasVerdict(t.verdict)
  <1>1. PICK f \in [Criterion -> ClaimVerdict] : t = Measured(f)
    BY DEF Measurements
  <1>2. t.claims = f /\ t.verdict = Overall(f)
    BY <1>1 DEF Measured
  <1>3. HasVerdict(Overall(f))
    BY DEF Overall, HasVerdict
  <1> QED BY <1>2, <1>3 DEF ClaimVerdict

\* The properties of a Statement, from the two gates of its run.
LEMMA StatementSays ==
  ASSUME NEW exit \in {0, 1}, NEW output,
         NEW t0 \in Measurements \ {NoVerdict}, NEW t1 \in Measurements,
         exit # 0 => t1 = NoVerdict
  PROVE  LET said == Properties(Receipt(exit, output, t0, t1))
         IN /\ said \subseteq Vocabulary
            /\ "HARNESS_GATE_PASS" \in said <=> exit = 0 /\ t1.verdict = "PASS"
            /\ "HARNESS_CONTRIBUTION_CONTRIBUTED" \in said
                 <=> ~(After(t1) \subseteq Passed(t0))
            /\ "HARNESS_CONTRIBUTION_NO_OP" \in said
                 <=> After(t1) \subseteq Passed(t0) /\ t1 # NoVerdict
  <1> DEFINE rec == Receipt(exit, output, t0, t1)
             verdict == GateSummary(exit, t1)
  <1>1. rec.verdict = verdict
    BY DEF Receipt
  <1>2. rec.contribution = IF ~HasVerdict(verdict) THEN "NOT_EVALUATED"
                           ELSE IF Moved(t0, t1) # {} THEN "CONTRIBUTED" ELSE "NO_OP"
    BY DEF Receipt
  <1>3. /\ "HARNESS_GATE_PASS" \in Properties(rec) <=> rec.verdict = "PASS"
        /\ "HARNESS_CONTRIBUTION_CONTRIBUTED" \in Properties(rec)
             <=> rec.contribution = "CONTRIBUTED"
        /\ "HARNESS_CONTRIBUTION_NO_OP" \in Properties(rec) <=> rec.contribution = "NO_OP"
        /\ Properties(rec) \subseteq Vocabulary
    <2> HIDE DEF rec
    <2> QED BY DEF Properties, Vocabulary
  <1>4. CASE t1 = NoVerdict
    <2>1. ~HasVerdict(verdict) /\ verdict # "PASS" /\ t1.verdict # "PASS"
      BY <1>4 DEF GateSummary, NoVerdict, HasVerdict
    <2>2. After(t1) = {}
      BY <1>4 DEF After
    <2> QED BY <1>1, <1>2, <1>3, <1>4, <2>1, <2>2
  <1>5. CASE t1 # NoVerdict
    <2>1. exit = 0 /\ verdict = t1.verdict /\ HasVerdict(verdict)
      BY <1>5, MeasuredClaims DEF GateSummary
    <2>2. Moved(t0, t1) = Passed(t1) \ Passed(t0)
      BY <1>5, MeasuredClaims DEF Moved, Passed
    <2>3. After(t1) = Passed(t1)
      BY <1>5 DEF After
    <2>4. Moved(t0, t1) # {} <=> ~(After(t1) \subseteq Passed(t0))
      BY <2>2, <2>3
    <2> QED BY <1>1, <1>2, <1>3, <1>5, <2>1, <2>4
  <1> QED BY <1>4, <1>5

-----------------------------------------------------------------------------
\* The Statement is this writer's, of the receipt this run's measurements gave.
StatementIsItsRuns ==
  /\ run.baseline \in Measurements \ {NoVerdict}
  /\ run.statement =
       [id |-> run.verifierId, policies |-> run.claimsDigest,
        properties |-> Properties(Receipt(run.exit, run.output, run.baseline, run.gate))]

\* A run's record, what it has not taken yet, and what it has written.
RecordsInv ==
  /\ run = [pc |-> run.pc, exit |-> run.exit, baseline |-> run.baseline, gate |-> run.gate,
            verifierId |-> run.verifierId, output |-> run.output, digest |-> run.digest,
            claimsDigest |-> run.claimsDigest, receipt |-> run.receipt,
            statement |-> run.statement, code |-> run.code]
  /\ run.exit \in {0, 1} /\ run.gate \in Measurements /\ run.claimsDigest \in BOOLEAN
  /\ run.exit # 0 => run.gate = NoVerdict /\ ~run.claimsDigest
  /\ run.pc \in {"running", "digest", "gate"} => run.gate = NoVerdict /\ ~run.claimsDigest
  /\ run.pc \in {"running", "digest", "gate", "receipt", "statement"} => run.statement = NoRecord
  /\ run.pc \in {"receipt", "statement"} => run.baseline \in Measurements \ {NoVerdict}
  /\ run.pc = "statement" =>
       run.receipt = Receipt(run.exit, run.output, run.baseline, run.gate)
  /\ run.statement # NoRecord => StatementIsItsRuns
  /\ run.pc = "over" => run.code = IF run.exit # 0 THEN run.exit
                                   ELSE IF run.gate.verdict = "PASS" THEN 0 ELSE 1

LEMMA RecordsStart == RecordsInit => RecordsInv
  BY DEF RecordsInit, RecordsInv, Measurements

LEMMA CloseKept ==
  ASSUME RecordsInv, NEW exit \in {0, 1}, NEW result, Closed(exit, result)
  PROVE  RecordsInv'
  <1>1. PICK output : run' = [run EXCEPT !.pc = "digest", !.exit = exit, !.output = output]
    BY DEF Closed
  <1> QED BY <1>1 DEF RecordsInv, Closed

LEMMA DigestKept == RecordsInv /\ TakeDigest => RecordsInv'
  BY DEF RecordsInv, TakeDigest

LEMMA GateKept == RecordsInv /\ TakeGate => RecordsInv'
  BY ZenonT(60) DEF RecordsInv, TakeGate

LEMMA ReceiptKept == RecordsInv /\ WriteReceipt => RecordsInv'
  BY DEF RecordsInv, WriteReceipt

LEMMA StatementKept == RecordsInv /\ WriteStatement => RecordsInv'
  <1> SUFFICES ASSUME RecordsInv, WriteStatement PROVE RecordsInv'
    OBVIOUS
  <1>1. PICK id \in VerifierId :
          run' = [run EXCEPT !.pc = "outcome", !.verifierId = id,
            !.statement = IF ~run.digest \/ id = "none" THEN NoRecord
              ELSE [id |-> id, policies |-> run.claimsDigest,
                    properties |-> Properties(run.receipt)]]
    BY DEF WriteStatement
  <1>2. run.pc = "statement"
    BY DEF WriteStatement
  <1>3. /\ run'.pc = "outcome" /\ run'.verifierId = id /\ run'.exit = run.exit
        /\ run'.baseline = run.baseline /\ run'.gate = run.gate /\ run'.output = run.output
        /\ run'.claimsDigest = run.claimsDigest
        /\ run'.statement = IF ~run.digest \/ id = "none" THEN NoRecord
              ELSE [id |-> id, policies |-> run.claimsDigest,
                    properties |-> Properties(run.receipt)]
    BY <1>1 DEF RecordsInv
  <1>4. run.receipt = Receipt(run.exit, run.output, run.baseline, run.gate)
        /\ run.baseline \in Measurements \ {NoVerdict}
    BY <1>2 DEF RecordsInv
  <1>5. run'.statement # NoRecord => StatementIsItsRuns'
    BY <1>3, <1>4 DEF StatementIsItsRuns
  <1>6. run' = [pc |-> run'.pc, exit |-> run'.exit, baseline |-> run'.baseline,
                gate |-> run'.gate, verifierId |-> run'.verifierId, output |-> run'.output,
                digest |-> run'.digest, claimsDigest |-> run'.claimsDigest,
                receipt |-> run'.receipt, statement |-> run'.statement, code |-> run'.code]
    BY <1>1 DEF RecordsInv
  <1> QED BY <1>3, <1>5, <1>6 DEF RecordsInv

LEMMA OutcomeKept == RecordsInv /\ Outcome => RecordsInv'
  BY DEF RecordsInv, Outcome, StatementIsItsRuns

LEMMA KillKept == RecordsInv /\ KillLaunch => RecordsInv'
  BY DEF RecordsInv, KillLaunch, StatementIsItsRuns

LEMMA RecordsInvariant == Spec => []RecordsInv
  <1>1. Init => RecordsInv
    BY RecordsStart DEF Init
  <1>2. RecordsInv /\ [Next]_vars => RecordsInv'
    <2> SUFFICES ASSUME RecordsInv, [Next]_vars PROVE RecordsInv'
      OBVIOUS
    <2>1. CASE Records
      BY <2>1, DigestKept, GateKept, ReceiptKept, StatementKept, OutcomeKept, KillKept
         DEF Records
    <2>2. CASE ExecutorEnds
      BY <2>2, CloseKept DEF ExecutorEnds
    <2>3. CASE UNCHANGED run
      BY <2>3 DEF RecordsInv, StatementIsItsRuns
    <2>4. Records \/ ExecutorEnds \/ UNCHANGED run
      BY DEF Next, Executor, WriteLine, ResumeLine, EndLine, EndLast, vars
    <2> QED BY <2>1, <2>2, <2>3, <2>4
  <1> QED BY <1>1, <1>2, PTL DEF Spec

\* "Two lists in two files" that must agree: for every set of criteria and
\* whatever the two gates gave, a Statement this writer wrote passes the
\* boundary if its verifier is named by a URI of no machine, and says PASS,
\* CONTRIBUTED or NO_OP of a run that did.
THEOREM StatementsAreTrue == Spec => []StatementTellsTheRun
  <1>1. RecordsInv => StatementTellsTheRun
    <2> SUFFICES ASSUME RecordsInv, run.statement # NoRecord PROVE StatementTellsTheRun
      BY DEF StatementTellsTheRun
    <2> DEFINE said == run.statement.properties
    <2>1. /\ run.exit \in {0, 1} /\ run.gate \in Measurements
          /\ run.baseline \in Measurements \ {NoVerdict}
          /\ run.exit # 0 => run.gate = NoVerdict
      BY DEF RecordsInv, StatementIsItsRuns
    <2>2. /\ said = Properties(Receipt(run.exit, run.output, run.baseline, run.gate))
          /\ run.statement.id = run.verifierId /\ run.statement.policies = run.claimsDigest
      BY DEF RecordsInv, StatementIsItsRuns
    <2>3. /\ said \subseteq Vocabulary
          /\ "HARNESS_GATE_PASS" \in said <=> run.exit = 0 /\ run.gate.verdict = "PASS"
          /\ "HARNESS_CONTRIBUTION_CONTRIBUTED" \in said
               <=> ~(After(run.gate) \subseteq Passed(run.baseline))
          /\ "HARNESS_CONTRIBUTION_NO_OP" \in said
               <=> After(run.gate) \subseteq Passed(run.baseline) /\ run.gate # NoVerdict
      BY <2>1, <2>2, StatementSays
    <2>4. run.verifierId = "uri" => LintAccepts(run.statement)
      BY <2>2, <2>3 DEF LintAccepts, StructureHolds, LiteralsHold
    <2>5. run.pc = "over" => (run.code = 0 <=> "HARNESS_GATE_PASS" \in said)
      BY <2>1, <2>3 DEF RecordsInv
    <2>6. run.statement.policies => run.exit = 0
      BY <2>2 DEF RecordsInv
    <2> QED BY <2>3, <2>4, <2>5, <2>6 DEF StatementTellsTheRun, Passed, After
  <1> QED BY <1>1, RecordsInvariant, PTL

-----------------------------------------------------------------------------
\* What the reader makes of the units of a file.  The function Split is defined
\* by exists, so that the equations hold that a reader of the code expects.
Begun == [lines |-> <<>>, rest |-> <<>>]
OneMore(b, x) ==
  IF x = NewLine THEN [lines |-> Append(b.lines, b.rest), rest |-> <<>>]
  ELSE [lines |-> b.lines, rest |-> Append(b.rest, x)]

Splits(f, u) ==
  f = [n \in 0 .. Len(u) |-> IF n = 0 THEN Begun ELSE OneMore(f[n - 1], u[n])]

LEMMA SplitsExist ==
  ASSUME NEW u, Len(u) \in Nat
  PROVE  \E f : Splits(f, u)
  <1> DEFINE Step(f, n) == IF n = 0 THEN Begun ELSE OneMore(f[n - 1], u[n])
             Upto(k) == \E f : \A n \in 0 .. k : f[n] = Step(f, n)
             T == {k \in Nat : Upto(k)}
  <1>1. 0 \in T
    <2> DEFINE f == [n \in 0 .. 0 |-> Begun]
    <2>1. \A n \in 0 .. 0 : f[n] = Step(f, n)
      OBVIOUS
    <2> QED BY <2>1
  <1>2. ASSUME NEW k \in T PROVE k + 1 \in T
    <2>1. k \in Nat /\ k + 1 \in Nat
      OBVIOUS
    <2>2. PICK f : \A n \in 0 .. k : f[n] = Step(f, n)
      OBVIOUS
    <2> DEFINE g == [n \in 0 .. k + 1 |-> IF n <= k THEN f[n] ELSE OneMore(f[k], u[n])]
    <2>3. \A n \in 0 .. k : g[n] = f[n]
      BY <2>1
    <2>4. g[k + 1] = OneMore(f[k], u[k + 1])
      BY <2>1
    <2>5. ASSUME NEW n \in 0 .. k + 1 PROVE g[n] = Step(g, n)
      <3> HIDE DEF g
      <3>1. CASE n = k + 1
        <4>1. n # 0 /\ n - 1 = k /\ k \in 0 .. k
          BY <3>1, <2>1
        <4>2. g[n - 1] = f[k]
          BY <4>1, <2>3
        <4> QED BY <3>1, <4>1, <4>2, <2>4
      <3>2. CASE n # k + 1
        <4>1. n \in 0 .. k
          BY <3>2, <2>1
        <4>2. CASE n = 0
          BY <4>1, <4>2, <2>2, <2>3
        <4>3. CASE n # 0
          <5>1. n - 1 \in 0 .. k
            BY <4>1, <4>3
          <5> QED BY <4>1, <4>3, <5>1, <2>2, <2>3
        <4> QED BY <4>2, <4>3
      <3> QED BY <3>1, <3>2
    <2> HIDE DEF g, Step
    <2> QED BY <2>1, <2>5
  <1> HIDE DEF Upto
  <1>3. T = Nat
    BY <1>1, <1>2, SetInduction
  <1>4. Upto(Len(u))
    BY <1>3
  <1>5. PICK f : \A n \in 0 .. Len(u) : f[n] = Step(f, n)
    BY <1>4 DEF Upto
  <1> DEFINE g == [n \in 0 .. Len(u) |-> f[n]]
  <1>6. ASSUME NEW n \in 0 .. Len(u) PROVE g[n] = Step(g, n)
    <2>1. CASE n = 0
      BY <2>1, <1>5
    <2>2. CASE n # 0
      <3>1. n - 1 \in 0 .. Len(u)
        BY <2>2
      <3>2. g[n - 1] = f[n - 1] /\ g[n] = f[n]
        BY <3>1
      <3> QED BY <3>2, <2>2, <1>5
    <2> QED BY <2>1, <2>2
  <1>7. g = [n \in 0 .. Len(u) |-> Step(g, n)]
    BY <1>6
  <1>8. Splits(g, u)
    BY <1>7 DEF Splits
  <1> QED BY <1>8

LEMMA SplitOf ==
  ASSUME NEW u, Len(u) \in Nat
  PROVE  \E f : Splits(f, u) /\ Split(u) = f[Len(u)]
  <1> DEFINE f == CHOOSE g : Splits(g, u)
  <1>1. Split(u) = f[Len(u)]
    BY DEF Split, Splits, Begun, OneMore
  <1>2. Splits(f, u)
    BY SplitsExist
  <1> QED BY <1>1, <1>2

LEMMA SplitNone == Split(<<>>) = Begun
  <1>1. Len(<<>>) = 0
    BY EmptySeq
  <1>2. PICK f : Splits(f, <<>>) /\ Split(<<>>) = f[0]
    BY <1>1, SplitOf
  <1> QED BY <1>1, <1>2 DEF Splits

LEMMA SplitMore ==
  ASSUME NEW U, NEW u \in Seq(U), NEW x \in U
  PROVE  Split(Append(u, x)) = OneMore(Split(u), x)
  <1>1. PICK b : b = Append(u, x)
    OBVIOUS
  <1>2. PICK n \in Nat : n = Len(u)
    BY LenProperties
  <1>3. Len(b) = n + 1 /\ (\A i \in 1 .. n : b[i] = u[i]) /\ b[n + 1] = x
    BY <1>1, <1>2, AppendProperties
  <1>4. PICK f : Splits(f, u) /\ Split(u) = f[n]
    BY <1>2, SplitOf
  <1>5. PICK g : Splits(g, b) /\ Split(b) = g[n + 1]
    BY <1>3, SplitOf
  <1>6. /\ f[0] = Begun
        /\ \A k \in 0 .. n : k # 0 => f[k] = OneMore(f[k - 1], u[k])
    BY <1>2, <1>4 DEF Splits
  <1>7. /\ g[0] = Begun
        /\ \A k \in 0 .. n + 1 : k # 0 => g[k] = OneMore(g[k - 1], b[k])
    BY <1>3, <1>5 DEF Splits
  <1> DEFINE T == {k \in Nat : k <= n => f[k] = g[k]}
  <1>8. 0 \in T
    BY <1>6, <1>7
  <1>9. ASSUME NEW k \in T PROVE k + 1 \in T
    <2>1. ASSUME k + 1 <= n PROVE f[k + 1] = g[k + 1]
      <3>1. /\ k + 1 \in 0 .. n /\ k + 1 \in 0 .. n + 1 /\ k + 1 # 0 /\ (k + 1) - 1 = k
            /\ k + 1 \in 1 .. n /\ k <= n
        BY <2>1
      <3>2. u[k + 1] = b[k + 1] /\ f[k] = g[k]
        BY <3>1, <1>3
      <3> QED BY <3>1, <3>2, <1>6, <1>7
    <2> QED BY <2>1
  <1>10. T = Nat
    BY <1>8, <1>9, SetInduction
  <1>11. f[n] = g[n]
    BY <1>10
  <1>12. g[n + 1] = OneMore(g[n], b[n + 1])
    <2>1. n + 1 \in 0 .. n + 1 /\ n + 1 # 0 /\ (n + 1) - 1 = n
      OBVIOUS
    <2> QED BY <2>1, <1>7
  <1> QED BY <1>1, <1>3, <1>4, <1>5, <1>11, <1>12

\* Induction over the length of a sequence.
LEMMA LengthInduction ==
  ASSUME NEW U, NEW T \in SUBSET Seq(U), <<>> \in T,
         \A u \in T, x \in U : Append(u, x) \in T
  PROVE  T = Seq(U)
  <1> DEFINE K == {k \in Nat : \A u \in Seq(U) : Len(u) = k => u \in T}
  <1>1. 0 \in K
    BY EmptySeq
  <1>2. ASSUME NEW k \in K PROVE k + 1 \in K
    <2>1. ASSUME NEW u \in Seq(U), Len(u) = k + 1 PROVE u \in T
      <3>1. u # <<>>
        BY <2>1, EmptySeq
      <3>2. PICK s \in Seq(U), x \in U : u = Append(s, x)
        BY <3>1, SequenceEmptyOrAppend
      <3>3. Len(s) \in Nat /\ Len(Append(s, x)) = Len(s) + 1
        BY AppendProperties, LenProperties
      <3>4. Len(s) = k
        BY <2>1, <3>2, <3>3
      <3> QED BY <3>2, <3>4
    <2> QED BY <2>1
  <1> HIDE DEF K
  <1>3. K \in SUBSET Nat
    BY DEF K
  <1>4. K = Nat
    BY <1>1, <1>2, <1>3, SetInduction
  <1>5. ASSUME NEW u \in Seq(U) PROVE u \in T
    <2>1. Len(u) \in K
      BY <1>4, LenProperties
    <2> QED BY <2>1 DEF K
  <1> QED BY <1>5

LEMMA SplitTypes ==
  ASSUME NEW U, NEW u \in Seq(U)
  PROVE  /\ Split(u) = [lines |-> Complete(u), rest |-> Remainder(u)]
         /\ Complete(u) \in Seq(Seq(U \ {NewLine})) /\ Remainder(u) \in Seq(U \ {NewLine})
  <1> DEFINE S == [lines : Seq(Seq(U \ {NewLine})), rest : Seq(U \ {NewLine})]
             T == {v \in Seq(U) : Split(v) \in S}
  <1>1. <<>> \in T
    <2>1. <<>> \in Seq(Seq(U \ {NewLine})) /\ <<>> \in Seq(U \ {NewLine}) /\ <<>> \in Seq(U)
      BY EmptySeq
    <2>2. \A a \in Seq(Seq(U \ {NewLine})), b \in Seq(U \ {NewLine}) : [lines |-> a, rest |-> b] \in S
      OBVIOUS
    <2>3. Begun \in S
      BY <2>1, <2>2, Zenon DEF Begun
    <2> HIDE DEF S
    <2> QED BY <2>1, <2>3, SplitNone
  <1>2. ASSUME NEW v \in T, NEW x \in U PROVE Append(v, x) \in T
    <2>1. PICK b \in S : b = Split(v)
      OBVIOUS
    <2>2. Split(Append(v, x)) = OneMore(b, x) /\ Append(v, x) \in Seq(U)
      BY <2>1, SplitMore, AppendProperties
    <2>3. b.lines \in Seq(Seq(U \ {NewLine})) /\ b.rest \in Seq(U \ {NewLine})
      OBVIOUS
    <2>4. OneMore(b, x) \in S
      <3>1. CASE x = NewLine
        <4>1. Append(b.lines, b.rest) \in Seq(Seq(U \ {NewLine}))
          BY <2>3, AppendProperties
        <4> QED BY <3>1, <4>1, EmptySeq DEF OneMore
      <3>2. CASE x # NewLine
        <4>1. Append(b.rest, x) \in Seq(U \ {NewLine})
          BY <2>3, <3>2, AppendProperties
        <4> QED BY <3>2, <4>1, <2>3 DEF OneMore
      <3> QED BY <3>1, <3>2
    <2> QED BY <2>2, <2>4
  <1> HIDE DEF S
  <1>3. T = Seq(U)
    BY <1>1, <1>2, LengthInduction
  <1>4. Split(u) \in S
    BY <1>3
  <1> QED BY <1>4 DEF S, Complete, Remainder

\* A text without a line end is its own remainder.
LEMMA SplitPlain ==
  ASSUME NEW U, NEW u \in Seq(U \ {NewLine})
  PROVE  Complete(u) = <<>> /\ Remainder(u) = u
  <1> DEFINE T == {v \in Seq(U \ {NewLine}) : Split(v) = [lines |-> <<>>, rest |-> v]}
  <1>1. <<>> \in T
    BY SplitNone, EmptySeq DEF Begun
  <1>2. ASSUME NEW v \in T, NEW x \in U \ {NewLine} PROVE Append(v, x) \in T
    <2>1. Split(Append(v, x)) = OneMore(Split(v), x) /\ Append(v, x) \in Seq(U \ {NewLine})
      BY SplitMore, AppendProperties
    <2>2. Split(v) = [lines |-> <<>>, rest |-> v] /\ x # NewLine
      OBVIOUS
    <2> QED BY <2>1, <2>2 DEF OneMore
  <1>3. T = Seq(U \ {NewLine})
    BY <1>1, <1>2, LengthInduction
  <1> QED BY <1>3 DEF Complete, Remainder

LEMMA ConcatAppend ==
  ASSUME NEW U, NEW u \in Seq(U), NEW v \in Seq(U), NEW x \in U
  PROVE  u \o Append(v, x) = Append(u \o v, x)
  <1>1. <<x>> \in Seq(U) /\ u \o v \in Seq(U)
    BY ConcatProperties
  <1>2. Append(v, x) = v \o <<x>> /\ Append(u \o v, x) = (u \o v) \o <<x>>
    BY <1>1, AppendIsConcat
  <1> QED BY <1>1, <1>2, ConcatAssociative

\* What was read before, and what is read of the remainder and the new units.
JoinedOf(u, v) ==
  /\ Complete(u \o v) = Complete(u) \o Complete(Remainder(u) \o v)
  /\ Remainder(u \o v) = Remainder(Remainder(u) \o v)

LEMMA SplitJoin ==
  ASSUME NEW U, NEW u \in Seq(U), NEW v \in Seq(U)
  PROVE  JoinedOf(u, v)
  <1> DEFINE L == Seq(U \ {NewLine})
             T == {w \in Seq(U) : JoinedOf(u, w)}
  <1>0. PICK R \in L : R = Remainder(u)
    BY SplitTypes
  <1>1. PICK C \in Seq(L) : C = Complete(u)
    BY SplitTypes
  <1>2. R \in Seq(U)
    <2>1. U \ {NewLine} \subseteq U
      OBVIOUS
    <2> QED BY <2>1, <1>0, SeqMonotonic
  <1>3. <<>> \in T
    <2>1. u \o <<>> = u /\ R \o <<>> = R /\ C \o <<>> = C
      BY <1>2, ConcatEmptySeq
    <2>2. Complete(R) = <<>> /\ Remainder(R) = R
      BY SplitPlain
    <2> QED BY <2>1, <2>2, <1>0, <1>1, EmptySeq DEF JoinedOf
  <1>4. ASSUME NEW w \in T, NEW x \in U PROVE Append(w, x) \in T
    <2>0. w \in Seq(U) /\ JoinedOf(u, w) /\ Append(w, x) \in Seq(U)
      BY AppendProperties
    <2>1. PICK a \in Seq(U) : a = u \o w
      BY <2>0, ConcatProperties
    <2>2. PICK b \in Seq(U) : b = R \o w
      BY <2>0, <1>2, ConcatProperties
    <2>3. /\ u \o Append(w, x) = Append(a, x)
          /\ R \o Append(w, x) = Append(b, x)
      <3>1. u \o Append(w, x) = Append(u \o w, x)
        BY <2>0, ConcatAppend
      <3>2. R \o Append(w, x) = Append(R \o w, x)
        BY <2>0, <1>2, ConcatAppend
      <3> QED BY <3>1, <3>2, <2>1, <2>2
    <2>4. Complete(a) = C \o Complete(b) /\ Remainder(a) = Remainder(b)
      BY <2>0, <2>1, <2>2, <1>0, <1>1 DEF JoinedOf
    <2>5. /\ Split(Append(a, x)) = OneMore(Split(a), x)
          /\ Split(Append(b, x)) = OneMore(Split(b), x)
      BY SplitMore
    <2>6. PICK d \in Seq(L) : d = Complete(b)
      BY SplitTypes
    <2>7. PICK r \in L : r = Remainder(b)
      BY SplitTypes
    <2>8. /\ Split(a) = [lines |-> C \o d, rest |-> r]
          /\ Split(b) = [lines |-> d, rest |-> r]
      BY <2>4, <2>6, <2>7, SplitTypes
    <2>9. C \o Append(d, r) = Append(C \o d, r)
      <3> HIDE DEF L
      <3> QED BY ConcatAppend
    <2>10. /\ Complete(Append(a, x)) = C \o Complete(Append(b, x))
           /\ Remainder(Append(a, x)) = Remainder(Append(b, x))
      <3> HIDE DEF L
      <3>1. CASE x = NewLine
        <4>1. /\ OneMore(Split(a), x) = [lines |-> Append(C \o d, r), rest |-> <<>>]
              /\ OneMore(Split(b), x) = [lines |-> Append(d, r), rest |-> <<>>]
          BY <2>8, <3>1 DEF OneMore
        <4>2. /\ Complete(Append(a, x)) = Append(C \o d, r) /\ Remainder(Append(a, x)) = <<>>
              /\ Complete(Append(b, x)) = Append(d, r) /\ Remainder(Append(b, x)) = <<>>
          BY <4>1, <2>5 DEF Complete, Remainder
        <4> QED BY <4>2, <2>9
      <3>2. CASE x # NewLine
        <4>1. /\ OneMore(Split(a), x) = [lines |-> C \o d, rest |-> Append(r, x)]
              /\ OneMore(Split(b), x) = [lines |-> d, rest |-> Append(r, x)]
          BY <2>8, <3>2 DEF OneMore
        <4> QED BY <4>1, <2>5 DEF Complete, Remainder
      <3> QED BY <3>1, <3>2
    <2> QED BY <2>0, <2>3, <2>10, <1>0, <1>1 DEF JoinedOf
  <1> HIDE DEF JoinedOf
  <1>5. T = Seq(U)
    BY <1>3, <1>4, LengthInduction
  <1> QED BY <1>5

-----------------------------------------------------------------------------
\* The file s and its reader v, over a set U of units.  What the reader has of
\* the file that is there is what a single reading of its first units gives;
\* of a file that was replaced since, it has something that is well formed.
HasRead(v, u) == v.shown = Complete(u) /\ v.buf = Remainder(u)

ReaderOver(s, v, U) ==
  /\ s = [units |-> s.units, replaced |-> s.replaced]
  /\ s.units \in Seq(U) /\ s.replaced \in Nat
  /\ v = [pc |-> v.pc, follow |-> v.follow, pos |-> v.pos, size |-> v.size, buf |-> v.buf,
          shown |-> v.shown, tail |-> v.tail, gen |-> v.gen]
  /\ v.pos \in Nat /\ v.size \in Nat /\ v.gen \in Nat /\ v.gen <= s.replaced
  /\ v.buf \in Seq(U \ {NewLine}) /\ v.shown \in Seq(Seq(U \ {NewLine}))
  /\ v.pos = 0 => v.buf = <<>> /\ v.shown = <<>>
  /\ v.gen = s.replaced => /\ v.pos <= Len(s.units)
                           /\ HasRead(v, SubSeq(s.units, 1, v.pos))

LEMMA ReaderWider ==
  ASSUME NEW s, NEW v, NEW U, NEW W, U \subseteq W, ReaderOver(s, v, U)
  PROVE  ReaderOver(s, v, W)
  <1>1. U \ {NewLine} \subseteq W \ {NewLine}
    OBVIOUS
  <1>2. Seq(U \ {NewLine}) \subseteq Seq(W \ {NewLine})
    BY <1>1, SeqMonotonic
  <1>3. s.units \in Seq(W)
    BY SeqMonotonic DEF ReaderOver
  <1>4. v.buf \in Seq(W \ {NewLine}) /\ v.shown \in Seq(Seq(W \ {NewLine}))
    BY <1>2, SeqMonotonic DEF ReaderOver
  <1> QED BY <1>3, <1>4 DEF ReaderOver

\* The first units of a file are no others when it has grown.
LEMMA SliceStays ==
  ASSUME NEW U, NEW u \in Seq(U), NEW x \in U, NEW n \in Nat, n <= Len(u)
  PROVE  SubSeq(Append(u, x), 1, n) = SubSeq(u, 1, n)
  <1>1. PICK N \in Nat : N = Len(u)
    BY LenProperties
  <1>2. CASE n = 0
    BY <1>2, SubSeqEmpty
  <1>3. CASE n # 0
    <2>1. <<x>> \in Seq(U) /\ Append(u, x) = u \o <<x>>
      BY AppendIsConcat
    <2>2. 1 \in 1 .. Len(u) /\ n \in 1 .. Len(u)
      BY <1>1, <1>3
    <2>3. SubSeq(u \o <<x>>, 1, n) = SubSeq(u, 1, n)
      BY <2>1, <2>2, SubSeqOfConcat1
    <2> QED BY <2>1, <2>3
  <1> QED BY <1>2, <1>3

LEMMA FileGrows ==
  ASSUME NEW s, NEW v, NEW U, NEW x \in U, ReaderOver(s, v, U),
         NEW t, t = [s EXCEPT !.units = Append(@, x)]
  PROVE  ReaderOver(t, v, U)
  <1>1. t = [units |-> Append(s.units, x), replaced |-> s.replaced]
    BY DEF ReaderOver
  <1>2. PICK u \in Seq(U) : u = s.units
    BY DEF ReaderOver
  <1>3. PICK w \in Seq(U) : w = Append(u, x)
    BY AppendProperties
  <1>4. Len(w) = Len(u) + 1 /\ Len(u) \in Nat
    BY <1>3, AppendProperties, LenProperties
  <1>5. t.units = w /\ t.replaced = s.replaced /\ t = [units |-> w, replaced |-> s.replaced]
    BY <1>1, <1>2, <1>3
  <1>6. v.pos \in Nat
    BY DEF ReaderOver
  <1>7. ASSUME v.gen = s.replaced
        PROVE  v.pos <= Len(w) /\ HasRead(v, SubSeq(w, 1, v.pos))
    <2>1. v.pos <= Len(u) /\ HasRead(v, SubSeq(u, 1, v.pos))
      BY <1>2, <1>7 DEF ReaderOver
    <2>2. SubSeq(w, 1, v.pos) = SubSeq(u, 1, v.pos)
      BY <2>1, <1>3, <1>6, SliceStays
    <2>3. v.pos <= Len(w)
      BY <2>1, <1>4, <1>6
    <2> QED BY <2>1, <2>2, <2>3, Zenon
  <1> QED BY <1>5, <1>7 DEF ReaderOver

LEMMA FileReplaced ==
  ASSUME NEW s, NEW v, NEW U, ReaderOver(s, v, U),
         NEW t, t = [units |-> <<>>, replaced |-> s.replaced + 1]
  PROVE  ReaderOver(t, v, U)
  <1>1. <<>> \in Seq(U)
    BY EmptySeq
  <1>2. t.units = <<>> /\ t.replaced = s.replaced + 1
    OBVIOUS
  <1>3. v.gen # t.replaced /\ v.gen <= t.replaced /\ t.replaced \in Nat
    BY <1>2 DEF ReaderOver
  <1> QED BY <1>1, <1>2, <1>3 DEF ReaderOver

\* A step of the reader that leaves what it has alone.
LEMMA ReaderGoesOn ==
  ASSUME NEW s, NEW v, NEW U, ReaderOver(s, v, U),
         NEW w, NEW pc, NEW size \in Nat, NEW tail,
         w = [v EXCEPT !.pc = pc, !.size = size, !.tail = tail]
  PROVE  ReaderOver(s, w, U)
  <1>1. w = [pc |-> pc, follow |-> v.follow, pos |-> v.pos, size |-> size, buf |-> v.buf,
             shown |-> v.shown, tail |-> tail, gen |-> v.gen]
    BY DEF ReaderOver
  <1>2. /\ w.pos = v.pos /\ w.buf = v.buf /\ w.shown = v.shown /\ w.gen = v.gen /\ w.size = size
        /\ w = [pc |-> w.pc, follow |-> w.follow, pos |-> w.pos, size |-> w.size, buf |-> w.buf,
                shown |-> w.shown, tail |-> w.tail, gen |-> w.gen]
    BY <1>1
  <1> QED BY <1>2 DEF ReaderOver, HasRead

\* All that PollRead computes, from what the reader had.
ReadsTo(s, v, w, over, from, got, pc) ==
  /\ from = IF over THEN 0 ELSE v.pos
  /\ got = (IF over THEN <<>> ELSE v.buf) \o SubSeq(s.units, from + 1, Len(s.units))
  /\ w = [v EXCEPT !.pc = pc,
            !.pos = IF Len(s.units) > from THEN Len(s.units) ELSE from,
            !.buf = Remainder(got),
            !.gen = IF from = 0 THEN s.replaced ELSE @,
            !.shown = (IF over THEN <<>> ELSE @) \o Complete(got)]

LEMMA ReaderReads ==
  ASSUME NEW s, NEW v, NEW U, ReaderOver(s, v, U), NEW over \in BOOLEAN,
         NEW from, NEW got, NEW w, NEW pc, ReadsTo(s, v, w, over, from, got, pc)
  PROVE  ReaderOver(s, w, U)
  <1> USE DEF ReadsTo
  <1>1. PICK u \in Seq(U) : u = s.units
    BY DEF ReaderOver
  <1>2. PICK n \in Nat : n = Len(u)
    BY LenProperties
  <1> DEFINE P == U \ {NewLine}
  <1>3. PICK b \in Seq(P) : b = IF over THEN <<>> ELSE v.buf
    BY EmptySeq DEF ReaderOver
  <1>4. PICK shown \in Seq(Seq(P)) : shown = IF over THEN <<>> ELSE v.shown
    BY EmptySeq DEF ReaderOver
  <1>5. PICK k \in Nat : k = from
    BY DEF ReaderOver
  <1>6. PICK g \in Nat : g = v.gen /\ g <= s.replaced /\ s.replaced \in Nat
    BY DEF ReaderOver
  <1>7. k = 0 => b = <<>> /\ shown = <<>>
    BY <1>3, <1>4, <1>5 DEF ReaderOver
  <1>8. k # 0 /\ g = s.replaced => k <= n /\ shown = Complete(SubSeq(u, 1, k))
                                     /\ b = Remainder(SubSeq(u, 1, k))
    BY <1>1, <1>2, <1>3, <1>4, <1>5, <1>6 DEF ReaderOver, HasRead
  <1>9. PICK new : new = SubSeq(u, k + 1, n)
    OBVIOUS
  <1>10. new \in Seq(U)
    <2>1. \A i \in k + 1 .. n : u[i] \in U
      BY <1>2, ElementOfSeq
    <2> QED BY <2>1, <1>9, SubSeqProperties
  <1>11. b \in Seq(U)
    <2>1. P \subseteq U
      OBVIOUS
    <2> QED BY <2>1, SeqMonotonic
  <1>12. got = b \o new /\ b \o new \in Seq(U)
    BY <1>1, <1>2, <1>3, <1>5, <1>9, <1>10, <1>11, ConcatProperties
  <1>13. PICK C \in Seq(Seq(P)) : C = Complete(got)
    BY <1>12, SplitTypes
  <1>14. PICK R \in Seq(P) : R = Remainder(got)
    BY <1>12, SplitTypes
  <1>15. PICK all \in Seq(Seq(P)) : all = shown \o C
    BY ConcatProperties
  <1>16. PICK q \in Nat : q = IF n > k THEN n ELSE k
    OBVIOUS
  <1>0. PICK e : e = IF k = 0 THEN s.replaced ELSE g
    OBVIOUS
  <1>17. w = [pc |-> pc, follow |-> v.follow, pos |-> q, size |-> v.size, buf |-> R,
              shown |-> all, tail |-> v.tail, gen |-> e]
    <2> HIDE DEF P
    <2>1. v = [pc |-> v.pc, follow |-> v.follow, pos |-> v.pos, size |-> v.size, buf |-> v.buf,
               shown |-> v.shown, tail |-> v.tail, gen |-> v.gen]
      BY DEF ReaderOver
    <2>2. (IF over THEN <<>> ELSE v.shown) \o Complete(got) = all
      BY <1>4, <1>13, <1>15
    <2>3. (IF Len(s.units) > from THEN Len(s.units) ELSE from) = q
      BY <1>1, <1>2, <1>5, <1>16
    <2>4. (IF from = 0 THEN s.replaced ELSE v.gen) = e
      BY <1>0, <1>5, <1>6
    <2> QED BY <2>1, <2>2, <2>3, <2>4, <1>14, Zenon
  <1>18. q = 0 => R = <<>> /\ all = <<>>
    <2>1. SUFFICES ASSUME q = 0 PROVE R = <<>> /\ all = <<>>
      OBVIOUS
    <2>2. k = 0 /\ n = 0
      BY <2>1, <1>16
    <2>3. b = <<>> /\ shown = <<>> /\ new = <<>>
      BY <2>2, <1>7, <1>9, SubSeqEmpty
    <2>4. got = <<>>
      BY <2>3, <1>12, ConcatEmptySeq, EmptySeq
    <2>5. C = <<>> /\ R = <<>>
      BY <2>4, <1>13, <1>14, SplitPlain, EmptySeq
    <2> QED BY <2>3, <2>5, <1>15, ConcatEmptySeq, EmptySeq
  <1>19. ASSUME k = 0 \/ g = s.replaced
         PROVE  q <= n /\ all = Complete(SubSeq(u, 1, q)) /\ R = Remainder(SubSeq(u, 1, q))
    <2>1. k <= n
      BY <1>8, <1>19
    <2>2. q = n
      BY <2>1, <1>16
    <2>3. SubSeq(u, 1, q) = u
      BY <2>2, <1>2, SubSeqFull
    <2>4. CASE k = 0
      <3>1. b = <<>> /\ shown = <<>> /\ new = u
        BY <2>4, <1>2, <1>7, <1>9, SubSeqFull
      <3>2. got = u /\ all = C
        BY <3>1, <1>12, <1>15, ConcatEmptySeq
      <3>3. q <= n
        BY <2>2
      <3> QED BY <3>2, <3>3, <2>3, <1>13, <1>14, Zenon
    <2>5. CASE k # 0
      <3>1. PICK old : old = SubSeq(u, 1, k)
        OBVIOUS
      <3>2. old \in Seq(U)
        <4>1. 1 \in Int /\ k \in Int /\ \A i \in 1 .. k : u[i] \in U
          BY <2>1, <1>2, ElementOfSeq
        <4>2. SubSeq(u, 1, k) \in Seq(U)
          BY <4>1, SubSeqProperties, Zenon
        <4> QED BY <4>2, <3>1
      <3>3. old \o new = u
        <4>1. 1 \in 1 .. Len(u) + 1 /\ k \in 1 - 1 .. Len(u) /\ n \in k .. Len(u)
          BY <2>1, <1>2
        <4>2. SubSeq(u, 1, k) \o SubSeq(u, k + 1, n) = SubSeq(u, 1, n)
          BY <4>1, ConcatAdjacentSubSeq
        <4> QED BY <4>2, <3>1, <1>9, <2>2, <2>3
      <3>4. shown = Complete(old) /\ b = Remainder(old)
        BY <2>5, <3>1, <1>8, <1>19
      <3>5. JoinedOf(old, new)
        BY <3>2, <1>10, SplitJoin
      <3>6. /\ Complete(u) = Complete(old) \o Complete(Remainder(old) \o new)
            /\ Remainder(u) = Remainder(Remainder(old) \o new)
        BY <3>3, <3>5 DEF JoinedOf
      <3>7. Complete(u) = all /\ Remainder(u) = R
        BY <3>4, <3>6, <1>12, <1>13, <1>14, <1>15
      <3>8. q <= n
        BY <2>2
      <3> QED BY <3>7, <3>8, <2>3, Zenon
    <2> QED BY <2>4, <2>5
  <1>20. /\ w.pos = q /\ w.size = v.size /\ w.buf = R /\ w.shown = all
         /\ w.gen = e
         /\ w = [pc |-> w.pc, follow |-> w.follow, pos |-> w.pos, size |-> w.size,
                 buf |-> w.buf, shown |-> w.shown, tail |-> w.tail, gen |-> w.gen]
    <2>1. PICK x : x = [pc |-> pc, follow |-> v.follow, pos |-> q, size |-> v.size, buf |-> R,
                        shown |-> all, tail |-> v.tail, gen |-> e]
      OBVIOUS
    <2>2. /\ x.pos = q /\ x.size = v.size /\ x.buf = R /\ x.shown = all /\ x.gen = e
          /\ x = [pc |-> x.pc, follow |-> x.follow, pos |-> x.pos, size |-> x.size,
                  buf |-> x.buf, shown |-> x.shown, tail |-> x.tail, gen |-> x.gen]
      BY <2>1
    <2>3. w = x
      BY <1>17, <2>1, Zenon
    <2> QED BY <2>2, <2>3, Zenon
  <1>21. w.gen \in Nat /\ w.gen <= s.replaced /\ w.size \in Nat
    BY <1>0, <1>6, <1>20 DEF ReaderOver
  <1>22. w.gen = s.replaced => w.pos <= Len(s.units) /\ HasRead(w, SubSeq(s.units, 1, w.pos))
    BY <1>0, <1>1, <1>2, <1>19, <1>20 DEF HasRead
  <1>23. /\ s = [units |-> s.units, replaced |-> s.replaced]
         /\ s.units \in Seq(U) /\ s.replaced \in Nat
    BY DEF ReaderOver
  <1>24. w.pos \in Nat /\ w.buf \in Seq(P) /\ w.shown \in Seq(Seq(P))
         /\ (w.pos = 0 => w.buf = <<>> /\ w.shown = <<>>)
    BY <1>18, <1>20
  <1> QED BY <1>20, <1>21, <1>22, <1>23, <1>24 DEF ReaderOver

\* What was shown of the file that is there is the beginning of its lines.
LEMMA ShownIsPrefix ==
  ASSUME NEW s, NEW v, NEW U, ReaderOver(s, v, U), v.gen = s.replaced
  PROVE  IsPrefix(v.shown, Complete(s.units))
  <1>1. PICK u \in Seq(U) : u = s.units
    BY DEF ReaderOver
  <1>2. PICK k \in Nat : k = v.pos /\ k <= Len(u)
    BY <1>1 DEF ReaderOver
  <1>3. PICK n \in Nat : n = Len(u)
    BY LenProperties
  <1>4. PICK old : old = SubSeq(u, 1, k)
    OBVIOUS
  <1>5. PICK new : new = SubSeq(u, k + 1, n)
    OBVIOUS
  <1>6. old \in Seq(U) /\ new \in Seq(U)
    <2>1. (\A i \in 1 .. k : u[i] \in U) /\ (\A i \in k + 1 .. n : u[i] \in U)
      BY <1>2, <1>3, ElementOfSeq
    <2> QED BY <2>1, <1>4, <1>5, SubSeqProperties
  <1>7. old \o new = u
    <2>1. 1 \in 1 .. Len(u) + 1 /\ k \in 1 - 1 .. Len(u) /\ n \in k .. Len(u)
      BY <1>2, <1>3
    <2>2. SubSeq(u, 1, k) \o SubSeq(u, k + 1, n) = SubSeq(u, 1, n)
      BY <2>1, ConcatAdjacentSubSeq
    <2> QED BY <2>2, <1>3, <1>4, <1>5, SubSeqFull
  <1>8. JoinedOf(old, new)
    BY <1>6, SplitJoin
  <1> DEFINE L == Seq(U \ {NewLine})
  <1>9. PICK C \in Seq(L) : C = Complete(old)
    BY <1>6, SplitTypes
  <1>10. PICK R \in L : R = Remainder(old)
    BY <1>6, SplitTypes
  <1>11. R \in Seq(U)
    <2>1. U \ {NewLine} \subseteq U
      OBVIOUS
    <2> QED BY <2>1, SeqMonotonic
  <1>12. PICK D \in Seq(L) : D = Complete(R \o new)
    BY <1>6, <1>11, ConcatProperties, SplitTypes
  <1>13. Complete(u) = C \o D
    BY <1>7, <1>8, <1>9, <1>10, <1>12 DEF JoinedOf
  <1>14. v.shown = C
    BY <1>1, <1>2, <1>4, <1>9 DEF ReaderOver, HasRead
  <1> HIDE DEF L
  <1>15. IsPrefix(C, C \o D)
    <2>1. PICK a \in Nat : a = Len(C)
      BY LenProperties
    <2>2. PICK d \in Nat : d = Len(D)
      BY LenProperties
    <2>3. Len(C \o D) = a + d
      BY <2>1, <2>2, ConcatProperties
    <2>4. SubSeq(C, 1, a) = SubSeq(C \o D, 1, a)
      <3>1. CASE a = 0
        BY <3>1, SubSeqEmpty
      <3>2. CASE a # 0
        <4>1. 1 \in 1 .. Len(C) /\ a \in 1 .. Len(C)
          BY <3>2, <2>1
        <4> QED BY <4>1, SubSeqOfConcat1
      <3> QED BY <3>1, <3>2
    <2>5. Len(C) <= Len(C \o D)
      BY <2>1, <2>2, <2>3
    <2> QED BY <2>1, <2>4, <2>5, Zenon DEF IsPrefix
  <1> QED BY <1>1, <1>13, <1>14, <1>15

-----------------------------------------------------------------------------
\* The units of the session: a line end, or a text that says of a call that is
\* over whether it was refused.
Text == [kind : {"use", "result", "end"}, call : Call \cup {NoCall},
         denied : BOOLEAN, error : BOOLEAN]
Truthful(t) ==
  t.kind = "result" => t.call \in Call /\ Past(t.call) /\ (t.denied <=> Refused(t.call))
Units == {NewLine} \cup {t \in Text : Truthful(t)}

\* The executor's result names the refused calls' tools; the receipt is made of it.
Names(o) == /\ Len(o) = Cardinality(Denials)
            /\ {o[i] : i \in DOMAIN o} = {calls[c].tool : c \in Denials}
RefusalsIn(o) ==
  IF o = NoRecord THEN [count |-> 0, tools |-> {}]
  ELSE [count |-> Len(o), tools |-> {o[i] : i \in DOMAIN o}]

DenialsInv ==
  /\ IsFiniteSet(Denials)
  /\ run.pc = "running" => run.receipt = NoRecord
  /\ run.pc # "running" => run.output = NoRecord \/ Names(run.output)
  /\ run.receipt # NoRecord => run.receipt.refusals = RefusalsIn(run.output)

ReaderInv == ReaderOver(session, view, Units)
ToldInv == ReaderInv /\ DenialsInv

\* A call that is over stays as it ended.
LEMMA PastStays ==
  ASSUME GuardInv, [Next]_vars, NEW c \in Call, Past(c)
  PROVE  calls'[c].pc = calls[c].pc /\ (Refused(c)' <=> Refused(c)) /\ Past(c)'
  <1>1. calls'[c].pc = calls[c].pc
    <2>1. CASE Executor
      <3>1. PICK d \in Call : Ask(d) \/ Decide(d) \/ Run(d)
        BY <2>1 DEF Executor
      <3>2. d # c
        BY <3>1 DEF Ask, Decide, Run, At, Past
      <3>3. calls'[c] = calls[c]
        <4>1. CASE Ask(d)
          BY <4>1, <3>2 DEF Ask, GuardInv
        <4>2. CASE Decide(d)
          BY <4>2, <3>2 DEF Decide, GuardInv
        <4>3. CASE Run(d)
          BY <4>3, <3>2 DEF Run, GuardInv
        <4> QED BY <3>1, <4>1, <4>2, <4>3
      <3> QED BY <3>3
    <2>2. CASE ExecutorEnds
      <3>1. calls'[c] = Known(calls[c].pc, calls[c].tool)
        BY <2>2 DEF ExecutorEnds
      <3> QED BY <3>1 DEF Known
    <2>3. CASE UNCHANGED calls
      BY <2>3
    <2>4. Executor \/ ExecutorEnds \/ UNCHANGED calls
      BY DEF Next, WriteLine, ResumeLine, EndLine, EndLast, PlaceHalt, vars, guardVars
    <2> QED BY <2>1, <2>2, <2>3, <2>4
  <1> QED BY <1>1 DEF Refused, At, Past

LEMMA UnitsGrow ==
  ASSUME GuardInv, [Next]_vars
  PROVE  Units \subseteq Units'
  <1>1. ASSUME NEW t \in Text, Truthful(t) PROVE Truthful(t)'
    BY <1>1, PastStays DEF Truthful
  <1> QED BY <1>1 DEF Units, Text

LEMMA LinesAreUnits ==
  ASSUME NEW c \in Call
  PROVE  Line("use", c) \in Units /\ (Past(c) => Line("result", c) \in Units)
  <1>1. Line("use", c) \in Text /\ Truthful(Line("use", c))
    BY DEF Line, Text, Truthful
  <1>2. Line("result", c) \in Text
    BY DEF Line, Text
  <1>3. Past(c) => Truthful(Line("result", c))
    BY DEF Line, Truthful
  <1> QED BY <1>1, <1>2, <1>3 DEF Units

\* Writing to the file.
LEMMA WritesKeep ==
  ASSUME ReaderInv, NEW x \in Units, session' = [session EXCEPT !.units = Append(@, x)],
         UNCHANGED view, Units \subseteq Units'
  PROVE  ReaderInv'
  <1>1. ReaderOver(session', view, Units)
    BY FileGrows DEF ReaderInv
  <1>2. ReaderOver(session', view', Units)
    BY <1>1
  <1> QED BY <1>2, ReaderWider DEF ReaderInv

LEMMA ReaderKept ==
  ASSUME GuardInv, ReaderInv, [Next]_vars
  PROVE  ReaderInv'
  <1>0. Units \subseteq Units'
    BY UnitsGrow
  <1>1. CASE WriteLine
    <2>1. PICK c \in Call :
            \/ WriteText(Line("use", c))
            \/ Past(c) /\ WriteText(Line("result", c))
      BY <1>1 DEF WriteLine
    <2>2. PICK x \in Units : WriteText(x)
      BY <2>1, LinesAreUnits
    <2> QED BY <2>2, <1>0, WritesKeep DEF WriteText
  <1>2. CASE ResumeLine
    <2> DEFINE x == [kind |-> "end", call |-> NoCall, denied |-> FALSE, error |-> FALSE]
    <2>1. x \in Units
      BY DEF Units, Text, Truthful
    <2>2. WriteText(x)
      BY <1>2 DEF ResumeLine
    <2> HIDE DEF x
    <2> QED BY <2>1, <2>2, <1>0, WritesKeep DEF WriteText
  <1>3. CASE EndLine \/ EndLast
    <2>1. NewLine \in Units
      BY DEF Units
    <2>2. WriteEnd
      BY <1>3 DEF EndLine, EndLast
    <2> QED BY <2>1, <2>2, <1>0, WritesKeep DEF WriteEnd
  <1>4. CASE Replace
    <2>1. /\ session' = [units |-> <<>>, replaced |-> session.replaced + 1]
          /\ view' = view
      BY <1>4 DEF Replace
    <2>2. ReaderOver(session', view, Units)
      BY <2>1, FileReplaced DEF ReaderInv
    <2> QED BY <2>1, <2>2, <1>0, ReaderWider DEF ReaderInv
  <1>5. CASE PollSize \/ ShowTail
    <2>1. view = [pc |-> view.pc, follow |-> view.follow, pos |-> view.pos, size |-> view.size,
                  buf |-> view.buf, shown |-> view.shown, tail |-> view.tail, gen |-> view.gen]
      BY DEF ReaderInv, ReaderOver
    <2>2. Len(session.units) \in Nat /\ view.size \in Nat
      BY LenProperties DEF ReaderInv, ReaderOver
    <2>3. session' = session
      BY <1>5 DEF PollSize, ShowTail
    <2>4. ReaderOver(session, view', Units)
      <3>1. CASE PollSize
        <4>1. view' = [view EXCEPT !.pc = "read", !.size = Len(session.units), !.tail = view.tail]
          BY <3>1, <2>1 DEF PollSize
        <4> QED BY <4>1, <2>2, ReaderGoesOn DEF ReaderInv
      <3>2. CASE ShowTail
        <4>1. view' = [view EXCEPT !.pc = "done", !.size = view.size, !.tail = (view.buf # <<>>)]
          BY <3>2, <2>1 DEF ShowTail
        <4> QED BY <4>1, <2>2, ReaderGoesOn DEF ReaderInv
      <3> QED BY <1>5, <3>1, <3>2
    <2> QED BY <2>3, <2>4, <1>0, ReaderWider DEF ReaderInv
  <1>6. CASE PollRead
    <2> DEFINE over == view.size < view.pos
               from == IF over THEN 0 ELSE view.pos
               got == (IF over THEN <<>> ELSE view.buf)
                        \o SubSeq(session.units, from + 1, Len(session.units))
               pc == IF view.follow THEN "poll" ELSE "end"
    <2>1. session' = session
          /\ view' = [view EXCEPT !.pc = pc,
                   !.pos = IF Len(session.units) > from THEN Len(session.units) ELSE from,
                   !.buf = Remainder(got),
                   !.gen = IF from = 0 THEN session.replaced ELSE @,
                   !.shown = (IF over THEN <<>> ELSE @) \o Complete(got)]
      BY <1>6 DEF PollRead
    <2>2. over \in BOOLEAN
      OBVIOUS
    <2>3. ReaderOver(session, view, Units)
      BY DEF ReaderInv
    <2>4. ReaderOver(session, view', Units)
      <3>1. PICK o \in BOOLEAN : o = over
        BY <2>2
      <3>2. PICK k : k = from
        OBVIOUS
      <3>3. PICK g : g = got
        OBVIOUS
      <3>4. k = (IF o THEN 0 ELSE view.pos)
        BY <3>1, <3>2
      <3>5. g = (IF o THEN <<>> ELSE view.buf)
                  \o SubSeq(session.units, k + 1, Len(session.units))
        BY <3>1, <3>2, <3>3
      <3> HIDE DEF over, from, got, pc
      <3>6. view' = [view EXCEPT !.pc = pc,
                   !.pos = IF Len(session.units) > k THEN Len(session.units) ELSE k,
                   !.buf = Remainder(g),
                   !.gen = IF k = 0 THEN session.replaced ELSE @,
                   !.shown = (IF o THEN <<>> ELSE @) \o Complete(g)]
        BY <2>1, <3>1, <3>2, <3>3, Zenon
      <3>7. ReadsTo(session, view, view', o, k, g, pc)
        BY <3>4, <3>5, <3>6, Zenon DEF ReadsTo
      <3> QED BY <2>3, <3>1, <3>7, ReaderReads, Zenon
    <2> HIDE DEF over, from, got, pc
    <2>5. ReaderOver(session', view', Units)
      BY <2>1, <2>4
    <2> QED BY <2>5, <1>0, ReaderWider DEF ReaderInv
  <1>7. CASE UNCHANGED sessionVars
    <2>1. session' = session /\ view' = view
      BY <1>7 DEF sessionVars
    <2>2. ReaderOver(session', view', Units)
      BY <2>1 DEF ReaderInv
    <2> QED BY <2>2, <1>0, ReaderWider DEF ReaderInv
  <1>8. \/ WriteLine \/ ResumeLine \/ EndLine \/ EndLast \/ Replace \/ PollSize \/ PollRead
        \/ ShowTail \/ UNCHANGED sessionVars
    BY DEF Next, Executor, ExecutorEnds, View, vars, sessionVars
  <1> QED BY <1>1, <1>2, <1>3, <1>4, <1>5, <1>6, <1>7, <1>8

\* The refused calls are a finite set: each was decided by a step of its own.
LEMMA DenialsStayFinite ==
  ASSUME GuardInv, NEW c \in Call, Ask(c) \/ Decide(c) \/ Run(c), IsFiniteSet(Denials)
  PROVE  IsFiniteSet(Denials')
  <1>1. \A d \in Call \ {c} : calls'[d] = calls[d]
    <2>1. CASE Ask(c)
      BY <2>1 DEF Ask, GuardInv
    <2>2. CASE Decide(c)
      BY <2>2 DEF Decide, GuardInv
    <2>3. CASE Run(c)
      BY <2>3 DEF Run, GuardInv
    <2> QED BY <2>1, <2>2, <2>3
  <1>2. Denials' \subseteq Denials \cup {c}
    BY <1>1 DEF Denials, Refused, At
  <1>3. IsFiniteSet(Denials \cup {c})
    BY FS_AddElement
  <1> QED BY <1>2, <1>3, FS_Subset

\* What the executor's result names is the refused calls, each once.
LEMMA ResultNames ==
  ASSUME IsFiniteSet(Denials), NEW order \in [1 .. Cardinality(Denials) -> Denials],
         \A c \in Denials : \E i \in DOMAIN order : order[i] = c
  PROVE  Names([i \in DOMAIN order |-> calls[order[i]].tool])
  <1>1. PICK n \in Nat : n = Cardinality(Denials)
    BY FS_CardinalityType
  <1>2. PICK o : o = [i \in DOMAIN order |-> calls[order[i]].tool]
    OBVIOUS
  <1>3. DOMAIN order = 1 .. n /\ \A i \in 1 .. n : order[i] \in Denials
    BY <1>1
  <1>4. o = [i \in 1 .. n |-> calls[order[i]].tool]
    BY <1>2, <1>3
  <1>5. o \in [1 .. n -> {calls[c].tool : c \in Denials}]
    BY <1>3, <1>4
  <1>6. Len(o) = n /\ DOMAIN o = 1 .. n
    BY <1>5, FunctionIsSeq
  <1>7. {o[i] : i \in DOMAIN o} = {calls[c].tool : c \in Denials}
    <2>1. ASSUME NEW i \in 1 .. n PROVE o[i] \in {calls[c].tool : c \in Denials}
      BY <1>5
    <2>2. ASSUME NEW c \in Denials PROVE \E i \in 1 .. n : o[i] = calls[c].tool
      BY <1>3, <1>4
    <2>3. {o[i] : i \in 1 .. n} \subseteq {calls[c].tool : c \in Denials}
      BY <2>1
    <2>4. {calls[c].tool : c \in Denials} \subseteq {o[i] : i \in 1 .. n}
      BY <2>2
    <2> QED BY <1>6, <2>3, <2>4
  <1>8. Names(o)
    BY <1>1, <1>6, <1>7 DEF Names
  <1> QED BY <1>2, <1>8

LEMMA DenialsKept ==
  ASSUME GuardInv, RecordsInv, DenialsInv, [Next]_vars
  PROVE  DenialsInv'
  <1>1. CASE Executor
    <2>1. IsFiniteSet(Denials')
      BY <1>1, DenialsStayFinite DEF Executor, DenialsInv
    <2>2. run.pc = "running" /\ run' = run
      BY <1>1 DEF Executor
    <2> QED BY <2>1, <2>2 DEF DenialsInv, RefusalsIn
  <1>2. CASE ExecutorEnds
    <2>1. PICK exit \in {0, 1}, order \in [1 .. Cardinality(Denials) -> Denials] :
            /\ \A c \in Denials : \E i \in DOMAIN order : order[i] = c
            /\ Closed(exit, [i \in DOMAIN order |-> calls[order[i]].tool])
      BY <1>2 DEF ExecutorEnds
    <2>2. PICK named : named = [i \in DOMAIN order |-> calls[order[i]].tool]
      OBVIOUS
    <2>3. Names(named)
      BY <2>1, <2>2, ResultNames DEF DenialsInv
    <2>4. \A c \in Call : calls'[c] = Known(IF Past(c) THEN calls[c].pc ELSE "cut", calls[c].tool)
      BY <1>2 DEF ExecutorEnds
    <2>5. \A c \in Call : (Refused(c)' <=> Refused(c)) /\ calls'[c].tool = calls[c].tool
      <3> TAKE c \in Call
      <3>1. /\ calls'[c].pc = IF Past(c) THEN calls[c].pc ELSE "cut"
            /\ calls'[c].tool = calls[c].tool
        <4>1. PICK pc : pc = IF Past(c) THEN calls[c].pc ELSE "cut"
          OBVIOUS
        <4>2. calls'[c] = Known(pc, calls[c].tool)
          BY <2>4, <4>1
        <4> QED BY <4>1, <4>2 DEF Known
      <3>2. Refused(c)' <=> calls'[c].pc = "refused"
        BY DEF Refused, At
      <3> QED BY <3>1, <3>2 DEF Refused, At, Past
    <2>6. Denials' = Denials
      BY <2>5 DEF Denials
    <2>7. {calls'[c].tool : c \in Denials'} = {calls[c].tool : c \in Denials}
      BY <2>5, <2>6 DEF Denials
    <2>8. Names(named)'
      BY <2>3, <2>6, <2>7 DEF Names
    <2>9. PICK output \in {named, NoRecord} :
            run.pc = "running" /\ run' = [run EXCEPT !.pc = "digest", !.exit = exit, !.output = output]
      BY <2>1, <2>2 DEF Closed
    <2>10. run'.pc = "digest" /\ run'.output = output /\ run'.receipt = run.receipt
      BY <2>9 DEF RecordsInv
    <2>11. run.receipt = NoRecord
      BY <2>9 DEF DenialsInv
    <2> QED BY <2>6, <2>8, <2>9, <2>10, <2>11 DEF DenialsInv
  <1>3. CASE Records /\ UNCHANGED guardVars
    <2>1. UNCHANGED calls
      BY <1>3 DEF guardVars
    <2>2. Denials' = Denials /\ \A o : Names(o)' <=> Names(o)
      BY <2>1 DEF Denials, Names, Refused, At
    <2>3. CASE WriteReceipt
      <3>1. /\ run.pc # "running" /\ run'.pc # "running" /\ run'.output = run.output
            /\ run'.receipt = Receipt(run.exit, run.output, run.baseline, run.gate)
        BY <2>3 DEF WriteReceipt, RecordsInv
      <3>2. run'.receipt.refusals = RefusalsIn(run.output)
        BY <3>1 DEF Receipt, RefusalsIn
      <3> QED BY <2>2, <3>1, <3>2 DEF DenialsInv
    <2>4. CASE TakeDigest \/ TakeGate \/ WriteStatement \/ Outcome \/ KillLaunch
      <3>1. /\ run.pc # "running" /\ run'.pc # "running" /\ run'.output = run.output
            /\ run'.receipt = run.receipt
        <4>1. CASE TakeDigest
          BY <4>1 DEF TakeDigest, RecordsInv
        <4>2. CASE TakeGate
          BY <4>2 DEF TakeGate, RecordsInv
        <4>3. CASE WriteStatement
          BY <4>3 DEF WriteStatement, RecordsInv
        <4>4. CASE Outcome
          BY <4>4 DEF Outcome, RecordsInv
        <4>5. CASE KillLaunch
          BY <4>5 DEF KillLaunch, RecordsInv
        <4> QED BY <2>4, <4>1, <4>2, <4>3, <4>4, <4>5
      <3> QED BY <2>2, <3>1 DEF DenialsInv
    <2> QED BY <1>3, <2>3, <2>4 DEF Records
  <1>4. CASE UNCHANGED <<calls, run>>
    <2>1. Denials' = Denials /\ (\A o : Names(o)' <=> Names(o))
      BY <1>4 DEF Denials, Names, Refused, At
    <2> QED BY <1>4, <2>1 DEF DenialsInv, RefusalsIn
  <1>5. Executor \/ ExecutorEnds \/ (Records /\ UNCHANGED guardVars) \/ UNCHANGED <<calls, run>>
    BY DEF Next, WriteLine, ResumeLine, EndLine, EndLast, PlaceHalt, vars, guardVars
  <1> QED BY <1>1, <1>2, <1>3, <1>4, <1>5

LEMMA ToldInvariant == Spec => [](GuardInv /\ ToldInv)
  <1>1. Init => ToldInv
    <2> SUFFICES ASSUME Init PROVE ToldInv
      OBVIOUS
    <2>1. /\ session = [units |-> <<>>, replaced |-> 0]
          /\ \E follow \in BOOLEAN :
               view = [pc |-> "poll", follow |-> follow, pos |-> 0, size |-> 0, buf |-> <<>>,
                       shown |-> <<>>, tail |-> FALSE, gen |-> 0]
      BY DEF Init, SessionInit
    <2>2. /\ <<>> \in Seq(Units) /\ <<>> \in Seq(Units \ {NewLine})
          /\ <<>> \in Seq(Seq(Units \ {NewLine})) /\ Len(<<>>) = 0
      BY EmptySeq
    <2>3. HasRead(view, SubSeq(session.units, 1, view.pos))
      <3>1. SubSeq(session.units, 1, view.pos) = <<>>
        BY <2>1, SubSeqEmpty
      <3>2. Complete(<<>>) = <<>> /\ Remainder(<<>>) = <<>>
        <4>1. Split(<<>>).lines = <<>> /\ Split(<<>>).rest = <<>>
          BY SplitNone DEF Begun
        <4> QED BY <4>1 DEF Complete, Remainder
      <3>3. view.shown = <<>> /\ view.buf = <<>>
        BY <2>1
      <3> QED BY <3>1, <3>2, <3>3, Zenon DEF HasRead
    <2>4. ReaderInv
      BY <2>1, <2>2, <2>3 DEF ReaderInv, ReaderOver
    <2>5. Denials = {}
      BY DEF Init, GuardInit, Denials, Refused, At, Known
    <2>6. run.pc = "running" /\ run.receipt = NoRecord
      BY DEF Init, RecordsInit
    <2> QED BY <2>4, <2>5, <2>6, FS_EmptySet DEF ToldInv, DenialsInv
  <1>2. GuardInv /\ RecordsInv /\ ToldInv /\ [Next]_vars => ToldInv'
    BY ReaderKept, DenialsKept DEF ToldInv
  <1> QED BY <1>1, <1>2, GuardInvariant, RecordsInvariant, PTL DEF Spec

\* "Only newline-terminated lines are handed out" (render_session.py:215): for
\* any session, wherever it is cut when it is polled, and however often it is
\* replaced, what is shown of the file that is there is the beginning of its
\* lines, in order and each once.
THEOREM LinesInOrder == Spec => []ShownInOrder
  <1>1. ToldInv => ShownInOrder
    BY ShownIsPrefix DEF ToldInv, ReaderInv, ShownInOrder
  <1> QED BY <1>1, ToldInvariant, PTL

\* "A blocked action never renders as successful work" (render_session.py:14)
\* and "count is the array's length" (write_receipt.py:97): for any number of
\* calls, however they overlap, a call that was refused is shown as a refusal
\* and no other is, and the receipt counts them, unless the output was lost.
THEOREM RefusalsAlwaysTold == Spec => []RefusalsAreTold
  <1>1. ToldInv => RefusalsAreTold
    <2> SUFFICES ASSUME ToldInv PROVE RefusalsAreTold
      OBVIOUS
    <2>1. ASSUME NEW i \in DOMAIN view.shown, Readable(view.shown[i]),
                 view.shown[i][1].kind = "result"
          PROVE  Mark(view.shown[i]) = "refusal" <=> Refused(view.shown[i][1].call)
      <3>1. view.shown \in Seq(Seq(Units \ {NewLine}))
        BY DEF ToldInv, ReaderInv, ReaderOver
      <3>2. view.shown[i] \in Seq(Units \ {NewLine})
        BY <3>1, SeqTypes
      <3>3. PICK t : t = view.shown[i][1]
        OBVIOUS
      <3>4. t \in Units \ {NewLine}
        BY <2>1, <3>2, <3>3, SeqTypes DEF Readable
      <3>5. t.kind = "result" /\ (t.denied <=> Refused(t.call))
        BY <2>1, <3>3, <3>4 DEF Units, Truthful
      <3>6. Mark(view.shown[i]) = IF t.denied THEN "refusal" ELSE IF t.error THEN "error" ELSE "outcome"
        BY <2>1, <3>3, <3>5 DEF Mark
      <3> QED BY <3>3, <3>5, <3>6
    <2>2. ASSUME run.receipt # NoRecord
          PROVE  \/ run.receipt.refusals.count = Cardinality(Denials)
                    /\ run.receipt.refusals.tools = {calls[c].tool : c \in Denials}
                 \/ run.output = NoRecord /\ run.receipt.refusals.count = 0
      <3>1. run.receipt.refusals = RefusalsIn(run.output)
            /\ (run.output = NoRecord \/ Names(run.output))
        BY <2>2 DEF ToldInv, DenialsInv
      <3>2. CASE run.output = NoRecord
        BY <3>1, <3>2 DEF RefusalsIn
      <3>3. CASE run.output # NoRecord
        <4>1. Names(run.output) /\ RefusalsIn(run.output)
                = [count |-> Len(run.output), tools |-> {run.output[i] : i \in DOMAIN run.output}]
          BY <3>1, <3>3 DEF RefusalsIn
        <4>2. PICK n : n = Len(run.output)
          OBVIOUS
        <4>3. PICK named : named = {run.output[i] : i \in DOMAIN run.output}
          OBVIOUS
        <4>4. n = Cardinality(Denials) /\ named = {calls[c].tool : c \in Denials}
          BY <4>1, <4>2, <4>3, Zenon DEF Names
        <4>5. run.receipt.refusals = [count |-> n, tools |-> named]
          BY <3>1, <4>1, <4>2, <4>3, Zenon
        <4>6. run.receipt.refusals.count = n /\ run.receipt.refusals.tools = named
          BY <4>5
        <4> QED BY <4>4, <4>6, Zenon
      <3> QED BY <3>2, <3>3
    <2> QED BY <2>1, <2>2 DEF RefusalsAreTold
  <1> QED BY <1>1, ToldInvariant, PTL
=============================================================================
