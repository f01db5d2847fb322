# harness-pack in TLA+

A verification project for the scripts that launch, fence and record headless
worker runs: TLA+ models of what the code does, TLC runs on small instances,
and TLAPS proofs for every instance.

## 1. The system

A *launcher* (`scripts/launch_worker.sh`) runs one spec (a *slice*) of a ledger
`harness.json` through one headless executor. Around it stand short-lived
helpers, each a process of its own, and all state is files.

| component | source | state it keeps | operations | what makes it correct |
|---|---|---|---|---|
| lease | `slice_lease.py` | one file per key in `.harness/locks/`, staging files | acquire (stage, write, `link`), break aside (`rename`), release, sweep | two live sessions never hold one key; a dead holder strands nothing; a late release spares its successor |
| launcher | `launch_worker.sh` | shell variables, receipt directory, EXIT trap | single launch, sequence, dry run | spawn only a spec that `next` names, under both leases, after the declaration is anchored; one receipt per spawned run; red means stop |
| checks and mark | `launch_checks.py` | `harness.json`, `.conformance/completions.json` | resolve tier, hash, validate passed, mark passed | a passed mark always has its evidence, whatever crashes |
| anchors | `conformance_anchor.sh` | a git ref in the ledger repo, `anchors/` | append an entry by compare-and-swap | nothing acknowledged is ever lost; declaration before stream |
| builder and verifier | `conformance_record.py`, `conformance_verify.py` | record, anchors, stream | build record, verify | a record that verifies is one the stream and the anchored declaration imply |
| receipt chain and index | `receipt_chain.py`, `receipts_index.py`, `rollup_due.sh`, RS-001 | JSONL chain, index, archive, the commit | append, verify, gate, backfill, rollup and its resume | the committed chain verifies and names what is archived, across crashes; chain and index agree unless something was cut short |
| guard | `guard_pretooluse.py` | reads the `HALT` file | decide one tool call | once HALT stands every tool call is refused, from wherever it is made |
| receipt and Statement | `write_receipt.py`, `write_statement.py`, the tail of `launch_worker.sh` | one JSON file each | compose from exit, result, two gates | they say of the run what its exit code says |
| session renderer | `render_session.py` | position and buffer in a growing file | poll, start over, mark each line | each line once, in order; a refused call never looks like work |
| statistics | `harness_stats.py` | none; reads four files one after the other | merge, chain cell | a run is not lost or shown twice because a rollup moves it; no false alarm |
| publication boundary | `statement_lint.py` | pinned baseline, declared census | judge a Statement, judge the tracked tree | nothing private travels that was not declared |
| path transform | `path_transform_verify.py`, the citation in `conformance_verify.py` | none | check, undo | evidence is what was measured, or the whole image of it |
| watch | `conformance_watch.py` | offset in a growing stream, state line | tail and tally | the tally equals the builder's |
| graft | `graft_init.sh` | target tree | fresh graft, add, rollback | all or nothing |
| checks of one document | `dossier_check.py`, spec lint, gates | none | read and print | pure functions of their inputs |

How they meet: launchers share the locks directory and one `harness.json` per
worktree, the anchors ref is shared by every worktree of the ledger repository,
the receipts directory by launchers, one rollup and any number of reports, and HALT
is a file that the launcher reads once and the guard reads at every tool call of the
executor. The executor's session file is read by the renderer while it grows. The
record of a run, its Statement and its evidence end in the tracked tree, which the
publication boundary judges before a push. External parts: `harnesswright next`
(judges eligibility from `harness.json` and from the mere presence of lock files),
`verity` (the black-box gate), the `claude` child, git.

What is hard here: several launchers interleave in system calls; any of them can
be SIGKILLed, which runs no trap; leases expire under a run that has no wall
bound; `next` is read before the leases are taken; anchors race on one ref and
on one scratch file; the rollup has five steps and no journal, receipts are written in
place under it, and reports read beside it without a lease; two readers follow files
that are being written, cut and replaced; and what may be published is a sum over a
history of commits.

The properties each component needs are in the last column of the table; the
places where they could fail without a test noticing are listed, line by line,
under `hazards` in `PROJECT.json`, each with the properties that watch it.

## 2. The modules

```
LeasePromise  <--implements--  SliceLease      (+ SliceLeaseProofs)
     ^ EXTENDS
Launcher      (+ LauncherProofs)
     ^ EXTENDS
Sequence      (+ SequenceProofs, which EXTENDS LauncherProofs too)

LedgerPromise <--implements--  AnchorLedger    (+ AnchorLedgerProofs)

StreamFacts   <--EXTENDS--     Conformance   --.   (+ ConformanceProofs, of both)
Publication                                  --+-> MCConformance

ReceiptLog    <--implements--  Rollup  <--EXTENDS--  Dashboard   (+ RollupProofs, of both)

Guard, SessionView, RunRecords <--EXTENDS--  Worker   (+ WorkerProofs)
```

`MC*.tla` give the constants of the runs; `*Proofs.tla` hold the theorems. The last three
of these extend `DataInduction`, lemmas on sets of numbers, sequences and finite sets.

### LeasePromise and SliceLease (`slice_lease.py`)

`LeasePromise` is the abstract lease: Grant, Refuse, GiveBack, Reclaim of a stale
record, the passing of time, the death of a launcher, each atomic. `SliceLease` is
the code. A run is one launcher process; `op[r]` is the helper it has in flight,
with the program counter of `cmd_acquire` (stage, write, link, read, judge, break,
contended), `cmd_release` (relread, relexists, unlink) or `cmd_sweep` (sweep, swjudge,
swbreak), one action per system call that another process can see. `locks` is the
directory, `lease` what each launcher was told. A killed launcher's helper dies or
runs on. A staging file's unfinished record is `Unreadable`. Clocks are read where
the code reads them: once per attempt in acquire (`stamp`), fresh in the staleness
test, once per sweep. `alive` and `locks` are read as the code reads them, in
different steps; so are the two looks of a release, the record and, if there was none to
compare, whether the name exists (`relexists`): a successor may link its own between them.

### LedgerPromise and AnchorLedger (`conformance_anchor.sh`)

`LedgerPromise` is an append-only ledger that takes a run's declaration and then
its stream. `AnchorLedger` has the steps of the script: head read, statement file
opened (truncated), written, hashed, removed, ref swapped against the head read,
up to three tries. All depositors of a ledger repository use one file name,
`.anchor-statement.json`; `linked` says whether the file a depositor has open still
has that name. `Garbled` is an empty file or one statement over a longer one.
`chain` is the ref's history, `entry` the ids that were answered.

### Launcher (`launch_worker.sh`, `launch_checks.py`)

One process per launch, from the HALT check to the EXIT trap: `validate` and
`support` (the two reads of validate-passed), `list` and `sweep` (the lease
sweep), `locks` (the two reads of `next`), `claim` and `claimSlice` (both leases),
`baseline`, `declare`, `spawn`, `wait`, `gate`, then the six steps of mark-passed,
and `freeSlice`, `freeWorkspace` (the trap, under `set -e`: a release that answers 3 because
another run has the key ends it there, with that code). `harness` and `completions` are
harness.json and completions.json with a truncated state, `Torn`, between
`open("w")` and the close; each launch has its own copies (`marks`, `bindings`) of
what it read. `child` is the executor. What the gate and the verifier find is
nondeterministic: `pass`, `conf` (only of an anchored declaration). Refusals that
depend on one launch alone (tier, budget, tools, constitution hash) are the second
disjunct of `ReadLocks`. The leases are those of LeasePromise: that `slice_lease.py` gives
them is SliceLease's matter, and section 5 says where it does not. A hand edit of harness.json
(`HandMark`) happens never, anytime, or "between": not while a launch stands between its
validate-passed and its `next`, nor while a mark-passed holds a copy it will write back.

### Sequence (`launch_worker.sh`, lines 120-262)

The loop beside the launches: sweep, `next`, the guard against a slice that made
no progress (`prev`), the spec lookup, the re-entry of the launcher, its exit code,
the scope check. The operator may launch directly beside it (`Direct`), and start a
sequence again.

### StreamFacts and Conformance (`conformance_record.py`, `_verify`, `_watch`, `_narrow`)

`StreamFacts` is what each reader makes of the lines: the builder follows parents
up (`DepthByChain`), the verifier gives out depths from the top down
(`DepthByRounds`), the watcher feeds one event at a time (`Feed`). The first two look at a
line for what it says and not for where it stands, so their input is the set of lines; the
watcher's is the sequence. `Verdict` has the verifier's exits in their order. `Conformance` has the file: an executor appends
lines, seen in parts, and may be killed inside one; the watcher takes the size,
then reads; builder and verifier run when the executor is gone. A line is three
bytes: text and newline. Its text is `plain`, or `split`: one character of several
bytes, which `str.splitlines` takes for a line end; `Decoded` is what the watcher's text
read has of the bytes. The opening line the launcher
writes, and events without tool blocks, are not in the model: no reader counts them.

### Publication (`statement_lint.py --surface`, `path_transform_verify.py`)

The tracked tree of HEAD as five files, of which each stands for a kind the lint tells
apart: a run's evidence, the record that pins its digest, the transform rule, the
declaration of literals, and any other file. A file is a sequence of
tokens (`Token`), `Hits` where one stands and `Occurrences` all of a class in a tree; the census
counts these. `Charged` is what the lint charges a file with, per class and never less than zero; `ExemptRule`, `ExemptDeclaration`, `Pinned` its
three exemptions, the first as the code has it, by where a slot's string is found; `Entitled` is who may
carry what by the words of the code, occurrence by occurrence, a rule in its two slots only. `CensusOf` and `Moved` the check that the baseline is what was declared
of it; `Surface` its exits in their order. `Transformed` is path_transform_verify, `Admitted`
the digest check of the verifier with the transformation a record may cite. A history is
any sequence of commits of one file, of pinning a baseline with a right, wrong or absent
declaration, and of adding a remote. `MCConformance` puts it beside Conformance: a record's
life goes on in the tree. The two share no variable, so their histories are followed apart
(`Streaming`, `Publishing`), which leaves out no reachable state of either.

### ReceiptLog, Rollup and Dashboard (`receipt_chain.py`, `receipts_index.py`, RS-001, `harness_stats.py`)

`ReceiptLog` is what the commit of a rollup promises: a log that only grows, and an archive
the log names. `Rollup` is the commands: R1 the list, R2 chain, R2b index, R3 one `git mv` at a
time (which refuses an untracked file), R4 gate and counts, R5 the commit, with the resume by
set difference. A file is its terminated lines and what follows the last newline, so an append
cut inside a line, and the next append that joins to it, come out as the code has them
(`CutShort`, `Write`); a text that was cut is `Cut`, and a line without a readable name has `NoName`.
A line is what was written, a hash is what it hashes. Receipts are
created and filled in two steps by writers that go on when the file has been moved, and may be
killed. `mishap` remembers that something was cut or stopped. `Dashboard` is a report that
reads index, loose receipts, chain, HEAD and gate one after the other, at any time.

### Guard, SessionView, RunRecords and Worker (`guard_pretooluse.py`, `render_session.py`, `write_receipt.py`, `write_statement.py`, `launch_worker.sh`)

`Guard` is the decision of the hook on calls that overlap: HALT looked for upwards from the
payload's directory and from the project's, then scope, then destructive commands; between
decision and execution HALT may appear. `SessionView` is the reader of the growing file:
the size, then the read, the lines and the buffer of an unfinished one (`Split`), starting over when the file is
shorter than what was read, and the mark of a line. `RunRecords` is the tail of a launch after
its executor: transcript digest, second gate, receipt, Statement, exit code, and the lint's
judgement of the Statement. `Worker` is the run they are parts of: each call writes its lines
in the session's file, the executor ends with the refusals in its result, the receipt is
written from them.

## 3. What TLC checks

| run | instance | shows |
|---|---|---|
| `lease_serial` | 3 launchers, one on another host, one killable; 2 keys; helpers one at a time; TTL 1, clock to 1 | the code implements LeasePromise; MutualExclusion |
| `lease_race` | 2 launchers, one killable; 1 key; helpers overlap; TTL 1, clock to 2; one retry; fair | complete locks, dating, LossIsAStaleRead; every helper returns, no key is stranded |
| `lease_two_breakers` | 3 launchers, one killed, no expiry | a counterexample: two live holders |
| `anchor_exclusive` | 3 runs, deposits one at a time, all killable | the script implements LedgerPromise; every closed run's record verifies, no deposit is refused |
| `anchor_race` | 2 runs, all interleavings, killable | append-only; declaration first, predecessor right |
| `anchor_rivals` | the same without kills | a counterexample: an answered entry with another's digest |
| `launch_wild` | 2 launches, 2 slices, expiry, orphans, HALT, hand marks "between" | bindings earned, executors built on evidence, overlaps and lost updates only over a lapsed lease, nothing kept but by a trap that was cut short |
| `sequence` | 2 runs, one also for a direct launch and killable with what it started, 2 slices, 2 starts, the loop killable, HALT; fair | one live run, no slice skipped or launched twice, COMPLETE is true, marks bound; sequences and launches end |
| `conformance` | all streams of 2 calls and 2 tools, one line split, cut anywhere; 2 declarations; beside it 5 tracked files, 4 evidence texts, 3 rules, 3 notes, 3 declarations, 4 baselines | the verdict is the run's, the watcher misses nothing, its alarm is true and stays, the narrowing holds; nothing new travels, published evidence is whole |
| `conformance_separator` | the same | a counterexample: DIVERGENT for a conformant run |
| `receipts` | 2 receipts, one with a killable writer; threshold 1; 3 rollups, resumes, backfills and reports together | committed chains verify, archived receipts are hashed as they are, mishaps alone explain an alarm, the commit is atomic |
| `worker` | 2 overlapping calls from 3 directories or none named, HALT in the project; 4 units of session, one replacement; 2 criteria | what runs was allowed, lines shown once in order, refusals told, the Statement tells the run |

The bounds. Exclusion is broken by two, and three launchers let a third profit from
what two left behind; no action counts launchers or looks at more than its own
helper, its key and one record, and the theorems have no bound. TTL 1 with a clock
that goes to 1 or 2 has a lease that is fresh, one that just expires, and one taken
after an expiry. Two slices have a first, a second behind a mark, and a last. Three
tries are the code's. One retry has the attempt after a break and the exhausted one.
Two calls have a delegation and its child, a child of a delegation that failed, and
depth above and below what is declared; the names of calls are their order, which no
reader looks at except to sort. Two receipts have one before a kill and one after it, and an
order; three acts are a rollup, its resume or a second one, and a backfill or a report; a
threshold of one lets a rollup begin with the first receipt. Two calls overlap, the second
asked before or after HALT; four units are two lines, or one after a torn one, and a
replacement is followed by growth past the old position and by less. The reader and the
launcher's tail share no variable, and the reader sees of a call only its end, so the
constraint `Apart` follows them one at a time. The tokens of Publication are one of each
class, one the machine's own path holds twice over (home within users), the replacement and
plain text; a rule says no more than its slots, or its pattern again, or something of its own;
evidence holds a path twice, half and wholly replaced; the notes gain, pin or
declare; a baseline is a tree before or after the evidence.

Fairness. `HelperReturns` and `NoStrandedKey` assume that a helper in flight of a live launcher
goes on, none of whose steps waits for another process. Nothing makes a launcher start one: the
code sweeps once per launch (`launch_worker.sh:271`) and once per iteration of a sequence (164), so
`NoStrandedKey` says what one sweep or claim does, that a dead holder's record it has still to read
is gone in the end, and says nothing of a key nobody sweeps or claims again.
`SequenceEnds` and `LaunchEnds` assume that launcher and loop go on and that an
executor ends: a spec with neither turns nor wall clock is refused
(`launch_worker.sh:336-347`), so it is bounded. No fairness is assumed of the operator,
of kills or of the clock, and none of the stream: the properties of `Conformance` are
safety properties.

CHECK_DEADLOCK is off in all runs because the systems end: launches are made once
each, clocks and starts are bounded, a stream is judged and that is all.

## 4. What is proved

All theorems hold for any number of launchers, keys, slices, tries and clock values.

**SliceLeaseProofs.** `IInv` is inductive: records a run is granted are its own and no
lock is half a record (OwnRecords), a helper works on a key in the matching state,
drafts carry the stamp of their attempt, what is about to be broken was judged stale,
and a run's own record, once gone, does not come back, so that what a release goes on from is
its own record or none at all (OwnSeen). It gives `TypeOK`, `LockIsComplete` and, by the step from
it, `DatedAfterBreak` and `LossIsAStaleRead`: a lease is lost only to another helper whose one read
of the name is out of date, a breaker's, a release's that read its own record, or a release's that
read none and whose later exists saw the new holder's. Two regimes give
the promise itself. With nobody dying and nothing expiring (CalmRegime: `Mortal = {}`,
`MaxClock < TTL`) the code implements LeasePromise with any concurrency, and
`MutualExclusion` follows; with helpers one at a time (SerialRegime: `MaxInFlight = 1`) it
does so under any deaths and expiries, because what a helper read is still there when it
acts. `PromiseKeepsLock` proves exclusion of the abstract lease, once, for both.

**AnchorLedgerProofs.** In every regime the types, `AppendOnly`, `AnswersStand`,
`DeclarationFirst` and `NamesItsPredecessor` hold; `DepositInv` adds to them that answers match
the stage a run is in and that a depositor's own statement is for the head it read.
With deposits one at a time (`Exclusive`), `ExclusiveInv` (file and head are what the
depositor left, the chain holds each run and role once) gives `RecordsVerify` and that the
script implements LedgerPromise.

**LauncherProofs.** `StageInv` (types and what a launch has behind it at each step) is
inductive; so is `EvidenceInv`. It says that both files' bindings and the copies of them claim only
what was earned, whatever is edited: `BindingsAreEarned`, in every regime. Of marks it speaks of the
*views* that exist of them: harness.json, and the copies a launch is still going to use (`IsView`). As
long as an edit waits for no launch to be between a read and what it builds on it ("never" or
"between"), all views have the same marks that nobody earned (`ViewsAgree`), a launch that
validate-passed let through has shown that there are none (`ValidatedViews`), and one past `next` has
only earned slices before its own (`PathIsEarned`): that is `BuiltOnEvidence`, with hand marks, as the
run `launch_wild` has them. With edits anytime (`HandMarks = "anytime"` there) it is false.

**SequenceProofs.** First the launches beside each other, in every regime: leases expire, executors
outlive their launchers, anyone is killed, files are edited. A launcher keeps each lock it was granted
until it lets it go, dies or its TTL runs out (`LeaseHeld`), and one that works in the worktree has had
the workspace's lease granted (`HolderStands`). So of two live runs one has a lapsed lease
(`OverlapIsExplained`), and between the reads and the writes of an entitled run's mark-passed another
run writes only over a lapsed lease of its own (`UpdateLossIsExplained`): what the code does not prevent
(expiry, orphans) is named in the property, not excluded by an assumption. `KeptInv` ties what a launch
still holds to where it stands (nothing before its first grant, the workspace alone while it asks for
the slice and once the trap has let the slice go, and both where the trap was cut short), and gives
`NothingKept`.

Narrower regimes remain where the property is false outside them, and say so. `Fenced` (no lease
expires under its run and an executor does not outlive its launcher) with nobody editing harness.json: while one launch stands between its
reads and its last write no other changes either file, so its copies match (`CopiesMatch`: `harness`
is what it read, `completions` is what it read, torn, or what it wrote, step by step), which gives
`MarksAreBound`. These theorems, and `NeverSkips` and `NeverSpins` below, are about kills between any
two steps and about direct launches and restarts; they are silent on expiry, orphans and edits, under
which updates may be lost.

Then the loop. Every step of Sequence is a step of Launcher, a stutter of it, or a swept
lease, so `EvidenceInv` and the mark invariant carry over. `CompleteIsEarned` needs no regime but
that nobody edits harness.json. For `NeverSkips` and `NeverSpins`, `Progress` says that what an
invocation has launched lies at or before the slice it is at, and that what lies before it is
marked for good (`Kept`: in harness.json, or in the copy about to be written while it is torn);
so `next` can only name a later slice, although the loop remembers the last one alone.

**DataInduction.** The installed provers cannot instantiate a lemma about an operator, so induction
is said of a set: a set of numbers that has 0 and with each number the next is all of them
(`SetInduction`). From it follow that a finite set of numbers has its elements in order (`InOrder`),
that the smaller of two finite sets embeds in the other (`Embeds`), and, in the modules below, that
a recursive function satisfies its equations: a solution exists on `0 .. n` for every n, so
`CHOOSE` finds one.

**RollupProofs.** An append never looks at what it appends to. `Chained` and `Committed` therefore say
what holds of the chain whatever was cut: a file only grows, one with a line that does not parse never
parses again, and if all its lines parse they are linked (`LinksIfParses`) and begin with what HEAD
has. The gate that R4 runs before the commit looks at no link, but only at whether every line parses,
and that is enough: `CommittedVerifies`, `ArchivedAsHashed` (each receipt to be moved has an entry
made after it was listed, `Listed`, with the bytes it has unless its writer was late) and the
refinement of ReceiptLog. `Quiet` is what is true while nothing was cut or stopped (each receipt has
one entry, once appended; chain and index agree except between the two appends), and gives
`QuietIsConsistent`. `BackfillRepairs` is a fact about the texts a backfill writes. For a report,
`Merges` says that what was there when it began is among its rows, in its list or archived since, and
`Alarms` that a broken chain is a mishap; they give `UnionIsJoined` and `AlarmIsEarned`.

**ConformanceProofs.** The stream is `Sound` (`StreamIs`): a call is named after those before it, has an earlier
parent, and one result; so is any part of it, the builder's lines as well as the verifier's. Over a
Sound set the depth found by going up the parents and the one given out in rounds are both the length
of a chain of delegations, by induction over the number of calls; so `Verdict` judges the run, not
the counting. With `FileIs` (the bytes are those of the stream's lines, position by position) that is
`ConfInv`, and gives `PassIsEarned`, `VerdictIsTheRuns` and `NarrowingHolds`. The watcher needs in
addition that each line is new when it comes (`OrderIs`), and `WatchIs`: its text is what the file has between the last
line end before its offset and the offset, and its tally that of the lines before; a read, which may
stop inside a line, keeps both. `WatchedInv` is the three together and gives `WatchMissesNothing`.

The same module has Publication. There `PubInv` only says that tree and baseline are trees; the
argument is in the sums. A file that is charged with nothing has of each class no more hits than at
the baseline, and one that is charged and exempt has none without title (`Untitled`): evidence and
declaration as a whole, a rule because what is not in its two slots is, if it is bare (`RuleIsBare`), no
string of theirs. So the occurrences without title of a passing tree embed, file by file, in the
baseline's, which are those declared (`NothingNewTravels`). A text in which nothing of the pattern is left is the whole image of what
undoing the replacement gives (`EvidenceIsWhole`).

**WorkerProofs.** `GuardInv` (HALT, where a call was made under it, still stands when the hook looks;
only a shell command is destructive; what was let through was allowed) gives `RanWasAllowed` for any tree
of directories and any number of calls; of writes it says that each is below a declared prefix of the
repository it was asked from, which is the project only when it was asked from there or from nowhere;
`RecordsInv` (digest, second gate, receipt and Statement come in that order and each is composed
from what was there) gives `StatementTellsTheRun` for any criteria. `ReaderInv` says of the session's
reader that what it has shown and what it has buffered are what a single reading of the file's first
`pos` units gives, as long as the file is the one it reads (`gen`), and that a reader at 0 has nothing;
a poll then adds what `Split` makes of the buffer and the new units, because splitting a sequence is
splitting its beginning and then the remainder with the rest (`SplitJoin`, by induction over the
length). It gives `ShownInOrder`. A line in the file about a call that is over says whether it was
refused (`Units`, which only grows), the refused calls are a finite set, and the result names each
once (`DenialsInv`): that is `RefusalsAreTold`.

The assumptions are those the modules name (`LeaseAssumption`, `HelperAssumption`,
`AnchorAssumption`, `LauncherAssumption`, `SequenceAssumption`, `GuardAssumption`,
`PublicationAssumption` (a rule's pattern is in some class) and those of the other modules: sets, positive bounds, distinct markers) and the regime a theorem states.

The inductive invariants were model-checked too while the proofs were written, all but the
parts that quantify over all texts or numbers (`Chained`, `OrderIs`, the types of files in
RollupProofs), which TLC cannot evaluate; the runs keep the properties they imply.

Proved and in no run's list, where a deeper property has their place: `TypeOK` of
SliceLease, AnchorLedger and Launcher, `HolderKeepsLock` (by `PromiseSpec`), `AnswersStand` (by
`AppendOnly` with `DepositInv`), `BackfillRepairs` (an action property of the receipts, by
`BackfillMends`); and `MarksAreEarned` while nobody edits harness.json (a lemma), which
`CompleteIsEarned` rests on.

Only model-checked: liveness (`HelperReturns`, `NoStrandedKey`, `SequenceEnds`, `LaunchEnds`), which
rests on fairness and ENABLED, out of the prover's reach; `OneLiveRun`, which
holds in the regime of the run `sequence` (no expiry, no orphans, no edits) and of which the theorem
of `OverlapIsExplained` says what is left elsewhere; and the properties that
fail, whose counterexamples are runs. Every other safety invariant, action property and refinement
of a passing run is a theorem.

## 5. Where the code does not keep its promises

Three disagreements are findings with a run each, whose counterexample TLC prints:

- Two claimers judge one dead holder's lock stale; the slower rename moves the faster
  one's fresh lease aside (`lease_two_breakers`).
- Two depositors share one statement file; one is answered with an entry that anchors the
  other's digest (`anchor_rivals`). The verifier notices: the record does not verify.
- The verifier ends lines where the builder does not (`conformance_separator`).

Five more happen in the passing runs, where the property beside them says in which cases only:

- A release whose lease ran out and was swept reads no record, so it compares no run id; if a successor
  links its own before `os.path.exists` is asked, the release unlinks that, against the docstring of
  `slice_lease.py` (22-24: "the successor's claim is not ours to delete"). `LossIsAStaleRead` says that
  this, a release that read its own record before it was broken, and a late breaker are the only ways;
  without its last disjunct it fails in `lease_race`.
- A lease is dated at its claim and never renewed: at its TTL a second launch enters the worktree
  beside the first, against `launch_worker.sh:438` ("one git index, one live run"). `OverlapIsExplained`
  says that nothing else lets one in, but a launcher that is SIGKILLed alone and leaves its executor
  running; `OneLiveRun` fails in the instance of `launch_wild`.
- harness.json is read by validate-passed and again by `next`: a status set in between is built on,
  against `launch_worker.sh:260-262` ("a mark with nothing behind it is a STOP here, before anything is
  built on top of it"). With `HandMarks = "anytime"`, `BuiltOnEvidence` fails in `launch_wild`.
- A release that answers 3 ends the EXIT trap under `set -e`: a run whose gate passed exits 3, against
  `launch_worker.sh:913-914`, and its workspace lease stays until a sweep finds its process gone.
  `NothingKept` says that nothing else leaves a lease behind.
- `statement_lint.py` finds a rule's slots by their strings, wherever these stand (566-570): a note
  beside them that repeats the pattern is exempt with it, which the docstring (554-556) calls "a leak
  wearing a rule's shape" and the header of the bypass fixture (28-29) wants refused.
  `NothingNewTravels` has the rest, of rules that say it once; without `RuleIsBare` it fails in `conformance`.

Another has its property beside the others of Launcher, `NoPassedSliceSpawned`, and no run
of its own: `next` is read before the leases are taken and not again, so a slow launcher
claims a slice that was passed meanwhile and spawns on it.

And these hold of the models, outside the regimes of the theorems:

- A launcher that is SIGKILLed alone leaves its executor running; its leases count as
  stale at once, and the next launch works beside it: with `Orphans = TRUE`, `OneLiveRun`
  fails; as after an expiry, an update of harness.json may be lost.
- `conformance_watch.py` seeks in bytes and reads in characters: with text that is not ASCII
  and a file that grew since its size was taken, it reads lines twice and loses others, and a
  character cut in two ends it. Without its condition `AllPlain`, `WatchMissesNothing` fails.
- A delegation that ran nothing, or one that failed although its child's call ran, is outside
  what `conformance_narrow.py` proposes, or above what was declared. Without its condition
  `DelegationsRan`, `NarrowingHolds` fails.
- A receipt listed by R1 while its writer has it open is chained and indexed by the hash of
  what it held then (`late`); a receipt cut short by a kill is chained as it is. Without `late`,
  `ArchivedAsHashed` fails.
- A resumed rollup appends again what it had appended; the gate agrees (both files name it
  twice) and the count check stops it, so what was appended stays for the operator. An append
  killed before its last newline leaves a chain that verifies; the next append joins its line to
  it, and R4's gate is what stops that commit.
- A run that the rollup moves after the report's index was read and before it listed the loose
  receipts is shown nowhere (the condition of `UnionIsJoined`); the next report has it.
- Evidence may be half replaced and be admitted by the verifier, whose inverse restores it;
  only a declared transformation is held to be whole, and the surface's counts
  (`EvidenceIsWhole`, whose second disjunct is needed as it stands). Evidence that held the
  replacement from the start cannot be published transformed: the inverse restores too much.
- A call refused while its receipt's result object does not parse is counted as none
  (the last disjunct of `RefusalsAreTold`).

And of the code as it was read, without a property of their own:

- In the declaration (`statement_lint.py`, 578-583) a wider string that holds a declared literal
  is exempt too.
- The surface is HEAD's tree: what an intermediate commit held is not measured; without a
  remote the answer is 0; the computed class depends on the machine that runs it.
- The tracked transform rule is version 2 (`patterns`, two strings with one replacement), while
  `path_transform_verify.py` and `conformance_verify.py` read version 1 (`pattern`); a
  transformation cited now cannot verify, and version 2 has no inverse. The model is of
  version 1, which the code implements. `originalSha` is not looked at.
- A character cut at a poll of `render_session.py` is shown as replacement characters; a
  replaced file that has outgrown the old position is not noticed (the condition of
  `ShownInOrder`); one denial in a record marks every result of that record.

`Launcher` and `Sequence` use the leases LeasePromise states, so that in them a stale lock is
reclaimed, and a lease given back, in one step. The theorems on SliceLease give those leases with
concurrent helpers when nobody dies and nothing expires, and with helpers one at a time otherwise;
with kills or expiry and concurrent helpers they lack what `lease_two_breakers` shows and the late
release above, which `launch_wild` and `sequence` therefore do not see.

## 6. What is not modelled

- The tier and hash checks, dry runs, argument parsing, timestamps, display text, desktop notices.
- The closed vocabulary of a conformance record and the launcher's opening line of a stream; that
  digests bind bytes is taken as given, and a statement is its run, role and predecessor.
- An `unlink` that fails on release (exit 1, which would end the EXIT trap as an answer of 3 does); a clock that goes back; a pid that is used again.
- The watcher's `--once` and `--max-seconds`, which end it early.
- HALT taken away again: it is an operator's act that ends what the model is about. The hook's
  third candidate directory, its own, is taken to be the project's, and the paths of write tools
  to be absolute, as the tools have them. The destructive patterns are a flag of a command.
- The distilled fields of an index line; a receipt cut by a kill is in Rollup and not in RunRecords.
- The search for the session's file, the tables and the page of the statistics.
- `graft_init.sh`: one interactive process that writes four files or takes them back.
- `dossier_check.py`, the spec lint and the gates: checks of one document, tree or commit, which
  read and print once; tool acquisition, templates and CI (see the notes in `PROJECT.json`).

## 7. The plan

1. Done: leases, anchors, single launches, sequences, the conformance facts; receipts, rollup and
   reports; guard, session, receipt and Statement of a run; the publication boundary.
   Proofs of each of them.
2. Proofs: which of the regimes' conditions `MarksAreBound` and `NeverSkips` really need, one by one;
   the types of the modules whose theorems carry theirs inside a larger invariant.
3. The graft's rollback, if it grows concurrency; the record's closed vocabulary.
