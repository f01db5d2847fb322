------------------------------ MODULE Launcher ------------------------------
(***************************************************************************)
(* One launch, scripts/launch_worker.sh on one spec, from its HALT check   *)
(* to its EXIT trap: validate-passed, the lease sweep, the answer of       *)
(* `harnesswright next`, the two leases, the baseline, the anchored        *)
(* declaration, the executor, the record, the gate, and mark-passed with   *)
(* its reads and writes of harness.json and completions.json.  Several     *)
(* launches share one worktree.  The leases are those LeasePromise states. *)
(***************************************************************************)
EXTENDS LeasePromise

CONSTANTS
  LastSlice,  \* the slices of harness.json are 1 .. LastSlice, in its order
  Workspace,  \* the lease on the worktree, "_workspace"
  Mortal,     \* launchers that may be killed
  Orphans,    \* what a killed launcher started may run on without it
  Halts,      \* the operator may place HALT
  HandMarks,  \* a status in harness.json is edited by hand "never", "between"
              \* what launches read of it and what they build on that, "anytime"
  Torn,       \* a JSON file truncated and not yet written: it does not parse
  Unbound     \* completions.json has no entry for the slice

Slice == 1 .. LastSlice

ASSUME LauncherAssumption ==
  /\ LastSlice \in Nat \ {0}
  /\ Key = Slice \cup {Workspace} /\ Workspace \notin Slice
  /\ Mortal \subseteq Run
  /\ Orphans \in BOOLEAN /\ Halts \in BOOLEAN
  /\ HandMarks \in {"never", "between", "anytime"}
  /\ Torn \notin [Slice -> BOOLEAN]
  /\ Torn \notin [Slice -> Run \cup {Unbound}]
  /\ Unbound \notin Run

VARIABLES
  halt,         \* .harness/HALT exists
  harness,      \* harness.json: which slices have status "passed"
  completions,  \* completions.json: the run whose evidence a slice is bound to
  child,        \* the executor each launch spawned
  launch        \* where each launch stands, and what it has read and written

launchVars == <<halt, harness, completions, child, launch>>
vars == <<clock, alive, locks, lease, halt, harness, completions, child, launch>>

Marks == [Slice -> BOOLEAN]
Bindings == [Slice -> Run \cup {Unbound}]

\* From the workspace lease to its release.
Measuring == {"declare", "spawn", "wait", "gate"}
Marking == {"mark", "readBindings", "truncBindings", "writeBindings",
            "truncMarks", "writeMarks"}

\* anchored: the declaration is in the ledger; conf: the record verifies
\* CONFORMANT; pass: the receipt's gate verdict is PASS; ok: exit code 0.
Launch == [pc : {"idle", "validate", "support", "list", "sweep", "locks", "claim",
                 "claimSlice", "baseline", "freeSlice", "freeWorkspace", "ended",
                 "killed"} \cup Measuring \cup Marking,
           slice : Slice, todo : SUBSET Key, marks : Marks \cup {Torn},
           bindings : Bindings \cup {Torn}, anchored : BOOLEAN, conf : BOOLEAN,
           pass : BOOLEAN, ok : BOOLEAN]

Init ==
  /\ PromiseInit
  /\ halt = FALSE
  /\ harness = [s \in Slice |-> FALSE]
  /\ completions = [s \in Slice |-> Unbound]
  /\ child = [r \in Run |-> "none"]
  /\ launch = [r \in Run |->
       [pc |-> "idle", slice |-> 1, todo |-> {}, marks |-> Torn, bindings |-> Torn,
        anchored |-> FALSE, conf |-> FALSE, pass |-> FALSE, ok |-> FALSE]]

At(r, pc) == launch[r].pc = pc
Goto(r, pc) == launch' = [launch EXCEPT ![r].pc = pc]
Stop(r) == Goto(r, "ended")

\* The EXIT trap comes first; a killed launcher runs none.
Exit(r, ok) ==
  launch' = [launch EXCEPT ![r].pc = IF alive[r] THEN "freeSlice" ELSE "killed",
               ![r].ok = ok, ![r].marks = Torn, ![r].bindings = Torn]

\* A run earned a slice: its receipt says PASS and its record verifies.
EarnedBy(r, s) == launch[r].slice = s /\ launch[r].pass /\ launch[r].conf
Earned(s) == \E r \in Run : EarnedBy(r, s)

\* `next`: the first slice that harness.json does not call passed.
IsNext(marks, s) == ~marks[s] /\ \A t \in Slice : t < s => marks[t]

-----------------------------------------------------------------------------
\* HALT is looked for once, before anything is written.
Begin(r, s) ==
  /\ alive[r]
  /\ At(r, "idle")
  /\ launch' = [launch EXCEPT ![r].slice = s,
                  ![r].pc = IF halt THEN "ended" ELSE "validate"]
  /\ UNCHANGED <<promiseVars, halt, harness, completions, child>>

\* validate-passed reads harness.json ...
ReadMarks(r) ==
  /\ alive[r]
  /\ At(r, "validate")
  /\ IF harness = Torn
       THEN Stop(r)
       ELSE launch' = [launch EXCEPT ![r].marks = harness,
              ![r].pc = IF \E s \in Slice : harness[s] THEN "support" ELSE "list"]
  /\ UNCHANGED <<promiseVars, halt, harness, completions, child>>

Supported(s) == completions[s] # Unbound /\ EarnedBy(completions[s], s)

\* Mutant: a slice that completions.json does not have is not asked about.
ReadSupport_BoundOnly(r) ==
  /\ alive[r]
  /\ At(r, "support")
  /\ IF /\ completions # Torn
        /\ \A s \in Slice :
             launch[r].marks[s] /\ completions[s] # Unbound => Supported(s)
       THEN Goto(r, "list")
       ELSE Stop(r)
  /\ UNCHANGED <<promiseVars, halt, harness, completions, child>>

\* ... and then the evidence completions.json binds each passed slice to.
ReadSupport(r) ==
  /\ alive[r]
  /\ At(r, "support")
  /\ IF completions # Torn /\ \A s \in Slice : launch[r].marks[s] => Supported(s)
       THEN Goto(r, "list")
       ELSE Stop(r)
  /\ UNCHANGED <<promiseVars, halt, harness, completions, child>>

\* The sweep lists the locks, and breaks those it finds stale.
ListLocks(r) ==
  /\ alive[r]
  /\ At(r, "list")
  /\ launch' = [launch EXCEPT ![r].pc = "sweep", ![r].marks = Torn,
                  ![r].todo = {k \in Key : locks[k] # Free}]
  /\ UNCHANGED <<promiseVars, halt, harness, completions, child>>

\* Mutant: the leases name the helper that took them, which is gone.
SweepLock_HelperPid(r, k) ==
  /\ alive[r]
  /\ At(r, "sweep") /\ k \in launch[r].todo
  /\ locks' = [locks EXCEPT ![k] = Free]
  /\ launch' = [launch EXCEPT ![r].todo = @ \ {k}]
  /\ UNCHANGED <<clock, alive, lease, halt, harness, completions, child>>

SweepLock(r, k) ==
  /\ alive[r]
  /\ At(r, "sweep") /\ k \in launch[r].todo
  /\ IF locks[k] # Free /\ Stale(locks[k]) THEN Reclaim(k) ELSE UNCHANGED promiseVars
  /\ launch' = [launch EXCEPT ![r].todo = @ \ {k}]
  /\ UNCHANGED <<halt, harness, completions, child>>

\* `next --json` answers with its next slice, read from harness.json ...
ReadNext(r) ==
  /\ alive[r]
  /\ At(r, "sweep") /\ launch[r].todo = {}
  /\ IF harness # Torn /\ IsNext(harness, launch[r].slice)
       THEN Goto(r, "locks")
       ELSE Stop(r)
  /\ UNCHANGED <<promiseVars, halt, harness, completions, child>>

\* ... and calls it eligible when no lock file has its name.  The decision
\* may refuse the spec for reasons of its own (tier, budget, tools, hash).
ReadLocks(r) ==
  /\ alive[r]
  /\ At(r, "locks")
  /\ \/ locks[launch[r].slice] = Free /\ Goto(r, "claim")
     \/ Stop(r)
  /\ UNCHANGED <<promiseVars, halt, harness, completions, child>>

\* slice_lease.py acquire, which may break a stale lease on its way.
Claim(r) ==
  /\ alive[r]
  /\ At(r, "claim")
  /\ \/ Reclaim(Workspace) /\ UNCHANGED launch
     \/ Grant(r, Workspace) /\ Goto(r, "claimSlice")
     \/ Refuse(r, Workspace) /\ Stop(r)
  /\ UNCHANGED <<halt, harness, completions, child>>

ClaimSlice(r) ==
  /\ alive[r]
  /\ At(r, "claimSlice")
  /\ \/ Reclaim(launch[r].slice) /\ UNCHANGED launch
     \/ Grant(r, launch[r].slice) /\ Goto(r, "baseline")
     \/ Refuse(r, launch[r].slice) /\ Exit(r, FALSE)
  /\ UNCHANGED <<halt, harness, completions, child>>

\* t0: only a baseline without any verdict stops the launch.
Baseline(r) ==
  /\ alive[r]
  /\ At(r, "baseline")
  /\ Goto(r, "declare") \/ Exit(r, FALSE)
  /\ UNCHANGED <<promiseVars, halt, harness, completions, child>>

\* With a ledger configured the declaration is anchored, or nothing spawned.
Declare(r) ==
  /\ alive[r]
  /\ At(r, "declare")
  /\ \/ \E anchored \in BOOLEAN :
          launch' = [launch EXCEPT ![r].pc = "spawn", ![r].anchored = anchored]
     \/ Exit(r, FALSE)
  /\ UNCHANGED <<promiseVars, halt, harness, completions, child>>

\* Mutant: the executor is left in the background.
Spawn_Detached(r) ==
  /\ alive[r]
  /\ At(r, "spawn")
  /\ child' = [child EXCEPT ![r] = "running"]
  /\ Exit(r, TRUE)
  /\ UNCHANGED <<promiseVars, halt, harness, completions>>

Spawn(r) ==
  /\ alive[r]
  /\ At(r, "spawn")
  /\ child' = [child EXCEPT ![r] = "running"]
  /\ Goto(r, "wait")
  /\ UNCHANGED <<promiseVars, halt, harness, completions>>

\* The executor ends, with exit code 0 or another.
ChildEnds(r) ==
  /\ child[r] = "running"
  /\ \E end \in {"done", "failed"} : child' = [child EXCEPT ![r] = end]
  /\ UNCHANGED <<promiseVars, halt, harness, completions, launch>>

\* Mutant: an executor that failed is waited for.
Close_AwaitsSuccess(r) ==
  /\ alive[r]
  /\ At(r, "wait") /\ child[r] = "done"
  /\ \E conf \in {FALSE, launch[r].anchored} :
       launch' = [launch EXCEPT ![r].pc = "gate", ![r].conf = conf]
  /\ UNCHANGED <<promiseVars, halt, harness, completions, child>>

\* Stream digest anchored and record built, or only a note that they are not.
Close(r) ==
  /\ alive[r]
  /\ At(r, "wait") /\ child[r] \in {"done", "failed"}
  /\ \E conf \in {FALSE, launch[r].anchored} :
       launch' = [launch EXCEPT ![r].pc = "gate", ![r].conf = conf]
  /\ UNCHANGED <<promiseVars, halt, harness, completions, child>>

\* Mutant: the mark does not wait for the gate's verdict.
Gate_MarksAnyway(r) ==
  /\ alive[r]
  /\ At(r, "gate")
  /\ \E pass \in BOOLEAN :
       launch' = [launch EXCEPT ![r].pass = pass, ![r].ok = TRUE, ![r].pc = "mark"]
  /\ UNCHANGED <<promiseVars, halt, harness, completions, child>>

\* t1, when the executor exited 0; then the receipt and the final outcome.  A
\* PASS without a conformant record still exits 0, unmarked.
Gate(r) ==
  /\ alive[r]
  /\ At(r, "gate")
  /\ \/ Exit(r, FALSE)
     \/ /\ child[r] = "done"
        /\ launch' = [launch EXCEPT ![r].pass = TRUE, ![r].ok = TRUE,
                        ![r].pc = IF launch[r].conf THEN "mark" ELSE "freeSlice"]
  /\ UNCHANGED <<promiseVars, halt, harness, completions, child>>

-----------------------------------------------------------------------------
\* mark-passed, a process of its own: it may outlive a killed launcher.

MarkReadMarks(r) ==
  /\ At(r, "mark")
  /\ IF harness # Torn /\ ~harness[launch[r].slice]
       THEN launch' = [launch EXCEPT ![r].marks = harness, ![r].pc = "readBindings"]
       ELSE Exit(r, TRUE)
  /\ UNCHANGED <<promiseVars, halt, harness, completions, child>>

\* Mutant: harness.json is written first.
MarkReadBindings_MarksFirst(r) ==
  /\ At(r, "readBindings")
  /\ IF completions # Torn
       THEN /\ harness' = [launch[r].marks EXCEPT ![launch[r].slice] = TRUE]
            /\ launch' = [launch EXCEPT ![r].pc = "truncBindings",
                 ![r].bindings = [completions EXCEPT ![launch[r].slice] = r]]
       ELSE Exit(r, TRUE) /\ UNCHANGED harness
  /\ UNCHANGED <<promiseVars, halt, completions, child>>

MarkReadBindings(r) ==
  /\ At(r, "readBindings")
  /\ IF completions # Torn
       THEN launch' = [launch EXCEPT ![r].pc = "truncBindings",
              ![r].bindings = [completions EXCEPT ![launch[r].slice] = r]]
       ELSE Exit(r, TRUE)
  /\ UNCHANGED <<promiseVars, halt, harness, completions, child>>

\* open("w") empties the file; its new bytes come with the close.
TruncateBindings(r) ==
  /\ At(r, "truncBindings")
  /\ completions' = Torn
  /\ Goto(r, "writeBindings")
  /\ UNCHANGED <<promiseVars, halt, harness, child>>

WriteBindings(r) ==
  /\ At(r, "writeBindings")
  /\ completions' = launch[r].bindings
  /\ Goto(r, "truncMarks")
  /\ UNCHANGED <<promiseVars, halt, harness, child>>

TruncateMarks(r) ==
  /\ At(r, "truncMarks")
  /\ harness' = Torn
  /\ Goto(r, "writeMarks")
  /\ UNCHANGED <<promiseVars, halt, completions, child>>

WriteMarks(r) ==
  /\ At(r, "writeMarks")
  /\ harness' = [launch[r].marks EXCEPT ![launch[r].slice] = TRUE]
  /\ Exit(r, TRUE)
  /\ UNCHANGED <<promiseVars, halt, completions, child>>

-----------------------------------------------------------------------------
\* slice_lease.py release, for a lease that was granted.
LetGo(r, k) == IF lease[r][k] \in Record THEN GiveBack(r, k) ELSE UNCHANGED promiseVars

\* Mutant: the trap stops with the first release.
FreeSlice_Only(r) ==
  /\ alive[r]
  /\ At(r, "freeSlice")
  /\ LetGo(r, launch[r].slice)
  /\ Stop(r)
  /\ UNCHANGED <<halt, harness, completions, child>>

\* The record of another run stands where this run's lease was: release
\* leaves it alone and answers 3.
Usurped(r, k) ==
  lease[r][k] \in Record /\ locks[k] \in Record /\ locks[k].run # r

\* The EXIT trap gives the slice's lease back first.  When the release answers
\* 3, `set -e` ends the trap there: the workspace's is never asked for, and
\* the exit code becomes 3 whatever it was.
FreeSlice(r) ==
  /\ alive[r]
  /\ At(r, "freeSlice")
  /\ IF Usurped(r, launch[r].slice)
       THEN /\ Perish(r)
            /\ launch' = [launch EXCEPT ![r].pc = "ended", ![r].ok = FALSE]
       ELSE LetGo(r, launch[r].slice) /\ Goto(r, "freeWorkspace")
  /\ UNCHANGED <<halt, harness, completions, child>>

\* Nothing comes after the second release but its exit code.
FreeWorkspace(r) ==
  /\ alive[r]
  /\ At(r, "freeWorkspace")
  /\ LetGo(r, Workspace)
  /\ launch' = [launch EXCEPT ![r].pc = "ended", ![r].ok = @ /\ ~Usurped(r, Workspace)]
  /\ UNCHANGED <<halt, harness, completions, child>>

Mark(r) ==
  \/ MarkReadMarks(r) \/ MarkReadBindings(r)
  \/ TruncateBindings(r) \/ WriteBindings(r) \/ TruncateMarks(r) \/ WriteMarks(r)

Step(r) ==
  \/ ReadMarks(r) \/ ReadSupport(r) \/ ListLocks(r)
  \/ \E k \in Key : SweepLock(r, k)
  \/ ReadNext(r) \/ ReadLocks(r) \/ Claim(r) \/ ClaimSlice(r)
  \/ Baseline(r) \/ Declare(r) \/ Spawn(r) \/ Close(r) \/ Gate(r) \/ Mark(r)
  \/ FreeSlice(r) \/ FreeWorkspace(r)

-----------------------------------------------------------------------------
\* SIGKILL: no trap runs.  The executor, or the process that marks, dies with
\* the launcher or runs on.
Kill(r) ==
  /\ r \in Mortal
  /\ Perish(r)
  /\ launch[r].pc \notin {"idle", "ended", "killed"}
  /\ \E orphan \in {FALSE, Orphans} :
       /\ launch' = IF orphan /\ launch[r].pc \in Marking
                      THEN launch
                      ELSE [launch EXCEPT ![r].pc = "killed", ![r].todo = {},
                              ![r].marks = Torn, ![r].bindings = Torn]
       /\ child' = IF ~orphan /\ child[r] = "running"
                     THEN [child EXCEPT ![r] = "failed"] ELSE child
  /\ UNCHANGED <<halt, harness, completions>>

PlaceHalt ==
  /\ Halts /\ ~halt
  /\ halt' = TRUE
  /\ UNCHANGED <<promiseVars, harness, completions, child, launch>>

\* "between": no launch is on its way from validate-passed to `next`, and no
\* mark-passed has read a file that it will write back.
HandMark(s) ==
  /\ HandMarks # "never"
  /\ HandMarks = "between" =>
       \A r \in Run : launch[r].pc \notin {"support", "list", "sweep"} \cup Marking
  /\ harness # Torn /\ ~harness[s]
  /\ harness' = [harness EXCEPT ![s] = TRUE]
  /\ UNCHANGED <<promiseVars, halt, completions, child, launch>>

TimePasses == Pass /\ UNCHANGED launchVars

Environment ==
  \/ \E r \in Run : Kill(r) \/ ChildEnds(r)
  \/ PlaceHalt
  \/ \E s \in Slice : HandMark(s)
  \/ TimePasses

Next ==
  \/ \E r \in Run : Step(r) \/ \E s \in Slice : Begin(r, s)
  \/ Environment

Spec == Init /\ [][Next]_vars

-----------------------------------------------------------------------------
TypeOK ==
  /\ clock \in 0 .. MaxClock
  /\ alive \in [Run -> BOOLEAN]
  /\ locks \in [Key -> Record \cup {Free}]
  /\ lease \in [Run -> [Key -> Record \cup {Untried, Done}]]
  /\ halt \in BOOLEAN
  /\ harness \in Marks \cup {Torn}
  /\ completions \in Bindings \cup {Torn}
  /\ child \in [Run -> {"none", "running", "done", "failed"}]
  /\ launch \in [Run -> Launch]

\* A run is live in the worktree while its launcher measures, spawns or
\* marks, and while its executor runs.
Live(r) ==
  \/ child[r] = "running"
  \/ alive[r] /\ launch[r].pc \in {"baseline"} \cup Measuring \cup Marking

\* "one git index, one live run" (launch_worker.sh:438): no executor writes
\* to a worktree that another run is working in or measuring.  A regime where
\* no lease runs out and no executor outlives its launcher keeps it.
OneLiveRun == \A r, o \in Run : Live(r) /\ Live(o) => r = o

\* The workspace's lease of a run no longer protects it: its launcher is gone,
\* or its TTL, counted from the claim and never renewed, has run out.
Lapsed(r) ==
  /\ lease[r][Workspace] \in Record
  /\ ~alive[r] \/ clock >= ExpiresAt(lease[r][Workspace])

\* Two runs are live in one worktree only over such a lease of one of them:
\* no interleaving of claims, sweeps, kills and releases lets in a second run
\* beside one whose lease stands.
OverlapIsExplained ==
  \A r, o \in Run : r # o /\ Live(r) /\ Live(o) => Lapsed(r) \/ Lapsed(o)

\* "never spawn on a slice we only read as free" (:432), "refusing to take
\* the same task twice" (:465): no executor is spawned on a passed slice.
NoPassedSliceSpawned ==
  [][\A r \in Run :
       child[r] = "none" /\ child'[r] = "running" /\ harness # Torn
         => ~harness[launch[r].slice]]_vars

\* "a status flag is writable by anyone; the evidence behind it is not": an
\* executor is spawned on a slice only when every slice before it was earned
\* by a run whose gate passed and whose record verifies, so that nothing is
\* built on a mark with nothing behind it (:254-264).
BuiltOnEvidence ==
  \A r \in Run : child[r] # "none" =>
    \A s \in Slice : s < launch[r].slice => Earned(s)

\* Every mark that is not somebody's by hand was earned.
MarksAreEarned == harness # Torn => \A s \in Slice : harness[s] => Earned(s)

\* completions.json never binds a slice to a run that did not earn it,
\* whatever is killed, expires or is edited.
BindingsAreEarned ==
  completions # Torn =>
    \A s \in Slice : completions[s] # Unbound => EarnedBy(completions[s], s)

\* "completion is a consequence of evidence": a passed mark is bound to its
\* evidence, unless a crash tore completions.json (mark_passed, :194-234).
MarksAreBound ==
  harness # Torn /\ completions # Torn =>
    \A s \in Slice : harness[s] => completions[s] # Unbound

\* mark-passed writes back what it read of both files.  Between its reads and
\* its writes, while its run's lease stands, another run writes to them only
\* over a lapsed lease of its own: no update is lost to two runs that both
\* may act.  (A hand edit in that window is lost whoever holds what.)
WritesBack(r) ==
  launch[r].pc \in {"readBindings", "truncBindings", "writeBindings", "truncMarks", "writeMarks"}

UpdateLossIsExplained ==
  [][\A r, o \in Run :
       /\ r # o /\ WritesBack(r) /\ Entitled(r, Workspace)
       /\ launch'[o] # launch[o] /\ <<harness, completions>>' # <<harness, completions>>
       => Lapsed(o)]_vars

\* A launch that ended has let go of what it was granted, on every path, but
\* for one whose trap found its slice in another run's hands: its process is
\* gone, so that what it leaves behind is stale to the next sweep.
NothingKept ==
  \A r \in Run, k \in Key :
    At(r, "ended") /\ lease[r][k] \in Record =>
      /\ ~alive[r]
      /\ lease[r][launch[r].slice] \in Record
      /\ locks[launch[r].slice] # lease[r][launch[r].slice]

-----------------------------------------------------------------------------
\* Inductive invariants.

AfterGate == Marking \cup {"freeSlice", "freeWorkspace", "ended", "killed"}

\* What a launch has behind it at each of its steps.
StagesMatch ==
  \A r \in Run :
    /\ launch[r].pc \in Marking => launch[r].pass /\ launch[r].conf
    /\ launch[r].pass => launch[r].pc \in AfterGate
    /\ launch[r].pc \in (Marking \ {"mark"}) \cup {"support"} => launch[r].marks # Torn
    /\ launch[r].pc \in Marking \ {"mark", "readBindings"} => launch[r].bindings # Torn
    /\ child[r] # "none" => launch[r].pc \in {"wait", "gate"} \cup AfterGate

StageInv == TypeOK /\ StagesMatch

EarnedMarks(marks) == marks # Torn => \A s \in Slice : marks[s] => Earned(s)

EarnedBindings(bindings) ==
  bindings # Torn => \A s \in Slice : bindings[s] # Unbound => EarnedBy(bindings[s], s)

\* A launch past `next` has only earned slices before its own.
PastNext == {"locks", "claim", "claimSlice", "baseline"} \cup Measuring
PathIsEarned(r) ==
  launch[r].pc \in PastNext \/ child[r] # "none" =>
    \A s \in Slice : s < launch[r].slice => Earned(s)

\* The marks anybody may read or write back: the file and the copies in use.
Copying(r) == launch[r].pc \in {"support", "list"} \/ WritesBack(r)
IsView(m) == m # Torn /\ (m = harness \/ \E r \in Run : Copying(r) /\ m = launch[r].marks)

\* A hand mark that is in one view is in all of them, until it is earned ...
ViewsAgree ==
  \A m, n \in Marks : IsView(m) /\ IsView(n) =>
    \A s \in Slice : m[s] /\ ~Earned(s) => n[s]

\* ... and a launch that validate-passed let through has found none.
ValidatedViews ==
  (\E r \in Run : launch[r].pc \in {"list", "sweep"}) =>
    \A m \in Marks : IsView(m) => EarnedMarks(m)

\* Nothing a launch holds or a file says claims what was not earned, whatever
\* is killed, orphaned or expired.
EvidenceInv ==
  /\ StageInv
  /\ EarnedBindings(completions)
  /\ \A r \in Run : EarnedBindings(launch[r].bindings)
  /\ HandMarks = "never" => \A m \in Marks : IsView(m) => EarnedMarks(m)
  /\ HandMarks # "anytime" =>
       ViewsAgree /\ ValidatedViews /\ \A r \in Run : PathIsEarned(r)

\* The regime in which one worktree has one live run: no lease expires under
\* its run, and what a launcher started dies with it.
Fenced == MaxClock < TTL /\ ~Orphans

Holding == {"claimSlice", "baseline", "freeSlice", "freeWorkspace"} \cup Measuring \cup Marking

\* A launcher keeps each lock it was granted until it lets it go or lapses ...
LeaseHeld ==
  \A r \in Run, k \in Key :
    lease[r][k] \in Record =>
      /\ lease[r][k].run = r
      /\ alive[r] /\ clock < ExpiresAt(lease[r][k]) => locks[k] = lease[r][k]

\* ... and one that works in the worktree has had the workspace granted; what
\* goes on without its launcher is an orphan.
HolderStands ==
  \A r \in Run :
    /\ launch[r].pc \in Holding \/ child[r] = "running" => lease[r][Workspace] \in Record
    /\ launch[r].pc \in Holding => alive[r] \/ (Orphans /\ launch[r].pc \in Marking)
    /\ child[r] = "running" => launch[r].pc = "wait" \/ (Orphans /\ ~alive[r])

\* Fenced, a marker finds both files as it read them, up to its own writes.
CopiesMatch(r) ==
  LET own == launch[r].bindings
      bound == own[launch[r].slice] = r /\ \A s \in Slice : launch[r].marks[s] => own[s] # Unbound
  IN /\ launch[r].pc \in {"readBindings", "truncBindings", "writeBindings", "truncMarks"}
          => harness = launch[r].marks
     /\ At(r, "truncBindings") =>
          /\ completions # Torn /\ bound
          /\ \A s \in Slice \ {launch[r].slice} : completions[s] = own[s]
     /\ At(r, "writeBindings") => completions = Torn /\ bound
     /\ At(r, "truncMarks") => completions = own /\ bound
     /\ At(r, "writeMarks") => completions = own /\ bound /\ harness = Torn
=============================================================================
