----------------------------- MODULE SliceLease -----------------------------
(***************************************************************************)
(* scripts/slice_lease.py, one action per system call that other processes *)
(* can observe: acquire (stage, write, link, read, judge, break aside),    *)
(* release (read, exists, unlink) and sweep (list, then read, judge and    *)
(* break each lock).  A run is one launcher process: its helper processes run one at  *)
(* a time, it asks for a key at most once, and its pid is the holder that  *)
(* the records name.                                                       *)
(***************************************************************************)
EXTENDS LeasePromise, FiniteSets

CONSTANTS
  Retries,      \* --retries: attempts after the first
  HostOf,       \* the host a run's pid belongs to
  Mortal,       \* runs that may be killed
  MaxInFlight,  \* bound: helper processes that may be in flight together
  Unreadable,   \* a lock file or staging file with no parseable record
  NoKey         \* no key

ASSUME HelperAssumption ==
  /\ Retries \in Nat
  /\ Mortal \subseteq Run
  /\ MaxInFlight \in Nat \ {0}
  /\ DOMAIN HostOf = Run
  /\ Unreadable \notin [run : Run, at : Nat]
  /\ Unreadable # Free
  /\ NoKey \notin Key

VARIABLE op     \* the helper each run has in flight

vars == <<clock, alive, locks, lease, op>>

Idle == [pc |-> "ready", key |-> NoKey, attempt |-> 0, stamp |-> 0,
         draft |-> Free, seen |-> Free, todo |-> {}]

\* What a read of a lock file or a staging file may find.
Content == Record \cup {Free, Unreadable}

Op == [pc : {"ready", "stage", "write", "link", "read", "judge", "break",
             "contended", "relread", "relexists", "unlink",
             "sweep", "swjudge", "swbreak"},
       key : Key \cup {NoKey}, attempt : 0 .. Retries, stamp : 0 .. MaxClock,
       draft : Content, seen : Content, todo : SUBSET Key]

\* _alive: another host's pid cannot be asked about and counts as running.
LooksAlive(r, rec) == HostOf[rec.run] # HostOf[r] \/ alive[rec.run]

\* Mutants: the expiry is off by one; a dead holder is left to its TTL.
Breakable_EarlyExpiry(r, rec, now) ==
  /\ rec \in Record
  /\ ~LooksAlive(r, rec) \/ now + 1 >= ExpiresAt(rec)
Breakable_OnlyExpiry(r, rec, now) ==
  /\ rec \in Record
  /\ now >= ExpiresAt(rec)

\* _staleness: may the helper of r break this record, given its clock read?
Breakable(r, rec, now) ==
  /\ rec \in Record
  /\ ~LooksAlive(r, rec) \/ now >= ExpiresAt(rec)

Init == PromiseInit /\ op = [r \in Run |-> Idle]

InFlight == {r \in Run : op[r].pc # "ready"}

\* A launcher starts a helper only while it has none.
CanStart(r) ==
  /\ alive[r]
  /\ op[r].pc = "ready"
  /\ Cardinality(InFlight) < MaxInFlight

Goto(r, pc) == op' = [op EXCEPT ![r].pc = pc]

\* The helper of r exits; its launcher reads the exit code as `outcome`.
Return(r, outcome) ==
  /\ op' = [op EXCEPT ![r] = Idle]
  /\ lease' = [lease EXCEPT ![r][op[r].key] = outcome]

\* os.rename(path, aside): whatever is at the lock name now goes with it.
BreakAside(k) == locks' = [locks EXCEPT ![k] = Free]

-----------------------------------------------------------------------------
BeginAcquire(r, k) ==
  /\ CanStart(r)
  /\ lease[r][k] = Untried
  /\ op' = [op EXCEPT ![r] = [Idle EXCEPT !.pc = "stage", !.key = k]]
  /\ UNCHANGED <<clock, alive, locks, lease>>

\* Mutants: the clock is read once, on entry; the record is written only
\* after the take.
Stage_DatedOnEntry(r) ==
  /\ op[r].pc = "stage"
  /\ op' = [op EXCEPT ![r].pc = "write", ![r].draft = Unreadable,
                      ![r].stamp = IF op[r].attempt = 0 THEN clock ELSE @]
  /\ UNCHANGED <<clock, alive, locks, lease>>
Stage_TakesFirst(r) ==
  /\ op[r].pc = "stage"
  /\ op' = [op EXCEPT ![r].pc = "link", ![r].stamp = clock,
                      ![r].draft = Unreadable]
  /\ UNCHANGED <<clock, alive, locks, lease>>

\* Each attempt reads the clock, then creates its own staging file.
Stage(r) ==
  /\ op[r].pc = "stage"
  /\ op' = [op EXCEPT ![r].pc = "write", ![r].stamp = clock,
                      ![r].draft = Unreadable]
  /\ UNCHANGED <<clock, alive, locks, lease>>

\* The staging name, or later the link, is refused with some other OSError:
\* STOP, exit 1, and the staging file is removed.
StageFails(r) ==
  /\ op[r].pc \in {"stage", "link"}
  /\ Return(r, Done)
  /\ UNCHANGED <<clock, alive, locks>>

\* The complete record is written and fsynced under the staging name.
WriteDraft(r) ==
  /\ op[r].pc = "write"
  /\ op' = [op EXCEPT ![r].pc = "link",
                      ![r].draft = [run |-> r, at |-> op[r].stamp]]
  /\ UNCHANGED <<clock, alive, locks, lease>>

\* THE TAKE: os.link publishes the staged bytes if the lock name is free.
Link(r) ==
  /\ op[r].pc = "link"
  /\ IF locks[op[r].key] = Free
       THEN /\ locks' = [locks EXCEPT ![op[r].key] = op[r].draft]
            /\ Return(r, op[r].draft)
       ELSE Goto(r, "read") /\ UNCHANGED <<locks, lease>>
  /\ UNCHANGED <<clock, alive>>

\* FileExistsError: read whatever is behind the name by now.
ReadHolder(r) ==
  /\ op[r].pc = "read"
  /\ op' = [op EXCEPT ![r].pc = "judge", ![r].seen = locks[op[r].key]]
  /\ UNCHANGED <<clock, alive, locks, lease>>

\* Mutant: a held key is waited for.
Judge_Waits(r) ==
  /\ op[r].pc = "judge"
  /\ Goto(r, IF Breakable(r, op[r].seen, clock) THEN "break" ELSE "link")
  /\ UNCHANGED <<clock, alive, locks, lease>>

\* A record that is not stale, does not parse or is gone is answered HELD.
Judge(r) ==
  /\ op[r].pc = "judge"
  /\ IF Breakable(r, op[r].seen, clock)
       THEN Goto(r, "break") /\ UNCHANGED lease
       ELSE Return(r, Done)
  /\ UNCHANGED <<clock, alive, locks>>

\* Break aside and, won or lost, go round again while attempts are left.
Break(r) ==
  /\ op[r].pc = "break"
  /\ BreakAside(op[r].key)
  /\ IF op[r].attempt < Retries
       THEN op' = [op EXCEPT ![r].pc = "stage", ![r].attempt = @ + 1]
       ELSE Goto(r, "contended")
  /\ UNCHANGED <<clock, alive, lease>>

\* HELD (contended through every attempt).
Contended(r) ==
  /\ op[r].pc = "contended"
  /\ Return(r, Done)
  /\ UNCHANGED <<clock, alive, locks>>

-----------------------------------------------------------------------------
BeginRelease(r, k) ==
  /\ CanStart(r)
  /\ lease[r][k] \in Record
  /\ op' = [op EXCEPT ![r] = [Idle EXCEPT !.pc = "relread", !.key = k]]
  /\ UNCHANGED <<clock, alive, locks, lease>>

\* Mutant: the run id of the record is not compared.
ReleaseRead_AnyRun(r) ==
  /\ op[r].pc = "relread"
  /\ LET rec == locks[op[r].key]
     IN op' = [op EXCEPT ![r].pc = IF rec \in Record THEN "unlink" ELSE "relexists",
                         ![r].seen = rec]
  /\ UNCHANGED <<clock, alive, locks, lease>>

\* Another run's record is left alone.  A read that finds no record at all
\* compares nothing, and asks next whether the name is there.
ReleaseRead(r) ==
  /\ op[r].pc = "relread"
  /\ LET rec == locks[op[r].key]
     IN IF rec \in Record /\ rec.run # r
          THEN Return(r, Done)
          ELSE /\ op' = [op EXCEPT
                           ![r].pc = IF rec \in Record THEN "unlink" ELSE "relexists",
                           ![r].seen = rec]
               /\ UNCHANGED lease
  /\ UNCHANGED <<clock, alive, locks>>

\* os.path.exists, a look of its own: by now the name may be a successor's.
ReleaseExists(r) ==
  /\ op[r].pc = "relexists"
  /\ IF locks[op[r].key] = Free
       THEN Return(r, Done)
       ELSE Goto(r, "unlink") /\ UNCHANGED lease
  /\ UNCHANGED <<clock, alive, locks>>

Unlink(r) ==
  /\ op[r].pc = "unlink"
  /\ locks' = [locks EXCEPT ![op[r].key] = Free]
  /\ Return(r, Done)
  /\ UNCHANGED <<clock, alive>>

-----------------------------------------------------------------------------
\* sweep lists the directory and reads the clock once, before its loop.
BeginSweep(r) ==
  /\ CanStart(r)
  /\ op' = [op EXCEPT ![r] = [Idle EXCEPT !.pc = "sweep", !.stamp = clock,
                                !.todo = {k \in Key : locks[k] # Free}]]
  /\ UNCHANGED <<clock, alive, locks, lease>>

SweepRead(r) ==
  /\ op[r].pc = "sweep"
  /\ \E k \in op[r].todo :
       op' = [op EXCEPT ![r].pc = "swjudge", ![r].key = k,
                        ![r].seen = locks[k], ![r].todo = @ \ {k}]
  /\ UNCHANGED <<clock, alive, locks, lease>>

SweepJudge(r) ==
  /\ op[r].pc = "swjudge"
  /\ Goto(r, IF Breakable(r, op[r].seen, op[r].stamp) THEN "swbreak" ELSE "sweep")
  /\ UNCHANGED <<clock, alive, locks, lease>>

SweepBreak(r) ==
  /\ op[r].pc = "swbreak"
  /\ BreakAside(op[r].key)
  /\ Goto(r, "sweep")
  /\ UNCHANGED <<clock, alive, lease>>

SweepEnd(r) ==
  /\ op[r].pc = "sweep"
  /\ op[r].todo = {}
  /\ op' = [op EXCEPT ![r] = Idle]
  /\ UNCHANGED <<clock, alive, locks, lease>>

-----------------------------------------------------------------------------
Tick ==
  /\ clock < MaxClock
  /\ clock' = clock + 1
  /\ UNCHANGED <<alive, locks, lease, op>>

\* SIGKILL of a launcher: no trap, no release.  A helper it had in flight
\* is a process of its own: it may die too, or run on as an orphan.
Kill(r) ==
  /\ r \in Mortal
  /\ alive[r]
  /\ alive' = [alive EXCEPT ![r] = FALSE]
  /\ UNCHANGED op \/ op' = [op EXCEPT ![r] = Idle]
  /\ UNCHANGED <<clock, locks, lease>>

Acquiring(r) ==
  \/ Stage(r) \/ StageFails(r) \/ WriteDraft(r) \/ Link(r)
  \/ ReadHolder(r) \/ Judge(r) \/ Break(r) \/ Contended(r)
Releasing(r) == ReleaseRead(r) \/ ReleaseExists(r) \/ Unlink(r)
Sweeping(r) == SweepRead(r) \/ SweepJudge(r) \/ SweepBreak(r) \/ SweepEnd(r)

\* One step of the helper that r has in flight.
Helper(r) == Acquiring(r) \/ Releasing(r) \/ Sweeping(r)

Next ==
  \/ \E r \in Run, k \in Key : BeginAcquire(r, k) \/ BeginRelease(r, k)
  \/ \E r \in Run : BeginSweep(r) \/ Helper(r) \/ Kill(r)
  \/ Tick

Spec == Init /\ [][Next]_vars

\* Helpers of live launchers run to their end: no step of one waits on
\* another.  Nothing makes a launcher start one.
Fairness == \A r \in Run : WF_vars(alive[r] /\ Helper(r))

FairSpec == Spec /\ Fairness

-----------------------------------------------------------------------------
TypeOK ==
  /\ clock \in 0 .. MaxClock
  /\ alive \in [Run -> BOOLEAN]
  /\ locks \in [Key -> Content]
  /\ lease \in [Run -> [Key -> Content \cup {Untried, Done}]]
  /\ op \in [Run -> Op]
  /\ \A r \in Run : op[r].pc \notin {"ready", "sweep"} => op[r].key \in Key

AcquirePCs == {"stage", "write", "link", "read", "judge", "break", "contended"}
SweepPCs == {"sweep", "swjudge", "swbreak"}

\* What the helper of r has seen of a record makes it stale for good.
KnownStale(r, rec) == ~LooksAlive(r, rec) \/ clock >= ExpiresAt(rec)

\* A run is granted records in its own name, and a lock in its name is the
\* record it was granted; no lock is ever half a record.
OwnRecords ==
  \A k \in Key :
    /\ locks[k] \in Record \cup {Free}
    /\ \A r \in Run :
         /\ lease[r][k] \in Record \cup {Untried, Done}
         /\ lease[r][k] \in Record => lease[r][k].run = r
         /\ locks[k] \in Record /\ locks[k].run = r => lease[r][k] = locks[k]

\* A helper works on a key its run has in the matching state.
HelpersMatchLeases ==
  \A r \in Run :
    /\ op[r].pc \in AcquirePCs => lease[r][op[r].key] = Untried
    /\ op[r].pc \in {"relread", "relexists", "unlink"} => lease[r][op[r].key] \in Record

\* A staged record carries the clock of its own attempt.
DraftsAreDated ==
  \A r \in Run :
    /\ op[r].pc \in {"write", "link"} \cup SweepPCs => op[r].stamp <= clock
    /\ op[r].pc = "link" => op[r].draft = [run |-> r, at |-> op[r].stamp]

\* What is about to be broken, or was broken to get to this attempt, was
\* judged stale; an attempt after an expiry is stamped after it.
JudgedStale ==
  \A r \in Run :
    /\ op[r].pc \in {"break", "swbreak"} =>
         op[r].seen \in Record /\ KnownStale(r, op[r].seen)
    /\ op[r].pc = "stage" /\ op[r].seen \in Record => KnownStale(r, op[r].seen)
    /\ op[r].pc \in {"write", "link"} /\ op[r].seen \in Record =>
         ~LooksAlive(r, op[r].seen) \/ op[r].stamp >= ExpiresAt(op[r].seen)

\* A run's own record, once gone, does not come back: what its release or
\* its sweep has read as its own is what stands there, if any of its own does.
\* A release goes on to its unlink from its own record or from none.
OwnSeen ==
  \A r \in Run :
    /\ op[r].pc = "unlink" =>
         op[r].seen = Free \/ (op[r].seen \in Record /\ op[r].seen.run = r)
    /\ op[r].pc = "relexists" => op[r].seen = Free
    /\ op[r].pc \in {"swjudge", "swbreak"} /\ locks[op[r].key] \in Record
       /\ locks[op[r].key].run = r => op[r].seen = locks[op[r].key]

\* The inductive invariant of the helper protocol, in every regime.
IInv ==
  /\ TypeOK /\ OwnRecords /\ HelpersMatchLeases
  /\ DraftsAreDated /\ JudgedStale /\ OwnSeen

\* The lock name never exists without a complete record behind it, whatever
\* is killed between two steps of an acquire (docstring lines 14-19).
LockIsComplete == \A k \in Key : locks[k] # Unreadable

\* A lease taken after breaking an expired predecessor is dated no earlier
\* than the expiry its taker had to observe (docstring, WHEN A LEASE IS
\* DATED); a predecessor broken because its holder is gone gives no date.
TakeIsDated(r, k) ==
  LET pred == op[r].seen
  IN /\ locks[k] = Free
     /\ locks'[k] \in Record
     /\ locks'[k].run = r
     /\ pred \in Record
     => locks'[k].at >= ExpiresAt(pred) \/ ~LooksAlive(r, pred)

DatedAfterBreak == [][\A r \in Run, k \in Key : TakeIsDated(r, k)]_vars

\* An entitled holder can lose its lock to others only to a helper whose one
\* read of the name is out of date: a breaker that judged another record
\* stale, a release that read its own run's record, or one that read none
\* and whose later exists saw the holder's.
StaleReader(b, k) ==
  LET seen == op[b].seen
  IN /\ op[b].key = k
     /\ seen # locks[k]
     /\ \/ op[b].pc \in {"break", "swbreak"} /\ seen \in Record /\ KnownStale(b, seen)
        \/ op[b].pc = "unlink" /\ seen \in Record /\ seen.run = b
        \/ op[b].pc = "unlink" /\ seen = Free

LossIsExplained(r, k) ==
  Entitled(r, k) /\ locks[k] = lease[r][k] /\ locks'[k] # locks[k]
    => \/ op[r].pc = "unlink" /\ op[r].key = k
       \/ \E b \in Run \ {r} : StaleReader(b, k)

LossIsAStaleRead == [][\A r \in Run, k \in Key : LossIsExplained(r, k)]_vars

\* Every acquire, release or sweep of a live launcher ends: a claimer that
\* finds the key held by a live run is refused, it does not wait for it.
HelperReturns ==
  \A r \in Run : op[r].pc # "ready" ~> op[r].pc = "ready" \/ ~alive[r]

\* The sweep or the claim that s has in flight has still to read the lock.
WillRead(s, k) ==
  \/ op[s].pc = "sweep" /\ k \in op[s].todo
  \/ op[s].pc = "read" /\ op[s].key = k

\* A killed holder's key is freed by the sweep or the claim that passes it:
\* whoever else breaks, claims or releases meanwhile, none that judges the
\* holder's host leaves that lock there (THR-RUN E2, docstring SWEEP).  It
\* says nothing of a key that nobody sweeps or claims again.
NoStrandedKey ==
  \A k \in Key, r, s \in Run :
    /\ WillRead(s, k)
    /\ locks[k] \in Record /\ locks[k].run = r
    /\ ~alive[r] /\ HostOf[s] = HostOf[r]
    ~> ~(locks[k] \in Record /\ locks[k].run = r) \/ ~alive[s]
=============================================================================
