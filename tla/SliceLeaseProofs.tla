-------------------------- MODULE SliceLeaseProofs --------------------------
(***************************************************************************)
(* Theorems about module SliceLease, for every set of runs, keys and hosts *)
(* and every TTL, number of retries and clock bound.                       *)
(***************************************************************************)
EXTENDS SliceLease, FiniteSetTheorems, TLAPS

\* The sentinels are not records, and a record expires after its date.
LEMMA RecordFacts ==
  /\ Free \notin Record /\ Untried \notin Record /\ Done \notin Record
  /\ Unreadable \notin Record
  /\ \A rec \in Record : rec.run \in Run /\ rec.at \in 0 .. MaxClock
                         /\ ExpiresAt(rec) \in Nat
  BY LeaseAssumption, HelperAssumption DEF Record, ExpiresAt

-----------------------------------------------------------------------------
\* Type correctness: the first conjunct of the inductive invariant.
LEMMA TypeInit == Init => TypeOK
  BY LeaseAssumption, HelperAssumption
  DEF Init, PromiseInit, TypeOK, Idle, Op, Content

LEMMA IdleTyped == Idle \in Op
  BY LeaseAssumption, HelperAssumption DEF Idle, Op, Content

\* The parts of TypeOK that the steps below look up.
LEMMA Lookup ==
  ASSUME TypeOK
  PROVE  /\ Free \in Content /\ Unreadable \in Content /\ Record \subseteq Content
         /\ \A r \in Run : op[r] \in Op
         /\ \A k \in Key : locks[k] \in Content
         /\ clock \in 0 .. MaxClock
         /\ \A r \in Run : op[r].pc \notin {"ready", "sweep"} => op[r].key \in Key
  BY DEF TypeOK, Content

LEMMA StepTyped ==
  ASSUME TypeOK, NEW r \in Run, NEW o \in Op,
         o.pc \notin {"ready", "sweep"} => o.key \in Key,
         op' = [op EXCEPT ![r] = o]
  PROVE  /\ op' \in [Run -> Op]
         /\ \A s \in Run : op'[s].pc \notin {"ready", "sweep"} => op'[s].key \in Key
  BY DEF TypeOK

LEMMA ReturnTyped ==
  ASSUME TypeOK, NEW r \in Run, NEW outcome \in Content \cup {Untried, Done},
         Return(r, outcome)
  PROVE  /\ op' \in [Run -> Op] /\ lease' \in [Run -> [Key -> Content \cup {Untried, Done}]]
         /\ \A s \in Run : op'[s].pc \notin {"ready", "sweep"} => op'[s].key \in Key
  BY IdleTyped DEF Return, TypeOK, Idle

LEMMA GotoTyped ==
  ASSUME TypeOK, NEW r \in Run,
         op[r].pc \notin {"ready", "sweep"},
         NEW pc \in AcquirePCs \cup SweepPCs \cup {"unlink"}, Goto(r, pc)
  PROVE  /\ op' \in [Run -> Op]
         /\ \A s \in Run : op'[s].pc \notin {"ready", "sweep"} => op'[s].key \in Key
  <1>1. [op[r] EXCEPT !.pc = pc] \in Op
    BY Lookup DEF Op, AcquirePCs, SweepPCs
  <1> QED BY <1>1 DEF Goto, TypeOK

LEMMA TypeStep == TypeOK /\ [Next]_vars => TypeOK'
  <1> SUFFICES ASSUME TypeOK, [Next]_vars PROVE TypeOK'
    OBVIOUS
  <1> USE LeaseAssumption, HelperAssumption
  <1>1. ASSUME NEW r \in Run, NEW k \in Key, BeginAcquire(r, k) PROVE TypeOK'
    BY IdleTyped, <1>1 DEF BeginAcquire, TypeOK, Op, Idle, Content
  <1>2. ASSUME NEW r \in Run, NEW k \in Key, BeginRelease(r, k) PROVE TypeOK'
    BY IdleTyped, <1>2 DEF BeginRelease, TypeOK, Op, Idle, Content
  <1>3. ASSUME NEW r \in Run, BeginSweep(r) PROVE TypeOK'
    BY IdleTyped, <1>3 DEF BeginSweep, TypeOK, Op, Idle, Content
  <1>4. ASSUME NEW r \in Run, Stage(r) PROVE TypeOK'
    <2>1. [op[r] EXCEPT !.pc = "write", !.stamp = clock, !.draft = Unreadable] \in Op
      BY Lookup, ZenonT(60) DEF Op
    <2> QED BY <1>4, <2>1 DEF Stage, TypeOK
  <1>5. ASSUME NEW r \in Run, StageFails(r) PROVE TypeOK'
    BY <1>5, ReturnTyped DEF StageFails, TypeOK
  <1>6. ASSUME NEW r \in Run, WriteDraft(r) PROVE TypeOK'
    <2>1. [run |-> r, at |-> op[r].stamp] \in Content
      BY Lookup DEF Record, Op
    <2>2. [op[r] EXCEPT !.pc = "link", !.draft = [run |-> r, at |-> op[r].stamp]] \in Op
      BY Lookup, <2>1, ZenonT(60) DEF Op
    <2> QED BY <1>6, <2>2 DEF WriteDraft, TypeOK
  <1>7. ASSUME NEW r \in Run, Link(r) PROVE TypeOK'
    <2>1. op[r].draft \in Content
      BY Lookup DEF Op
    <2>2. CASE locks[op[r].key] = Free
      <3>1. Return(r, op[r].draft) /\ UNCHANGED <<clock, alive>>
            /\ locks' = [locks EXCEPT ![op[r].key] = op[r].draft]
        BY <1>7, <2>2 DEF Link
      <3> QED BY <2>1, <3>1, ReturnTyped DEF TypeOK
    <2>3. CASE locks[op[r].key] # Free
      BY <1>7, <2>3, GotoTyped DEF Link, TypeOK, AcquirePCs
    <2> QED BY <2>2, <2>3
  <1>8. ASSUME NEW r \in Run, ReadHolder(r) PROVE TypeOK'
    <2>1. [op[r] EXCEPT !.pc = "judge", !.seen = locks[op[r].key]] \in Op
      BY <1>8, Lookup, ZenonT(60) DEF Op, ReadHolder
    <2> QED BY <1>8, <2>1 DEF ReadHolder, TypeOK
  <1>9. ASSUME NEW r \in Run, Judge(r) PROVE TypeOK'
    <2>1. CASE Breakable(r, op[r].seen, clock)
      BY <1>9, <2>1, GotoTyped DEF Judge, TypeOK, AcquirePCs
    <2>2. CASE ~Breakable(r, op[r].seen, clock)
      BY <1>9, <2>2, ReturnTyped DEF Judge, TypeOK
    <2> QED BY <2>1, <2>2
  <1>10. ASSUME NEW r \in Run, Break(r) PROVE TypeOK'
    <2>1. locks' \in [Key -> Content]
      BY <1>10, Lookup DEF Break, BreakAside, TypeOK
    <2>2. CASE op[r].attempt < Retries
      <3> DEFINE o == [op[r] EXCEPT !.pc = "stage", !.attempt = @ + 1]
      <3>1. op[r].attempt + 1 \in 0 .. Retries
        BY Lookup, <2>2 DEF Op
      <3>2. o \in Op /\ o.key = op[r].key
        BY Lookup, <3>1, ZenonT(60) DEF Op
      <3>3. op' = [op EXCEPT ![r] = o] /\ op[r].key \in Key
        BY <1>10, <2>2, Lookup DEF Break
      <3> HIDE DEF o
      <3> QED BY <1>10, <2>1, <3>2, <3>3, StepTyped DEF Break, TypeOK
    <2>3. CASE ~(op[r].attempt < Retries)
      BY <1>10, <2>1, <2>3, GotoTyped DEF Break, TypeOK, AcquirePCs
    <2> QED BY <2>2, <2>3
  <1>11. ASSUME NEW r \in Run, Contended(r) PROVE TypeOK'
    BY <1>11, ReturnTyped DEF Contended, TypeOK
  <1>12. ASSUME NEW r \in Run, ReleaseRead(r) PROVE TypeOK'
    <2> DEFINE rec == locks[op[r].key]
    <2>1. rec \in Content
      BY <1>12, Lookup DEF ReleaseRead
    <2>2. CASE rec \in Record /\ rec.run # r
      BY <1>12, <2>2, ReturnTyped DEF ReleaseRead, TypeOK
    <2>3. CASE ~(rec \in Record /\ rec.run # r)
      <3>1. PICK pc \in {"unlink", "relexists"} :
              pc = IF rec \in Record THEN "unlink" ELSE "relexists"
        OBVIOUS
      <3> DEFINE o == [op[r] EXCEPT !.pc = pc, !.seen = rec]
      <3>2. o \in Op /\ o.key = op[r].key
        BY Lookup, <2>1, ZenonT(60) DEF Op
      <3>3. op' = [op EXCEPT ![r] = o] /\ op[r].key \in Key
            /\ UNCHANGED <<clock, alive, locks, lease>>
        BY <1>12, <2>3, <3>1, Lookup DEF ReleaseRead
      <3> HIDE DEF o
      <3> QED BY <3>2, <3>3, StepTyped DEF TypeOK
    <2> QED BY <2>2, <2>3
  <1>12a. ASSUME NEW r \in Run, ReleaseExists(r) PROVE TypeOK'
    <2>1. CASE locks[op[r].key] = Free
      BY <1>12a, <2>1, ReturnTyped DEF ReleaseExists, TypeOK
    <2>2. CASE locks[op[r].key] # Free
      BY <1>12a, <2>2, GotoTyped DEF ReleaseExists, TypeOK
    <2> QED BY <2>1, <2>2
  <1>13. ASSUME NEW r \in Run, Unlink(r) PROVE TypeOK'
    BY <1>13, ReturnTyped, Lookup DEF Unlink, TypeOK
  <1>14. ASSUME NEW r \in Run, SweepRead(r) PROVE TypeOK'
    <2>1. PICK k \in op[r].todo :
            op' = [op EXCEPT ![r].pc = "swjudge", ![r].key = k,
                             ![r].seen = locks[k], ![r].todo = @ \ {k}]
      BY <1>14 DEF SweepRead
    <2> DEFINE o == [op[r] EXCEPT !.pc = "swjudge", !.key = k,
                                  !.seen = locks[k], !.todo = @ \ {k}]
    <2>2. k \in Key
      BY Lookup DEF Op
    <2>3. o \in Op /\ o.key = k
      BY Lookup, <2>2, ZenonT(60) DEF Op
    <2>4. op' = [op EXCEPT ![r] = o]
      BY <2>1
    <2> HIDE DEF o
    <2> QED BY <1>14, <2>2, <2>3, <2>4, StepTyped DEF SweepRead, TypeOK
  <1>15. ASSUME NEW r \in Run, SweepJudge(r) PROVE TypeOK'
    BY <1>15, GotoTyped DEF SweepJudge, TypeOK, SweepPCs
  <1>16. ASSUME NEW r \in Run, SweepBreak(r) PROVE TypeOK'
    BY <1>16, GotoTyped, Lookup DEF SweepBreak, BreakAside, TypeOK, SweepPCs
  <1>17. ASSUME NEW r \in Run, SweepEnd(r) PROVE TypeOK'
    BY <1>17, IdleTyped DEF SweepEnd, TypeOK, Idle
  <1>18. ASSUME NEW r \in Run, Kill(r) PROVE TypeOK'
    <2>1. alive' \in [Run -> BOOLEAN] /\ UNCHANGED <<clock, locks, lease>>
      BY <1>18 DEF Kill, TypeOK
    <2>2. CASE UNCHANGED op
      BY <2>1, <2>2 DEF TypeOK
    <2>3. CASE op' = [op EXCEPT ![r] = Idle]
      BY <2>1, <2>3, IdleTyped, StepTyped DEF TypeOK, Idle
    <2> QED BY <1>18, <2>2, <2>3 DEF Kill
  <1>19. CASE Tick
    BY <1>19 DEF Tick, TypeOK
  <1>20. CASE UNCHANGED vars
    BY <1>20 DEF vars, TypeOK
  <1> QED
    BY <1>1, <1>2, <1>3, <1>4, <1>5, <1>6, <1>7, <1>8, <1>9, <1>10, <1>11, <1>12,
       <1>12a, <1>13, <1>14, <1>15, <1>16, <1>17, <1>18, <1>19, <1>20
    DEF Next, Helper, Acquiring, Releasing, Sweeping

\* Every state of the lease protocol is a well-typed one: no helper reads,
\* breaks or unlinks outside the keys, and no attempt exceeds the retries.
THEOREM TypeCorrect == Spec => []TypeOK
  BY TypeInit, TypeStep, PTL DEF Spec
-----------------------------------------------------------------------------
\* The inductive invariant.
LEMMA IInvInit == Init => IInv
  BY TypeInit, RecordFacts
  DEF Init, PromiseInit, IInv, OwnRecords, HelpersMatchLeases, DraftsAreDated,
      JudgedStale, OwnSeen, Idle, AcquirePCs, SweepPCs

LEMMA StampBound ==
  ASSUME TypeOK, DraftsAreDated, NEW r \in Run, op[r].pc \in SweepPCs
  PROVE  op[r].stamp <= clock /\ op[r].stamp \in Nat /\ clock \in Nat
  <1>1. op[r] \in Op /\ clock \in 0 .. MaxClock
    BY DEF TypeOK
  <1>2. op[r].stamp \in 0 .. MaxClock
    BY <1>1 DEF Op
  <1>3. op[r].stamp <= clock
    BY DEF DraftsAreDated
  <1> QED BY <1>1, <1>2, <1>3, LeaseAssumption

\* A sweep that goes on to its next lock keeps its one clock read.
LEMMA SweepKeepsStamp ==
  ASSUME DraftsAreDated, NEW r \in Run, op[r].pc \in SweepPCs,
         op'[r].pc \in SweepPCs, op'[r].stamp = op[r].stamp, clock' = clock,
         \A s \in Run \ {r} : op'[s] = op[s]
  PROVE  DraftsAreDated'
  BY DEF DraftsAreDated, SweepPCs

\* A helper that moves to a point where nothing is judged yet leaves every
\* judgement as good as it was, while the clock and the launchers stand still.
LEMMA NothingJudged ==
  ASSUME JudgedStale, NEW r \in Run, clock' = clock, alive' = alive,
         op'[r].pc \notin {"break", "swbreak", "stage", "write", "link"},
         \A s \in Run \ {r} : op'[s] = op[s]
  PROVE  JudgedStale'
  BY DEF JudgedStale, KnownStale, LooksAlive

\* What one helper comes to judge is all a step has to answer for.
LEMMA OneJudged ==
  ASSUME JudgedStale, NEW r \in Run, clock' = clock, alive' = alive,
         op'[r].pc \in {"break", "swbreak"} =>
           op'[r].seen \in Record /\ KnownStale(r, op'[r].seen),
         op'[r].pc = "stage" /\ op'[r].seen \in Record => KnownStale(r, op'[r].seen),
         op'[r].pc \in {"write", "link"} /\ op'[r].seen \in Record =>
           ~LooksAlive(r, op'[r].seen) \/ op'[r].stamp >= ExpiresAt(op'[r].seen),
         \A s \in Run \ {r} : op'[s] = op[s]
  PROVE  JudgedStale'
  <1>1. ASSUME NEW s \in Run \ {r}
        PROVE  /\ op'[s].pc \in {"break", "swbreak"} =>
                    op'[s].seen \in Record /\ KnownStale(s, op'[s].seen)
               /\ op'[s].pc = "stage" /\ op'[s].seen \in Record => KnownStale(s, op'[s].seen)
               /\ op'[s].pc \in {"write", "link"} /\ op'[s].seen \in Record =>
                    ~LooksAlive(s, op'[s].seen) \/ op'[s].stamp >= ExpiresAt(op'[s].seen)
    BY DEF JudgedStale
  <1>2. \A s \in Run : s = r \/ s \in Run \ {r}
    OBVIOUS
  <1> QED BY <1>1, <1>2 DEF JudgedStale, KnownStale, LooksAlive

\* What one helper has read is all a step that moves no lock has to answer for.
LEMMA OneSeen ==
  ASSUME OwnSeen, NEW r \in Run, locks' = locks,
         op'[r].pc = "unlink" =>
           op'[r].seen = Free \/ (op'[r].seen \in Record /\ op'[r].seen.run = r),
         op'[r].pc = "relexists" => op'[r].seen = Free,
         op'[r].pc \in {"swjudge", "swbreak"} => op'[r].seen = locks[op'[r].key],
         \A s \in Run \ {r} : op'[s] = op[s]
  PROVE  OwnSeen'
  BY DEF OwnSeen

\* A helper's break may take a lock from under a sweep, but puts nothing there.
LEMMA BreakSeen ==
  ASSUME OwnSeen, NEW r \in Run,
         op'[r].pc \notin {"unlink", "relexists", "swjudge", "swbreak"},
         \A s \in Run : s = r \/ op'[s] = op[s],
         \A s \in Run : op'[s].pc \in {"swjudge", "swbreak"} =>
           locks'[op[s].key] = locks[op[s].key] \/ locks'[op[s].key] \notin Record
  PROVE  OwnSeen'
  BY DEF OwnSeen

LEMMA IInvStep == IInv /\ [Next]_vars => IInv'
  <1> SUFFICES ASSUME IInv, [Next]_vars PROVE IInv'
    OBVIOUS
  <1> USE RecordFacts
  <1>0. TypeOK /\ TypeOK'
    BY TypeStep DEF IInv
  <1> DEFINE Parts == OwnRecords /\ HelpersMatchLeases /\ DraftsAreDated
                      /\ JudgedStale /\ OwnSeen
  <1>00. Parts
    BY DEF IInv
  <1>1. ASSUME NEW r \in Run, NEW k \in Key, BeginAcquire(r, k) PROVE Parts'
    <2> USE <1>0, <1>00, <1>1 DEF BeginAcquire, TypeOK
    <2>1. OwnRecords'
      BY DEF OwnRecords, HelpersMatchLeases, DraftsAreDated, AcquirePCs, Idle
    <2>2. HelpersMatchLeases'
      BY DEF OwnRecords, HelpersMatchLeases, AcquirePCs, Idle
    <2>3. DraftsAreDated'
      BY DEF DraftsAreDated, SweepPCs, Idle
    <2>4. JudgedStale'
      BY DEF JudgedStale, DraftsAreDated, SweepPCs, KnownStale, Breakable, LooksAlive, Idle
    <2>5. OwnSeen'
      BY DEF OwnSeen, OwnRecords, HelpersMatchLeases, AcquirePCs, JudgedStale, Idle
    <2> QED BY <2>1, <2>2, <2>3, <2>4, <2>5
  <1>2. ASSUME NEW r \in Run, NEW k \in Key, BeginRelease(r, k) PROVE Parts'
    <2> USE <1>0, <1>00, <1>2 DEF BeginRelease, TypeOK
    <2>1. OwnRecords'
      BY DEF OwnRecords, HelpersMatchLeases, DraftsAreDated, AcquirePCs, Idle
    <2>2. HelpersMatchLeases'
      BY DEF OwnRecords, HelpersMatchLeases, AcquirePCs, Idle
    <2>3. DraftsAreDated'
      BY DEF DraftsAreDated, SweepPCs, Idle
    <2>4. JudgedStale'
      <3>1. /\ op'[r].pc = "relread" /\ clock' = clock /\ alive' = alive
            /\ \A s \in Run \ {r} : op'[s] = op[s]
        BY DEF Idle
      <3> QED BY <3>1, NothingJudged
    <2>5. OwnSeen'
      BY DEF OwnSeen, OwnRecords, HelpersMatchLeases, AcquirePCs, JudgedStale, Idle
    <2> QED BY <2>1, <2>2, <2>3, <2>4, <2>5
  <1>3. ASSUME NEW r \in Run, BeginSweep(r) PROVE Parts'
    <2> USE <1>0, <1>00, <1>3 DEF BeginSweep, TypeOK
    <2>1. OwnRecords'
      BY DEF OwnRecords, HelpersMatchLeases, DraftsAreDated, AcquirePCs, Idle
    <2>2. HelpersMatchLeases'
      BY DEF OwnRecords, HelpersMatchLeases, AcquirePCs, Idle
    <2>3. DraftsAreDated'
      BY DEF DraftsAreDated, SweepPCs, Idle
    <2>4. JudgedStale'
      <3>1. /\ op'[r].pc = "sweep" /\ clock' = clock /\ alive' = alive
            /\ \A s \in Run \ {r} : op'[s] = op[s]
        BY DEF Idle
      <3> QED BY <3>1, NothingJudged
    <2>5. OwnSeen'
      BY DEF OwnSeen, OwnRecords, HelpersMatchLeases, AcquirePCs, JudgedStale, Idle
    <2> QED BY <2>1, <2>2, <2>3, <2>4, <2>5
  <1>4. ASSUME NEW r \in Run, Stage(r) PROVE Parts'
    <2> USE <1>0, <1>00, <1>4 DEF Stage, TypeOK
    <2>1. OwnRecords'
      BY DEF OwnRecords, HelpersMatchLeases, DraftsAreDated, AcquirePCs, Idle
    <2>2. HelpersMatchLeases'
      BY DEF OwnRecords, HelpersMatchLeases, AcquirePCs, Idle
    <2>3. DraftsAreDated'
      BY DEF DraftsAreDated, SweepPCs, Idle
    <2>4. JudgedStale'
      <3>1. /\ op'[r].pc = "write" /\ op'[r].seen = op[r].seen /\ op'[r].stamp = clock
            /\ clock' = clock /\ alive' = alive
            /\ \A s \in Run \ {r} : op'[s] = op[s]
        BY DEF Op
      <3>2. op[r].seen \in Record => KnownStale(r, op[r].seen)
        BY DEF JudgedStale
      <3> QED BY <3>1, <3>2, OneJudged DEF KnownStale
    <2>5. OwnSeen'
      BY DEF OwnSeen, OwnRecords, HelpersMatchLeases, AcquirePCs, JudgedStale, Idle
    <2> QED BY <2>1, <2>2, <2>3, <2>4, <2>5
  <1>5. ASSUME NEW r \in Run, StageFails(r) PROVE Parts'
    <2> USE <1>0, <1>00, <1>5 DEF StageFails, Return, TypeOK
    <2>1. OwnRecords'
      BY DEF OwnRecords, HelpersMatchLeases, DraftsAreDated, AcquirePCs, Idle
    <2>2. HelpersMatchLeases'
      BY DEF OwnRecords, HelpersMatchLeases, AcquirePCs, Idle
    <2>3. DraftsAreDated'
      BY DEF DraftsAreDated, SweepPCs, Idle
    <2>4. JudgedStale'
      <3>1. /\ op'[r].pc = "ready" /\ clock' = clock /\ alive' = alive
            /\ \A s \in Run \ {r} : op'[s] = op[s]
        BY DEF Idle
      <3> QED BY <3>1, NothingJudged
    <2>5. OwnSeen'
      BY DEF OwnSeen, OwnRecords, HelpersMatchLeases, AcquirePCs, JudgedStale, Idle
    <2> QED BY <2>1, <2>2, <2>3, <2>4, <2>5
  <1>6. ASSUME NEW r \in Run, WriteDraft(r) PROVE Parts'
    <2> USE <1>0, <1>00, <1>6 DEF WriteDraft, TypeOK
    <2>1. OwnRecords'
      BY DEF OwnRecords, HelpersMatchLeases, DraftsAreDated, AcquirePCs, Idle
    <2>2. HelpersMatchLeases'
      BY DEF OwnRecords, HelpersMatchLeases, AcquirePCs, Idle
    <2>3. DraftsAreDated'
      BY DEF DraftsAreDated, SweepPCs, Idle
    <2>4. JudgedStale'
      <3>1. /\ op'[r].pc = "link" /\ op'[r].seen = op[r].seen /\ op'[r].stamp = op[r].stamp
            /\ clock' = clock /\ alive' = alive
            /\ \A s \in Run \ {r} : op'[s] = op[s]
        BY DEF Op
      <3>2. op[r].seen \in Record =>
              ~LooksAlive(r, op[r].seen) \/ op[r].stamp >= ExpiresAt(op[r].seen)
        BY DEF JudgedStale
      <3> QED BY <3>1, <3>2, OneJudged
    <2>5. OwnSeen'
      BY DEF OwnSeen, OwnRecords, HelpersMatchLeases, AcquirePCs, JudgedStale, Idle
    <2> QED BY <2>1, <2>2, <2>3, <2>4, <2>5
  <1>7. ASSUME NEW r \in Run, Link(r) PROVE Parts'
    <2>1. CASE locks[op[r].key] = Free
      <3>0. /\ op[r].pc = "link" /\ op[r].key \in Key
            /\ op' = [op EXCEPT ![r] = Idle] /\ lease' = [lease EXCEPT ![r][op[r].key] = op[r].draft]
            /\ locks' = [locks EXCEPT ![op[r].key] = op[r].draft]
            /\ UNCHANGED <<clock, alive>>
        BY <1>0, <1>7, <2>1, Lookup DEF Link, Return, Goto
      <3> USE <1>0, <1>00, <2>1, <3>0 DEF TypeOK
      <3>10. op[r].draft \in Record /\ op[r].draft.run = r
        <4>1. op[r].stamp \in 0 .. MaxClock
          BY Lookup DEF Op
        <4>2. op[r].draft = [run |-> r, at |-> op[r].stamp]
          BY DEF DraftsAreDated
        <4> QED BY <4>1, <4>2 DEF Record
      <3>11. lease[r][op[r].key] = Untried
        BY DEF HelpersMatchLeases, AcquirePCs
      <3>1. OwnRecords'
        BY <3>10, <3>11 DEF OwnRecords
      <3>2. HelpersMatchLeases'
        BY DEF OwnRecords, HelpersMatchLeases, AcquirePCs, Idle
      <3>3. DraftsAreDated'
        BY DEF DraftsAreDated, SweepPCs, Idle
      <3>4. JudgedStale'
        <4>1. /\ op'[r].pc = "ready" /\ clock' = clock /\ alive' = alive
              /\ \A s \in Run \ {r} : op'[s] = op[s]
          BY DEF Idle
        <4> QED BY <4>1, NothingJudged
      <3>5. OwnSeen'
        BY <3>10 DEF OwnSeen, Idle
      <3> QED BY <3>1, <3>2, <3>3, <3>4, <3>5
    <2>2. CASE ~(locks[op[r].key] = Free)
      <3>0. /\ op[r].pc = "link" /\ op[r].key \in Key
            /\ op' = [op EXCEPT ![r].pc = "read"]
            /\ UNCHANGED <<clock, alive, locks, lease>>
        BY <1>0, <1>7, <2>2, Lookup DEF Link, Return, Goto
      <3> USE <1>0, <1>00, <2>2, <3>0 DEF TypeOK
      <3>1. OwnRecords'
        BY DEF OwnRecords, HelpersMatchLeases, DraftsAreDated, AcquirePCs, Idle
      <3>2. HelpersMatchLeases'
        BY DEF OwnRecords, HelpersMatchLeases, AcquirePCs, Idle
      <3>3. DraftsAreDated'
        BY DEF DraftsAreDated, SweepPCs, Idle
      <3>4. JudgedStale'
        <4>1. /\ op'[r].pc = "read" /\ clock' = clock /\ alive' = alive
              /\ \A s \in Run \ {r} : op'[s] = op[s]
          BY DEF Idle
        <4> QED BY <4>1, NothingJudged
      <3>5. OwnSeen'
        BY DEF OwnSeen, OwnRecords, HelpersMatchLeases, AcquirePCs, JudgedStale, Idle
      <3> QED BY <3>1, <3>2, <3>3, <3>4, <3>5
    <2> QED BY <2>1, <2>2
  <1>8. ASSUME NEW r \in Run, ReadHolder(r) PROVE Parts'
    <2> USE <1>0, <1>00, <1>8 DEF ReadHolder, TypeOK
    <2>1. OwnRecords'
      BY DEF OwnRecords, HelpersMatchLeases, DraftsAreDated, AcquirePCs, Idle
    <2>2. HelpersMatchLeases'
      BY DEF OwnRecords, HelpersMatchLeases, AcquirePCs, Idle
    <2>3. DraftsAreDated'
      BY DEF DraftsAreDated, SweepPCs, Idle
    <2>4. JudgedStale'
      <3>1. /\ op'[r].pc = "judge" /\ clock' = clock /\ alive' = alive
            /\ \A s \in Run \ {r} : op'[s] = op[s]
        BY DEF Idle
      <3> QED BY <3>1, NothingJudged
    <2>5. OwnSeen'
      <3>1. /\ op'[r].pc = "judge" /\ locks' = locks
            /\ \A s \in Run \ {r} : op'[s] = op[s]
        BY DEF Op
      <3> QED BY <3>1, OneSeen
    <2> QED BY <2>1, <2>2, <2>3, <2>4, <2>5
  <1>9. ASSUME NEW r \in Run, Judge(r) PROVE Parts'
    <2>1. CASE Breakable(r, op[r].seen, clock)
      <3>0. /\ op[r].pc = "judge" /\ op[r].key \in Key
            /\ op' = [op EXCEPT ![r].pc = "break"]
            /\ UNCHANGED <<clock, alive, locks, lease>>
        BY <1>0, <1>9, <2>1, Lookup DEF Judge, Return, Goto
      <3> USE <1>0, <1>00, <2>1, <3>0 DEF TypeOK
      <3>1. OwnRecords'
        BY DEF OwnRecords, HelpersMatchLeases, DraftsAreDated, AcquirePCs, Idle
      <3>2. HelpersMatchLeases'
        BY DEF OwnRecords, HelpersMatchLeases, AcquirePCs, Idle
      <3>3. DraftsAreDated'
        BY DEF DraftsAreDated, SweepPCs, Idle
      <3>40. op[r].seen \in Record /\ KnownStale(r, op[r].seen)
        BY <2>1 DEF Breakable, KnownStale
      <3>41. /\ op'[r].pc = "break" /\ op'[r].seen = op[r].seen
             /\ clock' = clock /\ alive' = alive
             /\ \A s \in Run \ {r} : op'[s] = op[s]
        BY DEF Op
      <3>4. JudgedStale'
        BY <3>40, <3>41, OneJudged
      <3>5. OwnSeen'
        BY <3>41, OneSeen
      <3> QED BY <3>1, <3>2, <3>3, <3>4, <3>5
    <2>2. CASE ~(Breakable(r, op[r].seen, clock))
      <3>0. /\ op[r].pc = "judge" /\ op[r].key \in Key
            /\ op' = [op EXCEPT ![r] = Idle] /\ lease' = [lease EXCEPT ![r][op[r].key] = Done]
            /\ UNCHANGED <<clock, alive, locks>>
        BY <1>0, <1>9, <2>2, Lookup DEF Judge, Return, Goto
      <3> USE <1>0, <1>00, <2>2, <3>0 DEF TypeOK
      <3>1. OwnRecords'
        BY DEF OwnRecords, HelpersMatchLeases, DraftsAreDated, AcquirePCs, Idle
      <3>2. HelpersMatchLeases'
        BY DEF OwnRecords, HelpersMatchLeases, AcquirePCs, Idle
      <3>3. DraftsAreDated'
        BY DEF DraftsAreDated, SweepPCs, Idle
      <3>4. JudgedStale'
        <4>1. /\ op'[r].pc = "ready" /\ clock' = clock /\ alive' = alive
              /\ \A s \in Run \ {r} : op'[s] = op[s]
          BY DEF Idle
        <4> QED BY <4>1, NothingJudged
      <3>5. OwnSeen'
        BY DEF OwnSeen, OwnRecords, HelpersMatchLeases, AcquirePCs, JudgedStale, Idle
      <3> QED BY <3>1, <3>2, <3>3, <3>4, <3>5
    <2> QED BY <2>1, <2>2
  <1>10. ASSUME NEW r \in Run, Break(r) PROVE Parts'
    <2>1. CASE op[r].attempt < Retries
      <3>0. /\ op[r].pc = "break" /\ op[r].key \in Key
            /\ op' = [op EXCEPT ![r].pc = "stage", ![r].attempt = @ + 1]
            /\ locks' = [locks EXCEPT ![op[r].key] = Free]
            /\ UNCHANGED <<clock, alive, lease>>
        BY <1>0, <1>10, <2>1, Lookup DEF Break, BreakAside, Goto
      <3> USE <1>0, <1>00, <2>1, <3>0 DEF TypeOK
      <3>1. OwnRecords'
        BY DEF OwnRecords, HelpersMatchLeases, DraftsAreDated, AcquirePCs, Idle
      <3>2. HelpersMatchLeases'
        BY DEF OwnRecords, HelpersMatchLeases, AcquirePCs, Idle
      <3>3. DraftsAreDated'
        BY DEF DraftsAreDated, SweepPCs, Idle
      <3>40. /\ op'[r].pc = "stage" /\ op'[r].seen = op[r].seen
             /\ clock' = clock /\ alive' = alive
             /\ \A s \in Run \ {r} : op'[s] = op[s]
        BY DEF Op
      <3>4. JudgedStale'
        <4>1. KnownStale(r, op[r].seen)
          BY DEF JudgedStale
        <4> QED BY <3>40, <4>1, OneJudged
      <3>5. OwnSeen'
        <4>1. ASSUME NEW s \in Run, s # r, op[s].pc \in {"swjudge", "swbreak"}
              PROVE  locks'[op[s].key] = locks[op[s].key] \/ locks'[op[s].key] = Free
          BY <4>1
        <4>2. \A s \in Run : s = r \/ op'[s] = op[s]
          BY <3>40
        <4>3. op'[r].pc \notin {"unlink", "relexists", "swjudge", "swbreak"}
          BY <3>40
        <4>4. \A s \in Run : op'[s].pc \in {"swjudge", "swbreak"} =>
                locks'[op[s].key] = locks[op[s].key] \/ locks'[op[s].key] \notin Record
          BY <4>1, <4>2, <4>3
        <4> QED BY <4>2, <4>3, <4>4, BreakSeen
      <3> QED BY <3>1, <3>2, <3>3, <3>4, <3>5
    <2>2. CASE ~(op[r].attempt < Retries)
      <3>0. /\ op[r].pc = "break" /\ op[r].key \in Key
            /\ op' = [op EXCEPT ![r].pc = "contended"]
            /\ locks' = [locks EXCEPT ![op[r].key] = Free]
            /\ UNCHANGED <<clock, alive, lease>>
        BY <1>0, <1>10, <2>2, Lookup DEF Break, BreakAside, Goto
      <3> USE <1>0, <1>00, <2>2, <3>0 DEF TypeOK
      <3>1. OwnRecords'
        BY DEF OwnRecords, HelpersMatchLeases, DraftsAreDated, AcquirePCs, Idle
      <3>2. HelpersMatchLeases'
        BY DEF OwnRecords, HelpersMatchLeases, AcquirePCs, Idle
      <3>3. DraftsAreDated'
        BY DEF DraftsAreDated, SweepPCs, Idle
      <3>4. JudgedStale'
        <4>1. /\ op'[r].pc = "contended" /\ clock' = clock /\ alive' = alive
              /\ \A s \in Run \ {r} : op'[s] = op[s]
          BY DEF Idle
        <4> QED BY <4>1, NothingJudged
      <3>5. OwnSeen'
        BY DEF OwnSeen, OwnRecords, HelpersMatchLeases, AcquirePCs, JudgedStale, Idle
      <3> QED BY <3>1, <3>2, <3>3, <3>4, <3>5
    <2> QED BY <2>1, <2>2
  <1>11. ASSUME NEW r \in Run, Contended(r) PROVE Parts'
    <2> USE <1>0, <1>00, <1>11 DEF Contended, Return, TypeOK
    <2>1. OwnRecords'
      BY DEF OwnRecords, HelpersMatchLeases, DraftsAreDated, AcquirePCs, Idle
    <2>2. HelpersMatchLeases'
      BY DEF OwnRecords, HelpersMatchLeases, AcquirePCs, Idle
    <2>3. DraftsAreDated'
      BY DEF DraftsAreDated, SweepPCs, Idle
    <2>4. JudgedStale'
      <3>1. /\ op'[r].pc = "ready" /\ clock' = clock /\ alive' = alive
            /\ \A s \in Run \ {r} : op'[s] = op[s]
        BY DEF Idle
      <3> QED BY <3>1, NothingJudged
    <2>5. OwnSeen'
      BY DEF OwnSeen, OwnRecords, HelpersMatchLeases, AcquirePCs, JudgedStale, Idle
    <2> QED BY <2>1, <2>2, <2>3, <2>4, <2>5
  <1>12. ASSUME NEW r \in Run, ReleaseRead(r) PROVE Parts'
    <2>1. CASE locks[op[r].key] \in Record /\ locks[op[r].key].run # r
      <3>0. /\ op[r].pc = "relread" /\ op[r].key \in Key
            /\ op' = [op EXCEPT ![r] = Idle] /\ lease' = [lease EXCEPT ![r][op[r].key] = Done]
            /\ UNCHANGED <<clock, alive, locks>>
        BY <1>0, <1>12, <2>1, Lookup DEF ReleaseRead, Return
      <3> USE <1>0, <1>00, <2>1, <3>0 DEF TypeOK
      <3>1. OwnRecords'
        BY DEF OwnRecords, HelpersMatchLeases, DraftsAreDated, AcquirePCs, Idle
      <3>2. HelpersMatchLeases'
        BY DEF OwnRecords, HelpersMatchLeases, AcquirePCs, Idle
      <3>3. DraftsAreDated'
        BY DEF DraftsAreDated, SweepPCs, Idle
      <3>4. JudgedStale'
        <4>1. /\ op'[r].pc = "ready" /\ clock' = clock /\ alive' = alive
              /\ \A s \in Run \ {r} : op'[s] = op[s]
          BY DEF Idle
        <4> QED BY <4>1, NothingJudged
      <3>5. OwnSeen'
        BY DEF OwnSeen, OwnRecords, HelpersMatchLeases, AcquirePCs, JudgedStale, Idle
      <3> QED BY <3>1, <3>2, <3>3, <3>4, <3>5
    <2>2. CASE locks[op[r].key] \in Record /\ locks[op[r].key].run = r
      <3>0. /\ op[r].pc = "relread" /\ op[r].key \in Key
            /\ op' = [op EXCEPT ![r].pc = "unlink", ![r].seen = locks[op[r].key]]
            /\ UNCHANGED <<clock, alive, locks, lease>>
        BY <1>0, <1>12, <2>2, Lookup DEF ReleaseRead, Return
      <3> USE <1>0, <1>00, <2>2, <3>0 DEF TypeOK
      <3>1. OwnRecords'
        BY DEF OwnRecords, HelpersMatchLeases, DraftsAreDated, AcquirePCs, Idle
      <3>2. HelpersMatchLeases'
        BY DEF OwnRecords, HelpersMatchLeases, AcquirePCs, Idle
      <3>3. DraftsAreDated'
        BY DEF DraftsAreDated, SweepPCs, Idle
      <3>4. JudgedStale'
        <4>1. /\ op'[r].pc = "unlink" /\ clock' = clock /\ alive' = alive
              /\ \A s \in Run \ {r} : op'[s] = op[s]
          BY DEF Idle
        <4> QED BY <4>1, NothingJudged
      <3>5. OwnSeen'
        BY DEF OwnSeen, OwnRecords, HelpersMatchLeases, AcquirePCs, JudgedStale, Idle
      <3> QED BY <3>1, <3>2, <3>3, <3>4, <3>5
    <2>3. CASE locks[op[r].key] \notin Record
      <3>0. /\ op[r].pc = "relread" /\ op[r].key \in Key
            /\ op' = [op EXCEPT ![r].pc = "relexists", ![r].seen = locks[op[r].key]]
            /\ UNCHANGED <<clock, alive, locks, lease>>
        BY <1>0, <1>12, <2>3, Lookup DEF ReleaseRead, Return
      <3> USE <1>0, <1>00, <2>3, <3>0 DEF TypeOK
      <3>1. OwnRecords'
        BY DEF OwnRecords, HelpersMatchLeases, DraftsAreDated, AcquirePCs, Idle
      <3>2. HelpersMatchLeases'
        BY DEF OwnRecords, HelpersMatchLeases, AcquirePCs, Idle
      <3>3. DraftsAreDated'
        BY DEF DraftsAreDated, SweepPCs, Idle
      <3>4. JudgedStale'
        <4>1. /\ op'[r].pc = "relexists" /\ clock' = clock /\ alive' = alive
              /\ \A s \in Run \ {r} : op'[s] = op[s]
          BY DEF Idle
        <4> QED BY <4>1, NothingJudged
      <3>5. OwnSeen'
        <4>1. /\ op'[r].pc = "relexists" /\ op'[r].seen = locks[op[r].key] /\ locks' = locks
              /\ \A s \in Run \ {r} : op'[s] = op[s]
          BY DEF Op
        <4>2. locks[op[r].key] = Free
          BY DEF OwnRecords
        <4> QED BY <4>1, <4>2, OneSeen
      <3> QED BY <3>1, <3>2, <3>3, <3>4, <3>5
    <2> QED BY <2>1, <2>2, <2>3
  <1>12a. ASSUME NEW r \in Run, ReleaseExists(r) PROVE Parts'
    <2>1. CASE locks[op[r].key] = Free
      <3>0. /\ op[r].pc = "relexists" /\ op[r].key \in Key
            /\ op' = [op EXCEPT ![r] = Idle] /\ lease' = [lease EXCEPT ![r][op[r].key] = Done]
            /\ UNCHANGED <<clock, alive, locks>>
        BY <1>0, <1>12a, <2>1, Lookup DEF ReleaseExists, Return
      <3> USE <1>0, <1>00, <2>1, <3>0 DEF TypeOK
      <3>1. OwnRecords'
        BY DEF OwnRecords, HelpersMatchLeases, DraftsAreDated, AcquirePCs, Idle
      <3>2. HelpersMatchLeases'
        BY DEF OwnRecords, HelpersMatchLeases, AcquirePCs, Idle
      <3>3. DraftsAreDated'
        BY DEF DraftsAreDated, SweepPCs, Idle
      <3>4. JudgedStale'
        <4>1. /\ op'[r].pc = "ready" /\ clock' = clock /\ alive' = alive
              /\ \A s \in Run \ {r} : op'[s] = op[s]
          BY DEF Idle
        <4> QED BY <4>1, NothingJudged
      <3>5. OwnSeen'
        BY DEF OwnSeen, OwnRecords, HelpersMatchLeases, AcquirePCs, JudgedStale, Idle
      <3> QED BY <3>1, <3>2, <3>3, <3>4, <3>5
    <2>2. CASE locks[op[r].key] # Free
      <3>0. /\ op[r].pc = "relexists" /\ op[r].key \in Key
            /\ op' = [op EXCEPT ![r].pc = "unlink"]
            /\ UNCHANGED <<clock, alive, locks, lease>>
        BY <1>0, <1>12a, <2>2, Lookup DEF ReleaseExists, Goto
      <3> USE <1>0, <1>00, <2>2, <3>0 DEF TypeOK
      <3>1. OwnRecords'
        BY DEF OwnRecords, HelpersMatchLeases, DraftsAreDated, AcquirePCs, Idle
      <3>2. HelpersMatchLeases'
        BY DEF OwnRecords, HelpersMatchLeases, AcquirePCs, Idle
      <3>3. DraftsAreDated'
        BY DEF DraftsAreDated, SweepPCs, Idle
      <3>4. JudgedStale'
        <4>1. /\ op'[r].pc = "unlink" /\ clock' = clock /\ alive' = alive
              /\ \A s \in Run \ {r} : op'[s] = op[s]
          BY DEF Idle
        <4> QED BY <4>1, NothingJudged
      <3>5. OwnSeen'
        BY DEF OwnSeen, OwnRecords, HelpersMatchLeases, AcquirePCs, JudgedStale, Idle
      <3> QED BY <3>1, <3>2, <3>3, <3>4, <3>5
    <2> QED BY <2>1, <2>2
  <1>13. ASSUME NEW r \in Run, Unlink(r) PROVE Parts'
    <2> USE <1>0, <1>00, <1>13 DEF Unlink, Return, TypeOK
    <2>1. OwnRecords'
      BY DEF OwnRecords, HelpersMatchLeases, DraftsAreDated, AcquirePCs, Idle
    <2>2. HelpersMatchLeases'
      BY DEF OwnRecords, HelpersMatchLeases, AcquirePCs, Idle
    <2>3. DraftsAreDated'
      BY DEF DraftsAreDated, SweepPCs, Idle
    <2>4. JudgedStale'
      <3>1. /\ op'[r].pc = "ready" /\ clock' = clock /\ alive' = alive
            /\ \A s \in Run \ {r} : op'[s] = op[s]
        BY DEF Idle
      <3> QED BY <3>1, NothingJudged
    <2>5. OwnSeen'
      BY DEF OwnSeen, OwnRecords, HelpersMatchLeases, AcquirePCs, JudgedStale, Idle
    <2> QED BY <2>1, <2>2, <2>3, <2>4, <2>5
  <1>14. ASSUME NEW r \in Run, SweepRead(r) PROVE Parts'
    <2> USE <1>0, <1>00, <1>14 DEF SweepRead, TypeOK
    <2>1. OwnRecords'
      BY DEF OwnRecords, HelpersMatchLeases, DraftsAreDated, AcquirePCs, Idle
    <2>2. HelpersMatchLeases'
      BY DEF OwnRecords, HelpersMatchLeases, AcquirePCs, Idle
    <2>3. DraftsAreDated'
      <3>1. /\ op[r].pc = "sweep" /\ op'[r].pc = "swjudge" /\ clock' = clock
            /\ op'[r].stamp = op[r].stamp
            /\ \A s \in Run \ {r} : op'[s] = op[s]
        OBVIOUS
      <3> QED BY <3>1, SweepKeepsStamp DEF SweepPCs
    <2>4. JudgedStale'
      <3>1. /\ op'[r].pc = "swjudge" /\ clock' = clock /\ alive' = alive
            /\ \A s \in Run \ {r} : op'[s] = op[s]
        OBVIOUS
      <3> QED BY <3>1, NothingJudged
    <2>5. OwnSeen'
      <3>1. PICK k \in Key :
              op' = [op EXCEPT ![r].pc = "swjudge", ![r].key = k,
                               ![r].seen = locks[k], ![r].todo = @ \ {k}]
        BY DEF Op
      <3>2. /\ op'[r].pc = "swjudge" /\ op'[r].key = k /\ op'[r].seen = locks[k]
            /\ locks' = locks
            /\ \A s \in Run \ {r} : op'[s] = op[s]
        BY <3>1 DEF Op
      <3> QED BY <3>2, OneSeen
    <2> QED BY <2>1, <2>2, <2>3, <2>4, <2>5
  <1>15. ASSUME NEW r \in Run, SweepJudge(r) PROVE Parts'
    <2>1. CASE Breakable(r, op[r].seen, op[r].stamp)
      <3>0. /\ op[r].pc = "swjudge" /\ op[r].key \in Key
            /\ op' = [op EXCEPT ![r].pc = "swbreak"]
            /\ UNCHANGED <<clock, alive, locks, lease>>
        BY <1>0, <1>15, <2>1, Lookup DEF SweepJudge, Goto
      <3> USE <1>0, <1>00, <2>1, <3>0 DEF TypeOK
      <3>1. OwnRecords'
        BY DEF OwnRecords, HelpersMatchLeases, DraftsAreDated, AcquirePCs, Idle
      <3>2. HelpersMatchLeases'
        BY DEF OwnRecords, HelpersMatchLeases, AcquirePCs, Idle
      <3>3. DraftsAreDated'
        BY DEF DraftsAreDated, SweepPCs, Idle
      <3>40. /\ op[r].seen \in Record /\ KnownStale(r, op[r].seen)
        <4>1. op[r].stamp <= clock /\ op[r].stamp \in Nat /\ clock \in Nat
          BY StampBound DEF SweepPCs
        <4> QED BY <4>1 DEF Breakable, KnownStale
      <3>41. /\ op'[r].pc = "swbreak" /\ op'[r].seen = op[r].seen
             /\ clock' = clock /\ alive' = alive
             /\ \A s \in Run \ {r} : op'[s] = op[s]
        BY DEF Op
      <3>4. JudgedStale'
        BY <3>40, <3>41, OneJudged
      <3>5. OwnSeen'
        BY DEF OwnSeen, OwnRecords, HelpersMatchLeases, AcquirePCs, JudgedStale, Idle
      <3> QED BY <3>1, <3>2, <3>3, <3>4, <3>5
    <2>2. CASE ~(Breakable(r, op[r].seen, op[r].stamp))
      <3>0. /\ op[r].pc = "swjudge" /\ op[r].key \in Key
            /\ op' = [op EXCEPT ![r].pc = "sweep"]
            /\ UNCHANGED <<clock, alive, locks, lease>>
        BY <1>0, <1>15, <2>2, Lookup DEF SweepJudge, Goto
      <3> USE <1>0, <1>00, <2>2, <3>0 DEF TypeOK
      <3>1. OwnRecords'
        BY DEF OwnRecords, HelpersMatchLeases, DraftsAreDated, AcquirePCs, Idle
      <3>2. HelpersMatchLeases'
        BY DEF OwnRecords, HelpersMatchLeases, AcquirePCs, Idle
      <3>3. DraftsAreDated'
        BY DEF DraftsAreDated, SweepPCs, Idle
      <3>4. JudgedStale'
        <4>1. /\ op'[r].pc = "sweep" /\ clock' = clock /\ alive' = alive
              /\ \A s \in Run \ {r} : op'[s] = op[s]
          BY DEF Idle
        <4> QED BY <4>1, NothingJudged
      <3>5. OwnSeen'
        BY DEF OwnSeen, OwnRecords, HelpersMatchLeases, AcquirePCs, JudgedStale, Idle
      <3> QED BY <3>1, <3>2, <3>3, <3>4, <3>5
    <2> QED BY <2>1, <2>2
  <1>16. ASSUME NEW r \in Run, SweepBreak(r) PROVE Parts'
    <2> USE <1>0, <1>00, <1>16 DEF SweepBreak, Goto, BreakAside, TypeOK
    <2>1. OwnRecords'
      BY DEF OwnRecords, HelpersMatchLeases, DraftsAreDated, AcquirePCs, Idle
    <2>2. HelpersMatchLeases'
      BY DEF OwnRecords, HelpersMatchLeases, AcquirePCs, Idle
    <2>3. DraftsAreDated'
      BY DEF DraftsAreDated, SweepPCs, Idle
    <2>4. JudgedStale'
      BY DEF JudgedStale, DraftsAreDated, SweepPCs, KnownStale, Breakable, LooksAlive, Idle
    <2>5. OwnSeen'
      BY DEF OwnSeen, OwnRecords, HelpersMatchLeases, AcquirePCs, JudgedStale, Idle
    <2> QED BY <2>1, <2>2, <2>3, <2>4, <2>5
  <1>17. ASSUME NEW r \in Run, SweepEnd(r) PROVE Parts'
    <2> USE <1>0, <1>00, <1>17 DEF SweepEnd, TypeOK
    <2>1. OwnRecords'
      BY DEF OwnRecords, HelpersMatchLeases, DraftsAreDated, AcquirePCs, Idle
    <2>2. HelpersMatchLeases'
      BY DEF OwnRecords, HelpersMatchLeases, AcquirePCs, Idle
    <2>3. DraftsAreDated'
      BY DEF DraftsAreDated, SweepPCs, Idle
    <2>4. JudgedStale'
      <3>1. /\ op'[r].pc = "ready" /\ clock' = clock /\ alive' = alive
            /\ \A s \in Run \ {r} : op'[s] = op[s]
        BY DEF Idle
      <3> QED BY <3>1, NothingJudged
    <2>5. OwnSeen'
      BY DEF OwnSeen, OwnRecords, HelpersMatchLeases, AcquirePCs, JudgedStale, Idle
    <2> QED BY <2>1, <2>2, <2>3, <2>4, <2>5
  <1>18. ASSUME NEW r \in Run, Kill(r) PROVE Parts'
    <2> USE <1>0, <1>00, <1>18 DEF Kill, TypeOK
    <2>1. OwnRecords'
      BY DEF OwnRecords, HelpersMatchLeases, DraftsAreDated, AcquirePCs, Idle
    <2>2. HelpersMatchLeases'
      <3>1. /\ lease' = lease
            /\ \A s \in Run : op'[s] = op[s] \/ op'[s].pc = "ready"
        BY DEF Idle
      <3> QED BY <3>1 DEF HelpersMatchLeases, AcquirePCs
    <2>3. DraftsAreDated'
      BY DEF DraftsAreDated, SweepPCs, Idle
    <2>4. JudgedStale'
      BY DEF JudgedStale, DraftsAreDated, SweepPCs, KnownStale, Breakable, LooksAlive, Idle
    <2>5. OwnSeen'
      BY DEF OwnSeen, OwnRecords, HelpersMatchLeases, AcquirePCs, JudgedStale, Idle
    <2> QED BY <2>1, <2>2, <2>3, <2>4, <2>5
  <1>19. ASSUME Tick PROVE Parts'
    <2> USE <1>0, <1>00, <1>19 DEF Tick, Op, TypeOK
    <2>1. OwnRecords'
      BY DEF OwnRecords, HelpersMatchLeases, DraftsAreDated, AcquirePCs, Idle
    <2>2. HelpersMatchLeases'
      BY DEF OwnRecords, HelpersMatchLeases, AcquirePCs, Idle
    <2>3. DraftsAreDated'
      BY DEF DraftsAreDated, SweepPCs, Idle
    <2>4. JudgedStale'
      BY DEF JudgedStale, DraftsAreDated, SweepPCs, KnownStale, Breakable, LooksAlive, Idle
    <2>5. OwnSeen'
      BY DEF OwnSeen, OwnRecords, HelpersMatchLeases, AcquirePCs, JudgedStale, Idle
    <2> QED BY <2>1, <2>2, <2>3, <2>4, <2>5
  <1>20. ASSUME UNCHANGED vars PROVE Parts'
    BY <1>00, <1>20 DEF vars, OwnRecords, HelpersMatchLeases, DraftsAreDated,
       JudgedStale, OwnSeen, KnownStale, LooksAlive
  <1>21. Parts'
    BY <1>1, <1>2, <1>3, <1>4, <1>5, <1>6, <1>7, <1>8, <1>9, <1>10, <1>11, <1>12,
       <1>12a, <1>13, <1>14, <1>15, <1>16, <1>17, <1>18, <1>19, <1>20
    DEF Next, Helper, Acquiring, Releasing, Sweeping
  <1> QED BY <1>0, <1>21 DEF IInv

\* The strengthening that the safety theorems below rest on is itself an
\* invariant, with any number of deaths, expiries and helpers in flight.
THEOREM InductiveInvariant == Spec => []IInv
  BY IInvInit, IInvStep, PTL DEF Spec

-----------------------------------------------------------------------------
\* No lock name ever carries less than a complete record, whichever helper
\* or launcher dies and however takes, breaks and releases interleave.
THEOREM LockAlwaysComplete == Spec => []LockIsComplete
  <1>1. IInv => LockIsComplete
    BY RecordFacts, HelperAssumption DEF IInv, OwnRecords, LockIsComplete
  <1> QED BY <1>1, InductiveInvariant, PTL

\* The locks change only by a take, a break aside or an unlink.
LEMMA LocksChange ==
  ASSUME IInv, Next, NEW k \in Key, locks'[k] # locks[k]
  PROVE  \E b \in Run :
           /\ op[b].key = k
           /\ \/ Link(b) /\ locks[k] = Free /\ locks'[k] = op[b].draft
              \/ op[b].pc \in {"break", "swbreak", "unlink"} /\ locks'[k] = Free
  <1>1. PICK b \in Run : Link(b) \/ Break(b) \/ SweepBreak(b) \/ Unlink(b)
    BY DEF Next, Helper, Acquiring, Releasing, Sweeping, BeginAcquire, BeginRelease,
       BeginSweep, Stage, StageFails, WriteDraft, ReadHolder, Judge, Contended,
       ReleaseRead, ReleaseExists, SweepRead, SweepJudge, SweepEnd, Kill, Tick
  <1>2. locks \in [Key -> Content]
    BY DEF IInv, TypeOK
  <1>3. CASE Link(b)
    BY <1>2, <1>3 DEF Link
  <1>4. CASE Break(b)
    BY <1>2, <1>4 DEF Break, BreakAside
  <1>5. CASE SweepBreak(b)
    BY <1>2, <1>5 DEF SweepBreak, BreakAside
  <1>6. CASE Unlink(b)
    BY <1>2, <1>6 DEF Unlink
  <1> QED BY <1>1, <1>3, <1>4, <1>5, <1>6

\* Whoever takes a key after breaking an expired lease dates its own lease at
\* or after that expiry, whatever the TTL and however long the contention.
THEOREM DatingTheorem == Spec => DatedAfterBreak
  <1>1. IInv /\ [Next]_vars => [\A r \in Run, k \in Key : TakeIsDated(r, k)]_vars
    <2> SUFFICES ASSUME IInv, Next, NEW r \in Run, NEW k \in Key,
                        locks[k] = Free, locks'[k] \in Record, locks'[k].run = r,
                        op[r].seen \in Record
                 PROVE  locks'[k].at >= ExpiresAt(op[r].seen) \/ ~LooksAlive(r, op[r].seen)
      BY DEF TakeIsDated
    <2>1. PICK b \in Run : op[b].key = k /\ Link(b) /\ locks'[k] = op[b].draft
      BY LocksChange, RecordFacts
    <2>2. op[b].draft = [run |-> b, at |-> op[b].stamp] /\ op[b].pc = "link"
      BY <2>1 DEF IInv, DraftsAreDated, Link
    <2>3. b = r
      BY <2>1, <2>2
    <2> QED BY <2>1, <2>2, <2>3 DEF IInv, JudgedStale
  <1> QED BY <1>1, InductiveInvariant, PTL DEF Spec, DatedAfterBreak

\* An entitled holder loses its lock to another run only to a breaker that
\* judged some earlier record stale, to a release that read its own run's
\* earlier record, or to a release that read none before the holder's was
\* there; with helpers that act at once on what they read it never would.
THEOREM OnlyStaleReadsTakeAway == Spec => LossIsAStaleRead
  <1>1. IInv /\ [Next]_vars => [\A r \in Run, k \in Key : LossIsExplained(r, k)]_vars
    <2> SUFFICES ASSUME IInv, Next, NEW r \in Run, NEW k \in Key, Entitled(r, k),
                        locks[k] = lease[r][k], locks'[k] # locks[k],
                        ~(op[r].pc = "unlink" /\ op[r].key = k)
                 PROVE  \E b \in Run \ {r} : StaleReader(b, k)
      BY DEF LossIsExplained
    <2>1. locks[k] \in Record /\ locks[k].run = r /\ locks[k] # Free
      BY RecordFacts DEF IInv, OwnRecords, Entitled
    <2>2. PICK b \in Run : /\ op[b].key = k
                           /\ op[b].pc \in {"break", "swbreak", "unlink"}
      BY LocksChange, <2>1
    <2>3. ~KnownStale(b, locks[k])
      <3>1. alive[r] /\ clock < ExpiresAt(locks[k])
        BY DEF Entitled
      <3>2. clock \in Nat /\ ExpiresAt(locks[k]) \in Nat
        BY RecordFacts, LeaseAssumption, <2>1 DEF IInv, TypeOK
      <3> QED BY <3>1, <3>2, <2>1 DEF KnownStale, LooksAlive
    <2>4. op[b].seen # locks[k]
      <3>1. CASE op[b].pc \in {"break", "swbreak"}
        BY <2>3, <3>1 DEF IInv, JudgedStale
      <3>2. CASE op[b].pc = "unlink"
        BY <2>1, <2>2, <3>2 DEF IInv, OwnSeen
      <3> QED BY <2>2, <3>1, <3>2
    <2>5. b # r
      <3> SUFFICES ASSUME b = r PROVE FALSE
        OBVIOUS
      <3>1. CASE op[r].pc = "break"
        BY <2>1, <2>2, <3>1, RecordFacts DEF IInv, HelpersMatchLeases, AcquirePCs
      <3>2. CASE op[r].pc = "swbreak"
        BY <2>1, <2>2, <2>4, <3>2 DEF IInv, OwnSeen
      <3> QED BY <2>2, <3>1, <3>2
    <2>6. op[b].pc \in {"break", "swbreak"} => op[b].seen \in Record /\ KnownStale(b, op[b].seen)
      BY DEF IInv, JudgedStale
    <2>7. op[b].pc = "unlink" =>
            op[b].seen = Free \/ (op[b].seen \in Record /\ op[b].seen.run = b)
      BY DEF IInv, OwnSeen
    <2> QED BY <2>2, <2>4, <2>5, <2>6, <2>7 DEF StaleReader
  <1> QED BY <1>1, InductiveInvariant, PTL DEF Spec, LossIsAStaleRead

-----------------------------------------------------------------------------
\* What the promise is worth to a launcher: a lease that is neither lapsed nor
\* orphaned stands under the lock name, and so no two such leases share a key.
Kept ==
  /\ clock \in Nat
  /\ \A r \in Run, k \in Key :
       lease[r][k] \in Record =>
         /\ lease[r][k].run = r
         /\ locks[k] = lease[r][k] \/ ~alive[r] \/ clock >= ExpiresAt(lease[r][k])

PromiseTyped ==
  /\ clock \in 0 .. MaxClock
  /\ alive \in [Run -> BOOLEAN]
  /\ locks \in [Key -> Record \cup {Free}]
  /\ lease \in [Run -> [Key -> Record \cup {Untried, Done}]]

LEMMA PromiseStep ==
  ASSUME PromiseTyped, Kept, [PromiseNext]_promiseVars
  PROVE  PromiseTyped' /\ Kept'
  <1> USE RecordFacts, LeaseAssumption
  <1>1. ASSUME NEW r \in Run, NEW k \in Key, Grant(r, k)
        PROVE  PromiseTyped' /\ Kept'
    <2>1. PICK at \in 0 .. clock :
            /\ locks' = [locks EXCEPT ![k] = [run |-> r, at |-> at]]
            /\ lease' = [lease EXCEPT ![r][k] = [run |-> r, at |-> at]]
            /\ locks[k] = Free /\ UNCHANGED <<clock, alive>>
      BY <1>1 DEF Grant
    <2>2. [run |-> r, at |-> at] \in Record
      BY DEF Record, PromiseTyped
    <2>3. PromiseTyped'
      BY <2>1, <2>2 DEF PromiseTyped
    <2>4. Kept'
      BY <2>1, <2>2 DEF Kept, PromiseTyped
    <2> QED BY <2>3, <2>4
  <1>2. ASSUME NEW r \in Run, NEW k \in Key, Refuse(r, k)
        PROVE  PromiseTyped' /\ Kept'
    BY <1>2 DEF Refuse, PromiseTyped, Kept
  <1>3. ASSUME NEW r \in Run, NEW k \in Key, GiveBack(r, k)
        PROVE  PromiseTyped' /\ Kept'
    BY <1>3 DEF GiveBack, PromiseTyped, Kept
  <1>4. ASSUME NEW k \in Key, Reclaim(k)
        PROVE  PromiseTyped' /\ Kept'
    BY <1>4 DEF Reclaim, PromiseTyped, Kept, Stale
  <1>5. ASSUME NEW r \in Run, Perish(r)
        PROVE  PromiseTyped' /\ Kept'
    BY <1>5 DEF Perish, PromiseTyped, Kept
  <1>6. ASSUME Pass PROVE PromiseTyped' /\ Kept'
    BY <1>6 DEF Pass, PromiseTyped, Kept
  <1>7. ASSUME UNCHANGED promiseVars PROVE PromiseTyped' /\ Kept'
    BY <1>7 DEF promiseVars, PromiseTyped, Kept
  <1> QED BY <1>1, <1>2, <1>3, <1>4, <1>5, <1>6, <1>7 DEF PromiseNext

\* Under the promise an entitled run's record stands under the lock name.
THEOREM PromiseKeepsLock == PromiseSpec => [](HolderKeepsLock /\ MutualExclusion)
  <1>1. PromiseInit => PromiseTyped /\ Kept
    BY RecordFacts, LeaseAssumption DEF PromiseInit, PromiseTyped, Kept
  <1>2. PromiseTyped /\ Kept /\ [PromiseNext]_promiseVars => PromiseTyped' /\ Kept'
    BY PromiseStep
  <1>3. PromiseTyped /\ Kept => HolderKeepsLock /\ MutualExclusion
    <2> SUFFICES ASSUME PromiseTyped, Kept PROVE HolderKeepsLock /\ MutualExclusion
      OBVIOUS
    <2>1. HolderKeepsLock
      <3> SUFFICES ASSUME NEW r \in Run, NEW k \in Key, Entitled(r, k)
                   PROVE  locks[k] = lease[r][k]
        BY DEF HolderKeepsLock
      <3>1. ExpiresAt(lease[r][k]) \in Nat /\ clock \in Nat
        BY RecordFacts DEF Entitled, Kept
      <3> QED BY <3>1 DEF Entitled, Kept
    <2>2. MutualExclusion
      BY <2>1 DEF HolderKeepsLock, MutualExclusion, Entitled, Kept
    <2> QED BY <2>1, <2>2
  <1> QED BY <1>1, <1>2, <1>3, PTL DEF PromiseSpec

-----------------------------------------------------------------------------
\* Every step implements the promise when what is about to be broken or
\* unlinked is still what was read.
ActsOnFreshReads ==
  \A r \in Run :
    /\ op[r].pc \in {"break", "swbreak"} /\ locks[op[r].key] # Free
         => locks[op[r].key] \in Record /\ Stale(locks[op[r].key])
    /\ op[r].pc = "unlink" => locks[op[r].key] = lease[r][op[r].key]

LEMMA StepKeepsPromise ==
  ASSUME IInv, ActsOnFreshReads, [Next]_vars
  PROVE  [PromiseNext]_promiseVars
  <1> USE RecordFacts DEF promiseVars
  <1>0. TypeOK /\ OwnRecords /\ HelpersMatchLeases /\ DraftsAreDated
    BY DEF IInv
  <1>1. ASSUME NEW r \in Run, Stage(r) \/ WriteDraft(r) \/ ReadHolder(r)
                              \/ SweepRead(r) \/ SweepJudge(r) \/ SweepEnd(r)
        PROVE  UNCHANGED promiseVars
    BY <1>1 DEF Stage, WriteDraft, ReadHolder, SweepRead, SweepJudge, SweepEnd
  <1>2. ASSUME NEW r \in Run, NEW k \in Key, BeginAcquire(r, k) \/ BeginRelease(r, k)
        PROVE  UNCHANGED promiseVars
    BY <1>2 DEF BeginAcquire, BeginRelease
  <1>3. ASSUME NEW r \in Run, BeginSweep(r)
        PROVE  UNCHANGED promiseVars
    BY <1>3 DEF BeginSweep
  <1>4. ASSUME NEW r \in Run, op[r].pc \in AcquirePCs, Return(r, Done),
               UNCHANGED <<clock, alive, locks>>
        PROVE  PromiseNext
    <2>1. op[r].key \in Key /\ lease[r][op[r].key] = Untried
      BY <1>0, <1>4, Lookup DEF HelpersMatchLeases, AcquirePCs
    <2>2. Refuse(r, op[r].key)
      BY <1>4, <2>1 DEF Refuse, Return
    <2> QED BY <2>1, <2>2 DEF PromiseNext
  <1>5. ASSUME NEW r \in Run, StageFails(r) \/ Contended(r)
        PROVE  PromiseNext
    BY <1>4, <1>5 DEF StageFails, Contended, AcquirePCs
  <1>6. ASSUME NEW r \in Run, Judge(r)
        PROVE  PromiseNext \/ UNCHANGED promiseVars
    BY <1>4, <1>6 DEF Judge, AcquirePCs
  <1>7. ASSUME NEW r \in Run, Link(r)
        PROVE  PromiseNext \/ UNCHANGED promiseVars
    <2>1. CASE locks[op[r].key] # Free
      BY <1>7, <2>1 DEF Link
    <2>2. CASE locks[op[r].key] = Free
      <3>1. op[r].key \in Key /\ lease[r][op[r].key] = Untried
        BY <1>0, <1>7, Lookup DEF HelpersMatchLeases, AcquirePCs, Link
      <3>2. op[r].draft = [run |-> r, at |-> op[r].stamp] /\ op[r].stamp \in 0 .. clock
        <4>1. op[r].stamp \in 0 .. MaxClock /\ clock \in 0 .. MaxClock
          BY Lookup, <1>0 DEF Op
        <4> QED BY <1>0, <1>7, <4>1, LeaseAssumption DEF DraftsAreDated, Link
      <3>3. Grant(r, op[r].key)
        BY <1>7, <2>2, <3>1, <3>2 DEF Link, Return, Grant
      <3> QED BY <3>1, <3>3 DEF PromiseNext
    <2> QED BY <2>1, <2>2
  <1>8. ASSUME NEW r \in Run, Break(r) \/ SweepBreak(r)
        PROVE  PromiseNext \/ UNCHANGED promiseVars
    <2>1. /\ op[r].pc \in {"break", "swbreak"} /\ op[r].key \in Key
          /\ locks' = [locks EXCEPT ![op[r].key] = Free]
          /\ UNCHANGED <<clock, alive, lease>>
      BY <1>0, <1>8, Lookup DEF Break, SweepBreak, BreakAside
    <2>2. CASE locks[op[r].key] = Free
      BY <1>0, <2>1, <2>2 DEF TypeOK
    <2>3. CASE locks[op[r].key] # Free
      <3>1. Reclaim(op[r].key)
        BY <2>1, <2>3 DEF ActsOnFreshReads, Reclaim
      <3> QED BY <2>1, <3>1 DEF PromiseNext
    <2> QED BY <2>2, <2>3
  <1>9. ASSUME NEW r \in Run, ReleaseRead(r)
        PROVE  PromiseNext \/ UNCHANGED promiseVars
    <2>1. CASE UNCHANGED promiseVars
      BY <2>1
    <2>2. CASE locks[op[r].key] \in Record /\ locks[op[r].key].run # r
      <3>1. op[r].key \in Key /\ lease[r][op[r].key] \in Record
            /\ lease[r][op[r].key].run = r
        BY <1>0, <1>9, Lookup DEF HelpersMatchLeases, OwnRecords, ReleaseRead
      <3>2. GiveBack(r, op[r].key)
        BY <1>9, <2>2, <3>1 DEF ReleaseRead, Return, GiveBack
      <3> QED BY <3>1, <3>2 DEF PromiseNext
    <2> QED BY <1>9, <2>1, <2>2 DEF ReleaseRead
  <1>9a. ASSUME NEW r \in Run, ReleaseExists(r)
         PROVE  PromiseNext \/ UNCHANGED promiseVars
    <2>1. CASE UNCHANGED promiseVars
      BY <2>1
    <2>2. CASE locks[op[r].key] = Free
      <3>1. op[r].key \in Key /\ lease[r][op[r].key] \in Record
        BY <1>0, <1>9a, Lookup DEF HelpersMatchLeases, ReleaseExists
      <3>2. GiveBack(r, op[r].key)
        BY <1>9a, <2>2, <3>1 DEF ReleaseExists, Return, GiveBack
      <3> QED BY <3>1, <3>2 DEF PromiseNext
    <2> QED BY <1>9a, <2>1, <2>2 DEF ReleaseExists
  <1>10. ASSUME NEW r \in Run, Unlink(r)
         PROVE  PromiseNext
    <2>1. op[r].key \in Key /\ lease[r][op[r].key] \in Record
          /\ locks[op[r].key] = lease[r][op[r].key]
      BY <1>0, <1>10, Lookup DEF HelpersMatchLeases, Unlink, ActsOnFreshReads
    <2>2. GiveBack(r, op[r].key)
      BY <1>10, <2>1 DEF Unlink, Return, GiveBack
    <2> QED BY <2>1, <2>2 DEF PromiseNext
  <1>11. ASSUME NEW r \in Run, Kill(r)
         PROVE  PromiseNext
    BY <1>11 DEF Kill, Perish, PromiseNext
  <1>12. ASSUME Tick PROVE PromiseNext
    BY <1>12 DEF Tick, Pass, PromiseNext
  <1>13. ASSUME UNCHANGED vars PROVE UNCHANGED promiseVars
    BY <1>13 DEF vars
  <1> QED
    BY <1>1, <1>2, <1>3, <1>5, <1>6, <1>7, <1>8, <1>9, <1>9a, <1>10, <1>11, <1>12, <1>13
    DEF Next, Helper, Acquiring, Releasing, Sweeping

-----------------------------------------------------------------------------
\* First regime: no holder is killed and no lease reaches its expiry.  Then
\* nothing is ever judged stale, and any number of helpers may interleave.
CalmRegime == Mortal = {} /\ MaxClock < TTL

Calm ==
  /\ \A r \in Run : alive[r] /\ op[r].pc \notin {"break", "swbreak"}
  /\ \A r \in Run, k \in Key : lease[r][k] \in Record => locks[k] = lease[r][k]

LEMMA NothingExpires ==
  ASSUME CalmRegime, NEW rec \in Record, NEW now \in 0 .. MaxClock
  PROVE  ~(now >= ExpiresAt(rec))
  BY LeaseAssumption DEF CalmRegime, Record, ExpiresAt

LEMMA CalmIsFresh ==
  ASSUME IInv, Calm
  PROVE  ActsOnFreshReads
  BY Lookup DEF IInv, Calm, ActsOnFreshReads, HelpersMatchLeases

LEMMA CalmStep ==
  ASSUME CalmRegime, IInv, Calm, [Next]_vars
  PROVE  Calm'
  <1> USE RecordFacts
  <1>0. TypeOK /\ \A r \in Run : op[r] \in Op /\ alive[r]
    BY Lookup DEF IInv, Calm
  <1>1. \A r \in Run : alive'[r]
    <2>1. ASSUME NEW r \in Run, Acquiring(r) PROVE alive' = alive
      BY <2>1 DEF Acquiring, Stage, StageFails, WriteDraft, Link, ReadHolder, Judge, Break,
         Contended
    <2>2. ASSUME NEW r \in Run, Releasing(r) \/ Sweeping(r) PROVE alive' = alive
      BY <2>2 DEF Releasing, Sweeping, ReleaseRead, ReleaseExists, Unlink, SweepRead,
         SweepJudge, SweepBreak, SweepEnd
    <2>3. ASSUME NEW r \in Run, NEW k \in Key,
                 BeginAcquire(r, k) \/ BeginRelease(r, k)
          PROVE  alive' = alive
      BY <2>3 DEF BeginAcquire, BeginRelease
    <2>3a. ASSUME NEW r \in Run, BeginSweep(r) PROVE alive' = alive
      BY <2>3a DEF BeginSweep
    <2>4. ASSUME NEW r \in Run PROVE ~Kill(r)
      BY DEF Kill, CalmRegime
    <2>5. alive' = alive
      <3>1. CASE Tick
        BY <3>1 DEF Tick
      <3>2. CASE UNCHANGED vars
        BY <3>2 DEF vars
      <3> QED BY <2>1, <2>2, <2>3, <2>3a, <2>4, <3>1, <3>2 DEF Next, Helper
    <2> QED BY <1>0, <2>5
  <1>2. ASSUME NEW r \in Run, NEW rec, NEW now \in 0 .. MaxClock
        PROVE  ~Breakable(r, rec, now)
    BY <1>0, <1>2, NothingExpires DEF Breakable, LooksAlive
  <1>3. ASSUME NEW r \in Run, NEW o, o.pc \notin {"break", "swbreak"},
               op' = [op EXCEPT ![r] = o]
        PROVE  \A s \in Run : op'[s].pc \notin {"break", "swbreak"}
    BY <1>0, <1>3 DEF Calm, TypeOK
  <1>4. \A r \in Run : op'[r].pc \notin {"break", "swbreak"}
    <2>1. ASSUME NEW r \in Run, NEW pc, pc \notin {"break", "swbreak"}, Goto(r, pc)
          PROVE  \A s \in Run : op'[s].pc \notin {"break", "swbreak"}
      <3>1. [op[r] EXCEPT !.pc = pc].pc \notin {"break", "swbreak"}
        BY <1>0, <2>1 DEF Op
      <3> QED BY <1>3, <2>1, <3>1 DEF Goto
    <2>2. ASSUME NEW r \in Run, NEW outcome, Return(r, outcome)
          PROVE  \A s \in Run : op'[s].pc \notin {"break", "swbreak"}
      BY <1>3, <2>2 DEF Return, Idle
    <2>3. ASSUME NEW r \in Run, Judge(r)
          PROVE  \A s \in Run : op'[s].pc \notin {"break", "swbreak"}
      <3>1. ~Breakable(r, op[r].seen, clock)
        BY <1>0, <1>2 DEF TypeOK
      <3> QED BY <2>2, <2>3, <3>1 DEF Judge
    <2>4. ASSUME NEW r \in Run, SweepJudge(r)
          PROVE  \A s \in Run : op'[s].pc \notin {"break", "swbreak"}
      <3>1. ~Breakable(r, op[r].seen, op[r].stamp)
        BY <1>0, <1>2 DEF Op
      <3>2. Goto(r, "sweep")
        BY <2>4, <3>1 DEF SweepJudge
      <3> QED BY <2>1, <3>2
    <2>5. ASSUME NEW r \in Run, Break(r) \/ SweepBreak(r)
          PROVE  FALSE
      BY <2>5 DEF Break, SweepBreak, Calm
    <2>6. ASSUME NEW r \in Run, Link(r)
          PROVE  \A s \in Run : op'[s].pc \notin {"break", "swbreak"}
      <3>1. Return(r, op[r].draft) \/ Goto(r, "read")
        BY <2>6 DEF Link
      <3> QED BY <2>1, <2>2, <3>1
    <2>7. ASSUME NEW r \in Run, ReleaseRead(r)
          PROVE  \A s \in Run : op'[s].pc \notin {"break", "swbreak"}
      <3>1. PICK pc \in {"unlink", "relexists"} :
              pc = IF locks[op[r].key] \in Record THEN "unlink" ELSE "relexists"
        OBVIOUS
      <3> DEFINE o == [op[r] EXCEPT !.pc = pc, !.seen = locks[op[r].key]]
      <3>2. o.pc = pc
        BY <1>0 DEF Op
      <3>3. op' = [op EXCEPT ![r] = o] \/ Return(r, Done)
        BY <2>7, <3>1 DEF ReleaseRead
      <3> HIDE DEF o
      <3> QED BY <1>3, <2>2, <3>2, <3>3
    <2>7a. ASSUME NEW r \in Run, ReleaseExists(r)
           PROVE  \A s \in Run : op'[s].pc \notin {"break", "swbreak"}
      <3>1. Return(r, Done) \/ Goto(r, "unlink")
        BY <2>7a DEF ReleaseExists
      <3> QED BY <2>1, <2>2, <3>1
    <2>8. ASSUME NEW r \in Run, StageFails(r) \/ Contended(r) \/ Unlink(r)
          PROVE  \A s \in Run : op'[s].pc \notin {"break", "swbreak"}
      BY <2>2, <2>8 DEF StageFails, Contended, Unlink
    <2>9. ASSUME NEW r \in Run, op'[r].pc \notin {"break", "swbreak"},
                 \A s \in Run \ {r} : op'[s] = op[s]
          PROVE  \A s \in Run : op'[s].pc \notin {"break", "swbreak"}
      BY <2>9 DEF Calm
    <2>10. ASSUME NEW r \in Run, Stage(r)
           PROVE  \A s \in Run : op'[s].pc \notin {"break", "swbreak"}
      <3>1. op'[r].pc = "write" /\ \A s \in Run \ {r} : op'[s] = op[s]
        BY <1>0, <2>10 DEF Stage, TypeOK, Op
      <3> QED BY <2>9, <3>1
    <2>11. ASSUME NEW r \in Run, WriteDraft(r)
           PROVE  \A s \in Run : op'[s].pc \notin {"break", "swbreak"}
      <3>1. op'[r].pc = "link" /\ \A s \in Run \ {r} : op'[s] = op[s]
        BY <1>0, <2>11 DEF WriteDraft, TypeOK, Op
      <3> QED BY <2>9, <3>1
    <2>12. ASSUME NEW r \in Run, ReadHolder(r)
           PROVE  \A s \in Run : op'[s].pc \notin {"break", "swbreak"}
      <3>1. op'[r].pc = "judge" /\ \A s \in Run \ {r} : op'[s] = op[s]
        BY <1>0, <2>12 DEF ReadHolder, TypeOK, Op
      <3> QED BY <2>9, <3>1
    <2>13. ASSUME NEW r \in Run, SweepRead(r)
           PROVE  \A s \in Run : op'[s].pc \notin {"break", "swbreak"}
      <3>1. op'[r].pc = "swjudge" /\ \A s \in Run \ {r} : op'[s] = op[s]
        BY <1>0, <2>13 DEF SweepRead, TypeOK, Op
      <3> QED BY <2>9, <3>1
    <2>14. ASSUME NEW r \in Run, BeginSweep(r)
           PROVE  \A s \in Run : op'[s].pc \notin {"break", "swbreak"}
      BY <1>0, <2>9, <2>14 DEF BeginSweep, TypeOK, Idle
    <2>15. ASSUME NEW r \in Run, SweepEnd(r)
           PROVE  \A s \in Run : op'[s].pc \notin {"break", "swbreak"}
      BY <1>0, <2>9, <2>15 DEF SweepEnd, TypeOK, Idle
    <2>16. ASSUME NEW r \in Run, NEW k \in Key, BeginAcquire(r, k)
           PROVE  \A s \in Run : op'[s].pc \notin {"break", "swbreak"}
      BY <1>0, <2>9, <2>16 DEF BeginAcquire, TypeOK, Idle
    <2>17. ASSUME NEW r \in Run, NEW k \in Key, BeginRelease(r, k)
           PROVE  \A s \in Run : op'[s].pc \notin {"break", "swbreak"}
      BY <1>0, <2>9, <2>17 DEF BeginRelease, TypeOK, Idle
    <2>18. CASE Tick \/ UNCHANGED vars
      BY <2>18 DEF Tick, vars, Calm
    <2> QED
      BY <1>0, <2>3, <2>4, <2>5, <2>6, <2>7, <2>7a, <2>8, <2>10, <2>11, <2>12,
         <2>13, <2>14, <2>15, <2>16, <2>17, <2>18
      DEF Next, Helper, Acquiring, Releasing, Sweeping, Kill, CalmRegime
  <1>5. \A r \in Run, k \in Key : lease'[r][k] \in Record => locks'[k] = lease'[r][k]
    <2>0. [PromiseNext]_promiseVars
      BY CalmIsFresh, StepKeepsPromise
    <2>1. ASSUME NEW k \in Key, Reclaim(k) PROVE FALSE
      BY <1>0, <2>1, NothingExpires DEF Reclaim, Stale, TypeOK
    <2>2. ASSUME NEW r \in Run, NEW k \in Key, Grant(r, k)
          PROVE  \A s \in Run, j \in Key : lease'[s][j] \in Record => locks'[j] = lease'[s][j]
      BY <1>0, <2>2 DEF Grant, Calm, TypeOK
    <2>3. ASSUME NEW r \in Run, NEW k \in Key, Refuse(r, k)
          PROVE  \A s \in Run, j \in Key : lease'[s][j] \in Record => locks'[j] = lease'[s][j]
      BY <1>0, <2>3 DEF Refuse, Calm, TypeOK
    <2>4. ASSUME NEW r \in Run, NEW k \in Key, GiveBack(r, k)
          PROVE  \A s \in Run, j \in Key : lease'[s][j] \in Record => locks'[j] = lease'[s][j]
      BY <1>0, <2>4 DEF GiveBack, Calm, TypeOK, IInv, OwnRecords
    <2>5. CASE UNCHANGED <<locks, lease>>
      BY <2>5 DEF Calm
    <2> QED
      BY <2>0, <2>1, <2>2, <2>3, <2>4, <2>5 DEF PromiseNext, promiseVars, Perish, Pass
  <1> QED BY <1>1, <1>4, <1>5 DEF Calm

\* While no holder dies and no TTL runs out, any number of launchers may
\* claim, release and sweep at once: slice_lease.py keeps the atomic promise.
THEOREM CalmPromise ==
  ASSUME CalmRegime
  PROVE  Spec => PromiseSpec
  <1>1. Init => Calm
    BY RecordFacts DEF Init, PromiseInit, Calm, Idle
  <1>2. IInv /\ Calm /\ [Next]_vars => Calm'
    BY CalmStep
  <1>3. IInv /\ Calm /\ [Next]_vars => [PromiseNext]_promiseVars
    BY CalmIsFresh, StepKeepsPromise
  <1>4. Init => PromiseInit
    BY DEF Init
  <1> QED BY <1>1, <1>2, <1>3, <1>4, InductiveInvariant, PTL DEF Spec, PromiseSpec

\* ... and so two sessions never both may act on one key.
THEOREM CalmMutualExclusion ==
  ASSUME CalmRegime
  PROVE  Spec => [](HolderKeepsLock /\ MutualExclusion)
  BY CalmPromise, PromiseKeepsLock, PTL

-----------------------------------------------------------------------------
\* Second regime: holders die and leases expire, but helpers run one at a time.
SerialRegime == MaxInFlight = 1 /\ IsFiniteSet(Run)

Serial ==
  /\ \A r, s \in InFlight : r = s
  /\ \A r \in Run : op[r].pc \in {"judge", "break", "swjudge", "swbreak", "relexists", "unlink"}
                    => op[r].seen = locks[op[r].key]
  /\ \A r \in Run : op[r].pc = "unlink" => op[r].seen \in Record

LEMMA SerialIsFresh ==
  ASSUME IInv, Serial
  PROVE  ActsOnFreshReads
  <1> SUFFICES ASSUME NEW r \in Run
               PROVE  /\ op[r].pc \in {"break", "swbreak"}
                           => locks[op[r].key] \in Record /\ Stale(locks[op[r].key])
                      /\ op[r].pc = "unlink" => locks[op[r].key] = lease[r][op[r].key]
    BY DEF ActsOnFreshReads
  <1>1. op[r].pc \in {"break", "swbreak"}
          => locks[op[r].key] \in Record /\ Stale(locks[op[r].key])
    BY DEF IInv, JudgedStale, KnownStale, LooksAlive, Stale, Serial
  <1>2. op[r].pc = "unlink" => locks[op[r].key] = lease[r][op[r].key]
    <2> SUFFICES ASSUME op[r].pc = "unlink" PROVE locks[op[r].key] = lease[r][op[r].key]
      OBVIOUS
    <2>1. op[r].key \in Key
      BY Lookup DEF IInv
    <2>2. op[r].seen = locks[op[r].key] /\ op[r].seen \in Record
      BY DEF Serial
    <2>3. op[r].seen.run = r
      BY <2>2, RecordFacts DEF IInv, OwnSeen
    <2> QED BY <2>1, <2>2, <2>3 DEF IInv, OwnRecords
  <1> QED BY <1>1, <1>2

LEMMA StartsAlone ==
  ASSUME SerialRegime, NEW r \in Run, CanStart(r)
  PROVE  InFlight = {}
  <1>1. IsFiniteSet(InFlight)
    BY FS_Subset DEF SerialRegime, InFlight
  <1>2. Cardinality(InFlight) \in Nat /\ Cardinality(InFlight) < 1
    BY <1>1, FS_CardinalityType DEF CanStart, SerialRegime
  <1> QED BY <1>1, <1>2, FS_EmptySet

LEMMA SerialStep ==
  ASSUME SerialRegime, IInv, Serial, [Next]_vars
  PROVE  Serial'
  <1>0. TypeOK /\ \A r \in Run : op[r] \in Op
    BY Lookup DEF IInv
  <1>1. ASSUME NEW r \in Run, CanStart(r), NEW o, op' = [op EXCEPT ![r] = o],
               o.pc \in {"stage", "relread", "sweep"}, UNCHANGED locks
        PROVE  Serial'
    BY <1>0, <1>1, StartsAlone DEF Serial, InFlight, TypeOK
  <1>2. ASSUME NEW r \in InFlight, NEW o, op' = [op EXCEPT ![r] = o],
               o.pc \in {"judge", "break", "swjudge", "swbreak", "relexists", "unlink"}
                 => o.seen = locks'[o.key],
               o.pc = "unlink" => o.seen \in Record
        PROVE  Serial'
    BY <1>0, <1>2 DEF Serial, InFlight, TypeOK
  <1>3. ASSUME NEW r \in InFlight, NEW outcome, Return(r, outcome) PROVE Serial'
    BY <1>2, <1>3 DEF Return, Idle
  <1>4. ASSUME NEW r \in InFlight, NEW pc \in {"read", "contended", "sweep"}, Goto(r, pc)
        PROVE  Serial'
    <2>1. [op[r] EXCEPT !.pc = pc].pc = pc
      BY <1>0 DEF Op, InFlight
    <2> QED BY <1>2, <1>4, <2>1 DEF Goto
  <1>5. ASSUME NEW r \in Run, NEW pc \in {"break", "swbreak"}, Goto(r, pc), UNCHANGED locks,
               op[r].pc \in {"judge", "swjudge"}
        PROVE  Serial'
    <2> DEFINE o == [op[r] EXCEPT !.pc = pc]
    <2>1. o.pc = pc /\ o.seen = op[r].seen /\ o.key = op[r].key
          /\ op[r].seen = locks[op[r].key]
      BY <1>0, <1>5 DEF Op, Serial
    <2>2. op' = [op EXCEPT ![r] = o] /\ r \in InFlight
      BY <1>5 DEF Goto, InFlight
    <2> HIDE DEF o
    <2> QED BY <1>2, <1>5, <2>1, <2>2
  <1>6. ASSUME NEW r \in Run, NEW k \in Key, BeginAcquire(r, k) PROVE Serial'
    BY <1>1, <1>6 DEF BeginAcquire, Idle
  <1>7. ASSUME NEW r \in Run, NEW k \in Key, BeginRelease(r, k) PROVE Serial'
    BY <1>1, <1>7 DEF BeginRelease, Idle
  <1>8. ASSUME NEW r \in Run, BeginSweep(r) PROVE Serial'
    BY <1>1, <1>8 DEF BeginSweep, Idle
  <1>9. ASSUME NEW r \in Run, Stage(r) PROVE Serial'
    <2> DEFINE o == [op[r] EXCEPT !.pc = "write", !.stamp = clock, !.draft = Unreadable]
    <2>1. o.pc = "write" /\ op' = [op EXCEPT ![r] = o] /\ r \in InFlight
      BY <1>0, <1>9 DEF Stage, InFlight, Op
    <2> HIDE DEF o
    <2> QED BY <1>2, <2>1
  <1>10. ASSUME NEW r \in Run, WriteDraft(r) PROVE Serial'
    <2> DEFINE o == [op[r] EXCEPT !.pc = "link", !.draft = [run |-> r, at |-> op[r].stamp]]
    <2>1. o.pc = "link" /\ op' = [op EXCEPT ![r] = o] /\ r \in InFlight
      BY <1>0, <1>10 DEF WriteDraft, InFlight, Op
    <2> HIDE DEF o
    <2> QED BY <1>2, <2>1
  <1>11. ASSUME NEW r \in Run, Link(r) PROVE Serial'
    <2>1. (Return(r, op[r].draft) \/ Goto(r, "read")) /\ r \in InFlight
      BY <1>11 DEF Link, InFlight
    <2> QED BY <1>3, <1>4, <2>1
  <1>12. ASSUME NEW r \in Run, ReadHolder(r) PROVE Serial'
    <2> DEFINE o == [op[r] EXCEPT !.pc = "judge", !.seen = locks[op[r].key]]
    <2>1. o.pc = "judge" /\ o.seen = locks'[o.key] /\ op' = [op EXCEPT ![r] = o] /\ r \in InFlight
      BY <1>0, <1>12 DEF ReadHolder, InFlight, Op
    <2> HIDE DEF o
    <2> QED BY <1>2, <2>1
  <1>13. ASSUME NEW r \in Run, Judge(r) PROVE Serial'
    <2>1. CASE Breakable(r, op[r].seen, clock)
      BY <1>5, <1>13, <2>1 DEF Judge
    <2>2. CASE ~Breakable(r, op[r].seen, clock)
      BY <1>3, <1>13, <2>2 DEF Judge, InFlight
    <2> QED BY <2>1, <2>2
  <1>14. ASSUME NEW r \in Run, Break(r) PROVE Serial'
    <2> DEFINE o == [op[r] EXCEPT !.pc = "stage", !.attempt = @ + 1]
    <2>1. o.pc = "stage"
      BY <1>0 DEF Op
    <2>2. r \in InFlight /\ (op' = [op EXCEPT ![r] = o] \/ Goto(r, "contended"))
      BY <1>14 DEF Break, InFlight
    <2> HIDE DEF o
    <2> QED BY <1>2, <1>4, <2>1, <2>2
  <1>15. ASSUME NEW r \in Run, ReleaseRead(r) PROVE Serial'
    <2>1. PICK pc \in {"unlink", "relexists"} :
            pc = IF locks[op[r].key] \in Record THEN "unlink" ELSE "relexists"
      OBVIOUS
    <2> DEFINE o == [op[r] EXCEPT !.pc = pc, !.seen = locks[op[r].key]]
    <2>2. o.seen = locks[o.key] /\ (o.pc = "unlink" => o.seen \in Record)
      BY <1>0, <2>1 DEF Op
    <2>3. r \in InFlight
          /\ ((op' = [op EXCEPT ![r] = o] /\ UNCHANGED locks) \/ Return(r, Done))
      BY <1>15, <2>1 DEF ReleaseRead, InFlight
    <2> HIDE DEF o
    <2> QED BY <1>2, <1>3, <2>2, <2>3
  <1>15a. ASSUME NEW r \in Run, ReleaseExists(r) PROVE Serial'
    <2>1. CASE locks[op[r].key] = Free
      BY <1>3, <1>15a, <2>1 DEF ReleaseExists, InFlight
    <2>2. CASE locks[op[r].key] # Free
      BY <1>15a, <2>2 DEF ReleaseExists, Serial, IInv, OwnSeen
    <2> QED BY <2>1, <2>2
  <1>16. ASSUME NEW r \in Run, StageFails(r) \/ Contended(r) \/ Unlink(r) PROVE Serial'
    <2>1. r \in InFlight /\ Return(r, Done)
      BY <1>16 DEF StageFails, Contended, Unlink, InFlight
    <2> QED BY <1>3, <2>1
  <1>17. ASSUME NEW r \in Run, SweepRead(r) PROVE Serial'
    <2>1. PICK k \in op[r].todo :
            op' = [op EXCEPT ![r].pc = "swjudge", ![r].key = k,
                             ![r].seen = locks[k], ![r].todo = @ \ {k}]
      BY <1>17 DEF SweepRead
    <2> DEFINE o == [op[r] EXCEPT !.pc = "swjudge", !.key = k,
                                  !.seen = locks[k], !.todo = @ \ {k}]
    <2>2. o.pc = "swjudge" /\ o.seen = locks[o.key]
      <3>1. op[r] \in Op
        BY <1>0 DEF TypeOK
      <3>2. o.pc = "swjudge" /\ o.key = k /\ o.seen = locks[k]
        BY <3>1 DEF Op
      <3> QED BY <3>2
    <2>3. op' = [op EXCEPT ![r] = o] /\ UNCHANGED locks /\ r \in InFlight
      <3>1. UNCHANGED locks /\ r \in InFlight
        BY <1>17 DEF SweepRead, InFlight
      <3>2. op' = [op EXCEPT ![r] = o]
        BY <2>1
      <3> QED BY <3>1, <3>2
    <2> HIDE DEF o
    <2> QED BY <1>2, <2>2, <2>3
  <1>18. ASSUME NEW r \in Run, SweepJudge(r) PROVE Serial'
    <2>1. CASE Breakable(r, op[r].seen, op[r].stamp)
      BY <1>5, <1>18, <2>1 DEF SweepJudge
    <2>2. CASE ~Breakable(r, op[r].seen, op[r].stamp)
      BY <1>4, <1>18, <2>2 DEF SweepJudge, InFlight
    <2> QED BY <2>1, <2>2
  <1>19. ASSUME NEW r \in Run, SweepBreak(r) PROVE Serial'
    BY <1>4, <1>19 DEF SweepBreak, InFlight
  <1>20. ASSUME NEW r \in Run, SweepEnd(r) PROVE Serial'
    BY <1>2, <1>20 DEF SweepEnd, InFlight, Idle
  <1>21. ASSUME NEW r \in Run, Kill(r) PROVE Serial'
    <2>1. CASE UNCHANGED <<op, locks>>
      BY <2>1 DEF Serial, InFlight
    <2>2. CASE op' = [op EXCEPT ![r] = Idle] /\ UNCHANGED locks
      BY <1>0, <2>2 DEF Serial, InFlight, Idle, TypeOK
    <2> QED BY <1>21, <2>1, <2>2 DEF Kill
  <1>22. ASSUME UNCHANGED <<op, locks>> PROVE Serial'
    BY <1>22 DEF Serial, InFlight
  <1> QED
    BY <1>6, <1>7, <1>8, <1>9, <1>10, <1>11, <1>12, <1>13, <1>14, <1>15,
       <1>15a, <1>16, <1>17, <1>18, <1>19, <1>20, <1>21, <1>22
    DEF Next, Helper, Acquiring, Releasing, Sweeping, Tick, vars

\* With helpers one at a time, slice_lease.py keeps the atomic promise under
\* any deaths and expiries: the races between two breakers, and between a
\* release and a breaker, are all that stands between code and promise.
THEOREM SerialPromise ==
  ASSUME SerialRegime
  PROVE  Spec => PromiseSpec
  <1>1. Init => Serial
    BY DEF Init, Serial, InFlight, Idle
  <1>2. IInv /\ Serial /\ [Next]_vars => Serial'
    BY SerialStep
  <1>3. IInv /\ Serial /\ [Next]_vars => [PromiseNext]_promiseVars
    BY SerialIsFresh, StepKeepsPromise
  <1>4. Init => PromiseInit
    BY DEF Init
  <1> QED BY <1>1, <1>2, <1>3, <1>4, InductiveInvariant, PTL DEF Spec, PromiseSpec

\* ... and so a run's unexpired lease stands until the run gives it back.
THEOREM SerialKeepsLock ==
  ASSUME SerialRegime
  PROVE  Spec => [](HolderKeepsLock /\ MutualExclusion)
  BY SerialPromise, PromiseKeepsLock, PTL
=============================================================================
