--------------------------- MODULE SequenceProofs ---------------------------
(***************************************************************************)
(* Launches beside each other, for any number of them and of slices: two   *)
(* live runs in a worktree, and a lost update, only over a lapsed lease;   *)
(* what a launch that ended may leave; marks bound to their evidence; and  *)
(* sequences of any length over them.                                      *)
(***************************************************************************)
EXTENDS Sequence, LauncherProofs

-----------------------------------------------------------------------------
(***************************************************************************)
(* One worktree, one live run whose lease stands, for any number of        *)
(* launches and slices and in every regime: leases expire under their      *)
(* runs, and executors and markers outlive their launchers.  LeaseHeld is  *)
(* kept by the lease operations alone; HolderStands is kept by each action *)
(* of a launch, in the form that LauncherProofs gave it; together they     *)
(* exclude two runs that are both entitled to the workspace.               *)
(***************************************************************************)

\* Within its TTL the lease of a run that is there is not stale.
LEMMA LiveLeaseNotStale ==
  ASSUME LeaseTypes, NEW rec \in Record, alive[rec.run], clock < ExpiresAt(rec)
  PROVE  ~Stale(rec)
  <1>1. ExpiresAt(rec) \in Nat /\ clock \in Nat
    BY LeaseAssumption DEF Record, LeaseTypes, ExpiresAt
  <1> QED BY <1>1 DEF Stale

\* What Record leaves out.
LEMMA NoRecord == Free \notin Record /\ Untried \notin Record /\ Done \notin Record
  <1>1. Record \subseteq [run : Run, at : Nat]
    BY LeaseAssumption DEF Record
  <1> QED BY <1>1, LeaseAssumption

LEMMA LeaseHeldKept ==
  ASSUME LeaseTypes, LeaseHeld,
         \/ UNCHANGED promiseVars
         \/ \E r \in Run, k \in Key : Grant(r, k) \/ Refuse(r, k) \/ GiveBack(r, k)
         \/ \E k \in Key : Reclaim(k)
         \/ \E r \in Run : Perish(r)
         \/ Pass
  PROVE  LeaseHeld'
  <1>1. CASE UNCHANGED promiseVars
    BY <1>1 DEF promiseVars, LeaseHeld, ExpiresAt
  <1>2. ASSUME NEW r \in Run, NEW k \in Key, Grant(r, k) PROVE LeaseHeld'
    <2>1. PICK at \in 0 .. clock :
            /\ locks' = [locks EXCEPT ![k] = [run |-> r, at |-> at]]
            /\ lease' = [lease EXCEPT ![r][k] = [run |-> r, at |-> at]]
      BY <1>2 DEF Grant
    <2>2. clock' = clock /\ alive' = alive /\ locks[k] \notin Record
      BY <1>2, NoRecord DEF Grant
    <2> SUFFICES ASSUME NEW q \in Run, NEW j \in Key, lease'[q][j] \in Record
                 PROVE  /\ lease'[q][j].run = q
                        /\ alive[q] /\ clock < ExpiresAt(lease'[q][j]) => locks'[j] = lease'[q][j]
      BY <2>2 DEF LeaseHeld, Record, ExpiresAt
    <2>3. CASE q = r /\ j = k
      BY <2>1, <2>3 DEF LeaseTypes
    <2>4. CASE j # k
      BY <2>1, <2>4 DEF LeaseTypes, LeaseHeld
    <2>5. CASE q # r /\ j = k
      <3>1. lease'[q][j] = lease[q][j]
        BY <2>1, <2>5 DEF LeaseTypes
      <3>2. ~(alive[q] /\ clock < ExpiresAt(lease[q][j])) /\ lease[q][j].run = q
        BY <2>2, <2>5, <3>1 DEF LeaseHeld
      <3> QED BY <3>1, <3>2
    <2> QED BY <2>3, <2>4, <2>5
  <1>3. ASSUME NEW r \in Run, NEW k \in Key, Refuse(r, k) PROVE LeaseHeld'
    <2>1. /\ lease' = [lease EXCEPT ![r][k] = Done] /\ UNCHANGED <<clock, alive, locks>>
      BY <1>3 DEF Refuse
    <2>2. \A q \in Run, j \in Key : lease'[q][j] \in Record => lease'[q][j] = lease[q][j]
      BY <2>1, NoRecord DEF LeaseTypes
    <2> QED BY <2>1, <2>2 DEF LeaseHeld, Record, ExpiresAt
  <1>4. ASSUME NEW r \in Run, NEW k \in Key, GiveBack(r, k) PROVE LeaseHeld'
    <2>1. /\ lease' = [lease EXCEPT ![r][k] = Done] /\ UNCHANGED <<clock, alive>>
          /\ lease[r][k] \in Record
          /\ locks' = IF locks[k] = lease[r][k] THEN [locks EXCEPT ![k] = Free] ELSE locks
      BY <1>4 DEF GiveBack
    <2> SUFFICES ASSUME NEW q \in Run, NEW j \in Key, lease'[q][j] \in Record
                 PROVE  /\ lease'[q][j].run = q
                        /\ alive[q] /\ clock < ExpiresAt(lease'[q][j]) => locks'[j] = lease'[q][j]
      BY <2>1 DEF LeaseHeld, Record, ExpiresAt
    <2>2. ~(q = r /\ j = k) /\ lease'[q][j] = lease[q][j]
      BY <2>1, NoRecord DEF LeaseTypes
    <2>3. /\ lease[q][j].run = q /\ lease[r][k].run = r
          /\ alive[q] /\ clock < ExpiresAt(lease[q][j]) => locks[j] = lease[q][j]
      BY <2>1, <2>2 DEF LeaseHeld
    <2>4. alive[q] /\ clock < ExpiresAt(lease[q][j]) => locks'[j] = locks[j]
      BY <2>1, <2>2, <2>3 DEF LeaseTypes
    <2> QED BY <2>2, <2>3, <2>4
  <1>5. ASSUME NEW k \in Key, Reclaim(k) PROVE LeaseHeld'
    <2>1. /\ UNCHANGED <<clock, alive, lease>> /\ locks' = [locks EXCEPT ![k] = Free]
          /\ locks[k] \in Record /\ Stale(locks[k])
      BY <1>5 DEF Reclaim
    <2> SUFFICES ASSUME NEW q \in Run, NEW j \in Key, lease[q][j] \in Record
                 PROVE  /\ lease[q][j].run = q
                        /\ alive[q] /\ clock < ExpiresAt(lease[q][j]) => locks'[j] = lease[q][j]
      BY <2>1 DEF LeaseHeld, Record, ExpiresAt
    <2>2. /\ lease[q][j].run = q
          /\ alive[q] /\ clock < ExpiresAt(lease[q][j]) => locks[j] = lease[q][j]
      BY DEF LeaseHeld
    <2>3. alive[q] /\ clock < ExpiresAt(lease[q][j]) => j # k
      BY <2>1, <2>2, LiveLeaseNotStale
    <2> QED BY <2>1, <2>2, <2>3 DEF LeaseTypes
  <1>6. ASSUME NEW r \in Run, Perish(r) PROVE LeaseHeld'
    BY <1>6 DEF Perish, LeaseTypes, LeaseHeld, Record, ExpiresAt
  <1>7. CASE Pass
    <2>1. UNCHANGED <<alive, locks, lease>> /\ clock' = clock + 1 /\ clock \in Nat
      BY <1>7, LeaseAssumption DEF Pass, LeaseTypes
    <2>2. \A rec \in Record : clock' < ExpiresAt(rec) => clock < ExpiresAt(rec)
      BY <2>1, LeaseAssumption DEF Record, ExpiresAt
    <2> QED BY <2>1, <2>2 DEF LeaseHeld, Record, ExpiresAt
  <1> QED BY <1>1, <1>2, <1>3, <1>4, <1>5, <1>6, <1>7

\* A step of a launch moves that launch alone ...
LEMMA OthersStay ==
  ASSUME StageInv, NEW r \in Run, Step(r) \/ (\E s \in Slice : Begin(r, s)) \/ Kill(r)
  PROVE  \A q \in Run : q # r => launch'[q] = launch[q]
  <1>1. launch \in [Run -> Launch]
    BY LaunchFields DEF StageInv, TypeOK
  <1> SUFFICES ASSUME NEW q \in Run, q # r PROVE launch'[q] = launch[q]
    OBVIOUS
  <1>2. CASE \E s \in Slice : Begin(r, s)
    BY <1>1, <1>2 DEF Begin
  <1>3. CASE Kill(r)
    BY <1>1, <1>3 DEF Kill
  <1>4. CASE Step(r)
    <2>1. CASE ReadMarks(r) \/ ReadSupport(r) \/ ListLocks(r) \/ \E k \in Key : SweepLock(r, k)
      BY <1>1, <2>1 DEF ReadMarks, ReadSupport, ListLocks, SweepLock, Stop, Goto
    <2>2. CASE ReadNext(r) \/ ReadLocks(r) \/ Claim(r) \/ ClaimSlice(r)
      BY <1>1, <2>2 DEF ReadNext, ReadLocks, Claim, ClaimSlice, Stop, Goto, Exit
    <2>3. CASE Baseline(r) \/ Declare(r) \/ Spawn(r) \/ Close(r) \/ Gate(r)
      BY <1>1, <2>3 DEF Baseline, Declare, Spawn, Close, Gate, Goto, Exit
    <2>4. CASE Mark(r)
      BY <1>1, <2>4 DEF Mark, MarkReadMarks, MarkReadBindings, TruncateBindings, WriteBindings,
                        TruncateMarks, WriteMarks, Goto, Exit
    <2>5. CASE FreeSlice(r) \/ FreeWorkspace(r)
      BY <1>1, <2>5 DEF FreeSlice, FreeWorkspace, Goto
    <2> QED BY <1>4, <2>1, <2>2, <2>3, <2>4, <2>5 DEF Step
  <1> QED BY <1>2, <1>3, <1>4

\* ... and does one of the lease operations for it, or none.
LEMMA LeaseOfLaunch ==
  ASSUME StageInv, NEW r \in Run, Step(r)
  PROVE  \/ UNCHANGED promiseVars \/ Perish(r)
         \/ \E k \in Key : Grant(r, k) \/ Refuse(r, k) \/ GiveBack(r, k) \/ Reclaim(k)
  <1>1. Workspace \in Key /\ launch[r].slice \in Key
    BY LaunchFields, LauncherAssumption DEF StageInv
  <1>2. CASE Claim(r) \/ ClaimSlice(r) \/ \E k \in Key : SweepLock(r, k)
    BY <1>1, <1>2 DEF Claim, ClaimSlice, SweepLock
  <1>3. CASE FreeSlice(r) \/ FreeWorkspace(r)
    BY <1>1, <1>3 DEF FreeSlice, FreeWorkspace, LetGo
  <1>4. CASE ReadMarks(r) \/ ReadSupport(r) \/ ListLocks(r) \/ ReadNext(r) \/ ReadLocks(r)
             \/ Baseline(r) \/ Declare(r) \/ Spawn(r) \/ Close(r) \/ Gate(r) \/ Mark(r)
    BY <1>4 DEF ReadMarks, ReadSupport, ListLocks, ReadNext, ReadLocks, Baseline, Declare, Spawn,
                Close, Gate, Mark, MarkReadMarks, MarkReadBindings, TruncateBindings,
                WriteBindings, TruncateMarks, WriteMarks
  <1> QED BY <1>2, <1>3, <1>4 DEF Step

LEMMA LeaseOfStep ==
  ASSUME StageInv, [Next]_vars
  PROVE  \/ UNCHANGED promiseVars
         \/ \E r \in Run, k \in Key : Grant(r, k) \/ Refuse(r, k) \/ GiveBack(r, k)
         \/ \E k \in Key : Reclaim(k)
         \/ \E r \in Run : Perish(r)
         \/ Pass
  <1> DEFINE Operation ==
               \/ UNCHANGED promiseVars
               \/ \E r \in Run, k \in Key : Grant(r, k) \/ Refuse(r, k) \/ GiveBack(r, k)
               \/ \E k \in Key : Reclaim(k)
               \/ \E r \in Run : Perish(r)
               \/ Pass
  <1>2. ASSUME NEW r \in Run, NEW s \in Slice, Begin(r, s) PROVE Operation
    BY <1>2 DEF Begin
  <1>3. ASSUME NEW r \in Run, Step(r) PROVE Operation
    BY <1>3, LeaseOfLaunch
  <1>4. CASE Environment
    BY <1>4 DEF Environment, Kill, ChildEnds, PlaceHalt, HandMark, TimePasses
  <1>5. CASE UNCHANGED vars
    BY <1>5 DEF vars, promiseVars
  <1> QED BY <1>2, <1>3, <1>4, <1>5 DEF Next

-----------------------------------------------------------------------------
\* HolderStands for one launch: its record l, its process a, its workspace
\* lease w and its executor c.
HolderFits(l, a, w, c) ==
  /\ l.pc \in Holding \/ c = "running" => w \in Record
  /\ l.pc \in Holding => a = TRUE \/ (Orphans /\ l.pc \in Marking)
  /\ c = "running" => l.pc = "wait" \/ (Orphans /\ a = FALSE)

LEMMA HolderFacts ==
  ASSUME StageInv, HolderStands, NEW r \in Run
  PROVE  HolderFits(launch[r], alive[r], lease[r][Workspace], child[r])
  BY DEF StageInv, TypeOK, HolderStands, HolderFits

LEMMA HolderKept ==
  ASSUME StageInv, HolderStands, NEW r \in Run, NEW o \in Launch, launch' = [launch EXCEPT ![r] = o],
         \A q \in Run \ {r} : /\ child'[q] = child[q] /\ alive'[q] = alive[q]
                              /\ lease'[q][Workspace] = lease[q][Workspace],
         HolderFits(o, alive'[r], lease'[r][Workspace], child'[r])
  PROVE  HolderStands'
  <1>1. launch'[r] = o /\ \A q \in Run : q # r => launch'[q] = launch[q]
    BY OneMoves DEF StageInv
  <1>2. \A q \in Run : HolderFits(launch'[q], alive'[q], lease'[q][Workspace], child'[q])
    <2> SUFFICES ASSUME NEW q \in Run PROVE HolderFits(launch'[q], alive'[q], lease'[q][Workspace], child'[q])
      OBVIOUS
    <2>1. HolderFits(launch[q], alive[q], lease[q][Workspace], child[q])
      BY HolderFacts
    <2>2. CASE q = r
      BY <1>1, <2>2
    <2>3. CASE q # r
      BY <1>1, <2>1, <2>3
    <2> QED BY <2>2, <2>3
  <1> QED BY <1>2 DEF HolderStands, HolderFits, Record

\* A step that leaves leases and executors alone.
LEMMA QuietHolderKept ==
  ASSUME StageInv, HolderStands, NEW r \in Run, NEW o \in Launch, launch' = [launch EXCEPT ![r] = o],
         UNCHANGED <<promiseVars, child>>,
         HolderFits(o, alive[r], lease[r][Workspace], child[r])
  PROVE  HolderStands'
  BY HolderKept DEF promiseVars

\* A grant, refusal or release of one run's key touches that lease alone.
LEMMA OthersKeepTheirs ==
  ASSUME LeaseTypes, NEW r \in Run, NEW k \in Key,
         Grant(r, k) \/ Refuse(r, k) \/ GiveBack(r, k) \/ Reclaim(k) \/ UNCHANGED promiseVars
  PROVE  /\ alive' = alive
         /\ \A q \in Run, j \in Key : q # r \/ j # k => lease'[q][j] = lease[q][j]
  <1>1. CASE Grant(r, k)
    BY <1>1 DEF Grant, LeaseTypes
  <1>2. CASE Refuse(r, k)
    BY <1>2 DEF Refuse, LeaseTypes
  <1>3. CASE GiveBack(r, k)
    BY <1>3 DEF GiveBack, LeaseTypes
  <1>4. CASE Reclaim(k) \/ UNCHANGED promiseVars
    BY <1>4 DEF Reclaim, promiseVars
  <1> QED BY <1>1, <1>2, <1>3, <1>4

LEMMA HolderStep ==
  ASSUME StageInv, HolderStands, [Next]_vars
  PROVE  HolderStands'
  <1>0. /\ StageInv /\ HolderStands /\ TypeOK /\ LeaseTypes /\ Workspace \in Key
        /\ \A r \in Run : /\ launch[r].slice \in Key /\ launch[r].slice # Workspace
                          /\ alive[r] \in BOOLEAN
                          /\ HolderFits(launch[r], alive[r], lease[r][Workspace], child[r])
    <2>1. StageInv /\ HolderStands /\ TypeOK /\ LeaseTypes
      BY DEF StageInv, TypeOK, LeaseTypes
    <2>2. Workspace \in Key /\ Workspace \notin Slice
      BY LauncherAssumption
    <2>3. \A r \in Run : launch[r].slice \in Key /\ launch[r].slice # Workspace /\ alive[r] \in BOOLEAN
      BY <2>1, <2>2, LaunchFields DEF TypeOK
    <2>4. \A r \in Run : HolderFits(launch[r], alive[r], lease[r][Workspace], child[r])
      BY <2>1, HolderFacts
    <2> QED BY <2>1, <2>2, <2>3, <2>4
  <1>1. ASSUME NEW r \in Run, NEW s \in Slice, Begin(r, s) PROVE HolderStands'
    <2>1. alive[r] /\ UNCHANGED <<promiseVars, child>>
      BY <1>1 DEF Begin
    <2>2. PICK o \in Launch : launch' = [launch EXCEPT ![r] = o] /\ o.pc \in {"ended", "validate"}
      BY <1>0, <1>1, <2>1, BeginForm
    <2>3. HolderFits(o, alive[r], lease[r][Workspace], child[r])
      BY <1>0, <1>1, <2>1, <2>2 DEF Begin, At, HolderFits, Holding, Measuring, Marking
    <2> QED BY <1>0, <2>1, <2>2, <2>3, QuietHolderKept
  <1>2. ASSUME NEW r \in Run, ReadMarks(r) PROVE HolderStands'
    <2>1. alive[r] /\ UNCHANGED <<promiseVars, child>>
      BY <1>2 DEF ReadMarks
    <2>2. PICK o \in Launch : launch' = [launch EXCEPT ![r] = o] /\ o.pc \in {"ended", "support", "list"}
      BY <1>0, <1>2, <2>1, ReadMarksForm
    <2>3. HolderFits(o, alive[r], lease[r][Workspace], child[r])
      BY <1>0, <1>2, <2>1, <2>2 DEF ReadMarks, At, HolderFits, Holding, Measuring, Marking
    <2> QED BY <1>0, <2>1, <2>2, <2>3, QuietHolderKept
  <1>3. ASSUME NEW r \in Run, ReadSupport(r) PROVE HolderStands'
    <2>1. alive[r] /\ UNCHANGED <<promiseVars, child>>
      BY <1>3 DEF ReadSupport
    <2>2. PICK o \in Launch : launch' = [launch EXCEPT ![r] = o] /\ o.pc \in {"list", "ended"}
      BY <1>0, <1>3, <2>1, GotoForm, StopForm DEF ReadSupport, PCs
    <2>3. HolderFits(o, alive[r], lease[r][Workspace], child[r])
      BY <1>0, <1>3, <2>1, <2>2 DEF ReadSupport, At, HolderFits, Holding, Measuring, Marking
    <2> QED BY <1>0, <2>1, <2>2, <2>3, QuietHolderKept
  <1>4. ASSUME NEW r \in Run, ListLocks(r) PROVE HolderStands'
    <2>1. alive[r] /\ UNCHANGED <<promiseVars, child>>
      BY <1>4 DEF ListLocks
    <2>2. PICK o \in Launch : launch' = [launch EXCEPT ![r] = o] /\ o.pc = "sweep"
      BY <1>0, <1>4, <2>1, ListLocksForm
    <2>3. HolderFits(o, alive[r], lease[r][Workspace], child[r])
      BY <1>0, <1>4, <2>1, <2>2 DEF ListLocks, At, HolderFits, Holding, Measuring, Marking
    <2> QED BY <1>0, <2>1, <2>2, <2>3, QuietHolderKept
  <1>5. ASSUME NEW r \in Run, ReadNext(r) PROVE HolderStands'
    <2>1. alive[r] /\ UNCHANGED <<promiseVars, child>>
      BY <1>5 DEF ReadNext
    <2>2. PICK o \in Launch : launch' = [launch EXCEPT ![r] = o] /\ o.pc \in {"locks", "ended"}
      BY <1>0, <1>5, <2>1, GotoForm, StopForm DEF ReadNext, PCs
    <2>3. HolderFits(o, alive[r], lease[r][Workspace], child[r])
      BY <1>0, <1>5, <2>1, <2>2 DEF ReadNext, At, HolderFits, Holding, Measuring, Marking
    <2> QED BY <1>0, <2>1, <2>2, <2>3, QuietHolderKept
  <1>6. ASSUME NEW r \in Run, ReadLocks(r) PROVE HolderStands'
    <2>1. alive[r] /\ UNCHANGED <<promiseVars, child>>
      BY <1>6 DEF ReadLocks
    <2>2. PICK o \in Launch : launch' = [launch EXCEPT ![r] = o] /\ o.pc \in {"claim", "ended"}
      BY <1>0, <1>6, <2>1, GotoForm, StopForm DEF ReadLocks, PCs
    <2>3. HolderFits(o, alive[r], lease[r][Workspace], child[r])
      BY <1>0, <1>6, <2>1, <2>2 DEF ReadLocks, At, HolderFits, Holding, Measuring, Marking
    <2> QED BY <1>0, <2>1, <2>2, <2>3, QuietHolderKept
  <1>7. ASSUME NEW r \in Run, Baseline(r) PROVE HolderStands'
    <2>1. alive[r] /\ UNCHANGED <<promiseVars, child>>
      BY <1>7 DEF Baseline
    <2>2. PICK o \in Launch : launch' = [launch EXCEPT ![r] = o] /\ o.pc \in {"declare", "freeSlice"}
      <3>1. CASE Goto(r, "declare")
        BY <1>0, <3>1, GotoForm DEF PCs
      <3>2. CASE Exit(r, FALSE)
        BY <1>0, <2>1, <3>2, ExitForm
      <3> QED BY <1>7, <3>1, <3>2 DEF Baseline
    <2>3. HolderFits(o, alive[r], lease[r][Workspace], child[r])
      BY <1>0, <1>7, <2>1, <2>2 DEF Baseline, At, HolderFits, Holding, Measuring, Marking
    <2> QED BY <1>0, <2>1, <2>2, <2>3, QuietHolderKept
  <1>8. ASSUME NEW r \in Run, Declare(r) PROVE HolderStands'
    <2>1. alive[r] /\ UNCHANGED <<promiseVars, child>>
      BY <1>8 DEF Declare
    <2>2. PICK o \in Launch : launch' = [launch EXCEPT ![r] = o] /\ o.pc \in {"spawn", "freeSlice"}
      BY <1>0, <1>8, <2>1, DeclareForm
    <2>3. HolderFits(o, alive[r], lease[r][Workspace], child[r])
      BY <1>0, <1>8, <2>1, <2>2 DEF Declare, At, HolderFits, Holding, Measuring, Marking
    <2> QED BY <1>0, <2>1, <2>2, <2>3, QuietHolderKept
  <1>9. ASSUME NEW r \in Run, Close(r) PROVE HolderStands'
    <2>1. alive[r] /\ UNCHANGED <<promiseVars, child>>
      BY <1>9 DEF Close
    <2>2. PICK o \in Launch : launch' = [launch EXCEPT ![r] = o] /\ o.pc = "gate"
      BY <1>0, <1>9, <2>1, CloseForm
    <2>3. HolderFits(o, alive[r], lease[r][Workspace], child[r])
      BY <1>0, <1>9, <2>1, <2>2 DEF Close, At, HolderFits, Holding, Measuring, Marking
    <2> QED BY <1>0, <2>1, <2>2, <2>3, QuietHolderKept
  <1>10. ASSUME NEW r \in Run, Gate(r) PROVE HolderStands'
    <2>1. alive[r] /\ UNCHANGED <<promiseVars, child>>
      BY <1>10 DEF Gate
    <2>2. PICK o \in Launch : launch' = [launch EXCEPT ![r] = o] /\ o.pc \in {"freeSlice", "mark"}
      BY <1>0, <1>10, <2>1, GateForm
    <2>3. HolderFits(o, alive[r], lease[r][Workspace], child[r])
      BY <1>0, <1>10, <2>1, <2>2 DEF Gate, At, HolderFits, Holding, Measuring, Marking
    <2> QED BY <1>0, <2>1, <2>2, <2>3, QuietHolderKept
  <1>11. ASSUME NEW r \in Run, MarkReadMarks(r) PROVE HolderStands'
    <2>1. launch[r].pc \in Marking /\ UNCHANGED <<promiseVars, child>>
      BY <1>11 DEF MarkReadMarks, At, Marking
    <2>2. PICK o \in Launch :
            launch' = [launch EXCEPT ![r] = o] /\ (o.pc \in {"readBindings"} \/ o.pc = (IF alive[r] THEN "freeSlice" ELSE "killed"))
      BY <1>0, <1>11, MarkReadMarksForm
    <2>3. HolderFits(o, alive[r], lease[r][Workspace], child[r])
      BY <1>0, <2>1, <2>2 DEF HolderFits, Holding, Measuring, Marking
    <2> QED BY <1>0, <2>1, <2>2, <2>3, QuietHolderKept
  <1>12. ASSUME NEW r \in Run, MarkReadBindings(r) PROVE HolderStands'
    <2>1. launch[r].pc \in Marking /\ UNCHANGED <<promiseVars, child>>
      BY <1>12 DEF MarkReadBindings, At, Marking
    <2>2. PICK o \in Launch :
            launch' = [launch EXCEPT ![r] = o] /\ (o.pc \in {"truncBindings"} \/ o.pc = (IF alive[r] THEN "freeSlice" ELSE "killed"))
      BY <1>0, <1>12, MarkReadBindingsForm
    <2>3. HolderFits(o, alive[r], lease[r][Workspace], child[r])
      BY <1>0, <2>1, <2>2 DEF HolderFits, Holding, Measuring, Marking
    <2> QED BY <1>0, <2>1, <2>2, <2>3, QuietHolderKept
  <1>13. ASSUME NEW r \in Run, TruncateBindings(r) PROVE HolderStands'
    <2>1. launch[r].pc \in Marking /\ UNCHANGED <<promiseVars, child>>
      BY <1>13 DEF TruncateBindings, At, Marking
    <2>2. PICK o \in Launch :
            launch' = [launch EXCEPT ![r] = o] /\ o.pc \in {"writeBindings"}
      BY <1>0, <1>13, GotoForm DEF TruncateBindings, PCs
    <2>3. HolderFits(o, alive[r], lease[r][Workspace], child[r])
      BY <1>0, <2>1, <2>2 DEF HolderFits, Holding, Measuring, Marking
    <2> QED BY <1>0, <2>1, <2>2, <2>3, QuietHolderKept
  <1>14. ASSUME NEW r \in Run, WriteBindings(r) PROVE HolderStands'
    <2>1. launch[r].pc \in Marking /\ UNCHANGED <<promiseVars, child>>
      BY <1>14 DEF WriteBindings, At, Marking
    <2>2. PICK o \in Launch :
            launch' = [launch EXCEPT ![r] = o] /\ o.pc \in {"truncMarks"}
      BY <1>0, <1>14, GotoForm DEF WriteBindings, PCs
    <2>3. HolderFits(o, alive[r], lease[r][Workspace], child[r])
      BY <1>0, <2>1, <2>2 DEF HolderFits, Holding, Measuring, Marking
    <2> QED BY <1>0, <2>1, <2>2, <2>3, QuietHolderKept
  <1>15. ASSUME NEW r \in Run, TruncateMarks(r) PROVE HolderStands'
    <2>1. launch[r].pc \in Marking /\ UNCHANGED <<promiseVars, child>>
      BY <1>15 DEF TruncateMarks, At, Marking
    <2>2. PICK o \in Launch :
            launch' = [launch EXCEPT ![r] = o] /\ o.pc \in {"writeMarks"}
      BY <1>0, <1>15, GotoForm DEF TruncateMarks, PCs
    <2>3. HolderFits(o, alive[r], lease[r][Workspace], child[r])
      BY <1>0, <2>1, <2>2 DEF HolderFits, Holding, Measuring, Marking
    <2> QED BY <1>0, <2>1, <2>2, <2>3, QuietHolderKept
  <1>16. ASSUME NEW r \in Run, WriteMarks(r) PROVE HolderStands'
    <2>1. launch[r].pc \in Marking /\ UNCHANGED <<promiseVars, child>>
      BY <1>16 DEF WriteMarks, At, Marking
    <2>2. PICK o \in Launch :
            launch' = [launch EXCEPT ![r] = o] /\ o.pc = (IF alive[r] THEN "freeSlice" ELSE "killed")
      BY <1>0, <1>16, ExitForm DEF WriteMarks
    <2>3. HolderFits(o, alive[r], lease[r][Workspace], child[r])
      BY <1>0, <2>1, <2>2 DEF HolderFits, Holding, Measuring, Marking
    <2> QED BY <1>0, <2>1, <2>2, <2>3, QuietHolderKept
  <1>17. ASSUME NEW r \in Run, NEW k \in Key, SweepLock(r, k) PROVE HolderStands'
    <2>1. alive' = alive /\ lease' = lease /\ child' = child
      BY <1>17 DEF SweepLock, Reclaim, promiseVars
    <2>2. PICK o \in Launch : launch' = [launch EXCEPT ![r] = o] /\ o.pc = "sweep"
      BY <1>0, <1>17, SweepLockForm
    <2>3. HolderFits(o, alive[r], lease[r][Workspace], child[r])
      BY <1>0, <1>17, <2>2 DEF SweepLock, At, HolderFits, Holding, Measuring, Marking
    <2> QED BY <1>0, <2>1, <2>2, <2>3, HolderKept
  <1>18. ASSUME NEW r \in Run, Claim(r) PROVE HolderStands'
    <2>1. /\ alive' = alive /\ alive[r] = TRUE /\ child' = child /\ child[r] # "running"
          /\ \A q \in Run \ {r} : lease'[q][Workspace] = lease[q][Workspace]
      BY <1>0, <1>18, OthersKeepTheirs DEF Claim, At, HolderFits, TypeOK
    <2>2. CASE Reclaim(Workspace) /\ UNCHANGED launch
      BY <1>0, <2>1, <2>2 DEF Reclaim, HolderStands
    <2>3. CASE Grant(r, Workspace) /\ Goto(r, "claimSlice")
      <3>1. PICK o \in Launch : launch' = [launch EXCEPT ![r] = o] /\ o.pc = "claimSlice"
        BY <1>0, <2>3, GotoForm DEF PCs
      <3>2. lease'[r][Workspace] \in Record
        <4>1. PICK at \in 0 .. clock :
                lease' = [lease EXCEPT ![r][Workspace] = [run |-> r, at |-> at]]
          BY <2>3 DEF Grant
        <4>2. at \in 0 .. MaxClock
          BY <1>0, LeaseAssumption DEF LeaseTypes
        <4> QED BY <1>0, <4>1, <4>2 DEF LeaseTypes, Record
      <3>3. HolderFits(o, alive'[r], lease'[r][Workspace], child'[r])
        BY <2>1, <3>1, <3>2 DEF HolderFits
      <3> QED BY <1>0, <2>1, <3>1, <3>3, HolderKept
    <2>4. CASE Refuse(r, Workspace) /\ Stop(r)
      <3>1. PICK o \in Launch : launch' = [launch EXCEPT ![r] = o] /\ o.pc = "ended"
        BY <1>0, <2>4, StopForm
      <3>2. HolderFits(o, alive'[r], lease'[r][Workspace], child'[r])
        BY <2>1, <3>1 DEF HolderFits, Holding, Measuring, Marking
      <3> QED BY <1>0, <2>1, <3>1, <3>2, HolderKept
    <2> QED BY <1>18, <2>2, <2>3, <2>4 DEF Claim
  <1>19. ASSUME NEW r \in Run, ClaimSlice(r) PROVE HolderStands'
    <2>1. /\ alive' = alive /\ alive[r] = TRUE /\ child' = child /\ child[r] # "running"
          /\ lease[r][Workspace] \in Record
          /\ \A q \in Run : lease'[q][Workspace] = lease[q][Workspace]
      <3>1. Grant(r, launch[r].slice) \/ Refuse(r, launch[r].slice) \/ Reclaim(launch[r].slice)
        BY <1>19 DEF ClaimSlice
      <3>2. alive' = alive /\ \A q \in Run : lease'[q][Workspace] = lease[q][Workspace]
        BY <1>0, <3>1, OthersKeepTheirs
      <3>3. launch[r].pc = "claimSlice" /\ child' = child
        BY <1>19 DEF ClaimSlice, At
      <3>4. alive[r] = TRUE /\ lease[r][Workspace] \in Record /\ child[r] # "running"
        BY <1>0, <3>3 DEF HolderFits, Holding, Marking
      <3> QED BY <3>2, <3>3, <3>4
    <2>2. CASE Reclaim(launch[r].slice) /\ UNCHANGED launch
      BY <1>0, <2>1, <2>2 DEF Reclaim, HolderStands
    <2>3. CASE Goto(r, "baseline") \/ Exit(r, FALSE)
      <3>1. PICK o \in Launch : launch' = [launch EXCEPT ![r] = o] /\ o.pc \in {"baseline", "freeSlice"}
        <4>1. CASE Goto(r, "baseline")
          BY <1>0, <4>1, GotoForm DEF PCs
        <4>2. CASE Exit(r, FALSE)
          BY <1>0, <2>1, <4>2, ExitForm
        <4> QED BY <2>3, <4>1, <4>2
      <3>2. HolderFits(o, alive'[r], lease'[r][Workspace], child'[r])
        BY <2>1, <3>1 DEF HolderFits, Holding, Measuring, Marking
      <3> QED BY <1>0, <2>1, <3>1, <3>2, HolderKept
    <2> QED BY <1>19, <2>2, <2>3 DEF ClaimSlice
  <1>20. ASSUME NEW r \in Run, Spawn(r) PROVE HolderStands'
    <2>1. UNCHANGED promiseVars /\ \A q \in Run \ {r} : child'[q] = child[q]
      BY <1>0, <1>20 DEF Spawn, TypeOK
    <2>2. PICK o \in Launch : launch' = [launch EXCEPT ![r] = o] /\ o.pc = "wait"
      BY <1>0, <1>20, GotoForm DEF Spawn, PCs
    <2>3. HolderFits(o, alive'[r], lease'[r][Workspace], child'[r])
      BY <1>0, <1>20, <2>1, <2>2 DEF promiseVars, Spawn, At, HolderFits, Holding, Measuring
    <2> QED BY <1>0, <2>1, <2>2, <2>3, HolderKept DEF promiseVars
  <1>21. ASSUME NEW r \in Run, ChildEnds(r) PROVE HolderStands'
    <2>1. UNCHANGED <<promiseVars, launch>>
          /\ \A q \in Run : child'[q] = "running" => child[q] = "running"
      BY <1>0, <1>21 DEF ChildEnds, TypeOK
    <2> QED BY <1>0, <2>1 DEF HolderStands, promiseVars, Record
  <1>22. ASSUME NEW r \in Run, FreeSlice(r) PROVE HolderStands'
    <2>1. child' = child /\ alive[r] /\ launch[r].pc = "freeSlice"
      BY <1>22 DEF FreeSlice, At
    <2>2. PICK o \in Launch :
            /\ launch' = [launch EXCEPT ![r] = o]
            /\ \/ o.pc = "freeWorkspace" /\ LetGo(r, launch[r].slice)
               \/ o.pc = "ended" /\ Perish(r)
      BY <1>0, <1>22, FreeSliceForm
    <2>3. /\ \A q \in Run : lease'[q][Workspace] = lease[q][Workspace]
          /\ \A q \in Run \ {r} : alive'[q] = alive[q]
          /\ o.pc = "freeWorkspace" => alive'[r] = alive[r]
      <3>1. CASE o.pc = "freeWorkspace" /\ LetGo(r, launch[r].slice)
        BY <1>0, <3>1, OthersKeepTheirs DEF LetGo
      <3>2. CASE o.pc = "ended" /\ Perish(r)
        BY <1>0, <3>2 DEF Perish, LeaseTypes
      <3> QED BY <2>2, <3>1, <3>2
    <2>4. HolderFits(o, alive'[r], lease'[r][Workspace], child'[r])
      BY <1>0, <2>1, <2>2, <2>3 DEF HolderFits, Holding, Measuring, Marking
    <2> QED BY <1>0, <2>1, <2>2, <2>3, <2>4, HolderKept
  <1>23. ASSUME NEW r \in Run, FreeWorkspace(r) PROVE HolderStands'
    <2>1. /\ alive' = alive /\ child' = child /\ alive[r] /\ launch[r].pc = "freeWorkspace"
          /\ \A q \in Run \ {r} : lease'[q][Workspace] = lease[q][Workspace]
      BY <1>0, <1>23, OthersKeepTheirs DEF FreeWorkspace, LetGo, At
    <2>2. PICK o \in Launch : launch' = [launch EXCEPT ![r] = o] /\ o.pc = "ended"
      BY <1>0, <1>23, FreeWorkspaceForm
    <2>3. HolderFits(o, alive'[r], lease'[r][Workspace], child'[r])
      BY <1>0, <2>1, <2>2 DEF HolderFits, Holding, Measuring, Marking
    <2> QED BY <1>0, <2>1, <2>2, <2>3, HolderKept
  <1>24. ASSUME NEW r \in Run, Kill(r) PROVE HolderStands'
    <2>1. lease' = lease /\ alive'[r] = FALSE /\ \A q \in Run \ {r} : alive'[q] = alive[q]
      BY <1>0, <1>24 DEF Kill, Perish, TypeOK
    <2>2. PICK o \in Launch :
            /\ launch' = [launch EXCEPT ![r] = o]
            /\ \/ o = launch[r] /\ Orphans /\ launch[r].pc \in Marking
               \/ o.pc = "killed" /\ NoCopies(o)
            /\ \/ child' = child /\ (Orphans \/ child[r] # "running")
               \/ child[r] = "running" /\ child' = [child EXCEPT ![r] = "failed"]
      BY <1>0, <1>24, KillForm
    <2>3. /\ \A q \in Run \ {r} : child'[q] = child[q]
          /\ child'[r] = "running" => child[r] = "running" /\ Orphans
      BY <1>0, <2>2 DEF TypeOK
    <2>4. HolderFits(o, alive'[r], lease'[r][Workspace], child'[r])
      BY <1>0, <2>1, <2>2, <2>3 DEF HolderFits, Holding, Measuring, Marking
    <2> QED BY <1>0, <2>1, <2>2, <2>3, <2>4, HolderKept
  <1>25. CASE PlaceHalt \/ TimePasses \/ (\E s \in Slice : HandMark(s)) \/ UNCHANGED vars
    <2>1. UNCHANGED <<alive, lease, child, launch>>
      BY <1>25 DEF PlaceHalt, TimePasses, Pass, HandMark, launchVars, promiseVars, vars
    <2> QED BY <1>0, <2>1 DEF HolderStands, Record
  <1> QED
    BY <1>1, <1>2, <1>3, <1>4, <1>5, <1>6, <1>7, <1>8, <1>9, <1>10, <1>11, <1>12, <1>13, <1>14,
       <1>15, <1>16, <1>17, <1>18, <1>19, <1>20, <1>21, <1>22, <1>23, <1>24, <1>25
    DEF Next, Step, Mark, Environment

-----------------------------------------------------------------------------
\* Two runs entitled to the workspace would both have its one lock.
LEMMA EntitledHolds ==
  ASSUME StageInv, LeaseHeld, NEW r \in Run, lease[r][Workspace] \in Record, ~Lapsed(r)
  PROVE  locks[Workspace].run = r
  <1>1. ExpiresAt(lease[r][Workspace]) \in Nat /\ clock \in Nat
    BY LeaseAssumption DEF StageInv, TypeOK, Record, ExpiresAt
  <1>2. alive[r] /\ clock < ExpiresAt(lease[r][Workspace])
    BY <1>1 DEF Lapsed
  <1> QED BY <1>2, LauncherAssumption DEF LeaseHeld

LEMMA HoldersExclude ==
  ASSUME StageInv, LeaseHeld, HolderStands
  PROVE  OverlapIsExplained
  <1> SUFFICES ASSUME NEW r \in Run, NEW o \in Run, r # o, Live(r), Live(o),
                      ~Lapsed(r), ~Lapsed(o)
               PROVE  FALSE
    BY DEF OverlapIsExplained
  <1>1. \A q \in Run : Live(q) => lease[q][Workspace] \in Record
    BY DEF Live, HolderStands, Holding
  <1> QED BY <1>1, EntitledHolds

ExclusionInv == StageInv /\ LeaseHeld /\ HolderStands

LEMMA ExclusionInit == Init => ExclusionInv
  <1> SUFFICES ASSUME Init PROVE ExclusionInv
    OBVIOUS
  <1>1. /\ lease = [r \in Run |-> [k \in Key |-> Untried]]
        /\ \A r \in Run : launch[r].pc = "idle" /\ child[r] = "none"
    BY DEF Init, PromiseInit
  <1>2. LeaseHeld
    BY <1>1, NoRecord DEF LeaseHeld
  <1>3. HolderStands
    BY <1>1 DEF HolderStands, Holding, Measuring, Marking
  <1> QED BY <1>2, <1>3, StageInit DEF ExclusionInv

LEMMA ExclusionStep ==
  ASSUME ExclusionInv, [Next]_vars
  PROVE  ExclusionInv'
  <1>1. StageInv /\ LeaseHeld /\ HolderStands /\ LeaseTypes
    BY DEF ExclusionInv, StageInv, TypeOK, LeaseTypes
  <1>2. StageInv'
    BY <1>1, StageStep
  <1>3. LeaseHeld'
    BY <1>1, LeaseOfStep, LeaseHeldKept
  <1>4. HolderStands'
    BY <1>1, HolderStep
  <1> QED BY <1>2, <1>3, <1>4 DEF ExclusionInv

LEMMA ExclusionInvariant == Spec => []ExclusionInv
  <1>1. ExclusionInv /\ [Next]_vars => ExclusionInv'
    BY ExclusionStep
  <1> QED BY <1>1, ExclusionInit, PTL DEF Spec

\* "One git index, one live run" (launch_worker.sh:438), in every regime: two
\* runs are live in one worktree only when the workspace lease of one of them
\* has run out or its launcher is gone, however launches interleave, are
\* killed, leave orphans or sweep each other's locks.
THEOREM OverlapNeedsALapse == Spec => []OverlapIsExplained
  <1>1. ExclusionInv => OverlapIsExplained
    BY HoldersExclude DEF ExclusionInv
  <1> QED BY <1>1, ExclusionInvariant, PTL

\* The two files are written by mark-passed and by hand only.
LEMMA FilesOfStep ==
  ASSUME StageInv, [Next]_vars, ~\E r \in Run : Mark(r), ~\E s \in Slice : HandMark(s)
  PROVE  UNCHANGED <<harness, completions>>
  <1>1. ASSUME NEW r \in Run, Step(r) PROVE UNCHANGED <<harness, completions>>
    BY <1>1 DEF Step, ReadMarks, ReadSupport, ListLocks, SweepLock, ReadNext, ReadLocks, Claim,
                ClaimSlice, Baseline, Declare, Spawn, Close, Gate, FreeSlice, FreeWorkspace
  <1>2. ASSUME NEW r \in Run, NEW s \in Slice, Begin(r, s) PROVE UNCHANGED <<harness, completions>>
    BY <1>2 DEF Begin
  <1>3. CASE Environment
    BY <1>3 DEF Environment, Kill, ChildEnds, PlaceHalt, TimePasses, launchVars
  <1> QED BY <1>1, <1>2, <1>3 DEF Next, vars

\* A run that writes the files while another is about to write them back, and
\* is entitled to, has lost its own lease.
LEMMA WriterHasLapsed ==
  ASSUME ExclusionInv, [Next]_vars, NEW r \in Run, NEW o \in Run,
         r # o, WritesBack(r), Entitled(r, Workspace),
         launch'[o] # launch[o], <<harness, completions>>' # <<harness, completions>>
  PROVE  Lapsed(o)
  <1>0. StageInv /\ LeaseHeld /\ HolderStands
    BY DEF ExclusionInv
  <1>1. ~\E s \in Slice : HandMark(s)
    BY DEF HandMark
  <1>2. PICK q \in Run : Mark(q)
    BY <1>0, <1>1, FilesOfStep
  <1>3. q = o
    BY <1>0, <1>2, OthersStay DEF Step
  <1>4. launch[o].pc \in Holding
    BY <1>2, <1>3 DEF Mark, MarkReadMarks, MarkReadBindings, TruncateBindings, WriteBindings,
                      TruncateMarks, WriteMarks, At, Holding, Marking
  <1>5. lease[o][Workspace] \in Record
    BY <1>0, <1>4 DEF HolderStands
  <1>6. ExpiresAt(lease[r][Workspace]) \in Nat /\ clock \in Nat
    BY <1>0, LeaseAssumption DEF Entitled, StageInv, TypeOK, Record, ExpiresAt
  <1>7. lease[r][Workspace] \in Record /\ ~Lapsed(r)
    BY <1>6 DEF Entitled, Lapsed
  <1> QED BY <1>0, <1>5, <1>7, EntitledHolds

\* mark-passed reads, and then writes whole (launch_checks.py:194-234): while
\* the lease of the run that does so stands, no run whose own lease stands
\* writes either file in between, for any number of launches and in every
\* regime.  Hand edits are not runs.
THEOREM LostUpdateNeedsALapse == Spec => UpdateLossIsExplained
  <1>1. ExclusionInv /\ [Next]_vars =>
          \A r, o \in Run :
            /\ r # o /\ WritesBack(r) /\ Entitled(r, Workspace)
            /\ launch'[o] # launch[o] /\ <<harness, completions>>' # <<harness, completions>>
            => Lapsed(o)
    BY WriterHasLapsed
  <1> QED BY <1>1, ExclusionInvariant, PTL DEF Spec, UpdateLossIsExplained

-----------------------------------------------------------------------------
(***************************************************************************)
(* What a launch that ended keeps, in every regime: leases may expire      *)
(* under their runs and executors outlive their launchers.  What a launch  *)
(* still has is tied to where it stands: nothing before its first grant,   *)
(* only the workspace while it asks for the slice and once the trap has    *)
(* let the slice go; all of it where another run had the slice when the    *)
(* trap came to it, and then its process is gone.                          *)
(***************************************************************************)

\* KeptInv for one launch: its record l and its leases h.
KeptFits(l, h) ==
  \A k \in Key :
    h[k] \in Record =>
      /\ l.pc \in Holding \cup {"killed"}
      /\ k = Workspace \/ (k = l.slice /\ l.pc \notin {"claimSlice", "freeWorkspace"})

\* The trap ended at the release of the slice.
Abandoned(r) ==
  /\ launch[r].pc = "ended" /\ ~alive[r]
  /\ lease[r][launch[r].slice] \in Record
  /\ locks[launch[r].slice] # lease[r][launch[r].slice]

AllKeptFit == \A r \in Run : KeptFits(launch[r], lease[r]) \/ Abandoned(r)

KeptInv == StageInv /\ LeaseHeld /\ AllKeptFit

AbandonedStay == \A r \in Run : Abandoned(r) => Abandoned(r)'

\* No step takes an abandoned lease up again: its launch is over, its process
\* gone, and a grant to another run writes another run's record.
LEMMA NothingIsTakenUp ==
  ASSUME StageInv, LeaseHeld, [Next]_vars
  PROVE  AbandonedStay
  <1> SUFFICES ASSUME NEW r \in Run, Abandoned(r) PROVE Abandoned(r)'
    BY DEF AbandonedStay
  <1> DEFINE s == launch[r].slice
  <1>0. /\ TypeOK /\ LeaseTypes /\ s \in Key /\ launch[r].pc = "ended" /\ ~alive[r]
        /\ lease[r][s] \in Record /\ lease[r][s].run = r /\ locks[s] # lease[r][s]
        /\ lease[r][s] # Free
    BY LaunchFields, NoRecord DEF Abandoned, LeaseHeld, StageInv, TypeOK, LeaseTypes
  <1>1. ASSUME launch'[r] = launch[r], ~alive'[r], lease'[r][s] = lease[r][s],
               locks'[s] \in {locks[s], Free} \/ locks'[s].run # r
        PROVE  Abandoned(r)'
    BY <1>0, <1>1 DEF Abandoned, Record
  <1>2. ASSUME NEW q \in Run, Step(q) \/ \E t \in Slice : Begin(q, t) PROVE Abandoned(r)'
    <2>1. q # r
      BY <1>0, <1>2 DEF Begin, Step, ReadMarks, ReadSupport, ListLocks, SweepLock, ReadNext, ReadLocks,
           Claim, ClaimSlice, Baseline, Declare, Spawn, Close, Gate, Mark, MarkReadMarks, MarkReadBindings,
           TruncateBindings, WriteBindings, TruncateMarks, WriteMarks, FreeSlice, FreeWorkspace, At
    <2>2. launch'[r] = launch[r]
      BY <1>2, <2>1, OthersStay
    <2>3. \/ UNCHANGED promiseVars \/ Perish(q)
          \/ \E k \in Key : Grant(q, k) \/ Refuse(q, k) \/ GiveBack(q, k) \/ Reclaim(k)
      BY <1>2, LeaseOfLaunch DEF Begin
    <2>4. CASE UNCHANGED promiseVars
      BY <1>0, <1>1, <2>2, <2>4 DEF promiseVars
    <2>5. CASE Perish(q)
      BY <1>0, <1>1, <2>1, <2>2, <2>5 DEF Perish, LeaseTypes
    <2>6. ASSUME NEW k \in Key, Grant(q, k) PROVE Abandoned(r)'
      <3>1. ~alive'[r] /\ lease'[r][s] = lease[r][s]
        BY <1>0, <2>1, <2>6, OthersKeepTheirs
      <3>2. locks'[s] = locks[s] \/ locks'[s].run = q
        BY <1>0, <2>6 DEF Grant, LeaseTypes
      <3> QED BY <1>1, <2>1, <2>2, <3>1, <3>2
    <2>7. ASSUME NEW k \in Key, Refuse(q, k) \/ GiveBack(q, k) \/ Reclaim(k) PROVE Abandoned(r)'
      <3>1. ~alive'[r] /\ lease'[r][s] = lease[r][s]
        BY <1>0, <2>1, <2>7, OthersKeepTheirs
      <3>2. locks'[s] \in {locks[s], Free}
        BY <1>0, <2>7 DEF Refuse, GiveBack, Reclaim, LeaseTypes
      <3> QED BY <1>1, <2>2, <3>1, <3>2
    <2> QED BY <2>3, <2>4, <2>5, <2>6, <2>7
  <1>3. ASSUME NEW q \in Run, Kill(q) PROVE Abandoned(r)'
    <2>1. q # r
      BY <1>0, <1>3 DEF Kill
    <2>2. launch'[r] = launch[r]
      BY <1>3, <2>1, OthersStay
    <2> QED BY <1>0, <1>1, <1>3, <2>1, <2>2 DEF Kill, Perish, LeaseTypes
  <1>4. CASE \/ (\E q \in Run : ChildEnds(q)) \/ PlaceHalt \/ TimePasses
             \/ (\E t \in Slice : HandMark(t)) \/ UNCHANGED vars
    <2>1. UNCHANGED <<alive, locks, lease, launch>>
      BY <1>4 DEF ChildEnds, PlaceHalt, TimePasses, Pass, HandMark, launchVars, promiseVars, vars
    <2> QED BY <1>0, <1>1, <2>1
  <1> QED BY <1>2, <1>3, <1>4 DEF Next, Environment

LEMMA OneKept ==
  ASSUME KeptInv, NEW r \in Run, NEW o \in Launch, launch' = [launch EXCEPT ![r] = o],
         \A q \in Run \ {r}, k \in Key : lease'[q][k] = lease[q][k],
         KeptFits(o, lease'[r]) \/ Abandoned(r)', AbandonedStay
  PROVE  AllKeptFit'
  <1>1. launch'[r] = o /\ \A q \in Run : q # r => launch'[q] = launch[q]
    BY OneMoves DEF KeptInv, StageInv
  <1>2. \A q \in Run : KeptFits(launch'[q], lease'[q]) \/ Abandoned(q)'
    <2> SUFFICES ASSUME NEW q \in Run PROVE KeptFits(launch'[q], lease'[q]) \/ Abandoned(q)'
      OBVIOUS
    <2>1. CASE q = r
      BY <1>1, <2>1
    <2>2. CASE q # r /\ KeptFits(launch[q], lease[q])
      BY <1>1, <2>2 DEF KeptFits
    <2>3. CASE q # r /\ Abandoned(q)
      BY <2>3 DEF AbandonedStay
    <2> QED BY <2>1, <2>2, <2>3 DEF KeptInv, AllKeptFit
  <1>3. Record' = Record
    BY DEF Record
  <1> QED BY <1>2, <1>3 DEF AllKeptFit, KeptFits

\* Before its first grant a launch goes wherever it likes.
Early == {"idle", "validate", "support", "list", "sweep", "locks", "claim"}

LEMMA EarlyKept ==
  ASSUME KeptInv, NEW r \in Run, NEW o \in Launch, launch' = [launch EXCEPT ![r] = o],
         launch[r].pc \in Early,
         \A q \in Run, k \in Key : lease'[q][k] = lease[q][k] \/ (q = r /\ lease'[q][k] \notin Record),
         AbandonedStay
  PROVE  AllKeptFit'
  <1>1. \A k \in Key : lease[r][k] \notin Record
    BY DEF KeptInv, AllKeptFit, KeptFits, Abandoned, Early, Holding, Measuring, Marking
  <1>2. KeptFits(o, lease'[r])
    BY <1>1 DEF KeptFits
  <1> QED BY <1>2, OneKept

\* After it, it stays with its slice until the trap.
Late == ({"baseline", "freeSlice"} \cup Measuring \cup Marking)

LEMMA LateKept ==
  ASSUME KeptInv, NEW r \in Run, NEW o \in Launch, launch' = [launch EXCEPT ![r] = o],
         o.pc \in Late \cup {"killed"}, o.slice = launch[r].slice, launch[r].pc # "ended",
         lease' = lease, AbandonedStay
  PROVE  AllKeptFit'
  <1>1. KeptFits(launch[r], lease[r])
    BY DEF KeptInv, AllKeptFit, Abandoned
  <1>2. KeptFits(o, lease'[r])
    BY <1>1 DEF KeptFits, Late, Holding, Measuring, Marking
  <1> QED BY <1>2, OneKept

-----------------------------------------------------------------------------
LEMMA KeptByMeasuring ==
  ASSUME KeptInv, NEW r \in Run,
         Baseline(r) \/ Declare(r) \/ Spawn(r) \/ Close(r) \/ Gate(r), AbandonedStay
  PROVE  AllKeptFit'
  <1>0. StageInv /\ TypeOK
    BY DEF KeptInv, StageInv
  <1>1. lease' = lease /\ alive[r] /\ launch[r].pc # "ended"
    BY DEF Baseline, Declare, Spawn, Close, Gate, promiseVars, At
  <1>2. \E o \in Launch : /\ launch' = [launch EXCEPT ![r] = o]
                          /\ o.pc \in Late /\ o.slice = launch[r].slice
    <2>1. CASE Baseline(r)
      <3>1. CASE Goto(r, "declare")
        BY <1>0, <3>1, GotoForm DEF PCs, Late, Measuring, SameEvidence
      <3>2. CASE Exit(r, FALSE)
        BY <1>0, <1>1, <3>2, ExitForm DEF Late, SameEvidence
      <3> QED BY <2>1, <3>1, <3>2 DEF Baseline
    <2>2. CASE Declare(r)
      BY <1>0, <2>2, DeclareForm DEF Late, Measuring, SameEvidence
    <2>3. CASE Spawn(r)
      BY <1>0, <2>3, GotoForm DEF Spawn, PCs, Late, Measuring, SameEvidence
    <2>4. CASE Close(r)
      BY <1>0, <2>4, CloseForm DEF Late, Measuring
    <2>5. CASE Gate(r)
      BY <1>0, <2>5, GateForm DEF Late, Marking
    <2> QED BY <2>1, <2>2, <2>3, <2>4, <2>5
  <1> QED BY <1>1, <1>2, LateKept

LEMMA KeptByMarking ==
  ASSUME KeptInv, NEW r \in Run, Mark(r), AbandonedStay
  PROVE  AllKeptFit'
  <1>0. StageInv /\ TypeOK
    BY DEF KeptInv, StageInv
  <1>1. lease' = lease /\ launch[r].pc # "ended"
    BY DEF Mark, MarkReadMarks, MarkReadBindings, TruncateBindings, WriteBindings,
           TruncateMarks, WriteMarks, promiseVars, At
  <1>2. \E o \in Launch : /\ launch' = [launch EXCEPT ![r] = o]
                          /\ o.pc \in Late \cup {"killed"} /\ o.slice = launch[r].slice
    <2>1. CASE MarkReadMarks(r)
      BY <1>0, <2>1, MarkReadMarksForm DEF Late, Marking, SameEvidence
    <2>2. CASE MarkReadBindings(r)
      BY <1>0, <2>2, MarkReadBindingsForm DEF Late, Marking, SameEvidence
    <2>3. CASE TruncateBindings(r)
      BY <1>0, <2>3, GotoForm DEF TruncateBindings, PCs, Late, Marking, SameEvidence
    <2>4. CASE WriteBindings(r)
      BY <1>0, <2>4, GotoForm DEF WriteBindings, PCs, Late, Marking, SameEvidence
    <2>5. CASE TruncateMarks(r)
      BY <1>0, <2>5, GotoForm DEF TruncateMarks, PCs, Late, Marking, SameEvidence
    <2>6. CASE WriteMarks(r)
      BY <1>0, <2>6, ExitForm DEF WriteMarks, Late, SameEvidence
    <2> QED BY <2>1, <2>2, <2>3, <2>4, <2>5, <2>6 DEF Mark
  <1> QED BY <1>1, <1>2, LateKept

LEMMA KeptByReading ==
  ASSUME KeptInv, NEW r \in Run,
         \/ \E s \in Slice : Begin(r, s)
         \/ ReadMarks(r) \/ ReadSupport(r) \/ ListLocks(r) \/ ReadNext(r) \/ ReadLocks(r)
         \/ \E k \in Key : SweepLock(r, k),
         AbandonedStay
  PROVE  AllKeptFit'
  <1>0. StageInv /\ TypeOK
    BY DEF KeptInv, StageInv
  <1>1. lease' = lease /\ launch[r].pc \in Early
    BY DEF Begin, ReadMarks, ReadSupport, ListLocks, ReadNext, ReadLocks, SweepLock, Reclaim,
           promiseVars, At, Early
  <1>2. \E o \in Launch : launch' = [launch EXCEPT ![r] = o]
    <2>1. CASE (\E s \in Slice : Begin(r, s)) \/ ReadMarks(r) \/ ListLocks(r)
      BY <1>0, <2>1, BeginForm, ReadMarksForm, ListLocksForm
    <2>2. CASE \E k \in Key : SweepLock(r, k)
      BY <1>0, <2>2, SweepLockForm
    <2>3. CASE ReadSupport(r)
      BY <1>0, <2>3, GotoForm, StopForm DEF ReadSupport, PCs
    <2>4. CASE ReadNext(r) \/ ReadLocks(r)
      BY <1>0, <2>4, GotoForm, StopForm DEF ReadNext, ReadLocks, PCs
    <2> QED BY <2>1, <2>2, <2>3, <2>4
  <1> QED BY <1>1, <1>2, EarlyKept

-----------------------------------------------------------------------------
LEMMA KeptByClaim ==
  ASSUME KeptInv, NEW r \in Run, Claim(r), AbandonedStay
  PROVE  AllKeptFit'
  <1>0. StageInv /\ TypeOK /\ LeaseTypes /\ Workspace \in Key /\ launch[r].pc = "claim"
    BY LauncherAssumption DEF KeptInv, StageInv, TypeOK, LeaseTypes, Claim, At
  <1>1. CASE Reclaim(Workspace) /\ UNCHANGED launch
    BY <1>1 DEF Reclaim, KeptInv, AllKeptFit, KeptFits, AbandonedStay, Record
  <1>2. CASE Grant(r, Workspace) /\ Goto(r, "claimSlice")
    <2>1. PICK o \in Launch : launch' = [launch EXCEPT ![r] = o] /\ o.pc = "claimSlice"
      BY <1>0, <1>2, GotoForm DEF PCs
    <2>2. \A q \in Run, j \in Key : q # r \/ j # Workspace => lease'[q][j] = lease[q][j]
      BY <1>0, <1>2, OthersKeepTheirs
    <2>3. \A k \in Key : lease[r][k] \notin Record
      BY <1>0 DEF KeptInv, AllKeptFit, KeptFits, Abandoned, Holding, Measuring, Marking
    <2>4. KeptFits(o, lease'[r])
      BY <2>1, <2>2, <2>3 DEF KeptFits, Holding
    <2> QED BY <2>1, <2>2, <2>4, OneKept
  <1>3. CASE Refuse(r, Workspace) /\ Stop(r)
    <2>1. PICK o \in Launch : launch' = [launch EXCEPT ![r] = o]
      BY <1>0, <1>3, StopForm
    <2>2. lease'[r][Workspace] \notin Record
      BY <1>0, <1>3, NoRecord DEF Refuse, LeaseTypes
    <2>3. \A q \in Run, j \in Key : q # r \/ j # Workspace => lease'[q][j] = lease[q][j]
      BY <1>0, <1>3, OthersKeepTheirs
    <2> QED BY <1>0, <2>1, <2>2, <2>3, EarlyKept DEF Early
  <1> QED BY <1>1, <1>2, <1>3 DEF Claim

LEMMA KeptByClaimSlice ==
  ASSUME KeptInv, NEW r \in Run, ClaimSlice(r), AbandonedStay
  PROVE  AllKeptFit'
  <1> DEFINE s == launch[r].slice
  <1>0. /\ StageInv /\ TypeOK /\ LeaseTypes /\ s \in Key /\ alive[r]
        /\ launch[r].pc = "claimSlice" /\ KeptFits(launch[r], lease[r])
    BY LaunchFields DEF KeptInv, AllKeptFit, Abandoned, StageInv, TypeOK, LeaseTypes, ClaimSlice, At
  <1>1. CASE Reclaim(s) /\ UNCHANGED launch
    BY <1>1 DEF Reclaim, KeptInv, AllKeptFit, KeptFits, AbandonedStay, Record
  <1>2. CASE (Grant(r, s) /\ Goto(r, "baseline")) \/ (Refuse(r, s) /\ Exit(r, FALSE))
    <2>1. PICK o \in Launch : /\ launch' = [launch EXCEPT ![r] = o] /\ o.slice = s
                              /\ o.pc \in {"baseline", "freeSlice"}
      <3>1. CASE Goto(r, "baseline")
        BY <1>0, <3>1, GotoForm DEF PCs, SameEvidence
      <3>2. CASE Exit(r, FALSE)
        BY <1>0, <3>2, ExitForm DEF SameEvidence
      <3> QED BY <1>2, <3>1, <3>2
    <2>2. \A q \in Run, j \in Key : q # r \/ j # s => lease'[q][j] = lease[q][j]
      BY <1>0, <1>2, OthersKeepTheirs
    <2>3. KeptFits(o, lease'[r])
      BY <1>0, <2>1, <2>2 DEF KeptFits, Holding
    <2> QED BY <2>1, <2>2, <2>3, OneKept
  <1> QED BY <1>1, <1>2 DEF ClaimSlice

\* A lease let go of is no record any more.
LEMMA LetGoOf ==
  ASSUME LeaseTypes, NEW r \in Run, NEW k \in Key, LetGo(r, k)
  PROVE  /\ lease'[r][k] \notin Record
         /\ \A q \in Run, j \in Key : q # r \/ j # k => lease'[q][j] = lease[q][j]
  <1>1. CASE lease[r][k] \in Record
    <2>1. GiveBack(r, k)
      BY <1>1 DEF LetGo
    <2>2. lease'[r][k] = Done
      BY <2>1 DEF GiveBack, LeaseTypes
    <2> QED BY <2>1, <2>2, NoRecord, OthersKeepTheirs
  <1>2. CASE lease[r][k] \notin Record
    BY <1>2 DEF LetGo, promiseVars
  <1> QED BY <1>1, <1>2

\* The trap: the slice's lease goes first, and then the workspace's, unless
\* the slice is another run's by now.
LEMMA KeptByTrap ==
  ASSUME KeptInv, NEW r \in Run, FreeSlice(r) \/ FreeWorkspace(r), AbandonedStay
  PROVE  AllKeptFit'
  <1> DEFINE s == launch[r].slice
  <1>0. /\ StageInv /\ TypeOK /\ LeaseTypes /\ s \in Key /\ Workspace \in Key
        /\ KeptFits(launch[r], lease[r])
    BY LaunchFields, LauncherAssumption
    DEF KeptInv, AllKeptFit, Abandoned, StageInv, TypeOK, LeaseTypes, FreeSlice, FreeWorkspace, At
  <1>1. CASE FreeSlice(r)
    <2>1. PICK o \in Launch :
            /\ launch' = [launch EXCEPT ![r] = o] /\ o.slice = s
            /\ \/ o.pc = "freeWorkspace" /\ LetGo(r, s)
               \/ o.pc = "ended" /\ Usurped(r, s) /\ Perish(r)
      BY <1>0, <1>1, FreeSliceForm DEF SameEvidence
    <2>2. CASE o.pc = "freeWorkspace" /\ LetGo(r, s)
      <3>1. /\ lease'[r][s] \notin Record
            /\ \A q \in Run, j \in Key : q # r \/ j # s => lease'[q][j] = lease[q][j]
        BY <1>0, <2>2, LetGoOf
      <3>2. KeptFits(o, lease'[r])
        BY <1>0, <2>2, <3>1 DEF KeptFits, Holding
      <3> QED BY <2>1, <3>1, <3>2, OneKept
    <2>3. CASE o.pc = "ended" /\ Usurped(r, s) /\ Perish(r)
      <3>1. lease' = lease /\ locks' = locks /\ ~alive'[r]
        BY <1>0, <2>3 DEF Perish, LeaseTypes
      <3>2. lease[r][s] \in Record /\ locks[s] # lease[r][s]
        BY <1>0, <2>3 DEF Usurped, KeptInv, LeaseHeld
      <3>3. launch'[r] = o
        BY <1>0, <2>1, OneMoves
      <3>4. Abandoned(r)'
        BY <2>1, <2>3, <3>1, <3>2, <3>3 DEF Abandoned, Record
      <3> QED BY <2>1, <3>1, <3>4, OneKept
    <2> QED BY <2>1, <2>2, <2>3
  <1>2. CASE FreeWorkspace(r)
    <2>1. /\ lease'[r][Workspace] \notin Record
          /\ \A q \in Run, j \in Key : q # r \/ j # Workspace => lease'[q][j] = lease[q][j]
      BY <1>0, <1>2, LetGoOf DEF FreeWorkspace
    <2>2. PICK o \in Launch : launch' = [launch EXCEPT ![r] = o]
      BY <1>0, <1>2, FreeWorkspaceForm
    <2>3. \A k \in Key : lease'[r][k] \notin Record
      BY <1>0, <1>2, <2>1 DEF FreeWorkspace, At, KeptFits
    <2>4. KeptFits(o, lease'[r])
      BY <2>3 DEF KeptFits
    <2> QED BY <2>1, <2>2, <2>4, OneKept
  <1> QED BY <1>1, <1>2

LEMMA KeptByEnvironment ==
  ASSUME KeptInv, Environment \/ UNCHANGED vars, AbandonedStay
  PROVE  AllKeptFit'
  <1>1. ASSUME NEW r \in Run, Kill(r) PROVE AllKeptFit'
    <2>1. lease' = lease /\ StageInv
      BY <1>1 DEF Kill, Perish, KeptInv
    <2>2. PICK o \in Launch :
            /\ launch' = [launch EXCEPT ![r] = o] /\ SameEvidence(o, launch[r])
            /\ (o = launch[r] /\ launch[r].pc \in Marking) \/ o.pc = "killed"
            /\ launch[r].pc # "ended"
      BY <1>1, <2>1, KillForm
    <2> QED BY <2>1, <2>2, LateKept DEF Late, SameEvidence
  <1>2. CASE (\E r \in Run : ChildEnds(r)) \/ PlaceHalt \/ TimePasses
             \/ (\E s \in Slice : HandMark(s)) \/ UNCHANGED vars
    <2>1. UNCHANGED <<lease, launch>>
      BY <1>2 DEF ChildEnds, PlaceHalt, TimePasses, Pass, HandMark, launchVars, promiseVars, vars
    <2> QED BY <2>1 DEF KeptInv, AllKeptFit, KeptFits, AbandonedStay, Record
  <1> QED BY <1>1, <1>2 DEF Environment

-----------------------------------------------------------------------------
\* The EXIT trap (launch_worker.sh:451-458): however many launches race, expire
\* or are killed, one that ended holds no lease it was granted, on every path
\* but one: it found its slice in another run's hands, and is gone.
THEOREM EndedLaunchKeepsNothing == Spec => []NothingKept
  <1>1. Init => KeptInv
    <2> SUFFICES ASSUME Init PROVE KeptInv
      OBVIOUS
    <2>1. \A r \in Run, k \in Key : lease[r][k] \notin Record
      BY NoRecord DEF Init, PromiseInit
    <2>2. LeaseHeld
      BY <2>1 DEF LeaseHeld
    <2> QED BY <2>1, <2>2, StageInit DEF KeptInv, AllKeptFit, KeptFits
  <1>2. KeptInv /\ [Next]_vars => KeptInv'
    <2> SUFFICES ASSUME KeptInv, [Next]_vars PROVE KeptInv'
      OBVIOUS
    <2>0. LeaseTypes /\ AbandonedStay
      BY NothingIsTakenUp DEF KeptInv, StageInv, TypeOK, LeaseTypes
    <2>1. StageInv' /\ LeaseHeld'
      BY <2>0, StageStep, LeaseOfStep, LeaseHeldKept DEF KeptInv
    <2>2. AllKeptFit'
      BY <2>0, KeptByReading, KeptByClaim, KeptByClaimSlice, KeptByMeasuring, KeptByMarking, KeptByTrap,
         KeptByEnvironment DEF Next, Step
    <2> QED BY <2>1, <2>2 DEF KeptInv
  <1>3. KeptInv => NothingKept
    BY DEF KeptInv, AllKeptFit, KeptFits, Abandoned, NothingKept, At, Holding, Measuring, Marking
  <1> QED BY <1>1, <1>2, <1>3, PTL DEF Spec

-----------------------------------------------------------------------------
(***************************************************************************)
(* Marks are bound to their evidence, for any number of launches and       *)
(* slices, in the Fenced regime and while no status is edited by hand: the *)
(* workspace's lease then lets one run at a time hold copies of the two    *)
(* files, and what it has copied stays what the files say, but for what it *)
(* writes itself.                                                          *)
(***************************************************************************)

\* A launch holds copies, from its first read of harness.json to its last write.
CopyStage == {"readBindings", "truncBindings", "writeBindings", "truncMarks", "writeMarks"}

\* Fenced, no lease lapses under a launch at work.
LEMMA FencedRunStands ==
  ASSUME Fenced, ExclusionInv, NEW r \in Run, launch[r].pc \in Holding
  PROVE  locks[Workspace].run = r
  <1>0. StageInv /\ LeaseHeld /\ HolderStands
    BY DEF ExclusionInv
  <1>1. lease[r][Workspace] \in Record /\ alive[r]
    BY <1>0 DEF HolderStands, Fenced
  <1>2. /\ lease[r][Workspace].at \in Nat /\ clock \in Nat /\ TTL \in Nat /\ MaxClock \in Nat
        /\ clock <= MaxClock
    BY <1>0, <1>1, LeaseAssumption DEF Record, StageInv, TypeOK
  <1>3. ~(clock >= ExpiresAt(lease[r][Workspace]))
    BY <1>2 DEF Fenced, ExpiresAt
  <1> QED BY <1>0, <1>1, <1>3, EntitledHolds DEF Lapsed

LEMMA FencedRunStandsNext ==
  ASSUME Fenced, ExclusionInv', NEW r \in Run, launch'[r].pc \in Holding
  PROVE  locks'[Workspace].run = r
  <1>0. TypeOK' /\ LeaseHeld' /\ HolderStands'
    BY DEF ExclusionInv, StageInv
  <1>1. lease'[r][Workspace] \in Record /\ alive'[r]
    BY <1>0 DEF HolderStands, Fenced, Holding, Measuring, Marking, Record
  <1>2. /\ lease'[r][Workspace].at \in Nat /\ clock' \in Nat /\ TTL \in Nat /\ MaxClock \in Nat
        /\ clock' <= MaxClock
    BY <1>0, <1>1, LeaseAssumption DEF Record, TypeOK
  <1>3. clock' < ExpiresAt(lease'[r][Workspace])
    BY <1>2 DEF Fenced, ExpiresAt
  <1> QED BY <1>0, <1>1, <1>3, LauncherAssumption DEF LeaseHeld, Record, ExpiresAt

LEMMA CopyAlone ==
  ASSUME Fenced, ExclusionInv, NEW r \in Run, NEW q \in Run,
         launch[r].pc \in CopyStage, launch[q].pc \in CopyStage
  PROVE  r = q
  BY FencedRunStands DEF CopyStage, Holding, Marking

LEMMA CopyAloneNext ==
  ASSUME Fenced, ExclusionInv', NEW r \in Run, NEW q \in Run,
         launch'[r].pc \in CopyStage, launch'[q].pc \in CopyStage
  PROVE  r = q
  BY FencedRunStandsNext DEF CopyStage, Holding, Marking

-----------------------------------------------------------------------------
\* A step of no launch that holds copies, nor makes one.
Aside ==
  /\ UNCHANGED <<harness, completions>>
  /\ \A q \in Run : launch'[q] = launch[q] \/ launch'[q].pc \notin CopyStage

LEMMA OneStaysAside ==
  ASSUME TypeOK, UNCHANGED <<harness, completions>>,
         NEW r \in Run, NEW o \in Launch, launch' = [launch EXCEPT ![r] = o], o.pc \notin CopyStage
  PROVE  Aside
  BY OneMoves DEF Aside

\* Every step is such a one, but those of mark-passed.
LEMMA OthersStayAside ==
  ASSUME Fenced, HandMarks = "never", StageInv, [Next]_vars,
         ~\E r \in Run : Mark(r)
  PROVE  Aside
  <1>0. StageInv /\ TypeOK
    BY DEF StageInv
  <1>1. ASSUME NEW r \in Run, NEW s \in Slice, Begin(r, s) PROVE Aside
    <2>1. UNCHANGED <<harness, completions>>
      BY <1>1 DEF Begin
    <2>2. PICK o \in Launch : launch' = [launch EXCEPT ![r] = o] /\ o.pc \in {"ended", "validate"}
      BY <1>0, <1>1, BeginForm
    <2> QED BY <1>0, <2>1, <2>2, OneStaysAside DEF CopyStage
  <1>2. ASSUME NEW r \in Run, ReadMarks(r) PROVE Aside
    <2>1. UNCHANGED <<harness, completions>>
      BY <1>2 DEF ReadMarks
    <2>2. PICK o \in Launch : launch' = [launch EXCEPT ![r] = o] /\ o.pc \in {"ended", "support", "list"}
      BY <1>0, <1>2, ReadMarksForm
    <2> QED BY <1>0, <2>1, <2>2, OneStaysAside DEF CopyStage
  <1>3. ASSUME NEW r \in Run, ReadSupport(r) PROVE Aside
    <2>1. UNCHANGED <<harness, completions>>
      BY <1>3 DEF ReadSupport
    <2>2. PICK o \in Launch : launch' = [launch EXCEPT ![r] = o] /\ o.pc \in {"list", "ended"}
      BY <1>0, <1>3, GotoForm, StopForm DEF ReadSupport, PCs
    <2> QED BY <1>0, <2>1, <2>2, OneStaysAside DEF CopyStage
  <1>4. ASSUME NEW r \in Run, ListLocks(r) PROVE Aside
    <2>1. UNCHANGED <<harness, completions>>
      BY <1>4 DEF ListLocks
    <2>2. PICK o \in Launch : launch' = [launch EXCEPT ![r] = o] /\ o.pc = "sweep"
      BY <1>0, <1>4, ListLocksForm
    <2> QED BY <1>0, <2>1, <2>2, OneStaysAside DEF CopyStage
  <1>5. ASSUME NEW r \in Run, ReadNext(r) PROVE Aside
    <2>1. UNCHANGED <<harness, completions>>
      BY <1>5 DEF ReadNext
    <2>2. PICK o \in Launch : launch' = [launch EXCEPT ![r] = o] /\ o.pc \in {"locks", "ended"}
      BY <1>0, <1>5, GotoForm, StopForm DEF ReadNext, PCs
    <2> QED BY <1>0, <2>1, <2>2, OneStaysAside DEF CopyStage
  <1>6. ASSUME NEW r \in Run, ReadLocks(r) PROVE Aside
    <2>1. UNCHANGED <<harness, completions>>
      BY <1>6 DEF ReadLocks
    <2>2. PICK o \in Launch : launch' = [launch EXCEPT ![r] = o] /\ o.pc \in {"claim", "ended"}
      BY <1>0, <1>6, GotoForm, StopForm DEF ReadLocks, PCs
    <2> QED BY <1>0, <2>1, <2>2, OneStaysAside DEF CopyStage
  <1>7. ASSUME NEW r \in Run, Baseline(r) PROVE Aside
    <2>1. UNCHANGED <<harness, completions>>
      BY <1>7 DEF Baseline
    <2>2. PICK o \in Launch : launch' = [launch EXCEPT ![r] = o] /\ o.pc \in {"declare", "freeSlice", "killed"}
      <3>1. CASE Goto(r, "declare")
        BY <1>0, <3>1, GotoForm DEF PCs
      <3>2. CASE Exit(r, FALSE)
        BY <1>0, <3>2, ExitForm
      <3> QED BY <1>7, <3>1, <3>2 DEF Baseline
    <2> QED BY <1>0, <2>1, <2>2, OneStaysAside DEF CopyStage
  <1>8. ASSUME NEW r \in Run, Declare(r) PROVE Aside
    <2>1. UNCHANGED <<harness, completions>>
      BY <1>8 DEF Declare
    <2>2. PICK o \in Launch : launch' = [launch EXCEPT ![r] = o] /\ o.pc \in {"spawn", "freeSlice", "killed"}
      BY <1>0, <1>8, DeclareForm
    <2> QED BY <1>0, <2>1, <2>2, OneStaysAside DEF CopyStage
  <1>9. ASSUME NEW r \in Run, Spawn(r) PROVE Aside
    <2>1. UNCHANGED <<harness, completions>>
      BY <1>9 DEF Spawn
    <2>2. PICK o \in Launch : launch' = [launch EXCEPT ![r] = o] /\ o.pc = "wait"
      BY <1>0, <1>9, GotoForm DEF Spawn, PCs
    <2> QED BY <1>0, <2>1, <2>2, OneStaysAside DEF CopyStage
  <1>10. ASSUME NEW r \in Run, Close(r) PROVE Aside
    <2>1. UNCHANGED <<harness, completions>>
      BY <1>10 DEF Close
    <2>2. PICK o \in Launch : launch' = [launch EXCEPT ![r] = o] /\ o.pc = "gate"
      BY <1>0, <1>10, CloseForm
    <2> QED BY <1>0, <2>1, <2>2, OneStaysAside DEF CopyStage
  <1>11. ASSUME NEW r \in Run, Gate(r) PROVE Aside
    <2>1. UNCHANGED <<harness, completions>>
      BY <1>11 DEF Gate
    <2>2. PICK o \in Launch : launch' = [launch EXCEPT ![r] = o] /\ o.pc \in {"freeSlice", "mark", "killed"}
      BY <1>0, <1>11, GateForm
    <2> QED BY <1>0, <2>1, <2>2, OneStaysAside DEF CopyStage
  <1>12. ASSUME NEW r \in Run, FreeSlice(r) PROVE Aside
    <2>1. UNCHANGED <<harness, completions>>
      BY <1>12 DEF FreeSlice
    <2>2. PICK o \in Launch : launch' = [launch EXCEPT ![r] = o] /\ o.pc \in {"freeWorkspace", "ended"}
      BY <1>0, <1>12, FreeSliceForm
    <2> QED BY <1>0, <2>1, <2>2, OneStaysAside DEF CopyStage
  <1>13. ASSUME NEW r \in Run, FreeWorkspace(r) PROVE Aside
    <2>1. UNCHANGED <<harness, completions>>
      BY <1>13 DEF FreeWorkspace
    <2>2. PICK o \in Launch : launch' = [launch EXCEPT ![r] = o] /\ o.pc = "ended"
      BY <1>0, <1>13, FreeWorkspaceForm
    <2> QED BY <1>0, <2>1, <2>2, OneStaysAside DEF CopyStage
  <1>14. ASSUME NEW r \in Run, NEW k \in Key, SweepLock(r, k) PROVE Aside
    <2>1. UNCHANGED <<harness, completions>>
      BY <1>14 DEF SweepLock
    <2>2. PICK o \in Launch : launch' = [launch EXCEPT ![r] = o] /\ o.pc = "sweep"
      BY <1>0, <1>14, SweepLockForm
    <2> QED BY <1>0, <2>1, <2>2, OneStaysAside DEF CopyStage
  <1>15. ASSUME NEW r \in Run, Kill(r) PROVE Aside
    <2>1. UNCHANGED <<harness, completions>>
      BY <1>15 DEF Kill
    <2>2. PICK o \in Launch : launch' = [launch EXCEPT ![r] = o] /\ o.pc = "killed"
      BY <1>0, <1>15, KillForm DEF Fenced
    <2> QED BY <1>0, <2>1, <2>2, OneStaysAside DEF CopyStage
  <1>16. ASSUME NEW r \in Run, Claim(r) \/ ClaimSlice(r) PROVE Aside
    <2>1. UNCHANGED <<harness, completions>>
      BY <1>16 DEF Claim, ClaimSlice
    <2>2. CASE UNCHANGED launch
      BY <2>1, <2>2 DEF Aside
    <2>3. CASE Goto(r, "claimSlice") \/ Goto(r, "baseline") \/ Stop(r) \/ Exit(r, FALSE)
      <3>1. PICK o \in Launch :
              /\ launch' = [launch EXCEPT ![r] = o]
              /\ o.pc \in {"claimSlice", "baseline", "ended", "freeSlice", "killed"}
        <4>1. CASE Goto(r, "claimSlice")
          BY <1>0, <4>1, GotoForm DEF PCs
        <4>2. CASE Goto(r, "baseline")
          BY <1>0, <4>2, GotoForm DEF PCs
        <4>3. CASE Stop(r)
          BY <1>0, <4>3, StopForm
        <4>4. CASE Exit(r, FALSE)
          BY <1>0, <4>4, ExitForm
        <4> QED BY <2>3, <4>1, <4>2, <4>3, <4>4
      <3> QED BY <1>0, <2>1, <3>1, OneStaysAside DEF CopyStage
    <2> QED BY <1>16, <2>2, <2>3 DEF Claim, ClaimSlice
  <1>17. CASE PlaceHalt \/ TimePasses \/ UNCHANGED vars \/ \E r \in Run : ChildEnds(r)
    BY <1>17 DEF PlaceHalt, TimePasses, ChildEnds, launchVars, vars, Aside
  <1>18. ASSUME NEW s \in Slice, HandMark(s) PROVE FALSE
    BY <1>18 DEF HandMark
  <1> QED
    BY <1>1, <1>2, <1>3, <1>4, <1>5, <1>6, <1>7, <1>8, <1>9, <1>10, <1>11, <1>12, <1>13,
       <1>14, <1>15, <1>16, <1>17, <1>18
    DEF Next, Step, Environment

-----------------------------------------------------------------------------
\* CopiesMatch of one launch's record l and the two files h and c.
CopiesFit(r, l, h, c) ==
  LET bound == /\ l.bindings[l.slice] = r
               /\ \A s \in Slice : l.marks[s] => l.bindings[s] # Unbound
  IN /\ l.pc \in {"readBindings", "truncBindings", "writeBindings", "truncMarks"} => h = l.marks
     /\ l.pc = "truncBindings" =>
          /\ c # Torn /\ bound
          /\ \A s \in Slice \ {l.slice} : c[s] = l.bindings[s]
     /\ l.pc = "writeBindings" => c = Torn /\ bound
     /\ l.pc = "truncMarks" => c = l.bindings /\ bound
     /\ l.pc = "writeMarks" => c = l.bindings /\ bound /\ h = Torn

AllCopiesMatch == \A r \in Run : CopiesMatch(r)

LEMMA FitIsMatch ==
  AllCopiesMatch <=> \A r \in Run : CopiesFit(r, launch[r], harness, completions)
  BY DEF AllCopiesMatch, CopiesMatch, CopiesFit, At

LEMMA FitIsMatchNext ==
  AllCopiesMatch' <=> \A r \in Run : CopiesFit(r, launch'[r], harness', completions')
  BY DEF AllCopiesMatch, CopiesMatch, CopiesFit, At

LEMMA NoCopyFits ==
  ASSUME NEW r, NEW l, NEW h, NEW c, l.pc \notin CopyStage
  PROVE  CopiesFit(r, l, h, c)
  BY DEF CopiesFit, CopyStage

LEMMA AsideKeepsMarks ==
  ASSUME MarksAreBound, AllCopiesMatch, Aside
  PROVE  MarksAreBound' /\ AllCopiesMatch'
  <1>1. MarksAreBound'
    BY DEF MarksAreBound, Aside
  <1>2. \A r \in Run : CopiesFit(r, launch[r], harness, completions)
    BY FitIsMatch
  <1>3. \A r \in Run : CopiesFit(r, launch'[r], harness', completions')
    BY <1>2, NoCopyFits DEF Aside
  <1> QED BY <1>1, <1>3, FitIsMatchNext

\* A step of the launch that holds copies, or takes the first: the others
\* hold none.
LEMMA HolderKeepsCopies ==
  ASSUME Fenced, ExclusionInv', AllCopiesMatch, NEW r \in Run, NEW o \in Launch,
         TypeOK, launch' = [launch EXCEPT ![r] = o], o.pc \in CopyStage,
         CopiesFit(r, o, harness', completions')
  PROVE  AllCopiesMatch'
  <1>1. launch'[r] = o
    BY OneMoves
  <1>2. \A q \in Run : q # r => launch'[q].pc \notin CopyStage
    <2>1. \A q \in Run : launch'[q].pc \in CopyStage => q = r
      BY <1>1, CopyAloneNext
    <2> QED BY <2>1
  <1>3. \A q \in Run : CopiesFit(q, launch'[q], harness', completions')
    BY <1>1, <1>2, NoCopyFits
  <1> QED BY <1>3, FitIsMatchNext

LEMMA LastWriteKeepsCopies ==
  ASSUME Fenced, ExclusionInv, NEW r \in Run, NEW o \in Launch, launch[r].pc \in CopyStage,
         TypeOK, launch' = [launch EXCEPT ![r] = o], o.pc \notin CopyStage
  PROVE  AllCopiesMatch'
  <1>1. launch'[r] = o /\ \A q \in Run : q # r => launch'[q] = launch[q]
    BY OneMoves
  <1>2. \A q \in Run : q # r => launch[q].pc \notin CopyStage
    BY CopyAlone
  <1>3. \A q \in Run : CopiesFit(q, launch'[q], harness', completions')
    BY <1>1, <1>2, NoCopyFits
  <1> QED BY <1>3, FitIsMatchNext

-----------------------------------------------------------------------------
\* mark-passed, step by step.
LEMMA MarkKeepsMarks ==
  ASSUME Fenced, ExclusionInv, ExclusionInv', MarksAreBound, AllCopiesMatch, NEW r \in Run, Mark(r)
  PROVE  MarksAreBound' /\ AllCopiesMatch'
  <1>0. /\ StageInv /\ TypeOK /\ launch[r].slice \in Slice /\ r # Unbound
        /\ launch[r].marks \in Marks \cup {Torn} /\ launch[r].bindings \in Bindings \cup {Torn}
        /\ CopiesFit(r, launch[r], harness, completions)
        /\ launch[r].pc \in Marking \ {"mark"} => launch[r].marks # Torn
        /\ launch[r].pc \in Marking \ {"mark", "readBindings"} => launch[r].bindings # Torn
    <2>1. StageInv /\ TypeOK
      BY DEF ExclusionInv, StageInv
    <2>2. /\ launch[r].slice \in Slice /\ launch[r].marks \in Marks \cup {Torn}
          /\ launch[r].bindings \in Bindings \cup {Torn}
      BY <2>1, LaunchFields
    <2>3. /\ launch[r].pc \in Marking \ {"mark"} => launch[r].marks # Torn
          /\ launch[r].pc \in Marking \ {"mark", "readBindings"} => launch[r].bindings # Torn
      BY <2>1 DEF StageInv, StagesMatch
    <2> QED BY <2>1, <2>2, <2>3, FitIsMatch, LauncherAssumption
  <1>1. CASE MarkReadMarks(r)
    <2>1. UNCHANGED <<harness, completions>>
      BY <1>1 DEF MarkReadMarks
    <2>2. PICK o \in Launch :
            /\ launch' = [launch EXCEPT ![r] = o]
            /\ \/ o.pc = "readBindings" /\ o.marks = harness
               \/ o.pc \in {"freeSlice", "killed"}
      BY <1>0, <1>1, MarkReadMarksForm
    <2>3. CASE o.pc = "readBindings" /\ o.marks = harness
      <3>1. CopiesFit(r, o, harness', completions')
        BY <2>1, <2>3 DEF CopiesFit
      <3> QED BY <1>0, <2>1, <2>2, <2>3, <3>1, HolderKeepsCopies DEF MarksAreBound, CopyStage
    <2>4. CASE o.pc \in {"freeSlice", "killed"}
      BY <1>0, <2>1, <2>2, <2>4, OneStaysAside, AsideKeepsMarks DEF CopyStage
    <2> QED BY <2>2, <2>3, <2>4
  <1>2. CASE MarkReadBindings(r)
    <2>1. UNCHANGED <<harness, completions>> /\ launch[r].pc = "readBindings"
      BY <1>2 DEF MarkReadBindings, At
    <2>2. PICK o \in Launch :
            /\ launch' = [launch EXCEPT ![r] = o] /\ SameEvidence(o, launch[r])
            /\ \/ /\ o.pc = "truncBindings" /\ o.marks = launch[r].marks
                  /\ completions # Torn /\ completions \in Bindings
                  /\ o.bindings = [completions EXCEPT ![launch[r].slice] = r]
               \/ o.pc \in {"freeSlice", "killed"}
      BY <1>0, <1>2, MarkReadBindingsForm
    <2>3. CASE o.pc = "truncBindings"
      <3>1. /\ o.marks = launch[r].marks /\ o.slice = launch[r].slice
            /\ completions # Torn /\ completions \in Bindings
            /\ o.bindings = [completions EXCEPT ![launch[r].slice] = r]
        BY <2>2, <2>3 DEF SameEvidence
      <3>2. harness = o.marks /\ harness # Torn
        BY <1>0, <2>1, <3>1 DEF CopiesFit, Marking
      <3>3. \A s \in Slice : o.bindings[s] = IF s = o.slice THEN r ELSE completions[s]
        BY <3>1 DEF Bindings
      <3>4. \A s \in Slice : o.marks[s] => o.bindings[s] # Unbound
        BY <1>0, <3>1, <3>2, <3>3 DEF MarksAreBound
      <3>5. CopiesFit(r, o, harness', completions')
        BY <1>0, <2>1, <2>3, <3>1, <3>2, <3>3, <3>4 DEF CopiesFit
      <3> QED BY <1>0, <2>1, <2>2, <2>3, <3>5, HolderKeepsCopies DEF MarksAreBound, CopyStage
    <2>4. CASE o.pc \in {"freeSlice", "killed"}
      BY <1>0, <2>1, <2>2, <2>4, OneStaysAside, AsideKeepsMarks DEF CopyStage
    <2> QED BY <2>2, <2>3, <2>4
  <1>3. CASE TruncateBindings(r)
    <2>1. harness' = harness /\ completions' = Torn /\ launch[r].pc = "truncBindings"
      BY <1>3 DEF TruncateBindings, At
    <2>2. PICK o \in Launch :
            /\ launch' = [launch EXCEPT ![r] = o] /\ o.pc = "writeBindings"
            /\ SameEvidence(o, launch[r]) /\ SameCopies(o, launch[r])
      BY <1>0, <1>3, GotoForm DEF TruncateBindings, PCs
    <2>3. CopiesFit(r, o, harness', completions')
      BY <1>0, <2>1, <2>2 DEF CopiesFit, SameEvidence, SameCopies
    <2> QED BY <1>0, <2>1, <2>2, <2>3, HolderKeepsCopies DEF MarksAreBound, CopyStage
  <1>4. CASE WriteBindings(r)
    <2>1. /\ harness' = harness /\ completions' = launch[r].bindings
          /\ launch[r].pc = "writeBindings"
      BY <1>4 DEF WriteBindings, At
    <2>2. PICK o \in Launch :
            /\ launch' = [launch EXCEPT ![r] = o] /\ o.pc = "truncMarks"
            /\ SameEvidence(o, launch[r]) /\ SameCopies(o, launch[r])
      BY <1>0, <1>4, GotoForm DEF WriteBindings, PCs
    <2>3. CopiesFit(r, o, harness', completions')
      BY <1>0, <2>1, <2>2 DEF CopiesFit, SameEvidence, SameCopies
    <2>4. MarksAreBound'
      BY <1>0, <2>1 DEF CopiesFit, MarksAreBound
    <2> QED BY <1>0, <2>2, <2>3, <2>4, HolderKeepsCopies DEF CopyStage
  <1>5. CASE TruncateMarks(r)
    <2>1. harness' = Torn /\ completions' = completions /\ launch[r].pc = "truncMarks"
      BY <1>5 DEF TruncateMarks, At
    <2>2. PICK o \in Launch :
            /\ launch' = [launch EXCEPT ![r] = o] /\ o.pc = "writeMarks"
            /\ SameEvidence(o, launch[r]) /\ SameCopies(o, launch[r])
      BY <1>0, <1>5, GotoForm DEF TruncateMarks, PCs
    <2>3. CopiesFit(r, o, harness', completions')
      BY <1>0, <2>1, <2>2 DEF CopiesFit, SameEvidence, SameCopies
    <2> QED BY <1>0, <2>1, <2>2, <2>3, HolderKeepsCopies DEF MarksAreBound, CopyStage
  <1>6. CASE WriteMarks(r)
    <2>1. /\ harness' = [launch[r].marks EXCEPT ![launch[r].slice] = TRUE]
          /\ completions' = completions /\ launch[r].pc = "writeMarks"
      BY <1>6 DEF WriteMarks, At
    <2>2. PICK o \in Launch :
            launch' = [launch EXCEPT ![r] = o] /\ o.pc \in {"freeSlice", "killed"}
      BY <1>0, <1>6, ExitForm DEF WriteMarks
    <2>3. AllCopiesMatch'
      BY <1>0, <2>1, <2>2, LastWriteKeepsCopies DEF CopyStage
    <2>4. /\ completions = launch[r].bindings /\ launch[r].bindings[launch[r].slice] = r
          /\ \A s \in Slice : launch[r].marks[s] => launch[r].bindings[s] # Unbound
          /\ launch[r].marks \in Marks
      BY <1>0, <2>1 DEF CopiesFit, Marking
    <2>5. \A s \in Slice : harness'[s] => completions'[s] # Unbound
      <3> TAKE s \in Slice
      <3>1. CASE s = launch[r].slice
        BY <1>0, <2>1, <2>4, <3>1
      <3>2. CASE s # launch[r].slice
        BY <2>1, <2>4, <3>2 DEF Marks
      <3> QED BY <3>1, <3>2
    <2>6. MarksAreBound'
      BY <2>5 DEF MarksAreBound
    <2> QED BY <2>3, <2>6
  <1> QED BY <1>1, <1>2, <1>3, <1>4, <1>5, <1>6 DEF Mark

-----------------------------------------------------------------------------
LEMMA MarksStart ==
  ASSUME Init
  PROVE  MarksAreBound /\ AllCopiesMatch
  <1>1. harness = [s \in Slice |-> FALSE] /\ \A r \in Run : launch[r].pc = "idle"
    BY DEF Init
  <1>2. MarksAreBound
    BY <1>1 DEF MarksAreBound
  <1>3. \A r \in Run : CopiesFit(r, launch[r], harness, completions)
    BY <1>1, NoCopyFits DEF CopyStage
  <1> QED BY <1>2, <1>3, FitIsMatch

MarksInv == ExclusionInv /\ MarksAreBound /\ AllCopiesMatch

LEMMA MarksStep ==
  ASSUME Fenced, HandMarks = "never", MarksInv, [Next]_vars
  PROVE  MarksInv'
  <1>1. ExclusionInv /\ ExclusionInv' /\ StageInv /\ MarksAreBound /\ AllCopiesMatch
    BY ExclusionStep DEF MarksInv, ExclusionInv
  <1>2. CASE \E r \in Run : Mark(r)
    BY <1>1, <1>2, MarkKeepsMarks DEF MarksInv
  <1>3. CASE ~\E r \in Run : Mark(r)
    <2>1. Aside
      BY <1>1, <1>3, OthersStayAside
    <2> QED BY <1>1, <2>1, AsideKeepsMarks DEF MarksInv
  <1> QED BY <1>2, <1>3

LEMMA MarksInvariant ==
  ASSUME Fenced, HandMarks = "never"
  PROVE  Spec => []MarksInv
  <1>1. Init => MarksInv
    BY ExclusionInit, MarksStart DEF MarksInv
  <1>2. MarksInv /\ [Next]_vars => MarksInv'
    BY MarksStep
  <1> QED BY <1>1, <1>2, PTL DEF Spec

\* "Completion is a consequence of evidence" (launch_checks.py mark_passed): a
\* mark that can be read beside the bindings is bound, at every moment of any
\* number of launches that are killed anywhere, also between the two writes.
THEOREM EveryMarkIsBound ==
  ASSUME Fenced, HandMarks = "never"
  PROVE  Spec => []MarksAreBound
  BY MarksInvariant, PTL DEF MarksInv

-----------------------------------------------------------------------------
(***************************************************************************)
(* Sequences of any length over any number of slices, beside any direct    *)
(* launches, killed and started again at will: COMPLETE is the truth while *)
(* nobody edits harness.json, and in the Fenced regime no slice is skipped *)
(* and none is launched twice, although the loop remembers the last only.  *)
(***************************************************************************)

\* What a launch has earned it keeps.
GrowsAll == \A q \in Run : Grows(launch'[q], launch[q])

LEMMA OneGrows ==
  ASSUME TypeOK, NEW r \in Run, NEW o \in Launch, launch' = [launch EXCEPT ![r] = o],
         Grows(o, launch[r])
  PROVE  GrowsAll
  <1>1. launch'[r] = o /\ \A q \in Run : q # r => launch'[q] = launch[q]
    BY OneMoves
  <1> QED BY <1>1 DEF GrowsAll, Grows

LEMMA LaunchesGrow ==
  ASSUME StageInv, [Next]_vars
  PROVE  GrowsAll
  <1>0. StageInv /\ TypeOK /\ \A r \in Run : StageFits(launch[r], child[r])
    BY StageFacts DEF StageInv
  <1>1. ASSUME NEW r \in Run, NEW s \in Slice, Begin(r, s) PROVE GrowsAll
    <2>1. ~launch[r].pass
      BY <1>0, <1>1 DEF Begin, At, StageFits, AfterGate, Marking
    <2>2. PICK o \in Launch : launch' = [launch EXCEPT ![r] = o] /\ o.pass = launch[r].pass
      BY <1>0, <1>1, BeginForm
    <2> QED BY <1>0, <2>1, <2>2, OneGrows DEF Grows
  <1>2. ASSUME NEW r \in Run, ReadMarks(r) PROVE GrowsAll
    <2>1. PICK o \in Launch : launch' = [launch EXCEPT ![r] = o] /\ Grows(o, launch[r])
      BY <1>0, <1>2, ReadMarksForm DEF SameEvidence, Grows
    <2> QED BY <1>0, <2>1, OneGrows
  <1>3. ASSUME NEW r \in Run, ReadSupport(r) PROVE GrowsAll
    <2>1. PICK o \in Launch : launch' = [launch EXCEPT ![r] = o] /\ Grows(o, launch[r])
      BY <1>0, <1>3, GotoForm, StopForm DEF ReadSupport, PCs, SameEvidence, Grows
    <2> QED BY <1>0, <2>1, OneGrows
  <1>4. ASSUME NEW r \in Run, ListLocks(r) PROVE GrowsAll
    <2>1. PICK o \in Launch : launch' = [launch EXCEPT ![r] = o] /\ Grows(o, launch[r])
      BY <1>0, <1>4, ListLocksForm DEF SameEvidence, Grows
    <2> QED BY <1>0, <2>1, OneGrows
  <1>5. ASSUME NEW r \in Run, NEW k \in Key, SweepLock(r, k) PROVE GrowsAll
    <2>1. PICK o \in Launch : launch' = [launch EXCEPT ![r] = o] /\ Grows(o, launch[r])
      BY <1>0, <1>5, SweepLockForm DEF SameEvidence, Grows
    <2> QED BY <1>0, <2>1, OneGrows
  <1>6. ASSUME NEW r \in Run, ReadNext(r) PROVE GrowsAll
    <2>1. PICK o \in Launch : launch' = [launch EXCEPT ![r] = o] /\ Grows(o, launch[r])
      BY <1>0, <1>6, GotoForm, StopForm DEF ReadNext, PCs, SameEvidence, Grows
    <2> QED BY <1>0, <2>1, OneGrows
  <1>7. ASSUME NEW r \in Run, ReadLocks(r) PROVE GrowsAll
    <2>1. PICK o \in Launch : launch' = [launch EXCEPT ![r] = o] /\ Grows(o, launch[r])
      BY <1>0, <1>7, GotoForm, StopForm DEF ReadLocks, PCs, SameEvidence, Grows
    <2> QED BY <1>0, <2>1, OneGrows
  <1>8. ASSUME NEW r \in Run, Claim(r) PROVE GrowsAll
    <2>1. CASE UNCHANGED launch
      BY <2>1 DEF GrowsAll, Grows
    <2>2. CASE Goto(r, "claimSlice")
      <3>1. PICK o \in Launch :
              launch' = [launch EXCEPT ![r] = o] /\ SameEvidence(o, launch[r])
        BY <1>0, <2>2, GotoForm DEF PCs
      <3> QED BY <1>0, <3>1, OneGrows DEF SameEvidence, Grows
    <2>3. CASE Stop(r)
      <3>1. PICK o \in Launch :
              launch' = [launch EXCEPT ![r] = o] /\ SameEvidence(o, launch[r])
        BY <1>0, <2>3, StopForm
      <3> QED BY <1>0, <3>1, OneGrows DEF SameEvidence, Grows
    <2> QED BY <1>8, <2>1, <2>2, <2>3 DEF Claim
  <1>9. ASSUME NEW r \in Run, ClaimSlice(r) PROVE GrowsAll
    <2>1. CASE UNCHANGED launch
      BY <2>1 DEF GrowsAll, Grows
    <2>2. CASE Goto(r, "baseline")
      <3>1. PICK o \in Launch :
              launch' = [launch EXCEPT ![r] = o] /\ SameEvidence(o, launch[r])
        BY <1>0, <2>2, GotoForm DEF PCs
      <3> QED BY <1>0, <3>1, OneGrows DEF SameEvidence, Grows
    <2>3. CASE Exit(r, FALSE)
      <3>1. PICK o \in Launch :
              launch' = [launch EXCEPT ![r] = o] /\ SameEvidence(o, launch[r])
        BY <1>0, <2>3, ExitForm
      <3> QED BY <1>0, <3>1, OneGrows DEF SameEvidence, Grows
    <2> QED BY <1>9, <2>1, <2>2, <2>3 DEF ClaimSlice
  <1>10. ASSUME NEW r \in Run, Baseline(r) PROVE GrowsAll
    <2>1. CASE Goto(r, "declare")
      <3>1. PICK o \in Launch :
              launch' = [launch EXCEPT ![r] = o] /\ SameEvidence(o, launch[r])
        BY <1>0, <2>1, GotoForm DEF PCs
      <3> QED BY <1>0, <3>1, OneGrows DEF SameEvidence, Grows
    <2>2. CASE Exit(r, FALSE)
      <3>1. PICK o \in Launch :
              launch' = [launch EXCEPT ![r] = o] /\ SameEvidence(o, launch[r])
        BY <1>0, <2>2, ExitForm
      <3> QED BY <1>0, <3>1, OneGrows DEF SameEvidence, Grows
    <2> QED BY <1>10, <2>1, <2>2 DEF Baseline
  <1>11. ASSUME NEW r \in Run, Declare(r) PROVE GrowsAll
    <2>1. PICK o \in Launch : launch' = [launch EXCEPT ![r] = o] /\ Grows(o, launch[r])
      BY <1>0, <1>11, DeclareForm DEF SameEvidence, Grows
    <2> QED BY <1>0, <2>1, OneGrows
  <1>12. ASSUME NEW r \in Run, Spawn(r) PROVE GrowsAll
    <2>1. PICK o \in Launch : launch' = [launch EXCEPT ![r] = o] /\ Grows(o, launch[r])
      BY <1>0, <1>12, GotoForm DEF Spawn, PCs, SameEvidence, Grows
    <2> QED BY <1>0, <2>1, OneGrows
  <1>13. ASSUME NEW r \in Run, Close(r) PROVE GrowsAll
    <2>1. PICK o \in Launch : launch' = [launch EXCEPT ![r] = o] /\ Grows(o, launch[r])
      BY <1>0, <1>13, CloseForm DEF Close, At, StageFits, AfterGate, Marking, Grows
    <2> QED BY <1>0, <2>1, OneGrows
  <1>14. ASSUME NEW r \in Run, Gate(r) PROVE GrowsAll
    <2>1. PICK o \in Launch : launch' = [launch EXCEPT ![r] = o] /\ Grows(o, launch[r])
      BY <1>0, <1>14, GateForm DEF SameEvidence, Grows
    <2> QED BY <1>0, <2>1, OneGrows
  <1>15. ASSUME NEW r \in Run, MarkReadMarks(r) PROVE GrowsAll
    <2>1. PICK o \in Launch : launch' = [launch EXCEPT ![r] = o] /\ Grows(o, launch[r])
      BY <1>0, <1>15, MarkReadMarksForm DEF SameEvidence, Grows
    <2> QED BY <1>0, <2>1, OneGrows
  <1>16. ASSUME NEW r \in Run, MarkReadBindings(r) PROVE GrowsAll
    <2>1. PICK o \in Launch : launch' = [launch EXCEPT ![r] = o] /\ Grows(o, launch[r])
      BY <1>0, <1>16, MarkReadBindingsForm DEF SameEvidence, Grows
    <2> QED BY <1>0, <2>1, OneGrows
  <1>17. ASSUME NEW r \in Run, TruncateBindings(r) PROVE GrowsAll
    <2>1. PICK o \in Launch : launch' = [launch EXCEPT ![r] = o] /\ Grows(o, launch[r])
      BY <1>0, <1>17, GotoForm DEF TruncateBindings, PCs, SameEvidence, Grows
    <2> QED BY <1>0, <2>1, OneGrows
  <1>18. ASSUME NEW r \in Run, WriteBindings(r) PROVE GrowsAll
    <2>1. PICK o \in Launch : launch' = [launch EXCEPT ![r] = o] /\ Grows(o, launch[r])
      BY <1>0, <1>18, GotoForm DEF WriteBindings, PCs, SameEvidence, Grows
    <2> QED BY <1>0, <2>1, OneGrows
  <1>19. ASSUME NEW r \in Run, TruncateMarks(r) PROVE GrowsAll
    <2>1. PICK o \in Launch : launch' = [launch EXCEPT ![r] = o] /\ Grows(o, launch[r])
      BY <1>0, <1>19, GotoForm DEF TruncateMarks, PCs, SameEvidence, Grows
    <2> QED BY <1>0, <2>1, OneGrows
  <1>20. ASSUME NEW r \in Run, WriteMarks(r) PROVE GrowsAll
    <2>1. PICK o \in Launch : launch' = [launch EXCEPT ![r] = o] /\ Grows(o, launch[r])
      BY <1>0, <1>20, ExitForm DEF WriteMarks, SameEvidence, Grows
    <2> QED BY <1>0, <2>1, OneGrows
  <1>21. ASSUME NEW r \in Run, FreeSlice(r) PROVE GrowsAll
    <2>1. PICK o \in Launch : launch' = [launch EXCEPT ![r] = o] /\ Grows(o, launch[r])
      BY <1>0, <1>21, FreeSliceForm DEF SameEvidence, Grows
    <2> QED BY <1>0, <2>1, OneGrows
  <1>22. ASSUME NEW r \in Run, FreeWorkspace(r) PROVE GrowsAll
    <2>1. PICK o \in Launch : launch' = [launch EXCEPT ![r] = o] /\ Grows(o, launch[r])
      BY <1>0, <1>22, FreeWorkspaceForm DEF SameEvidence, Grows
    <2> QED BY <1>0, <2>1, OneGrows
  <1>23. ASSUME NEW r \in Run, Kill(r) PROVE GrowsAll
    <2>1. PICK o \in Launch : launch' = [launch EXCEPT ![r] = o] /\ Grows(o, launch[r])
      BY <1>0, <1>23, KillForm DEF SameEvidence, Grows
    <2> QED BY <1>0, <2>1, OneGrows
  <1>24. CASE \/ PlaceHalt \/ TimePasses \/ UNCHANGED vars
          \/ (\E r \in Run : ChildEnds(r)) \/ \E s \in Slice : HandMark(s)
    BY <1>24 DEF PlaceHalt, TimePasses, ChildEnds, HandMark, launchVars, vars, GrowsAll, Grows
  <1> QED
    BY <1>1, <1>2, <1>3, <1>4, <1>5, <1>6, <1>7, <1>8, <1>9, <1>10, <1>11, <1>12, <1>13,
       <1>14, <1>15, <1>16, <1>17, <1>18, <1>19, <1>20, <1>21, <1>22, <1>23, <1>24
    DEF Next, Step, Mark, Environment

LEMMA EarnedStays ==
  ASSUME GrowsAll, NEW s \in Slice, Earned(s)
  PROVE  Earned(s)'
  <1>1. PICK r \in Run : EarnedBy(r, s)
    BY DEF Earned
  <1>2. EarnedBy(r, s)'
    BY <1>1 DEF EarnedBy, GrowsAll, Grows
  <1> QED BY <1>2 DEF Earned

-----------------------------------------------------------------------------
\* What every step of a sequence is to the launches: one of their own, or the
\* sweep of a stale lease.
Swept == UNCHANGED launchVars /\ \E k \in Key : Reclaim(k)

\* The sequence's record, field by field.
SeqShape ==
  /\ seq = [pc |-> seq.pc, todo |-> seq.todo, slice |-> seq.slice, prev |-> seq.prev,
            run |-> seq.run, launched |-> seq.launched, starts |-> seq.starts]
  /\ seq.slice \in Slice \cup {NoSlice} /\ seq.prev \in Slice \cup {NoSlice}
  /\ seq.launched \subseteq Slice
  /\ seq.pc \in {"launch", "wait", "scope"} => seq.slice \in Slice

LEMMA StepForLaunches ==
  ASSUME SeqShape, [SeqNextState]_seqVars
  PROVE  [Next]_vars \/ Swept
  <1>1. CASE UNCHANGED seqVars \/ Start \/ KillSequence
    BY <1>1 DEF seqVars, Start, KillSequence
  <1>2. CASE LauncherStep
    BY <1>2, SequenceAssumption DEF LauncherStep, Next
  <1>3. CASE SequenceStep
    <2>1. CASE SeqList \/ SeqNext \/ SpecMissing \/ SeqWait \/ ScopeCheck
      BY <2>1 DEF SeqList, SeqNext, SpecMissing, SeqWait, ScopeCheck
    <2>2. ASSUME NEW k \in Key, SeqSweep(k) PROVE [Next]_vars \/ Swept
      BY <2>2 DEF SeqSweep, Swept, vars, launchVars, promiseVars
    <2>3. ASSUME NEW r \in Run, SeqLaunch(r) PROVE [Next]_vars \/ Swept
      BY <2>3 DEF SeqLaunch, SeqShape, Next
    <2> QED BY <1>3, <2>1, <2>2, <2>3 DEF SequenceStep
  <1> QED BY <1>1, <1>2, <1>3 DEF SeqNextState

LEMMA ShapeStarts == SeqInit => SeqShape
  BY SequenceAssumption DEF SeqInit, SeqShape

LEMMA ShapeKept ==
  ASSUME SeqShape, [SeqNextState]_seqVars
  PROVE  SeqShape'
  <1>1. CASE UNCHANGED seqVars \/ LauncherStep
    BY <1>1 DEF seqVars, LauncherStep, SeqShape
  <1>2. CASE Start \/ KillSequence
    BY <1>2 DEF Start, KillSequence, SeqShape
  <1>3. CASE SeqList \/ SpecMissing \/ SeqWait \/ ScopeCheck
    BY <1>3 DEF SeqList, SpecMissing, SeqWait, ScopeCheck, SeqShape
  <1>4. CASE SeqNext
    BY <1>4 DEF SeqNext, SeqShape
  <1>5. ASSUME NEW k \in Key, SeqSweep(k) PROVE SeqShape'
    BY <1>5 DEF SeqSweep, SeqShape
  <1>6. ASSUME NEW r \in Run, SeqLaunch(r) PROVE SeqShape'
    BY <1>6 DEF SeqLaunch, SeqShape
  <1> QED BY <1>1, <1>2, <1>3, <1>4, <1>5, <1>6 DEF SeqNextState, SequenceStep

-----------------------------------------------------------------------------
\* A swept lease changes nothing that the launches' invariants speak of, but
\* the locks.
LEMMA SweptFacts ==
  ASSUME TypeOK, Swept
  PROVE  /\ UNCHANGED <<clock, alive, lease, halt, harness, completions, child, launch>>
         /\ TypeOK'
  <1>1. PICK k \in Key : Reclaim(k)
    BY DEF Swept
  <1>2. UNCHANGED <<clock, alive, lease, halt, harness, completions, child, launch>>
    BY <1>1 DEF Swept, Reclaim, launchVars
  <1>3. locks' = [locks EXCEPT ![k] = Free]
    BY <1>1 DEF Reclaim
  <1>4. TypeOK'
    BY <1>2, <1>3 DEF TypeOK, Record
  <1> QED BY <1>2, <1>4

LEMMA EvidenceSeqStep ==
  ASSUME EvidenceInv, [Next]_vars \/ Swept
  PROVE  EvidenceInv' /\ GrowsAll
  <1>0. StageInv /\ TypeOK
    BY DEF EvidenceInv, StageInv
  <1>1. CASE [Next]_vars
    BY <1>0, <1>1, EvidenceStep, LaunchesGrow
  <1>2. CASE Swept
    <2>1. UNCHANGED <<harness, completions, child, launch>> /\ TypeOK'
      BY <1>0, <1>2, SweptFacts
    <2>2. StageInv'
      BY <1>0, <2>1 DEF StageInv, StagesMatch
    <2>3. EvidenceInv'
      BY <2>1, <2>2, UnchangedEvidence
    <2> QED BY <2>1, <2>3 DEF GrowsAll, Grows
  <1> QED BY <1>1, <1>2

LEMMA OnlyNextCompletes ==
  ASSUME SeqShape, [SeqNextState]_seqVars, seq.pc # "complete", seq'.pc = "complete"
  PROVE  SeqNext /\ AllPassed
  <1>1. ~(UNCHANGED seqVars) /\ ~LauncherStep
    BY DEF seqVars, LauncherStep
  <1>2. ~Start /\ ~KillSequence
    BY DEF Start, KillSequence, SeqShape
  <1>3. ~SeqList /\ ~SpecMissing /\ ~SeqWait /\ ~ScopeCheck
    BY DEF SeqList, SpecMissing, SeqWait, ScopeCheck, SeqShape
  <1>4. ASSUME NEW k \in Key, SeqSweep(k) PROVE FALSE
    BY <1>4 DEF SeqSweep, SeqShape
  <1>5. ASSUME NEW r \in Run, SeqLaunch(r) PROVE FALSE
    BY <1>5 DEF SeqLaunch, SeqShape
  <1>6. SeqNext
    BY <1>1, <1>2, <1>3, <1>4, <1>5 DEF SeqNextState, SequenceStep
  <1> QED BY <1>6 DEF SeqNext, SeqShape

CompleteInv == EvidenceInv /\ SeqShape /\ CompleteIsEarned

\* "SEQUENCE COMPLETE" (launch_worker.sh): whatever is killed, orphaned or
\* expires, a sequence that says so has every slice earned by a run whose gate
\* passed and whose record verifies, while nobody edits harness.json.
THEOREM CompleteIsTrue ==
  ASSUME HandMarks = "never"
  PROVE  SeqSpec => []CompleteIsEarned
  <1>1. SeqInit => CompleteInv
    BY EvidenceInit, ShapeStarts DEF SeqInit, CompleteInv, CompleteIsEarned
  <1>2. CompleteInv /\ [SeqNextState]_seqVars => CompleteInv'
    <2> SUFFICES ASSUME CompleteInv, [SeqNextState]_seqVars PROVE CompleteInv'
      OBVIOUS
    <2>1. EvidenceInv' /\ GrowsAll /\ SeqShape'
      BY StepForLaunches, EvidenceSeqStep, ShapeKept DEF CompleteInv
    <2>2. \A s \in Slice : Earned(s) => Earned(s)'
      BY <2>1, EarnedStays
    <2>3. CASE seq.pc = "complete"
      BY <2>1, <2>2, <2>3 DEF CompleteInv, CompleteIsEarned
    <2>4. CASE seq.pc # "complete" /\ seq'.pc = "complete"
      <3>1. SeqNext /\ AllPassed
        BY <2>4, OnlyNextCompletes DEF CompleteInv
      <3>2. \A s \in Slice : Earned(s)
        BY <3>1, MarksComeFromRuns DEF AllPassed, CompleteInv, MarksAreEarned
      <3> QED BY <2>1, <2>2, <3>2 DEF CompleteInv, CompleteIsEarned
    <2>5. CASE seq'.pc # "complete"
      BY <2>1, <2>5 DEF CompleteInv, CompleteIsEarned
    <2> QED BY <2>3, <2>4, <2>5
  <1>3. CompleteInv => CompleteIsEarned
    BY DEF CompleteInv
  <1> QED BY <1>1, <1>2, <1>3, PTL DEF SeqSpec

-----------------------------------------------------------------------------
\* In the Fenced regime a slice once marked stays marked, through the moments
\* at which harness.json does not parse.
Kept(s) ==
  /\ harness # Torn => harness[s]
  /\ \A r \in Run : launch[r].pc = "writeMarks" => launch[r].marks[s]

LEMMA KeptByMark ==
  ASSUME MarksInv, NEW r \in Run, Mark(r), NEW s \in Slice, Kept(s)
  PROVE  Kept(s)'
  <1>0. /\ StageInv /\ TypeOK /\ CopiesFit(r, launch[r], harness, completions)
        /\ launch[r].slice \in Slice /\ launch[r].marks \in Marks \cup {Torn}
        /\ launch[r].pc \in Marking \ {"mark"} => launch[r].marks # Torn
    <2>1. StageInv /\ TypeOK /\ AllCopiesMatch
      BY DEF MarksInv, ExclusionInv, StageInv
    <2>2. launch[r].slice \in Slice /\ launch[r].marks \in Marks \cup {Torn}
      BY <2>1, LaunchFields
    <2>3. launch[r].pc \in Marking \ {"mark"} => launch[r].marks # Torn
      BY <2>1 DEF StageInv, StagesMatch
    <2> QED BY <2>1, <2>2, <2>3, FitIsMatch
  <1>1. ASSUME UNCHANGED harness, NEW o \in Launch, launch' = [launch EXCEPT ![r] = o],
               o.pc # "writeMarks"
        PROVE  Kept(s)'
    <2>1. launch'[r] = o /\ \A q \in Run : q # r => launch'[q] = launch[q]
      BY <1>0, <1>1, OneMoves
    <2> QED BY <1>1, <2>1 DEF Kept
  <1>2. CASE MarkReadMarks(r)
    <2>1. PICK o \in Launch : launch' = [launch EXCEPT ![r] = o] /\ o.pc # "writeMarks"
      BY <1>0, <1>2, MarkReadMarksForm
    <2> QED BY <1>1, <1>2, <2>1 DEF MarkReadMarks
  <1>3. CASE MarkReadBindings(r)
    <2>1. PICK o \in Launch : launch' = [launch EXCEPT ![r] = o] /\ o.pc # "writeMarks"
      BY <1>0, <1>3, MarkReadBindingsForm
    <2> QED BY <1>1, <1>3, <2>1 DEF MarkReadBindings
  <1>4. CASE TruncateBindings(r)
    <2>1. PICK o \in Launch : launch' = [launch EXCEPT ![r] = o] /\ o.pc # "writeMarks"
      BY <1>0, <1>4, GotoForm DEF TruncateBindings, PCs
    <2> QED BY <1>1, <1>4, <2>1 DEF TruncateBindings
  <1>5. CASE WriteBindings(r)
    <2>1. PICK o \in Launch : launch' = [launch EXCEPT ![r] = o] /\ o.pc # "writeMarks"
      BY <1>0, <1>5, GotoForm DEF WriteBindings, PCs
    <2> QED BY <1>1, <1>5, <2>1 DEF WriteBindings
  <1>6. CASE TruncateMarks(r)
    <2>1. harness' = Torn /\ launch[r].pc = "truncMarks"
      BY <1>6 DEF TruncateMarks, At
    <2>2. PICK o \in Launch : launch' = [launch EXCEPT ![r] = o] /\ SameCopies(o, launch[r])
      BY <1>0, <1>6, GotoForm DEF TruncateMarks, PCs
    <2>3. launch[r].marks[s]
      BY <1>0, <2>1 DEF CopiesFit, Marking, Kept
    <2>4. launch'[r] = o /\ \A q \in Run : q # r => launch'[q] = launch[q]
      BY <1>0, <2>2, OneMoves
    <2> QED BY <2>1, <2>2, <2>3, <2>4 DEF Kept, SameCopies
  <1>7. CASE WriteMarks(r)
    <2>1. /\ harness' = [launch[r].marks EXCEPT ![launch[r].slice] = TRUE]
          /\ launch[r].pc = "writeMarks"
      BY <1>7 DEF WriteMarks, At
    <2>2. PICK o \in Launch :
            launch' = [launch EXCEPT ![r] = o] /\ o.pc \in {"freeSlice", "killed"}
      BY <1>0, <1>7, ExitForm DEF WriteMarks
    <2>3. launch[r].marks \in Marks /\ launch[r].marks[s]
      BY <1>0, <2>1 DEF Kept, Marking
    <2>4. harness'[s]
      BY <2>1, <2>3 DEF Marks
    <2>5. launch'[r] = o /\ \A q \in Run : q # r => launch'[q] = launch[q]
      BY <1>0, <2>2, OneMoves
    <2> QED BY <2>2, <2>4, <2>5 DEF Kept
  <1> QED BY <1>2, <1>3, <1>4, <1>5, <1>6, <1>7 DEF Mark

LEMMA SweptKeepsMarks ==
  ASSUME Fenced, MarksInv, Swept
  PROVE  MarksInv'
  <1>0. /\ StageInv /\ TypeOK /\ LeaseTypes /\ LeaseHeld /\ HolderStands
        /\ MarksAreBound /\ AllCopiesMatch
    BY DEF MarksInv, ExclusionInv, StageInv, TypeOK, LeaseTypes
  <1>1. UNCHANGED <<clock, alive, lease, harness, completions, child, launch>> /\ TypeOK'
    BY <1>0, SweptFacts
  <1>2. StageInv'
    BY <1>0, <1>1 DEF StageInv, StagesMatch
  <1>3. LeaseHeld'
    BY <1>0, LeaseHeldKept DEF Swept
  <1>4. HolderStands'
    BY <1>0, <1>1 DEF HolderStands, Record
  <1>5. Aside
    BY <1>1 DEF Aside
  <1> QED BY <1>0, <1>2, <1>3, <1>4, <1>5, AsideKeepsMarks DEF MarksInv, ExclusionInv

LEMMA MarkedStays ==
  ASSUME Fenced, HandMarks = "never", MarksInv, [Next]_vars \/ Swept, NEW s \in Slice, Kept(s)
  PROVE  Kept(s)'
  <1>1. StageInv /\ TypeOK
    BY DEF MarksInv, ExclusionInv, StageInv
  <1>2. CASE \E r \in Run : Mark(r)
    BY <1>2, KeptByMark
  <1>3. CASE [Next]_vars /\ ~\E r \in Run : Mark(r)
    <2>1. Aside
      BY <1>1, <1>3, OthersStayAside
    <2> QED BY <2>1 DEF Aside, Kept, CopyStage
  <1>4. CASE Swept
    <2>1. UNCHANGED <<harness, launch>>
      BY <1>1, <1>4, SweptFacts
    <2> QED BY <2>1 DEF Kept
  <1> QED BY <1>2, <1>3, <1>4

-----------------------------------------------------------------------------
\* The slices an invocation has launched are no later than the last one, and
\* those before the last one are marked for good.
Behind(s) == \A t \in Slice : t < s => Kept(t)

Progress ==
  /\ seq.pc \in {"list", "sweep"} =>
       /\ seq.slice = seq.prev
       /\ seq.prev = NoSlice => seq.launched = {}
       /\ seq.prev \in Slice => /\ \A t \in seq.launched : t <= seq.prev
                                /\ Behind(seq.prev)
  /\ seq.pc = "launch" => /\ \A t \in seq.launched : t < seq.slice
                          /\ Behind(seq.slice)
  /\ seq.pc \in {"wait", "scope"} => /\ \A t \in seq.launched : t <= seq.slice
                                     /\ Behind(seq.slice)
  /\ \A t \in seq.launched \ {seq.slice} : Earned(t)

SequenceInv == EvidenceInv /\ MarksInv /\ SeqShape /\ Progress

\* The slice next names comes after everything the invocation launched.
LEMMA NextIsLater ==
  ASSUME HandMarks = "never", SequenceInv, seq.pc = "sweep", NEW s \in Slice, SeqPick(s)
  PROVE  /\ \A t \in seq.launched : t < s
         /\ \A t \in Slice : t < s => harness[t] /\ Earned(t)
  <1>1. harness # Torn /\ ~harness[s] /\ s # seq.prev /\ \A t \in Slice : t < s => harness[t]
    BY DEF SeqPick, IsNext
  <1>2. \A t \in Slice : t < s => harness[t] /\ Earned(t)
    BY <1>1, MarksComeFromRuns DEF SequenceInv, MarksAreEarned
  <1>3. Slice \subseteq Nat /\ NoSlice \notin Slice
    BY SequenceAssumption DEF Slice
  <1>4. CASE seq.prev = NoSlice
    BY <1>2, <1>4 DEF SequenceInv, Progress
  <1>5. CASE seq.prev \in Slice
    <2>1. (\A t \in seq.launched : t <= seq.prev) /\ Behind(seq.prev)
      BY <1>5 DEF SequenceInv, Progress
    <2>2. ~(s < seq.prev)
      BY <1>1, <2>1 DEF Behind, Kept
    <2>3. seq.prev < s
      <3>1. s \in Nat /\ seq.prev \in Nat /\ s # seq.prev /\ ~(s < seq.prev)
        BY <1>1, <1>3, <1>5, <2>2
      <3> QED BY <3>1
    <2>4. seq.launched \subseteq Slice
      BY DEF SequenceInv, SeqShape
    <2>5. ASSUME NEW t \in seq.launched PROVE t < s
      <3>1. t \in Nat /\ s \in Nat /\ seq.prev \in Nat /\ t <= seq.prev /\ seq.prev < s
        BY <1>3, <1>5, <2>1, <2>3, <2>4
      <3> QED BY <3>1
    <2> QED BY <1>2, <2>5
  <1> QED BY <1>4, <1>5 DEF SequenceInv, SeqShape

LEMMA ProgressKept ==
  ASSUME Fenced, HandMarks = "never", SequenceInv, [SeqNextState]_seqVars
  PROVE  Progress'
  <1>0. /\ SeqShape /\ Progress /\ \A t \in Slice : Earned(t) => Earned(t)'
        /\ \A t \in Slice : Kept(t) => Kept(t)'
        /\ Slice \subseteq Nat /\ NoSlice \notin Slice
    <2>1. [Next]_vars \/ Swept
      BY StepForLaunches DEF SequenceInv
    <2>2. GrowsAll
      BY <2>1, EvidenceSeqStep DEF SequenceInv
    <2>3. \A t \in Slice : Earned(t) => Earned(t)'
      BY <2>2, EarnedStays
    <2>4. \A t \in Slice : Kept(t) => Kept(t)'
      BY <2>1, MarkedStays DEF SequenceInv
    <2>5. Slice \subseteq Nat /\ NoSlice \notin Slice
      BY SequenceAssumption DEF Slice
    <2> QED BY <2>3, <2>4, <2>5 DEF SequenceInv
  <1>1. \A s \in Slice : Behind(s) => Behind(s)'
    BY <1>0 DEF Behind
  <1>2. CASE UNCHANGED seqVars \/ LauncherStep
    <2>1. seq' = seq
      BY <1>2 DEF seqVars, LauncherStep
    <2> QED BY <1>0, <1>1, <2>1 DEF Progress, SeqShape
  <1>3. CASE Start
    <2>1. seq'.slice = NoSlice /\ seq'.prev = NoSlice /\ seq'.launched = {}
          /\ seq'.pc \in {"stopped", "list"}
      BY <1>3 DEF Start
    <2> QED BY <1>0, <2>1 DEF Progress
  <1>4. CASE KillSequence \/ SpecMissing
    <2>1. /\ seq'.slice = seq.slice /\ seq'.prev = seq.prev /\ seq'.launched = seq.launched
          /\ seq'.pc \in {"killed", "stopped"}
      BY <1>0, <1>4 DEF KillSequence, SpecMissing, SeqShape
    <2> QED BY <1>0, <2>1 DEF Progress, SeqShape
  <1>5. CASE SeqList \/ \E k \in Key : SeqSweep(k)
    <2>1. /\ seq'.slice = seq.slice /\ seq'.prev = seq.prev /\ seq'.launched = seq.launched
          /\ seq'.pc = "sweep" /\ seq.pc \in {"list", "sweep"}
      BY <1>0, <1>5 DEF SeqList, SeqSweep, SeqShape
    <2> QED BY <1>0, <1>1, <2>1 DEF Progress, SeqShape
  <1>6. CASE SeqWait
    <2>1. /\ seq'.slice = seq.slice /\ seq'.prev = seq.prev /\ seq'.launched = seq.launched
          /\ seq'.pc \in {"scope", "stopped"} /\ seq.pc = "wait"
      BY <1>0, <1>6 DEF SeqWait, SeqShape
    <2> QED BY <1>0, <1>1, <2>1 DEF Progress, SeqShape
  <1>7. CASE ScopeCheck
    <2>1. /\ seq'.slice = seq.slice /\ seq'.launched = seq.launched /\ seq.pc = "scope"
          /\ \/ seq'.pc = "list" /\ seq'.prev = seq.slice
             \/ seq'.pc = "stopped"
      BY <1>0, <1>7 DEF ScopeCheck, SeqShape
    <2> QED BY <1>0, <1>1, <2>1 DEF Progress, SeqShape
  <1>8. ASSUME NEW r \in Run, SeqLaunch(r) PROVE Progress'
    <2>1. /\ seq'.slice = seq.slice /\ seq'.launched = seq.launched \cup {seq.slice}
          /\ seq'.pc = "wait" /\ seq.pc = "launch"
      BY <1>0, <1>8 DEF SeqLaunch, SeqShape
    <2> QED BY <1>0, <1>1, <2>1 DEF Progress, SeqShape
  <1>9. CASE SeqNext
    <2>1. seq.pc = "sweep" /\ UNCHANGED vars
      BY <1>9 DEF SeqNext
    <2>2. CASE seq'.pc # "launch"
      <3>1. /\ seq'.slice = seq.slice /\ seq'.launched = seq.launched
            /\ seq'.pc \in {"complete", "stopped"}
        BY <1>0, <1>9, <2>2 DEF SeqNext, SeqShape
      <3> QED BY <1>0, <3>1 DEF Progress, SeqShape
    <2>3. CASE seq'.pc = "launch"
      <3>1. PICK s \in Slice : SeqPick(s) /\ seq' = [seq EXCEPT !.pc = "launch", !.slice = s]
        BY <1>0, <1>9, <2>3 DEF SeqNext, SeqShape
      <3>2. seq'.slice = s /\ seq'.launched = seq.launched /\ seq'.pc = "launch"
        BY <1>0, <3>1 DEF SeqShape
      <3>3. /\ \A t \in seq.launched : t < s
            /\ \A t \in Slice : t < s => harness[t] /\ Earned(t)
        BY <2>1, <3>1, NextIsLater
      <3>4. harness # Torn
        BY <3>1 DEF SeqPick
      <3>5. \A r \in Run : launch[r].pc # "writeMarks"
        BY <3>4, FitIsMatch DEF SequenceInv, MarksInv, CopiesFit
      <3>6. Behind(s)
        BY <3>3, <3>5 DEF Behind, Kept
      <3> QED BY <1>0, <1>1, <3>2, <3>3, <3>6 DEF Progress, SeqShape
    <2> QED BY <2>2, <2>3
  <1> QED BY <1>2, <1>3, <1>4, <1>5, <1>6, <1>7, <1>8, <1>9 DEF SeqNextState, SequenceStep

LEMMA SequenceInvariant ==
  ASSUME Fenced, HandMarks = "never"
  PROVE  SeqSpec => []SequenceInv
  <1>1. SeqInit => SequenceInv
    <2> SUFFICES ASSUME SeqInit PROVE SequenceInv
      OBVIOUS
    <2>1. Progress
      BY DEF SeqInit, Progress
    <2>2. EvidenceInv /\ MarksInv /\ SeqShape
      BY EvidenceInit, ExclusionInit, MarksStart, ShapeStarts DEF SeqInit, MarksInv
    <2> QED BY <2>1, <2>2 DEF SequenceInv
  <1>2. SequenceInv /\ [SeqNextState]_seqVars => SequenceInv'
    <2> SUFFICES ASSUME SequenceInv, [SeqNextState]_seqVars PROVE SequenceInv'
      OBVIOUS
    <2>1. [Next]_vars \/ Swept
      BY StepForLaunches DEF SequenceInv
    <2>2. EvidenceInv' /\ SeqShape'
      BY <2>1, EvidenceSeqStep, ShapeKept DEF SequenceInv
    <2>3. MarksInv'
      BY <2>1, MarksStep, SweptKeepsMarks DEF SequenceInv
    <2> QED BY <2>2, <2>3, ProgressKept DEF SequenceInv
  <1> QED BY <1>1, <1>2, PTL DEF SeqSpec

\* "A failed slice is never skipped": every slice an invocation has launched
\* and left behind was earned, for any number of slices, starts and kills.
THEOREM NoSliceIsSkipped ==
  ASSUME Fenced, HandMarks = "never"
  PROVE  SeqSpec => []NeverSkips
  <1>1. SequenceInv => NeverSkips
    BY DEF SequenceInv, Progress, NeverSkips
  <1> QED BY <1>1, SequenceInvariant, PTL

\* "A sequence never spins on one slice": it launches none a second time, and
\* its memory of one slice is enough for that, since marks stay.
THEOREM NoSliceIsRelaunched ==
  ASSUME Fenced, HandMarks = "never"
  PROVE  SeqSpec => NeverSpins
  <1>1. SequenceInv => (seq.pc = "launch" /\ seq'.pc = "wait" => seq.slice \notin seq.launched)
    <2> SUFFICES ASSUME SequenceInv, seq.pc = "launch", seq.slice \in seq.launched PROVE FALSE
      OBVIOUS
    <2>1. seq.slice < seq.slice /\ seq.slice \in Slice
      BY DEF SequenceInv, Progress, SeqShape
    <2> QED BY <2>1 DEF Slice
  <1> QED BY <1>1, SequenceInvariant, PTL DEF NeverSpins, SeqSpec
=============================================================================
