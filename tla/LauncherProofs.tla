--------------------------- MODULE LauncherProofs ---------------------------
(***************************************************************************)
(* Proofs about Launcher, for any number of launches and slices.  Each     *)
(* action is first put in one form: it replaces the record of one launch   *)
(* by a record o, whose fields the "Form" lemmas list.  Each invariant     *)
(* then needs to be shown of o alone (the "Kept" lemmas).                  *)
(***************************************************************************)
EXTENDS Launcher, TLAPS

PCs == {"idle", "validate", "support", "list", "sweep", "locks", "claim", "claimSlice",
        "baseline", "freeSlice", "freeWorkspace", "ended", "killed",
        "declare", "spawn", "wait", "gate", "mark", "readBindings", "truncBindings",
        "writeBindings", "truncMarks", "writeMarks"}

LeaseTypes ==
  /\ clock \in 0 .. MaxClock
  /\ alive \in [Run -> BOOLEAN]
  /\ locks \in [Key -> Record \cup {Free}]
  /\ lease \in [Run -> [Key -> Record \cup {Untried, Done}]]

SameEvidence(o, l) == o.slice = l.slice /\ o.conf = l.conf /\ o.pass = l.pass
SameCopies(o, l) == o.marks = l.marks /\ o.bindings = l.bindings
NoCopies(o) == o.marks = Torn /\ o.bindings = Torn

\* A record of TypeOK, field by field.
LEMMA LaunchFields ==
  ASSUME TypeOK, NEW r \in Run
  PROVE  /\ launch \in [Run -> Launch] /\ launch[r] \in Launch
         /\ launch[r].pc \in PCs /\ launch[r].slice \in Slice /\ launch[r].slice \in Key
         /\ launch[r].marks \in Marks \cup {Torn} /\ launch[r].bindings \in Bindings \cup {Torn}
         /\ launch[r].todo \in SUBSET Key
         /\ launch[r].pass \in BOOLEAN /\ launch[r].conf \in BOOLEAN
         /\ launch[r].anchored \in BOOLEAN /\ launch[r].ok \in BOOLEAN
  BY LauncherAssumption DEF TypeOK, Launch, PCs, Measuring, Marking

LEMMA OneMoves ==
  ASSUME TypeOK, NEW r \in Run, NEW o \in Launch, launch' = [launch EXCEPT ![r] = o]
  PROVE  launch' \in [Run -> Launch] /\ launch'[r] = o
         /\ \A q \in Run : q # r => launch'[q] = launch[q]
  BY DEF TypeOK

\* A step that moves a launch on and writes nothing else in its record.
LEMMA GotoForm ==
  ASSUME TypeOK, NEW r \in Run, NEW pc \in PCs, Goto(r, pc)
  PROVE  \E o \in Launch : /\ launch' = [launch EXCEPT ![r] = o] /\ o.pc = pc
                           /\ SameEvidence(o, launch[r]) /\ SameCopies(o, launch[r])
  <1> DEFINE o == [launch[r] EXCEPT !.pc = pc]
  <1>1. launch[r] \in Launch /\ launch \in [Run -> Launch]
    BY LaunchFields
  <1>2. o \in Launch
    BY <1>1 DEF Launch, PCs, Measuring, Marking
  <1>3. launch' = [launch EXCEPT ![r] = o]
    BY <1>1 DEF Goto
  <1>4. o.pc = pc /\ SameEvidence(o, launch[r]) /\ SameCopies(o, launch[r])
    BY <1>1 DEF SameEvidence, SameCopies, Launch
  <1> QED BY <1>2, <1>3, <1>4

LEMMA StopForm ==
  ASSUME TypeOK, NEW r \in Run, Stop(r)
  PROVE  \E o \in Launch : /\ launch' = [launch EXCEPT ![r] = o] /\ o.pc = "ended"
                           /\ SameEvidence(o, launch[r]) /\ SameCopies(o, launch[r])
  BY GotoForm DEF Stop, PCs

LEMMA ExitForm ==
  ASSUME TypeOK, NEW r \in Run, NEW ok \in BOOLEAN, Exit(r, ok)
  PROVE  \E o \in Launch : /\ launch' = [launch EXCEPT ![r] = o]
                           /\ o.pc = (IF alive[r] THEN "freeSlice" ELSE "killed")
                           /\ SameEvidence(o, launch[r]) /\ NoCopies(o)
  <1> DEFINE pc == IF alive[r] THEN "freeSlice" ELSE "killed"
             o == [launch[r] EXCEPT !.pc = pc, !.ok = ok, !.marks = Torn, !.bindings = Torn]
  <1>1. launch[r] \in Launch /\ launch \in [Run -> Launch]
    BY LaunchFields
  <1>2. o \in Launch
    BY <1>1 DEF Launch
  <1>3. launch' = [launch EXCEPT ![r] = o]
    BY <1>1 DEF Exit
  <1>4. o.pc = pc /\ SameEvidence(o, launch[r]) /\ NoCopies(o)
    BY <1>1 DEF SameEvidence, NoCopies, Launch
  <1> QED BY <1>2, <1>3, <1>4

\* The lease operations keep the leases well typed.
LEMMA LeaseTyped ==
  ASSUME LeaseTypes,
         \/ UNCHANGED promiseVars
         \/ \E r \in Run, k \in Key : Grant(r, k) \/ Refuse(r, k) \/ GiveBack(r, k)
         \/ \E k \in Key : Reclaim(k)
         \/ \E r \in Run : Perish(r)
         \/ Pass
  PROVE  LeaseTypes'
  <1> USE LeaseAssumption DEF LeaseTypes, Record
  <1>1. CASE UNCHANGED promiseVars
    BY <1>1 DEF promiseVars
  <1>2. ASSUME NEW r \in Run, NEW k \in Key, Grant(r, k) PROVE LeaseTypes'
    BY <1>2 DEF Grant
  <1>3. ASSUME NEW r \in Run, NEW k \in Key, Refuse(r, k) PROVE LeaseTypes'
    BY <1>3 DEF Refuse
  <1>4. ASSUME NEW r \in Run, NEW k \in Key, GiveBack(r, k) PROVE LeaseTypes'
    BY <1>4 DEF GiveBack
  <1>5. ASSUME NEW k \in Key, Reclaim(k) PROVE LeaseTypes'
    BY <1>5 DEF Reclaim
  <1>6. ASSUME NEW r \in Run, Perish(r) PROVE LeaseTypes'
    BY <1>6 DEF Perish
  <1>7. CASE Pass
    BY <1>7 DEF Pass
  <1> QED BY <1>1, <1>2, <1>3, <1>4, <1>5, <1>6, <1>7

-----------------------------------------------------------------------------
\* The actions that write more of the record than its pc.
LEMMA BeginForm ==
  ASSUME StageInv, NEW r \in Run, NEW s \in Slice, Begin(r, s)
  PROVE  \E o \in Launch : /\ launch' = [launch EXCEPT ![r] = o]
                           /\ o.pc \in {"ended", "validate"} /\ o.slice = s
                           /\ o.conf = launch[r].conf /\ o.pass = launch[r].pass
                           /\ SameCopies(o, launch[r])
  <1> DEFINE o == [launch[r] EXCEPT !.slice = s, !.pc = IF halt THEN "ended" ELSE "validate"]
  <1>1. launch[r] \in Launch /\ launch \in [Run -> Launch]
    BY LaunchFields DEF StageInv
  <1>2. o \in Launch
    BY <1>1 DEF Launch
  <1>3. launch' = [launch EXCEPT ![r] = o]
    BY <1>1 DEF Begin
  <1>4. /\ o.pc \in {"ended", "validate"} /\ o.slice = s
        /\ o.conf = launch[r].conf /\ o.pass = launch[r].pass /\ SameCopies(o, launch[r])
    BY <1>1 DEF SameCopies, Launch
  <1> QED BY <1>2, <1>3, <1>4

LEMMA ReadMarksForm ==
  ASSUME StageInv, NEW r \in Run, ReadMarks(r)
  PROVE  \E o \in Launch :
           /\ launch' = [launch EXCEPT ![r] = o] /\ SameEvidence(o, launch[r])
           /\ o.bindings = launch[r].bindings
           /\ \/ o.pc = "ended" /\ o.marks = launch[r].marks
              \/ /\ o.pc \in {"support", "list"} /\ o.marks = harness /\ harness # Torn
                 /\ o.pc = "list" => \A s \in Slice : ~harness[s]
  <1>1. launch[r] \in Launch /\ launch \in [Run -> Launch] /\ TypeOK
    BY LaunchFields DEF StageInv
  <1>2. CASE harness = Torn
    BY <1>1, <1>2, StopForm DEF ReadMarks, SameCopies
  <1>3. CASE harness # Torn
    <2> DEFINE pc == IF \E s \in Slice : harness[s] THEN "support" ELSE "list"
               o == [launch[r] EXCEPT !.marks = harness, !.pc = pc]
    <2>1. harness \in Marks
      BY <1>1, <1>3 DEF TypeOK
    <2>2. o \in Launch
      BY <1>1, <2>1 DEF Launch
    <2>3. launch' = [launch EXCEPT ![r] = o]
      BY <1>1, <1>3 DEF ReadMarks
    <2>4. /\ o.pc \in {"support", "list"} /\ o.marks = harness
          /\ o.pc = "list" => \A s \in Slice : ~harness[s]
          /\ SameEvidence(o, launch[r]) /\ o.bindings = launch[r].bindings
      BY <1>1 DEF SameEvidence, Launch
    <2> HIDE DEF o
    <2> QED BY <1>3, <2>2, <2>3, <2>4
  <1> QED BY <1>2, <1>3

LEMMA ListLocksForm ==
  ASSUME StageInv, NEW r \in Run, ListLocks(r)
  PROVE  \E o \in Launch :
           /\ launch' = [launch EXCEPT ![r] = o] /\ SameEvidence(o, launch[r])
           /\ o.bindings = launch[r].bindings /\ o.marks = Torn /\ o.pc = "sweep"
  <1> DEFINE todo == {k \in Key : locks[k] # Free}
             o == [launch[r] EXCEPT !.pc = "sweep", !.marks = Torn, !.todo = todo]
  <1>1. launch[r] \in Launch /\ launch \in [Run -> Launch]
    BY LaunchFields DEF StageInv
  <1>2. o \in Launch
    <2>1. todo \in SUBSET Key
      OBVIOUS
    <2> QED BY <1>1, <2>1 DEF Launch
  <1>3. launch' = [launch EXCEPT ![r] = o]
    BY <1>1 DEF ListLocks
  <1>4. SameEvidence(o, launch[r]) /\ o.bindings = launch[r].bindings /\ o.marks = Torn /\ o.pc = "sweep"
    BY <1>1 DEF SameEvidence, Launch
  <1> QED BY <1>2, <1>3, <1>4

LEMMA SweepLockForm ==
  ASSUME StageInv, NEW r \in Run, NEW k \in Key, SweepLock(r, k)
  PROVE  \E o \in Launch : /\ launch' = [launch EXCEPT ![r] = o] /\ o.pc = "sweep"
                           /\ SameEvidence(o, launch[r]) /\ SameCopies(o, launch[r])
  <1> DEFINE o == [launch[r] EXCEPT !.todo = launch[r].todo \ {k}]
  <1>1. launch[r] \in Launch /\ launch \in [Run -> Launch] /\ launch[r].todo \in SUBSET Key
    BY LaunchFields DEF StageInv
  <1>2. o \in Launch
    BY <1>1 DEF Launch
  <1>3. launch' = [launch EXCEPT ![r] = o]
    BY <1>1 DEF SweepLock
  <1>4. o.pc = "sweep" /\ SameEvidence(o, launch[r]) /\ SameCopies(o, launch[r])
    BY <1>1 DEF SameEvidence, SameCopies, Launch, SweepLock, At
  <1> QED BY <1>2, <1>3, <1>4

LEMMA DeclareForm ==
  ASSUME StageInv, NEW r \in Run, Declare(r)
  PROVE  \E o \in Launch :
           /\ launch' = [launch EXCEPT ![r] = o] /\ SameEvidence(o, launch[r])
           /\ \/ o.pc = "spawn" /\ SameCopies(o, launch[r])
              \/ o.pc = "freeSlice" /\ NoCopies(o)
  <1>1. launch[r] \in Launch /\ launch \in [Run -> Launch] /\ TypeOK /\ alive[r]
    BY LaunchFields DEF StageInv, Declare
  <1>2. CASE Exit(r, FALSE)
    BY <1>1, <1>2, ExitForm
  <1>3. ASSUME NEW anchored \in BOOLEAN,
               launch' = [launch EXCEPT ![r].pc = "spawn", ![r].anchored = anchored]
        PROVE  \E o \in Launch : /\ launch' = [launch EXCEPT ![r] = o] /\ SameEvidence(o, launch[r])
                                 /\ o.pc = "spawn" /\ SameCopies(o, launch[r])
    <2> DEFINE o == [launch[r] EXCEPT !.pc = "spawn", !.anchored = anchored]
    <2>1. o \in Launch
      BY <1>1 DEF Launch, Measuring
    <2>2. launch' = [launch EXCEPT ![r] = o]
      BY <1>1, <1>3
    <2>3. o.pc = "spawn" /\ SameEvidence(o, launch[r]) /\ SameCopies(o, launch[r])
      BY <1>1 DEF SameEvidence, SameCopies, Launch
    <2> QED BY <2>1, <2>2, <2>3
  <1> QED BY <1>2, <1>3 DEF Declare

LEMMA CloseForm ==
  ASSUME StageInv, NEW r \in Run, Close(r)
  PROVE  \E o \in Launch :
           /\ launch' = [launch EXCEPT ![r] = o] /\ o.pc = "gate" /\ o.slice = launch[r].slice
           /\ o.pass = launch[r].pass /\ SameCopies(o, launch[r])
  <1>1. launch[r] \in Launch /\ launch \in [Run -> Launch] /\ launch[r].anchored \in BOOLEAN
    BY LaunchFields DEF StageInv
  <1>2. PICK conf \in {FALSE, launch[r].anchored} :
          launch' = [launch EXCEPT ![r].pc = "gate", ![r].conf = conf]
    BY DEF Close
  <1> DEFINE o == [launch[r] EXCEPT !.pc = "gate", !.conf = conf]
  <1>3. o \in Launch
    BY <1>1 DEF Launch, Measuring
  <1>4. launch' = [launch EXCEPT ![r] = o]
    BY <1>1, <1>2
  <1>5. o.pc = "gate" /\ o.slice = launch[r].slice /\ o.pass = launch[r].pass /\ SameCopies(o, launch[r])
    BY <1>1 DEF SameCopies, Launch
  <1> QED BY <1>3, <1>4, <1>5

LEMMA GateForm ==
  ASSUME StageInv, NEW r \in Run, Gate(r)
  PROVE  \E o \in Launch :
           /\ launch' = [launch EXCEPT ![r] = o]
           /\ o.slice = launch[r].slice /\ o.conf = launch[r].conf
           /\ \/ o.pc = "freeSlice" /\ o.pass = launch[r].pass /\ NoCopies(o)
              \/ o.pc = "mark" /\ o.pass = TRUE /\ o.conf = TRUE /\ SameCopies(o, launch[r])
              \/ o.pc = "freeSlice" /\ o.pass = TRUE /\ SameCopies(o, launch[r])
  <1>1. launch[r] \in Launch /\ launch \in [Run -> Launch] /\ TypeOK /\ alive[r]
        /\ launch[r].conf \in BOOLEAN
    BY LaunchFields DEF StageInv, Gate
  <1>2. CASE Exit(r, FALSE)
    BY <1>1, <1>2, ExitForm DEF SameEvidence
  <1>3. CASE launch' = [launch EXCEPT ![r].pass = TRUE, ![r].ok = TRUE,
                         ![r].pc = IF launch[r].conf THEN "mark" ELSE "freeSlice"]
    <2> DEFINE pc == IF launch[r].conf THEN "mark" ELSE "freeSlice"
               o == [launch[r] EXCEPT !.pass = TRUE, !.ok = TRUE, !.pc = pc]
    <2>1. o \in Launch
      BY <1>1 DEF Launch, Marking
    <2>2. launch' = [launch EXCEPT ![r] = o]
      BY <1>1, <1>3
    <2>3. o.pc = pc /\ o.pass = TRUE /\ o.slice = launch[r].slice /\ o.conf = launch[r].conf
          /\ SameCopies(o, launch[r])
      BY <1>1 DEF SameCopies, Launch
    <2>4. CASE launch[r].conf = TRUE
      BY <2>1, <2>2, <2>3, <2>4
    <2>5. CASE launch[r].conf = FALSE
      BY <2>1, <2>2, <2>3, <2>5
    <2> QED BY <1>1, <2>4, <2>5
  <1> QED BY <1>2, <1>3 DEF Gate

LEMMA MarkReadMarksForm ==
  ASSUME StageInv, NEW r \in Run, MarkReadMarks(r)
  PROVE  \E o \in Launch :
           /\ launch' = [launch EXCEPT ![r] = o] /\ SameEvidence(o, launch[r])
           /\ \/ /\ o.pc = "readBindings" /\ o.marks = harness /\ harness # Torn
                 /\ o.bindings = launch[r].bindings
              \/ o.pc = (IF alive[r] THEN "freeSlice" ELSE "killed") /\ NoCopies(o)
  <1>1. launch[r] \in Launch /\ launch \in [Run -> Launch] /\ TypeOK
    BY LaunchFields DEF StageInv
  <1>2. CASE Exit(r, TRUE)
    BY <1>1, <1>2, ExitForm
  <1>3. CASE harness # Torn /\ launch' = [launch EXCEPT ![r].marks = harness, ![r].pc = "readBindings"]
    <2> DEFINE o == [launch[r] EXCEPT !.marks = harness, !.pc = "readBindings"]
    <2>1. harness \in Marks
      BY <1>1, <1>3 DEF TypeOK
    <2>2. o \in Launch
      BY <1>1, <2>1 DEF Launch, Marking
    <2>3. launch' = [launch EXCEPT ![r] = o]
      BY <1>1, <1>3
    <2>4. o.pc = "readBindings" /\ o.marks = harness /\ o.bindings = launch[r].bindings
          /\ SameEvidence(o, launch[r])
      BY <1>1 DEF SameEvidence, Launch
    <2> QED BY <1>3, <2>2, <2>3, <2>4
  <1> QED BY <1>2, <1>3 DEF MarkReadMarks

LEMMA MarkReadBindingsForm ==
  ASSUME StageInv, NEW r \in Run, MarkReadBindings(r)
  PROVE  \E o \in Launch :
           /\ launch' = [launch EXCEPT ![r] = o] /\ SameEvidence(o, launch[r])
           /\ \/ /\ o.pc = "truncBindings" /\ o.marks = launch[r].marks
                 /\ completions # Torn /\ completions \in Bindings
                 /\ o.bindings = [completions EXCEPT ![launch[r].slice] = r]
              \/ o.pc = (IF alive[r] THEN "freeSlice" ELSE "killed") /\ NoCopies(o)
  <1>1. launch[r] \in Launch /\ launch \in [Run -> Launch] /\ TypeOK /\ launch[r].slice \in Slice
    BY LaunchFields DEF StageInv
  <1>2. CASE Exit(r, TRUE)
    BY <1>1, <1>2, ExitForm
  <1>3. CASE /\ completions # Torn
             /\ launch' = [launch EXCEPT ![r].pc = "truncBindings",
                             ![r].bindings = [completions EXCEPT ![launch[r].slice] = r]]
    <2> DEFINE b == [completions EXCEPT ![launch[r].slice] = r]
               o == [launch[r] EXCEPT !.pc = "truncBindings", !.bindings = b]
    <2>1. completions \in Bindings /\ b \in Bindings
      BY <1>1, <1>3 DEF TypeOK, Bindings
    <2>2. o \in Launch
      BY <1>1, <2>1 DEF Launch, Marking
    <2>3. launch' = [launch EXCEPT ![r] = o]
      BY <1>1, <1>3
    <2>4. o.pc = "truncBindings" /\ o.marks = launch[r].marks /\ o.bindings = b
          /\ SameEvidence(o, launch[r])
      BY <1>1 DEF SameEvidence, Launch
    <2> QED BY <1>3, <2>1, <2>2, <2>3, <2>4
  <1> QED BY <1>2, <1>3 DEF MarkReadBindings

LEMMA KillForm ==
  ASSUME StageInv, NEW r \in Run, Kill(r)
  PROVE  \E o \in Launch :
           /\ launch' = [launch EXCEPT ![r] = o] /\ SameEvidence(o, launch[r])
           /\ launch[r].pc \notin {"idle", "ended", "killed"}
           /\ \/ /\ o = launch[r] /\ Orphans /\ launch[r].pc \in Marking
              \/ o.pc = "killed" /\ NoCopies(o)
           /\ \/ child' = child /\ (Orphans \/ child[r] # "running")
              \/ child[r] = "running" /\ child' = [child EXCEPT ![r] = "failed"]
  <1>1. launch[r] \in Launch /\ launch \in [Run -> Launch]
    BY LaunchFields DEF StageInv
  <1> DEFINE o == [launch[r] EXCEPT !.pc = "killed", !.todo = {}, !.marks = Torn, !.bindings = Torn]
  <1>2. o \in Launch
    BY <1>1 DEF Launch
  <1>3. o.pc = "killed" /\ SameEvidence(o, launch[r]) /\ NoCopies(o)
    BY <1>1 DEF SameEvidence, NoCopies, Launch
  <1>4. launch = [launch EXCEPT ![r] = launch[r]] /\ SameEvidence(launch[r], launch[r])
    BY <1>1 DEF SameEvidence
  <1>a. PICK orphan \in {FALSE, Orphans} :
          /\ launch' = IF orphan /\ launch[r].pc \in Marking THEN launch
                         ELSE [launch EXCEPT ![r].pc = "killed", ![r].todo = {},
                                 ![r].marks = Torn, ![r].bindings = Torn]
          /\ child' = IF ~orphan /\ child[r] = "running"
                        THEN [child EXCEPT ![r] = "failed"] ELSE child
    BY DEF Kill
  <1>b. orphan = FALSE \/ (orphan = TRUE /\ Orphans)
    BY LauncherAssumption
  <1>c. [launch EXCEPT ![r].pc = "killed", ![r].todo = {}, ![r].marks = Torn, ![r].bindings = Torn]
          = [launch EXCEPT ![r] = o]
    BY <1>1
  <1> HIDE DEF o
  <1>5. launch' = [launch EXCEPT ![r] = o] \/ (launch' = launch /\ Orphans /\ launch[r].pc \in Marking)
    <2>1. CASE orphan = FALSE
      BY <1>a, <1>c, <2>1
    <2>2. CASE orphan = TRUE /\ Orphans
      BY <1>a, <1>c, <2>2
    <2> QED BY <1>b, <2>1, <2>2
  <1>6. /\ launch[r].pc \notin {"idle", "ended", "killed"}
        /\ \/ child' = child /\ (Orphans \/ child[r] # "running")
           \/ child[r] = "running" /\ child' = [child EXCEPT ![r] = "failed"]
    <2>1. CASE orphan = FALSE
      BY <1>a, <2>1 DEF Kill
    <2>2. CASE orphan = TRUE /\ Orphans
      BY <1>a, <2>2 DEF Kill
    <2> QED BY <1>b, <2>1, <2>2
  <1>7. CASE launch' = [launch EXCEPT ![r] = o]
    BY <1>2, <1>3, <1>6, <1>7
  <1>8. CASE launch' = launch /\ Orphans /\ launch[r].pc \in Marking
    BY <1>1, <1>4, <1>6, <1>8
  <1> QED BY <1>5, <1>7, <1>8

\* The trap, at the release of the slice's lease and of the workspace's.
LEMMA FreeSliceForm ==
  ASSUME StageInv, NEW r \in Run, FreeSlice(r)
  PROVE  \E o \in Launch :
           /\ launch' = [launch EXCEPT ![r] = o]
           /\ SameEvidence(o, launch[r]) /\ SameCopies(o, launch[r])
           /\ \/ /\ o.pc = "freeWorkspace"
                 /\ ~Usurped(r, launch[r].slice) /\ LetGo(r, launch[r].slice)
              \/ o.pc = "ended" /\ Usurped(r, launch[r].slice) /\ Perish(r)
  <1>1. launch[r] \in Launch /\ launch \in [Run -> Launch] /\ TypeOK
    BY LaunchFields DEF StageInv
  <1>2. CASE Usurped(r, launch[r].slice)
    <2> DEFINE o == [launch[r] EXCEPT !.pc = "ended", !.ok = FALSE]
    <2>1. o \in Launch
      BY <1>1 DEF Launch
    <2>2. launch' = [launch EXCEPT ![r] = o] /\ Perish(r)
      BY <1>1, <1>2 DEF FreeSlice
    <2>3. o.pc = "ended" /\ SameEvidence(o, launch[r]) /\ SameCopies(o, launch[r])
      BY <1>1 DEF SameEvidence, SameCopies, Launch
    <2> HIDE DEF o
    <2> QED BY <1>2, <2>1, <2>2, <2>3
  <1>3. CASE ~Usurped(r, launch[r].slice)
    <2>1. LetGo(r, launch[r].slice) /\ Goto(r, "freeWorkspace")
      BY <1>3 DEF FreeSlice
    <2> QED BY <1>1, <1>3, <2>1, GotoForm DEF PCs
  <1> QED BY <1>2, <1>3

LEMMA FreeWorkspaceForm ==
  ASSUME StageInv, NEW r \in Run, FreeWorkspace(r)
  PROVE  \E o \in Launch : /\ launch' = [launch EXCEPT ![r] = o] /\ o.pc = "ended"
                           /\ SameEvidence(o, launch[r]) /\ SameCopies(o, launch[r])
  <1>1. launch[r] \in Launch /\ launch \in [Run -> Launch] /\ launch[r].ok \in BOOLEAN
    BY LaunchFields DEF StageInv
  <1>2. PICK ok \in BOOLEAN : ok = (launch[r].ok /\ ~Usurped(r, Workspace))
    BY <1>1
  <1> DEFINE o == [launch[r] EXCEPT !.pc = "ended", !.ok = ok]
  <1>3. o \in Launch
    BY <1>1 DEF Launch
  <1>4. launch' = [launch EXCEPT ![r] = o]
    BY <1>1, <1>2 DEF FreeWorkspace
  <1>5. o.pc = "ended" /\ SameEvidence(o, launch[r]) /\ SameCopies(o, launch[r])
    BY <1>1 DEF SameEvidence, SameCopies, Launch
  <1> HIDE DEF o
  <1> QED BY <1>3, <1>4, <1>5

-----------------------------------------------------------------------------
\* StagesMatch for one launch: its record l and its executor c.
StageFits(l, c) ==
  /\ l.pc \in Marking => l.pass /\ l.conf
  /\ l.pass => l.pc \in AfterGate
  /\ l.pc \in (Marking \ {"mark"}) \cup {"support"} => l.marks # Torn
  /\ l.pc \in Marking \ {"mark", "readBindings"} => l.bindings # Torn
  /\ c # "none" => l.pc \in {"wait", "gate"} \cup AfterGate

LEMMA StageFacts ==
  ASSUME StageInv, NEW r \in Run
  PROVE  StageFits(launch[r], child[r]) /\ TypeOK /\ LeaseTypes /\ launch[r].pc \in PCs
  BY LaunchFields DEF StageInv, StagesMatch, StageFits, TypeOK, LeaseTypes

FileTypes ==
  /\ halt \in BOOLEAN
  /\ harness \in Marks \cup {Torn}
  /\ completions \in Bindings \cup {Torn}
  /\ child \in [Run -> {"none", "running", "done", "failed"}]

LEMMA StageKept ==
  ASSUME StageInv, NEW r \in Run, NEW o \in Launch, launch' = [launch EXCEPT ![r] = o],
         LeaseTypes', FileTypes', \A q \in Run : q # r => child'[q] = child[q],
         StageFits(o, child'[r])
  PROVE  StageInv'
  <1>1. launch' \in [Run -> Launch] /\ launch'[r] = o
        /\ \A q \in Run : q # r => launch'[q] = launch[q]
    BY OneMoves DEF StageInv
  <1>2. TypeOK'
    BY <1>1 DEF TypeOK, LeaseTypes, FileTypes
  <1>3. \A q \in Run : StageFits(launch'[q], child'[q])
    BY <1>1, StageFacts
  <1>4. StagesMatch'
    BY <1>3 DEF StagesMatch, StageFits
  <1> QED BY <1>2, <1>4 DEF StageInv

\* A step that leaves files and executors alone.
LEMMA QuietStageKept ==
  ASSUME StageInv, NEW r \in Run, NEW o \in Launch, launch' = [launch EXCEPT ![r] = o],
         LeaseTypes', UNCHANGED <<halt, harness, completions, child>>, StageFits(o, child[r])
  PROVE  StageInv'
  <1>1. FileTypes'
    BY DEF StageInv, TypeOK, FileTypes
  <1> QED BY <1>1, StageKept

LEMMA StageStep ==
  ASSUME StageInv, [Next]_vars
  PROVE  StageInv'
  <1>0. StageInv /\ TypeOK /\ LeaseTypes /\ \A r \in Run : StageFits(launch[r], child[r]) /\ launch[r].pc \in PCs
    BY StageFacts DEF StageInv, TypeOK, LeaseTypes
  <1>1. ASSUME NEW r \in Run, NEW s \in Slice, Begin(r, s) PROVE StageInv'
    <2>1. LeaseTypes' /\ UNCHANGED <<halt, harness, completions, child>>
      BY <1>0, <1>1, LeaseTyped DEF Begin, promiseVars
    <2>2. PICK o \in Launch : /\ launch' = [launch EXCEPT ![r] = o]
                             /\ o.pc \in {"ended", "validate"} /\ o.conf = launch[r].conf /\ o.pass = launch[r].pass
                             /\ SameCopies(o, launch[r])
      BY <1>1, BeginForm
    <2>3. StageFits(o, child[r])
      BY <1>0, <1>1, <2>2 DEF Begin, At, SameEvidence, SameCopies, NoCopies, StageFits, AfterGate, Marking, PCs
    <2> QED BY <2>1, <2>2, <2>3, QuietStageKept
  <1>2. ASSUME NEW r \in Run, ReadMarks(r) PROVE StageInv'
    <2>1. LeaseTypes' /\ UNCHANGED <<halt, harness, completions, child>>
      BY <1>0, <1>2, LeaseTyped DEF ReadMarks, promiseVars
    <2>2. PICK o \in Launch : /\ launch' = [launch EXCEPT ![r] = o]
                             /\ SameEvidence(o, launch[r]) /\ o.bindings = launch[r].bindings
                             /\ \/ o.pc = "ended" /\ o.marks = launch[r].marks
                                \/ o.pc \in {"support", "list"} /\ o.marks = harness /\ harness # Torn
      BY <1>2, ReadMarksForm
    <2>3. StageFits(o, child[r])
      BY <1>0, <1>2, <2>2 DEF ReadMarks, At, SameEvidence, SameCopies, NoCopies, StageFits, AfterGate, Marking, PCs
    <2> QED BY <2>1, <2>2, <2>3, QuietStageKept
  <1>3. ASSUME NEW r \in Run, ReadSupport(r) PROVE StageInv'
    <2>1. LeaseTypes' /\ UNCHANGED <<halt, harness, completions, child>>
      BY <1>0, <1>3, LeaseTyped DEF ReadSupport, promiseVars
    <2>2. PICK o \in Launch : /\ launch' = [launch EXCEPT ![r] = o]
                             /\ o.pc \in {"list", "ended"}
                             /\ SameEvidence(o, launch[r]) /\ (SameCopies(o, launch[r]) \/ NoCopies(o))
      BY <1>0, <1>3, GotoForm, StopForm, ExitForm DEF ReadSupport, PCs
    <2>3. StageFits(o, child[r])
      BY <1>0, <1>3, <2>2 DEF ReadSupport, At, SameEvidence, SameCopies, NoCopies, StageFits, AfterGate, Marking, PCs
    <2> QED BY <2>1, <2>2, <2>3, QuietStageKept
  <1>4. ASSUME NEW r \in Run, ListLocks(r) PROVE StageInv'
    <2>1. LeaseTypes' /\ UNCHANGED <<halt, harness, completions, child>>
      BY <1>0, <1>4, LeaseTyped DEF ListLocks, promiseVars
    <2>2. PICK o \in Launch : /\ launch' = [launch EXCEPT ![r] = o]
                             /\ SameEvidence(o, launch[r]) /\ o.pc = "sweep"
      BY <1>4, ListLocksForm
    <2>3. StageFits(o, child[r])
      BY <1>0, <1>4, <2>2 DEF ListLocks, At, SameEvidence, SameCopies, NoCopies, StageFits, AfterGate, Marking, PCs
    <2> QED BY <2>1, <2>2, <2>3, QuietStageKept
  <1>5. ASSUME NEW r \in Run, NEW k \in Key, SweepLock(r, k) PROVE StageInv'
    <2>1. LeaseTypes' /\ UNCHANGED <<halt, harness, completions, child>>
      BY <1>0, <1>5, LeaseTyped DEF SweepLock
    <2>2. PICK o \in Launch : /\ launch' = [launch EXCEPT ![r] = o]
                             /\ o.pc = "sweep" /\ SameEvidence(o, launch[r])
      BY <1>5, SweepLockForm
    <2>3. StageFits(o, child[r])
      BY <1>0, <1>5, <2>2 DEF SweepLock, At, SameEvidence, SameCopies, NoCopies, StageFits, AfterGate, Marking, PCs
    <2> QED BY <2>1, <2>2, <2>3, QuietStageKept
  <1>6. ASSUME NEW r \in Run, ReadNext(r) PROVE StageInv'
    <2>1. LeaseTypes' /\ UNCHANGED <<halt, harness, completions, child>>
      BY <1>0, <1>6, LeaseTyped DEF ReadNext, promiseVars
    <2>2. PICK o \in Launch : /\ launch' = [launch EXCEPT ![r] = o]
                             /\ o.pc \in {"locks", "ended"}
                             /\ SameEvidence(o, launch[r]) /\ (SameCopies(o, launch[r]) \/ NoCopies(o))
      BY <1>0, <1>6, GotoForm, StopForm, ExitForm DEF ReadNext, PCs
    <2>3. StageFits(o, child[r])
      BY <1>0, <1>6, <2>2 DEF ReadNext, At, SameEvidence, SameCopies, NoCopies, StageFits, AfterGate, Marking, PCs
    <2> QED BY <2>1, <2>2, <2>3, QuietStageKept
  <1>7. ASSUME NEW r \in Run, ReadLocks(r) PROVE StageInv'
    <2>1. LeaseTypes' /\ UNCHANGED <<halt, harness, completions, child>>
      BY <1>0, <1>7, LeaseTyped DEF ReadLocks, promiseVars
    <2>2. PICK o \in Launch : /\ launch' = [launch EXCEPT ![r] = o]
                             /\ o.pc \in {"claim", "ended"}
                             /\ SameEvidence(o, launch[r]) /\ (SameCopies(o, launch[r]) \/ NoCopies(o))
      BY <1>0, <1>7, GotoForm, StopForm, ExitForm DEF ReadLocks, PCs
    <2>3. StageFits(o, child[r])
      BY <1>0, <1>7, <2>2 DEF ReadLocks, At, SameEvidence, SameCopies, NoCopies, StageFits, AfterGate, Marking, PCs
    <2> QED BY <2>1, <2>2, <2>3, QuietStageKept
  <1>8. ASSUME NEW r \in Run, Claim(r) PROVE StageInv'
    <2>0. Workspace \in Key
      BY <1>0, LaunchFields, LauncherAssumption
    <2>1. LeaseTypes' /\ UNCHANGED <<halt, harness, completions, child>>
      BY <1>0, <1>8, <2>0, LeaseTyped DEF Claim
    <2>2. \/ launch' = launch
          \/ \E o \in Launch : /\ launch' = [launch EXCEPT ![r] = o]
                               /\ o.pc \in {"claimSlice", "ended"} /\ SameEvidence(o, launch[r]) /\ (SameCopies(o, launch[r]) \/ NoCopies(o))
      BY <1>0, <1>8, GotoForm, StopForm, ExitForm DEF Claim, PCs
    <2>3. CASE launch' = launch
      BY <1>0, <2>1, <2>3 DEF StageInv, StagesMatch, TypeOK, LeaseTypes
    <2>4. CASE launch' # launch
      <3>1. PICK o \in Launch : /\ launch' = [launch EXCEPT ![r] = o]
                               /\ o.pc \in {"claimSlice", "ended"} /\ SameEvidence(o, launch[r]) /\ (SameCopies(o, launch[r]) \/ NoCopies(o))
        BY <2>2, <2>4
      <3>2. StageFits(o, child[r])
        BY <1>0, <1>8, <3>1 DEF Claim, At, SameEvidence, SameCopies, NoCopies, StageFits, AfterGate, Marking, PCs
      <3> QED BY <2>1, <3>1, <3>2, QuietStageKept
    <2> QED BY <2>3, <2>4
  <1>9. ASSUME NEW r \in Run, ClaimSlice(r) PROVE StageInv'
    <2>0. launch[r].slice \in Key
      BY <1>0, LaunchFields, LauncherAssumption
    <2>1. LeaseTypes' /\ UNCHANGED <<halt, harness, completions, child>>
      BY <1>0, <1>9, <2>0, LeaseTyped DEF ClaimSlice
    <2>2. \/ launch' = launch
          \/ \E o \in Launch : /\ launch' = [launch EXCEPT ![r] = o]
                               /\ o.pc \in {"baseline", "freeSlice", "killed"} /\ SameEvidence(o, launch[r]) /\ (SameCopies(o, launch[r]) \/ NoCopies(o))
      BY <1>0, <1>9, GotoForm, StopForm, ExitForm DEF ClaimSlice, PCs
    <2>3. CASE launch' = launch
      BY <1>0, <2>1, <2>3 DEF StageInv, StagesMatch, TypeOK, LeaseTypes
    <2>4. CASE launch' # launch
      <3>1. PICK o \in Launch : /\ launch' = [launch EXCEPT ![r] = o]
                               /\ o.pc \in {"baseline", "freeSlice", "killed"} /\ SameEvidence(o, launch[r]) /\ (SameCopies(o, launch[r]) \/ NoCopies(o))
        BY <2>2, <2>4
      <3>2. StageFits(o, child[r])
        BY <1>0, <1>9, <3>1 DEF ClaimSlice, At, SameEvidence, SameCopies, NoCopies, StageFits, AfterGate, Marking, PCs
      <3> QED BY <2>1, <3>1, <3>2, QuietStageKept
    <2> QED BY <2>3, <2>4
  <1>10. ASSUME NEW r \in Run, Baseline(r) PROVE StageInv'
    <2>1. LeaseTypes' /\ UNCHANGED <<halt, harness, completions, child>>
      BY <1>0, <1>10, LeaseTyped DEF Baseline, promiseVars
    <2>2. PICK o \in Launch : /\ launch' = [launch EXCEPT ![r] = o]
                             /\ o.pc \in {"declare", "freeSlice", "killed"}
                             /\ SameEvidence(o, launch[r]) /\ (SameCopies(o, launch[r]) \/ NoCopies(o))
      BY <1>0, <1>10, GotoForm, StopForm, ExitForm DEF Baseline, PCs
    <2>3. StageFits(o, child[r])
      BY <1>0, <1>10, <2>2 DEF Baseline, At, SameEvidence, SameCopies, NoCopies, StageFits, AfterGate, Marking, PCs
    <2> QED BY <2>1, <2>2, <2>3, QuietStageKept
  <1>11. ASSUME NEW r \in Run, Declare(r) PROVE StageInv'
    <2>1. LeaseTypes' /\ UNCHANGED <<halt, harness, completions, child>>
      BY <1>0, <1>11, LeaseTyped DEF Declare, promiseVars
    <2>2. PICK o \in Launch : /\ launch' = [launch EXCEPT ![r] = o]
                             /\ o.pc \in {"spawn", "freeSlice"} /\ SameEvidence(o, launch[r]) /\ (SameCopies(o, launch[r]) \/ NoCopies(o))
      BY <1>11, DeclareForm
    <2>3. StageFits(o, child[r])
      BY <1>0, <1>11, <2>2 DEF Declare, At, SameEvidence, SameCopies, NoCopies, StageFits, AfterGate, Marking, PCs
    <2> QED BY <2>1, <2>2, <2>3, QuietStageKept
  <1>12. ASSUME NEW r \in Run, Spawn(r) PROVE StageInv'
    <2>1. LeaseTypes'
      BY <1>0, <1>12, LeaseTyped DEF Spawn, promiseVars
    <2>2. PICK o \in Launch : /\ launch' = [launch EXCEPT ![r] = o]
                             /\ o.pc = "wait" /\ SameEvidence(o, launch[r]) /\ SameCopies(o, launch[r])
      BY <1>0, <1>12, GotoForm DEF Spawn, PCs
    <2>3. FileTypes' /\ \A q \in Run : q # r => child'[q] = child[q]
      BY <1>0, <1>12, LaunchFields DEF Spawn, At, FileTypes, StageInv, StagesMatch, TypeOK, Marks, Bindings, Marking
    <2>4. StageFits(o, child'[r])
      BY <1>0, <1>12, <2>2 DEF Spawn, At, TypeOK, SameEvidence, SameCopies, NoCopies, StageFits, AfterGate, Marking, PCs
    <2> QED BY <2>1, <2>2, <2>3, <2>4, StageKept
  <1>13. ASSUME NEW r \in Run, ChildEnds(r) PROVE StageInv'
    <2>1. LeaseTypes' /\ UNCHANGED <<halt, harness, completions, launch>>
      BY <1>0, <1>13, LeaseTyped DEF ChildEnds, promiseVars
    <2>2. child' \in [Run -> {"none", "running", "done", "failed"}]
          /\ \A q \in Run : child'[q] # "none" => child[q] # "none"
      BY <1>0, <1>13 DEF ChildEnds, TypeOK
    <2> QED BY <1>0, <2>1, <2>2 DEF StageInv, StagesMatch, TypeOK, LeaseTypes
  <1>14. ASSUME NEW r \in Run, Close(r) PROVE StageInv'
    <2>1. LeaseTypes' /\ UNCHANGED <<halt, harness, completions, child>>
      BY <1>0, <1>14, LeaseTyped DEF Close, promiseVars
    <2>2. PICK o \in Launch : /\ launch' = [launch EXCEPT ![r] = o]
                             /\ o.pc = "gate" /\ o.pass = launch[r].pass
      BY <1>14, CloseForm
    <2>3. StageFits(o, child[r])
      BY <1>0, <1>14, <2>2 DEF Close, At, SameEvidence, SameCopies, NoCopies, StageFits, AfterGate, Marking, PCs
    <2> QED BY <2>1, <2>2, <2>3, QuietStageKept
  <1>15. ASSUME NEW r \in Run, Gate(r) PROVE StageInv'
    <2>1. LeaseTypes' /\ UNCHANGED <<halt, harness, completions, child>>
      BY <1>0, <1>15, LeaseTyped DEF Gate, promiseVars
    <2>2. PICK o \in Launch : /\ launch' = [launch EXCEPT ![r] = o]
                             /\ \/ o.pc = "freeSlice"
                                \/ o.pc = "mark" /\ o.pass = TRUE /\ o.conf = TRUE
      BY <1>15, GateForm
    <2>3. StageFits(o, child[r])
      BY <1>0, <1>15, <2>2 DEF Gate, At, SameEvidence, SameCopies, NoCopies, StageFits, AfterGate, Marking, PCs
    <2> QED BY <2>1, <2>2, <2>3, QuietStageKept
  <1>16. ASSUME NEW r \in Run, MarkReadMarks(r) PROVE StageInv'
    <2>1. LeaseTypes' /\ UNCHANGED <<halt, harness, completions, child>>
      BY <1>0, <1>16, LeaseTyped DEF MarkReadMarks, promiseVars
    <2>2. PICK o \in Launch : /\ launch' = [launch EXCEPT ![r] = o]
                             /\ SameEvidence(o, launch[r])
                             /\ \/ /\ o.pc = "readBindings" /\ o.marks = harness /\ harness # Torn
                                   /\ o.bindings = launch[r].bindings
                                \/ o.pc = (IF alive[r] THEN "freeSlice" ELSE "killed") /\ NoCopies(o)
      BY <1>16, MarkReadMarksForm
    <2>3. StageFits(o, child[r])
      BY <1>0, <1>16, <2>2 DEF MarkReadMarks, At, SameEvidence, SameCopies, NoCopies, StageFits, AfterGate, Marking, PCs
    <2> QED BY <2>1, <2>2, <2>3, QuietStageKept
  <1>17. ASSUME NEW r \in Run, MarkReadBindings(r) PROVE StageInv'
    <2>1. LeaseTypes' /\ UNCHANGED <<halt, harness, completions, child>>
      BY <1>0, <1>17, LeaseTyped DEF MarkReadBindings, promiseVars
    <2>2. PICK o \in Launch :
            /\ launch' = [launch EXCEPT ![r] = o] /\ SameEvidence(o, launch[r])
            /\ \/ /\ o.pc = "truncBindings" /\ o.marks = launch[r].marks
                  /\ completions # Torn /\ completions \in Bindings
                  /\ o.bindings = [completions EXCEPT ![launch[r].slice] = r]
               \/ o.pc = (IF alive[r] THEN "freeSlice" ELSE "killed") /\ NoCopies(o)
      BY <1>17, MarkReadBindingsForm
    <2>3. o.pc = "truncBindings" => o.bindings # Torn
      <3>1. completions \in Bindings => [completions EXCEPT ![launch[r].slice] = r] \in Bindings
        BY DEF Bindings
      <3>2. Torn \notin Bindings
        BY LauncherAssumption DEF Bindings
      <3>3. o.pc = "truncBindings" => /\ completions \in Bindings
                                      /\ o.bindings = [completions EXCEPT ![launch[r].slice] = r]
        BY <2>2
      <3> QED BY <3>1, <3>2, <3>3
    <2>4. StageFits(o, child[r])
      BY <1>0, <1>17, <2>2, <2>3 DEF MarkReadBindings, At, SameEvidence, SameCopies, NoCopies, StageFits, AfterGate, Marking, PCs
    <2> QED BY <2>1, <2>2, <2>4, QuietStageKept
  <1>18. ASSUME NEW r \in Run, TruncateBindings(r) PROVE StageInv'
    <2>1. LeaseTypes'
      BY <1>0, <1>18, LeaseTyped DEF TruncateBindings, promiseVars
    <2>2. PICK o \in Launch : /\ launch' = [launch EXCEPT ![r] = o]
                             /\ o.pc = "writeBindings" /\ SameEvidence(o, launch[r]) /\ SameCopies(o, launch[r])
      BY <1>0, <1>18, GotoForm DEF TruncateBindings, PCs
    <2>3. FileTypes' /\ \A q \in Run : q # r => child'[q] = child[q]
      BY <1>0, <1>18, LaunchFields DEF TruncateBindings, At, FileTypes, StageInv, StagesMatch, TypeOK, Marks, Bindings, Marking
    <2>4. StageFits(o, child'[r])
      BY <1>0, <1>18, <2>2 DEF TruncateBindings, At, TypeOK, SameEvidence, SameCopies, NoCopies, StageFits, AfterGate, Marking, PCs
    <2> QED BY <2>1, <2>2, <2>3, <2>4, StageKept
  <1>19. ASSUME NEW r \in Run, WriteBindings(r) PROVE StageInv'
    <2>1. LeaseTypes'
      BY <1>0, <1>19, LeaseTyped DEF WriteBindings, promiseVars
    <2>2. PICK o \in Launch : /\ launch' = [launch EXCEPT ![r] = o]
                             /\ o.pc = "truncMarks" /\ SameEvidence(o, launch[r]) /\ SameCopies(o, launch[r])
      BY <1>0, <1>19, GotoForm DEF WriteBindings, PCs
    <2>3. FileTypes' /\ \A q \in Run : q # r => child'[q] = child[q]
      BY <1>0, <1>19, LaunchFields DEF WriteBindings, At, FileTypes, StageInv, StagesMatch, TypeOK, Marks, Bindings, Marking
    <2>4. StageFits(o, child'[r])
      BY <1>0, <1>19, <2>2 DEF WriteBindings, At, TypeOK, SameEvidence, SameCopies, NoCopies, StageFits, AfterGate, Marking, PCs
    <2> QED BY <2>1, <2>2, <2>3, <2>4, StageKept
  <1>20. ASSUME NEW r \in Run, TruncateMarks(r) PROVE StageInv'
    <2>1. LeaseTypes'
      BY <1>0, <1>20, LeaseTyped DEF TruncateMarks, promiseVars
    <2>2. PICK o \in Launch : /\ launch' = [launch EXCEPT ![r] = o]
                             /\ o.pc = "writeMarks" /\ SameEvidence(o, launch[r]) /\ SameCopies(o, launch[r])
      BY <1>0, <1>20, GotoForm DEF TruncateMarks, PCs
    <2>3. FileTypes' /\ \A q \in Run : q # r => child'[q] = child[q]
      BY <1>0, <1>20, LaunchFields DEF TruncateMarks, At, FileTypes, StageInv, StagesMatch, TypeOK, Marks, Bindings, Marking
    <2>4. StageFits(o, child'[r])
      BY <1>0, <1>20, <2>2 DEF TruncateMarks, At, TypeOK, SameEvidence, SameCopies, NoCopies, StageFits, AfterGate, Marking, PCs
    <2> QED BY <2>1, <2>2, <2>3, <2>4, StageKept
  <1>21. ASSUME NEW r \in Run, WriteMarks(r) PROVE StageInv'
    <2>1. LeaseTypes'
      BY <1>0, <1>21, LeaseTyped DEF WriteMarks, promiseVars
    <2>2. PICK o \in Launch : /\ launch' = [launch EXCEPT ![r] = o]
                             /\ o.pc = (IF alive[r] THEN "freeSlice" ELSE "killed")
                             /\ SameEvidence(o, launch[r]) /\ NoCopies(o)
      BY <1>0, <1>21, ExitForm DEF WriteMarks
    <2>3. FileTypes' /\ \A q \in Run : q # r => child'[q] = child[q]
      BY <1>0, <1>21, LaunchFields DEF WriteMarks, At, FileTypes, StageInv, StagesMatch, TypeOK, Marks, Bindings, Marking
    <2>4. StageFits(o, child'[r])
      BY <1>0, <1>21, <2>2 DEF WriteMarks, At, TypeOK, SameEvidence, SameCopies, NoCopies, StageFits, AfterGate, Marking, PCs
    <2> QED BY <2>1, <2>2, <2>3, <2>4, StageKept
  <1>22. ASSUME NEW r \in Run, FreeSlice(r) PROVE StageInv'
    <2>0. launch[r].slice \in Key
      BY <1>0, LaunchFields, LauncherAssumption
    <2>1. LeaseTypes' /\ UNCHANGED <<halt, harness, completions, child>>
      BY <1>0, <1>22, <2>0, LeaseTyped DEF FreeSlice, LetGo
    <2>2. PICK o \in Launch : /\ launch' = [launch EXCEPT ![r] = o] /\ o.pc \in {"freeWorkspace", "ended"}
                             /\ SameEvidence(o, launch[r]) /\ SameCopies(o, launch[r])
      BY <1>0, <1>22, FreeSliceForm
    <2>3. StageFits(o, child[r])
      BY <1>0, <1>22, <2>2 DEF FreeSlice, At, SameEvidence, SameCopies, NoCopies, StageFits, AfterGate, Marking, PCs
    <2> QED BY <2>1, <2>2, <2>3, QuietStageKept
  <1>23. ASSUME NEW r \in Run, FreeWorkspace(r) PROVE StageInv'
    <2>0. Workspace \in Key
      BY <1>0, LaunchFields, LauncherAssumption
    <2>1. LeaseTypes' /\ UNCHANGED <<halt, harness, completions, child>>
      BY <1>0, <1>23, <2>0, LeaseTyped DEF FreeWorkspace, LetGo
    <2>2. PICK o \in Launch : /\ launch' = [launch EXCEPT ![r] = o] /\ o.pc = "ended"
                             /\ SameEvidence(o, launch[r]) /\ SameCopies(o, launch[r])
      BY <1>0, <1>23, FreeWorkspaceForm
    <2>3. StageFits(o, child[r])
      BY <1>0, <1>23, <2>2 DEF FreeWorkspace, At, SameEvidence, SameCopies, NoCopies, StageFits, AfterGate, Marking, PCs
    <2> QED BY <2>1, <2>2, <2>3, QuietStageKept
  <1>24. ASSUME NEW r \in Run, Kill(r) PROVE StageInv'
    <2>1. LeaseTypes' /\ UNCHANGED <<halt, harness, completions>>
      BY <1>0, <1>24, LeaseTyped DEF Kill
    <2>2. PICK o \in Launch :
            /\ launch' = [launch EXCEPT ![r] = o] /\ SameEvidence(o, launch[r])
            /\ (o = launch[r] \/ (o.pc = "killed" /\ NoCopies(o)))
            /\ \/ child' = child
               \/ child[r] = "running" /\ child' = [child EXCEPT ![r] = "failed"]
      BY <1>24, KillForm
    <2>3. FileTypes' /\ \A q \in Run : q # r => child'[q] = child[q]
      BY <1>0, <2>1, <2>2 DEF FileTypes, TypeOK
    <2>4. child'[r] # "none" => child[r] # "none"
      BY <1>0, <2>2 DEF TypeOK
    <2>5. StageFits(o, child'[r])
      BY <1>0, <2>2, <2>4 DEF SameEvidence, NoCopies, StageFits, AfterGate, Marking
    <2> QED BY <2>1, <2>2, <2>3, <2>5, StageKept
  <1>25. CASE PlaceHalt \/ TimePasses \/ UNCHANGED vars
    <2>1. LeaseTypes'
      BY <1>0, <1>25, LeaseTyped DEF PlaceHalt, TimePasses, vars, promiseVars
    <2>2. FileTypes' /\ UNCHANGED <<child, launch>>
      BY <1>0, <1>25 DEF PlaceHalt, TimePasses, launchVars, vars, FileTypes, TypeOK
    <2> QED BY <1>0, <2>1, <2>2 DEF StageInv, StagesMatch, TypeOK, LeaseTypes, FileTypes
  <1>26. ASSUME NEW s \in Slice, HandMark(s) PROVE StageInv'
    <2>1. LeaseTypes' /\ UNCHANGED <<halt, completions, child, launch>>
      BY <1>0, <1>26, LeaseTyped DEF HandMark, promiseVars
    <2>2. harness' \in Marks
      BY <1>0, <1>26 DEF HandMark, TypeOK, Marks
    <2> QED BY <1>0, <2>1, <2>2 DEF StageInv, StagesMatch, TypeOK, LeaseTypes
  <1> QED
    BY <1>1, <1>2, <1>3, <1>4, <1>5, <1>6, <1>7, <1>8, <1>9, <1>10, <1>11, <1>12, <1>13, <1>14, <1>15, <1>16, <1>17, <1>18, <1>19, <1>20, <1>21, <1>22, <1>23, <1>24, <1>25, <1>26
    DEF Next, Step, Mark, Environment

LEMMA StageInit == Init => StageInv
  <1> SUFFICES ASSUME Init PROVE StageInv
    OBVIOUS
  <1>1. LeaseTypes
    BY LeaseAssumption DEF Init, PromiseInit, LeaseTypes
  <1>2. FileTypes
    BY DEF Init, FileTypes, Marks, Bindings
  <1>3. 1 \in Slice
    BY LauncherAssumption DEF Slice
  <1>4. launch \in [Run -> Launch]
    BY <1>3 DEF Init, Launch
  <1>5. TypeOK
    BY <1>1, <1>2, <1>4 DEF TypeOK, LeaseTypes, FileTypes
  <1>6. StagesMatch
    BY DEF Init, StagesMatch, Marking
  <1> QED BY <1>5, <1>6 DEF StageInv

\* Every reachable state is well typed, and each launch has behind it what
\* its step needs: no file is ever written from a copy that was not read.
THEOREM LauncherTypeCorrect == Spec => [](TypeOK /\ StagesMatch)
  <1>1. StageInv => TypeOK /\ StagesMatch
    BY DEF StageInv
  <1> QED BY <1>1, StageInit, StageStep, PTL DEF Spec

-----------------------------------------------------------------------------
\* A record that keeps what its launch has earned.
Grows(o, l) == l.pass => o.pass /\ o.conf = l.conf /\ o.slice = l.slice

LEMMA EarnedGrows ==
  ASSUME TypeOK, NEW r \in Run, NEW o \in Launch, launch' = [launch EXCEPT ![r] = o],
         Grows(o, launch[r])
  PROVE  /\ \A q \in Run, s \in Slice : EarnedBy(q, s) => EarnedBy(q, s)'
         /\ \A s \in Slice : Earned(s) => Earned(s)'
  <1>1. launch'[r] = o /\ \A q \in Run : q # r => launch'[q] = launch[q]
    BY OneMoves
  <1>2. \A q \in Run, s \in Slice : EarnedBy(q, s) => EarnedBy(q, s)'
    <2> SUFFICES ASSUME NEW q \in Run, NEW s \in Slice, EarnedBy(q, s) PROVE EarnedBy(q, s)'
      OBVIOUS
    <2>1. CASE q = r
      BY <1>1, <2>1 DEF EarnedBy, Grows
    <2>2. CASE q # r
      BY <1>1, <2>2 DEF EarnedBy
    <2> QED BY <2>1, <2>2
  <1> QED BY <1>2 DEF Earned

\* A record whose copy of harness.json is in use: IsView and Copying for it.
Uses(l) ==
  l.pc \in {"support", "list", "readBindings", "truncBindings", "writeBindings",
            "truncMarks", "writeMarks"}
Checked == {"list", "sweep"}

\* Marks that are those of an old view, with earned slices added.
FromView(m) ==
  m # Torn => \E n \in Marks : /\ IsView(n)
                               /\ \A s \in Slice : (n[s] => m[s]) /\ (m[s] => n[s] \/ Earned(s))

ViewsEarned == \A m \in Marks : IsView(m) => EarnedMarks(m)

LEMMA ViewsComeFromViews ==
  ASSUME TypeOK
  PROVE  /\ FromView(harness) /\ FromView(Torn)
         /\ \A r \in Run : Uses(launch[r]) => FromView(launch[r].marks)
  <1>1. \A m \in Marks : IsView(m) => FromView(m)
    BY DEF FromView
  <1>2. harness # Torn => harness \in Marks /\ IsView(harness)
    BY DEF TypeOK, IsView
  <1>3. ASSUME NEW r \in Run, Uses(launch[r]), launch[r].marks # Torn
        PROVE  launch[r].marks \in Marks /\ IsView(launch[r].marks)
    BY <1>3, LaunchFields DEF Uses, IsView, Copying, WritesBack
  <1> QED BY <1>1, <1>2, <1>3 DEF FromView

\* After a step of r alone, every view comes from an old one.
LEMMA ViewsKept ==
  ASSUME TypeOK, TypeOK', NEW r \in Run, NEW o \in Launch, launch' = [launch EXCEPT ![r] = o],
         NEW h, harness' = h, FromView(h), Uses(o) => FromView(o.marks)
  PROVE  \A m \in Marks : IsView(m)' => FromView(m)
  <1> SUFFICES ASSUME NEW m \in Marks, IsView(m)' PROVE FromView(m)
    OBVIOUS
  <1>1. launch'[r] = o /\ \A q \in Run : q # r => launch'[q] = launch[q]
    BY OneMoves
  <1>2. m = harness' \/ \E q \in Run : Copying(q)' /\ m = launch'[q].marks
    BY DEF IsView
  <1>3. CASE m = harness'
    BY <1>3
  <1>4. ASSUME NEW q \in Run, Copying(q)', m = launch'[q].marks PROVE FromView(m)
    <2>1. Uses(launch'[q])
      BY <1>4 DEF Copying, WritesBack, Uses
    <2>2. CASE q = r
      BY <1>1, <1>4, <2>1, <2>2
    <2>3. CASE q # r
      BY <1>1, <1>4, <2>1, <2>3, ViewsComeFromViews
    <2> QED BY <2>2, <2>3
  <1> QED BY <1>2, <1>3, <1>4

LEMMA EvidenceKept ==
  ASSUME EvidenceInv, StageInv',
         NEW r \in Run, NEW o \in Launch, launch' = [launch EXCEPT ![r] = o], Grows(o, launch[r]),
         EarnedBindings(o.bindings),
         NEW b, completions' = b, EarnedBindings(b),
         NEW h, harness' = h, FromView(h), Uses(o) => FromView(o.marks),
         \A q \in Run : q # r => child'[q] = child[q],
         HandMarks # "anytime" =>
           /\ o.pc \in Checked => launch[r].pc \in Checked \/ ViewsEarned
           /\ o.pc \in PastNext \/ child'[r] # "none" =>
                \A s \in Slice : s < o.slice => Earned(s)
  PROVE  EvidenceInv'
  <1>0. TypeOK /\ TypeOK'
    BY DEF EvidenceInv, StageInv
  <1>1. /\ \A q \in Run, s \in Slice : EarnedBy(q, s) => EarnedBy(q, s)'
        /\ \A s \in Slice : Earned(s) => Earned(s)'
    BY <1>0, EarnedGrows
  <1>2. launch'[r] = o /\ \A q \in Run : q # r => launch'[q] = launch[q]
    BY <1>0, OneMoves
  <1>3. EarnedBindings(completions)'
    <2>1. b \in Bindings \cup {Torn}
      BY <1>0 DEF TypeOK
    <2> QED BY <1>1, <2>1 DEF EarnedBindings, Bindings
  <1>4. ASSUME NEW q \in Run PROVE EarnedBindings(launch[q].bindings)'
    <2>1. launch'[q].bindings \in Bindings \cup {Torn}
      BY <1>0 DEF TypeOK, Launch
    <2>2. EarnedBindings(launch'[q].bindings)
      BY <1>2 DEF EvidenceInv
    <2> QED BY <1>1, <2>1, <2>2 DEF EarnedBindings, Bindings
  <1>5. ASSUME NEW m \in Marks, IsView(m)'
        PROVE  \E n \in Marks :
                 /\ IsView(n) /\ \A s \in Slice : (n[s] => m[s]) /\ (m[s] => n[s] \/ Earned(s))
    <2>1. m # Torn /\ FromView(m)
      BY <1>0, <1>5, ViewsKept DEF IsView
    <2> QED BY <2>1 DEF FromView
  <1>6. ViewsEarned => \A m \in Marks : IsView(m)' => EarnedMarks(m)'
    <2> SUFFICES ASSUME ViewsEarned, NEW m \in Marks, IsView(m)', NEW s \in Slice, m[s]
                 PROVE  Earned(s)'
      BY DEF EarnedMarks
    <2>1. PICK n \in Marks : IsView(n) /\ (m[s] => n[s] \/ Earned(s))
      BY <1>5
    <2>2. n # Torn
      BY <2>1 DEF IsView
    <2> QED BY <1>1, <2>1, <2>2 DEF ViewsEarned, EarnedMarks
  <1>7. ASSUME ViewsAgree PROVE ViewsAgree'
    <2> SUFFICES ASSUME NEW m \in Marks, NEW n \in Marks, IsView(m)', IsView(n)',
                        NEW s \in Slice, m[s], ~Earned(s)'
                 PROVE  n[s]
      BY DEF ViewsAgree
    <2>1. PICK m0 \in Marks : IsView(m0) /\ (m[s] => m0[s] \/ Earned(s))
      BY <1>5
    <2>2. PICK n0 \in Marks : IsView(n0) /\ (n0[s] => n[s])
      BY <1>5
    <2> QED BY <1>1, <1>7, <2>1, <2>2 DEF ViewsAgree
  <1>8. ASSUME HandMarks # "anytime" PROVE ValidatedViews'
    <2> SUFFICES ASSUME NEW q \in Run, launch'[q].pc \in Checked PROVE ViewsEarned
      BY <1>6 DEF ValidatedViews, Checked
    <2>1. CASE q = r
      BY <1>2, <1>8, <2>1 DEF EvidenceInv, ValidatedViews, ViewsEarned, Checked
    <2>2. CASE q # r
      BY <1>2, <1>8, <2>2 DEF EvidenceInv, ValidatedViews, ViewsEarned, Checked
    <2> QED BY <2>1, <2>2
  <1>9. ASSUME HandMarks # "anytime", NEW q \in Run PROVE PathIsEarned(q)'
    <2>1. CASE q = r
      BY <1>1, <1>2, <1>9, <2>1 DEF PathIsEarned
    <2>2. CASE q # r
      BY <1>1, <1>2, <1>9, <2>2 DEF EvidenceInv, PathIsEarned
    <2> QED BY <2>1, <2>2
  <1>10. HandMarks = "never" => \A m \in Marks : IsView(m)' => EarnedMarks(m)'
    BY <1>6 DEF EvidenceInv, ViewsEarned
  <1>11. HandMarks # "anytime" => ViewsAgree'
    BY <1>7 DEF EvidenceInv
  <1> QED BY <1>3, <1>4, <1>8, <1>9, <1>10, <1>11 DEF EvidenceInv

\* A record that is no nearer to the spawn than the one before it.
NoNearer(o, l) ==
  /\ Uses(o) => Uses(l)
  /\ o.pc \in Checked => l.pc \in Checked
  /\ o.pc \in PastNext => l.pc \in PastNext

FewerCopies(o, l) == o.marks \in {l.marks, Torn} /\ o.bindings \in {l.bindings, Torn}

\* A step that leaves files, executors and evidence alone.
LEMMA QuietEvidenceKept ==
  ASSUME EvidenceInv, StageInv',
         NEW r \in Run, NEW o \in Launch, launch' = [launch EXCEPT ![r] = o],
         SameEvidence(o, launch[r]), FewerCopies(o, launch[r]), NoNearer(o, launch[r]),
         UNCHANGED <<harness, completions, child>>
  PROVE  EvidenceInv'
  <1>1. Grows(o, launch[r])
    BY DEF Grows, SameEvidence
  <1>2. EarnedBindings(o.bindings) /\ EarnedBindings(completions)
    BY DEF EvidenceInv, FewerCopies, EarnedBindings
  <1>3. FromView(harness) /\ (Uses(o) => FromView(o.marks))
    BY ViewsComeFromViews DEF EvidenceInv, StageInv, FewerCopies, NoNearer
  <1>4. HandMarks # "anytime" =>
          /\ o.pc \in Checked => launch[r].pc \in Checked \/ ViewsEarned
          /\ o.pc \in PastNext \/ child'[r] # "none" =>
               \A s \in Slice : s < o.slice => Earned(s)
    BY DEF EvidenceInv, NoNearer, PathIsEarned, SameEvidence
  <1> HIDE DEF Grows
  <1> QED BY <1>1, <1>2, <1>3, <1>4, EvidenceKept

LEMMA UnchangedEvidence ==
  ASSUME EvidenceInv, StageInv', UNCHANGED <<harness, completions, launch>>,
         \A q \in Run : child'[q] # "none" => child[q] # "none"
  PROVE  EvidenceInv'
  <1>1. \A s \in Slice : Earned(s)' <=> Earned(s)
    BY DEF Earned, EarnedBy
  <1>2. \A m : (IsView(m)' <=> IsView(m)) /\ (EarnedMarks(m)' <=> EarnedMarks(m))
    BY <1>1 DEF IsView, Copying, WritesBack, EarnedMarks
  <1>3. /\ EarnedBindings(completions)'
        /\ \A q \in Run : EarnedBindings(launch[q].bindings)'
    BY DEF EvidenceInv, EarnedBindings, EarnedBy
  <1>4. HandMarks = "never" => \A m \in Marks : IsView(m)' => EarnedMarks(m)'
    BY <1>2 DEF EvidenceInv
  <1>5. HandMarks # "anytime" => ViewsAgree'
    BY <1>1, <1>2 DEF EvidenceInv, ViewsAgree
  <1>6. HandMarks # "anytime" => ValidatedViews'
    BY <1>2 DEF EvidenceInv, ValidatedViews
  <1>7. HandMarks # "anytime" => \A q \in Run : PathIsEarned(q)'
    BY <1>1 DEF EvidenceInv, PathIsEarned
  <1> QED BY <1>3, <1>4, <1>5, <1>6, <1>7 DEF EvidenceInv

LEMMA EvidenceStep ==
  ASSUME EvidenceInv, [Next]_vars
  PROVE  EvidenceInv'
  <1>0. /\ EvidenceInv /\ StageInv /\ StageInv' /\ TypeOK
        /\ \A r \in Run : StageFits(launch[r], child[r]) /\ launch[r].pc \in PCs
    BY StageFacts, StageStep DEF EvidenceInv, StageInv
  <1>v. /\ FromView(harness) /\ FromView(Torn)
        /\ \A r \in Run : Uses(launch[r]) => FromView(launch[r].marks)
    BY <1>0, ViewsComeFromViews
  <1>1. ASSUME NEW r \in Run, NEW s \in Slice, Begin(r, s) PROVE EvidenceInv'
    <2>1. UNCHANGED <<harness, completions, child>> /\ launch[r].pc = "idle"
      BY <1>1 DEF Begin, At
    <2>2. PICK o \in Launch : /\ launch' = [launch EXCEPT ![r] = o] /\ o.pc \in {"ended", "validate"}
                             /\ SameCopies(o, launch[r])
      BY <1>0, <1>1, BeginForm
    <2>3. Grows(o, launch[r]) /\ child[r] = "none"
      BY <1>0, <2>1 DEF Grows, StageFits, AfterGate, Marking
    <2>4. EarnedBindings(o.bindings) /\ EarnedBindings(completions)
      BY <2>2 DEF EvidenceInv, SameCopies
    <2>5. o.pc \notin PastNext /\ o.pc \notin Checked /\ ~Uses(o)
      BY <2>2 DEF PastNext, Measuring, Checked, Uses
    <2> HIDE DEF Grows
    <2> QED BY <1>0, <1>v, <2>1, <2>2, <2>3, <2>4, <2>5, EvidenceKept
  <1>2. ASSUME NEW r \in Run, ReadMarks(r) PROVE EvidenceInv'
    <2>1. UNCHANGED <<harness, completions, child>> /\ launch[r].pc = "validate"
      BY <1>2 DEF ReadMarks, At
    <2>2. PICK o \in Launch :
            /\ launch' = [launch EXCEPT ![r] = o] /\ SameEvidence(o, launch[r])
            /\ o.bindings = launch[r].bindings
            /\ \/ o.pc = "ended" /\ o.marks = launch[r].marks
               \/ /\ o.pc \in {"support", "list"} /\ o.marks = harness /\ harness # Torn
                  /\ o.pc = "list" => \A s \in Slice : ~harness[s]
      BY <1>0, <1>2, ReadMarksForm
    <2>3. Grows(o, launch[r]) /\ EarnedBindings(o.bindings) /\ EarnedBindings(completions)
      BY <2>2 DEF Grows, SameEvidence, EvidenceInv
    <2>4. o.pc \notin PastNext /\ child[r] = "none"
      BY <1>0, <2>1, <2>2 DEF PastNext, Measuring, StageFits, AfterGate, Marking
    <2>5. Uses(o) => FromView(o.marks)
      BY <1>v, <2>2 DEF Uses
    <2>6. HandMarks # "anytime" /\ o.pc \in Checked => ViewsEarned
      <3> SUFFICES ASSUME HandMarks # "anytime", o.pc \in Checked PROVE ViewsEarned
        OBVIOUS
      <3>1. /\ harness \in Marks /\ IsView(harness) /\ \A s \in Slice : ~harness[s]
        BY <1>0, <2>2 DEF Checked, IsView, TypeOK
      <3>2. ViewsAgree
        BY DEF EvidenceInv
      <3> QED BY <3>1, <3>2 DEF ViewsAgree, ViewsEarned, EarnedMarks
    <2> HIDE DEF Grows
    <2> QED BY <1>0, <1>v, <2>1, <2>2, <2>3, <2>4, <2>5, <2>6, EvidenceKept
  <1>3. ASSUME NEW r \in Run, ReadSupport(r) PROVE EvidenceInv'
    <2>1. UNCHANGED <<harness, completions, child>> /\ launch[r].pc = "support"
      BY <1>3 DEF ReadSupport, At
    <2>2. PICK o \in Launch : /\ launch' = [launch EXCEPT ![r] = o]
                             /\ SameEvidence(o, launch[r]) /\ SameCopies(o, launch[r])
                             /\ \/ /\ o.pc = "list" /\ completions # Torn
                                   /\ \A s \in Slice : launch[r].marks[s] => Supported(s)
                                \/ o.pc = "ended"
      BY <1>0, <1>3, GotoForm, StopForm DEF ReadSupport, PCs
    <2>3. Grows(o, launch[r]) /\ EarnedBindings(o.bindings) /\ EarnedBindings(completions)
      BY <2>2 DEF Grows, SameEvidence, SameCopies, EvidenceInv
    <2>4. o.pc \notin PastNext /\ child[r] = "none"
      BY <1>0, <2>1, <2>2 DEF PastNext, Measuring, StageFits, AfterGate, Marking
    <2>5. Uses(o) => FromView(o.marks)
      BY <1>v, <2>1, <2>2 DEF Uses, SameCopies
    <2>6. HandMarks # "anytime" /\ o.pc \in Checked => ViewsEarned
      <3> SUFFICES ASSUME HandMarks # "anytime", o.pc \in Checked PROVE ViewsEarned
        OBVIOUS
      <3>1. /\ launch[r].marks # Torn /\ launch[r].marks \in Marks /\ IsView(launch[r].marks)
        BY <1>0, <2>1, LaunchFields DEF StageFits, IsView, Copying
      <3>2. \A s \in Slice : launch[r].marks[s] => Earned(s)
        <4>1. completions \in Bindings /\ \A s \in Slice : launch[r].marks[s] => Supported(s)
          BY <1>0, <2>2 DEF Checked, TypeOK
        <4> QED BY <4>1 DEF Supported, Earned, Bindings
      <3>3. ViewsAgree
        BY DEF EvidenceInv
      <3> QED BY <3>1, <3>2, <3>3 DEF ViewsAgree, ViewsEarned, EarnedMarks
    <2> HIDE DEF Grows
    <2> QED BY <1>0, <1>v, <2>1, <2>2, <2>3, <2>4, <2>5, <2>6, EvidenceKept
  <1>4. ASSUME NEW r \in Run, ListLocks(r) PROVE EvidenceInv'
    <2>1. UNCHANGED <<harness, completions, child>> /\ launch[r].pc = "list"
      BY <1>4 DEF ListLocks, At
    <2>2. PICK o \in Launch :
            /\ launch' = [launch EXCEPT ![r] = o] /\ SameEvidence(o, launch[r])
            /\ o.bindings = launch[r].bindings /\ o.marks = Torn /\ o.pc = "sweep"
      BY <1>0, <1>4, ListLocksForm
    <2>3. NoNearer(o, launch[r]) /\ FewerCopies(o, launch[r])
      BY <2>1, <2>2 DEF NoNearer, FewerCopies, Uses, Checked, PastNext, Measuring
    <2> QED BY <1>0, <2>1, <2>2, <2>3, QuietEvidenceKept
  <1>5. ASSUME NEW r \in Run, NEW k \in Key, SweepLock(r, k) PROVE EvidenceInv'
    <2>1. UNCHANGED <<harness, completions, child>> /\ launch[r].pc = "sweep"
      BY <1>5 DEF SweepLock, At
    <2>2. PICK o \in Launch : /\ launch' = [launch EXCEPT ![r] = o]
                             /\ o.pc = "sweep" /\ SameEvidence(o, launch[r]) /\ SameCopies(o, launch[r])
      BY <1>0, <1>5, SweepLockForm
    <2>3. NoNearer(o, launch[r]) /\ FewerCopies(o, launch[r])
      BY <2>1, <2>2 DEF NoNearer, FewerCopies, SameCopies, Uses, Checked, PastNext, Measuring
    <2> QED BY <1>0, <2>1, <2>2, <2>3, QuietEvidenceKept
  <1>6. ASSUME NEW r \in Run, ReadNext(r) PROVE EvidenceInv'
    <2>1. UNCHANGED <<harness, completions, child>> /\ launch[r].pc = "sweep"
      BY <1>6 DEF ReadNext, At
    <2>2. PICK o \in Launch : /\ launch' = [launch EXCEPT ![r] = o]
                             /\ SameEvidence(o, launch[r]) /\ SameCopies(o, launch[r])
                             /\ \/ o.pc = "locks" /\ harness # Torn /\ IsNext(harness, launch[r].slice)
                                \/ o.pc = "ended"
      BY <1>0, <1>6, GotoForm, StopForm DEF ReadNext, PCs
    <2>3. Grows(o, launch[r]) /\ EarnedBindings(o.bindings) /\ EarnedBindings(completions)
      BY <2>2 DEF Grows, SameEvidence, SameCopies, EvidenceInv
    <2>4. ~Uses(o) /\ o.pc \notin Checked /\ child[r] = "none"
      BY <1>0, <2>1, <2>2 DEF Checked, Uses, StageFits, AfterGate, Marking
    <2>5. HandMarks # "anytime" /\ o.pc \in PastNext => \A s \in Slice : s < o.slice => Earned(s)
      <3> SUFFICES ASSUME HandMarks # "anytime", o.pc \in PastNext, NEW s \in Slice, s < o.slice
                   PROVE  Earned(s)
        OBVIOUS
      <3>1. harness # Torn /\ IsNext(harness, launch[r].slice) /\ o.slice = launch[r].slice
        BY <2>2 DEF PastNext, Measuring, SameEvidence
      <3>2. harness \in Marks /\ IsView(harness)
        BY <1>0, <3>1 DEF TypeOK, IsView
      <3>3. EarnedMarks(harness)
        BY <2>1, <3>2 DEF EvidenceInv, ValidatedViews
      <3> QED BY <3>1, <3>3 DEF IsNext, EarnedMarks
    <2> HIDE DEF Grows
    <2> QED BY <1>0, <1>v, <2>1, <2>2, <2>3, <2>4, <2>5, EvidenceKept
  <1>7. ASSUME NEW r \in Run, ReadLocks(r) PROVE EvidenceInv'
    <2>1. UNCHANGED <<harness, completions, child>> /\ launch[r].pc = "locks"
      BY <1>7 DEF ReadLocks, At
    <2>2. PICK o \in Launch : /\ launch' = [launch EXCEPT ![r] = o]
                             /\ o.pc \in {"claim", "ended"}
                             /\ SameEvidence(o, launch[r]) /\ (SameCopies(o, launch[r]) \/ NoCopies(o))
      BY <1>0, <1>7, GotoForm, StopForm DEF ReadLocks, PCs
    <2>3. NoNearer(o, launch[r]) /\ FewerCopies(o, launch[r])
      BY <2>1, <2>2 DEF NoNearer, FewerCopies, SameCopies, NoCopies, Uses, Checked, PastNext, Measuring
    <2> QED BY <1>0, <2>1, <2>2, <2>3, QuietEvidenceKept
  <1>8. ASSUME NEW r \in Run, Claim(r) PROVE EvidenceInv'
    <2>1. UNCHANGED <<harness, completions, child>> /\ launch[r].pc = "claim"
      BY <1>8 DEF Claim, At
    <2>2. \/ launch' = launch
          \/ \E o \in Launch : /\ launch' = [launch EXCEPT ![r] = o]
                               /\ o.pc \in {"claimSlice", "ended"}
                               /\ SameEvidence(o, launch[r]) /\ (SameCopies(o, launch[r]) \/ NoCopies(o))
      BY <1>0, <1>8, GotoForm, StopForm DEF Claim, PCs
    <2>3. CASE launch' = launch
      BY <1>0, <2>1, <2>3, UnchangedEvidence
    <2>4. CASE launch' # launch
      <3>1. PICK o \in Launch : /\ launch' = [launch EXCEPT ![r] = o]
                               /\ o.pc \in {"claimSlice", "ended"}
                               /\ SameEvidence(o, launch[r]) /\ (SameCopies(o, launch[r]) \/ NoCopies(o))
        BY <2>2, <2>4
      <3>2. NoNearer(o, launch[r]) /\ FewerCopies(o, launch[r])
        BY <2>1, <3>1 DEF NoNearer, FewerCopies, SameCopies, NoCopies, Uses, Checked, PastNext, Measuring
      <3> QED BY <1>0, <2>1, <3>1, <3>2, QuietEvidenceKept
    <2> QED BY <2>3, <2>4
  <1>9. ASSUME NEW r \in Run, ClaimSlice(r) PROVE EvidenceInv'
    <2>1. UNCHANGED <<harness, completions, child>> /\ launch[r].pc = "claimSlice"
      BY <1>9 DEF ClaimSlice, At
    <2>2. \/ launch' = launch
          \/ \E o \in Launch : /\ launch' = [launch EXCEPT ![r] = o]
                               /\ o.pc \in {"baseline", "freeSlice", "killed"}
                               /\ SameEvidence(o, launch[r]) /\ (SameCopies(o, launch[r]) \/ NoCopies(o))
      BY <1>0, <1>9, GotoForm, ExitForm, ZenonT(60) DEF ClaimSlice, PCs
    <2>3. CASE launch' = launch
      BY <1>0, <2>1, <2>3, UnchangedEvidence
    <2>4. CASE launch' # launch
      <3>1. PICK o \in Launch : /\ launch' = [launch EXCEPT ![r] = o]
                               /\ o.pc \in {"baseline", "freeSlice", "killed"}
                               /\ SameEvidence(o, launch[r]) /\ (SameCopies(o, launch[r]) \/ NoCopies(o))
        BY <2>2, <2>4
      <3>2. NoNearer(o, launch[r]) /\ FewerCopies(o, launch[r])
        BY <2>1, <3>1 DEF NoNearer, FewerCopies, SameCopies, NoCopies, Uses, Checked, PastNext, Measuring
      <3> QED BY <1>0, <2>1, <3>1, <3>2, QuietEvidenceKept
    <2> QED BY <2>3, <2>4
  <1>10. ASSUME NEW r \in Run, Baseline(r) PROVE EvidenceInv'
    <2>1. UNCHANGED <<harness, completions, child>> /\ launch[r].pc = "baseline"
      BY <1>10 DEF Baseline, At
    <2>2. PICK o \in Launch : /\ launch' = [launch EXCEPT ![r] = o]
                             /\ o.pc \in {"declare", "freeSlice", "killed"}
                             /\ SameEvidence(o, launch[r]) /\ (SameCopies(o, launch[r]) \/ NoCopies(o))
      BY <1>0, <1>10, GotoForm, ExitForm, ZenonT(60) DEF Baseline, PCs
    <2>3. NoNearer(o, launch[r]) /\ FewerCopies(o, launch[r])
      BY <2>1, <2>2 DEF NoNearer, FewerCopies, SameCopies, NoCopies, Uses, Checked, PastNext, Measuring
    <2> QED BY <1>0, <2>1, <2>2, <2>3, QuietEvidenceKept
  <1>11. ASSUME NEW r \in Run, Declare(r) PROVE EvidenceInv'
    <2>1. UNCHANGED <<harness, completions, child>> /\ launch[r].pc = "declare"
      BY <1>11 DEF Declare, At
    <2>2. PICK o \in Launch : /\ launch' = [launch EXCEPT ![r] = o]
                             /\ o.pc \in {"spawn", "freeSlice"}
                             /\ SameEvidence(o, launch[r]) /\ (SameCopies(o, launch[r]) \/ NoCopies(o))
      BY <1>0, <1>11, DeclareForm
    <2>3. NoNearer(o, launch[r]) /\ FewerCopies(o, launch[r])
      BY <2>1, <2>2 DEF NoNearer, FewerCopies, SameCopies, NoCopies, Uses, Checked, PastNext, Measuring
    <2> QED BY <1>0, <2>1, <2>2, <2>3, QuietEvidenceKept
  <1>12. ASSUME NEW r \in Run, Spawn(r) PROVE EvidenceInv'
    <2>1. UNCHANGED <<harness, completions>> /\ launch[r].pc = "spawn"
          /\ \A q \in Run : q # r => child'[q] = child[q]
      BY <1>0, <1>12 DEF Spawn, At, TypeOK
    <2>2. PICK o \in Launch : /\ launch' = [launch EXCEPT ![r] = o] /\ o.pc = "wait"
                             /\ SameEvidence(o, launch[r]) /\ SameCopies(o, launch[r])
      BY <1>0, <1>12, GotoForm DEF Spawn, PCs
    <2>3. Grows(o, launch[r]) /\ EarnedBindings(o.bindings) /\ EarnedBindings(completions)
      BY <2>2 DEF Grows, SameEvidence, SameCopies, EvidenceInv
    <2>4. ~Uses(o) /\ o.pc \notin Checked
      BY <2>2 DEF Uses, Checked
    <2>5. HandMarks # "anytime" => \A s \in Slice : s < o.slice => Earned(s)
      BY <2>1, <2>2 DEF EvidenceInv, SameEvidence, PathIsEarned, PastNext, Measuring
    <2> HIDE DEF Grows
    <2> QED BY <1>0, <1>v, <2>1, <2>2, <2>3, <2>4, <2>5, EvidenceKept
  <1>13. ASSUME NEW r \in Run, ChildEnds(r) PROVE EvidenceInv'
    <2>1. UNCHANGED <<harness, completions, launch>> /\ \A q \in Run : child'[q] # "none" => child[q] # "none"
      BY <1>0, <1>13 DEF ChildEnds, TypeOK
    <2> QED BY <1>0, <2>1, UnchangedEvidence
  <1>14. ASSUME NEW r \in Run, Close(r) PROVE EvidenceInv'
    <2>1. UNCHANGED <<harness, completions, child>> /\ launch[r].pc = "wait"
      BY <1>14 DEF Close, At
    <2>2. PICK o \in Launch :
            /\ launch' = [launch EXCEPT ![r] = o] /\ o.pc = "gate" /\ o.slice = launch[r].slice
            /\ SameCopies(o, launch[r])
      BY <1>0, <1>14, CloseForm
    <2>3. Grows(o, launch[r])
      BY <1>0, <2>1 DEF Grows, StageFits, AfterGate, Marking
    <2>4. EarnedBindings(o.bindings) /\ EarnedBindings(completions)
      BY <2>2 DEF SameCopies, EvidenceInv
    <2>5. ~Uses(o) /\ o.pc \notin Checked
      BY <2>2 DEF Uses, Checked
    <2>6. HandMarks # "anytime" => \A s \in Slice : s < o.slice => Earned(s)
      BY <2>1, <2>2 DEF EvidenceInv, PathIsEarned, PastNext, Measuring
    <2> HIDE DEF Grows
    <2> QED BY <1>0, <1>v, <2>1, <2>2, <2>3, <2>4, <2>5, <2>6, EvidenceKept
  <1>15. ASSUME NEW r \in Run, Gate(r) PROVE EvidenceInv'
    <2>1. UNCHANGED <<harness, completions, child>> /\ launch[r].pc = "gate"
      BY <1>15 DEF Gate, At
    <2>2. PICK o \in Launch :
            /\ launch' = [launch EXCEPT ![r] = o] /\ o.slice = launch[r].slice
            /\ o.pc \in {"freeSlice", "mark"} /\ (SameCopies(o, launch[r]) \/ NoCopies(o))
      BY <1>0, <1>15, GateForm
    <2>3. Grows(o, launch[r])
      BY <1>0, <2>1 DEF Grows, StageFits, AfterGate, Marking
    <2>4. EarnedBindings(o.bindings) /\ EarnedBindings(completions)
      BY <2>2 DEF SameCopies, NoCopies, EvidenceInv, EarnedBindings
    <2>5. ~Uses(o) /\ o.pc \notin Checked
      BY <2>2 DEF Uses, Checked
    <2>6. HandMarks # "anytime" => \A s \in Slice : s < o.slice => Earned(s)
      BY <2>1, <2>2 DEF EvidenceInv, PathIsEarned, PastNext, Measuring
    <2> HIDE DEF Grows
    <2> QED BY <1>0, <1>v, <2>1, <2>2, <2>3, <2>4, <2>5, <2>6, EvidenceKept
  <1>16. ASSUME NEW r \in Run, MarkReadMarks(r) PROVE EvidenceInv'
    <2>1. /\ child' = child /\ launch[r].pc = "mark" /\ launch[r].slice \in Slice
          /\ completions' = completions /\ harness' = harness
      BY <1>0, <1>16, LaunchFields DEF MarkReadMarks, At
    <2>2. PICK o \in Launch :
            /\ launch' = [launch EXCEPT ![r] = o] /\ SameEvidence(o, launch[r])
            /\ \/ /\ o.pc = "readBindings" /\ o.marks = harness /\ harness # Torn
                  /\ o.bindings = launch[r].bindings
               \/ o.pc = (IF alive[r] THEN "freeSlice" ELSE "killed") /\ NoCopies(o)
      BY <1>0, <1>16, MarkReadMarksForm
    <2>3. Grows(o, launch[r]) /\ EarnedBy(r, launch[r].slice)
      BY <1>0, <2>1, <2>2 DEF Grows, SameEvidence, StageFits, EarnedBy, Marking
    <2>a. StageFits(launch[r], child[r]) /\ TypeOK
      BY <1>0
    <2>4. EarnedBindings(o.bindings) /\ EarnedBindings(completions)
      BY <2>1, <2>2, <2>3, <2>a DEF SameCopies, NoCopies, EvidenceInv, EarnedBindings, Bindings, TypeOK
    <2>5. o.pc \notin PastNext /\ o.pc \notin Checked
      BY <2>2 DEF PastNext, Measuring, Checked
    <2>6. HandMarks # "anytime" /\ child[r] # "none" => \A s \in Slice : s < o.slice => Earned(s)
      BY <2>2 DEF EvidenceInv, PathIsEarned, SameEvidence
    <2>7. Uses(o) => FromView(o.marks)
      BY <1>v, <2>2 DEF Uses, NoCopies
    <2>8. FromView(harness)
      BY <1>v
    <2> HIDE DEF Grows
    <2> QED BY <1>0, <2>1, <2>2, <2>3, <2>4, <2>5, <2>6, <2>7, <2>8, EvidenceKept
  <1>17. ASSUME NEW r \in Run, MarkReadBindings(r) PROVE EvidenceInv'
    <2>1. /\ child' = child /\ launch[r].pc = "readBindings" /\ launch[r].slice \in Slice
          /\ completions' = completions /\ harness' = harness
      BY <1>0, <1>17, LaunchFields DEF MarkReadBindings, At
    <2>2. PICK o \in Launch :
            /\ launch' = [launch EXCEPT ![r] = o] /\ SameEvidence(o, launch[r])
            /\ \/ /\ o.pc = "truncBindings" /\ o.marks = launch[r].marks
                  /\ completions # Torn /\ completions \in Bindings
                  /\ o.bindings = [completions EXCEPT ![launch[r].slice] = r]
               \/ o.pc = (IF alive[r] THEN "freeSlice" ELSE "killed") /\ NoCopies(o)
      BY <1>0, <1>17, MarkReadBindingsForm
    <2>3. Grows(o, launch[r]) /\ EarnedBy(r, launch[r].slice)
      BY <1>0, <2>1, <2>2 DEF Grows, SameEvidence, StageFits, EarnedBy, Marking
    <2>a. StageFits(launch[r], child[r]) /\ TypeOK
      BY <1>0
    <2>4. EarnedBindings(o.bindings) /\ EarnedBindings(completions)
      BY <2>1, <2>2, <2>3, <2>a DEF SameCopies, NoCopies, EvidenceInv, EarnedBindings, Bindings, TypeOK
    <2>5. o.pc \notin PastNext /\ o.pc \notin Checked
      BY <2>2 DEF PastNext, Measuring, Checked
    <2>6. HandMarks # "anytime" /\ child[r] # "none" => \A s \in Slice : s < o.slice => Earned(s)
      BY <2>2 DEF EvidenceInv, PathIsEarned, SameEvidence
    <2>7. Uses(o) => FromView(o.marks)
      BY <1>v, <2>1, <2>2 DEF Uses, NoCopies
    <2>8. FromView(harness)
      BY <1>v
    <2> HIDE DEF Grows
    <2> QED BY <1>0, <2>1, <2>2, <2>3, <2>4, <2>5, <2>6, <2>7, <2>8, EvidenceKept
  <1>18. ASSUME NEW r \in Run, TruncateBindings(r) PROVE EvidenceInv'
    <2>1. /\ child' = child /\ launch[r].pc = "truncBindings" /\ launch[r].slice \in Slice
          /\ completions' = Torn /\ harness' = harness
      BY <1>0, <1>18, LaunchFields DEF TruncateBindings, At
    <2>2. PICK o \in Launch :
            /\ launch' = [launch EXCEPT ![r] = o] /\ SameEvidence(o, launch[r])
            /\ o.pc = "writeBindings" /\ SameCopies(o, launch[r])
      BY <1>0, <1>18, GotoForm DEF TruncateBindings, PCs
    <2>3. Grows(o, launch[r]) /\ EarnedBy(r, launch[r].slice)
      BY <1>0, <2>1, <2>2 DEF Grows, SameEvidence, StageFits, EarnedBy, Marking
    <2>a. StageFits(launch[r], child[r]) /\ TypeOK
      BY <1>0
    <2>4. EarnedBindings(o.bindings) /\ EarnedBindings(Torn)
      BY <2>1, <2>2, <2>3, <2>a DEF SameCopies, NoCopies, EvidenceInv, EarnedBindings, Bindings, TypeOK
    <2>5. o.pc \notin PastNext /\ o.pc \notin Checked
      BY <2>2 DEF PastNext, Measuring, Checked
    <2>6. HandMarks # "anytime" /\ child[r] # "none" => \A s \in Slice : s < o.slice => Earned(s)
      BY <2>2 DEF EvidenceInv, PathIsEarned, SameEvidence
    <2>7. Uses(o) => FromView(o.marks)
      BY <1>v, <2>1, <2>2 DEF Uses, SameCopies
    <2>8. FromView(harness)
      BY <1>v
    <2> HIDE DEF Grows
    <2> QED BY <1>0, <2>1, <2>2, <2>3, <2>4, <2>5, <2>6, <2>7, <2>8, EvidenceKept
  <1>19. ASSUME NEW r \in Run, WriteBindings(r) PROVE EvidenceInv'
    <2>1. /\ child' = child /\ launch[r].pc = "writeBindings" /\ launch[r].slice \in Slice
          /\ completions' = launch[r].bindings /\ harness' = harness
      BY <1>0, <1>19, LaunchFields DEF WriteBindings, At
    <2>2. PICK o \in Launch :
            /\ launch' = [launch EXCEPT ![r] = o] /\ SameEvidence(o, launch[r])
            /\ o.pc = "truncMarks" /\ SameCopies(o, launch[r])
      BY <1>0, <1>19, GotoForm DEF WriteBindings, PCs
    <2>3. Grows(o, launch[r]) /\ EarnedBy(r, launch[r].slice)
      BY <1>0, <2>1, <2>2 DEF Grows, SameEvidence, StageFits, EarnedBy, Marking
    <2>a. StageFits(launch[r], child[r]) /\ TypeOK
      BY <1>0
    <2>4. EarnedBindings(o.bindings) /\ EarnedBindings(launch[r].bindings)
      BY <2>1, <2>2, <2>3, <2>a DEF SameCopies, NoCopies, EvidenceInv, EarnedBindings, Bindings, TypeOK
    <2>5. o.pc \notin PastNext /\ o.pc \notin Checked
      BY <2>2 DEF PastNext, Measuring, Checked
    <2>6. HandMarks # "anytime" /\ child[r] # "none" => \A s \in Slice : s < o.slice => Earned(s)
      BY <2>2 DEF EvidenceInv, PathIsEarned, SameEvidence
    <2>7. Uses(o) => FromView(o.marks)
      BY <1>v, <2>1, <2>2 DEF Uses, SameCopies
    <2>8. FromView(harness)
      BY <1>v
    <2> HIDE DEF Grows
    <2> QED BY <1>0, <2>1, <2>2, <2>3, <2>4, <2>5, <2>6, <2>7, <2>8, EvidenceKept
  <1>20. ASSUME NEW r \in Run, TruncateMarks(r) PROVE EvidenceInv'
    <2>1. /\ child' = child /\ launch[r].pc = "truncMarks" /\ launch[r].slice \in Slice
          /\ completions' = completions /\ harness' = Torn
      BY <1>0, <1>20, LaunchFields DEF TruncateMarks, At
    <2>2. PICK o \in Launch :
            /\ launch' = [launch EXCEPT ![r] = o] /\ SameEvidence(o, launch[r])
            /\ o.pc = "writeMarks" /\ SameCopies(o, launch[r])
      BY <1>0, <1>20, GotoForm DEF TruncateMarks, PCs
    <2>3. Grows(o, launch[r]) /\ EarnedBy(r, launch[r].slice)
      BY <1>0, <2>1, <2>2 DEF Grows, SameEvidence, StageFits, EarnedBy, Marking
    <2>a. StageFits(launch[r], child[r]) /\ TypeOK
      BY <1>0
    <2>4. EarnedBindings(o.bindings) /\ EarnedBindings(completions)
      BY <2>1, <2>2, <2>3, <2>a DEF SameCopies, NoCopies, EvidenceInv, EarnedBindings, Bindings, TypeOK
    <2>5. o.pc \notin PastNext /\ o.pc \notin Checked
      BY <2>2 DEF PastNext, Measuring, Checked
    <2>6. HandMarks # "anytime" /\ child[r] # "none" => \A s \in Slice : s < o.slice => Earned(s)
      BY <2>2 DEF EvidenceInv, PathIsEarned, SameEvidence
    <2>7. Uses(o) => FromView(o.marks)
      BY <1>v, <2>1, <2>2 DEF Uses, SameCopies
    <2>8. FromView(Torn)
      BY <1>v
    <2> HIDE DEF Grows
    <2> QED BY <1>0, <2>1, <2>2, <2>3, <2>4, <2>5, <2>6, <2>7, <2>8, EvidenceKept
  <1>21. ASSUME NEW r \in Run, WriteMarks(r) PROVE EvidenceInv'
    <2>1. /\ child' = child /\ launch[r].pc = "writeMarks" /\ launch[r].slice \in Slice
          /\ completions' = completions /\ harness' = [launch[r].marks EXCEPT ![launch[r].slice] = TRUE]
      BY <1>0, <1>21, LaunchFields DEF WriteMarks, At
    <2>2. PICK o \in Launch :
            /\ launch' = [launch EXCEPT ![r] = o] /\ SameEvidence(o, launch[r])
            /\ o.pc = (IF alive[r] THEN "freeSlice" ELSE "killed") /\ NoCopies(o)
      BY <1>0, <1>21, ExitForm DEF WriteMarks
    <2>3. Grows(o, launch[r]) /\ EarnedBy(r, launch[r].slice)
      BY <1>0, <2>1, <2>2 DEF Grows, SameEvidence, StageFits, EarnedBy, Marking
    <2>a. StageFits(launch[r], child[r]) /\ TypeOK
      BY <1>0
    <2>4. EarnedBindings(o.bindings) /\ EarnedBindings(completions)
      BY <2>1, <2>2, <2>3, <2>a DEF SameCopies, NoCopies, EvidenceInv, EarnedBindings, Bindings, TypeOK
    <2>5. o.pc \notin PastNext /\ o.pc \notin Checked
      BY <2>2 DEF PastNext, Measuring, Checked
    <2>6. HandMarks # "anytime" /\ child[r] # "none" => \A s \in Slice : s < o.slice => Earned(s)
      BY <2>2 DEF EvidenceInv, PathIsEarned, SameEvidence
    <2>7. Uses(o) => FromView(o.marks)
      BY <2>2 DEF Uses
    <2>8. FromView([launch[r].marks EXCEPT ![launch[r].slice] = TRUE])
      <3> DEFINE h == [launch[r].marks EXCEPT ![launch[r].slice] = TRUE]
      <3>1. /\ launch[r].marks # Torn /\ launch[r].marks \in Marks /\ IsView(launch[r].marks)
        BY <2>1, <2>a, LaunchFields DEF StageFits, IsView, Copying, WritesBack, Marking
      <3>2. Earned(launch[r].slice)
        BY <2>3 DEF Earned
      <3>3. \A s \in Slice : (launch[r].marks[s] => h[s]) /\ (h[s] => launch[r].marks[s] \/ Earned(s))
        BY <3>1, <3>2 DEF Marks
      <3> HIDE DEF h
      <3>4. FromView(h)
        BY <3>1, <3>3 DEF FromView
      <3> QED BY <3>4 DEF h
    <2> HIDE DEF Grows
    <2> QED BY <1>0, <2>1, <2>2, <2>3, <2>4, <2>5, <2>6, <2>7, <2>8, EvidenceKept
  <1>22. ASSUME NEW r \in Run, FreeSlice(r) PROVE EvidenceInv'
    <2>1. UNCHANGED <<harness, completions, child>> /\ launch[r].pc = "freeSlice"
      BY <1>22 DEF FreeSlice, At
    <2>2. PICK o \in Launch : /\ launch' = [launch EXCEPT ![r] = o]
                             /\ o.pc \in {"freeWorkspace", "ended"}
                             /\ SameEvidence(o, launch[r]) /\ (SameCopies(o, launch[r]) \/ NoCopies(o))
      BY <1>0, <1>22, FreeSliceForm
    <2>3. NoNearer(o, launch[r]) /\ FewerCopies(o, launch[r])
      BY <2>1, <2>2 DEF NoNearer, FewerCopies, SameCopies, NoCopies, Uses, Checked, PastNext, Measuring
    <2> QED BY <1>0, <2>1, <2>2, <2>3, QuietEvidenceKept
  <1>23. ASSUME NEW r \in Run, FreeWorkspace(r) PROVE EvidenceInv'
    <2>1. UNCHANGED <<harness, completions, child>> /\ launch[r].pc = "freeWorkspace"
      BY <1>23 DEF FreeWorkspace, At
    <2>2. PICK o \in Launch : /\ launch' = [launch EXCEPT ![r] = o]
                             /\ o.pc \in {"ended"}
                             /\ SameEvidence(o, launch[r]) /\ (SameCopies(o, launch[r]) \/ NoCopies(o))
      BY <1>0, <1>23, FreeWorkspaceForm
    <2>3. NoNearer(o, launch[r]) /\ FewerCopies(o, launch[r])
      BY <2>1, <2>2 DEF NoNearer, FewerCopies, SameCopies, NoCopies, Uses, Checked, PastNext, Measuring
    <2> QED BY <1>0, <2>1, <2>2, <2>3, QuietEvidenceKept
  <1>24. ASSUME NEW r \in Run, Kill(r) PROVE EvidenceInv'
    <2>1. UNCHANGED <<harness, completions>>
      BY <1>24 DEF Kill
    <2>2. PICK o \in Launch :
            /\ launch' = [launch EXCEPT ![r] = o] /\ SameEvidence(o, launch[r])
            /\ (o = launch[r] \/ (o.pc = "killed" /\ NoCopies(o)))
            /\ \/ child' = child
               \/ child[r] = "running" /\ child' = [child EXCEPT ![r] = "failed"]
      BY <1>0, <1>24, KillForm
    <2>3. (\A q \in Run : q # r => child'[q] = child[q]) /\ (child'[r] # "none" => child[r] # "none")
      BY <1>0, <2>2 DEF TypeOK
    <2>4. Grows(o, launch[r]) /\ EarnedBindings(o.bindings) /\ EarnedBindings(completions)
      BY <2>2 DEF Grows, SameEvidence, NoCopies, EvidenceInv, EarnedBindings
    <2>5. o = launch[r] \/ (~Uses(o) /\ o.pc \notin Checked /\ o.pc \notin PastNext)
      BY <2>2 DEF Uses, Checked, PastNext, Measuring
    <2>6. HandMarks # "anytime" =>
            /\ o.pc \in Checked => launch[r].pc \in Checked
            /\ o.pc \in PastNext \/ child'[r] # "none" => \A s \in Slice : s < o.slice => Earned(s)
      BY <2>2, <2>3, <2>5 DEF EvidenceInv, SameEvidence, PathIsEarned
    <2>7. Uses(o) => FromView(o.marks)
      BY <1>v, <2>5
    <2> HIDE DEF Grows
    <2> QED BY <1>0, <1>v, <2>1, <2>2, <2>3, <2>4, <2>6, <2>7, EvidenceKept
  <1>25. CASE PlaceHalt \/ TimePasses \/ UNCHANGED vars
    <2>1. UNCHANGED <<harness, completions, child, launch>>
      BY <1>25 DEF PlaceHalt, TimePasses, launchVars, vars
    <2> QED BY <1>0, <2>1, UnchangedEvidence
  <1>26. ASSUME NEW s \in Slice, HandMark(s) PROVE EvidenceInv'
    \* Edited between launches, harness.json is the only view there is.
    <2>1. UNCHANGED <<completions, child, launch>> /\ HandMarks # "never"
      BY <1>26 DEF HandMark
    <2>2. /\ EarnedBindings(completions)' /\ \A r \in Run : EarnedBindings(launch[r].bindings)'
      BY <2>1 DEF EvidenceInv, EarnedBindings, EarnedBy
    <2>3. ASSUME HandMarks # "anytime" PROVE (ViewsAgree /\ ValidatedViews)' /\ \A r \in Run : PathIsEarned(r)'
      <3>1. \A r \in Run : launch[r].pc \notin {"support", "list", "sweep"} \cup Marking
        BY <1>26, <2>3, LauncherAssumption DEF HandMark
      <3>2. \A m : IsView(m)' => m = harness'
        BY <2>1, <3>1 DEF IsView, Copying, WritesBack, Marking
      <3>3. \A r \in Run : PathIsEarned(r)'
        BY <2>1, <2>3 DEF EvidenceInv, PathIsEarned, Earned, EarnedBy
      <3>4. ValidatedViews'
        BY <2>1, <3>1 DEF ValidatedViews
      <3>5. ViewsAgree'
        BY <3>2 DEF ViewsAgree
      <3> QED BY <3>3, <3>4, <3>5
    <2> QED BY <1>0, <2>1, <2>2, <2>3 DEF EvidenceInv
  <1> QED
    BY <1>1, <1>2, <1>3, <1>4, <1>5, <1>6, <1>7, <1>8, <1>9, <1>10, <1>11, <1>12, <1>13, <1>14, <1>15, <1>16, <1>17, <1>18, <1>19, <1>20, <1>21, <1>22, <1>23, <1>24, <1>25, <1>26
    DEF Next, Step, Mark, Environment

LEMMA EvidenceInit == Init => EvidenceInv
  <1> SUFFICES ASSUME Init PROVE EvidenceInv
    OBVIOUS
  <1>1. /\ harness = [s \in Slice |-> FALSE] /\ completions = [s \in Slice |-> Unbound]
        /\ \A r \in Run : /\ launch[r].pc = "idle" /\ child[r] = "none"
                          /\ launch[r].marks = Torn /\ launch[r].bindings = Torn
    BY DEF Init
  <1>2. \A m : IsView(m) => m = harness
    BY <1>1 DEF IsView, Copying, WritesBack
  <1>3. \A m : IsView(m) => EarnedMarks(m)
    BY <1>1, <1>2 DEF EarnedMarks
  <1>4. ViewsAgree /\ ValidatedViews
    BY <1>2, <1>3 DEF ViewsAgree, ValidatedViews
  <1>5. EarnedBindings(completions) /\ \A r \in Run : EarnedBindings(launch[r].bindings)
    BY <1>1 DEF EarnedBindings
  <1>6. \A r \in Run : PathIsEarned(r)
    BY <1>1 DEF PathIsEarned, PastNext, Measuring
  <1> QED BY <1>3, <1>4, <1>5, <1>6, StageInit DEF EvidenceInv

\* completions.json never binds a slice to a run that did not earn it.
THEOREM BindingsAlwaysEarned == Spec => []BindingsAreEarned
  <1>1. EvidenceInv => BindingsAreEarned
    BY DEF EvidenceInv, EarnedBindings, BindingsAreEarned
  <1> QED BY <1>1, EvidenceInit, EvidenceStep, PTL DEF Spec

\* Statuses may be edited by hand, but not while a launch is on its way from
\* validate-passed to its own slice or marking: then every executor was
\* spawned behind earned slices only, with launches killed, orphaned, expired
\* and interleaved at will, and with hand marks in the file.
THEOREM NothingBuiltOnNothing ==
  ASSUME HandMarks # "anytime"
  PROVE  Spec => []BuiltOnEvidence
  <1>1. EvidenceInv => BuiltOnEvidence
    BY DEF EvidenceInv, PathIsEarned, BuiltOnEvidence
  <1> QED BY <1>1, EvidenceInit, EvidenceStep, PTL DEF Spec

\* Where nobody edits it, every mark in harness.json was earned.
LEMMA MarksComeFromRuns ==
  ASSUME EvidenceInv, HandMarks = "never"
  PROVE  MarksAreEarned
  <1>1. harness # Torn => harness \in Marks /\ IsView(harness)
    BY DEF EvidenceInv, StageInv, TypeOK, IsView
  <1> QED BY <1>1 DEF EvidenceInv, EarnedMarks, MarksAreEarned
=============================================================================
