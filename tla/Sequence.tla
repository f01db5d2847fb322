------------------------------ MODULE Sequence ------------------------------
(***************************************************************************)
(* Sequence mode of scripts/launch_worker.sh: a loop that sweeps the       *)
(* leases, asks `next` for a slice, and enters the launcher again for it,  *)
(* until all slices are passed or anything at all stops it.  Launches the  *)
(* operator makes directly go on beside it, and a sequence that was killed *)
(* or stopped may be started again.                                        *)
(***************************************************************************)
EXTENDS Launcher

CONSTANTS
  Direct,     \* the runs the operator may launch directly
  MaxStarts,  \* bound: how often a sequence is started
  NoSlice     \* PREV_ID=""

ASSUME SequenceAssumption ==
  Direct \subseteq Run /\ MaxStarts \in Nat /\ NoSlice \notin Slice

VARIABLE seq  \* the sequence's process; launched is this invocation's

seqVars == <<vars, seq>>

SeqInit ==
  /\ Init
  /\ seq = [pc |-> "off", todo |-> {}, slice |-> NoSlice, prev |-> NoSlice,
            run |-> NoSlice, launched |-> {}, starts |-> 0]

SeqOver == seq.pc \in {"off", "complete", "stopped", "killed"}

-----------------------------------------------------------------------------
Start ==
  /\ SeqOver /\ seq.starts < MaxStarts
  /\ seq' = [pc |-> IF halt THEN "stopped" ELSE "list", todo |-> {},
             slice |-> NoSlice, prev |-> NoSlice, run |-> NoSlice,
             launched |-> {}, starts |-> seq.starts + 1]
  /\ UNCHANGED vars

SeqList ==
  /\ seq.pc = "list"
  /\ seq' = [seq EXCEPT !.pc = "sweep", !.todo = {k \in Key : locks[k] # Free}]
  /\ UNCHANGED vars

SeqSweep(k) ==
  /\ seq.pc = "sweep" /\ k \in seq.todo
  /\ IF locks[k] # Free /\ Stale(locks[k]) THEN Reclaim(k) ELSE UNCHANGED promiseVars
  /\ seq' = [seq EXCEPT !.todo = @ \ {k}]
  /\ UNCHANGED launchVars

\* Mutants: no no-progress guard; a slice without progress is passed over.
SeqPick_Spins(s) == harness # Torn /\ IsNext(harness, s)
SeqPick_Skips(s) ==
  /\ harness # Torn
  /\ ~harness[s] /\ s # seq.prev
  /\ \A t \in Slice : t < s => harness[t] \/ t = seq.prev

\* The slice `next` names, unless it is the one just launched.
SeqPick(s) == harness # Torn /\ IsNext(harness, s) /\ s # seq.prev

AllPassed == harness # Torn /\ \A s \in Slice : harness[s]

\* It stops when `next` fails, has nothing launchable, or names that slice.
SeqNext ==
  /\ seq.pc = "sweep" /\ seq.todo = {}
  /\ \/ \E s \in Slice : SeqPick(s) /\ seq' = [seq EXCEPT !.pc = "launch", !.slice = s]
     \/ AllPassed /\ seq' = [seq EXCEPT !.pc = "complete"]
     \/ seq' = [seq EXCEPT !.pc = "stopped"]
  /\ UNCHANGED vars

\* The launcher is entered again for the slice, with every check of its own;
\* a slice whose spec file is missing stops the sequence.
SeqLaunch(r) ==
  /\ seq.pc = "launch"
  /\ Begin(r, seq.slice)
  /\ seq' = [seq EXCEPT !.pc = "wait", !.run = r, !.launched = @ \cup {seq.slice}]

SpecMissing ==
  /\ seq.pc = "launch"
  /\ seq' = [seq EXCEPT !.pc = "stopped"]
  /\ UNCHANGED vars

\* A launch that did not exit 0 stops the sequence there.
SeqWait ==
  /\ seq.pc = "wait"
  /\ launch[seq.run].pc \in {"ended", "killed"}
  /\ seq' = [seq EXCEPT !.pc = IF At(seq.run, "ended") /\ launch[seq.run].ok
                                 THEN "scope" ELSE "stopped"]
  /\ UNCHANGED vars

\* Writes outside the slice's scope stop it too.
ScopeCheck ==
  /\ seq.pc = "scope"
  /\ \/ seq' = [seq EXCEPT !.pc = "list", !.prev = seq.slice]
     \/ seq' = [seq EXCEPT !.pc = "stopped"]
  /\ UNCHANGED vars

\* The loop's process is killed; the launch it waits for runs on.
KillSequence ==
  /\ ~SeqOver
  /\ seq' = [seq EXCEPT !.pc = "killed"]
  /\ UNCHANGED vars

SequenceStep ==
  \/ SeqList \/ \E k \in Key : SeqSweep(k)
  \/ SeqNext \/ SpecMissing \/ SeqWait \/ ScopeCheck
  \/ \E r \in Run : SeqLaunch(r)

LauncherStep ==
  /\ \/ \E r \in Run : Step(r)
     \/ \E r \in Direct, s \in Slice : Begin(r, s)
     \/ Environment
  /\ UNCHANGED seq

SeqNextState == Start \/ SequenceStep \/ KillSequence \/ LauncherStep

SeqSpec == SeqInit /\ [][SeqNextState]_seqVars

\* A launcher is a running program, and its executor is bounded in turns or
\* in time (a spec that declares neither is refused, launch_worker.sh:336-347).
Fairness ==
  /\ WF_seqVars(SequenceStep)
  /\ \A r \in Run : WF_seqVars(Step(r) /\ UNCHANGED seq)
  /\ \A r \in Run : WF_seqVars(ChildEnds(r) /\ UNCHANGED seq)

FairSeqSpec == SeqSpec /\ Fairness

-----------------------------------------------------------------------------
\* "a failed slice is never skipped, a red gate is never continued past"
\* (launch_worker.sh:129-130, 214): when a sequence launches a slice, each slice it
\* launched before has been earned.
NeverSkips ==
  \A s \in seq.launched \ {seq.slice} : Earned(s)

\* "a sequence never spins on one slice" (:196): an invocation launches no
\* slice twice, although it remembers only the last one.
NeverSpins ==
  [][seq.pc = "launch" /\ seq'.pc = "wait" => seq.slice \notin seq.launched]_seqVars

\* SEQUENCE COMPLETE is the truth: every slice was earned.
CompleteIsEarned == seq.pc = "complete" => \A s \in Slice : Earned(s)

\* Started, a sequence comes to an end.
SequenceEnds == seq.pc = "list" ~> SeqOver

\* A launch that has begun ends and lets go of its leases, or is killed.
LaunchEnds ==
  \A r \in Run : At(r, "validate") ~> At(r, "killed") \/ (At(r, "ended") /\
    \A k \in Key : locks[k] = Free \/ locks[k].run # r)
=============================================================================
