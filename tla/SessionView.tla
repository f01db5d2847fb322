----------------------------- MODULE SessionView ----------------------------
(***************************************************************************)
(* scripts/render_session.py: a reader that follows the session's JSONL    *)
(* while it is written, and gives each line a mark.  The file is a         *)
(* sequence of units, the text of a line or a line end: a writer that is   *)
(* stopped between the two leaves a text without its end.                  *)
(***************************************************************************)
EXTENDS Naturals, Sequences, SequencesExt, FiniteSetsExt

CONSTANTS
  NewLine,      \* the unit that ends a line
  MaxReplaced,  \* bound: how often the file is replaced
  MaxUnits      \* bound: how long the file grows

ASSUME SessionAssumption == MaxReplaced \in Nat /\ MaxUnits \in Nat

VARIABLES
  session,    \* the session's file
  view        \* the reader

sessionVars == <<session, view>>

SessionInit ==
  /\ session = [units |-> <<>>, replaced |-> 0]
  /\ \E follow \in BOOLEAN :
       view = [pc |-> "poll", follow |-> follow, pos |-> 0, size |-> 0, buf |-> <<>>,
               shown |-> <<>>, tail |-> FALSE, gen |-> 0]

-----------------------------------------------------------------------------
\* split("\n"): the complete lines, and what follows the last of them.
Split(units) ==
  LET split[n \in 0 .. Len(units)] ==
        IF n = 0 THEN [lines |-> <<>>, rest |-> <<>>]
        ELSE LET before == split[n - 1]
             IN IF units[n] = NewLine
                  THEN [lines |-> Append(before.lines, before.rest), rest |-> <<>>]
                  ELSE [lines |-> before.lines, rest |-> Append(before.rest, units[n])]
  IN split[Len(units)]
Complete(units) == Split(units).lines
Remainder(units) == Split(units).rest

\* json.loads takes a line that is one text.
Readable(line) == Len(line) = 1

-----------------------------------------------------------------------------
\* The writer appends a line, in one go or in two.
WriteText(line) ==
  /\ Len(session.units) < MaxUnits
  /\ session' = [session EXCEPT !.units = Append(@, line)]
  /\ UNCHANGED view

WriteEnd ==
  /\ session.units # <<>> /\ Last(session.units) # NewLine
  /\ session' = [session EXCEPT !.units = Append(@, NewLine)]
  /\ UNCHANGED view

\* "Truncated or replaced under us".
Replace ==
  /\ session.replaced < MaxReplaced
  /\ session' = [units |-> <<>>, replaced |-> session.replaced + 1]
  /\ UNCHANGED view

\* poll: the size first.
PollSize ==
  /\ view.pc = "poll"
  /\ view' = [view EXCEPT !.size = Len(session.units), !.pc = "read"]
  /\ UNCHANGED session

\* Mutants: the buffer is kept when the file is started over; the unfinished
\* line is given out.
PollRead_KeepsBuffer ==
  /\ view.pc = "read"
  /\ LET over == view.size < view.pos
         from == IF over THEN 0 ELSE view.pos
         got == view.buf \o SubSeq(session.units, from + 1, Len(session.units))
     IN view' = [view EXCEPT !.pc = IF view.follow THEN "poll" ELSE "end",
                   !.pos = IF Len(session.units) > from THEN Len(session.units) ELSE from,
                   !.buf = Remainder(got),
                   !.gen = IF from = 0 THEN session.replaced ELSE @,
                   !.shown = (IF over THEN <<>> ELSE @) \o Complete(got)]
  /\ UNCHANGED session

\* Then what there is; over again, from the start, when it was less than has
\* been read.  Complete lines are shown and the rest is kept.
PollRead ==
  /\ view.pc = "read"
  /\ LET over == view.size < view.pos
         from == IF over THEN 0 ELSE view.pos
         got == (IF over THEN <<>> ELSE view.buf)
                  \o SubSeq(session.units, from + 1, Len(session.units))
     IN view' = [view EXCEPT !.pc = IF view.follow THEN "poll" ELSE "end",
                   !.pos = IF Len(session.units) > from THEN Len(session.units) ELSE from,
                   !.buf = Remainder(got),
                   !.gen = IF from = 0 THEN session.replaced ELSE @,
                   !.shown = (IF over THEN <<>> ELSE @) \o Complete(got)]
  /\ UNCHANGED session

\* Without --follow it ends with a mark on an unterminated tail.
ShowTail ==
  /\ view.pc = "end"
  /\ view' = [view EXCEPT !.pc = "done", !.tail = (view.buf # <<>>)]
  /\ UNCHANGED session

View == PollSize \/ PollRead \/ ShowTail

-----------------------------------------------------------------------------
\* Mutant: is_error is looked at before the denial.
Mark_ErrorFirst(line) ==
  IF ~Readable(line) THEN "unreadable"
  ELSE CASE line[1].kind = "use" -> "plain"
         [] line[1].kind = "end" -> "stop"
         [] line[1].kind = "result" ->
              IF line[1].error THEN "error"
              ELSE IF line[1].denied THEN "refusal" ELSE "outcome"

\* render and outcome_line: the denial is looked at before is_error, which a
\* refused call carries too.
Mark(line) ==
  IF ~Readable(line) THEN "unreadable"
  ELSE CASE line[1].kind = "use" -> "plain"
         [] line[1].kind = "end" -> "stop"
         [] line[1].kind = "result" ->
              IF line[1].denied THEN "refusal"
              ELSE IF line[1].error THEN "error" ELSE "outcome"

\* "Only newline-terminated lines are handed out" (render_session.py:215): what
\* is shown of a file is the beginning of its lines, in order and each once,
\* whatever was half written when it was polled, and after a replacement too,
\* once the reader has noticed it.
ShownInOrder == view.gen = session.replaced => IsPrefix(view.shown, Complete(session.units))
=============================================================================
