------------------------------- MODULE Worker -------------------------------
(***************************************************************************)
(* One run as its operator sees it: the executor's calls pass the guard,   *)
(* the session's file grows by a line for each call and one for its        *)
(* result, the operator's reader follows it, and when the executor is gone *)
(* the launcher writes what it learned into the receipt.                   *)
(***************************************************************************)
EXTENDS Guard, SessionView, RunRecords

CONSTANT NoCall   \* what a line that is about no call names

vars == <<guardVars, sessionVars, run>>

Init == GuardInit /\ SessionInit /\ RecordsInit

Line(kind, c) ==
  [kind |-> kind, call |-> c, denied |-> kind = "result" /\ Refused(c),
   error |-> kind = "result" /\ calls[c].pc \in {"refused", "failed"}]

Texts == {session.units[i] : i \in DOMAIN session.units} \ {NewLine}
Logged(kind, c) == \E t \in Texts : t.kind = kind /\ t.call = c

-----------------------------------------------------------------------------
Executor == /\ run.pc = "running"
            /\ \E c \in Call : Ask(c) \/ Decide(c) \/ Run(c)
            /\ UNCHANGED <<sessionVars, run>>

\* Claude Code writes a line when a call is proposed and one when it is
\* answered; a session resumed after its executor's end ends with one more.
WriteLine ==
  /\ UNCHANGED <<guardVars, run>>
  /\ \E c \in Call :
       \/ /\ run.pc = "running"
          /\ \/ ~At(c, "new") /\ ~Logged("use", c) /\ WriteText(Line("use", c))
             \/ Past(c) /\ Logged("use", c) /\ ~Logged("result", c)
                /\ WriteText(Line("result", c))
          /\ session.units # <<>> => Last(session.units) = NewLine

ResumeLine ==
  /\ run.pc # "running" /\ ~Logged("end", NoCall)
  /\ WriteText([kind |-> "end", call |-> NoCall, denied |-> FALSE, error |-> FALSE])
  /\ UNCHANGED <<guardVars, run>>

EndLine == run.pc = "running" /\ WriteEnd /\ UNCHANGED <<guardVars, run>>
EndLast == run.pc # "running" /\ session.units # <<>> /\ Last(session.units) # NewLine
           /\ Last(session.units).kind = "end" /\ WriteEnd /\ UNCHANGED <<guardVars, run>>

\* Its result names the tools that were refused, in the order of the calls.
Denials == {c \in Call : Refused(c)}
ExecutorEnds ==
  /\ \E exit \in {0, 1} :
       /\ exit = 0 => \A c \in Call : At(c, "new") \/ Past(c)
       /\ \E order \in [1 .. Cardinality(Denials) -> Denials] :
            /\ \A c \in Denials : \E i \in DOMAIN order : order[i] = c
            /\ Closed(exit, [i \in DOMAIN order |-> calls[order[i]].tool])
  /\ calls' = [c \in Call |-> Known(IF Past(c) THEN calls[c].pc ELSE "cut", calls[c].tool)]
  /\ UNCHANGED <<halts, sessionVars>>

Next ==
  \/ Executor \/ WriteLine \/ ResumeLine \/ EndLine \/ EndLast \/ ExecutorEnds
  \/ run.pc = "running" /\ PlaceHalt /\ UNCHANGED <<sessionVars, run>>
  \/ (Replace \/ View) /\ UNCHANGED <<guardVars, run>>
  \/ Records /\ UNCHANGED <<guardVars, sessionVars>>

Spec == Init /\ [][Next]_vars

-----------------------------------------------------------------------------
\* "A blocked action never renders as successful work" (render_session.py:14),
\* and "count is the array's length" (write_receipt.py:97): a call the guard
\* refused is shown as a refusal and as nothing else, a call that ran never is,
\* and the receipt counts the refused calls, unless the executor's output was
\* lost with them.
RefusalsAreTold ==
  /\ \A i \in DOMAIN view.shown :
       LET line == view.shown[i]
       IN Readable(line) /\ line[1].kind = "result" =>
            (Mark(line) = "refusal" <=> Refused(line[1].call))
  /\ run.receipt # NoRecord =>
       \/ run.receipt.refusals.count = Cardinality(Denials)
          /\ run.receipt.refusals.tools = {calls[c].tool : c \in Denials}
       \/ run.output = NoRecord /\ run.receipt.refusals.count = 0
=============================================================================
