---------------------------- MODULE StreamFacts ----------------------------
(***************************************************************************)
(* What the three readers of a run's stream make of its lines: the record  *)
(* builder (scripts/conformance_record.py), the verifier, which computes   *)
(* the same facts in its own way (scripts/conformance_verify.py), and the  *)
(* watcher, which tallies them as they come (scripts/conformance_watch.py) *)
(* -- and what the narrowing proposal (scripts/conformance_narrow.py)      *)
(* makes of a record.  A line is one stream-json event; of its text only   *)
(* the encoding matters, for what it does to the way the line is read.     *)
(***************************************************************************)
EXTENDS SequencesExt

CONSTANTS
  MaxCalls, \* bound: calls of a run
  Tool,     \* tool names
  Agent     \* the tool that delegates

ASSUME StreamAssumption == MaxCalls \in Nat \ {0} /\ Agent \in Tool

\* tool_use ids, each used by one call; calls are numbered as they are made.
\* The parent_tool_use_id of a call that no delegation made is null, here 0.
Id == 1 .. MaxCalls
Top == 0

\* plain: ASCII only.  split: it holds a character of several bytes that JSON
\* leaves as it is and that str.splitlines takes for the end of a line (U+2028,
\* U+2029, U+0085).
Text == {"plain", "split"}

UseLine == [kind : {"use"}, id : Id, tool : Tool, parent : Id \cup {Top}, text : Text]
ResultLine == [kind : {"result"}, id : Id, error : BOOLEAN, text : Text]
EndLine == [kind : {"end"}, text : Text]
Line == UseLine \cup ResultLine \cup EndLine

\* What the builder and the verifier gather is keyed by the calls' ids: it depends
\* on the set of events they read, and not on their order.
Uses(events) == {e \in events : e.kind = "use"}
ResultsOf(events, id) == {e \in events : e.kind = "result" /\ e.id = id}
HasEnd(events) == \E e \in events : e.kind = "end"

\* "An emitted call proves nothing; only its paired result does."
Outcome(events, id) ==
  LET results == ResultsOf(events, id)
  IN IF results = {} THEN "unresolved"
     ELSE IF \E e \in results : e.error THEN "error" ELSE "ok"

-----------------------------------------------------------------------------
\* The builder: a call's depth is found by following its parents up.

Spawner(uses, u) == CHOOSE v \in uses : v.id = u.parent

\* It refuses a stream in which a parent never appears.
Rooted(uses) == \A u \in uses : u.parent = Top \/ \E v \in uses : v.id = u.parent

DepthByChain(uses) ==
  LET depth[u \in uses] == IF u.parent = Top THEN 0 ELSE 1 + depth[Spawner(uses, u)]
  IN depth

Call(events, u, depth) ==
  [id |-> u.id, tool |-> u.tool, parent |-> u.parent, depth |-> depth,
   result |-> Outcome(events, u.id)]

Analyze(events) ==
  LET uses == Uses(events)
      calls == {Call(events, u, DepthByChain(uses)[u]) : u \in uses}
  IN [exercised |-> calls, complete |-> HasEnd(events),
      delegations |-> {c \in calls : c.tool = Agent /\ c.result = "ok"}]

-----------------------------------------------------------------------------
\* The verifier: depths are given out in rounds, from the top down.

Round(uses) ==
  LET round[n \in 0 .. Cardinality(uses)] ==
        IF n = 0 THEN {u \in uses : u.parent = Top}
        ELSE {u \in uses : \E v \in round[n - 1] : v.id = u.parent}
  IN round

Resolved(uses) == UNION {Round(uses)[n] : n \in 0 .. Cardinality(uses)}

DepthByRounds(uses) ==
  [u \in Resolved(uses) |->
     CHOOSE n \in 0 .. Cardinality(uses) : u \in Round(uses)[n]]

Recompute(events) ==
  LET uses == Uses(events)
      calls == {Call(events, u, DepthByRounds(uses)[u]) : u \in uses}
  IN [exercised |-> calls, complete |-> HasEnd(events),
      delegations |-> {c \in calls : c.tool = Agent /\ c.result = "ok"}]

Executed(calls) == {c.tool : c \in {d \in calls : d.result = "ok"}}

\* The comparison rule: executed calls inside the surface, and no delegation
\* that spawns deeper than declared.
Inside(facts, decl) ==
  /\ Executed(facts.exercised) \subseteq decl.tools
  /\ \A d \in facts.delegations : d.depth + 1 <= decl.depth

\* Mutants of the verdict: calls without a result do not matter; calls that were
\* refused count against the surface.
Verdict_UnresolvedPass(rec, decl, events) ==
  LET facts == Recompute(events)
  IN IF decl.tools = {} THEN "NOT-MEASURED"
     ELSE IF Uses(events) # Resolved(Uses(events)) THEN "NOT-RECOMPUTABLE"
     ELSE IF rec.declared # decl \/ rec.facts # facts
               \/ rec.unused # decl.tools \ Executed(facts.exercised) THEN "DIVERGENT"
     ELSE IF ~facts.complete THEN "INCOMPLETE"
     ELSE IF ~Inside(facts, decl) THEN "DIVERGENT" ELSE "CONFORMANT"
Verdict_ErrorsDiverge(rec, decl, events) ==
  LET facts == Recompute(events)
  IN IF decl.tools = {} THEN "NOT-MEASURED"
     ELSE IF Uses(events) # Resolved(Uses(events)) THEN "NOT-RECOMPUTABLE"
     ELSE IF rec.declared # decl \/ rec.facts # facts
               \/ rec.unused # decl.tools \ Executed(facts.exercised) THEN "DIVERGENT"
     ELSE IF ~facts.complete \/ \E c \in facts.exercised : c.result = "unresolved"
       THEN "INCOMPLETE"
     ELSE IF \E c \in facts.exercised : c.tool \notin decl.tools THEN "DIVERGENT"
     ELSE IF ~Inside(facts, decl) THEN "DIVERGENT" ELSE "CONFORMANT"

\* The verdict on a record, its declaration and the events of its stream, in
\* the order of the verifier's exits.
Verdict(rec, decl, events) ==
  LET facts == Recompute(events)
  IN IF decl.tools = {} THEN "NOT-MEASURED"
     ELSE IF Uses(events) # Resolved(Uses(events)) THEN "NOT-RECOMPUTABLE"
     ELSE IF rec.declared # decl \/ rec.facts # facts
               \/ rec.unused # decl.tools \ Executed(facts.exercised) THEN "DIVERGENT"
     ELSE IF ~facts.complete \/ \E c \in facts.exercised : c.result = "unresolved"
       THEN "INCOMPLETE"
     ELSE IF ~Inside(facts, decl) THEN "DIVERGENT" ELSE "CONFORMANT"

-----------------------------------------------------------------------------
\* The watcher: one event fed to its tally.  A parent it has not seen gives
\* depth -1; only a result of a pending out-of-surface call can raise oosExec.

NoTally == [calls |-> 0, depths |-> {}, oosEmit |-> 0, oosExec |-> 0,
            pending |-> {}, unresolved |-> {}, complete |-> FALSE]

DepthSeen(t, parent) ==
  IF parent = Top THEN 0
  ELSE IF \E d \in t.depths : d.id = parent
         THEN (CHOOSE d \in t.depths : d.id = parent).depth + 1
         ELSE -1

Feed(t, e, tools) ==
  CASE e.kind = "use" ->
         LET out == e.tool \notin tools
         IN [t EXCEPT !.calls = @ + 1,
                      !.depths = @ \cup {[id |-> e.id, depth |-> DepthSeen(t, e.parent)]},
                      !.unresolved = @ \cup {e.id},
                      !.oosEmit = IF out THEN @ + 1 ELSE @,
                      !.pending = IF out THEN @ \cup {e.id} ELSE @]
    [] e.kind = "result" ->
         [t EXCEPT !.unresolved = @ \ {e.id}, !.pending = @ \ {e.id},
                   !.oosExec = IF e.id \in t.pending /\ ~e.error THEN @ + 1 ELSE @]
    [] OTHER -> [t EXCEPT !.complete = TRUE]

\* Feed, with the tally evaluated once.
Fed(t, e, tools) == CHOOSE n \in {Feed(u, e, tools) : u \in {t}} : TRUE

\* What the lines of a stream add up to, fed in order.
Tally(s, tools) ==
  LET tally[n \in 0 .. Len(s)] ==
        IF n = 0 THEN NoTally ELSE Fed(tally[n - 1], s[n], tools)
  IN tally[Len(s)]

-----------------------------------------------------------------------------
\* Mutant: the depth of the deepest delegation, not of what it ran.
Narrowed_Delegations(rec) ==
  [tools |-> rec.declared.tools \cap Executed(rec.facts.exercised),
   depth |-> Max({0} \cup {d.depth : d \in rec.facts.delegations})]

\* The narrowest surface a record supports: the tools it executed, and the
\* depth of its deepest executed call.
Narrowed(rec) ==
  LET ran == {c \in rec.facts.exercised : c.result = "ok"}
  IN [tools |-> rec.declared.tools \cap Executed(ran),
      depth |-> IF ran = {} THEN 0 ELSE Max({c.depth : c \in ran})]
=============================================================================
