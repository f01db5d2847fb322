------------------------------- MODULE Guard --------------------------------
(***************************************************************************)
(* scripts/guard_pretooluse.py: the hook that is asked before each tool    *)
(* call of an executor.  It looks for the operator's HALT file, bounds the *)
(* write tools to the declared scope and refuses destructive commands.     *)
(* Calls overlap, and HALT is placed at any time.  Paths are resolved ones *)
(* (os.path.realpath), sequences of names.                                 *)
(***************************************************************************)
EXTENDS Naturals, Sequences, SequencesExt, FiniteSetsExt

CONSTANTS
  Call,       \* the tool calls an executor makes
  Cwd,        \* the directories it works in: what a payload reports
  Project,    \* CLAUDE_PROJECT_DIR
  Repo,       \* the directories that hold .git
  HaltDir,    \* the directories an operator may place HALT in
  Scope,      \* HARNESS_SCOPE: the declared prefixes, relative paths
  Wanted,     \* what write tools are asked to write, below a repository
  NoDir       \* a payload without a cwd

ASSUME GuardAssumption ==
  /\ Project \in Repo /\ NoDir \notin Cwd \cup {Project}
  /\ Cwd \cup Repo \cup HaltDir \cup Scope \cup Wanted \subseteq Seq(STRING)

VARIABLES
  calls,      \* each call: its tool, what it says of itself, how far it is
  halts       \* where a HALT file stands

guardVars == <<calls, halts>>

Tool == {"write", "bash", "other"}

\* A call of which nothing is known but how far it is, and its tool.
Known(pc, tool) == [pc |-> pc, tool |-> tool, cwd |-> NoDir, file |-> <<>>,
                    destructive |-> FALSE, halted |-> FALSE]

GuardInit ==
  /\ calls = [c \in Call |-> Known("new", "other")]
  /\ halts = {}

-----------------------------------------------------------------------------
\* A directory and those above it, up to the first that holds .git.
ReposAbove(dir) == {k \in 0 .. Len(dir) : SubSeq(dir, 1, k) \in Repo}
Climb(dir) ==
  LET stop == IF ReposAbove(dir) = {} THEN 0 ELSE Max(ReposAbove(dir))
  IN {SubSeq(dir, 1, k) : k \in stop .. Len(dir)}

\* The roots looked from: the payload's cwd, then CLAUDE_PROJECT_DIR.  The
\* hook's own directory, the third, is the project's.
Candidates(c) == {calls[c].cwd, Project} \ {NoDir}

\* Mutant: the first candidate decides.
HaltEngaged_First(c) ==
  \E dir \in Climb(IF calls[c].cwd = NoDir THEN Project ELSE calls[c].cwd) : dir \in halts
HaltEngaged(c) == \E base \in Candidates(c) : \E dir \in Climb(base) : dir \in halts

\* repo_root: the first candidate's repository, or the candidate itself.
RepoRoot(cwd) ==
  LET start == IF cwd = NoDir THEN Project ELSE cwd
  IN IF ReposAbove(start) = {} THEN start ELSE SubSeq(start, 1, Max(ReposAbove(start)))

\* The file is one of the prefixes, joined to the root, or below it.
InScope(c) ==
  LET root == RepoRoot(calls[c].cwd)
  IN \E prefix \in Scope : IsPrefix(root \o prefix, calls[c].file)

\* HALT before all else, then the tool's own rule.
Refuses(c) ==
  \/ HaltEngaged(c)
  \/ calls[c].tool = "write" /\ ~InScope(c)
  \/ calls[c].tool = "bash" /\ calls[c].destructive

-----------------------------------------------------------------------------
At(c, pc) == calls[c].pc = pc

\* What may be proposed from a directory: a write, by absolute path as the
\* write tools have it, into its repository or the project; a command; any
\* other tool.
Proposals(cwd) ==
  {[tool |-> "write", file |-> root \o want, destructive |-> FALSE] :
     root \in {RepoRoot(cwd), Project}, want \in Wanted}
  \cup {[tool |-> "bash", file |-> <<>>, destructive |-> d] : d \in BOOLEAN}
  \cup {[tool |-> "other", file |-> <<>>, destructive |-> FALSE]}

Ask(c) ==
  /\ At(c, "new")
  /\ \E cwd \in Cwd \cup {NoDir} : \E call \in Proposals(cwd) :
       calls' = [calls EXCEPT ![c] =
         [pc |-> "asked", tool |-> call.tool, cwd |-> cwd, file |-> call.file,
          destructive |-> call.destructive, halted |-> Project \in halts]]
  /\ UNCHANGED halts

\* The hook answers.  What a call asked for is forgotten once it is over.
Decide(c) ==
  /\ At(c, "asked")
  /\ calls' = IF Refuses(c) THEN [calls EXCEPT ![c] = Known("refused", @.tool)]
              ELSE [calls EXCEPT ![c].pc = "allowed"]
  /\ UNCHANGED halts

\* An allowed tool runs, to success or to an error.
Run(c) ==
  /\ At(c, "allowed")
  /\ \E pc \in {"ran", "failed"} : calls' = [calls EXCEPT ![c] = Known(pc, @.tool)]
  /\ UNCHANGED halts

PlaceHalt ==
  /\ \E dir \in HaltDir \ halts : halts' = halts \cup {dir}
  /\ UNCHANGED calls

GuardNext == PlaceHalt \/ \E c \in Call : Ask(c) \/ Decide(c) \/ Run(c)

Refused(c) == At(c, "refused")
Past(c) == calls[c].pc \in {"refused", "ran", "failed"}

-----------------------------------------------------------------------------
\* "A worker cannot escape the kill-switch by working from a subdirectory"
\* (guard_pretooluse.py:14-17), nor from another repository: nothing is let
\* through that was asked for under the project's HALT.  A write let through is
\* below a declared prefix of the repository it was asked from, which is the
\* project's own when it was asked from inside the project or from nowhere, and
\* otherwise is not: from elsewhere the same prefixes bound that other tree.
RanWasAllowed ==
  \A c \in Call : At(c, "allowed") =>
    /\ ~calls[c].halted
    /\ ~calls[c].destructive
    /\ calls[c].tool = "write" =>
         \E prefix \in Scope : IsPrefix(RepoRoot(calls[c].cwd) \o prefix, calls[c].file)
=============================================================================
